# A verification project for cxlkvs

The repository measures key-value stores on CXL memory: a microbenchmark of its
own (C on Argobots user-level threads and io_uring, with a Python driver), and
scripts that run and analyse patched versions of Aerospike, CacheLib and
RocksDB. The third-party programs are not in the repository; what is, and
carries the logic, is the microbenchmark and the pipelines from a log to a
figure. This project models the microbenchmark from the pointer chain up to the
notebook that loads its results, the pipelines of the three stores from the
script that sweeps to the numbers in the figures, and the formulas the
measurements are compared with.

## 1. Inventory

| Component | Source | State | Operations | What is hard | What makes it correct |
|---|---|---|---|---|---|
| Pointer chain | `microbench/src/chain.c`, `chase_pointers` | index array, items of eight words, the walker's position | `create_pointer_chain`, `store`, `load`, walk | any value of `rand`; one wrong mask or bound gives a short cycle, and the built-in check is compiled out | one cycle through all items; no item twice in a walk; block address aligned and inside the file |
| Microbenchmark run | `run_threads`, `run_each_thread` in `main.c` | slices of `op_latencies`, `num_peeks`, pools of ready ULTs, one ring, descriptor and buffer per worker | split, create, join, report; setup, chase, submit, poll, check, record, teardown | kernel threads write one array without a lock; cooperative scheduling; completions at any time; `exit(1)` from anywhere | every operation measured once, in its place; rings used in turn; report only when complete; no lost wake-up |
| Microbenchmark report | `compare`, `run_mbench` | latencies, percentiles, sum | `qsort`, print | `long` to `int` in the comparison, truncated indices | a percentile has its rank |
| Microbenchmark process | `main`, `run_mbench`, `set_latency` | cached latency, device latency, log | set latency, build, run each line, reset | the device outlives the process, the cache does not; failures half way | a run is measured at the latency asked for; the chain is built and unmapped at latency 0 |
| Microbenchmark batch | `microbench/batch.py` | log directory, logs, records, JSON files | stages, `parse_output`, dumps | exit status ignored; stderr unbuffered in the same pipe; killed writers | records never mix runs silently, or we know which can; files are not replaced |
| Result parser | `notebooks/utils/microbench_parser.py` | records, keys, values | load, `get_perf`, `get_throughputs` (never reached) | types by key name | what was written can be read |
| Aerospike sweep | `aerospike/*.sh`, `aerospike_parser.py`, `aerospike_analyzer.py`, `aerospike.ipynb` | log, guessed latency index, tables | sweep, parse, group, maximum | the latency is guessed from a drop in the number of client threads; failures go unnoticed | every record under its latency, every figure from its own record |
| CacheLib logs | script in `README.md`, `cachelib_parser.py`, `cachelib_analyzer.py`, `cachelib.ipynb` | blocks, series, windows | set latencies, write a block a minute, be killed, parse, average | two clocks beside each other, neither in the log; time of day wraps; the last block is cut | series aligned; a window wholly at its latency |
| RocksDB sweep | `rocksdb/batch.py`, `rocksdb_parser.py`, `rocksdb.ipynb`, `multicore.ipynb` | header, built program, log tree, figures | patch, rebuild, run, interrupt, start again, parse names, draw | nothing is checked; directories are used again; one header carries the state | results under the configuration that was measured, and from the sweep that ended |
| Throughput model | `notebooks/utils/model.py`, `plot.py`, `microbench.ipynb` | none | closed formulas, normalised bars, calibration | the bars are divided by different first bars | best case not worse than worst case |
| Notebooks, plots, builds, configuration | rest of `*.ipynb`, `plot.py`, `build.sh`, `*.conf` | none of interest | presentation, compilation | none | not modelled |

How they interact: `batch.py` writes a parameter file and starts
`main ... 2>&1 | tee log`. `main` sets the device latency through a script,
builds the chain, and for every line of the file sets the latency and performs a
run; the run shares `op_latencies` and `num_peeks` with its workers. `batch.py`
reads the log when the pipe is closed and dumps records as JSON. The notebook
loads the files. The stores' pipelines share nothing with it but their shape: a
shell or Python script starts a benchmark many times and looks at no exit
status, a log or a tree of logs is all that is left, a parser takes it apart,
and a notebook shows the best throughput of each memory latency.

Behaviours that are hard to test are the entries of `hazards` in
`PROJECT.json`, each at its line and with the properties that watch it.

## 2. Modules

| Module | Models | Composition |
|---|---|---|
| `PointerChain` | `chain.c`, `chase_pointers`, the block address | stand-alone |
| `BenchmarkRun` | what a run promises its caller (abstract) | refined by `Microbench`, used by `MbenchProcess` |
| `Microbench` | `run_threads` and `run_each_thread` | `Abstract == INSTANCE BenchmarkRun` with a refinement mapping |
| `LatencyReport` | `qsort` with `compare`, percentiles, average | stand-alone |
| `RunLog` | the lines the driver reads back | extended by the two below |
| `MbenchProcess` | `main`, `run_mbench`, `set_latency`, the device | its runs are `INSTANCE BenchmarkRun` |
| `BatchPipeline` | `batch.py`, the pipe, the log, the load of the notebook | prints the `Transcript` that `MbenchProcess` is shown to print |
| `AerospikeSweep` | the measurement scripts, the log, `parse_logs`, tables and maxima | stand-alone |
| `RocksdbSweep` | `rocksdb/batch.py`, the log tree, the parser and the figures | stand-alone |
| `CachelibStats` | one run of cachebench beside the script, the parser and the windows | stand-alone |
| `ThroughputModel` | the formulas of `model.py`, the bars and the calibration | stand-alone |
| `PointerChainProofs`, `MicrobenchProofs`, `LatencyReportProofs`, `MbenchProcessProofs`, `BatchPipelineProofs`, `AerospikeSweepProofs`, `RocksdbSweepProofs`, `CachelibStatsProofs` | theorems | extend their module and `TLAPS`; `LatencyReportProofs` also extends `ThroughputModel` |
| `MC*` | constants for TLC | extend their module |

So the levels fit together by interfaces that are checked on both sides:
`Microbench` implements `BenchmarkRun`; `MbenchProcess` uses `BenchmarkRun` in
place of a run and shows that a process prints a prefix of `Transcript`, all of
it when it returns (`PrintsTranscript`); `BatchPipeline` starts from
`Transcript`.

Definitions whose comment begins "Mutant of" are not part of the model. Each is
a plausible slip in the definition that follows it, and `PROJECT.json` names
the property that notices it.

### PointerChain

`idx`, `chain` and `p` are the variables of the C code. `Fill`, `Shuffle` (one
iteration), `LinkFirst`, `LinkNext`, `LinkLast` are the build in its order;
`StartChase`, `Chase`, `EndChase` are `chase_pointers` for one walker, which
stands for all because the chain is only read once threads exist. `rand` is any
value; `malloc` leaves anything in `idx`. Items are eight words, each of eight
bytes: `Mask(k)` is what `store` keeps in word `k`, and `Load` joins the words bit
by bit as `|` does (`Or`), so that a mask is only wrong here where it is wrong in
the program. A byte has `Base` values: 256 in the code, 2 for TLC, any number from 2
to 256 in the proofs. The disabled check of `chain.c:76-105` is what
`ChaseNeverRepeats` and `FullLap` state. Size 2 and larger are covered: with a
smaller size the unsigned `size - 2` wraps, and `batch.py` builds chains of 2
and of 2^30 items. The assumption `NumChases < Size` holds for what `batch.py`
asks of `num_chases` except one more by fluctuation, which the properties allow.

### Microbench

One action per stretch of code in which a user-level thread (ULT) runs without
giving up its stream or touching what others see: `OpBegin` to the next
`ABT_thread_yield`, and so on. Streams (`running[x]`, `pool[x]`) interleave
freely. What the code relies on of its libraries is modelled and marked
external: a stream takes the first ULT of its FIFO pool, `ABT_thread_yield`
appends the caller, join suspends the main ULT until the joined worker ends
(which may wake it at either end of the pool), and the device completes a
submitted request at any time with a full, short or failed result. `exit(1)` and
a fatal signal end the process at once from any ULT: `status` becomes `failed`
or `crashed`.

`latency[o]` records who wrote entry `o` and after how many operations of its own,
which stands for the time: no two measurements are the same value, and a second one
in the same entry shows. `NotWritten` is what `malloc` returned. `behind[t]` is a
history variable: who was ready when `t` prefetched and has not run since. With
`IoMode = 0` the code destroys an uninitialised ring (`main.c:213`); `Closed` and
`FinishCrashes` are the outcomes that can have.

### LatencyReport

`Compare` computes modulo `Word` as the conversion to `int` does. `qsort` may
return any rearrangement without neighbours out of order for `Compare`, also
where that is not an order. Runs have at least one operation: the program takes
0 as well, reads an entry that is not there and divides by 0. Quantiles are integers
in hundred-thousandths, and `Index` is the truncated product; the `double`
product of the code can only differ where `count * q` is within a rounding
error of an integer.

### MbenchProcess

`device` survives processes, `prev` does not. `SetLatency` sets its cache before
the script runs, as the code does, and a failing script leaves the device at the
old or the new latency. `RunRecords`, `RunReports`, `RunAborts` are the actions
of `BenchmarkRun`. A parameter file is a sequence of latencies and of `Bad`
lines that do not hold ten numbers and are skipped.

### BatchPipeline

The lines of a run break into pieces; `Flush` moves any number of pieces from the
stdio buffer to the log. Error messages bypass the buffer: the benchmark's own,
after which `exit` flushes it (`ExitsWithMessage`), and any number of those of the
latency script, which inherits the standard error (`ScriptWarns`, `main.c:296`). A
signal may come at any time and loses the buffer (`Killed`). `parse_output` is
defined as the code behaves: a record is made at a line with the polls per I/O, and
takes for every variable the last match before it (`Held`); a regular expression
matches a line whose pieces are not separated, but the last one is satisfied with a
number cut short. `StagesAssumption` says that the stages of one results file follow
each other, as those of `batch.py:171-221` do: the script writes each of its three
files once, directly after the last of the stages whose records it holds
(`batch.py:177`, `186`, `220`), which is where `Dump` writes it. `Interrupt` may
come in the middle of that and leave a file that is not whole; it stays as it is,
because the log directory exists when `batch.py` is started again.

### AerospikeSweep

The scripts append one section to the log for every run of the load generator. A run
may fail after it has printed its settings ("silent"), in the middle of them ("cut")
or before ("missing", "no load"), the latency script may fail ("trigger"), and a
whole script ends at once when the scaling governor is not "performance"
(`WrongGovernor`); nobody notices. `at`, `step` and `server` of a section are not in
the log: they are what the analyzer should find out. `Drops` and `Moves` define its
guess without the loop variables: it moves on at every measurement whose predecessor
in the log had more client threads. `curLatency` survives from log to log, and the
logs are read in any order, because `glob` promises none. `Throughputs` is the table
of a latency, where a later record replaces an earlier one in its place;
`MaxThroughput` is the bar, which the code collects beside the table and which
therefore counts a replaced record too. `Rate` is whatever figure a workload prints.
`ListsAssumption` is what the configuration files and the loops of the scripts have
in common: client threads ascend, the first two numbers are below the 256 threads of
the load, no latency is listed twice.

### RocksdbSweep

The loop variables of the script are `mix`, `core`, `thr` and `lat`; `Truncate`,
`Write` and `Build` are the three steps of `change_num_cores`, with the text of the
header in `data` between them; `Launch` and `Finish` are one job. The loops are
total orders, so that `Advance` is one of five steps. `Lost` is a header without its
number: `open(..., 'wt')` empties it before it is written, and from an empty header
the substitution makes an empty header. A build that fails leaves the old program or
none (`compiled` remembers that), a job may not be started by the shell (`ulimit`
fails; `skipped` remembers it), and a log may end without figures. `Interrupt` ends
the script anywhere and `Start` begins again at the first job, with the tree and
header it finds. In `tree`, `by` and `sweep` say which program and which sweep a log
is from, and `compiled` whether the build before it went through; the log itself
does not. The parser's `stats` is a function of `Key`; a log without a throughput
counts as 0, a directory without a log ends the parser (`Parsed`). `Notebook` may
run whenever the script does not, draws the figures before the first `KeyError`
(`Bars` keeps the rates, which the first figure divides by its first bar) and dumps
the second as `rocksdb.json`, which `multicore.ipynb` reads by position.

### CachelibStats

`Minute` writes a block, or lets it slip to the next minute; `SetLatency` is the
script of `README.md:233-241` beside it, whose sleeps may be late and whose
commands may fail; a run ends by the script's `killall` or by any signal before,
in the middle of a block. A block says neither its latency nor its date: `at` is
the set of latencies since the block before. The parser keeps one series for
each item and the time since the first block; the date it adds is that of the
parsing, asked for at each line, so that midnight may pass between two lines
(`ElapsedTimes(m)`). `Slice` is Python's, with negative and excessive bounds,
because one expression serves for runs in DRAM (from the end) and with CXL (from
a base time).

### ThroughputModel

The three closed cases of `model.py`, the bars of `plot_with_models` and the
calibration of `microbench.ipynb`, over integers, in any unit (`dram_latency` is
the 100 ns that the plots draw for DRAM): times are multiplied by
`num_prefetches` instead of divided, which leaves order and ratios as they are.
There is no state and no run; the theorems, in `LatencyReportProofs`, are the check.

## 3. Runs

| Run | Configuration | Shows |
|---|---|---|
| `pointer_chain` | 6 items, base 2, walks of 4 to 6 links, file of 11 with accesses of 4 | every shuffle gives one cycle; addresses legal |
| `mbench_read` | 4 reads, 3 workers, 2 streams, prefetch, all faults | safety of a run under every interleaving and fault; `ImplementsBenchmarkRun` with liveness |
| `mbench_one_core` | 3 reads, 3 workers, 1 stream, no faults | overlap of prefetches; the report eventually comes |
| `mbench_no_io` | 5 operations, 3 workers, 2 streams, `io_mode` 0 | uneven slices, and what closing an unopened ring may do |
| `mbench_stdin` | 1 operation, 2 workers, `io_mode` 0 | violation: descriptor 0 is closed |
| `latency_report` | up to 4 latencies in 0..5, `int` of 8 values | percentiles have their rank as long as `compare` can tell the latencies apart; the average is right always |
| `mbench_process` | 2 processes, latencies 0, 5, 9, four files, all faults | latencies and transcript |
| `batch_pipeline` | stages of 3, 1 and 1 runs into 2 files, all faults, up to 2 script messages a log and one of the benchmark, 2 starts | what a log cut anywhere can do to records |
| `batch_notebook` | one run, no faults | violation: the notebook cannot load the file |
| `aerospike_sweep` | 2 logs, 3 latencies, 3 numbers of client threads, 2 failures of any call or script | where a measurement is filed when others fail, and which figures survive |
| `rocksdb_sweep` | 2 numbers of cores, 2 of threads, latencies 0 and 1000, 1 kind of failure, 2 starts, interrupts anywhere | how far a failed build, a job not started and an interrupt reach in logs and figures |
| `cachelib_stats` | 2 latencies of 4 minutes after 1 before, windows of 2 of the 4, days of 7 minutes, 2 slips, 2 late minutes | windows lie on their latency; time and series |

Bounds and why they are enough. Six items give the 24 orders the shuffle can
produce, and the proofs cover every size. Three workers on two streams put two
workers on one stream (they yield to each other) and one on the other (true
concurrency); 4 and 5 operations do not divide by 3. One chase, give or take one,
includes 0 (no yield before the I/O) and 2 (two yields). `MaxPeeks` stops
`num_peeks` from counting at 2, no fewer than the operations a worker has in these
runs, so that `PeeksAccounted` is not vacuous. `MaxLatency = 5` with `Word = 8` has
runs whose differences fit an `int` and runs in which `compare` goes wrong, which is
the case that `Comparable` tells apart. Two processes are enough for the device to
be left at any latency by the first and found by the second; the device starts at
any latency as well. Three numbers of client threads are the fewest for which one
missing run leaves a drop between two latencies; with two failures the drop can
vanish. All configuration files have at least seven. `MaxStarts = 2` is the second
start of `microbench/batch.py` and of `rocksdb/batch.py`. `MaxMessages = 2` lets the
latency script spoil two records of a stage of three runs, and with the message of
the benchmark at its end all of them.

`rocksdb_sweep`: two numbers of cores are enough for a program, a header and a
log to disagree, and with `MixCores = 1` below the last entry the read-write mix
has to build again, which the code never needs with its own lists; the proofs
cover both. A header that is lost makes every build fail whatever `MaxFaults`
allows. `RateOf` makes the best rate of a bar that of neither the first nor the
last job, and gives every job another, so that a bar from the wrong place shows.
`cachelib_stats`: a minute stands for five to ten of the real ones. The
windows keep the proportions that matter: a latency is longer than a window by
something at both ends, so that the slips and delays the property allows, and one
more of each, both occur. A day of 7 minutes wraps once or twice in a run of 13,
from two times of day.

`CHECK_DEADLOCK FALSE` is set where the program really stops: the report printed,
the last process ended, `batch.py` returned. `Microbench` has an explicit step
`Terminated` instead, so there a deadlock of the run would be reported.

Fairness. `Microbench`: weak fairness of what each stream executes next (the
kernel keeps running its thread) and of the device's answer to each request. The
FIFO pool is part of the model, so no fairness among ULTs is assumed. Weak
fairness of a stream's steps includes its error exits, which end the run.
`MbenchProcess`: the program keeps taking steps; nothing is assumed of the user, of
signals or of faults. `BatchPipeline` and the sweeps have no liveness property and
assume no fairness: `subprocess.run` has no timeout (`batch.py:154`), so a benchmark
that hangs hangs the script, the user may interrupt it at any time, and otherwise
it is a straight line or a loop bounded by construction.

## 4. Findings

- `io_mode 0` closes standard input and destroys an uninitialised ring
  (`main.c:211-213`); the usage says "io_mode 0: no IO" (`main.c:419`). Run
  `mbench_stdin`.
- The notebook of the microbenchmark cannot load what `batch.py` writes:
  `num_peeks` has a decimal (`main.c:363`), `microbench_parser.py:17-23` casts
  it to `int`. Run `batch_notebook`.

Seen on the way and not counted as findings, because nothing in the repository
promises otherwise or because no model is needed to see it:

- A short write counts as a success (`main.c:196`), latencies more than 2.1
  seconds apart are sorted wrongly (`main.c:311`; `RanksRight` holds for the
  runs without), and a count of 0 is accepted and divides by 0 (`main.c:358`).
- `README.md:96` starts `batch.py` without the block device it requires
  (`batch.py:162-164`).
- An error message in the middle of a line makes one record of that stage carry
  a value of the run before (`OneSpoiltRecord` shows that a message spoils no more
  than one, `RecordsOfOneRun` that it is the one whose line it stands in).
- A benchmark that hangs hangs `batch.py`, and an interrupt while it writes a JSON
  file leaves one that no parser reads and no later start replaces.
- A single Aerospike measurement that fails at the start of a latency after it
  has printed its settings moves the whole rest of its log to another latency;
  `FiguresAsMeasured` holds only for a single failure that leaves no trace.
- An interrupt between the truncation and the write of the RocksDB header loses
  the pattern that is replaced: no later start finds it, and every build fails
  from then on. `MeasuredAsNamed` and `FiguresRight` speak of logs from after a build
  that went through only.
- A day of CacheLib's log that passes midnight while it is parsed has times that
  jump by a day (`ElapsedTime` states exactly when).
- The windows of the CacheLib notebook end before the time at which a latency
  changes, so `CXL_LATENCY_CHANGE_TIME_BASE` has to be the end of the first
  latency, not its start; the example of `README.md` leaves this open.
- The bars of the best and the worst case are each divided by their own first
  bar. If the 100 ns drawn for DRAM are not hidden, the worst case may appear
  above the best; `BarsOrdered` names the condition.

## 5. Proofs

TLAPS checks the theorems for every value of the constants that satisfies the
named assumptions of the modules.

**PointerChainProofs.** The inductive invariant describes the construction: `idx` is
a permutation of `1 .. Size-1` from `Fill` on (kept by `Swap`), entries the shuffle
has passed are away from their first place, and during linking the items up to `i`
follow the order of `idx`. A walk then moves along *places* in this order, modulo
`Size`, so `used` is an interval of places; that is why `ChaseNeverRepeats` and
`FullLap` follow, and why neither is inductive alone. `LoadStore` shows that the
eight words restore every number that fits eight bytes (`NumberOfBytes`: the bytes
make up the number again; `OrZero`: `|` with zero bytes changes nothing), for every
base up to 256. `AccessInsideFile` needs `AccessSize <= FileSize` only.

**MicrobenchProofs.** `IInv` adds to the type invariant: what the splitting loop
has done so far (slices are the intervals between `Count * t \div NumThreads`),
which workers have been created, that the results of a worker are the first
`done[t]` entries of its slice, the ring discipline, that created workers have a
counted number of polls, and that workers the main ULT has passed over in the
join have ended. From it: `TypeCorrect`, `SlicesCorrect`, `ResultsInOrder`,
`RingsDisciplined`, `PeeksCorrect`, `ReportsAreComplete`, the action property
`ResultsKept`, and `Implements`: every step of a run is a step of `BenchmarkRun`
or a stutter. `BoundsCover` and `BoundsDisjoint` carry the arithmetic of the
split.

`ScheduledOnce` needs its own strengthening, `SchedInv`: the pools hold every
ready ULT once, nobody else is in a pool, and a waiting main ULT is in none;
taking the head of a pool and appending to it keep this. `PrefetchOverlapped`
rests on the pools being FIFO: whoever was ready when a worker prefetched is
still in front of it in the pool, or has run (`behind` shrinks from the front).

**LatencyReportProofs.** `CompareOrders`: the truncating comparison is right as long
as latencies differ by less than half the range of an `int`. `ReadsInside`: an index
of a percentile is inside the array for every count of at least one. With the first,
`PercentilesHaveRank` holds for every count and every run no two of whose latencies
are `Half` apart (`Comparable`), which is 2.1 s in the code and without which it is
false; latencies themselves are not bounded. `SumAgreesWithPercentiles` says without
that condition that the sum printed is the sum of what was measured, because `qsort`
only rearranges (`SumPermuted`), and with it that the percentiles fit the sum.
`ReportInv` says that the sorted array is a rearrangement (a bijection of places)
and ascends, `RankCount` counts the entries on each side of a place, and `SumExists`
and `SumBound` give what `FoldFunction` adds up, by induction over the number of
entries. The theorems on `ThroughputModel` follow at the end of the module:
`BestNotSlower`, `TimesRise`, `LatencyHidden` give order and monotony of the cases;
`BarsOrdered` and `CalibrationExact` say under which condition the figure keeps this
order and the first bars agree with the measurement.

**MbenchProcessProofs.** `IInv` joins `CacheTruthful` with what the cache holds
at each place entered through `set_latency` (`CacheInv`). `SetLatencyStep` is the
heart: either the cache was right and nothing happens, or the script has set the
device, or the process is over. `MeasuredAsRequested` and `FastOutsideRuns` follow
from the two together and from neither alone. `TranscriptPrinted` counts
(`PrintInv`): the number of the run is the number of good lines read so far, and the
place in the run fixes how many lines have been printed (`PrintedLines`).

**BatchPipelineProofs.** The four lines of a run have nine pieces, so the pieces a
benchmark prints can be counted: `PieceAt(q)` is the `q`-th, `FirstOf(run, kind)`
the place of a line's first piece. `Streams(l, n, p)` says that a log shows the
first `n` pieces in order, at places `p`, and nothing else but messages, any number
of them between any two. `StreamInv`: while the benchmark runs, the log streams some
pieces and the buffer holds the next ones, up to the lines printed. `LogInv`: so
does a log that is parsed, and it shows all pieces if every line was printed and the
buffer is empty. From it by arithmetic: a line is read if its first two pieces stand
side by side (`MatchesIs`); where two pieces of a line do not, a message does
(`Behind`, `TornAt`); so a record takes each value of its own run unless a message
has torn one of that run's lines (`HeldIs`, `RecordIs`), which is
`RecordsAreOfOneRun`. Records of different runs are torn by different messages
(`TornCount`, an injection), which is `OneRecordIsSpoilt`. `ResultsInv`: the records
of a stage ascend by run, no more of them are spoilt than its log has messages, and
there are none of a stage before it has been parsed; that carries both facts over to
lists of several stages, hence `RunsAppearInOrder`. `ReturnedRunsAreRecorded`
follows from the second half of `LogInv`. `JsonInv`: a file on the disk belongs to a
stage before and no stage to come writes it, for which `FilesAreKept` needs that the
stages of a file follow each other; a file that an interrupt left half written is
kept as well, because no start gets past the log directory.

**AerospikeSweepProofs.** In a log the steps of the sweep ascend and, within a step,
so do the client threads, whatever fails (`OrderInv`). Two drops therefore are never
in one step, so that the number of drops up to a workload is at most its step
(`MovesAre`, an injection from drops to steps): that is `LatenciesSuffice`, and with
the place of a workload in its log being unique it is `MisfilingGoesBack`. For
`FiguresHold` the drops must not be fewer than the steps either. With one failure
without a trace every step still has a drop (`DropsInv`), because the last section
before a step has more client threads than the first that is recorded in it
(`TailInv`, where the assumption on the load's threads and on three numbers of
client threads is used). Then every workload is filed under its own step
(`FiledMild`), a cell of a table belongs to one workload (`OneCell`), a table is a
finite nonempty set, and `TriggerInv` names the one step of one log that a latency
script that failed can have spoilt. The theorem assumes that rates are natural
numbers.

**RocksdbSweepProofs.** `CoresInv` follows the number of cores on its way from the
loop through the text in memory and the header into `db_bench`: if the last build
went through it is the loop's, whatever failed before. With it `MeasuredAsNamed`
holds for all lists, including the mix that runs the program of the last number of
cores without a build. `FreshInv` says that every job the loops are past is from the
sweep that is going on, or was not started by the shell; `AdvancePasses` shows that
a step of the loops passes exactly the current job, and `JobReached` that the loops
reach every job of the lists, which gives `NoStaleLogs`. For `BarsAreRight`: the
logs of a bar that are from after a build that went through have the rate of the
program their name promises (`MeasuredAsNamed`); `KeysDiffer`, that no two jobs of
the lists have the same key in the parser's dictionary although the latency is
shortened in it (`LatencyShown`). The set of rates a bar is the best of is then that
of its own jobs; the maximum itself never has to be looked into.

**CachelibStatsProofs.** Block `j` is written in one of the minutes `j` to `j` plus
the slips so far, and latency `i` is set no earlier than planned and no more than
the late minutes after it. These bounds at the time at which a block is appended
(`MeasuredInv`) are what `WindowsMeasureOneLatency` needs: a window that keeps the
margins on both sides lies between two changes of latency. `SeriesStayAligned` and
`OnlyWholeBlocksAveraged` follow from what a cut block can leave in each series; the
second excludes CXL runs that end before their script ends them, or with more slips
than the margin, whose cut block a window may reach. `TimesAreElapsed` follows from
arithmetic modulo the length of a day.

Only model-checked: what happens eventually under fairness (`ReportsEventually`,
`ProcessEnds` and the liveness part of `ImplementsBenchmarkRun`),
which this prover cannot do, and the two violations. Every invariant and every
safety action property of the passing runs is a theorem. Induction over data is
limited to sets: a theorem of the library that takes an operator as a parameter
cannot be used, but a set of numbers has a least element (`NatLeast`), from which
the modules prove induction for a set of numbers (`NatSetInduction`) and with it
what `FoldFunction` adds up. There are no RECURSIVE operators.

Each invariant a proof uses was first checked by TLC on the configuration of its
component's run. In `AerospikeSweep` this showed that the section written while the
data of a second server were loaded carried the step of the sweep before; the loop
variables of the script are now reset when it ends.

## 6. Plan

What would come next:

1. The steps of `MbenchProcess` and of `BatchPipeline` joined by a refinement: the
   buffer and log of the one as an implementation of the transcript of the other.
   Today they meet in `Transcript` only.
2. The converse of `WindowsMeasureOneLatency`: with one more slip than the margin a
   window does leave its latency, for every plan.

Not modelled, and why:

- Clocks, spin loops and the figures themselves: no control depends on them.
- Argument parsing beyond the two ways of calling the microbenchmark.
- `get_perf` and `get_throughputs` of `microbench_parser.py`: the load before them
  fails on every file with a record (run `batch_notebook`), so that no state the
  program can be in reaches them.
- Waiting for the queues of the Aerospike server: what it waits for is decided by
  the server, which is not in the repository.
- CacheLib's best over the numbers of threads, and the configuration file that
  `benchmark.sh` puts together; the percentiles that RocksDB's parser reads from
  the lines beside the throughput.
- The probabilistic case of `model.py`: sums of binomials times powers of
  fractions up to a tolerance, out of reach of TLC's integers and of the provers.
- Heat maps, axes and labels; build scripts, `gen_database.sh` and configuration
  files; the key-value stores, which are fetched from elsewhere.
