----------------------------- MODULE RocksdbSweep -----------------------------
(***************************************************************************)
(* The RocksDB measurement: rocksdb/batch.py patches the number of cores   *)
(* into a header, rebuilds db_bench and runs it for every memory, latency  *)
(* and number of threads, each job into a directory named for it.          *)
(* notebooks/utils/rocksdb_parser.py takes the names apart, and the        *)
(* notebooks rocksdb.ipynb and multicore.ipynb show the best throughputs.  *)
(*                                                                         *)
(* The script looks at no exit status, and a user may interrupt it at any  *)
(* time and start it again.  A log names neither the program nor the sweep *)
(* it comes from; by, compiled and sweep are in the model to say what it   *)
(* is about.                                                               *)
(***************************************************************************)
EXTENDS Integers, Sequences, FiniteSetsExt

CONSTANTS
  NumCoresList,        \* NUM_CORES_LIST, of the script and of the notebooks
  ThreadsPerCoreList,  \* NUM_THREADS_PER_CORE_LIST
  MixThreadsList,      \* threads of the read-write mix (1024, 2048)
  MixCores,            \* cores of the read-write mix (16)
  LatencyList,         \* LATENCY_LIST of the script
  NotebookLatencies,   \* LATENCY_LIST of the notebook: 0 stands for DRAM
  CxlLatency,          \* CXL_LATENCY of multicore.ipynb
  Renamed,             \* what the parser calls latency 0 of a CXL job (500)
  Rate(_, _),          \* throughput of a job with the program for some cores
  MaxFaults,           \* bound: kinds of failures, each once
  MaxStarts            \* bound: starts of the script

Elements(s) == {s[i] : i \in 1 .. Len(s)}

ASSUME ListsAssumption ==
  /\ \A s \in {NumCoresList, ThreadsPerCoreList, MixThreadsList, LatencyList} :
       s \in Seq(Nat) /\ Len(s) > 0
  /\ \A i, j \in 1 .. Len(NumCoresList) :
       NumCoresList[i] = NumCoresList[j] => i = j
  /\ 0 \notin Elements(NumCoresList) /\ MixCores \in Elements(NumCoresList)
  /\ Renamed \in Nat \ {0} /\ Renamed \notin Elements(LatencyList)
  /\ Elements(NotebookLatencies) = {0, Renamed} \cup (Elements(LatencyList) \ {0})
  /\ CxlLatency \in Elements(NotebookLatencies)
ASSUME BoundsAssumption == MaxFaults \in Nat /\ MaxStarts \in Nat

Job(test, cores, threads, memory, latency) ==
  [test |-> test, cores |-> cores, threads |-> threads,
   memory |-> memory, latency |-> latency]

Memories == {<<"dram", 0>>} \cup {<<"cxl", l>> : l \in Elements(LatencyList)}

(* The jobs that the lists of the script stand for.                        *)
Jobs ==
  {Job("readrandom", c, t * c, m[1], m[2]) : c \in Elements(NumCoresList),
      t \in Elements(ThreadsPerCoreList), m \in Memories}
  \cup {Job("readrandomwriterandom", MixCores, t, m[1], m[2]) :
          t \in Elements(MixThreadsList), m \in Memories}

Lost == 0            \* the header is cut: it has no number and does not compile
NoProgram == 0       \* there is no db_bench
NoLog == [state |-> "none", by |-> NoProgram, compiled |-> FALSE, sweep |-> 0]

VARIABLES
  pc,        \* "off", "patch", "write", "build", "bench", "running", "done"
  mix,       \* whether the read-write mix has begun
  core,      \* entry of NumCoresList
  thr,       \* entry of ThreadsPerCoreList or MixThreadsList
  lat,       \* entry of LatencyList, 0 for DRAM
  starts,    \* starts of the script
  data,      \* number of cores in the patched text of the header
  env,       \* number of cores in the header on disk
  built,     \* number of cores of db_bench
  compiled,  \* whether the last build went through               (history)
  tree,      \* job -> its directory: "none", "directory", "empty", "full"
  skipped,   \* jobs of this sweep that the shell did not start   (history)
  faults,    \* what has failed                                    (history)
  shown,     \* figures of the last run of the notebook
  json       \* rocksdb.json

loopVars == <<pc, mix, core, thr, lat>>
shownVars == <<shown, json>>
programVars == <<built, compiled>>
treeVars == <<tree, skipped>>
vars == <<loopVars, starts, data, env, programVars, treeVars, faults, shownVars>>

Cores == IF mix THEN MixCores ELSE NumCoresList[core]
Threads == IF mix THEN MixThreadsList[thr] ELSE ThreadsPerCoreList[thr] * Cores
ThreadsList == IF mix THEN MixThreadsList ELSE ThreadsPerCoreList

CurrentJob ==
  IF lat = 0
  THEN Job(IF mix THEN "readrandomwriterandom" ELSE "readrandom",
           Cores, Threads, "dram", 0)
  ELSE Job(IF mix THEN "readrandomwriterandom" ELSE "readrandom",
           Cores, Threads, "cxl", LatencyList[lat])

Fails(kind) ==
  /\ kind \notin faults /\ Cardinality(faults) < MaxFaults
  /\ faults' = faults \cup {kind}

-----------------------------------------------------------------------------
(* change_num_cores                                                        *)

(* The header is read and opened for writing, which empties it; where the  *)
(* pattern is missing, the substitution changes nothing.                   *)
Truncate ==
  /\ pc = "patch"
  /\ data' = (IF env = Lost THEN Lost ELSE Cores)
  /\ env' = Lost
  /\ pc' = "write"
  /\ UNCHANGED <<mix, core, thr, lat, starts, programVars, treeVars, faults, shownVars>>

Write ==
  /\ pc = "write"
  /\ env' = data
  /\ pc' = "build"
  /\ UNCHANGED <<mix, core, thr, lat, starts, data, programVars, treeVars, faults, shownVars>>

(* A build that fails leaves the old program, or none.                     *)
Build ==
  /\ pc = "build"
  /\ \/ env # Lost /\ built' = env /\ compiled' = TRUE /\ UNCHANGED faults
     \/ /\ built' \in {built, NoProgram} /\ compiled' = FALSE
        /\ \/ Fails("rebuild")
           \/ env = Lost /\ faults' = faults \cup {"rebuild"}
  /\ pc' = "bench"
  /\ UNCHANGED <<mix, core, thr, lat, starts, data, env, treeVars, shownVars>>

-----------------------------------------------------------------------------
(* run_benchmark and the loops around it                                   *)

NextLatency ==
  /\ lat < Len(LatencyList)
  /\ lat' = lat + 1 /\ pc' = "bench"
  /\ UNCHANGED <<mix, core, thr>>

NextThreads ==
  /\ lat = Len(LatencyList) /\ thr < Len(ThreadsList)
  /\ thr' = thr + 1 /\ lat' = 0 /\ pc' = "bench"
  /\ UNCHANGED <<mix, core>>

NextCores ==
  /\ lat = Len(LatencyList) /\ thr = Len(ThreadsList)
  /\ ~mix /\ core < Len(NumCoresList)
  /\ core' = core + 1 /\ thr' = 1 /\ lat' = 0 /\ pc' = "patch"
  /\ UNCHANGED mix

(* Mutant of BeginMix: the program is taken to be the right one.           *)
BeginMixUnbuilt ==
  /\ lat = Len(LatencyList) /\ thr = Len(ThreadsList)
  /\ ~mix /\ core = Len(NumCoresList)
  /\ mix' = TRUE /\ thr' = 1 /\ lat' = 0 /\ pc' = "bench"
  /\ UNCHANGED core

BeginMix ==
  /\ lat = Len(LatencyList) /\ thr = Len(ThreadsList)
  /\ ~mix /\ core = Len(NumCoresList)
  /\ mix' = TRUE /\ thr' = 1 /\ lat' = 0
  /\ pc' = IF NumCoresList[core] # MixCores THEN "patch" ELSE "bench"
  /\ UNCHANGED core

EndSweep ==
  /\ lat = Len(LatencyList) /\ thr = Len(ThreadsList) /\ mix
  /\ pc' = "done"
  /\ UNCHANGED <<mix, core, thr, lat>>

Advance == NextLatency \/ NextThreads \/ NextCores \/ BeginMix \/ EndSweep

NewLog ==
  [state |-> "empty", by |-> built, compiled |-> compiled, sweep |-> starts]

(* Mutant of Launch: a job whose directory exists is taken for done.       *)
LaunchResuming ==
  /\ pc = "bench"
  /\ IF tree[CurrentJob].state = "none"
     THEN /\ pc' = "running"
          /\ tree' = [tree EXCEPT ![CurrentJob] = NewLog]
          /\ UNCHANGED <<mix, core, thr, lat>>
     ELSE Advance /\ UNCHANGED tree
  /\ UNCHANGED <<starts, data, env, programVars, skipped, faults, shownVars>>

(* The directory is made; benchmark.sh empties the log in it, unless the   *)
(* shell never starts it.                                                  *)
Launch ==
  /\ pc = "bench"
  /\ \/ /\ pc' = "running"
        /\ tree' = [tree EXCEPT ![CurrentJob] = NewLog]
        /\ UNCHANGED <<mix, core, thr, lat, skipped, faults>>
     \/ /\ Fails("no log") /\ skipped' = skipped \cup {CurrentJob}
        /\ tree' = [tree EXCEPT ![CurrentJob].state =
                      IF @ = "none" THEN "directory" ELSE @]
        /\ Advance
  /\ UNCHANGED <<starts, data, env, programVars, shownVars>>

(* db_bench prints its figures at its end, if it gets there.               *)
Finish ==
  /\ pc = "running"
  /\ \/ /\ built # NoProgram
        /\ tree' = [tree EXCEPT ![CurrentJob].state = "full"]
        /\ UNCHANGED faults
     \/ built = NoProgram /\ UNCHANGED <<tree, faults>>
     \/ Fails("no figures") /\ UNCHANGED tree
  /\ Advance
  /\ UNCHANGED <<starts, data, env, programVars, skipped, shownVars>>

-----------------------------------------------------------------------------
(* The user                                                                *)

(* The variables of the script are gone; a build may have got anywhere.    *)
Interrupt ==
  /\ pc \notin {"off", "done"}
  /\ pc' = "off" /\ mix' = FALSE /\ core' = 1 /\ thr' = 1 /\ lat' = 0
  /\ data' = Lost
  /\ built' \in (IF pc = "build" THEN {built, NoProgram, env} ELSE {built})
  /\ UNCHANGED <<starts, env, compiled, treeVars, faults, shownVars>>

Start ==
  /\ pc \in {"off", "done"} /\ starts < MaxStarts
  /\ starts' = starts + 1
  /\ pc' = "patch" /\ mix' = FALSE /\ core' = 1 /\ thr' = 1 /\ lat' = 0
  /\ skipped' = {}
  /\ UNCHANGED <<data, env, programVars, tree, faults, shownVars>>

-----------------------------------------------------------------------------
(* The parser                                                              *)

(* Mutant of ShownLatency: the setting of the job is shown.                *)
ShownSetting(j) == j.latency

ShownLatency(j) ==
  IF j.memory = "cxl" /\ j.latency = 0 THEN Renamed ELSE j.latency

Key(j) == <<j.test, j.cores, ShownLatency(j), j.threads>>

Directories == {j \in Jobs : tree[j].state # "none"}

(* _parse_file: 0 unless the log has a line with a throughput.             *)
Throughput(j) == IF tree[j].state = "full" THEN Rate(j, tree[j].by) ELSE 0

(* _parse ends with FileNotFoundError where a directory has no log.        *)
Parsed == \A j \in Directories : tree[j].state # "directory"

Stats == [k \in {Key(j) : j \in Directories} |->
            Throughput(CHOOSE j \in Directories : Key(j) = k)]

(* get_max_throughput: 0 for a latency that was not measured.              *)
MaxThroughput(stats, test, cores, latency) ==
  Max({0} \cup {stats[k] : k \in {k \in DOMAIN stats :
                             k[1] = test /\ k[2] = cores /\ k[3] = latency}})

(* stats[test][cores] raises KeyError if nothing was measured there.       *)
Known(stats, test, cores) == \E k \in DOMAIN stats : k[1] = test /\ k[2] = cores

-----------------------------------------------------------------------------
(* The notebooks                                                           *)

(* The figures of rocksdb.ipynb, in its order; the second one is dumped.   *)
Figures ==
  << [test |-> "readrandom", cores |-> <<NumCoresList[1]>>],
     [test |-> "readrandom", cores |-> NumCoresList],
     [test |-> "readrandom", cores |-> <<MixCores>>],
     [test |-> "readrandomwriterandom", cores |-> <<MixCores>>] >>

(* The rates themselves; the first figure divides them by its first bar.   *)
Bars(stats, f) ==
  [l \in Elements(NotebookLatencies) |->
     [c \in 1 .. Len(f.cores) |-> MaxThroughput(stats, f.test, f.cores[c], l)]]

(* The figures in front of the first one that raises KeyError.             *)
Drawn(stats) ==
  {n \in 1 .. Len(Figures) :
     \A m \in 1 .. n : \A c \in Elements(Figures[m].cores) :
       Known(stats, Figures[m].test, c)}

Notebook ==
  /\ pc \in {"off", "done"} /\ Parsed
  /\ LET stats == Stats
     IN  shown' = [n \in Drawn(stats) |-> Bars(stats, Figures[n])]
  /\ json' = IF 2 \in DOMAIN shown' THEN shown'[2] ELSE json
  /\ UNCHANGED <<loopVars, starts, data, env, programVars, treeVars, faults>>

(* multicore.ipynb: list of rocksdb.json against NUM_CORES_LIST.           *)
Multicore == [c \in 1 .. Len(NumCoresList) |-> <<NumCoresList[c], json[CxlLatency][c]>>]

-----------------------------------------------------------------------------
Init ==
  /\ pc = "off" /\ mix = FALSE /\ core = 1 /\ thr = 1 /\ lat = 0
  /\ starts = 0 /\ data = Lost
  /\ env = NumCoresList[1] /\ built = NumCoresList[1]
  /\ tree = [j \in Jobs |-> NoLog]
  /\ compiled = TRUE /\ skipped = {}
  /\ faults = {} /\ shown = << >> /\ json = << >>

Next == \/ Truncate \/ Write \/ Build \/ Launch \/ Finish
        \/ Interrupt \/ Start \/ Notebook

Spec == Init /\ [][Next]_vars

-----------------------------------------------------------------------------
LoopsOK ==
  /\ mix \in BOOLEAN /\ core \in 1 .. Len(NumCoresList)
  /\ thr \in 1 .. Len(ThreadsList) /\ lat \in 0 .. Len(LatencyList)

TreeOK ==
  tree \in [Jobs -> [state : {"none", "directory", "empty", "full"},
                    by : {NoProgram} \cup Elements(NumCoresList),
                    compiled : BOOLEAN,
                    sweep : 0 .. MaxStarts]]

TypeOK ==
  /\ pc \in {"off", "patch", "write", "build", "bench", "running", "done"}
  /\ LoopsOK /\ TreeOK
  /\ starts \in 0 .. MaxStarts
  /\ data \in {Lost} \cup Elements(NumCoresList)
  /\ env \in {Lost} \cup Elements(NumCoresList)
  /\ built \in {NoProgram} \cup Elements(NumCoresList)
  /\ compiled \in BOOLEAN /\ skipped \subseteq Jobs
  /\ faults \subseteq {"rebuild", "no log", "no figures"}

(* A build that fails goes unnoticed, but its harm ends with the next one  *)
(* that does not: every log that was begun after a build that went through *)
(* was made by a program for the number of cores in its name, whenever the *)
(* script was interrupted and started again (batch.py:17-30, 72-83: a      *)
(* program is not looked at before it runs, and the mix may run the one of *)
(* the last number of cores).                                              *)
MeasuredAsNamed ==
  \A j \in Jobs : tree[j].compiled => tree[j].by = j.cores

(* A sweep that has run to its end has made the log of each job of its     *)
(* lists anew, and kept none of an interrupted or earlier sweep, but for   *)
(* the jobs the shell did not start, which nobody is told of (batch.py:    *)
(* 61-63, 71-87: a directory that exists is used again, with the log in    *)
(* it).                                                                    *)
NoStaleLogs ==
  pc = "done" =>
    \A j \in Jobs \ skipped :
      tree[j].state \in {"empty", "full"} /\ tree[j].sweep = starts

(* What a latency of the notebook stands for, and the logs with figures of *)
(* a number of cores at it.                                                *)
Setting(l) == CASE l = 0       -> <<"dram", 0>>
                [] l = Renamed -> <<"cxl", 0>>
                [] OTHER       -> <<"cxl", l>>

Logs(test, cores, latency) ==
  {j \in Jobs : /\ j.test = test /\ j.cores = cores
                /\ <<j.memory, j.latency>> = Setting(latency)
                /\ tree[j].state = "full"}

(* Their best rate, with the program that their names promise.             *)
Best(test, cores, latency) ==
  Max({0} \cup {Rate(j, cores) : j \in Logs(test, cores, latency)})

Trusted(test, cores, latency) ==
  \A j \in Logs(test, cores, latency) : tree[j].compiled

(* Whenever the notebook is run, on a finished sweep or on what an         *)
(* interrupt has left, each bar it draws and each point of multicore.ipynb *)
(* is the best rate of its own number of cores and latency, unless one of  *)
(* its own logs is from after a build that failed; nothing is hidden by    *)
(* another job of the same key, and only what has no figures is shown as 0 *)
(* (rocksdb_parser.py:36-69, 93-98, rocksdb.ipynb:56-123, multicore.ipynb: *)
(* 50-53).                                                                 *)
FiguresRight ==
  [][ /\ shown' # shown =>
           \A n \in DOMAIN shown', l \in Elements(NotebookLatencies) :
             LET f == Figures[n]
             IN  \A c \in 1 .. Len(f.cores) :
                   Trusted(f.test, f.cores[c], l) =>
                     shown'[n][l][c] = Best(f.test, f.cores[c], l)
      /\ json' # json =>
           \A p \in Elements(Multicore') :
             Trusted("readrandom", p[1], CxlLatency) =>
               p[2] = Best("readrandom", p[1], CxlLatency)
    ]_vars
=============================================================================
