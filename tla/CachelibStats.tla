----------------------------- MODULE CachelibStats -----------------------------
(***************************************************************************)
(* The CacheLib measurement.  cachebench writes a block of statistics each *)
(* minute until it is killed; beside it, the script of README.md sets one  *)
(* memory latency after the other.  notebooks/utils/cachelib_parser.py     *)
(* turns the blocks into series, and cachelib_analyzer.py and              *)
(* cachelib.ipynb average a window of each latency.                        *)
(*                                                                         *)
(* The notebook takes a window from before the time at which a latency is  *)
(* over, so that the script has to set the first one Step minutes before   *)
(* Base; README.md gives a number of hours only as an example.             *)
(*                                                                         *)
(* The blocks say neither their latency nor their date.  The windows are   *)
(* counted in blocks, the script counts minutes, and both drift: a block   *)
(* may slip to the next minute, and a latency may be set late.  This is    *)
(* one run, with one number of cores and threads, in DRAM or CXL memory.   *)
(***************************************************************************)
EXTENDS Integers, SequencesExt

CONSTANTS
  NumLatencies,  \* length of CXL_LATENCY_LIST; 0 is the one before the first
  Base,          \* CXL_LATENCY_CHANGE_TIME_BASE: minute at which the first ends
  Step,          \* CXL_LATENCY_CHANGE_TIME_STEP: minutes of a latency (30)
  From,          \* a window begins so many blocks before the end (20)
  To,            \* and ends so many before it (5)
  Day,           \* minutes of a day
  StartTimes,    \* bound: times of day at which the run starts
  MaxSlips,      \* bound: blocks that slip
  MaxLate,       \* bound: minutes that latencies are late, in all
  MaxMinutes     \* bound: length of a run

ASSUME WindowAssumption ==
  /\ {NumLatencies, Base, Step, From, To} \subseteq Nat
  /\ 0 < To /\ To < From /\ From < Step /\ Step <= Base
ASSUME BoundsAssumption ==
  /\ {MaxSlips, MaxLate, MaxMinutes} \subseteq Nat /\ Day \in Nat \ {0}
  /\ StartTimes \subseteq 0 .. Day - 1

VARIABLES
  memory,   \* "dram", "cxl"
  pc,       \* "running", "ended", "parsed"
  how,      \* "killed" by hand or by the script, "crashed"       (history)
  now,      \* minutes since the start
  started,  \* time of day of the start
  set,      \* latencies set by the script
  due,      \* minute of the script's next command
  device,   \* the latency of the memory
  seen,     \* latencies since the last block
  log,      \* blocks: what they measured, when, and how many lines they have
  slips, late, failed,   \* what went wrong so far                (history)
  time,     \* stats['time']
  series    \* the other series

parsed == <<time, series>>
errors == <<slips, late, failed>>
vars == <<memory, pc, how, now, started, set, due, device, seen, log, errors, parsed>>

(* The lines of a block in their order.  A pattern may match twice, first  *)
(* the total and then the minute; one pattern of each kind is enough.      *)
Items == <<"cache_gets_total", "find_p50", "cache_gets">>
Patterns == {<<"cache_gets_total", "cache_gets">>, <<"find_p50">>}

Block(lines) ==
  [at |-> seen, minute |-> now', clock |-> (started + now') % Day, lines |-> lines]

-----------------------------------------------------------------------------
(* cachebench and the script.                                              *)

Minute ==
  /\ pc = "running" /\ now < MaxMinutes
  /\ now' = now + 1
  /\ IF memory = "cxl" /\ now >= due
     THEN late < MaxLate /\ late' = late + 1
     ELSE UNCHANGED late
  /\ \/ log' = Append(log, Block(Len(Items))) /\ seen' = {device} /\ UNCHANGED slips
     \/ slips < MaxSlips /\ slips' = slips + 1 /\ UNCHANGED <<log, seen>>
  /\ UNCHANGED <<memory, pc, how, started, set, due, device, failed, parsed>>

(* The script looks at no exit status of set_latency.sh.                   *)
SetLatency ==
  /\ pc = "running" /\ memory = "cxl" /\ now >= due /\ set < NumLatencies
  /\ set' = set + 1
  /\ due' = now + Step
  /\ \/ device' = set' /\ UNCHANGED failed
     \/ failed' = TRUE /\ UNCHANGED device
  /\ seen' = (IF log # << >> /\ Last(log).minute = now THEN {} ELSE seen) \cup {device'}
  /\ UNCHANGED <<memory, pc, how, now, started, log, slips, late, parsed>>

(* Any signal: it may cut the block that is being written.                 *)
Stop(cause) ==
  /\ pc = "running" /\ pc' = "ended" /\ how' = cause
  /\ now' = now + 1
  /\ \/ UNCHANGED log
     \/ \E n \in 0 .. Len(Items) : log' = Append(log, Block(n))
  /\ UNCHANGED <<memory, started, set, due, device, seen, errors, parsed>>

(* The script ends with killall; a run in DRAM is killed by hand.          *)
Kill ==
  /\ memory = "cxl" => set = NumLatencies /\ now >= due
  /\ Stop("killed")

Crash == Stop("crashed")

-----------------------------------------------------------------------------
(* The parser.                                                             *)

(* Mutant of Elapsed: a day that has begun is not counted.                 *)
ElapsedSameDay(clock, first) == clock - first

(* dif_time, with the date of the parsing in both times.                   *)
Elapsed(clock, first) ==
  IF clock >= first THEN clock - first ELSE clock - first + Day

(* Lines from m on are read after midnight.                                *)
ElapsedTimes(m) ==
  [k \in DOMAIN log |->
     Elapsed(log[k].clock + (IF k >= m THEN Day ELSE 0),
             log[1].clock + (IF 1 >= m THEN Day ELSE 0))]

Zero == {}   \* what stands for a figure that is missing or cut

Line(name) == CHOOSE n \in DOMAIN Items : Items[n] = name

(* What the matches in a block append to the series of a pattern: as many  *)
(* entries as there are names, the missing ones zero.                      *)
_parse_items(names, block) ==
  [n \in DOMAIN names |-> IF Line(names[n]) <= block.lines THEN block.at ELSE Zero]

(* Mutant of Series: entries are appended for matches only.                *)
SeriesUnfilled ==
  [name \in ToSet(Items) |->
     LET found == SelectSeq(log, LAMBDA b : Line(name) <= b.lines)
     IN  [k \in DOMAIN found |-> found[k].at]]

Series ==
  [name \in ToSet(Items) |->
     LET names == CHOOSE p \in Patterns : name \in ToSet(p)
         n     == CHOOSE i \in DOMAIN names : names[i] = name
     IN  [k \in DOMAIN log |-> _parse_items(names, log[k])[n]]]

Parse ==
  /\ pc = "ended"
  /\ series' = Series
  /\ \E m \in 1 .. Len(log) + 1 : time' = ElapsedTimes(m)
  /\ pc' = "parsed"
  /\ UNCHANGED <<memory, how, now, started, set, due, device, seen, log, errors>>

-----------------------------------------------------------------------------
(* The analyzer.                                                           *)

(* Mutant of Slice: the end belongs to it.                                 *)
SliceInclusive(s, a, b) ==
  LET position(n) == IF n < 0 THEN Max({0, Len(s) + n}) ELSE Min({n, Len(s)})
  IN  SubSeq(s, position(a) + 1, Min({position(b) + 1, Len(s)}))

(* s[a : b] of Python: negative numbers count from the end, and what is    *)
(* outside is cut off.                                                     *)
Slice(s, a, b) ==
  LET position(n) == IF n < 0 THEN Max({0, Len(s) + n}) ELSE Min({n, Len(s)})
  IN  SubSeq(s, position(a) + 1, position(b))

(* Mutant of Window: all of a latency.                                     *)
WindowWhole(s, base) == Slice(s, base - Step, base)

(* What _mean_stats averages.                                              *)
Window(s, base) == Slice(s, base - From, base - To)

(* cxl_latency_change_times                                                *)
ChangeTime(i) == Base + Step * (i - 1)

(* What get_throughput_and_latency averages: the end of the log in DRAM,   *)
(* a window for each latency otherwise.                                    *)
Averaged(name) ==
  IF memory = "dram" THEN <<Window(series[name], 0)>>
  ELSE [i \in 1 .. NumLatencies |-> Window(series[name], ChangeTime(i))]

-----------------------------------------------------------------------------
Init ==
  /\ memory \in {"dram", "cxl"} /\ started \in StartTimes
  /\ pc = "running" /\ how = "" /\ now = 0
  /\ set = 0 /\ due = Base - Step /\ device = 0 /\ seen = {0}
  /\ log = << >> /\ slips = 0 /\ late = 0 /\ failed = FALSE
  /\ time = << >> /\ series = << >>

Next == Minute \/ SetLatency \/ Kill \/ Crash \/ Parse

Spec == Init /\ [][Next]_vars

-----------------------------------------------------------------------------
Total(k) == log[k].minute - log[1].minute

(* The time of each block is right up to whole days.  Read before midnight *)
(* of the day of the parsing, it is the time since the first block, folded *)
(* into one day; read after it, it is a day more unless the time of day is *)
(* before that of the first block (cachelib_parser.py:81-89: today is      *)
(* asked for at each line, and the log has no dates).                      *)
ElapsedTime ==
  pc = "parsed" =>
    /\ Len(time) = Len(log)
    /\ \E m \in 2 .. Len(log) + 2 : \A k \in DOMAIN log :
         time[k] = (Total(k) % Day)
                   + (IF k >= m /\ log[k].clock >= log[1].clock THEN Day ELSE 0)

(* Whatever block a signal cuts, the k-th entry of each series belongs to  *)
(* the k-th time, and is right for all blocks but the last                 *)
(* (cachelib_parser.py:32-36: missing values are filled with zeros).       *)
SeriesAligned ==
  pc = "parsed" =>
    \A name \in ToSet(Items) :
      /\ Len(series[name]) = Len(time)
      /\ \A k \in DOMAIN time :
           \/ series[name][k] = log[k].at
           \/ series[name][k] = Zero /\ k = Len(time)

(* What is averaged for a latency was measured wholly at this latency, and *)
(* nothing of it is missing, as long as the script got to its end with     *)
(* every latency set, blocks slipped by at most the end of the window and  *)
(* latencies were late by at most what is left out at its beginning        *)
(* (cachelib_analyzer.py:19-20, cachelib.ipynb:46-73, README.md:233-241).  *)
WindowsOnLatency ==
  /\ pc = "parsed" /\ memory = "cxl" /\ how = "killed" /\ ~failed
  /\ slips <= To /\ late <= Step - From
  => \A name \in ToSet(Items), i \in 1 .. NumLatencies :
       Averaged(name)[i] = [k \in 1 .. From - To |-> {i}]

(* A block that a signal has cut is never averaged in DRAM, where the      *)
(* window is counted from the end of the log, nor with CXL when the script *)
(* ends the run and blocks have slipped by at most the end of the window.  *)
(* A CXL run that ends earlier may have its cut block in a window          *)
(* (cachelib_analyzer.py:19-20, 30, 44).                                   *)
WholeBlocks ==
  pc = "parsed" /\ (memory = "dram" \/ (how = "killed" /\ slips <= To)) =>
    \A name \in ToSet(Items) : \A window \in ToSet(Averaged(name)) :
      Zero \notin ToSet(window)
=============================================================================
