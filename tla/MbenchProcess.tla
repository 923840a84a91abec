---------------------------- MODULE MbenchProcess ----------------------------
(***************************************************************************)
(* One process of the microbenchmark after another: main, run_mbench and   *)
(* set_latency of microbench/src/main.c, and the CXL device whose latency  *)
(* they program.  The device keeps its latency when a process ends, the    *)
(* cached prev_latency does not.                                           *)
(*                                                                         *)
(* A run of the benchmark is the abstract one, BenchmarkRun, which         *)
(* Microbench implements.                                                  *)
(***************************************************************************)
EXTENDS RunLog, Integers, SequencesExt

CONSTANTS
  Op,           \* the operations of a run
  Latency,      \* latencies a parameter line or the command line asks for
  Files,        \* parameter files: sequences of latencies and Bad
  Faults,       \* what may fail
  MaxLaunches   \* bound: processes started

FaultKind == {"script", "chain", "open", "run"}

Bad == -2                        \* a line without ten numbers

ASSUME LatencyAssumption == Latency \subseteq Nat
ASSUME FilesAssumption == Files \subseteq Seq(Latency \cup {Bad})
ASSUME FaultAssumption == Faults \subseteq FaultKind
ASSUME LaunchAssumption == MaxLaunches \in Nat

Never == -1                      \* prev_latency before the first command

(* The two ways to call the program: with the parameters of one run, which *)
(* uses CXL memory when it has a latency, or with a parameter file and the *)
(* choice of the memory.                                                   *)
Calls ==
  {[file |-> FALSE, useCxl |-> l > 0, lines |-> <<l>>] : l \in Latency} \cup
  {[file |-> TRUE, useCxl |-> u, lines |-> f] : u \in BOOLEAN, f \in Files}

VARIABLES
  pc,         \* where main is; "none" between two processes
  call,       \* its arguments
  prev,       \* prev_latency, the static of set_latency
  device,     \* the latency the device has
  line,       \* lines of the parameter file read
  run,        \* runs begun
  phase,      \* state of the current run ...
  recorded,   \* ... and its operations measured so far
  printed,    \* the lines batch.py will look for
  exit,       \* exit status, 0 while the process runs
  launches    \* processes started

vars == <<pc, call, prev, device, line, run, phase, recorded, printed, exit, launches>>

Run == INSTANCE BenchmarkRun

runVars == <<phase, recorded>>

Goto(label) == pc' = label

Exit(code) == pc' = "none" /\ exit' = code

-----------------------------------------------------------------------------
(* set_latency(l), then label: nothing when l was set last, else the       *)
(* script; whether a script that fails has changed the device is open.     *)
SetLatency(l, label) ==
  /\ IF prev = l
     THEN Goto(label) /\ UNCHANGED <<prev, device, exit>>
     ELSE /\ prev' = l
          /\ \/ device' = l /\ Goto(label) /\ UNCHANGED exit
             \/ "script" \in Faults /\ device' \in {device, l} /\ Exit(1)
  /\ UNCHANGED <<call, line, run, runVars, printed, launches>>

(* Mutant of Launch: prev_latency starts at 0.                             *)
LaunchZeroed ==
  /\ pc = "none" /\ launches < MaxLaunches
  /\ call' \in Calls
  /\ prev' = 0 /\ line' = 0 /\ run' = 0 /\ printed' = << >> /\ exit' = 0
  /\ phase' = "running" /\ recorded' = {}
  /\ launches' = launches + 1
  /\ Goto("reset")
  /\ UNCHANGED device

(* The program is started; prev_latency starts at a value no run asks for. *)
Launch ==
  /\ pc = "none" /\ launches < MaxLaunches
  /\ call' \in Calls
  /\ prev' = Never /\ line' = 0 /\ run' = 0 /\ printed' = << >> /\ exit' = 0
  /\ phase' = "running" /\ recorded' = {}
  /\ launches' = launches + 1
  /\ Goto("reset")
  /\ UNCHANGED device

(* Mutant of Reset: none.                                                  *)
ResetNot ==
  /\ pc = "reset"
  /\ Goto("chain")
  /\ UNCHANGED <<call, prev, device, line, run, runVars, printed, exit, launches>>

(* The chain is built at latency 0.                                        *)
Reset ==
  /\ pc = "reset"
  /\ IF call.useCxl THEN SetLatency(0, "chain")
     ELSE Goto("chain") /\ UNCHANGED <<call, prev, device, line, run, runVars,
                                       printed, exit, launches>>

(* malloc, mmap or mbind fails.                                            *)
CreateChain ==
  /\ pc = "chain"
  /\ \/ Goto("open") /\ UNCHANGED exit
     \/ "chain" \in Faults /\ Exit(1)
  /\ UNCHANGED <<call, prev, device, line, run, runVars, printed, launches>>

(* The block device is opened for its size, then the parameter file.       *)
OpenFiles ==
  /\ pc = "open"
  /\ \/ Goto("lines") /\ UNCHANGED exit
     \/ "open" \in Faults /\ Exit(1)
  /\ UNCHANGED <<call, prev, device, line, run, runVars, printed, launches>>

(* fgets and sscanf; a single run has its parameters already, and prints   *)
(* no "param" line.                                                        *)
ReadLine ==
  /\ pc = "lines" /\ line < Len(call.lines)
  /\ line' = line + 1
  /\ IF call.lines[line'] = Bad
     THEN UNCHANGED <<pc, run, printed>>
     ELSE /\ run' = run + 1
          /\ printed' = IF call.file THEN Append(printed, Line("param", run')) ELSE printed
          /\ Goto("latency")
  /\ UNCHANGED <<call, prev, device, runVars, exit, launches>>

Requested == call.lines[line]

(* Mutant of StartRun: the latency is left as it is.                       *)
StartRunUnset ==
  /\ pc = "latency"
  /\ Goto("begin")
  /\ UNCHANGED <<call, prev, device, line, run, runVars, printed, exit, launches>>

(* run_mbench begins: the latency of the run, then run_threads.            *)
StartRun ==
  /\ pc = "latency"
  /\ IF call.useCxl THEN SetLatency(Requested, "begin")
     ELSE Goto("begin") /\ UNCHANGED <<call, prev, device, line, run, runVars,
                                       printed, exit, launches>>

BeginRun ==
  /\ pc = "begin"
  /\ phase' = "running" /\ recorded' = {}
  /\ Goto("run")
  /\ UNCHANGED <<call, prev, device, line, run, printed, exit, launches>>

RunRecords ==
  /\ pc = "run" /\ Run!RecordOp
  /\ UNCHANGED <<pc, call, prev, device, line, run, printed, exit, launches>>

RunReports ==
  /\ pc = "run" /\ Run!ReportRun
  /\ printed' = Append(printed, Line("elapsed", run))
  /\ Goto("results")
  /\ UNCHANGED <<call, prev, device, line, run, exit, launches>>

(* A worker calls exit(1), or dies.                                        *)
RunAborts ==
  /\ pc = "run" /\ "run" \in Faults /\ Run!Abort
  /\ Exit(1)
  /\ UNCHANGED <<call, prev, device, line, run, printed, launches>>

(* Mutant of PrintResults: the polls first.                                *)
PrintResultsSwapped ==
  /\ pc = "results"
  /\ printed' = printed \o <<Line("peeks", run), Line("op", run)>>
  /\ Goto("lines")
  /\ UNCHANGED <<call, prev, device, line, run, runVars, exit, launches>>

(* Percentiles and averages, and the next line.                            *)
PrintResults ==
  /\ pc = "results"
  /\ printed' = printed \o <<Line("op", run), Line("peeks", run)>>
  /\ Goto("lines")
  /\ UNCHANGED <<call, prev, device, line, run, runVars, exit, launches>>

(* Mutant of LastLine: the latency is left as it is.                       *)
LastLineUnreset ==
  /\ pc = "lines" /\ line = Len(call.lines)
  /\ Goto("unmap")
  /\ UNCHANGED <<call, prev, device, line, run, runVars, printed, exit, launches>>

(* munmap, too, wants latency 0.                                           *)
LastLine ==
  /\ pc = "lines" /\ line = Len(call.lines)
  /\ IF call.useCxl THEN SetLatency(0, "unmap")
     ELSE Goto("unmap") /\ UNCHANGED <<call, prev, device, line, run, runVars,
                                       printed, exit, launches>>

Unmap ==
  /\ pc = "unmap"
  /\ Exit(0)
  /\ UNCHANGED <<call, prev, device, line, run, runVars, printed, launches>>

-----------------------------------------------------------------------------
(* The device may be found at any latency.                                 *)
Init ==
  /\ pc = "none" /\ call \in {[file |-> FALSE, useCxl |-> FALSE, lines |-> << >>]}
  /\ prev = Never /\ device \in Latency
  /\ line = 0 /\ run = 0 /\ phase = "running" /\ recorded = {}
  /\ printed = << >> /\ exit = 0 /\ launches = 0

Step == \/ Reset \/ CreateChain \/ OpenFiles \/ ReadLine \/ StartRun \/ BeginRun
        \/ RunRecords \/ RunReports \/ RunAborts \/ PrintResults \/ LastLine \/ Unmap

Next == Launch \/ Step

(* A process that has been started keeps running.                          *)
Spec == Init /\ [][Next]_vars /\ WF_vars(Step)

-----------------------------------------------------------------------------
TypeOK ==
  /\ pc \in {"none", "reset", "chain", "open", "lines", "latency", "begin", "run",
             "results", "unmap"}
  /\ prev \in Latency \cup {Never, 0} /\ device \in Latency \cup {0}
  /\ line \in 0 .. Len(call.lines) /\ run \in 0 .. line
  /\ phase \in {"running", "reported", "aborted"} /\ recorded \subseteq Op
  /\ exit \in {0, 1} /\ launches \in 0 .. MaxLaunches

(* A run on CXL memory is measured at the latency its parameters ask for,  *)
(* although set_latency runs its script only when its cache says so        *)
(* (main.c:279-287, 320-323).                                              *)
MeasuredAsRequested == pc = "run" /\ call.useCxl => device = Requested

(* The chain is built and unmapped at latency 0: "munmap can be slow with  *)
(* long latency" (main.c:429-434, 484-488).                                *)
FastOutsideRuns == pc \in {"chain", "unmap"} /\ call.useCxl => device = 0

(* What the cache claims is what the device has, in every process that is  *)
(* still running (main.c:279-287, 301-305).                                *)
CacheTruthful == pc # "none" /\ prev # Never => device = prev

NumRuns == Cardinality({k \in DOMAIN call.lines : call.lines[k] # Bad})

(* What batch.py reads is always a beginning of the full transcript, and   *)
(* all of it when the process returned 0 (main.c:463-480).                 *)
PrintsTranscript ==
  call.file =>
    /\ IsPrefix(printed, Transcript(NumRuns))
    /\ pc = "unmap" => printed = Transcript(NumRuns)

(* A process comes to an end, and on success leaves the device at 0.       *)
ProcessEnds == (pc = "reset") ~> (pc = "none" /\ (exit = 0 /\ call.useCxl => device = 0))
=============================================================================
