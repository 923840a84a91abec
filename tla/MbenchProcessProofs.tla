------------------------- MODULE MbenchProcessProofs -------------------------
(***************************************************************************)
(* Proofs about MbenchProcess, for all latencies, parameter files,         *)
(* operations, failures and numbers of processes.                          *)
(*                                                                         *)
(* The argument: the cache never claims a latency the device does not      *)
(* have, because a script that fails ends the process; and every place     *)
(* that wants a latency is entered with the cache at it.  What is printed  *)
(* follows the place where main is and the number of lines that were runs. *)
(***************************************************************************)
EXTENDS MbenchProcess, FiniteSetTheorems, TLAPS

CallOK == call.lines \in Seq(Latency \cup {Bad})

(* The latency in the cache at the places that were entered with one.      *)
CacheInv ==
  /\ pc \in {"latency", "begin", "run"} => line > 0 /\ Requested \in Latency
  /\ call.useCxl /\ pc \in {"chain", "unmap"} => prev = 0
  /\ call.useCxl /\ pc \in {"begin", "run"} => prev = Requested

IInv == TypeOK /\ CallOK /\ CacheTruthful /\ CacheInv

-----------------------------------------------------------------------------
LEMMA Latencies == Latency \subseteq Nat /\ Never = -1 /\ Never \notin Latency /\ Bad \notin Latency
  BY LatencyAssumption DEF Never, Bad

LEMMA CallsOK ==
  ASSUME NEW c \in Calls
  PROVE  c.lines \in Seq(Latency \cup {Bad})
<1>1. CASE c \in {[file |-> FALSE, useCxl |-> l > 0, lines |-> <<l>>] : l \in Latency}
  <2>1. PICK l \in Latency : c = [file |-> FALSE, useCxl |-> l > 0, lines |-> <<l>>]
    BY <1>1
  <2>2. c.lines = <<l>>
    BY <2>1
  <2>3. QED
    BY <2>2
<1>2. CASE c \in {[file |-> TRUE, useCxl |-> u, lines |-> f] : u \in BOOLEAN, f \in Files}
  BY <1>2, FilesAssumption
<1>3. QED
  BY <1>1, <1>2 DEF Calls

(* set_latency(l) keeps the cache truthful whatever becomes of the script. *)
LEMMA SetLatencyStep ==
  ASSUME IInv, NEW l \in Latency \cup {0}, NEW label, pc # "none",
         SetLatency(l, label)
  PROVE  /\ prev' = l /\ device' \in Latency \cup {0} /\ exit' \in {0, 1}
         /\ \/ pc' = label /\ device' = l
            \/ pc' = "none"
         /\ UNCHANGED <<call, line, run, phase, recorded, launches>>
<1>1. CASE prev = l
  <2>1. device = l
    BY <1>1, Latencies DEF IInv, CacheTruthful
  <2>2. QED
    BY <1>1, <2>1 DEF SetLatency, Goto, runVars, IInv, TypeOK
<1>2. CASE prev # l
  BY <1>2 DEF SetLatency, Goto, Exit, runVars, IInv, TypeOK
<1>3. QED
  BY <1>1, <1>2

-----------------------------------------------------------------------------
LEMMA InitInv == Init => IInv
<1> SUFFICES ASSUME Init PROVE IInv
  OBVIOUS
<1>1. call = [file |-> FALSE, useCxl |-> FALSE, lines |-> << >>]
  BY DEF Init
<1>2. CallOK /\ Len(call.lines) = 0
  BY <1>1 DEF CallOK
<1>3. TypeOK
  BY <1>2, LaunchAssumption DEF Init, TypeOK
<1>4. CacheTruthful /\ CacheInv
  BY DEF Init, CacheTruthful, CacheInv
<1>5. QED
  BY <1>2, <1>3, <1>4 DEF IInv

(* A place that is reached without set_latency.                            *)
LEMMA PlainStep ==
  ASSUME IInv, UNCHANGED <<call, prev, device, line, run, launches>>, pc # "none",
         pc' \in {"none", "open", "lines", "run", "results"},
         pc' = "run" => pc \in {"begin", "run"},
         phase' \in {"running", "reported", "aborted"}, recorded' \subseteq Op,
         exit' \in {0, 1}
  PROVE  IInv'
<1>1. TypeOK' /\ CallOK'
  BY DEF IInv, TypeOK, CallOK
<1>2. CacheTruthful'
  BY DEF IInv, CacheTruthful
<1>3. CacheInv'
  BY DEF IInv, CacheInv, Requested
<1>4. QED
  BY <1>1, <1>2, <1>3 DEF IInv

LEMMA NextInv == IInv /\ [Next]_vars => IInv'
<1> SUFFICES ASSUME IInv, [Next]_vars PROVE IInv'
  OBVIOUS
<1>1. CASE Launch
  <2>1. CallOK'
    BY <1>1, CallsOK DEF Launch, CallOK
  <2>2. 0 \in 0 .. Len(call.lines)'
    BY <2>1 DEF CallOK
  <2>3. launches' \in 0 .. MaxLaunches
    <3>1. launches \in 0 .. MaxLaunches
      BY DEF IInv, TypeOK
    <3>2. launches < MaxLaunches /\ launches' = launches + 1
      BY <1>1 DEF Launch
    <3>3. QED
      BY <3>1, <3>2, LaunchAssumption
  <2>4. TypeOK'
    <3>1. device' \in Latency \cup {0}
      BY <1>1 DEF Launch, IInv, TypeOK
    <3>2. /\ pc' = "reset" /\ prev' = Never /\ line' = 0 /\ run' = 0 /\ exit' = 0
          /\ phase' = "running" /\ recorded' = {}
      BY <1>1 DEF Launch, Goto
    <3>3. QED
      BY <2>2, <2>3, <3>1, <3>2 DEF TypeOK
  <2>5. CacheTruthful' /\ CacheInv'
    BY <1>1 DEF Launch, Goto, CacheTruthful, CacheInv
  <2>6. QED
    BY <2>1, <2>4, <2>5 DEF IInv
<1>2. CASE Reset
  <2>1. CASE call.useCxl
    <3>1. SetLatency(0, "chain") /\ pc # "none" /\ pc = "reset"
      BY <1>2, <2>1 DEF Reset
    <3>2. /\ prev' = 0 /\ device' \in Latency \cup {0} /\ exit' \in {0, 1}
          /\ \/ pc' = "chain" /\ device' = 0
             \/ pc' = "none"
          /\ UNCHANGED <<call, line, run, phase, recorded, launches>>
      BY <3>1, SetLatencyStep
    <3>3. QED
      BY <3>2 DEF IInv, TypeOK, CallOK, CacheTruthful, CacheInv
  <2>2. CASE ~call.useCxl
    <3>1. pc = "reset" /\ pc' = "chain"
          /\ UNCHANGED <<call, prev, device, line, run, phase, recorded, exit, launches>>
      BY <1>2, <2>2 DEF Reset, Goto, runVars
    <3>2. QED
      BY <2>2, <3>1 DEF IInv, TypeOK, CallOK, CacheTruthful, CacheInv
  <2>3. QED
    BY <2>1, <2>2
<1>3. CASE CreateChain \/ OpenFiles
  <2>1. /\ UNCHANGED <<call, prev, device, line, run, phase, recorded, launches>>
        /\ pc \in {"chain", "open"} /\ pc' \in {"open", "lines", "none"} /\ exit' \in {0, 1}
    BY <1>3 DEF CreateChain, OpenFiles, Goto, Exit, runVars, IInv, TypeOK
  <2>2. phase \in {"running", "reported", "aborted"} /\ recorded \subseteq Op
    BY DEF IInv, TypeOK
  <2>3. QED
    BY <2>1, <2>2, PlainStep
<1>4. CASE ReadLine
  <2>1. /\ pc = "lines" /\ line < Len(call.lines) /\ line' = line + 1
        /\ UNCHANGED <<call, prev, device, phase, recorded, exit, launches>>
    BY <1>4 DEF ReadLine, runVars
  <2>2. line' \in 1 .. Len(call.lines)
    BY <2>1 DEF IInv, TypeOK, CallOK
  <2>3. call.lines[line'] \in Latency \cup {Bad}
    BY <2>2 DEF IInv, CallOK
  <2>4. \/ pc' = "lines" /\ run' = run
        \/ pc' = "latency" /\ run' = run + 1 /\ call.lines[line'] # Bad
    BY <1>4, <2>1 DEF ReadLine, Goto
  <2>5. run' \in 0 .. line'
    BY <2>1, <2>2, <2>4 DEF IInv, TypeOK
  <2>6. TypeOK'
    BY <2>1, <2>2, <2>4, <2>5 DEF IInv, TypeOK
  <2>7. CacheInv'
    BY <2>1, <2>2, <2>3, <2>4 DEF CacheInv, Requested
  <2>8. QED
    BY <2>1, <2>4, <2>6, <2>7 DEF IInv, CallOK, CacheTruthful
<1>5. CASE StartRun
  <2>1. CASE call.useCxl
    <3>1. SetLatency(Requested, "begin") /\ pc # "none" /\ pc = "latency" /\ Requested \in Latency
      BY <1>5, <2>1 DEF StartRun, IInv, CacheInv
    <3>2. /\ prev' = Requested /\ device' \in Latency \cup {0} /\ exit' \in {0, 1}
          /\ \/ pc' = "begin" /\ device' = Requested
             \/ pc' = "none"
          /\ UNCHANGED <<call, line, run, phase, recorded, launches>>
      BY <3>1, SetLatencyStep
    <3>3. Requested' = Requested /\ line > 0
      BY <3>1, <3>2 DEF Requested, IInv, CacheInv
    <3>4. TypeOK' /\ CallOK'
      BY <3>1, <3>2 DEF IInv, TypeOK, CallOK
    <3>5. CacheTruthful' /\ CacheInv'
      BY <3>1, <3>2, <3>3 DEF CacheTruthful, CacheInv
    <3>6. QED
      BY <3>4, <3>5 DEF IInv
  <2>2. CASE ~call.useCxl
    <3>1. /\ pc = "latency" /\ pc' = "begin"
          /\ UNCHANGED <<call, prev, device, line, run, phase, recorded, exit, launches>>
      BY <1>5, <2>2 DEF StartRun, Goto, runVars
    <3>2. QED
      BY <2>2, <3>1 DEF IInv, TypeOK, CallOK, CacheTruthful, CacheInv, Requested
  <2>3. QED
    BY <2>1, <2>2
<1>6. CASE BeginRun
  <2>1. /\ UNCHANGED <<call, prev, device, line, run, launches, exit>>
        /\ pc = "begin" /\ pc' = "run" /\ phase' = "running" /\ recorded' = {}
    BY <1>6 DEF BeginRun, Goto
  <2>2. exit \in {0, 1}
    BY DEF IInv, TypeOK
  <2>3. QED
    BY <2>1, <2>2, PlainStep
<1>7. CASE RunRecords
  <2>1. /\ UNCHANGED <<call, prev, device, line, run, launches, exit, phase>>
        /\ pc = "run" /\ pc' = "run" /\ \E o \in Op : recorded' = recorded \cup {o}
    BY <1>7 DEF RunRecords, Run!RecordOp
  <2>2. /\ exit \in {0, 1} /\ recorded' \subseteq Op
        /\ phase \in {"running", "reported", "aborted"}
    BY <2>1 DEF IInv, TypeOK
  <2>3. QED
    BY <2>1, <2>2, PlainStep
<1>8. CASE RunReports \/ RunAborts \/ PrintResults
  <2>1. /\ UNCHANGED <<call, prev, device, line, run, launches, recorded>>
        /\ pc \in {"run", "results"} /\ pc' \in {"results", "none", "lines"}
        /\ exit' \in {1, exit}
        /\ phase' \in {phase, "reported", "aborted"}
    BY <1>8 DEF RunReports, RunAborts, PrintResults, Run!ReportRun, Run!Abort, Goto, Exit, runVars
  <2>2. /\ exit' \in {0, 1} /\ recorded \subseteq Op
        /\ phase' \in {"running", "reported", "aborted"}
    BY <2>1 DEF IInv, TypeOK
  <2>3. QED
    BY <2>1, <2>2, PlainStep
<1>9. CASE LastLine
  <2>1. CASE call.useCxl
    <3>1. SetLatency(0, "unmap") /\ pc # "none" /\ pc = "lines"
      BY <1>9, <2>1 DEF LastLine
    <3>2. /\ prev' = 0 /\ device' \in Latency \cup {0} /\ exit' \in {0, 1}
          /\ \/ pc' = "unmap" /\ device' = 0
             \/ pc' = "none"
          /\ UNCHANGED <<call, line, run, phase, recorded, launches>>
      BY <3>1, SetLatencyStep
    <3>3. QED
      BY <3>2 DEF IInv, TypeOK, CallOK, CacheTruthful, CacheInv
  <2>2. CASE ~call.useCxl
    <3>1. /\ pc = "lines" /\ pc' = "unmap"
          /\ UNCHANGED <<call, prev, device, line, run, phase, recorded, exit, launches>>
      BY <1>9, <2>2 DEF LastLine, Goto, runVars
    <3>2. QED
      BY <2>2, <3>1 DEF IInv, TypeOK, CallOK, CacheTruthful, CacheInv
  <2>3. QED
    BY <2>1, <2>2
<1>10. CASE Unmap
  <2>1. /\ UNCHANGED <<call, prev, device, line, run, launches, phase, recorded>>
        /\ pc = "unmap" /\ pc' = "none" /\ exit' = 0
    BY <1>10 DEF Unmap, Exit, runVars
  <2>2. recorded \subseteq Op /\ phase \in {"running", "reported", "aborted"}
    BY DEF IInv, TypeOK
  <2>3. QED
    BY <2>1, <2>2, PlainStep
<1>11. CASE UNCHANGED vars
  BY <1>11 DEF vars, IInv, TypeOK, CallOK, CacheTruthful, CacheInv, Requested
<1>12. QED
  BY <1>1, <1>2, <1>3, <1>4, <1>5, <1>6, <1>7, <1>8, <1>9, <1>10, <1>11 DEF Next, Step

-----------------------------------------------------------------------------
(* The types of a process: no line is read behind the end of the file.     *)
THEOREM TypeCorrect == Spec => []TypeOK
<1>1. IInv => TypeOK
  BY DEF IInv
<1>2. QED
  BY <1>1, InitInv, NextInv, PTL DEF Spec

(* The cache of set_latency never claims what the device does not have     *)
(* (main.c:279-287, 301-305).                                              *)
THEOREM CacheIsTruthful == Spec => []CacheTruthful
<1>1. IInv => CacheTruthful
  BY DEF IInv
<1>2. QED
  BY <1>1, InitInv, NextInv, PTL DEF Spec

(* Every run on CXL memory is measured at the latency of its line          *)
(* (main.c:320-323).                                                       *)
THEOREM RunsAtRequested == Spec => []MeasuredAsRequested
<1>1. IInv => MeasuredAsRequested
  BY Latencies DEF IInv, CacheInv, CacheTruthful, MeasuredAsRequested
<1>2. QED
  BY <1>1, InitInv, NextInv, PTL DEF Spec

(* The chain is built and unmapped at latency 0 (main.c:429-434, 484-488). *)
THEOREM FastAround == Spec => []FastOutsideRuns
<1>1. IInv => FastOutsideRuns
  BY DEF IInv, CacheInv, CacheTruthful, FastOutsideRuns, Never
<1>2. QED
  BY <1>1, InitInv, NextInv, PTL DEF Spec

-----------------------------------------------------------------------------
(* Line k of a transcript, and the lines read so far that are runs.        *)
TranscriptLine(k) == Line(Kinds[((k - 1) % 4) + 1], (k - 1) \div 4 + 1)

RunLines(n) == {k \in 1 .. n : call.lines[k] # Bad}

PrintedLine == [kind : {"param", "elapsed", "op", "peeks"}, run : Nat]

(* How many lines have been printed at each place.                         *)
PrintedLines ==
  {n \in Nat : /\ pc \in {"reset", "chain", "open", "lines", "unmap"} => n = 4 * run
               /\ pc \in {"latency", "begin", "run"} => n = 4 * run - 3
               /\ pc = "results" => n = 4 * run - 2
               /\ n <= 4 * run}

(* Runs are counted as they are read, and each place follows a certain     *)
(* line of the transcript.                                                 *)
PrintInv ==
  /\ printed \in Seq(PrintedLine)
  /\ pc \in {"reset", "chain", "open"} => line = 0 /\ run = 0
  /\ pc \in {"latency", "begin", "run", "results"} => run > 0
  /\ pc = "unmap" => line = Len(call.lines)
  /\ call.file => /\ run = Cardinality(RunLines(line))
                  /\ Len(printed) \in PrintedLines
                  /\ \A k \in 1 .. Len(printed) : printed[k] = TranscriptLine(k)

(* The four lines of a run.                                                *)
LEMMA LineOfRun ==
  ASSUME NEW r \in Nat \ {0}
  PROVE  /\ TranscriptLine(4 * r - 3) = Line("param", r)
         /\ TranscriptLine(4 * r - 2) = Line("elapsed", r)
         /\ TranscriptLine(4 * r - 1) = Line("op", r)
         /\ TranscriptLine(4 * r) = Line("peeks", r)
PROOF
<1>1. /\ (4 * r - 3 - 1) % 4 = 0 /\ (4 * r - 3 - 1) \div 4 = r - 1
      /\ (4 * r - 2 - 1) % 4 = 1 /\ (4 * r - 2 - 1) \div 4 = r - 1
      /\ (4 * r - 1 - 1) % 4 = 2 /\ (4 * r - 1 - 1) \div 4 = r - 1
      /\ (4 * r - 1) % 4 = 3 /\ (4 * r - 1) \div 4 = r - 1
  OBVIOUS
<1>2. /\ Kinds[1] = "param" /\ Kinds[2] = "elapsed" /\ Kinds[3] = "op" /\ Kinds[4] = "peeks"
  BY DEF Kinds
<1>3. r - 1 + 1 = r /\ 0 + 1 = 1 /\ 1 + 1 = 2 /\ 2 + 1 = 3 /\ 3 + 1 = 4
  OBVIOUS
<1> QED BY <1>1, <1>2, <1>3 DEF TranscriptLine

(* A transcript of n runs.                                                 *)
LEMMA TranscriptIs ==
  ASSUME NEW n \in Nat
  PROVE  /\ Len(Transcript(n)) = 4 * n
         /\ Transcript(n) \in Seq(PrintedLine)
         /\ \A k \in 1 .. 4 * n : Transcript(n)[k] = TranscriptLine(k)
PROOF
<1>1. \A k \in 1 .. 4 * n : TranscriptLine(k) \in PrintedLine
  <2>1. SUFFICES ASSUME NEW k \in 1 .. 4 * n
                 PROVE  TranscriptLine(k) \in PrintedLine
    OBVIOUS
  <2>2. (k - 1) % 4 \in 0 .. 3 /\ (k - 1) \div 4 \in Nat
    OBVIOUS
  <2>3. \A j \in 1 .. 4 : Kinds[j] \in {"param", "elapsed", "op", "peeks"}
    <3>1. SUFFICES ASSUME NEW j \in 1 .. 4 PROVE Kinds[j] \in {"param", "elapsed", "op", "peeks"}
      OBVIOUS
    <3>2. j = 1 \/ j = 2 \/ j = 3 \/ j = 4
      OBVIOUS
    <3> QED BY <3>2 DEF Kinds
  <2>4. ((k - 1) % 4) + 1 \in 1 .. 4
    BY <2>2
  <2> QED BY <2>2, <2>3, <2>4 DEF TranscriptLine, Line, PrintedLine
<1>2. Transcript(n) = [k \in 1 .. 4 * n |-> TranscriptLine(k)]
  BY DEF Transcript, TranscriptLine
<1>3. 4 * n \in Nat
  OBVIOUS
<1> QED BY <1>1, <1>2, <1>3

(* One more line is one more run unless it is bad.                         *)
LEMMA CountRuns ==
  ASSUME NEW n \in Nat
  PROVE  /\ IsFiniteSet(RunLines(n)) /\ Cardinality(RunLines(n)) \in Nat
         /\ RunLines(0) = {} /\ Cardinality(RunLines(0)) = 0
         /\ Cardinality(RunLines(n + 1)) = Cardinality(RunLines(n))
                           + (IF call.lines[n + 1] # Bad THEN 1 ELSE 0)
PROOF
<1>1. \A m \in Nat : IsFiniteSet(RunLines(m))
  <2>1. SUFFICES ASSUME NEW m \in Nat PROVE IsFiniteSet(RunLines(m))
    OBVIOUS
  <2>2. IsFiniteSet(1 .. m)
    BY FS_Interval
  <2>3. RunLines(m) \in SUBSET (1 .. m)
    BY DEF RunLines
  <2> QED BY <2>2, <2>3, FS_Subset
<1>2. RunLines(0) = {}
  BY DEF RunLines
<1>3. Cardinality(RunLines(n)) \in Nat /\ Cardinality(RunLines(0)) = 0
  BY <1>1, <1>2, FS_CardinalityType, FS_EmptySet
<1>4. CASE call.lines[n + 1] # Bad
  <2>1. RunLines(n + 1) = RunLines(n) \cup {n + 1} /\ n + 1 \notin RunLines(n)
    BY <1>4 DEF RunLines
  <2>2. Cardinality(RunLines(n) \cup {n + 1}) = Cardinality(RunLines(n)) + 1
    BY <1>1, <2>1, FS_AddElement
  <2> QED BY <1>1, <1>2, <1>3, <1>4, <2>1, <2>2
<1>5. CASE call.lines[n + 1] = Bad
  <2>1. RunLines(n + 1) = RunLines(n)
    BY <1>5 DEF RunLines
  <2> QED BY <1>1, <1>2, <1>3, <1>5, <2>1
<1> QED BY <1>4, <1>5

(* A step that reads and prints nothing.                                   *)
LEMMA QuietPrint ==
  ASSUME IInv, PrintInv, UNCHANGED <<call, line, run, printed>>,
         \/ pc' \in {"none", pc}
         \/ pc = "reset" /\ pc' = "chain"
         \/ pc = "chain" /\ pc' = "open"
         \/ pc = "open" /\ pc' = "lines"
         \/ pc = "latency" /\ pc' = "begin"
         \/ pc = "begin" /\ pc' = "run"
         \/ pc = "lines" /\ pc' = "unmap" /\ line = Len(call.lines)
  PROVE  PrintInv'
PROOF
<1>1. run \in Nat /\ line \in Nat
  BY DEF IInv, TypeOK
<1>2. RunLines(line)' = RunLines(line) /\ Len(printed)' = Len(printed)
  BY DEF RunLines
<1>3. Len(printed) \in PrintedLines => Len(printed) \in PrintedLines'
  BY <1>1 DEF PrintedLines, PrintInv
<1>4. (\A k \in 1 .. Len(printed) : printed[k] = TranscriptLine(k)) =>
        (\A k \in 1 .. Len(printed) : printed[k] = TranscriptLine(k))'
  OBVIOUS
<1>5. /\ printed' \in Seq(PrintedLine)
      /\ pc' \in {"reset", "chain", "open"} => line' = 0 /\ run' = 0
      /\ pc' \in {"latency", "begin", "run", "results"} => run' > 0
      /\ pc' = "unmap" => line' = Len(call.lines)'
  BY DEF PrintInv
<1>6. call'.file => /\ run' = Cardinality(RunLines(line))'
                    /\ Len(printed)' \in PrintedLines'
                    /\ (\A k \in 1 .. Len(printed) : printed[k] = TranscriptLine(k))'
  BY <1>2, <1>3, <1>4 DEF PrintInv
<1> QED BY <1>5, <1>6 DEF PrintInv

(* set_latency reads and prints nothing.                                   *)
LEMMA SetLatencyQuiet ==
  ASSUME NEW l, NEW label, SetLatency(l, label)
  PROVE  UNCHANGED <<call, line, run, printed>> /\ pc' \in {label, "none"}
PROOF
<1>1. CASE prev = l
  BY <1>1 DEF SetLatency, Goto
<1>2. CASE prev # l
  BY <1>2 DEF SetLatency, Goto, Exit
<1> QED BY <1>1, <1>2

(* A line is printed that continues the transcript.                        *)
LEMMA Continues ==
  ASSUME NEW s \in Seq(PrintedLine), NEW x \in PrintedLine,
         x = TranscriptLine(Len(s) + 1),
         \A k \in 1 .. Len(s) : s[k] = TranscriptLine(k)
  PROVE  /\ Append(s, x) \in Seq(PrintedLine)
         /\ Len(Append(s, x)) = Len(s) + 1
         /\ \A k \in 1 .. Len(s) + 1 : Append(s, x)[k] = TranscriptLine(k)
  OBVIOUS

LEMMA InitPrint == Init => PrintInv
PROOF
<1> SUFFICES ASSUME Init PROVE PrintInv
  OBVIOUS
<1>1. call = [file |-> FALSE, useCxl |-> FALSE, lines |-> << >>]
  BY DEF Init
<1>2. ~call.file
  BY <1>1
<1> QED BY <1>2 DEF Init, PrintInv

LEMMA NextPrint == IInv /\ IInv' /\ PrintInv /\ [Next]_vars => PrintInv'
PROOF
<1> SUFFICES ASSUME IInv, IInv', PrintInv, [Next]_vars PROVE PrintInv'
  OBVIOUS
<1>a. run \in Nat /\ line \in Nat /\ printed \in Seq(PrintedLine)
  BY DEF IInv, TypeOK, PrintInv
<1>1. CASE Launch
  <2>1. /\ pc' = "reset" /\ line' = 0 /\ run' = 0 /\ printed' = << >>
    BY <1>1 DEF Launch, Goto
  <2>2. RunLines(line)' = {}
    BY <2>1 DEF RunLines
  <2>3. Len(printed)' = 0 /\ 0 \in PrintedLines'
    BY <2>1 DEF PrintedLines
  <2>4. printed' \in Seq(PrintedLine)
    BY <2>1
  <2>5. Cardinality(RunLines(line))' = 0
    BY <2>2, FS_EmptySet
  <2> QED BY <2>1, <2>3, <2>4, <2>5 DEF PrintInv
<1>2. CASE Reset
  <2>1. pc = "reset" /\ UNCHANGED <<call, line, run, printed>> /\ pc' \in {"chain", "none"}
    BY <1>2, SetLatencyQuiet DEF Reset, Goto
  <2> QED BY <2>1, QuietPrint
<1>3. CASE CreateChain \/ OpenFiles
  <2>1. /\ UNCHANGED <<call, line, run, printed>>
        /\ \/ pc = "chain" /\ pc' \in {"open", "none"}
           \/ pc = "open" /\ pc' \in {"lines", "none"}
    BY <1>3 DEF CreateChain, OpenFiles, Goto, Exit
  <2> QED BY <2>1, QuietPrint
<1>4. CASE ReadLine
  <2>1. /\ pc = "lines" /\ line < Len(call.lines) /\ line' = line + 1 /\ UNCHANGED call
        /\ pc' \in {"lines", "latency"}
    BY <1>4 DEF ReadLine, Goto
  <2>2. /\ RunLines(line)' = RunLines(line + 1)
        /\ Cardinality(RunLines(line + 1)) = Cardinality(RunLines(line))
                 + (IF call.lines[line + 1] # Bad THEN 1 ELSE 0)
    <3>1. RunLines(line)' = RunLines(line + 1)
      BY <2>1 DEF RunLines
    <3> QED BY <3>1, <1>a, CountRuns
  <2>3. CASE call.lines[line + 1] = Bad
    <3>1. UNCHANGED <<pc, run, printed>>
      BY <1>4, <2>1, <2>3 DEF ReadLine
    <3>2. Len(printed) \in PrintedLines => Len(printed)' \in PrintedLines'
      BY <3>1 DEF PrintedLines
    <3>3. (\A k \in 1 .. Len(printed) : printed[k] = TranscriptLine(k)) =>
            (\A k \in 1 .. Len(printed) : printed[k] = TranscriptLine(k))'
      BY <3>1
    <3>4. run = Cardinality(RunLines(line)) => run' = Cardinality(RunLines(line))'
      BY <1>a, <2>1, <2>2, <2>3, <3>1
    <3>5. call'.file => /\ run' = Cardinality(RunLines(line))'
                        /\ Len(printed)' \in PrintedLines'
                        /\ (\A k \in 1 .. Len(printed) : printed[k] = TranscriptLine(k))'
      BY <2>1, <3>2, <3>3, <3>4 DEF PrintInv
    <3> QED BY <2>1, <3>1, <3>5 DEF PrintInv
  <2>4. CASE call.lines[line + 1] # Bad
    <3>1. /\ pc' = "latency" /\ run' = run + 1
          /\ printed' = IF call.file THEN Append(printed, Line("param", run + 1)) ELSE printed
      BY <1>4, <2>1, <2>4 DEF ReadLine, Goto
    <3>2. Line("param", run + 1) \in PrintedLine
      BY <1>a DEF Line, PrintedLine
    <3>3. printed' \in Seq(PrintedLine)
      <4>1. Append(printed, Line("param", run + 1)) \in Seq(PrintedLine)
        BY <1>a, <3>2
      <4> QED BY <1>a, <3>1, <4>1
    <3>4. ASSUME call.file
          PROVE  /\ run' = Cardinality(RunLines(line))'
                 /\ Len(printed)' \in PrintedLines'
                 /\ (\A k \in 1 .. Len(printed) : printed[k] = TranscriptLine(k))'
      <4>1. /\ Len(printed) = 4 * run /\ run = Cardinality(RunLines(line))
            /\ \A k \in 1 .. Len(printed) : printed[k] = TranscriptLine(k)
        BY <2>1, <3>4 DEF PrintInv, PrintedLines
      <4>2. Line("param", run + 1) = TranscriptLine(Len(printed) + 1)
        <5>1. TranscriptLine(4 * (run + 1) - 3) = Line("param", run + 1)
          BY <1>a, LineOfRun
        <5>2. 4 * (run + 1) - 3 = Len(printed) + 1
          BY <1>a, <4>1
        <5> QED BY <5>1, <5>2
      <4>3. printed' = Append(printed, Line("param", run + 1))
        BY <3>1, <3>4
      <4>4. /\ Len(printed') = Len(printed) + 1
            /\ \A k \in 1 .. Len(printed) + 1 : printed'[k] = TranscriptLine(k)
        BY <1>a, <3>2, <4>1, <4>2, <4>3, Continues
      <4>5. Len(printed)' \in PrintedLines'
        BY <1>a, <3>1, <4>1, <4>4 DEF PrintedLines
      <4>6. run' = Cardinality(RunLines(line))'
        BY <1>a, <2>1, <2>2, <2>4, <3>1, <4>1
      <4> QED BY <4>4, <4>5, <4>6
    <3>5. run' > 0
      BY <1>a, <3>1
    <3> QED BY <2>1, <3>1, <3>3, <3>4, <3>5 DEF PrintInv
  <2> QED BY <2>3, <2>4
<1>5. CASE StartRun
  <2>1. pc = "latency" /\ UNCHANGED <<call, line, run, printed>> /\ pc' \in {"begin", "none"}
    BY <1>5, SetLatencyQuiet DEF StartRun, Goto
  <2> QED BY <2>1, QuietPrint
<1>6. CASE BeginRun
  <2>1. pc = "begin" /\ UNCHANGED <<call, line, run, printed>> /\ pc' = "run"
    BY <1>6 DEF BeginRun, Goto
  <2> QED BY <2>1, QuietPrint
<1>7. CASE RunRecords
  <2>1. UNCHANGED <<call, line, run, printed>> /\ pc' = pc
    BY <1>7 DEF RunRecords
  <2> QED BY <2>1, QuietPrint
<1>8. CASE RunAborts
  <2>1. UNCHANGED <<call, line, run, printed>> /\ pc' = "none"
    BY <1>8 DEF RunAborts, Exit
  <2> QED BY <2>1, QuietPrint
<1>9. CASE RunReports
  <2>1. /\ pc = "run" /\ pc' = "results" /\ UNCHANGED <<call, line, run>>
        /\ printed' = Append(printed, Line("elapsed", run))
    BY <1>9 DEF RunReports, Goto
  <2>2. Line("elapsed", run) \in PrintedLine /\ run > 0
    BY <1>a, <2>1 DEF PrintInv, Line, PrintedLine
  <2>3. printed' \in Seq(PrintedLine)
    BY <1>a, <2>1, <2>2
  <2>4. ASSUME call.file
        PROVE  /\ run' = Cardinality(RunLines(line))'
               /\ Len(printed)' \in PrintedLines'
               /\ (\A k \in 1 .. Len(printed) : printed[k] = TranscriptLine(k))'
    <3>1. /\ Len(printed) = 4 * run - 3 /\ run = Cardinality(RunLines(line))
          /\ \A k \in 1 .. Len(printed) : printed[k] = TranscriptLine(k)
      BY <2>1, <2>4 DEF PrintInv, PrintedLines
    <3>2. Line("elapsed", run) = TranscriptLine(Len(printed) + 1)
      <4>1. TranscriptLine(4 * run - 2) = Line("elapsed", run)
        BY <1>a, <2>2, LineOfRun
      <4>2. 4 * run - 2 = Len(printed) + 1
        BY <1>a, <3>1
      <4> QED BY <4>1, <4>2
    <3>3. /\ Len(printed') = Len(printed) + 1
          /\ \A k \in 1 .. Len(printed) + 1 : printed'[k] = TranscriptLine(k)
      BY <1>a, <2>1, <2>2, <3>1, <3>2, Continues
    <3>4. Len(printed)' \in PrintedLines'
      BY <1>a, <2>1, <2>2, <3>1, <3>3 DEF PrintedLines
    <3>5. run' = Cardinality(RunLines(line))'
      <4>1. RunLines(line)' = RunLines(line)
        BY <2>1 DEF RunLines
      <4> QED BY <2>1, <3>1, <4>1
    <3> QED BY <3>3, <3>4, <3>5
  <2> QED BY <2>1, <2>2, <2>3, <2>4 DEF PrintInv
<1>10. CASE PrintResults
  <2> DEFINE a == Line("op", run)
             b == Line("peeks", run)
             s == Append(printed, a)
  <2>1. /\ pc = "results" /\ pc' = "lines" /\ UNCHANGED <<call, line, run>>
        /\ printed' = printed \o <<a, b>>
    BY <1>10 DEF PrintResults, Goto
  <2>2. a \in PrintedLine /\ b \in PrintedLine /\ run > 0
    BY <1>a, <2>1 DEF PrintInv, Line, PrintedLine
  <2>3. s \in Seq(PrintedLine) /\ printed' = Append(s, b) /\ printed' \in Seq(PrintedLine)
    <3> HIDE DEF a, b
    <3> QED BY <1>a, <2>1, <2>2
  <2>4. ASSUME call.file
        PROVE  /\ run' = Cardinality(RunLines(line))'
               /\ Len(printed)' \in PrintedLines'
               /\ (\A k \in 1 .. Len(printed) : printed[k] = TranscriptLine(k))'
    <3>1. /\ Len(printed) = 4 * run - 2 /\ run = Cardinality(RunLines(line))
          /\ \A k \in 1 .. Len(printed) : printed[k] = TranscriptLine(k)
      BY <2>1, <2>4 DEF PrintInv, PrintedLines
    <3>2. a = TranscriptLine(Len(printed) + 1)
      <4>1. TranscriptLine(4 * run - 1) = a
        BY <1>a, <2>2, LineOfRun
      <4>2. 4 * run - 1 = Len(printed) + 1
        BY <1>a, <3>1
      <4> QED BY <4>1, <4>2
    <3>3. /\ Len(s) = Len(printed) + 1
          /\ \A k \in 1 .. Len(s) : s[k] = TranscriptLine(k)
      <4> HIDE DEF a
      <4>1. /\ Len(s) = Len(printed) + 1
            /\ \A k \in 1 .. Len(printed) + 1 : s[k] = TranscriptLine(k)
        BY <1>a, <2>2, <3>1, <3>2, Continues
      <4> HIDE DEF s
      <4> QED BY <4>1
    <3>4. b = TranscriptLine(Len(s) + 1)
      <4>1. TranscriptLine(4 * run) = b
        BY <1>a, <2>2, LineOfRun
      <4>2. 4 * run = Len(s) + 1
        <5> HIDE DEF s
        <5> QED BY <1>a, <3>1, <3>3
      <4> QED BY <4>1, <4>2
    <3>5. /\ Len(printed') = Len(s) + 1
          /\ \A k \in 1 .. Len(s) + 1 : printed'[k] = TranscriptLine(k)
      <4> HIDE DEF s, b
      <4> QED BY <2>2, <2>3, <3>3, <3>4, Continues
    <3> HIDE DEF s, a, b
    <3>6. Len(printed)' \in PrintedLines'
      <4>1. Len(printed') = 4 * run /\ 4 * run \in Nat
        BY <1>a, <3>1, <3>3, <3>5
      <4> QED BY <2>1, <4>1 DEF PrintedLines
    <3>7. run' = Cardinality(RunLines(line))'
      <4>1. RunLines(line)' = RunLines(line)
        BY <2>1 DEF RunLines
      <4> QED BY <2>1, <3>1, <4>1
    <3> QED BY <3>5, <3>6, <3>7
  <2> HIDE DEF s, a, b
  <2> QED BY <2>1, <2>2, <2>3, <2>4 DEF PrintInv
<1>11. CASE LastLine
  <2>1. /\ pc = "lines" /\ UNCHANGED <<call, line, run, printed>> /\ pc' \in {"unmap", "none"}
        /\ line = Len(call.lines)
    BY <1>11, SetLatencyQuiet DEF LastLine, Goto
  <2> QED BY <2>1, QuietPrint
<1>12. CASE Unmap
  <2>1. UNCHANGED <<call, line, run, printed>> /\ pc' = "none"
    BY <1>12 DEF Unmap, Exit
  <2> QED BY <2>1, QuietPrint
<1>13. CASE UNCHANGED vars
  <2>1. UNCHANGED <<call, line, run, printed>> /\ pc' = pc
    BY <1>13 DEF vars
  <2> QED BY <2>1, QuietPrint
<1> QED BY <1>1, <1>2, <1>3, <1>4, <1>5, <1>6, <1>7, <1>8, <1>9, <1>10, <1>11, <1>12, <1>13
        DEF Next, Step

(* With a parameter file of any length, whatever fails: the lines printed  *)
(* for batch.py are a beginning of the transcript of its runs, and all of  *)
(* it when the process comes to its end (main.c:463-480).                  *)
THEOREM TranscriptPrinted == Spec => []PrintsTranscript
PROOF
<1>1. ASSUME IInv, PrintInv PROVE PrintsTranscript
  <2>1. SUFFICES ASSUME call.file
                 PROVE  /\ IsPrefix(printed, Transcript(NumRuns))
                        /\ pc = "unmap" => printed = Transcript(NumRuns)
    BY DEF PrintsTranscript
  <2>2. /\ printed \in Seq(PrintedLine) /\ run \in Nat /\ line \in 0 .. Len(call.lines) /\ line \in Nat
        /\ call.lines \in Seq(Latency \cup {Bad}) /\ Len(call.lines) \in Nat
    BY <1>1 DEF IInv, TypeOK, CallOK, PrintInv
  <2>3. /\ run = Cardinality(RunLines(line)) /\ Len(printed) <= 4 * run
        /\ pc = "unmap" => line = Len(call.lines) /\ Len(printed) = 4 * run
        /\ \A k \in 1 .. Len(printed) : printed[k] = TranscriptLine(k)
    BY <1>1, <2>1 DEF PrintInv, PrintedLines
  <2>4. NumRuns = Cardinality(RunLines(Len(call.lines))) /\ NumRuns \in Nat
    <3>1. DOMAIN call.lines = 1 .. Len(call.lines)
      BY <2>2
    <3> QED BY <2>2, <3>1, CountRuns DEF NumRuns, RunLines
  <2>5. run <= NumRuns
    <3>1. RunLines(line) \in SUBSET RunLines(Len(call.lines))
      BY <2>2 DEF RunLines
    <3>2. IsFiniteSet(RunLines(Len(call.lines)))
      BY <2>2, CountRuns
    <3> QED BY <2>3, <2>4, <3>1, <3>2, FS_Subset
  <2> DEFINE t == Transcript(NumRuns)
  <2>6. t \in Seq(PrintedLine) /\ Len(t) = 4 * NumRuns /\ \A k \in 1 .. 4 * NumRuns : t[k] = TranscriptLine(k)
    BY <2>4, TranscriptIs
  <2> HIDE DEF t
  <2>7. Len(printed) <= Len(t) /\ Len(printed) \in Nat
    BY <2>2, <2>3, <2>4, <2>5, <2>6
  <2>8. \A k \in 1 .. Len(printed) : printed[k] = t[k]
    BY <2>3, <2>6, <2>7
  <2>9. SubSeq(printed, 1, Len(printed)) = SubSeq(t, 1, Len(printed))
    BY <2>2, <2>6, <2>7, <2>8
  <2>10. ASSUME pc = "unmap" PROVE printed = t
    <3>1. Len(printed) = Len(t)
      BY <2>3, <2>4, <2>6, <2>10
    <3> QED BY <2>2, <2>6, <2>8, <3>1
  <2> QED BY <2>7, <2>9, <2>10 DEF IsPrefix, t
<1> QED BY <1>1, InitInv, NextInv, InitPrint, NextPrint, PTL DEF Spec
=============================================================================
