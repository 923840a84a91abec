---------------------------- MODULE BatchPipeline ----------------------------
(***************************************************************************)
(* microbench/batch.py: it runs the microbenchmark once per stage through  *)
(* "main ... 2>&1 | tee log", reads the log back into records and dumps    *)
(* them as JSON, which notebooks/utils/microbench_parser.py loads.         *)
(*                                                                         *)
(* The benchmark prints the Transcript that MbenchProcess prints, into a   *)
(* stdio buffer that reaches the log in pieces cut anywhere.  Error        *)
(* messages, its own and those of the latency script it runs, are not      *)
(* buffered: one lands wherever the log ends just then, in the middle of a *)
(* line if need be, and ends that line.  A killed benchmark loses what the *)
(* buffer holds.  batch.py does not look at the exit status, and waits for *)
(* as long as the benchmark takes.                                         *)
(***************************************************************************)
EXTENDS RunLog, Integers, FiniteSets, SequencesExt

CONSTANTS
  Stages,      \* the calls of run_benchmark: JSON file, number of runs,
               \* and whether they set the latency of the CXL memory
  NumArgs,     \* command line arguments of batch.py
  Faults,      \* what may go wrong
  MaxMessages, \* bound: messages in a log when the script adds one
  MaxStarts    \* bound: starts of batch.py

FaultKind == {"message", "warning", "killed", "interrupt"}

(* The stages of a file follow each other.                                 *)
ASSUME StagesAssumption ==
  /\ Len(Stages) \in Nat \ {0}
  /\ \A s \in 1 .. Len(Stages) : Stages[s].runs \in Nat \ {0} /\ Stages[s].cxl \in BOOLEAN
  /\ \A s, t \in 1 .. Len(Stages) : \A u \in s .. t :
       Stages[s].out = Stages[t].out => Stages[u].out = Stages[s].out
ASSUME ArgsAssumption ==
  /\ NumArgs \in Nat /\ Faults \subseteq FaultKind
  /\ MaxMessages \in Nat /\ MaxStarts \in Nat

Out == {Stages[s].out : s \in 1 .. Len(Stages)}

VARIABLES
  pc,        \* "start", "stage", "running", "parse", "dump"; "done" and the
             \* ways batch.py ends early: "usage", "refused", "died", "stopped"
  starts,    \* starts of batch.py
  logDir,    \* whether the log directory exists
  stage,     \* current stage
  position,  \* lines the benchmark has printed
  buffer,    \* pieces of lines in the benchmark's stdio buffer; what it
             \* holds when the benchmark is killed is lost
  log,       \* pieces of lines in the log file
  results,   \* records for the JSON file being collected
  json,      \* the JSON files that exist: their records, and whether the
             \* file is whole
  notebook   \* "closed", "loaded" or "ValueError"

benchVars == <<position, buffer, log>>
vars == <<pc, starts, logDir, stage, benchVars, results, json, notebook>>

-----------------------------------------------------------------------------
(* The log, piece by piece.  A line breaks into two parts; the one that    *)
(* ends with the polls per I/O into three, with part of the number in the  *)
(* second.                                                                 *)
NumParts(kind) == IF kind = "peeks" THEN 3 ELSE 2

Pieces(ln) == [k \in 1 .. NumParts(ln.kind) |-> [line |-> ln, part |-> k]]

Message == [line |-> Line("message", 0), part |-> 0]

Messages(l) == {m \in 1 .. Len(l) : l[m] = Message}

(* How many parts of the line that begins at position j follow each other. *)
Extent(l, j) ==
  Cardinality({d \in 0 .. 2 : j + d <= Len(l) /\
                 \A e \in 0 .. d : l[j + e].line = l[j].line /\ l[j + e].part = e + 1})

(* The regular expressions of parse_output need the whole of a line, but   *)
(* the last one is content with a number that has been cut short.          *)
Matches(l, j, kind) == l[j].line.kind = kind /\ l[j].part = 1 /\ Extent(l, j) >= 2

NoRun == 0

Finds(l, kind) == {j \in 1 .. Len(l) : Matches(l, j, kind)}

(* Mutants of Held: the first match is kept; or the dictionaries are       *)
(* filled in after the loop, when the variables hold the last values.      *)
HeldFirst(l, kind, j) ==
  LET before == {i \in Finds(l, kind) : i < j}
  IN  IF before = {} THEN NoRun ELSE l[Min(before)].line.run
HeldLast(l, kind, j) ==
  LET all == Finds(l, kind)
  IN  IF all = {} THEN NoRun ELSE l[Max(all)].line.run

(* What the variable for a kind of line holds when piece j is read: the    *)
(* last match so far, of this run or of an earlier one.                    *)
Held(l, kind, j) ==
  LET before == {i \in Finds(l, kind) : i < j}
  IN  IF before = {} THEN NoRun ELSE l[Max(before)].line.run

(* parse_output: every line with polls per I/O makes a record of what the  *)
(* variables hold; one that nothing has assigned is an UnboundLocalError.  *)
RecordAt(l, j) ==
  [stage |-> stage,
   param |-> Held(l, "param", j), elapsed |-> Held(l, "elapsed", j),
   op |-> Held(l, "op", j), peeks |-> l[j].line.run, cut |-> Extent(l, j) < 3]

Unbound(l) ==
  \E j \in Finds(l, "peeks") :
    NoRun \in {Held(l, kind, j) : kind \in {"param", "elapsed", "op"}}

parse_output(l) ==
  LET runs == 1 .. Cardinality(Finds(l, "peeks"))
      ends == CHOOSE e \in [runs -> Finds(l, "peeks")] :
                \A r, s \in runs : r < s => e[r] < e[s]
  IN  [r \in runs |-> RecordAt(l, ends[r])]

-----------------------------------------------------------------------------
(* batch.py.                                                               *)

(* Mutant of Start: mkdir does not mind a directory that exists.           *)
StartAnyway ==
  /\ pc = "start"
  /\ IF NumArgs < 1 THEN pc' = "usage" /\ UNCHANGED <<logDir, stage>>
     ELSE pc' = "stage" /\ logDir' = TRUE /\ stage' = 1
  /\ results' = << >>
  /\ UNCHANGED <<starts, benchVars, json, notebook>>

(* It wants the block device as an argument, and a log directory that does *)
(* not exist yet.                                                          *)
Start ==
  /\ pc = "start"
  /\ IF NumArgs < 1 THEN pc' = "usage" /\ UNCHANGED <<logDir, stage>>
     ELSE IF logDir THEN pc' = "refused" /\ UNCHANGED <<logDir, stage>>
     ELSE pc' = "stage" /\ logDir' = TRUE /\ stage' = 1
  /\ results' = << >>
  /\ UNCHANGED <<starts, benchVars, json, notebook>>

(* Mutant of Spawn: tee -a on one log for all stages.                      *)
SpawnAppending ==
  /\ pc = "stage"
  /\ position' = 0 /\ buffer' = << >>
  /\ pc' = "running"
  /\ UNCHANGED <<starts, logDir, stage, log, results, json, notebook>>

(* write_param_file, then the pipeline is started.                         *)
Spawn ==
  /\ pc = "stage"
  /\ position' = 0 /\ buffer' = << >> /\ log' = << >>
  /\ pc' = "running"
  /\ UNCHANGED <<starts, logDir, stage, results, json, notebook>>

Parse ==
  /\ pc = "parse"
  /\ IF Unbound(log) THEN pc' = "died" /\ UNCHANGED results
     ELSE pc' = "dump" /\ results' = results \o parse_output(log)
  /\ UNCHANGED <<starts, logDir, stage, benchVars, json, notebook>>

LastOfFile == stage < Len(Stages) => Stages[stage + 1].out # Stages[stage].out

(* The JSON files with that of the current stage.                          *)
Written(isWhole) ==
  [f \in DOMAIN json \cup {Stages[stage].out} |->
     IF f = Stages[stage].out THEN [records |-> results, whole |-> isWhole] ELSE json[f]]

(* The file is written when the last of its stages is through.             *)
Dump ==
  /\ pc = "dump"
  /\ IF LastOfFile THEN json' = Written(TRUE) /\ results' = << >>
     ELSE UNCHANGED <<json, results>>
  /\ IF stage = Len(Stages) THEN pc' = "done" /\ UNCHANGED stage
     ELSE pc' = "stage" /\ stage' = stage + 1
  /\ UNCHANGED <<starts, logDir, benchVars, notebook>>

(* The user interrupts batch.py, in the middle of writing a file if need   *)
(* be, or starts it again.                                                 *)
Interrupt ==
  /\ "interrupt" \in Faults /\ pc \in {"stage", "running", "parse", "dump"}
  /\ pc' = "stopped"
  /\ \/ UNCHANGED json
     \/ pc = "dump" /\ LastOfFile /\ json' = Written(FALSE)
  /\ UNCHANGED <<starts, logDir, stage, benchVars, results, notebook>>

StartAgain ==
  /\ pc \in {"done", "refused", "died", "stopped"} /\ starts < MaxStarts
  /\ starts' = starts + 1
  /\ pc' = "start"
  /\ UNCHANGED <<logDir, stage, benchVars, results, json, notebook>>

-----------------------------------------------------------------------------
(* The benchmark (MbenchProcess), its buffer and its ends.                 *)
Lines == Transcript(Stages[stage].runs)

PrintLine ==
  /\ pc = "running" /\ position < Len(Lines)
  /\ position' = position + 1
  /\ buffer' = buffer \o Pieces(Lines[position'])
  /\ UNCHANGED <<pc, starts, logDir, stage, log, results, json, notebook>>

Flush ==
  /\ pc = "running"
  /\ \E k \in 1 .. Len(buffer) : /\ log' = log \o SubSeq(buffer, 1, k)
                                 /\ buffer' = SubSeq(buffer, k + 1, Len(buffer))
  /\ UNCHANGED <<pc, starts, logDir, stage, position, results, json, notebook>>

(* Mutant of Returns: the buffer is not flushed at the end.                *)
ReturnsUnflushed ==
  /\ pc = "running" /\ position = Len(Lines)
  /\ buffer' = << >>
  /\ pc' = "parse"
  /\ UNCHANGED <<starts, logDir, stage, position, log, results, json, notebook>>

Returns ==
  /\ pc = "running" /\ position = Len(Lines)
  /\ log' = log \o buffer /\ buffer' = << >>
  /\ pc' = "parse"
  /\ UNCHANGED <<starts, logDir, stage, position, results, json, notebook>>

(* Where the benchmark calls what may complain: during a run, that is      *)
(* between its parameters and its elapsed time, before the first and after *)
(* the last one.                                                           *)
MayComplain ==
  \/ position \in {0, Len(Lines)}
  \/ position < Len(Lines) /\ Lines[position + 1].kind = "elapsed"

(* A message and exit(1), which flushes the buffer behind the message.     *)
ExitsWithMessage ==
  /\ pc = "running" /\ "message" \in Faults /\ MayComplain
  /\ log' = Append(log, Message) \o buffer /\ buffer' = << >>
  /\ pc' = "parse"
  /\ UNCHANGED <<starts, logDir, stage, position, results, json, notebook>>

(* The script that sets the latency, before the chain is built, in each    *)
(* run and at the end, writes to the standard error it has from the        *)
(* benchmark; if it does not fail, the benchmark goes on.                  *)
ScriptWarns ==
  /\ pc = "running" /\ "warning" \in Faults /\ MayComplain
  /\ Stages[stage].cxl /\ Cardinality(Messages(log)) < MaxMessages
  /\ log' = Append(log, Message)
  /\ UNCHANGED <<pc, starts, logDir, stage, position, buffer, results, json, notebook>>

(* A signal.                                                               *)
Killed ==
  /\ pc = "running" /\ "killed" \in Faults
  /\ pc' = "parse"
  /\ UNCHANGED <<starts, logDir, stage, benchVars, results, json, notebook>>

-----------------------------------------------------------------------------
(* The notebook loads the JSON files.  batch.py leaves the polls per I/O   *)
(* as text with a decimal, and _cast takes every key that is not in        *)
(* PERF_KEYS for an integer.                                               *)
PerfKeys == {"time", "p50", "p90", "p99", "p999", "p9999", "p99999"}

Castable(key, isDecimal) == key \in PerfKeys \/ ~isDecimal

LoadNotebook ==
  /\ pc = "done" /\ notebook = "closed"
  /\ notebook' = IF \A f \in DOMAIN json : \A r \in 1 .. Len(json[f].records) :
                      Castable("num_peeks", ~json[f].records[r].cut)
                 THEN "loaded" ELSE "ValueError"
  /\ UNCHANGED <<pc, starts, logDir, stage, benchVars, results, json>>

-----------------------------------------------------------------------------
Init ==
  /\ pc = "start" /\ starts = 1 /\ logDir = FALSE /\ stage = 1
  /\ position = 0 /\ buffer = << >> /\ log = << >> /\ results = << >>
  /\ json = << >>
  /\ notebook = "closed"

Next == \/ Start \/ Spawn \/ Parse \/ Dump \/ Interrupt \/ StartAgain
        \/ PrintLine \/ Flush \/ ScriptWarns \/ Returns \/ ExitsWithMessage \/ Killed
        \/ LoadNotebook

Spec == Init /\ [][Next]_vars

-----------------------------------------------------------------------------
OfOneRun(r) == r.param = r.peeks /\ r.elapsed = r.peeks /\ r.op = r.peeks

(* A message stands in one of the lines of this run.                       *)
Torn(l, run) ==
  \E i \in 1 .. Len(l) - 1 : /\ l[i].line.run = run /\ l[i].part < NumParts(l[i].line.kind)
                             /\ l[i + 1] = Message

(* The log ends in this record's line.                                     *)
AtEnd(l, record) == l[Len(l)].line = Line("peeks", record.peeks)

(* A record mixes two runs only if a message stands in one of the lines of *)
(* its own run, never because of what became of another run; its number is *)
(* cut short only by a message there or by the end of the log.  Killing    *)
(* the benchmark with half its output in the buffer mixes nothing          *)
(* (batch.py:52-113).                                                      *)
RecordsOfOneRun ==
  pc = "parse" =>
    LET records == parse_output(log)
    IN  \A r \in 1 .. Len(records) :
          /\ OfOneRun(records[r]) \/ Torn(log, records[r].peeks)
          /\ records[r].cut => Torn(log, records[r].peeks) \/ AtEnd(log, records[r])

Spoilt(l, record) == ~OfOneRun(record) \/ (record.cut /\ ~AtEnd(l, record))

(* A message spoils one record at most: a stage has no more records that   *)
(* mix runs, or hold a number cut short before the end of the log, than    *)
(* its log has messages (batch.py:145, 52-113).                            *)
OneSpoiltRecord ==
  pc = "dump" =>
    Cardinality({r \in 1 .. Len(results) : results[r].stage = stage /\ Spoilt(log, results[r])})
      <= Cardinality(Messages(log))

(* However the benchmark ends, its runs appear in the results in order and *)
(* at most once (batch.py:55-111).                                         *)
RunsInOrder ==
  \A r \in 1 .. Len(results) - 1 :
    results[r].stage = results[r + 1].stage => results[r].peeks < results[r + 1].peeks

(* A benchmark that returns, or has lost nothing, has all its runs in the  *)
(* results, however its output was cut into pieces (batch.py:145-157).     *)
AllRunsRecorded ==
  pc = "dump" /\ position = Len(Lines) /\ buffer = << >> /\ Messages(log) = {} =>
    Cardinality({r \in 1 .. Len(results) : results[r].stage = stage /\ ~results[r].cut})
      = Stages[stage].runs

(* Results on disk are never replaced, not by a later stage and not by a   *)
(* second start of batch.py (batch.py:167-168, 177-221).                   *)
ResultsKept == [][\A f \in DOMAIN json : f \in DOMAIN json' /\ json'[f] = json[f]]_vars

(* "Open and run Jupyter Notebook" (README.md:100-102): the notebook can   *)
(* read what batch.py has written.                                         *)
NotebookLoads == notebook # "ValueError"
=============================================================================
