---------------------------- MODULE AerospikeSweep ----------------------------
(***************************************************************************)
(* The Aerospike measurement: aerospike/run-act.sh and act-rw-cxl.sh run   *)
(* the load generator for every number of server threads, memory latency   *)
(* and number of client threads, into one log per number of server         *)
(* threads.  notebooks/utils/aerospike_parser.py and aerospike_analyzer.py *)
(* read the logs back.                                                     *)
(*                                                                         *)
(* No line of a log says at which latency it was measured.  The analyzer   *)
(* takes it that the next latency has begun when the number of client      *)
(* threads drops.  The scripts look at no exit status, so a load generator *)
(* or a latency script that fails goes unnoticed.                          *)
(***************************************************************************)
EXTENDS Integers, Sequences, FiniteSetsExt

CONSTANTS
  NumServers,      \* length of SERVER_THREADS_LIST, one log each
  Latencies,       \* the latencies of the sweep, in order; <<0>> for DRAM
  ClientThreads,   \* CLIENT_THREADS_LIST
  LoadThreads,     \* client threads while the data are loaded
  Defrag,          \* whether the read-write workload is measured
  Rate(_),         \* throughput of a workload that prints its figures
  MaxRounds,       \* bound: rounds of writes that make defrag happen
  MaxFaults        \* bound: calls that fail

(* In all configuration files the client threads ascend, and the first two *)
(* are below the 256 of the load; the list of latencies in the scripts and *)
(* in the notebook names none twice.                                       *)
ASSUME ListsAssumption ==
  /\ NumServers \in Nat \ {0}
  /\ Latencies \in Seq(Nat) /\ Len(Latencies) > 0
  /\ \A s, t \in 1 .. Len(Latencies) : Latencies[s] = Latencies[t] => s = t
  /\ ClientThreads \in Seq(Nat \ {0}) /\ Len(ClientThreads) > 2
  /\ \A a, b \in 1 .. Len(ClientThreads) :
       a < b => ClientThreads[a] < ClientThreads[b]
  /\ LoadThreads \in Nat /\ LoadThreads > ClientThreads[2]
ASSUME BoundsAssumption ==
  Defrag \in BOOLEAN /\ MaxRounds \in Nat /\ MaxFaults \in Nat

Unset == -1                     \* a variable that nothing has assigned

VARIABLES
  pc,          \* "start", "defrag", "latency", "sweep", "stop", "analyse";
               \* how the analyzer ends: "done", "no match", "IndexError",
               \* "UnboundLocalError"
  rounds,      \* rounds of writes so far
  lat,         \* latencies begun
  client,      \* entries of ClientThreads begun
  device,      \* latency the memory has
  log,         \* workloads in the log being written
  logs,        \* finished logs
  toRead,      \* logs the analyzer has not read
  curLatency,  \* cur_mem_latency, which outlives the loop over the logs
  filed,       \* log_dict: workloads with the latency they are filed under
  faults       \* what has failed                                  (history)

sweepVars == <<rounds, lat, client, device, log, logs, faults>>
analyzerVars == <<toRead, curLatency, filed>>
vars == <<pc, sweepVars, analyzerVars>>

(* A section of the log, from one "hosts:" line to the next; server, at    *)
(* and step are not in the log but say what it is about.                   *)
Workload(threads, read, cut) ==
  [threads |-> threads, read |-> read, cut |-> cut,
   server |-> Len(logs) + 1, at |-> device, step |-> lat]

(* The load generator with some number of threads: it may print all its    *)
(* figures, or fail after it has printed its settings, in the middle of    *)
(* them, or before.                                                        *)
Generate(threads, measures) ==
  \/ log' = Append(log, Workload(threads, measures, FALSE)) /\ UNCHANGED faults
  \/ /\ Len(faults) < MaxFaults
     /\ \/ log' = Append(log, Workload(threads, FALSE, FALSE))
           /\ faults' = Append(faults, "silent")
        \/ log' = Append(log, Workload(threads, FALSE, TRUE))
           /\ faults' = Append(faults, "cut")
        \/ UNCHANGED log
           /\ faults' = Append(faults, IF measures THEN "missing" ELSE "no load")

-----------------------------------------------------------------------------
(* The scripts.                                                            *)

(* Start the server, load the data.                                        *)
Load ==
  /\ pc = "start"
  /\ Generate(LoadThreads, FALSE)
  /\ pc' = IF Defrag THEN "defrag" ELSE "latency"
  /\ UNCHANGED <<rounds, lat, client, device, logs, analyzerVars>>

(* Write until the server has taken twice the number of keys.              *)
WriteMore ==
  /\ pc = "defrag" /\ rounds < MaxRounds
  /\ rounds' = rounds + 1
  /\ Generate(LoadThreads, FALSE)
  /\ UNCHANGED <<pc, lat, client, device, logs, analyzerVars>>

WrittenEnough ==
  /\ pc = "defrag" /\ rounds > 0
  /\ pc' = "latency"
  /\ UNCHANGED <<sweepVars, analyzerVars>>

(* The trigger sets the next latency.                                      *)
NextLatency ==
  /\ pc = "latency" /\ lat < Len(Latencies)
  /\ lat' = lat + 1 /\ client' = 0
  /\ \/ device' = Latencies[lat'] /\ UNCHANGED faults
     \/ /\ Len(faults) < MaxFaults
        /\ faults' = Append(faults, "trigger")
        /\ UNCHANGED device
  /\ pc' = "sweep"
  /\ UNCHANGED <<rounds, log, logs, analyzerVars>>

Measure ==
  /\ pc = "sweep" /\ client < Len(ClientThreads)
  /\ client' = client + 1
  /\ Generate(ClientThreads[client'], TRUE)
  /\ UNCHANGED <<pc, rounds, lat, device, logs, analyzerVars>>

LatencyDone ==
  /\ pc = "sweep" /\ client = Len(ClientThreads)
  /\ pc' = "latency"
  /\ UNCHANGED <<sweepVars, analyzerVars>>

(* A script ends, and its log with it; the next one begins with the next   *)
(* number of server threads, the analyzer when there is none.              *)
EndScript ==
  /\ logs' = Append(logs, log) /\ log' = << >>
  /\ rounds' = 0 /\ lat' = 0 /\ client' = 0
  /\ IF Len(logs') < NumServers
     THEN pc' = "start" /\ UNCHANGED toRead
     ELSE pc' = "analyse" /\ toRead' = 1 .. NumServers
  /\ UNCHANGED <<curLatency, filed>>

(* With another scaling governor than "performance" a script measures      *)
(* nothing and sets no latency.                                            *)
WrongGovernor ==
  /\ pc = "start" /\ Len(faults) < MaxFaults
  /\ faults' = Append(faults, "governor")
  /\ EndScript
  /\ UNCHANGED device

(* The trigger sets the shortest latency at the end of a script.           *)
SweepDone ==
  /\ pc = "latency" /\ lat = Len(Latencies)
  /\ device' = 1
  /\ EndScript
  /\ UNCHANGED faults

-----------------------------------------------------------------------------
(* The analyzer.                                                           *)

Before(l, j) == IF j = 1 THEN 0 ELSE l[j - 1].threads

(* The workloads at which it moves on to the next latency.                 *)
Drops(l) == {j \in 1 .. Len(l) : l[j].read /\ Before(l, j) > l[j].threads}

(* Mutant of Moves: mem_latency_idx begins at 0.                           *)
MovesFromZero(l, j) == Cardinality({d \in Drops(l) : d <= j}) + 1

(* How often it has moved on up to workload j.                             *)
Moves(l, j) == Cardinality({d \in Drops(l) : d <= j})

LatencyOf(l, j) == IF Moves(l, j) = 0 THEN curLatency ELSE Latencies[Moves(l, j)]

Measured(l) == {j \in 1 .. Len(l) : l[j].read}

(* _parse_items finds no line with a setting.                              *)
NoMatch(l) == \E j \in 1 .. Len(l) : l[j].cut

(* parse_logs on one of the files, in the order in which glob finds them.  *)
ReadLog(f) ==
  /\ pc = "analyse" /\ f \in toRead
  /\ toRead' = toRead \ {f}
  /\ LET l == logs[f]
     IN  IF NoMatch(l)
         THEN pc' = "no match" /\ UNCHANGED <<curLatency, filed>>
         ELSE IF \E j \in Measured(l) : Moves(l, j) > Len(Latencies)
         THEN pc' = "IndexError" /\ UNCHANGED <<curLatency, filed>>
         ELSE IF \E j \in Measured(l) : LatencyOf(l, j) = Unset
         THEN pc' = "UnboundLocalError" /\ UNCHANGED <<curLatency, filed>>
         ELSE /\ filed' = filed \cup
                   {[workload |-> l[j], latency |-> LatencyOf(l, j)] : j \in Measured(l)}
              /\ curLatency' = IF l = << >> THEN curLatency ELSE LatencyOf(l, Len(l))
              /\ pc' = IF toRead' = {} THEN "done" ELSE pc
  /\ UNCHANGED sweepVars

(* Mutant of Cell: one table for all logs.                                 *)
CellOfClients(w) == <<w.threads, 1>>

(* The record of a workload has its place in the tables by its client and  *)
(* server threads.                                                         *)
Cell(w) == <<w.threads, w.server>>

Runs(latency) == {r.workload : r \in {r \in filed : r.latency = latency}}

(* throughput_dict: of two records with one place, the later in the log.   *)
Throughputs(latency) ==
  LET runs == Runs(latency)
  IN  [c \in {Cell(w) : w \in runs} |->
         Rate(CHOOSE w \in runs :
                /\ Cell(w) = c
                /\ \A v \in runs : Cell(v) = c => v.step <= w.step)]

(* max_throughput, 0 for a latency without a record: what the figures and  *)
(* aerospike.json show.                                                    *)
MaxThroughput(latency) == Max({0} \cup {Rate(w) : w \in Runs(latency)})

-----------------------------------------------------------------------------
Init ==
  /\ pc = "start" /\ rounds = 0 /\ lat = 0 /\ client = 0
  /\ device = 1
  /\ log = << >> /\ logs = << >> /\ toRead = {}
  /\ curLatency = Unset /\ filed = {}
  /\ faults = << >>

Next == \/ WrongGovernor \/ Load \/ WriteMore \/ WrittenEnough \/ NextLatency \/ Measure
        \/ LatencyDone \/ SweepDone
        \/ \E f \in 1 .. NumServers : ReadLog(f)

Spec == Init /\ [][Next]_vars

-----------------------------------------------------------------------------
(* A single failure that leaves no trace does little harm.  If it is a     *)
(* measurement, the table of each latency has exactly the other workloads  *)
(* measured at it, each with its own figure, and the bar is the best of    *)
(* them.  If it is the latency script, each table still has the workloads  *)
(* of its own step, and only one step of one log was measured at another   *)
(* latency than its table says (act-rw-cxl.sh:64-77,                       *)
(* aerospike_analyzer.py:16-25, 29-68, aerospike.ipynb:44-50).             *)
FiguresAsMeasured ==
  pc = "done" /\ faults \in {<< >>, <<"missing">>, <<"trigger">>} =>
    LET all == UNION {{logs[f][j] : j \in Measured(logs[f])} : f \in 1 .. NumServers}
        wrong == {w \in all : w.at # Latencies[w.step]}
    IN  /\ Cardinality({<<w.server, w.step>> : w \in wrong})
             <= (IF faults = <<"trigger">> THEN 1 ELSE 0)
        /\ \A s \in 1 .. Len(Latencies) :
             LET of == {w \in all : w.step = s}
             IN  /\ DOMAIN Throughputs(Latencies[s]) = {<<w.threads, w.server>> : w \in of}
                 /\ \A w \in of : Throughputs(Latencies[s])[<<w.threads, w.server>>] = Rate(w)
                 /\ MaxThroughput(Latencies[s]) = Max({Rate(w) : w \in of})

(* Measurements that fail after they have printed their settings, or leave *)
(* no trace, move others to another latency, but only to an earlier one of *)
(* the same log, or to the one with which the analyzer left another log    *)
(* (aerospike_analyzer.py:17-25: cur_mem_latency is not reset).            *)
MisfiledTowardsEarlier ==
  \A r \in filed :
    LET l == logs[r.workload.server]
        position == CHOOSE j \in 1 .. Len(l) : l[j] = r.workload
    IN  \/ \E k \in 1 .. r.workload.step : r.latency = Latencies[k]
        \/ Moves(l, position) = 0

(* However many measurements fail, the analyzer never asks for more        *)
(* latencies than there are (aerospike_analyzer.py:21-22).                 *)
EnoughLatencies == pc # "IndexError"
=============================================================================
