----------------------------- MODULE Microbench -----------------------------
(***************************************************************************)
(* One run of the microbenchmark: run_threads and run_each_thread of       *)
(* microbench/src/main.c, on the Argobots scheduler and one io_uring per   *)
(* user-level thread (ULT).                                                *)
(*                                                                         *)
(* The main ULT splits the operations among NumThreads workers, places     *)
(* them round-robin on NumXstreams execution streams, joins them and       *)
(* reports.  A worker does its operations one after the other: it chases   *)
(* pointers, yielding between each prefetch and the load it serves, then   *)
(* submits one I/O, yields, and polls for the completion, yielding after   *)
(* each fruitless poll.  A stream runs one ULT at a time, without          *)
(* preemption, and takes them first-in-first-out from its pool.            *)
(***************************************************************************)
EXTENDS Integers, Sequences

CONSTANTS
  Count,         \* operations of the run
  NumThreads,    \* worker ULTs
  NumXstreams,   \* execution streams (kernel threads)
  NumChases,     \* pointers chased by an operation, give or take one
  IoMode,        \* 0 no I/O, 1 read, 2 write
  Prefetch,      \* whether a prefetch and a yield precede every load
  Faults,        \* the calls that may fail
  MaxPeeks       \* bound: num_peeks stops counting here

FaultKind == {"init", "setup", "submit", "peek", "io"}

ASSUME SizesAssumption == /\ Count \in Nat \ {0}
                          /\ NumThreads \in Nat \ {0}
                          /\ NumXstreams \in Nat \ {0}
                          /\ NumChases \in Nat
ASSUME ModeAssumption == /\ IoMode \in {0, 1, 2}
                         /\ Prefetch \in BOOLEAN
                         /\ Faults \subseteq FaultKind
ASSUME PeeksAssumption == MaxPeeks \in Nat

Op == 0 .. Count - 1
Worker == 0 .. NumThreads - 1
Xstream == 0 .. NumXstreams - 1
Main == -1                          \* the primary ULT, which runs run_threads
Idle == -2                          \* a stream that is in its scheduler
Unset == -3                         \* malloc'ed memory nobody has written
Stdin == -4                         \* descriptor 0 of the process
NotWritten == <<Unset, 0>>          \* an entry of op_latencies after malloc
Stamp == Worker \X (0 .. Count)
Ult == Worker \cup {Main}
NoSlice == [start |-> 0, count |-> 0]

VARIABLES
  status,      \* of the process: "running", "reported", "failed", "crashed"
  mainPc,      \* where run_threads is
  next,        \* its loop variable
  currPos,     \* curr_pos of the splitting loop
  slice,       \* t_params[t]: first entry of op_latencies and count
  pool,        \* ready ULTs of each stream, in order
  running,     \* the ULT each stream runs, or Idle
  pc,          \* where each worker is in run_each_thread
  done,        \* operations the worker has finished
  chases,      \* links the current operation still has to follow
  ring,        \* the worker's io_uring: "none", "idle", "inflight", "complete"
  res,         \* cqe->res of the request: "none", "full", "short", "error"
  open,        \* open descriptors: Stdin and one per worker
  buffers,     \* workers whose I/O buffer is allocated
  latency,     \* which measurement each entry of op_latencies holds: its
               \* worker and how many that worker had written before
  numPeeks,    \* num_peeks
  behind       \* ULTs that were ready when the worker prefetched and have
               \* not run since                                     (history)

mainVars == <<mainPc, next, currPos, slice>>
schedVars == <<pool, running, behind>>
ioVars == <<ring, res, open, buffers>>
resultVars == <<latency, numPeeks>>
vars == <<status, mainVars, schedVars, pc, done, chases, ioVars, resultVars>>

-----------------------------------------------------------------------------
(* The scheduler: what the code relies on Argobots to do.                  *)

(* Worker i is created on xstreams[i % num_xstreams]; main stays on 0.     *)
Home(u) == IF u = Main THEN 0 ELSE u % NumXstreams

Members(seq) == {seq[n] : n \in 1 .. Len(seq)}

(* A stream in its scheduler takes the first ready ULT.                    *)
Dispatch(x) ==
  /\ status = "running"
  /\ running[x] = Idle /\ pool[x] # << >>
  /\ running' = [running EXCEPT ![x] = Head(pool[x])]
  /\ pool' = [pool EXCEPT ![x] = Tail(pool[x])]
  /\ behind' = [t \in Worker |-> behind[t] \ {Head(pool[x])}]
  /\ UNCHANGED <<status, mainVars, pc, done, chases, ioVars, resultVars>>

(* ABT_thread_yield: to the end of the queue, and back to the scheduler.   *)
Yield(u) ==
  /\ pool' = [pool EXCEPT ![Home(u)] = Append(@, u)]
  /\ running' = [running EXCEPT ![Home(u)] = Idle]

Runs(t, label) == status = "running" /\ running[Home(t)] = t /\ pc[t] = label

Goto(t, label) == pc' = [pc EXCEPT ![t] = label]

(* exit(1), or a fatal signal, ends the process from within any ULT.       *)
ExitWith(how) ==
  /\ status' = how
  /\ UNCHANGED <<mainVars, schedVars, pc, done, chases, ioVars, resultVars>>

-----------------------------------------------------------------------------
(* run_threads, on the main ULT.                                           *)

MainRuns(label) == status = "running" /\ running[0] = Main /\ mainPc = label

InitFails ==
  /\ MainRuns("split") /\ next = 0 /\ "init" \in Faults
  /\ ExitWith("failed")

(* Mutants of Split: the same share for everybody, rounded up or down.     *)
SplitEqually(share) ==
  /\ MainRuns("split") /\ next < NumThreads
  /\ slice' = [slice EXCEPT ![next] = [start |-> currPos, count |-> share]]
  /\ currPos' = currPos + share
  /\ next' = next + 1
  /\ UNCHANGED <<status, mainPc, schedVars, pc, done, chases, ioVars, resultVars>>
SplitUp == SplitEqually((Count + NumThreads - 1) \div NumThreads)
SplitDown == SplitEqually(Count \div NumThreads)

(* One iteration of the splitting loop.                                    *)
Split ==
  /\ MainRuns("split") /\ next < NumThreads
  /\ LET nextPos == (Count * (next + 1)) \div NumThreads
     IN  /\ slice' = [slice EXCEPT ![next] =
                        [start |-> currPos, count |-> nextPos - currPos]]
         /\ currPos' = nextPos
  /\ next' = next + 1
  /\ UNCHANGED <<status, mainPc, schedVars, pc, done, chases, ioVars, resultVars>>

SplitEnd ==
  /\ MainRuns("split") /\ next = NumThreads
  /\ mainPc' = "create" /\ next' = 0
  /\ UNCHANGED <<status, currPos, slice, schedVars, pc, done, chases, ioVars, resultVars>>

(* Mutant of CreateThread: every worker on stream 0.                       *)
CreateThreadOnFirst ==
  /\ MainRuns("create") /\ next < NumThreads
  /\ pool' = [pool EXCEPT ![0] = Append(@, next)]
  /\ Goto(next, "start")
  /\ next' = next + 1
  /\ UNCHANGED <<status, mainPc, currPos, slice, running, behind, done, chases,
                 ioVars, resultVars>>

CreateThread ==
  /\ MainRuns("create") /\ next < NumThreads
  /\ pool' = [pool EXCEPT ![Home(next)] = Append(@, next)]
  /\ Goto(next, "start")
  /\ next' = next + 1
  /\ UNCHANGED <<status, mainPc, currPos, slice, running, behind, done, chases,
                 ioVars, resultVars>>

CreateEnd ==
  /\ MainRuns("create") /\ next = NumThreads
  /\ mainPc' = "join" /\ next' = 0
  /\ UNCHANGED <<status, currPos, slice, schedVars, pc, done, chases, ioVars, resultVars>>

(* Mutant of Join: nobody is waited for.                                   *)
JoinNobody ==
  /\ MainRuns("join") /\ next < NumThreads
  /\ next' = next + 1
  /\ UNCHANGED <<status, mainPc, currPos, slice, schedVars, pc, done, chases,
                 ioVars, resultVars>>

(* ABT_thread_join_many joins the workers in turn: a finished one is       *)
(* passed over, any other suspends the main ULT until it finishes.         *)
Join ==
  /\ MainRuns("join") /\ next < NumThreads
  /\ IF pc[next] = "done"
     THEN next' = next + 1 /\ UNCHANGED <<mainPc, running>>
     ELSE /\ mainPc' = "blocked"
          /\ running' = [running EXCEPT ![0] = Idle]
          /\ UNCHANGED next
  /\ UNCHANGED <<status, currPos, slice, pool, behind, pc, done, chases, ioVars,
                 resultVars>>

(* report_time; then run_threads frees the ULTs and their parameters, and  *)
(* run_mbench reads both result arrays.                                    *)
Report ==
  /\ MainRuns("join") /\ next = NumThreads
  /\ status' = "reported"
  /\ UNCHANGED <<mainVars, schedVars, pc, done, chases, ioVars, resultVars>>

-----------------------------------------------------------------------------
(* run_each_thread, on worker t.                                           *)

(* Ring, file and buffer exist only when the run does I/O.                 *)
Start(t) ==
  /\ Runs(t, "start")
  /\ IF IoMode > 0
     THEN /\ ring' = [ring EXCEPT ![t] = "idle"]
          /\ open' = open \cup {t}
          /\ buffers' = buffers \cup {t}
     ELSE UNCHANGED <<ring, open, buffers>>
  /\ numPeeks' = [numPeeks EXCEPT ![t] = 0]
  /\ Goto(t, "op")
  /\ UNCHANGED <<status, mainVars, schedVars, done, chases, res, latency>>

(* io_uring_queue_init, open or posix_memalign fails.                      *)
StartFails(t) ==
  /\ Runs(t, "start") /\ IoMode > 0 /\ "setup" \in Faults
  /\ ExitWith("failed")

ChaseCounts ==
  IF NumChases > 0 THEN {NumChases - 1, NumChases, NumChases + 1} ELSE {0}

OpBegin(t) ==
  /\ Runs(t, "op") /\ done[t] < slice[t].count
  /\ \E n \in ChaseCounts : chases' = [chases EXCEPT ![t] = n]
  /\ Goto(t, "chase")
  /\ UNCHANGED <<status, mainVars, schedVars, done, ioVars, resultVars>>

(* Mutant of PrefetchItem: no yield before the load.                       *)
PrefetchOnly(t) ==
  /\ Runs(t, "chase") /\ chases[t] > 0 /\ Prefetch
  /\ behind' = [behind EXCEPT ![t] = Members(pool[Home(t)])]
  /\ Goto(t, "load")
  /\ UNCHANGED <<status, mainVars, pool, running, done, chases, ioVars, resultVars>>

(* __builtin_prefetch, then ABT_thread_yield.                              *)
PrefetchItem(t) ==
  /\ Runs(t, "chase") /\ chases[t] > 0 /\ Prefetch
  /\ Yield(t)
  /\ behind' = [behind EXCEPT ![t] = Members(pool[Home(t)])]
  /\ Goto(t, "load")
  /\ UNCHANGED <<status, mainVars, done, chases, ioVars, resultVars>>

(* The load itself; without prefetch it follows at once.                   *)
LoadItem(t) ==
  /\ \/ Runs(t, "load")
     \/ Runs(t, "chase") /\ chases[t] > 0 /\ ~Prefetch
  /\ chases' = [chases EXCEPT ![t] = @ - 1]
  /\ Goto(t, "chase")
  /\ UNCHANGED <<status, mainVars, schedVars, done, ioVars, resultVars>>

(* Mutant of Record: the worker's slice is forgotten.                      *)
RecordFromZero(t) ==
  /\ latency' = [latency EXCEPT ![done[t]] = <<t, done[t]>>]
  /\ done' = [done EXCEPT ![t] = @ + 1]
  /\ Goto(t, "op")

(* Mutant of Record: the index does not move on with the operations.       *)
RecordInFirst(t) ==
  /\ latency' = [latency EXCEPT ![slice[t].start] = <<t, done[t]>>]
  /\ done' = [done EXCEPT ![t] = @ + 1]
  /\ Goto(t, "op")

(* The end of an operation writes its entry of op_latencies.               *)
Record(t) ==
  /\ latency' = [latency EXCEPT ![slice[t].start + done[t]] = <<t, done[t]>>]
  /\ done' = [done EXCEPT ![t] = @ + 1]
  /\ Goto(t, "op")

EndWithoutIo(t) ==
  /\ Runs(t, "chase") /\ chases[t] = 0 /\ IoMode = 0
  /\ Record(t)
  /\ UNCHANGED <<status, mainVars, schedVars, chases, ioVars, numPeeks>>

(* Mutant of Submit: the request is prepared but not submitted.            *)
SubmitForgotten(t) ==
  /\ Runs(t, "chase") /\ chases[t] = 0 /\ IoMode > 0
  /\ Yield(t)
  /\ Goto(t, "peek")
  /\ UNCHANGED <<status, mainVars, behind, done, chases, ioVars, resultVars>>

(* get_sqe, prep and submit on a ring of depth 1, then yield.              *)
Submit(t) ==
  /\ Runs(t, "chase") /\ chases[t] = 0 /\ IoMode > 0
  /\ ring' = [ring EXCEPT ![t] = "inflight"]
  /\ Yield(t)
  /\ Goto(t, "peek")
  /\ UNCHANGED <<status, mainVars, behind, done, chases, res, open, buffers,
                 resultVars>>

SubmitFails(t) ==
  /\ Runs(t, "chase") /\ chases[t] = 0 /\ IoMode > 0 /\ "submit" \in Faults
  /\ ExitWith("failed")

CountPeek(t) ==
  numPeeks' = [numPeeks EXCEPT ![t] = IF @ < MaxPeeks THEN @ + 1 ELSE @]

(* io_uring_peek_cqe returns -EAGAIN.                                      *)
PeekNothing(t) ==
  /\ Runs(t, "peek") /\ ring[t] = "inflight"
  /\ CountPeek(t)
  /\ Yield(t)
  /\ UNCHANGED <<status, mainVars, behind, pc, done, chases, ioVars, latency>>

(* A read must transfer everything, a write must only not fail.            *)
Acceptable(r) == IF IoMode = 1 THEN r = "full" ELSE r # "error"

(* Mutants of PeekDone: the last poll is not counted; no                   *)
(* io_uring_cqe_seen, so the entry stays in the ring.                      *)
PeekDoneUncounted(t) ==
  /\ Runs(t, "peek") /\ ring[t] = "complete" /\ Acceptable(res[t])
  /\ ring' = [ring EXCEPT ![t] = "idle"]
  /\ Record(t)
  /\ UNCHANGED <<status, mainVars, schedVars, chases, res, open, buffers, numPeeks>>
PeekDoneUnseen(t) ==
  /\ Runs(t, "peek") /\ ring[t] = "complete" /\ Acceptable(res[t])
  /\ CountPeek(t)
  /\ Record(t)
  /\ UNCHANGED <<status, mainVars, schedVars, chases, ioVars>>

(* The entry is checked, marked as seen, and the operation ends.           *)
PeekDone(t) ==
  /\ Runs(t, "peek") /\ ring[t] = "complete" /\ Acceptable(res[t])
  /\ CountPeek(t)
  /\ ring' = [ring EXCEPT ![t] = "idle"]
  /\ Record(t)
  /\ UNCHANGED <<status, mainVars, schedVars, chases, res, open, buffers>>

PeekRejects(t) ==
  /\ Runs(t, "peek") /\ ring[t] = "complete" /\ ~Acceptable(res[t])
  /\ ExitWith("failed")

(* Any other error leaves the loop with no entry: cqe->res dereferences a  *)
(* null pointer.                                                           *)
PeekFails(t) ==
  /\ Runs(t, "peek") /\ "peek" \in Faults
  /\ ExitWith("crashed")

(* Without I/O, fd is still 0 and the ring was never initialised: close    *)
(* takes descriptor 0, and io_uring_queue_exit works on what the stack     *)
(* holds, closing some descriptor or none.                                 *)
Closed(t) ==
  IF IoMode > 0 THEN {{t}} ELSE {{Stdin}} \cup {{Stdin, d} : d \in Worker}

(* A finished worker wakes the ULT that waits for it, at either end of the *)
(* pool: Argobots may switch to it at once.                                *)
Finish(t) ==
  /\ Runs(t, "op") /\ done[t] = slice[t].count
  /\ \E gone \in Closed(t) : open' = open \ gone
  /\ buffers' = buffers \ {t}
  /\ ring' = [ring EXCEPT ![t] = "none"]
  /\ Goto(t, "done")
  /\ running' = [running EXCEPT ![Home(t)] = Idle]
  /\ IF mainPc = "blocked" /\ next = t
     THEN /\ mainPc' = "join"
          /\ \E queue \in {Append(pool[0], Main), <<Main>> \o pool[0]} :
               pool' = [pool EXCEPT ![0] = queue]
     ELSE UNCHANGED <<mainPc, pool>>
  /\ UNCHANGED <<status, next, currPos, slice, behind, done, chases, res, resultVars>>

(* ... or unmapping a garbage address.                                     *)
FinishCrashes(t) ==
  /\ Runs(t, "op") /\ done[t] = slice[t].count /\ IoMode = 0
  /\ ExitWith("crashed")

-----------------------------------------------------------------------------
(* The device answers a request in its own time.                           *)
Complete(t) ==
  /\ status = "running" /\ ring[t] = "inflight"
  /\ ring' = [ring EXCEPT ![t] = "complete"]
  /\ \E r \in {"full"} \cup (IF "io" \in Faults THEN {"short", "error"} ELSE {}) :
       res' = [res EXCEPT ![t] = r]
  /\ UNCHANGED <<status, mainVars, schedVars, pc, done, chases, open, buffers,
                 resultVars>>

-----------------------------------------------------------------------------
Init ==
  /\ status = "running"
  /\ mainPc = "split" /\ next = 0 /\ currPos = 0
  /\ slice = [t \in Worker |-> NoSlice]
  /\ pool = [x \in Xstream |-> << >>]
  /\ running = [x \in Xstream |-> IF x = 0 THEN Main ELSE Idle]
  /\ behind = [t \in Worker |-> {}]
  /\ pc = [t \in Worker |-> "new"]
  /\ done = [t \in Worker |-> 0]
  /\ chases = [t \in Worker |-> 0]
  /\ ring = [t \in Worker |-> "none"]
  /\ res = [t \in Worker |-> "none"]
  /\ open = {Stdin} /\ buffers = {}
  /\ latency = [o \in Op |-> NotWritten]
  /\ numPeeks = [t \in Worker |-> Unset]

MainStep == \/ InitFails \/ Split \/ SplitEnd \/ CreateThread \/ CreateEnd
            \/ Join \/ Report

WorkerStep(t) ==
  \/ Start(t) \/ StartFails(t) \/ OpBegin(t) \/ PrefetchItem(t) \/ LoadItem(t)
  \/ EndWithoutIo(t) \/ Submit(t) \/ SubmitFails(t) \/ PeekNothing(t)
  \/ PeekDone(t) \/ PeekRejects(t) \/ PeekFails(t) \/ Finish(t)
  \/ FinishCrashes(t)

(* What kernel thread x executes next.                                     *)
StreamStep(x) ==
  \/ Dispatch(x)
  \/ x = 0 /\ MainStep
  \/ \E t \in Worker : Home(t) = x /\ WorkerStep(t)

Terminated == status # "running" /\ UNCHANGED vars

Next == (\E x \in Xstream : StreamStep(x)) \/ (\E t \in Worker : Complete(t))
          \/ Terminated

(* The kernel keeps running each stream's thread, and the device answers   *)
(* every request.                                                          *)
Fairness == /\ \A x \in Xstream : WF_vars(StreamStep(x))
            /\ \A t \in Worker : WF_vars(Complete(t))

Safety == Init /\ [][Next]_vars
Spec == Safety /\ Fairness

-----------------------------------------------------------------------------
PcLabel == {"new", "start", "op", "chase", "load", "peek", "done"}

TypeOK ==
  /\ status \in {"running", "reported", "failed", "crashed"}
  /\ mainPc \in {"split", "create", "join", "blocked"}
  /\ next \in 0 .. NumThreads /\ currPos \in 0 .. Count
  /\ slice \in [Worker -> [start : 0 .. Count, count : 0 .. Count]]
  /\ pool \in [Xstream -> Seq(Ult)]
  /\ running \in [Xstream -> Ult \cup {Idle}]
  /\ behind \in [Worker -> SUBSET Ult]
  /\ pc \in [Worker -> PcLabel]
  /\ done \in [Worker -> 0 .. Count]
  /\ chases \in [Worker -> 0 .. NumChases + 1]
  /\ ring \in [Worker -> {"none", "idle", "inflight", "complete"}]
  /\ res \in [Worker -> {"none", "full", "short", "error"}]
  /\ open \subseteq Worker \cup {Stdin} /\ buffers \subseteq Worker
  /\ latency \in [Op -> Stamp \cup {NotWritten}]
  /\ numPeeks \in [Worker -> 0 .. MaxPeeks \cup {Unset}]

Owns(t, o) == slice[t].start <= o /\ o < slice[t].start + slice[t].count

(* Once the loop that splits the run has ended, every entry of             *)
(* op_latencies belongs to exactly one worker (main.c:240-249).            *)
SlicesPartition ==
  mainPc # "split" =>
    \A o \in Op : \E t \in Worker : \A u \in Worker : Owns(u, o) <=> u = t

(* The entries a worker has written are the first ones of its slice: entry *)
(* k holds what its operation k took (main.c:149, 208, 246).               *)
RecordedInOrder ==
  \A t \in Worker : \A k \in 0 .. slice[t].count - 1 :
    latency[slice[t].start + k] = (IF k < done[t] THEN <<t, k>> ELSE NotWritten)

(* No measurement is ever overwritten, by a later one of the same worker   *)
(* or by one of another (main.c:208, 246).                                 *)
NeverOverwritten ==
  [][\A o \in Op : latency[o] # NotWritten => latency'[o] = latency[o]]_vars

(* When the run is reported, run_mbench may read the malloc'ed results and *)
(* free what the workers used: every entry of both arrays is written,      *)
(* every worker has ended, holds nothing and has nothing under way, and no *)
(* read was cut short (main.c:261-274, 348-364).                           *)
ReportComplete ==
  status = "reported" =>
    /\ \A o \in Op : latency[o] # NotWritten
    /\ \A t \in Worker : /\ numPeeks[t] # Unset
                         /\ pc[t] = "done" /\ ring[t] = "none"
                         /\ IoMode = 1 => res[t] \in {"none", "full"}
    /\ buffers = {} /\ open \cap Worker = {}

(* A ring of depth 1 is only filled when it is empty, and while the device *)
(* works on a request its buffer and its descriptor stay with the worker   *)
(* (main.c:111, 161-202).                                                  *)
RingDiscipline ==
  \A t \in Worker :
    /\ pc[t] = "peek" <=> ring[t] \in {"inflight", "complete"}
    /\ ring[t] # "none" => t \in open /\ t \in buffers

(* The point of prefetching: when a worker loads the item it prefetched,   *)
(* every ULT that was ready on its stream at the prefetch has run          *)
(* meanwhile (main.c:66-72).                                               *)
PrefetchOverlapped ==
  \A t \in Worker : Runs(t, "load") => behind[t] = {}

Place(u) == {<<x, 0>> : x \in {y \in Xstream : running[y] = u}} \cup
            {q \in Xstream \X (1 .. NumThreads + 1) :
                q[2] <= Len(pool[q[1]]) /\ pool[q[1]][q[2]] = u}

Live(u) == IF u = Main THEN mainPc # "blocked" ELSE pc[u] \notin {"new", "done"}

(* Nobody is forgotten and nobody runs twice: a ULT that can go on is in   *)
(* exactly one place of its own stream, one that cannot is in none, and    *)
(* the main ULT never waits for a worker that has ended (main.c:253-261).  *)
ScheduledOnce ==
  status = "running" =>
    /\ \A u \in Ult : IF Live(u) THEN \E n \in 0 .. NumThreads + 1 :
                                         Place(u) = {<<Home(u), n>>}
                                  ELSE Place(u) = {}
    /\ mainPc = "blocked" => pc[next] # "done"

(* The reported average never falls below one poll per I/O, and is 0 when  *)
(* there is none (main.c:179-184, 361-363).                                *)
PeeksAccounted ==
  \A t \in Worker : pc[t] \notin {"new", "start"} =>
    IF IoMode = 0 THEN numPeeks[t] = 0
    ELSE numPeeks[t] >= done[t] \/ numPeeks[t] = MaxPeeks

(* "io_mode 0: no IO" (main.c:419): a run leaves the descriptors of the    *)
(* process as it found them.                                               *)
StdinKept == Stdin \in open

(* When nothing fails, the run is reported.                                *)
ReportsEventually == <>(status = "reported")

Abstract == INSTANCE BenchmarkRun WITH
  phase <- IF status \in {"running", "reported"} THEN status ELSE "aborted",
  recorded <- {o \in Op : latency[o] # NotWritten}

(* A run measures every operation once and reports all or nothing, and it  *)
(* comes to an end whatever fails.                                         *)
ImplementsBenchmarkRun == Abstract!AbsSpec
=============================================================================
