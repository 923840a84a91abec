-------------------------- MODULE MicrobenchProofs --------------------------
(***************************************************************************)
(* Proofs about Microbench, for every number of operations, workers and    *)
(* streams, every I/O mode and every set of failing calls.                 *)
(*                                                                         *)
(* The argument: worker t owns the entries Bound(t) .. Bound(t+1)-1 of     *)
(* op_latencies; these ranges cover all the entries and do not overlap; a  *)
(* worker writes its own entries in order; and the main ULT passes over a  *)
(* worker in the join only when it has written all of them.  As for the    *)
(* scheduler, the pools hold every ULT that can go on once, in the order   *)
(* of arrival.                                                             *)
(***************************************************************************)
EXTENDS Microbench, FiniteSetTheorems, TLAPS

Bound(t) == (Count * t) \div NumThreads

SliceOf(t) == [start |-> Bound(t), count |-> Bound(t + 1) - Bound(t)]

MainInv ==
  /\ mainPc = "split" =>
       /\ currPos = Bound(next)
       /\ slice = [t \in Worker |-> IF t < next THEN SliceOf(t) ELSE NoSlice]
       /\ \A t \in Worker : pc[t] = "new"
       /\ latency = [o \in Op |-> NotWritten]
  /\ mainPc # "split" => slice = [t \in Worker |-> SliceOf(t)]
  /\ mainPc = "create" => \A t \in Worker : pc[t] = "new" <=> t >= next
  /\ mainPc \in {"join", "blocked"} =>
       \A t \in Worker : pc[t] # "new" /\ (t < next => pc[t] = "done")
  /\ mainPc = "blocked" => next < NumThreads
  /\ status = "reported" => mainPc = "join" /\ next = NumThreads

Busy == {"op", "chase", "load", "peek"}

(* What worker t has done and holds at each place of run_each_thread.      *)
WorkerInv(t) ==
  /\ pc[t] \in {"new", "start"} => done[t] = 0 /\ numPeeks[t] = Unset
  /\ pc[t] \notin {"new", "start"} => numPeeks[t] \in 0 .. MaxPeeks
  /\ pc[t] \in {"chase", "load", "peek"} => done[t] < slice[t].count
  /\ done[t] <= slice[t].count
  /\ pc[t] = "done" => done[t] = slice[t].count
  /\ pc[t] = "load" => chases[t] > 0
  /\ ring[t] # "none" <=> pc[t] \in Busy /\ IoMode > 0
  /\ ring[t] \in {"inflight", "complete"} <=> pc[t] = "peek"
  /\ ring[t] # "none" <=> t \in open
  /\ ring[t] # "none" <=> t \in buffers
  /\ IoMode = 1 /\ ring[t] # "complete" => res[t] \in {"none", "full"}

PeeksInv(t) ==
  pc[t] \notin {"new", "start"} =>
    IF IoMode = 0 THEN numPeeks[t] = 0
    ELSE numPeeks[t] >= done[t] \/ numPeeks[t] = MaxPeeks

IInv == /\ TypeOK /\ MainInv /\ RecordedInOrder
        /\ \A t \in Worker : WorkerInv(t) /\ PeeksInv(t)

-----------------------------------------------------------------------------
(* Arithmetic of the splitting loop (main.c:240-249).                      *)
LEMMA DivFacts ==
  ASSUME NEW a \in Nat, NEW n \in Nat \ {0}
  PROVE  a \div n \in Nat /\ n * (a \div n) <= a /\ a < n * (a \div n) + n
  OBVIOUS

LEMMA LessByMultiple ==
  ASSUME NEW n \in Nat \ {0}, NEW a \in Nat, NEW b \in Nat, n * a < n * b + n
  PROVE  a <= b
PROOF
<1>1. SUFFICES ASSUME a >= b + 1 PROVE FALSE
  OBVIOUS
<1>2. PICK d \in Nat : a = b + 1 + d
  <2>1. a - (b + 1) \in Nat /\ a = b + 1 + (a - (b + 1))
    BY <1>1
  <2> QED BY <2>1
<1>3. n * a = n * b + n + n * d /\ n * d \in Nat
  BY <1>2
<1> QED BY <1>3

LEMMA BoundFacts ==
  /\ \A k \in Nat : Bound(k) \in Nat
  /\ Bound(0) = 0 /\ Bound(NumThreads) = Count
  /\ \A j, k \in Nat : j <= k => Bound(j) <= Bound(k)
PROOF
<1>0. \A k \in Nat : Count * k \in Nat
  BY SizesAssumption
<1>1. \A k \in Nat : Bound(k) \in Nat
  BY <1>0, DivFacts, SizesAssumption DEF Bound
<1>2. ASSUME NEW j \in Nat, NEW k \in Nat, j <= k
      PROVE  Bound(j) <= Bound(k)
  <2>1. Count * j <= Count * k
    <3>1. PICK d \in Nat : k = j + d
      <4>1. k - j \in Nat /\ k = j + (k - j)
        BY <1>2
      <4> QED BY <4>1
    <3>2. Count * k = Count * j + Count * d /\ Count * d \in Nat
      BY <3>1, SizesAssumption
    <3> QED BY <3>2, <1>0
  <2>2. /\ NumThreads * Bound(j) <= Count * j
        /\ Count * k < NumThreads * Bound(k) + NumThreads
    BY <1>0, DivFacts, SizesAssumption DEF Bound
  <2>3. NumThreads * Bound(j) < NumThreads * Bound(k) + NumThreads
    BY <1>0, <1>1, <2>1, <2>2, SizesAssumption
  <2> QED BY <1>1, <2>3, LessByMultiple, SizesAssumption
<1>3. Bound(0) = 0
  <2>1. Count * 0 = 0
    BY SizesAssumption
  <2>2. NumThreads * Bound(0) <= 0
    BY <2>1, DivFacts, SizesAssumption DEF Bound
  <2>3. NumThreads * Bound(0) < NumThreads * 0 + NumThreads
    BY <2>2, <1>1, SizesAssumption
  <2>4. Bound(0) <= 0
    BY <2>3, <1>1, LessByMultiple, SizesAssumption
  <2> QED BY <1>1, <2>4
<1>4. Bound(NumThreads) = Count
  <2>1. Count * NumThreads = NumThreads * Count
    BY SizesAssumption
  <2>2. /\ NumThreads * Bound(NumThreads) <= NumThreads * Count
        /\ NumThreads * Count < NumThreads * Bound(NumThreads) + NumThreads
    BY <1>0, <2>1, DivFacts, SizesAssumption DEF Bound
  <2>3. Bound(NumThreads) \in Nat /\ Count \in Nat
    BY <1>1, SizesAssumption
  <2>4. NumThreads * Bound(NumThreads) < NumThreads * Count + NumThreads
    BY <2>2, <2>3, SizesAssumption
  <2>5. Count <= Bound(NumThreads) /\ Bound(NumThreads) <= Count
    BY <2>2, <2>3, <2>4, LessByMultiple, SizesAssumption
  <2> QED BY <2>3, <2>5
<1> QED BY <1>1, <1>2, <1>3, <1>4

LEMMA ModType ==
  ASSUME NEW m \in Nat \ {0}, NEW v \in Nat
  PROVE  v % m \in 0 .. m - 1
  OBVIOUS

(* Every entry lies between two consecutive bounds ...                     *)
LEMMA BoundsCover ==
  ASSUME NEW o \in Op
  PROVE  \E t \in Worker : Bound(t) <= o /\ o < Bound(t + 1)
PROOF
<1> DEFINE a == (o + 1) * NumThreads
           t == (a - 1) \div Count
<1>0. o \in Nat /\ o + 1 <= Count
  BY SizesAssumption DEF Op
<1>1. a \in Nat \ {0}
  BY <1>0, SizesAssumption
<1>2. t \in Nat /\ Count * t <= a - 1 /\ a - 1 < Count * t + Count
  <2>1. a - 1 \in Nat /\ Count \in Nat \ {0}
    BY <1>1, SizesAssumption
  <2> HIDE DEF a
  <2> QED BY <2>1, DivFacts
<1>3. a <= Count * NumThreads
  <2>1. PICK d \in Nat : Count = (o + 1) + d
    <3>1. Count - (o + 1) \in Nat /\ Count = (o + 1) + (Count - (o + 1))
      BY <1>0, SizesAssumption
    <3> QED BY <3>1
  <2>2. Count * NumThreads = a + d * NumThreads /\ d * NumThreads \in Nat
    BY <2>1, <1>0, SizesAssumption
  <2> QED BY <1>1, <2>2
<1>4. a = NumThreads * (o + 1) /\ a = NumThreads * o + NumThreads
      /\ NumThreads * o \in Nat
  BY <1>0, SizesAssumption
<1>5. Count * (t + 1) = Count * t + Count /\ Count * t \in Nat
  BY <1>2, SizesAssumption
<1> HIDE DEF a, t
<1>6. t \in Worker
  <2>1. Count * t < Count * (NumThreads - 1) + Count
    BY <1>1, <1>2, <1>3, <1>5, SizesAssumption
  <2>2. t <= NumThreads - 1
    BY <1>2, <2>1, LessByMultiple, SizesAssumption
  <2> QED BY <1>2, <2>2, SizesAssumption DEF Worker
<1>7. Bound(t) <= o
  <2>1. NumThreads * Bound(t) <= Count * t /\ Bound(t) \in Nat
    BY <1>2, <1>5, DivFacts, BoundFacts, SizesAssumption DEF Bound
  <2>2. NumThreads * Bound(t) < NumThreads * o + NumThreads
    BY <1>1, <1>2, <1>4, <1>5, <2>1, SizesAssumption
  <2> QED BY <1>0, <2>1, <2>2, LessByMultiple, SizesAssumption
<1>8. o < Bound(t + 1)
  <2>1. Count * (t + 1) < NumThreads * Bound(t + 1) + NumThreads /\ Bound(t + 1) \in Nat
    BY <1>2, <1>5, DivFacts, BoundFacts, SizesAssumption DEF Bound
  <2>2. NumThreads * (o + 1) < NumThreads * Bound(t + 1) + NumThreads
    BY <1>1, <1>2, <1>4, <1>5, <2>1, SizesAssumption
  <2>3. o + 1 <= Bound(t + 1)
    BY <1>0, <2>1, <2>2, LessByMultiple, SizesAssumption
  <2> QED BY <1>0, <2>1, <2>3
<1> QED BY <1>6, <1>7, <1>8

(* ... and only of one worker.                                             *)
LEMMA BoundsDisjoint ==
  ASSUME NEW o \in Nat, NEW t \in Worker, NEW u \in Worker,
         Bound(t) <= o, o < Bound(t + 1), Bound(u) <= o, o < Bound(u + 1)
  PROVE  t = u
PROOF
<1>1. t \in Nat /\ u \in Nat
  BY SizesAssumption DEF Worker
<1>2. ASSUME t < u PROVE FALSE
  <2>1. Bound(t + 1) <= Bound(u)
    BY <1>1, <1>2, BoundFacts
  <2> QED BY <1>1, <2>1, BoundFacts
<1>3. ASSUME u < t PROVE FALSE
  <2>1. Bound(u + 1) <= Bound(t)
    BY <1>1, <1>3, BoundFacts
  <2> QED BY <1>1, <2>1, BoundFacts
<1> QED BY <1>1, <1>2, <1>3

(* A slice lies within op_latencies.                                       *)
LEMMA SliceFacts ==
  ASSUME NEW t \in Worker
  PROVE  /\ SliceOf(t) \in [start : 0 .. Count, count : 0 .. Count]
         /\ SliceOf(t).start = Bound(t) /\ SliceOf(t).count = Bound(t + 1) - Bound(t)
         /\ Bound(t) \in 0 .. Count /\ Bound(t + 1) \in Bound(t) .. Count
PROOF
<1>1. t \in Nat /\ t + 1 \in Nat /\ t + 1 <= NumThreads /\ NumThreads \in Nat
  BY SizesAssumption DEF Worker
<1>2. /\ Bound(t) \in Nat /\ Bound(t + 1) \in Nat /\ Count \in Nat
      /\ Bound(t) <= Bound(t + 1) /\ Bound(t + 1) <= Count
  BY <1>1, BoundFacts, SizesAssumption
<1> QED BY <1>2 DEF SliceOf

-----------------------------------------------------------------------------
LEMMA InitIInv == Init => IInv
PROOF
<1> SUFFICES ASSUME Init PROVE IInv
  OBVIOUS
<1>1. TypeOK
  <2>1. NoSlice \in [start : 0 .. Count, count : 0 .. Count]
    BY SizesAssumption DEF NoSlice
  <2>2. 0 \in 0 .. NumThreads /\ 0 \in 0 .. Count /\ 0 \in 0 .. NumChases + 1
    BY SizesAssumption
  <2>3. pool \in [Xstream -> Seq(Ult)]
    BY DEF Init
  <2>4. running \in [Xstream -> Ult \cup {Idle}]
    BY DEF Init, Ult
  <2> QED BY <2>1, <2>2, <2>3, <2>4 DEF Init, TypeOK, PcLabel
<1>2. MainInv
  <2>1. \A t \in Worker : ~(t < 0)
    BY SizesAssumption DEF Worker
  <2>2. currPos = Bound(next)
    BY BoundFacts DEF Init
  <2>3. slice = [t \in Worker |-> IF t < next THEN SliceOf(t) ELSE NoSlice]
    BY <2>1 DEF Init
  <2> QED BY <2>2, <2>3 DEF Init, MainInv
<1>3. RecordedInOrder
  BY DEF Init, RecordedInOrder, NoSlice
<1>4. ASSUME NEW t \in Worker
      PROVE  WorkerInv(t) /\ PeeksInv(t)
  BY SizesAssumption DEF Init, WorkerInv, PeeksInv, NoSlice, Busy, Worker, Stdin
<1> QED BY <1>1, <1>2, <1>3, <1>4 DEF IInv

(* A process that exits leaves everything else as it was.                  *)
LEMMA ExitStep ==
  ASSUME IInv, NEW how \in {"failed", "crashed"}, ExitWith(how)
  PROVE  IInv'
PROOF
<1> USE DEF ExitWith, mainVars, schedVars, ioVars, resultVars
<1>1. TypeOK'
  BY DEF IInv, TypeOK
<1>2. MainInv'
  BY DEF IInv, MainInv
<1>3. RecordedInOrder'
  BY DEF IInv, RecordedInOrder
<1>4. ASSUME NEW t \in Worker PROVE WorkerInv(t)' /\ PeeksInv(t)'
  BY DEF IInv, WorkerInv, PeeksInv
<1> QED BY <1>1, <1>2, <1>3, <1>4 DEF IInv

(* A worker's own step does not disturb what the main ULT relies on.       *)
LEMMA MainUntouched ==
  ASSUME MainInv, NEW t \in Worker, NEW label \in PcLabel \ {"new"},
         pc \in [Worker -> PcLabel], pc[t] \notin {"new", "done"}, Goto(t, label),
         status = "running", UNCHANGED <<status, next, currPos, slice>>,
         \/ UNCHANGED mainPc
         \/ mainPc = "blocked" /\ mainPc' = "join"
  PROVE  MainInv'
PROOF
<1>1. mainPc # "split"
  BY DEF MainInv
<1>2. mainPc' # "split"
  BY <1>1
<1>3. \A u \in Worker : pc'[u] = (IF u = t THEN label ELSE pc[u])
  BY DEF Goto
<1>4. \A u \in Worker : pc[u] = "new" <=> pc'[u] = "new"
  BY <1>3
<1>5. \A u \in Worker : pc[u] = "done" => pc'[u] = "done"
  BY <1>3
<1> QED BY <1>1, <1>2, <1>4, <1>5 DEF MainInv

(* A measurement is told from an entry that holds none.                    *)
LEMMA StampsAreWritten ==
  ASSUME NEW t \in Worker, NEW n
  PROVE  <<t, n>> # NotWritten
PROOF
<1>1. t # Unset
  BY SizesAssumption DEF Worker, Unset
<1> QED BY <1>1 DEF NotWritten

(* Writing the next entry of its own slice keeps the results in order, and *)
(* touches no entry that was written before.                               *)
LEMMA Recording ==
  ASSUME TypeOK, MainInv, RecordedInOrder, NEW t \in Worker,
         pc[t] \in Busy, done[t] < slice[t].count,
         Record(t), UNCHANGED slice
  PROVE  /\ RecordedInOrder'
         /\ latency' \in [Op -> Stamp \cup {NotWritten}]
         /\ done' \in [Worker -> 0 .. Count]
         /\ slice[t].start + done[t] \in Op
         /\ latency[slice[t].start + done[t]] = NotWritten
PROOF
<1> DEFINE slot == slice[t].start + done[t]
<1>0. /\ latency' = [latency EXCEPT ![slot] = <<t, done[t]>>]
      /\ done' = [done EXCEPT ![t] = @ + 1]
      /\ latency \in [Op -> Stamp \cup {NotWritten}] /\ done \in [Worker -> 0 .. Count]
  BY DEF Record, TypeOK
<1>1. slice = [u \in Worker |-> SliceOf(u)]
  BY DEF MainInv, Busy
<1>2. \A u \in Worker : /\ slice[u].start = Bound(u)
                         /\ slice[u].count = Bound(u + 1) - Bound(u)
                         /\ Bound(u) \in 0 .. Count /\ Bound(u + 1) \in Bound(u) .. Count
  BY <1>1, SliceFacts
<1>3. slot \in Op /\ done[t] \in 0 .. slice[t].count - 1 /\ done[t] + 1 \in 0 .. Count
      /\ Bound(t) <= slot /\ slot < Bound(t + 1) /\ slot \in Nat
  BY <1>0, <1>2, SizesAssumption DEF Op
<1>4. latency[slot] = NotWritten /\ <<t, done[t]>> \in Stamp
  BY <1>0, <1>3 DEF RecordedInOrder, Stamp
<1>5. ASSUME NEW u \in Worker, NEW k \in 0 .. slice[u].count - 1
      PROVE  latency'[slice[u].start + k] = IF k < done'[u] THEN <<u, k>> ELSE NotWritten
  <2>1. /\ slice[u].start + k \in Op /\ slice[u].start + k \in Nat
        /\ Bound(u) <= slice[u].start + k /\ slice[u].start + k < Bound(u + 1)
    BY <1>2, SizesAssumption DEF Op
  <2>2. latency[slice[u].start + k] = IF k < done[u] THEN <<u, k>> ELSE NotWritten
    BY DEF RecordedInOrder
  <2>3. CASE u # t
    <3>1. slice[u].start + k # slot
      BY <1>3, <2>1, <2>3, BoundsDisjoint
    <3> QED BY <1>0, <2>1, <2>2, <2>3, <3>1
  <2>4. CASE u = t
    <3>1. done'[u] = done[t] + 1
      BY <1>0, <2>4
    <3>2. CASE k = done[t]
      BY <1>0, <1>3, <2>1, <2>4, <3>1, <3>2
    <3>3. CASE k # done[t]
      <4>1. slice[u].start + k # slot
        BY <1>0, <1>2, <2>4, <3>3
      <4>2. k < done[t] <=> k < done[t] + 1
        BY <1>0, <3>3
      <4> QED BY <1>0, <2>1, <2>2, <2>4, <3>1, <4>1, <4>2
    <3> QED BY <3>2, <3>3
  <2> QED BY <2>3, <2>4
<1>6. RecordedInOrder'
  BY <1>5 DEF RecordedInOrder
<1> QED BY <1>0, <1>3, <1>4, <1>6

-----------------------------------------------------------------------------
(* The steps of the scheduler, the device and the main ULT.                *)
LEMMA DispatchStep ==
  ASSUME IInv, NEW x \in Xstream, Dispatch(x)
  PROVE  IInv'
PROOF
<1> USE DEF Dispatch, mainVars, ioVars, resultVars
<1>1. TypeOK'
  <2>1. pool[x] \in Seq(Ult) /\ pool[x] # << >>
    BY DEF IInv, TypeOK
  <2>2. Head(pool[x]) \in Ult /\ Tail(pool[x]) \in Seq(Ult)
    BY <2>1
  <2>3. pool' \in [Xstream -> Seq(Ult)] /\ running' \in [Xstream -> Ult \cup {Idle}]
    BY <2>2 DEF IInv, TypeOK
  <2>4. behind' \in [Worker -> SUBSET Ult]
    BY DEF IInv, TypeOK
  <2> QED BY <2>3, <2>4 DEF IInv, TypeOK
<1>2. MainInv' /\ RecordedInOrder'
  BY DEF IInv, MainInv, RecordedInOrder
<1>3. ASSUME NEW t \in Worker PROVE WorkerInv(t)' /\ PeeksInv(t)'
  BY DEF IInv, WorkerInv, PeeksInv
<1> QED BY <1>1, <1>2, <1>3 DEF IInv

LEMMA CompleteStep ==
  ASSUME IInv, NEW t \in Worker, Complete(t)
  PROVE  IInv'
PROOF
<1> USE DEF Complete, mainVars, schedVars, resultVars
<1>1. PICK r \in {"full", "short", "error"} : res' = [res EXCEPT ![t] = r]
  OBVIOUS
<1>2. TypeOK'
  BY <1>1 DEF IInv, TypeOK
<1>3. MainInv' /\ RecordedInOrder'
  BY DEF IInv, MainInv, RecordedInOrder
<1>4. ASSUME NEW u \in Worker PROVE WorkerInv(u)' /\ PeeksInv(u)'
  <2>1. /\ ring'[u] = (IF u = t THEN "complete" ELSE ring[u])
        /\ u # t => res'[u] = res[u]
    BY <1>1 DEF IInv, TypeOK
  <2>2. WorkerInv(u) /\ PeeksInv(u)
    BY DEF IInv
  <2> QED BY <2>1, <2>2 DEF WorkerInv, PeeksInv
<1> QED BY <1>2, <1>3, <1>4 DEF IInv

LEMMA SplitStep == IInv /\ Split => IInv'
PROOF
<1> SUFFICES ASSUME IInv, Split PROVE IInv'
  OBVIOUS
<1>0. /\ mainPc = "split" /\ next < NumThreads /\ next' = next + 1
      /\ UNCHANGED <<status, mainPc, schedVars, pc, done, chases, ioVars, resultVars>>
  BY DEF Split, MainRuns
<1>1. next \in Worker /\ next \in Nat /\ next' \in 0 .. NumThreads
  BY <1>0, SizesAssumption DEF IInv, TypeOK, Worker
<1>2. /\ currPos' = Bound(next + 1)
      /\ slice' = [slice EXCEPT ![next] = SliceOf(next)]
  <2>1. currPos = Bound(next)
    BY <1>0 DEF IInv, MainInv
  <2> QED BY <2>1 DEF Split, Bound, SliceOf
<1>3. /\ SliceOf(next) \in [start : 0 .. Count, count : 0 .. Count]
      /\ currPos' \in 0 .. Count
  BY <1>1, <1>2, SliceFacts, SizesAssumption
<1>4. slice' = [t \in Worker |-> IF t < next' THEN SliceOf(t) ELSE NoSlice]
  <2>1. slice = [t \in Worker |-> IF t < next THEN SliceOf(t) ELSE NoSlice]
    BY <1>0 DEF IInv, MainInv
  <2>2. \A t \in Worker : t < next' <=> t < next \/ t = next
    BY <1>0, <1>1, SizesAssumption DEF Worker
  <2> QED BY <1>1, <1>2, <2>1, <2>2
<1>5. TypeOK'
  BY <1>0, <1>1, <1>2, <1>3 DEF IInv, TypeOK, schedVars, ioVars, resultVars
<1>6. MainInv'
  BY <1>0, <1>2, <1>4 DEF IInv, MainInv, schedVars, resultVars
<1>7. \A t \in Worker : done[t] = 0 /\ slice'[t].count \in 0 .. Count
  <2>1. \A t \in Worker : done[t] = 0
    BY <1>0 DEF IInv, MainInv, WorkerInv
  <2> QED BY <1>5, <2>1 DEF TypeOK
<1>8. RecordedInOrder'
  <2>1. SUFFICES ASSUME NEW t \in Worker, NEW k \in 0 .. slice'[t].count - 1
                 PROVE  latency[slice'[t].start + k] = NotWritten /\ ~(k < done[t])
    BY <1>0 DEF RecordedInOrder, resultVars
  <2>2. slice'[t].start + k \in Op
    <3>1. slice'[t] = SliceOf(t) \/ slice'[t] = NoSlice
      BY <1>4
    <3>2. CASE slice'[t] = SliceOf(t)
      BY <3>2, SliceFacts, SizesAssumption DEF Op
    <3>3. CASE slice'[t] = NoSlice
      BY <3>3 DEF NoSlice
    <3> QED BY <3>1, <3>2, <3>3
  <2>3. latency = [o \in Op |-> NotWritten]
    BY <1>0 DEF IInv, MainInv
  <2> QED BY <1>7, <2>2, <2>3
<1>9. ASSUME NEW t \in Worker PROVE WorkerInv(t)' /\ PeeksInv(t)'
  <2>1. pc[t] = "new" /\ done[t] = 0 /\ slice'[t].count \in 0 .. Count
    BY <1>0, <1>7 DEF IInv, MainInv
  <2> QED BY <1>0, <2>1 DEF IInv, WorkerInv, PeeksInv, ioVars, resultVars
<1> QED BY <1>5, <1>6, <1>8, <1>9 DEF IInv

LEMMA SplitEndStep == IInv /\ SplitEnd => IInv'
PROOF
<1> SUFFICES ASSUME IInv, SplitEnd PROVE IInv'
  OBVIOUS
<1> USE DEF SplitEnd, MainRuns, schedVars, ioVars, resultVars
<1>1. TypeOK'
  BY SizesAssumption DEF IInv, TypeOK
<1>2. MainInv'
  <2>1. \A t \in Worker : t < NumThreads /\ t >= 0
    BY SizesAssumption DEF Worker
  <2>2. slice' = [t \in Worker |-> SliceOf(t)]
    BY <2>1 DEF IInv, MainInv
  <2> QED BY <2>1, <2>2 DEF IInv, MainInv
<1>3. RecordedInOrder'
  BY DEF IInv, RecordedInOrder
<1>4. ASSUME NEW t \in Worker PROVE WorkerInv(t)' /\ PeeksInv(t)'
  BY DEF IInv, WorkerInv, PeeksInv
<1> QED BY <1>1, <1>2, <1>3, <1>4 DEF IInv

LEMMA CreateThreadStep == IInv /\ CreateThread => IInv'
PROOF
<1> SUFFICES ASSUME IInv, CreateThread PROVE IInv'
  OBVIOUS
<1> USE DEF CreateThread, MainRuns, Goto, ioVars, resultVars
<1>0. next \in Worker /\ next + 1 \in 0 .. NumThreads /\ next \in Ult
  BY SizesAssumption DEF IInv, TypeOK, Worker, Ult
<1>1. TypeOK'
  <2>1. Home(next) \in Xstream => Append(pool[Home(next)], next) \in Seq(Ult)
    BY <1>0 DEF IInv, TypeOK
  <2>2. pool' \in [Xstream -> Seq(Ult)]
    BY <2>1 DEF IInv, TypeOK
  <2> QED BY <1>0, <2>2 DEF IInv, TypeOK, PcLabel
<1>2. \A t \in Worker : pc'[t] = (IF t = next THEN "start" ELSE pc[t])
  BY DEF IInv, TypeOK
<1>3. MainInv'
  <2>1. \A t \in Worker : t >= next + 1 <=> t >= next /\ t # next
    BY <1>0, SizesAssumption DEF Worker
  <2> QED BY <1>0, <1>2, <2>1 DEF IInv, MainInv
<1>4. RecordedInOrder'
  BY DEF IInv, RecordedInOrder
<1>5. ASSUME NEW t \in Worker PROVE WorkerInv(t)' /\ PeeksInv(t)'
  <2>1. pc[next] = "new"
    BY <1>0 DEF IInv, MainInv
  <2> QED BY <1>2, <2>1 DEF IInv, WorkerInv, PeeksInv, Busy
<1> QED BY <1>1, <1>3, <1>4, <1>5 DEF IInv

LEMMA CreateEndStep == IInv /\ CreateEnd => IInv'
PROOF
<1> SUFFICES ASSUME IInv, CreateEnd PROVE IInv'
  OBVIOUS
<1> USE DEF CreateEnd, MainRuns, schedVars, ioVars, resultVars
<1>1. TypeOK'
  BY SizesAssumption DEF IInv, TypeOK
<1>2. MainInv'
  <2>1. \A t \in Worker : ~(t >= NumThreads) /\ ~(t < 0)
    BY SizesAssumption DEF Worker
  <2> QED BY <2>1 DEF IInv, MainInv
<1>3. RecordedInOrder'
  BY DEF IInv, RecordedInOrder
<1>4. ASSUME NEW t \in Worker PROVE WorkerInv(t)' /\ PeeksInv(t)'
  BY DEF IInv, WorkerInv, PeeksInv
<1> QED BY <1>1, <1>2, <1>3, <1>4 DEF IInv

LEMMA JoinStep == IInv /\ Join => IInv'
PROOF
<1> SUFFICES ASSUME IInv, Join PROVE IInv'
  OBVIOUS
<1> USE DEF Join, MainRuns, ioVars, resultVars
<1>1. next \in Worker /\ next + 1 \in 0 .. NumThreads
  BY SizesAssumption DEF IInv, TypeOK, Worker
<1>2. TypeOK'
  BY <1>1 DEF IInv, TypeOK
<1>3. MainInv'
  <2>1. CASE pc[next] = "done"
    <3>1. \A t \in Worker : t < next + 1 <=> t < next \/ t = next
      BY <1>1, SizesAssumption DEF Worker
    <3> QED BY <2>1, <3>1 DEF IInv, MainInv
  <2>2. CASE pc[next] # "done"
    BY <2>2 DEF IInv, MainInv
  <2> QED BY <2>1, <2>2
<1>4. RecordedInOrder'
  BY DEF IInv, RecordedInOrder
<1>5. ASSUME NEW t \in Worker PROVE WorkerInv(t)' /\ PeeksInv(t)'
  BY DEF IInv, WorkerInv, PeeksInv
<1> QED BY <1>2, <1>3, <1>4, <1>5 DEF IInv

LEMMA ReportStep == IInv /\ Report => IInv'
PROOF
<1> SUFFICES ASSUME IInv, Report PROVE IInv'
  OBVIOUS
<1> USE DEF Report, MainRuns, mainVars, schedVars, ioVars, resultVars
<1>1. TypeOK'
  BY DEF IInv, TypeOK
<1>2. MainInv'
  BY DEF IInv, MainInv
<1>3. RecordedInOrder'
  BY DEF IInv, RecordedInOrder
<1>4. ASSUME NEW t \in Worker PROVE WorkerInv(t)' /\ PeeksInv(t)'
  BY DEF IInv, WorkerInv, PeeksInv
<1> QED BY <1>1, <1>2, <1>3, <1>4 DEF IInv

-----------------------------------------------------------------------------
(* The steps of a worker.                                                  *)
LEMMA YieldType ==
  ASSUME TypeOK, NEW t \in Worker, Yield(t)
  PROVE  pool' \in [Xstream -> Seq(Ult)] /\ running' \in [Xstream -> Ult \cup {Idle}]
PROOF
<1>1. t \in Ult
  BY DEF Ult
<1>2. Home(t) \in Xstream => Append(pool[Home(t)], t) \in Seq(Ult)
  BY <1>1 DEF TypeOK
<1> QED BY <1>2 DEF TypeOK, Yield

(* What holds whenever a worker is about to act.                           *)
LEMMA WorkerFacts ==
  ASSUME IInv, NEW t \in Worker
  PROVE  /\ TypeOK /\ MainInv /\ RecordedInOrder
         /\ \A u \in Worker : WorkerInv(u) /\ PeeksInv(u)
         /\ pc \in [Worker -> PcLabel]
         /\ t # Stdin
PROOF
<1>1. TypeOK /\ MainInv /\ RecordedInOrder
  BY DEF IInv
<1>2. pc \in [Worker -> PcLabel]
  BY <1>1 DEF TypeOK
<1>3. t # Stdin
  BY SizesAssumption DEF Worker, Stdin
<1> QED BY <1>1, <1>2, <1>3 DEF IInv

LEMMA StartStep ==
  ASSUME IInv, NEW t \in Worker, Start(t)
  PROVE  IInv'
PROOF
<1> USE DEF Start, Runs, mainVars, schedVars
<1>0. /\ TypeOK /\ MainInv /\ RecordedInOrder
      /\ \A u \in Worker : WorkerInv(u) /\ PeeksInv(u)
  BY WorkerFacts
<1>1. TypeOK'
  <2>1. /\ ring' \in [Worker -> {"none", "idle", "inflight", "complete"}]
        /\ open' \subseteq Worker \cup {Stdin} /\ buffers' \subseteq Worker
    <3>1. CASE IoMode > 0
      <4>1. /\ ring' = [ring EXCEPT ![t] = "idle"]
            /\ open' = open \cup {t} /\ buffers' = buffers \cup {t}
        BY <3>1
      <4>2. ring' \in [Worker -> {"none", "idle", "inflight", "complete"}]
        BY <1>0, <4>1 DEF TypeOK
      <4> QED BY <1>0, <4>1, <4>2 DEF TypeOK
    <3>2. CASE ~(IoMode > 0)
      BY <1>0, <3>2 DEF TypeOK
    <3> QED BY <3>1, <3>2
  <2>2. numPeeks' \in [Worker -> 0 .. MaxPeeks \cup {Unset}]
    BY <1>0, PeeksAssumption DEF TypeOK
  <2>3. pc' \in [Worker -> PcLabel]
    BY <1>0 DEF TypeOK, PcLabel, Goto
  <2> QED BY <1>0, <2>1, <2>2, <2>3 DEF TypeOK
<1>2. MainInv'
  BY <1>0, MainUntouched DEF PcLabel, TypeOK
<1>3. RecordedInOrder'
  BY <1>0 DEF RecordedInOrder
<1>4. ASSUME NEW u \in Worker PROVE WorkerInv(u)' /\ PeeksInv(u)'
  <2>1. CASE u = t
    <3>1. pc'[u] = "op" /\ numPeeks'[u] = 0 /\ done[u] = 0
      BY <1>0, <2>1 DEF TypeOK, WorkerInv, Goto
    <3>2. IoMode > 0 => ring'[u] = "idle" /\ u \in open' /\ u \in buffers'
      BY <1>0, <2>1 DEF TypeOK
    <3>3. ~(IoMode > 0) => UNCHANGED <<ring, open, buffers>>
      OBVIOUS
    <3> QED BY <1>0, <2>1, <3>1, <3>2, <3>3, PeeksAssumption, ModeAssumption
        DEF WorkerInv, PeeksInv, Busy
  <2>2. CASE u # t
    <3>1. /\ pc'[u] = pc[u] /\ numPeeks'[u] = numPeeks[u] /\ ring'[u] = ring[u]
          /\ u \in open' <=> u \in open
          /\ u \in buffers' <=> u \in buffers
      BY <1>0, <2>2 DEF TypeOK, Goto
    <3> QED BY <1>0, <3>1 DEF WorkerInv, PeeksInv
  <2> QED BY <2>1, <2>2
<1> QED BY <1>1, <1>2, <1>3, <1>4 DEF IInv

LEMMA OpBeginStep ==
  ASSUME IInv, NEW t \in Worker, OpBegin(t)
  PROVE  IInv'
PROOF
<1> USE DEF OpBegin, Runs, mainVars, schedVars, ioVars, resultVars
<1>0. /\ TypeOK /\ MainInv /\ RecordedInOrder
      /\ \A u \in Worker : WorkerInv(u) /\ PeeksInv(u)
  BY WorkerFacts
<1>1. TypeOK'
  <2>1. \A n \in ChaseCounts : n \in 0 .. NumChases + 1
    BY SizesAssumption DEF ChaseCounts
  <2> QED BY <1>0, <2>1 DEF TypeOK, PcLabel, Goto
<1>2. MainInv'
  BY <1>0, MainUntouched DEF PcLabel, TypeOK
<1>3. RecordedInOrder'
  BY <1>0 DEF RecordedInOrder
<1>4. ASSUME NEW u \in Worker PROVE WorkerInv(u)' /\ PeeksInv(u)'
  <2>1. /\ pc'[u] = (IF u = t THEN "chase" ELSE pc[u])
        /\ u # t => chases'[u] = chases[u]
    BY <1>0 DEF TypeOK, Goto
  <2> QED BY <1>0, <2>1 DEF WorkerInv, PeeksInv, Busy
<1> QED BY <1>1, <1>2, <1>3, <1>4 DEF IInv

LEMMA PrefetchItemStep ==
  ASSUME IInv, NEW t \in Worker, PrefetchItem(t)
  PROVE  IInv'
PROOF
<1> USE DEF PrefetchItem, Runs, mainVars, ioVars, resultVars
<1>0. /\ TypeOK /\ MainInv /\ RecordedInOrder
      /\ \A u \in Worker : WorkerInv(u) /\ PeeksInv(u)
  BY WorkerFacts
<1>1. TypeOK'
  <2>1. pool' \in [Xstream -> Seq(Ult)] /\ running' \in [Xstream -> Ult \cup {Idle}]
    BY <1>0, YieldType
  <2>2. Home(t) \in Xstream
    BY SizesAssumption, ModType DEF Home, Xstream, Worker, Main
  <2>3. Members(pool[Home(t)]) \subseteq Ult
    BY <1>0, <2>2 DEF TypeOK, Members
  <2>4. behind' \in [Worker -> SUBSET Ult]
    BY <1>0, <2>3 DEF TypeOK
  <2> QED BY <1>0, <2>1, <2>4 DEF TypeOK, PcLabel, Goto
<1>2. MainInv'
  BY <1>0, MainUntouched DEF PcLabel, TypeOK
<1>3. RecordedInOrder'
  BY <1>0 DEF RecordedInOrder
<1>4. ASSUME NEW u \in Worker PROVE WorkerInv(u)' /\ PeeksInv(u)'
  <2>1. pc'[u] = (IF u = t THEN "load" ELSE pc[u])
    BY <1>0 DEF TypeOK, Goto
  <2> QED BY <1>0, <2>1 DEF WorkerInv, PeeksInv, Busy
<1> QED BY <1>1, <1>2, <1>3, <1>4 DEF IInv

LEMMA LoadItemStep ==
  ASSUME IInv, NEW t \in Worker, LoadItem(t)
  PROVE  IInv'
PROOF
<1> USE DEF LoadItem, Runs, mainVars, schedVars, ioVars, resultVars
<1>0. /\ TypeOK /\ MainInv /\ RecordedInOrder
      /\ \A u \in Worker : WorkerInv(u) /\ PeeksInv(u)
  BY WorkerFacts
<1>1. chases[t] > 0 /\ pc[t] \in {"chase", "load"}
  BY <1>0 DEF WorkerInv
<1>2. TypeOK'
  <2>1. chases[t] - 1 \in 0 .. NumChases + 1
    BY <1>0, <1>1, SizesAssumption DEF TypeOK
  <2> QED BY <1>0, <2>1 DEF TypeOK, PcLabel, Goto
<1>3. MainInv'
  BY <1>0, <1>1, MainUntouched DEF PcLabel, TypeOK
<1>4. RecordedInOrder'
  BY <1>0 DEF RecordedInOrder
<1>5. ASSUME NEW u \in Worker PROVE WorkerInv(u)' /\ PeeksInv(u)'
  <2>1. /\ pc'[u] = (IF u = t THEN "chase" ELSE pc[u])
        /\ u # t => chases'[u] = chases[u]
    BY <1>0 DEF TypeOK, Goto
  <2> QED BY <1>0, <1>1, <2>1 DEF WorkerInv, PeeksInv, Busy
<1> QED BY <1>2, <1>3, <1>4, <1>5 DEF IInv

LEMMA EndWithoutIoStep ==
  ASSUME IInv, NEW t \in Worker, EndWithoutIo(t)
  PROVE  IInv'
PROOF
<1> USE DEF EndWithoutIo, Runs, mainVars, schedVars, ioVars
<1>0. /\ TypeOK /\ MainInv /\ RecordedInOrder
      /\ \A u \in Worker : WorkerInv(u) /\ PeeksInv(u)
  BY WorkerFacts
<1>1. Record(t) /\ UNCHANGED slice /\ pc[t] \in Busy /\ done[t] < slice[t].count
  BY <1>0 DEF WorkerInv, Busy
<1>2. /\ RecordedInOrder' /\ latency' \in [Op -> Stamp \cup {NotWritten}]
      /\ done' \in [Worker -> 0 .. Count]
  BY <1>0, <1>1, Recording
<1>3. Goto(t, "op")
  BY <1>1 DEF Record
<1>4. TypeOK'
  BY <1>0, <1>2, <1>3 DEF TypeOK, PcLabel, Goto
<1>5. MainInv'
  BY <1>0, <1>3, MainUntouched DEF PcLabel, TypeOK
<1>6. ASSUME NEW u \in Worker PROVE WorkerInv(u)' /\ PeeksInv(u)'
  <2>1. /\ pc'[u] = (IF u = t THEN "op" ELSE pc[u])
        /\ done'[u] = (IF u = t THEN done[u] + 1 ELSE done[u])
        /\ done[u] \in Nat /\ slice[u].count \in Nat
    BY <1>0, <1>1, <1>3, SizesAssumption DEF TypeOK, Goto, Record
  <2>2. WorkerInv(u) /\ PeeksInv(u)
    BY <1>0
  <2>3. CASE u = t
    BY <1>1, <2>1, <2>2, <2>3 DEF WorkerInv, PeeksInv, Busy
  <2>4. CASE u # t
    BY <2>1, <2>2, <2>4 DEF WorkerInv, PeeksInv, Busy
  <2> QED BY <2>3, <2>4
<1> QED BY <1>2, <1>4, <1>5, <1>6 DEF IInv

LEMMA SubmitStep ==
  ASSUME IInv, NEW t \in Worker, Submit(t)
  PROVE  IInv'
PROOF
<1> USE DEF Submit, Runs, mainVars, resultVars
<1>0. /\ TypeOK /\ MainInv /\ RecordedInOrder
      /\ \A u \in Worker : WorkerInv(u) /\ PeeksInv(u)
  BY WorkerFacts
<1>1. TypeOK'
  <2>1. pool' \in [Xstream -> Seq(Ult)] /\ running' \in [Xstream -> Ult \cup {Idle}]
    BY <1>0, YieldType
  <2>2. ring' \in [Worker -> {"none", "idle", "inflight", "complete"}]
    BY <1>0 DEF TypeOK
  <2>3. pc' \in [Worker -> PcLabel]
    BY <1>0 DEF TypeOK, PcLabel, Goto
  <2> QED BY <1>0, <2>1, <2>2, <2>3 DEF TypeOK
<1>2. MainInv'
  BY <1>0, MainUntouched DEF PcLabel, TypeOK
<1>3. RecordedInOrder'
  BY <1>0 DEF RecordedInOrder
<1>4. ASSUME NEW u \in Worker PROVE WorkerInv(u)' /\ PeeksInv(u)'
  <2>1. /\ pc'[u] = (IF u = t THEN "peek" ELSE pc[u])
        /\ ring'[u] = (IF u = t THEN "inflight" ELSE ring[u])
    BY <1>0 DEF TypeOK, Goto
  <2> QED BY <1>0, <2>1 DEF WorkerInv, PeeksInv, Busy
<1> QED BY <1>1, <1>2, <1>3, <1>4 DEF IInv

(* Counting a poll adds one, up to the bound.                              *)
LEMMA CountPeekFacts ==
  ASSUME TypeOK, NEW t \in Worker, numPeeks[t] \in 0 .. MaxPeeks, CountPeek(t)
  PROVE  /\ numPeeks' \in [Worker -> 0 .. MaxPeeks \cup {Unset}]
         /\ \A u \in Worker : u # t => numPeeks'[u] = numPeeks[u]
         /\ numPeeks'[t] \in 0 .. MaxPeeks
         /\ numPeeks'[t] = MaxPeeks \/ numPeeks'[t] = numPeeks[t] + 1
         /\ numPeeks'[t] >= numPeeks[t]
PROOF
<1> DEFINE n == IF numPeeks[t] < MaxPeeks THEN numPeeks[t] + 1 ELSE numPeeks[t]
<1>1. numPeeks' = [numPeeks EXCEPT ![t] = n]
  BY DEF CountPeek
<1>2. /\ n \in 0 .. MaxPeeks /\ n >= numPeeks[t]
      /\ n = MaxPeeks \/ n = numPeeks[t] + 1
  BY PeeksAssumption
<1> HIDE DEF n
<1> QED BY <1>1, <1>2 DEF TypeOK

LEMMA PeekNothingStep ==
  ASSUME IInv, NEW t \in Worker, PeekNothing(t)
  PROVE  IInv'
PROOF
<1> USE DEF PeekNothing, Runs, mainVars, ioVars
<1>0. /\ TypeOK /\ MainInv /\ RecordedInOrder
      /\ \A u \in Worker : WorkerInv(u) /\ PeeksInv(u)
  BY WorkerFacts
<1>1. numPeeks[t] \in 0 .. MaxPeeks
  BY <1>0 DEF WorkerInv
<1>2. /\ numPeeks' \in [Worker -> 0 .. MaxPeeks \cup {Unset}]
      /\ \A u \in Worker : u # t => numPeeks'[u] = numPeeks[u]
      /\ numPeeks'[t] \in 0 .. MaxPeeks
      /\ numPeeks'[t] = MaxPeeks \/ numPeeks'[t] = numPeeks[t] + 1
      /\ numPeeks'[t] >= numPeeks[t]
  BY <1>0, <1>1, CountPeekFacts
<1>3. TypeOK'
  <2>1. pool' \in [Xstream -> Seq(Ult)] /\ running' \in [Xstream -> Ult \cup {Idle}]
    BY <1>0, YieldType
  <2> QED BY <1>0, <1>2, <2>1 DEF TypeOK
<1>4. MainInv' /\ RecordedInOrder'
  BY <1>0 DEF MainInv, RecordedInOrder
<1>5. ASSUME NEW u \in Worker PROVE WorkerInv(u)' /\ PeeksInv(u)'
  <2>0. WorkerInv(u) /\ PeeksInv(u) /\ done[u] \in Nat
    BY <1>0 DEF TypeOK
  <2>1. CASE u = t
    <3>1. WorkerInv(u)'
      BY <1>2, <2>0, <2>1 DEF WorkerInv
    <3>2. IoMode # 0
      BY <2>0, <2>1 DEF WorkerInv
    <3> QED BY <1>1, <1>2, <2>0, <2>1, <3>1, <3>2, PeeksAssumption DEF PeeksInv
  <2>2. CASE u # t
    BY <1>2, <2>0, <2>2 DEF WorkerInv, PeeksInv
  <2> QED BY <2>1, <2>2
<1> QED BY <1>3, <1>4, <1>5 DEF IInv

LEMMA PeekDoneStep ==
  ASSUME IInv, NEW t \in Worker, PeekDone(t)
  PROVE  IInv'
PROOF
<1> USE DEF PeekDone, Runs, mainVars, schedVars
<1>0. /\ TypeOK /\ MainInv /\ RecordedInOrder
      /\ \A u \in Worker : WorkerInv(u) /\ PeeksInv(u)
  BY WorkerFacts
<1>1. /\ Record(t) /\ UNCHANGED slice /\ pc[t] \in Busy /\ done[t] < slice[t].count
      /\ numPeeks[t] \in 0 .. MaxPeeks
  BY <1>0 DEF WorkerInv, Busy
<1>2. /\ RecordedInOrder' /\ latency' \in [Op -> Stamp \cup {NotWritten}]
      /\ done' \in [Worker -> 0 .. Count]
  BY <1>0, <1>1, Recording
<1>3. Goto(t, "op")
  BY <1>1 DEF Record
<1>4. /\ numPeeks' \in [Worker -> 0 .. MaxPeeks \cup {Unset}]
      /\ \A u \in Worker : u # t => numPeeks'[u] = numPeeks[u]
      /\ numPeeks'[t] \in 0 .. MaxPeeks
      /\ numPeeks'[t] = MaxPeeks \/ numPeeks'[t] = numPeeks[t] + 1
  BY <1>0, <1>1, CountPeekFacts
<1>5. TypeOK'
  <2>1. ring' \in [Worker -> {"none", "idle", "inflight", "complete"}]
    BY <1>0 DEF TypeOK
  <2>2. pc' \in [Worker -> PcLabel]
    BY <1>0, <1>3 DEF TypeOK, PcLabel, Goto
  <2> QED BY <1>0, <1>2, <1>4, <2>1, <2>2 DEF TypeOK
<1>6. MainInv'
  BY <1>0, <1>3, MainUntouched DEF PcLabel, TypeOK
<1>7. ASSUME NEW u \in Worker PROVE WorkerInv(u)' /\ PeeksInv(u)'
  <2>1. /\ pc'[u] = (IF u = t THEN "op" ELSE pc[u])
        /\ done'[u] = (IF u = t THEN done[u] + 1 ELSE done[u])
        /\ ring'[u] = (IF u = t THEN "idle" ELSE ring[u])
        /\ done[u] \in Nat /\ slice[u].count \in Nat
    BY <1>0, <1>1, <1>3, SizesAssumption DEF TypeOK, Goto, Record
  <2>2. WorkerInv(u) /\ PeeksInv(u)
    BY <1>0
  <2>3. CASE u = t
    <3>1. IoMode > 0 /\ IoMode # 0
      BY <2>2, <2>3, ModeAssumption DEF WorkerInv
    <3>2. IoMode = 1 => res[u] = "full"
      BY <2>3 DEF Acceptable
    <3>3. WorkerInv(u)'
      BY <1>1, <1>4, <2>1, <2>2, <2>3, <3>1, <3>2 DEF WorkerInv, Busy
    <3>4. PeeksInv(u)'
      BY <1>1, <1>4, <2>1, <2>2, <2>3, <3>1, PeeksAssumption DEF PeeksInv
    <3> QED BY <3>3, <3>4
  <2>4. CASE u # t
    BY <1>4, <2>1, <2>2, <2>4 DEF WorkerInv, PeeksInv, Busy
  <2> QED BY <2>3, <2>4
<1> QED BY <1>2, <1>5, <1>6, <1>7 DEF IInv

LEMMA FinishStep ==
  ASSUME IInv, NEW t \in Worker, Finish(t)
  PROVE  IInv'
PROOF
<1> USE DEF Finish, Runs, resultVars
<1>0. /\ TypeOK /\ MainInv /\ RecordedInOrder /\ t # Stdin
      /\ \A u \in Worker : WorkerInv(u) /\ PeeksInv(u)
  BY WorkerFacts
<1>1. PICK gone \in Closed(t) : open' = open \ gone
  OBVIOUS
<1>2. TypeOK'
  <2>1. Main \in Ult
    BY DEF Ult
  <2>2. 0 \in Xstream /\ pool[0] \in Seq(Ult)
    BY <1>0, SizesAssumption DEF Xstream, TypeOK
  <2>3. Append(pool[0], Main) \in Seq(Ult) /\ <<Main>> \o pool[0] \in Seq(Ult)
    BY <2>1, <2>2
  <2>4. pool' \in [Xstream -> Seq(Ult)] /\ mainPc' \in {"split", "create", "join", "blocked"}
    <3>1. CASE mainPc = "blocked" /\ next = t
      <4>1. PICK queue \in {Append(pool[0], Main), <<Main>> \o pool[0]} :
                   pool' = [pool EXCEPT ![0] = queue]
        BY <3>1
      <4>2. queue \in Seq(Ult)
        BY <2>3, <4>1
      <4> QED BY <1>0, <3>1, <4>1, <4>2 DEF TypeOK
    <3>2. CASE ~(mainPc = "blocked" /\ next = t)
      BY <1>0, <3>2 DEF TypeOK
    <3> QED BY <3>1, <3>2
  <2>5. /\ ring' \in [Worker -> {"none", "idle", "inflight", "complete"}]
        /\ running' \in [Xstream -> Ult \cup {Idle}]
        /\ open' \subseteq Worker \cup {Stdin} /\ buffers' \subseteq Worker
    BY <1>0, <1>1 DEF TypeOK
  <2>6. pc' \in [Worker -> PcLabel]
    BY <1>0 DEF TypeOK, PcLabel, Goto
  <2> QED BY <1>0, <2>4, <2>5, <2>6 DEF TypeOK
<1>3. MainInv'
  BY <1>0, MainUntouched DEF PcLabel, TypeOK
<1>4. RecordedInOrder'
  BY <1>0 DEF RecordedInOrder
<1>5. ASSUME NEW u \in Worker PROVE WorkerInv(u)' /\ PeeksInv(u)'
  <2>1. /\ pc'[u] = (IF u = t THEN "done" ELSE pc[u])
        /\ ring'[u] = (IF u = t THEN "none" ELSE ring[u])
        /\ u \in buffers' <=> u \in buffers /\ u # t
    BY <1>0 DEF TypeOK, Goto
  <2>2. WorkerInv(u) /\ PeeksInv(u)
    BY <1>0
  <2>3. u \in open' <=> u \in open /\ u # t
    <3>1. CASE IoMode > 0
      BY <1>1, <3>1 DEF Closed
    <3>2. CASE ~(IoMode > 0)
      BY <1>0, <3>2, <1>1 DEF WorkerInv
    <3> QED BY <3>1, <3>2
  <2>4. IoMode = 1 => res[t] \in {"none", "full"}
    BY <1>0 DEF WorkerInv, Busy
  <2>5. CASE u = t
    BY <2>1, <2>2, <2>3, <2>4, <2>5 DEF WorkerInv, PeeksInv, Busy
  <2>6. CASE u # t
    BY <2>1, <2>2, <2>3, <2>6 DEF WorkerInv, PeeksInv
  <2> QED BY <2>5, <2>6
<1> QED BY <1>2, <1>3, <1>4, <1>5 DEF IInv

LEMMA WorkerStepInv ==
  ASSUME IInv, NEW t \in Worker, WorkerStep(t)
  PROVE  IInv'
PROOF
<1>1. CASE StartFails(t) \/ SubmitFails(t) \/ PeekRejects(t)
  BY <1>1, ExitStep DEF StartFails, SubmitFails, PeekRejects
<1>2. CASE PeekFails(t) \/ FinishCrashes(t)
  BY <1>2, ExitStep DEF PeekFails, FinishCrashes
<1> QED
  BY <1>1, <1>2, StartStep, OpBeginStep, PrefetchItemStep, LoadItemStep,
     EndWithoutIoStep, SubmitStep, PeekNothingStep, PeekDoneStep, FinishStep
     DEF WorkerStep

LEMMA MainStepInv == IInv /\ MainStep => IInv'
PROOF
<1>1. IInv /\ InitFails => IInv'
  BY ExitStep DEF InitFails
<1> QED
  BY <1>1, SplitStep, SplitEndStep, CreateThreadStep, CreateEndStep, JoinStep,
     ReportStep DEF MainStep

LEMMA StutterStep == IInv /\ UNCHANGED vars => IInv'
PROOF
<1> SUFFICES ASSUME IInv, UNCHANGED vars PROVE IInv'
  OBVIOUS
<1> USE DEF vars, mainVars, schedVars, ioVars, resultVars
<1>1. TypeOK' /\ MainInv' /\ RecordedInOrder'
  BY DEF IInv, TypeOK, MainInv, RecordedInOrder
<1>2. ASSUME NEW t \in Worker PROVE WorkerInv(t)' /\ PeeksInv(t)'
  BY DEF IInv, WorkerInv, PeeksInv
<1> QED BY <1>1, <1>2 DEF IInv

LEMMA NextInv == IInv /\ [Next]_vars => IInv'
  BY DispatchStep, MainStepInv, WorkerStepInv, CompleteStep, StutterStep
     DEF Next, StreamStep, Terminated

(* The inductive invariant holds in every state.                           *)
THEOREM InductiveInvariant == Safety => []IInv
  BY InitIInv, NextInv, PTL DEF Safety

-----------------------------------------------------------------------------
(* Every variable keeps to its type, whatever the sizes, the I/O mode and  *)
(* the failures (main.c:90-275).                                           *)
THEOREM TypeCorrect == Safety => []TypeOK
PROOF
<1>1. IInv => TypeOK
  BY DEF IInv
<1> QED BY <1>1, InductiveInvariant, PTL

(* For every number of operations and workers, the slices the main ULT     *)
(* hands out cover op_latencies and do not overlap (main.c:240-249).       *)
THEOREM SlicesCorrect == Safety => []SlicesPartition
PROOF
<1>1. IInv => SlicesPartition
  <2>1. SUFFICES ASSUME IInv, mainPc # "split", NEW o \in Op
                 PROVE  \E t \in Worker : \A u \in Worker : Owns(u, o) <=> u = t
    BY DEF SlicesPartition
  <2>2. \A u \in Worker : Owns(u, o) <=> Bound(u) <= o /\ o < Bound(u + 1)
    <3>1. slice = [u \in Worker |-> SliceOf(u)]
      BY <2>1 DEF IInv, MainInv
    <3>2. ASSUME NEW u \in Worker
          PROVE  slice[u].start = Bound(u) /\ slice[u].start + slice[u].count = Bound(u + 1)
      BY <3>1, SliceFacts
    <3> QED BY <3>2 DEF Owns
  <2>3. PICK t \in Worker : Bound(t) <= o /\ o < Bound(t + 1)
    BY BoundsCover
  <2>4. o \in Nat
    BY SizesAssumption DEF Op
  <2>5. \A u \in Worker : Owns(u, o) <=> u = t
    BY <2>2, <2>3, <2>4, BoundsDisjoint
  <2> QED BY <2>5
<1> QED BY <1>1, InductiveInvariant, PTL

(* A worker's results appear in order in its own slice (main.c:208, 246).  *)
THEOREM ResultsInOrder == Safety => []RecordedInOrder
PROOF
<1>1. IInv => RecordedInOrder
  BY DEF IInv
<1> QED BY <1>1, InductiveInvariant, PTL

(* A ring of depth 1 is enough, and never outlives its buffer or its       *)
(* descriptor (main.c:111, 161-202).                                       *)
THEOREM RingsDisciplined == Safety => []RingDiscipline
PROOF
<1>1. IInv => RingDiscipline
  BY DEF IInv, WorkerInv, RingDiscipline
<1> QED BY <1>1, InductiveInvariant, PTL

(* Polls are counted for every I/O (main.c:179-184).                       *)
THEOREM PeeksCorrect == Safety => []PeeksAccounted
PROOF
<1>1. IInv => PeeksAccounted
  BY DEF IInv, PeeksInv, PeeksAccounted
<1> QED BY <1>1, InductiveInvariant, PTL

(* What every entry of op_latencies holds once its owner has ended.        *)
LEMMA OwnerHasWritten ==
  ASSUME IInv, mainPc # "split", NEW o \in Op, \A t \in Worker : pc[t] = "done"
  PROVE  latency[o] # NotWritten
PROOF
<1>1. PICK t \in Worker : Bound(t) <= o /\ o < Bound(t + 1)
  BY BoundsCover
<1>2. /\ slice[t].start = Bound(t) /\ slice[t].count = Bound(t + 1) - Bound(t)
      /\ Bound(t) \in Nat /\ Bound(t + 1) \in Nat /\ o \in Nat
  BY SliceFacts, SizesAssumption DEF IInv, MainInv, Op
<1>3. done[t] = slice[t].count
  BY DEF IInv, WorkerInv
<1>4. /\ o - Bound(t) \in 0 .. slice[t].count - 1 /\ o - Bound(t) < done[t]
      /\ slice[t].start + (o - Bound(t)) = o
  BY <1>1, <1>2, <1>3
<1>5. PICK k \in 0 .. slice[t].count - 1 : k < done[t] /\ slice[t].start + k = o
  BY <1>4
<1>6. latency[o] = <<t, k>>
  BY <1>5 DEF IInv, RecordedInOrder
<1> QED BY <1>6, StampsAreWritten

(* Whenever the run is reported, all its results are there and nothing is  *)
(* under way (main.c:261-274, 348-364).                                    *)
THEOREM ReportsAreComplete == Safety => []ReportComplete
PROOF
<1>1. IInv => ReportComplete
  <2>1. SUFFICES ASSUME IInv, status = "reported" PROVE ReportComplete
    BY DEF ReportComplete
  <2>2. /\ mainPc = "join" /\ next = NumThreads
        /\ \A t \in Worker : t < NumThreads
    BY <2>1, SizesAssumption DEF IInv, MainInv, Worker
  <2>3. \A t \in Worker : pc[t] = "done"
    BY <2>1, <2>2 DEF IInv, MainInv
  <2>4. \A o \in Op : latency[o] # NotWritten
    BY <2>1, <2>2, <2>3, OwnerHasWritten
  <2>5. ASSUME NEW t \in Worker
        PROVE  /\ numPeeks[t] # Unset /\ ring[t] = "none"
               /\ IoMode = 1 => res[t] \in {"none", "full"}
               /\ t \notin buffers /\ t \notin open
    <3>1. numPeeks[t] \in 0 .. MaxPeeks
      BY <2>1, <2>3 DEF IInv, WorkerInv
    <3>2. numPeeks[t] # Unset
      BY <3>1, PeeksAssumption DEF Unset
    <3> QED BY <2>1, <2>3, <3>2 DEF IInv, WorkerInv, Busy
  <2>6. buffers = {} /\ open \cap Worker = {}
    BY <2>1, <2>5 DEF IInv, TypeOK
  <2> QED BY <2>3, <2>4, <2>5, <2>6 DEF ReportComplete
<1> QED BY <1>1, InductiveInvariant, PTL

-----------------------------------------------------------------------------
(* How a step changes the results: not at all, or by one entry that was    *)
(* not written before.                                                     *)
LEMMA StepRecords ==
  ASSUME IInv, [Next]_vars
  PROVE  \/ UNCHANGED <<status, latency>>
         \/ status = "running" /\ latency' = latency
               /\ status' \in {"failed", "crashed"}
         \/ Report
         \/ /\ status = "running" /\ status' = "running"
            /\ \E o \in Op, t \in Worker :
                 latency[o] = NotWritten /\ latency' = [latency EXCEPT ![o] = <<t, done[t]>>]
PROOF
<1> USE DEF mainVars, schedVars, ioVars, resultVars
<1>1. CASE UNCHANGED vars
  BY <1>1 DEF vars
<1>2. CASE \E x \in Xstream : Dispatch(x)
  BY <1>2 DEF Dispatch
<1>3. CASE MainStep
  BY <1>3 DEF MainStep, InitFails, MainRuns, ExitWith, Split, SplitEnd,
              CreateThread, CreateEnd, Join
<1>4. ASSUME NEW t \in Worker, WorkerStep(t)
      PROVE  \/ UNCHANGED <<status, latency>>
             \/ status = "running" /\ latency' = latency
                   /\ status' \in {"failed", "crashed"}
             \/ EndWithoutIo(t) \/ PeekDone(t)
  BY <1>4 DEF WorkerStep, Runs, ExitWith, Start, StartFails, OpBegin, PrefetchItem,
              LoadItem, Submit, SubmitFails, PeekNothing, PeekRejects, PeekFails,
              Finish, FinishCrashes
<1>5. ASSUME NEW t \in Worker, EndWithoutIo(t) \/ PeekDone(t)
      PROVE  /\ status = "running" /\ status' = "running"
             /\ \E o \in Op : latency[o] = NotWritten /\ latency' = [latency EXCEPT ![o] = <<t, done[t]>>]
  <2>1. /\ status = "running" /\ status' = "running" /\ Record(t) /\ UNCHANGED slice
        /\ pc[t] \in {"chase", "peek"}
    BY <1>5 DEF EndWithoutIo, PeekDone, Runs
  <2>2. TypeOK /\ MainInv /\ RecordedInOrder /\ pc[t] \in Busy /\ done[t] < slice[t].count
    BY <2>1 DEF IInv, WorkerInv, Busy
  <2>3. /\ slice[t].start + done[t] \in Op
        /\ latency[slice[t].start + done[t]] = NotWritten
    BY <2>1, <2>2, Recording
  <2> QED BY <2>1, <2>3 DEF Record
<1>6. CASE \E t \in Worker : Complete(t)
  BY <1>6 DEF Complete
<1>7. CASE \E t \in Worker : WorkerStep(t)
  BY <1>4, <1>5, <1>7
<1> QED BY <1>1, <1>2, <1>3, <1>6, <1>7 DEF Next, StreamStep, Terminated

(* No result is ever overwritten (main.c:208).                             *)
THEOREM ResultsKept == Safety => NeverOverwritten
PROOF
<1>1. IInv /\ [Next]_vars => [\A o \in Op : latency[o] # NotWritten => latency'[o] = latency[o]]_vars
  BY StepRecords DEF IInv, TypeOK, Report, resultVars
<1> QED BY <1>1, InductiveInvariant, PTL DEF Safety, NeverOverwritten

(* The microbenchmark implements a run that measures every operation once  *)
(* and reports all of them or nothing.                                     *)
THEOREM Implements == Safety => Abstract!AbsSafety
PROOF
<1> DEFINE phase == IF status \in {"running", "reported"} THEN status ELSE "aborted"
           recorded == {o \in Op : latency[o] # NotWritten}
<1>1. Init => Abstract!AbsInit
  BY DEF Init, Abstract!AbsInit
<1>2. IInv /\ IInv' /\ [Next]_vars => [Abstract!AbsNext]_(Abstract!absVars)
  <2>1. SUFFICES ASSUME IInv, [Next]_vars
                 PROVE  Abstract!AbsNext \/ (phase' = phase /\ recorded' = recorded)
    BY DEF Abstract!absVars
  <2>2. CASE UNCHANGED <<status, latency>>
    BY <2>2
  <2>3. CASE status = "running" /\ latency' = latency /\ status' \in {"failed", "crashed"}
    BY <2>3 DEF Abstract!AbsNext, Abstract!Abort
  <2>4. CASE Report
    <3>1. /\ mainPc = "join" /\ next = NumThreads /\ status = "running"
          /\ \A t \in Worker : t < NumThreads
          /\ status' = "reported" /\ latency' = latency
      BY <2>4, SizesAssumption DEF Report, MainRuns, Worker, resultVars
    <3>2. \A t \in Worker : pc[t] = "done"
      BY <2>1, <3>1 DEF IInv, MainInv
    <3>3. \A o \in Op : latency[o] # NotWritten
      BY <2>1, <3>1, <3>2, OwnerHasWritten
    <3> QED BY <3>1, <3>3 DEF Abstract!AbsNext, Abstract!ReportRun
  <2>5. CASE /\ status = "running" /\ status' = "running"
             /\ \E o \in Op, t \in Worker :
                  latency[o] = NotWritten /\ latency' = [latency EXCEPT ![o] = <<t, done[t]>>]
    <3>1. PICK o \in Op, t \in Worker :
                 latency[o] = NotWritten /\ latency' = [latency EXCEPT ![o] = <<t, done[t]>>]
      BY <2>5
    <3>2. <<t, done[t]>> # NotWritten
      BY StampsAreWritten
    <3>3. latency \in [Op -> Stamp \cup {NotWritten}]
      BY <2>1 DEF IInv, TypeOK
    <3>4. o \in Op \ recorded /\ recorded' = recorded \cup {o}
      BY <3>1, <3>2, <3>3
    <3>5. phase = "running" /\ phase' = phase
      BY <2>5
    <3> QED BY <3>4, <3>5 DEF Abstract!AbsNext, Abstract!RecordOp
  <2> QED BY <2>1, <2>2, <2>3, <2>4, <2>5, StepRecords
<1> QED BY <1>1, <1>2, InductiveInvariant, PTL DEF Safety, Abstract!AbsSafety

-----------------------------------------------------------------------------
(* The pools: a queue holds a ULT at most once.                            *)
Distinct(s) == \A m, n \in 1 .. Len(s) : s[m] = s[n] => m = n

InFront(s, u) == {s[m] : m \in {k \in 1 .. Len(s) : \E n \in k + 1 .. Len(s) : s[n] = u}}

LEMMA InFrontMember ==
  ASSUME NEW s, NEW u, NEW v
  PROVE  v \in InFront(s, u) <=>
           \E m, n \in 1 .. Len(s) : m < n /\ s[m] = v /\ s[n] = u
PROOF
<1>1. ASSUME NEW m \in 1 .. Len(s), NEW n \in m + 1 .. Len(s)
      PROVE  n \in 1 .. Len(s) /\ m < n
  BY <1>1
<1>2. ASSUME NEW m \in 1 .. Len(s), NEW n \in 1 .. Len(s), m < n
      PROVE  n \in m + 1 .. Len(s)
  BY <1>2
<1> QED BY <1>1, <1>2 DEF InFront

(* ABT_thread_yield and the creation of a ULT append to the pool.          *)
LEMMA PutLast ==
  ASSUME NEW s \in Seq(Ult), NEW e \in Ult, Distinct(s), e \notin Members(s)
  PROVE  /\ Members(Append(s, e)) = Members(s) \cup {e}
         /\ Distinct(Append(s, e))
         /\ InFront(Append(s, e), e) = Members(s)
         /\ \A u : u # e => InFront(Append(s, e), u) = InFront(s, u)
PROOF
<1> DEFINE q == Append(s, e)
<1>1. /\ Len(q) = Len(s) + 1 /\ Len(s) \in Nat /\ q[Len(s) + 1] = e
      /\ \A n \in 1 .. Len(s) : q[n] = s[n] /\ s[n] # e
      /\ 1 .. Len(q) = 1 .. Len(s) \cup {Len(s) + 1}
  BY DEF Members
<1> HIDE DEF q
<1>2. Members(q) = Members(s) \cup {e}
  BY <1>1 DEF Members
<1>3. Distinct(q)
  BY <1>1 DEF Distinct
<1>4. InFront(q, e) = Members(s)
  <2>1. ASSUME NEW v PROVE v \in InFront(q, e) <=> v \in Members(s)
    <3>1. ASSUME v \in InFront(q, e) PROVE v \in Members(s)
      <4>1. PICK m, n \in 1 .. Len(q) : m < n /\ q[m] = v /\ q[n] = e
        BY <3>1, InFrontMember
      <4>2. m \in 1 .. Len(s)
        BY <1>1, <4>1
      <4> QED BY <1>1, <4>1, <4>2 DEF Members
    <3>2. ASSUME v \in Members(s) PROVE v \in InFront(q, e)
      <4>1. PICK m \in 1 .. Len(s) : s[m] = v
        BY <3>2 DEF Members
      <4>2. m \in 1 .. Len(q) /\ Len(s) + 1 \in 1 .. Len(q) /\ m < Len(s) + 1
        BY <1>1
      <4> QED BY <1>1, <4>1, <4>2, InFrontMember
    <3> QED BY <3>1, <3>2
  <2> QED BY <2>1
<1>5. ASSUME NEW u, u # e PROVE InFront(q, u) = InFront(s, u)
  <2>1. ASSUME NEW v PROVE v \in InFront(q, u) <=> v \in InFront(s, u)
    <3>1. ASSUME NEW m \in 1 .. Len(q), NEW n \in 1 .. Len(q), m < n, q[n] = u
          PROVE  m \in 1 .. Len(s) /\ n \in 1 .. Len(s)
      BY <1>1, <1>5, <3>1
    <3> QED BY <1>1, <3>1, InFrontMember
  <2> QED BY <2>1
<1> QED BY <1>2, <1>3, <1>4, <1>5 DEF q

(* The scheduler takes the first of the pool.                              *)
LEMMA TakeFirst ==
  ASSUME NEW s \in Seq(Ult), s # << >>, Distinct(s)
  PROVE  /\ Head(s) \in Members(s)
         /\ Members(Tail(s)) = Members(s) \ {Head(s)}
         /\ Distinct(Tail(s))
         /\ InFront(s, Head(s)) = {}
         /\ \A u : InFront(Tail(s), u) = InFront(s, u) \ {Head(s)}
PROOF
<1> DEFINE q == Tail(s)
           h == Head(s)
<1>1. /\ Len(s) \in Nat /\ Len(s) > 0 /\ Len(q) = Len(s) - 1 /\ h = s[1]
      /\ \A n \in 1 .. Len(q) : q[n] = s[n + 1] /\ n + 1 \in 1 .. Len(s)
      /\ \A n \in 1 .. Len(s) : n # 1 => n - 1 \in 1 .. Len(q) /\ q[n - 1] = s[n]
  OBVIOUS
<1>2. 1 \in 1 .. Len(s) /\ \A n \in 1 .. Len(s) : s[n] = h <=> n = 1
  BY <1>1 DEF Distinct
<1> HIDE DEF q, h
<1>3. Members(q) = Members(s) \ {h}
  <2>1. ASSUME NEW v \in Members(q) PROVE v \in Members(s) /\ v # h
    <3>1. PICK n \in 1 .. Len(q) : q[n] = v
      BY DEF Members
    <3>2. n + 1 \in 1 .. Len(s) /\ s[n + 1] = v /\ n + 1 # 1
      BY <1>1, <3>1
    <3> QED BY <1>2, <3>2 DEF Members
  <2>2. ASSUME NEW v \in Members(s), v # h PROVE v \in Members(q)
    BY <1>1, <1>2, <2>2 DEF Members
  <2> QED BY <2>1, <2>2
<1>4. Distinct(q)
  <2>1. ASSUME NEW m \in 1 .. Len(q), NEW n \in 1 .. Len(q), q[m] = q[n] PROVE m = n
    <3>1. m + 1 = n + 1
      BY <1>1, <2>1 DEF Distinct
    <3> QED BY <3>1
  <2> QED BY <2>1 DEF Distinct
<1>5. InFront(s, h) = {}
  <2>1. ASSUME NEW v \in InFront(s, h) PROVE FALSE
    <3>1. PICK m, n \in 1 .. Len(s) : m < n /\ s[n] = h
      BY InFrontMember
    <3> QED BY <1>2, <3>1
  <2> QED BY <2>1
<1>6. ASSUME NEW u PROVE InFront(q, u) = InFront(s, u) \ {h}
  <2>1. ASSUME NEW v \in InFront(q, u) PROVE v \in InFront(s, u) /\ v # h
    <3>1. PICK m, n \in 1 .. Len(q) : m < n /\ q[m] = v /\ q[n] = u
      BY InFrontMember
    <3>2. /\ m + 1 \in 1 .. Len(s) /\ n + 1 \in 1 .. Len(s) /\ m + 1 < n + 1
          /\ s[m + 1] = v /\ s[n + 1] = u /\ m + 1 # 1
      BY <1>1, <3>1
    <3> QED BY <1>2, <3>2, InFrontMember
  <2>2. ASSUME NEW v \in InFront(s, u), v # h PROVE v \in InFront(q, u)
    <3>1. PICK m, n \in 1 .. Len(s) : m < n /\ s[m] = v /\ s[n] = u
      BY InFrontMember
    <3>2. /\ m - 1 \in 1 .. Len(q) /\ n - 1 \in 1 .. Len(q) /\ m - 1 < n - 1
          /\ q[m - 1] = v /\ q[n - 1] = u
      BY <1>1, <1>2, <2>2, <3>1
    <3> QED BY <3>2, InFrontMember
  <2> QED BY <2>1, <2>2
<1>7. h \in Members(s)
  BY <1>2 DEF Members
<1> QED BY <1>3, <1>4, <1>5, <1>6, <1>7 DEF q, h

(* A worker that ends may put the main ULT in front of the others.         *)
LEMMA PutFirst ==
  ASSUME NEW s \in Seq(Ult), NEW e \in Ult, Distinct(s), e \notin Members(s)
  PROVE  /\ Members(<<e>> \o s) = Members(s) \cup {e}
         /\ Distinct(<<e>> \o s)
         /\ \A u : InFront(s, u) \subseteq InFront(<<e>> \o s, u)
PROOF
<1> DEFINE q == <<e>> \o s
<1>1. /\ Len(q) = Len(s) + 1 /\ Len(s) \in Nat /\ q[1] = e /\ 1 \in 1 .. Len(q)
      /\ \A n \in 1 .. Len(s) : q[n + 1] = s[n] /\ s[n] # e /\ n + 1 \in 1 .. Len(q)
      /\ \A n \in 1 .. Len(q) : n # 1 => n - 1 \in 1 .. Len(s) /\ q[n] = s[n - 1]
  BY DEF Members
<1> HIDE DEF q
<1>2. Members(q) = Members(s) \cup {e}
  <2>1. ASSUME NEW v \in Members(s) PROVE v \in Members(q)
    BY <1>1 DEF Members
  <2>2. ASSUME NEW v \in Members(q) PROVE v \in Members(s) \cup {e}
    BY <1>1 DEF Members
  <2>3. e \in Members(q)
    BY <1>1 DEF Members
  <2> QED BY <2>1, <2>2, <2>3
<1>3. Distinct(q)
  <2>1. ASSUME NEW m \in 1 .. Len(q), NEW n \in 1 .. Len(q), q[m] = q[n] PROVE m = n
    <3>1. q[m] = e <=> m = 1
      BY <1>1
    <3>2. q[n] = e <=> n = 1
      BY <1>1
    <3>3. CASE m # 1 /\ n # 1
      <4>1. m - 1 \in 1 .. Len(s) /\ n - 1 \in 1 .. Len(s) /\ s[m - 1] = s[n - 1]
        BY <1>1, <2>1, <3>3
      <4>2. m - 1 = n - 1
        BY <4>1 DEF Distinct
      <4> QED BY <4>2
    <3> QED BY <2>1, <3>1, <3>2, <3>3
  <2> QED BY <2>1 DEF Distinct
<1>4. ASSUME NEW u, NEW v \in InFront(s, u) PROVE v \in InFront(q, u)
  <2>1. PICK m, n \in 1 .. Len(s) : m < n /\ s[m] = v /\ s[n] = u
    BY InFrontMember
  <2>2. /\ m + 1 \in 1 .. Len(q) /\ n + 1 \in 1 .. Len(q) /\ m + 1 < n + 1
        /\ q[m + 1] = v /\ q[n + 1] = u
    BY <1>1, <2>1
  <2> QED BY <2>2, InFrontMember
<1> QED BY <1>2, <1>3, <1>4 DEF q

(* A pool without duplicates is no longer than there are ULTs.             *)
LEMMA PoolLength ==
  ASSUME NEW s \in Seq(Ult), Distinct(s)
  PROVE  Len(s) <= NumThreads + 1
PROOF
<1>1. IsFiniteSet(Ult) /\ Cardinality(Ult) = NumThreads + 1
  <2>1. 0 \in Int /\ NumThreads - 1 \in Int /\ NumThreads \in Nat
    BY SizesAssumption
  <2>2. IsFiniteSet(Worker) /\ Cardinality(Worker) = NumThreads
    BY <2>1, FS_Interval, SizesAssumption DEF Worker
  <2>3. Main \notin Worker
    BY SizesAssumption DEF Main, Worker
  <2> QED BY <2>2, <2>3, FS_AddElement DEF Ult
<1>2. s \in Injection(1 .. Len(s), Ult)
  <2>1. s \in [1 .. Len(s) -> Ult] /\ DOMAIN s = 1 .. Len(s)
    OBVIOUS
  <2> QED BY <2>1 DEF Distinct, Injection, IsInjective
<1>3. Cardinality(1 .. Len(s)) <= Cardinality(Ult)
  BY <1>1, <1>2, FS_Injection
<1>4. Cardinality(1 .. Len(s)) = Len(s)
  <2>1. \A k \in Nat : Cardinality(1 .. k) = k
    <3>1. SUFFICES ASSUME NEW k \in Nat PROVE Cardinality(1 .. k) = k
      OBVIOUS
    <3>2. Cardinality(1 .. k) = IF 1 > k THEN 0 ELSE k - 1 + 1
      BY FS_Interval
    <3> QED BY <3>2
  <2> QED BY <2>1
<1>5. Len(s) \in Nat /\ NumThreads \in Nat
  BY SizesAssumption
<1> QED BY <1>1, <1>3, <1>4, <1>5

-----------------------------------------------------------------------------
(* The scheduler: a ULT that can go on is in the pool of its own stream or  *)
(* runs there, not both, and one that cannot is nowhere.                   *)
UltInv(u) ==
  /\ \A x \in Xstream : u \in Members(pool[x]) => Home(u) = x /\ Live(u) /\ running[x] # u
  /\ \A x \in Xstream : running[x] = u => Home(u) = x /\ Live(u)
  /\ Live(u) => running[Home(u)] = u \/ u \in Members(pool[Home(u)])

OverlapInv(t) ==
  pc[t] = "load" => behind[t] \subseteq (IF running[Home(t)] = t THEN {}
                                         ELSE InFront(pool[Home(t)], t))

SchedInv == /\ \A x \in Xstream : Distinct(pool[x])
            /\ \A u \in Ult : UltInv(u)
            /\ \A t \in Worker : OverlapInv(t)
            /\ mainPc = "blocked" => pc[next] # "done"

LEMMA UltFacts ==
  /\ \A u \in Ult : Home(u) \in Xstream /\ u # Idle
  /\ \A t \in Worker : t \in Ult /\ t # Main
  /\ Main \in Ult /\ Home(Main) = 0 /\ 0 \in Xstream
PROOF
<1>1. \A t \in Worker : t \in Nat /\ t # Main /\ t # Idle
  BY SizesAssumption DEF Worker, Main, Idle
<1>2. \A t \in Worker : Home(t) \in Xstream
  BY <1>1, ModType, SizesAssumption DEF Home, Xstream
<1>3. 0 \in Xstream
  BY SizesAssumption DEF Xstream
<1> QED BY <1>1, <1>2, <1>3 DEF Ult, Home, Main, Idle

LEMMA BlockedNext ==
  ASSUME IInv, mainPc = "blocked"
  PROVE  next \in Worker
  BY SizesAssumption DEF IInv, TypeOK, MainInv, Worker

LEMMA InitSched == Init => SchedInv
PROOF
<1> SUFFICES ASSUME Init PROVE SchedInv
  OBVIOUS
<1>1. \A x \in Xstream : Distinct(pool[x]) /\ Members(pool[x]) = {}
  BY DEF Init, Distinct, Members
<1>2. ASSUME NEW u \in Ult PROVE UltInv(u)
  <2>1. \A x \in Xstream : running[x] = u => x = 0 /\ u = Main
    BY UltFacts DEF Init
  <2>2. Live(u) <=> u = Main
    BY UltFacts DEF Init, Live, Ult
  <2>3. running[0] = Main
    BY UltFacts DEF Init
  <2> QED BY <1>1, <2>1, <2>2, <2>3, UltFacts DEF UltInv
<1>3. ASSUME NEW t \in Worker PROVE OverlapInv(t)
  BY DEF Init, OverlapInv
<1> QED BY <1>1, <1>2, <1>3 DEF Init, SchedInv

(* A step that leaves the scheduler alone.                                 *)
LEMMA StaySched ==
  ASSUME SchedInv, UNCHANGED <<pool, running, behind>>,
         \A u \in Ult : Live(u)' <=> Live(u),
         \A t \in Worker : pc'[t] = "load" => pc[t] = "load",
         mainPc' = "blocked" => pc'[next'] # "done"
  PROVE  SchedInv'
PROOF
<1>1. ASSUME NEW u \in Ult PROVE UltInv(u)'
  BY DEF SchedInv, UltInv
<1>2. ASSUME NEW t \in Worker PROVE OverlapInv(t)'
  BY DEF SchedInv, OverlapInv
<1> QED BY <1>1, <1>2 DEF SchedInv

LEMMA DispatchSched ==
  ASSUME IInv, SchedInv, NEW x \in Xstream, Dispatch(x)
  PROVE  SchedInv'
PROOF
<1> DEFINE s == pool[x]
           h == Head(pool[x])
<1>1. /\ s \in Seq(Ult) /\ s # << >> /\ Distinct(s) /\ running[x] = Idle
      /\ pool \in [Xstream -> Seq(Ult)] /\ running \in [Xstream -> Ult \cup {Idle}]
  BY DEF IInv, TypeOK, SchedInv, Dispatch
<1>2. /\ h \in Members(s) /\ Members(Tail(s)) = Members(s) \ {h}
      /\ Distinct(Tail(s)) /\ InFront(s, h) = {}
      /\ \A u : InFront(Tail(s), u) = InFront(s, u) \ {h}
  BY <1>1, TakeFirst
<1>3. /\ \A y \in Xstream : running'[y] = (IF y = x THEN h ELSE running[y])
      /\ \A y \in Xstream : pool'[y] = (IF y = x THEN Tail(s) ELSE pool[y])
      /\ \A t \in Worker : behind'[t] = behind[t] \ {h}
      /\ UNCHANGED <<mainPc, next, pc>>
  BY <1>1 DEF Dispatch, mainVars
<1>4. h \in Ult /\ Home(h) = x /\ Live(h)
  <2>1. h \in Ult
    BY <1>1
  <2> QED BY <1>2, <2>1 DEF SchedInv, UltInv
<1> HIDE DEF s, h
<1>5. \A y \in Xstream : Members(pool'[y]) = Members(pool[y]) \ (IF y = x THEN {h} ELSE {})
  BY <1>2, <1>3 DEF s
<1>6. ASSUME NEW y \in Xstream PROVE Distinct(pool'[y])
  BY <1>2, <1>3 DEF SchedInv
<1>7. ASSUME NEW u \in Ult PROVE UltInv(u)'
  <2>1. UltInv(u) /\ (Live(u)' <=> Live(u)) /\ u # Idle /\ Home(u) \in Xstream
    BY <1>3, UltFacts DEF SchedInv, Live
  <2>2. CASE u = h
    BY <1>1, <1>3, <1>4, <1>5, <2>1, <2>2 DEF UltInv
  <2>3. CASE u # h
    BY <1>1, <1>3, <1>5, <2>1, <2>3 DEF UltInv
  <2> QED BY <2>2, <2>3
<1>8. ASSUME NEW t \in Worker PROVE OverlapInv(t)'
  <2>0. t \in Ult /\ Home(t) \in Xstream /\ t # Idle
    BY UltFacts
  <2>1. OverlapInv(t) /\ pc'[t] = pc[t] /\ behind'[t] = behind[t] \ {h}
    BY <1>3 DEF SchedInv
  <2>2. CASE Home(t) # x
    BY <1>3, <2>0, <2>1, <2>2 DEF OverlapInv
  <2>3. CASE Home(t) = x /\ t = h
    BY <1>1, <1>2, <1>3, <2>0, <2>1, <2>3 DEF OverlapInv, s
  <2>4. CASE Home(t) = x /\ t # h
    BY <1>1, <1>2, <1>3, <2>0, <2>1, <2>4 DEF OverlapInv, s
  <2> QED BY <2>2, <2>3, <2>4
<1> QED BY <1>3, <1>6, <1>7, <1>8 DEF SchedInv

(* A worker that yields goes behind all that are ready.                    *)
LEMMA YieldSched ==
  ASSUME IInv, SchedInv, NEW t \in Worker, running[Home(t)] = t, Yield(t),
         NEW label \in PcLabel \ {"new", "done"}, Goto(t, label), UNCHANGED mainVars,
         behind' = IF label = "load"
                   THEN [behind EXCEPT ![t] = Members(pool[Home(t)])] ELSE behind
  PROVE  SchedInv'
PROOF
<1> DEFINE x == Home(t)
           s == pool[x]
<1>0. /\ t \in Ult /\ t # Main /\ t # Idle /\ x \in Xstream
      /\ pool \in [Xstream -> Seq(Ult)] /\ running \in [Xstream -> Ult \cup {Idle}]
      /\ pc \in [Worker -> PcLabel] /\ behind \in [Worker -> SUBSET Ult]
  BY UltFacts DEF IInv, TypeOK
<1> HIDE DEF x
<1>1. /\ s \in Seq(Ult) /\ Distinct(s) /\ Live(t) /\ t \notin Members(s)
      /\ running[x] = t
  BY <1>0 DEF SchedInv, UltInv, x
<1>2. /\ Members(Append(s, t)) = Members(s) \cup {t}
      /\ Distinct(Append(s, t))
      /\ InFront(Append(s, t), t) = Members(s)
      /\ \A u : u # t => InFront(Append(s, t), u) = InFront(s, u)
  BY <1>0, <1>1, PutLast
<1>3. /\ \A y \in Xstream : running'[y] = (IF y = x THEN Idle ELSE running[y])
      /\ \A y \in Xstream : pool'[y] = (IF y = x THEN Append(s, t) ELSE pool[y])
      /\ \A u \in Worker : pc'[u] = (IF u = t THEN label ELSE pc[u])
      /\ UNCHANGED <<mainPc, next>>
  BY <1>0 DEF Yield, Goto, mainVars, x
<1>4. /\ \A u \in Worker : u # t => behind'[u] = behind[u]
      /\ label = "load" => behind'[t] = Members(s)
  BY <1>0 DEF x
<1> HIDE DEF s
<1>5. \A y \in Xstream : Members(pool'[y]) = Members(pool[y]) \cup (IF y = x THEN {t} ELSE {})
  BY <1>2, <1>3 DEF s
<1>6. \A u \in Ult : Live(u)' <=> Live(u)
  BY <1>0, <1>1, <1>3 DEF Live, Ult
<1>7. ASSUME NEW y \in Xstream PROVE Distinct(pool'[y])
  BY <1>2, <1>3 DEF SchedInv
<1>8. ASSUME NEW u \in Ult PROVE UltInv(u)'
  <2>1. UltInv(u) /\ u # Idle /\ Home(u) \in Xstream
    BY UltFacts DEF SchedInv
  <2>2. CASE u = t
    BY <1>0, <1>1, <1>3, <1>5, <1>6, <2>1, <2>2 DEF UltInv, x
  <2>3. CASE u # t
    BY <1>1, <1>3, <1>5, <1>6, <2>1, <2>3 DEF UltInv
  <2> QED BY <2>2, <2>3
<1>9. ASSUME NEW u \in Worker PROVE OverlapInv(u)'
  <2>1. OverlapInv(u) /\ u # Idle /\ Home(u) \in Xstream
    BY UltFacts DEF SchedInv
  <2>2. CASE u = t
    BY <1>0, <1>2, <1>3, <1>4, <2>1, <2>2 DEF OverlapInv, x
  <2>3. CASE u # t /\ Home(u) = x
    BY <1>1, <1>2, <1>3, <1>4, <2>1, <2>3 DEF OverlapInv, s
  <2>4. CASE u # t /\ Home(u) # x
    BY <1>3, <1>4, <2>1, <2>4 DEF OverlapInv
  <2> QED BY <2>2, <2>3, <2>4
<1>10. mainPc' = "blocked" => pc'[next'] # "done"
  <2>1. mainPc = "blocked" => next \in Worker
    BY BlockedNext
  <2> QED BY <1>3, <2>1 DEF SchedInv
<1> QED BY <1>7, <1>8, <1>9, <1>10 DEF SchedInv

LEMMA CreateSched ==
  ASSUME IInv, SchedInv, CreateThread
  PROVE  SchedInv'
PROOF
<1> DEFINE x == Home(next)
           s == pool[x]
<1>0. /\ next \in Worker /\ next \in Ult /\ next # Main /\ next # Idle /\ x \in Xstream
      /\ pool \in [Xstream -> Seq(Ult)] /\ running \in [Xstream -> Ult \cup {Idle}]
      /\ pc \in [Worker -> PcLabel] /\ mainPc = "create" /\ pc[next] = "new"
  <2>1. next \in Worker
    BY SizesAssumption DEF IInv, TypeOK, CreateThread, Worker
  <2>2. mainPc = "create" /\ pc[next] = "new"
    BY <2>1, SizesAssumption DEF IInv, MainInv, CreateThread, MainRuns, Worker
  <2> QED BY <2>1, <2>2, UltFacts DEF IInv, TypeOK
<1>1. \A y \in Xstream : next \notin Members(pool[y]) /\ running[y] # next
  BY <1>0 DEF SchedInv, UltInv, Live
<1> HIDE DEF x
<1>2. s \in Seq(Ult) /\ Distinct(s) /\ next \notin Members(s)
  BY <1>0, <1>1 DEF SchedInv
<1>3. /\ Members(Append(s, next)) = Members(s) \cup {next}
      /\ Distinct(Append(s, next))
      /\ \A u : u # next => InFront(Append(s, next), u) = InFront(s, u)
  BY <1>0, <1>2, PutLast
<1>4. /\ \A y \in Xstream : pool'[y] = (IF y = x THEN Append(s, next) ELSE pool[y])
      /\ \A u \in Worker : pc'[u] = (IF u = next THEN "start" ELSE pc[u])
      /\ UNCHANGED <<mainPc, running, behind>>
  BY <1>0 DEF CreateThread, Goto, x
<1> HIDE DEF s
<1>5. \A y \in Xstream :
        Members(pool'[y]) = Members(pool[y]) \cup (IF y = x THEN {next} ELSE {})
  BY <1>3, <1>4 DEF s
<1>6. \A u \in Ult : Live(u)' <=> Live(u) \/ u = next
  BY <1>0, <1>4 DEF Live, Ult
<1>7. ASSUME NEW y \in Xstream PROVE Distinct(pool'[y])
  BY <1>3, <1>4 DEF SchedInv
<1>8. ASSUME NEW u \in Ult PROVE UltInv(u)'
  <2>1. UltInv(u) /\ Home(u) \in Xstream
    BY UltFacts DEF SchedInv
  <2>2. CASE u = next
    BY <1>0, <1>1, <1>4, <1>5, <1>6, <2>1, <2>2 DEF UltInv, x
  <2>3. CASE u # next
    BY <1>4, <1>5, <1>6, <2>1, <2>3 DEF UltInv
  <2> QED BY <2>2, <2>3
<1>9. ASSUME NEW u \in Worker PROVE OverlapInv(u)'
  <2>1. OverlapInv(u) /\ Home(u) \in Xstream
    BY UltFacts DEF SchedInv
  <2>2. CASE u = next
    BY <1>4, <2>2 DEF OverlapInv
  <2>3. CASE u # next
    BY <1>3, <1>4, <2>1, <2>3 DEF OverlapInv, s
  <2> QED BY <2>2, <2>3
<1> QED BY <1>0, <1>4, <1>7, <1>8, <1>9 DEF SchedInv

LEMMA JoinSched ==
  ASSUME IInv, SchedInv, Join
  PROVE  SchedInv'
PROOF
<1>0. /\ running[0] = Main /\ mainPc = "join" /\ next \in Worker
      /\ running \in [Xstream -> Ult \cup {Idle}]
      /\ UNCHANGED <<pool, behind, pc>>
  BY SizesAssumption DEF IInv, TypeOK, Join, MainRuns, Worker
<1>1. CASE pc[next] = "done"
  <2>1. UNCHANGED <<pool, running, behind, pc, mainPc>>
    BY <1>0, <1>1 DEF Join
  <2> QED BY <1>0, <2>1, StaySched DEF Live
<1>2. CASE pc[next] # "done"
  <2>1. /\ mainPc' = "blocked" /\ next' = next
        /\ \A x \in Xstream : running'[x] = (IF x = 0 THEN Idle ELSE running[x])
    BY <1>0, <1>2 DEF Join
  <2>2. \A u \in Ult : Live(u)' <=> Live(u) /\ u # Main
    BY <1>0, <2>1 DEF Live
  <2>3. ASSUME NEW u \in Ult PROVE UltInv(u)'
    <3>1. UltInv(u) /\ u # Idle /\ Home(u) \in Xstream /\ 0 \in Xstream /\ Home(Main) = 0
      BY UltFacts DEF SchedInv
    <3>2. CASE u = Main
      BY <1>0, <2>1, <2>2, <3>1, <3>2 DEF UltInv
    <3>3. CASE u # Main
      BY <1>0, <2>1, <2>2, <3>1, <3>3 DEF UltInv
    <3> QED BY <3>2, <3>3
  <2>4. ASSUME NEW t \in Worker PROVE OverlapInv(t)'
    <3>1. OverlapInv(t) /\ t # Idle /\ t # Main /\ Home(t) \in Xstream
      BY UltFacts DEF SchedInv
    <3> QED BY <1>0, <2>1, <3>1 DEF OverlapInv
  <2> QED BY <1>0, <1>2, <2>1, <2>3, <2>4 DEF SchedInv
<1> QED BY <1>1, <1>2

(* A worker that ends leaves its stream, and wakes the main ULT if it is   *)
(* the one that is waited for.                                             *)
LEMMA FinishSched ==
  ASSUME IInv, SchedInv, NEW t \in Worker, Finish(t)
  PROVE  SchedInv'
PROOF
<1> DEFINE wakes == mainPc = "blocked" /\ next = t
<1>0. /\ t \in Ult /\ t # Main /\ t # Idle /\ Home(t) \in Xstream
      /\ Main \in Ult /\ Home(Main) = 0 /\ 0 \in Xstream
      /\ pool \in [Xstream -> Seq(Ult)] /\ running \in [Xstream -> Ult \cup {Idle}]
      /\ pc \in [Worker -> PcLabel] /\ running[Home(t)] = t
      /\ UNCHANGED <<next, behind>>
  BY UltFacts DEF IInv, TypeOK, Finish, Runs
<1>1. /\ \A y \in Xstream : t \notin Members(pool[y])
      /\ \A y \in Xstream : running'[y] = (IF y = Home(t) THEN Idle ELSE running[y])
      /\ \A u \in Worker : pc'[u] = (IF u = t THEN "done" ELSE pc[u])
  BY <1>0 DEF SchedInv, UltInv, Finish, Goto
<1>2. /\ mainPc' = (IF wakes THEN "join" ELSE mainPc)
      /\ \A y \in Xstream : Distinct(pool'[y])
      /\ \A y \in Xstream : Members(pool'[y]) =
           Members(pool[y]) \cup (IF wakes /\ y = 0 THEN {Main} ELSE {})
      /\ \A y \in Xstream, u \in Worker : InFront(pool[y], u) \subseteq InFront(pool'[y], u)
  <2>1. CASE ~wakes
    <3>1. UNCHANGED <<mainPc, pool>>
      BY <2>1 DEF Finish
    <3> QED BY <2>1, <3>1 DEF SchedInv
  <2>2. CASE wakes
    <3>1. PICK queue \in {Append(pool[0], Main), <<Main>> \o pool[0]} :
                 pool' = [pool EXCEPT ![0] = queue]
      BY <2>2 DEF Finish
    <3>2. Main \notin Members(pool[0]) /\ Distinct(pool[0]) /\ pool[0] \in Seq(Ult)
      BY <1>0, <2>2 DEF SchedInv, UltInv, Live
    <3>3. /\ Members(queue) = Members(pool[0]) \cup {Main} /\ Distinct(queue)
          /\ \A u \in Worker : InFront(pool[0], u) \subseteq InFront(queue, u)
      <4>1. CASE queue = Append(pool[0], Main)
        BY <1>0, <3>2, <4>1, PutLast, UltFacts
      <4>2. CASE queue = <<Main>> \o pool[0]
        BY <1>0, <3>2, <4>2, PutFirst
      <4> QED BY <4>1, <4>2
    <3>4. \A y \in Xstream : pool'[y] = (IF y = 0 THEN queue ELSE pool[y])
      BY <1>0, <3>1
    <3>5. mainPc' = "join"
      BY <2>2 DEF Finish
    <3> QED BY <2>2, <3>3, <3>4, <3>5 DEF SchedInv
  <2> QED BY <2>1, <2>2
<1>3. wakes => running[0] # Main /\ Main \notin Members(pool[0])
  BY <1>0 DEF SchedInv, UltInv, Live
<1> HIDE DEF wakes
<1>4. \A u \in Ult : Live(u)' <=> (Live(u) /\ u # t) \/ (wakes /\ u = Main)
  BY <1>0, <1>1, <1>2 DEF Live, Ult, wakes
<1>5. ASSUME NEW u \in Ult PROVE UltInv(u)'
  <2>1. UltInv(u) /\ u # Idle /\ Home(u) \in Xstream
    BY UltFacts DEF SchedInv
  <2>2. CASE u = t
    BY <1>0, <1>1, <1>2, <1>4, <2>1, <2>2 DEF UltInv
  <2>3. CASE u = Main
    BY <1>0, <1>1, <1>2, <1>3, <1>4, <2>1, <2>3 DEF UltInv
  <2>4. CASE u # t /\ u # Main
    BY <1>0, <1>1, <1>2, <1>4, <2>1, <2>4 DEF UltInv
  <2> QED BY <2>2, <2>3, <2>4
<1>6. ASSUME NEW u \in Worker PROVE OverlapInv(u)'
  <2>1. OverlapInv(u) /\ u # Idle /\ Home(u) \in Xstream
    BY UltFacts DEF SchedInv
  <2>2. CASE u = t
    BY <1>1, <2>2 DEF OverlapInv
  <2>3. CASE u # t
    <3>1. running'[Home(u)] = u <=> running[Home(u)] = u
      BY <1>0, <1>1, <2>1, <2>3
    <3> QED BY <1>0, <1>1, <1>2, <2>1, <2>3, <3>1 DEF OverlapInv
  <2> QED BY <2>2, <2>3
<1>7. mainPc' = "blocked" => pc'[next'] # "done"
  <2>1. mainPc = "blocked" => next \in Worker
    BY BlockedNext
  <2> QED BY <1>0, <1>1, <1>2, <2>1 DEF SchedInv, wakes
<1> QED BY <1>2, <1>5, <1>6, <1>7 DEF SchedInv

LEMMA MainStepSched ==
  ASSUME IInv, SchedInv, MainStep
  PROVE  SchedInv'
PROOF
<1>1. CASE InitFails \/ Split \/ SplitEnd \/ CreateEnd \/ Report
  <2>1. UNCHANGED <<pool, running, behind, pc>> /\ mainPc # "blocked"
    BY <1>1 DEF InitFails, Split, SplitEnd, CreateEnd, Report, MainRuns, ExitWith, schedVars
  <2>2. mainPc' # "blocked"
    BY <1>1 DEF InitFails, Split, SplitEnd, CreateEnd, Report, MainRuns, ExitWith, mainVars
  <2> QED BY <2>1, <2>2, StaySched DEF Live
<1> QED BY <1>1, CreateSched, JoinSched DEF MainStep

LEMMA WorkerStepSched ==
  ASSUME IInv, SchedInv, NEW t \in Worker, WorkerStep(t)
  PROVE  SchedInv'
PROOF
<1> USE DEF Runs
<1>0. pc \in [Worker -> PcLabel] /\ (mainPc = "blocked" => next \in Worker)
  BY BlockedNext DEF IInv, TypeOK
<1>1. CASE \/ StartFails(t) \/ SubmitFails(t) \/ PeekRejects(t) \/ PeekFails(t)
           \/ FinishCrashes(t)
  <2>1. UNCHANGED <<pool, running, behind, pc, mainPc, next>>
    BY <1>1 DEF StartFails, SubmitFails, PeekRejects, PeekFails, FinishCrashes,
                ExitWith, schedVars, mainVars
  <2> QED BY <2>1, StaySched DEF Live, SchedInv
<1>2. CASE Start(t) \/ OpBegin(t) \/ LoadItem(t) \/ EndWithoutIo(t) \/ PeekDone(t)
  <2>1. UNCHANGED <<pool, running, behind, mainPc, next>>
    BY <1>2 DEF Start, OpBegin, LoadItem, EndWithoutIo, PeekDone, schedVars, mainVars
  <2>2. PICK label \in {"op", "chase"} : Goto(t, label)
    BY <1>2 DEF Start, OpBegin, LoadItem, EndWithoutIo, PeekDone, Record
  <2>3. pc[t] \notin {"new", "done"}
    BY <1>2 DEF Start, OpBegin, LoadItem, EndWithoutIo, PeekDone
  <2>4. \A u \in Worker : pc'[u] = (IF u = t THEN label ELSE pc[u])
    BY <1>0, <2>2 DEF Goto
  <2>5. \A u \in Ult : Live(u)' <=> Live(u)
    BY <2>1, <2>3, <2>4 DEF Live, Ult
  <2> QED BY <1>0, <2>1, <2>4, <2>5, StaySched DEF SchedInv
<1>3. CASE PrefetchItem(t)
  BY <1>3, YieldSched DEF PrefetchItem, PcLabel
<1>4. CASE Submit(t)
  BY <1>4, YieldSched DEF Submit, PcLabel
<1>5. CASE PeekNothing(t)
  <2>1. Goto(t, "peek")
    BY <1>0, <1>5 DEF PeekNothing, Goto
  <2> QED BY <1>5, <2>1, YieldSched DEF PeekNothing, PcLabel
<1>6. CASE Finish(t)
  BY <1>6, FinishSched
<1> QED BY <1>1, <1>2, <1>3, <1>4, <1>5, <1>6 DEF WorkerStep

LEMMA NextSched == IInv /\ SchedInv /\ [Next]_vars => SchedInv'
PROOF
<1> SUFFICES ASSUME IInv, SchedInv, [Next]_vars PROVE SchedInv'
  OBVIOUS
<1>1. CASE UNCHANGED vars
  BY <1>1, StaySched DEF vars, mainVars, schedVars, Live, SchedInv
<1>2. CASE \E t \in Worker : Complete(t)
  BY <1>2, StaySched DEF Complete, mainVars, schedVars, Live, SchedInv
<1> QED BY <1>1, <1>2, DispatchSched, MainStepSched, WorkerStepSched
        DEF Next, StreamStep, Terminated

LEMMA SchedulerInvariant == Safety => []SchedInv
  BY InitSched, NextSched, InductiveInvariant, PTL DEF Safety

(* For every number of workers and streams, a ULT that can go on is in one *)
(* place of its own stream, one that cannot is nowhere, and the main ULT   *)
(* does not wait for a worker that has ended (main.c:253-261).             *)
THEOREM EveryUltScheduledOnce == Safety => []ScheduledOnce
PROOF
<1>1. IInv /\ SchedInv => ScheduledOnce
  <2>1. SUFFICES ASSUME IInv, SchedInv, NEW u \in Ult
                 PROVE  IF Live(u) THEN \E n \in 0 .. NumThreads + 1 :
                                          Place(u) = {<<Home(u), n>>}
                        ELSE Place(u) = {}
    BY DEF ScheduledOnce, SchedInv
  <2>2. UltInv(u) /\ Home(u) \in Xstream
    BY <2>1, UltFacts DEF SchedInv
  <2>3. ASSUME NEW x \in Xstream
        PROVE  pool[x] \in Seq(Ult) /\ Distinct(pool[x]) /\ Len(pool[x]) <= NumThreads + 1
    BY <2>1, PoolLength DEF IInv, TypeOK, SchedInv
  <2>4. ASSUME NEW q \in Place(u)
        PROVE  /\ Live(u)
               /\ \/ q = <<Home(u), 0>> /\ running[Home(u)] = u
                  \/ \E n \in 1 .. Len(pool[Home(u)]) :
                       q = <<Home(u), n>> /\ pool[Home(u)][n] = u /\ running[Home(u)] # u
    <3>1. CASE q \in {<<x, 0>> : x \in {y \in Xstream : running[y] = u}}
      BY <2>2, <3>1 DEF UltInv
    <3>2. CASE q \in {p \in Xstream \X (1 .. NumThreads + 1) :
                        p[2] <= Len(pool[p[1]]) /\ pool[p[1]][p[2]] = u}
      <4>1. PICK x \in Xstream, n \in 1 .. NumThreads + 1 : q = <<x, n>>
        BY <3>2
      <4>2. n \in 1 .. Len(pool[x]) /\ pool[x][n] = u
        BY <2>3, <3>2, <4>1
      <4>3. u \in Members(pool[x])
        BY <4>2 DEF Members
      <4> QED BY <2>2, <4>1, <4>2, <4>3 DEF UltInv
    <3> QED BY <3>1, <3>2 DEF Place
  <2>5. CASE ~Live(u)
    BY <2>4, <2>5
  <2>6. CASE running[Home(u)] = u
    <3>1. <<Home(u), 0>> \in Place(u)
      BY <2>2, <2>6 DEF Place
    <3>2. Place(u) = {<<Home(u), 0>>} /\ Live(u)
      BY <2>4, <2>6, <3>1
    <3>3. 0 \in 0 .. NumThreads + 1
      BY SizesAssumption
    <3> QED BY <3>2, <3>3
  <2>7. CASE Live(u) /\ running[Home(u)] # u
    <3>1. PICK n \in 1 .. Len(pool[Home(u)]) : pool[Home(u)][n] = u
      BY <2>2, <2>7 DEF UltInv, Members
    <3>2. n \in 1 .. NumThreads + 1 /\ n <= Len(pool[Home(u)]) /\ n \in 0 .. NumThreads + 1
      BY <2>2, <2>3, SizesAssumption
    <3>3. <<Home(u), n>> \in Place(u)
      BY <2>2, <3>1, <3>2 DEF Place
    <3>4. \A q \in Place(u) : q = <<Home(u), n>>
      BY <2>2, <2>3, <2>4, <2>7, <3>1 DEF Distinct
    <3> QED BY <2>7, <3>2, <3>3, <3>4
  <2> QED BY <2>5, <2>6, <2>7
<1> QED BY <1>1, InductiveInvariant, SchedulerInvariant, PTL

(* Whatever the other ULTs do, all that were ready when a worker           *)
(* prefetched have run when it loads (main.c:66-72).                       *)
THEOREM PrefetchesOverlap == Safety => []PrefetchOverlapped
PROOF
<1>1. SchedInv => PrefetchOverlapped
  BY DEF SchedInv, OverlapInv, PrefetchOverlapped, Runs
<1> QED BY <1>1, SchedulerInvariant, PTL
=============================================================================
