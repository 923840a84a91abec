-------------------------- MODULE RocksdbSweepProofs --------------------------
(***************************************************************************)
(* Proofs about RocksdbSweep, for all lists of cores, threads and          *)
(* latencies, all rates, and any number of failures and starts.            *)
(*                                                                         *)
(* The argument: the number of cores on its way from the loop through the  *)
(* header into db_bench is that of the loop, or lost, unless the last      *)
(* build failed; the jobs in front of the loops' position have been        *)
(* measured by the sweep that is going on, or skipped in it; and no two    *)
(* jobs have the same key in the parser's dictionary.                      *)
(***************************************************************************)
EXTENDS RocksdbSweep, TLAPS

(* The number of cores on its way into the program.                        *)
CoresInv ==
  /\ pc = "write" => data \in {Lost, Cores}
  /\ pc = "build" => env \in {Lost, Cores}
  /\ pc \in {"bench", "running"} /\ compiled => built = Cores
  /\ MeasuredAsNamed

IInv == TypeOK /\ CoresInv

-----------------------------------------------------------------------------
LEMMA ListFacts ==
  /\ NumCoresList \in Seq(Nat) /\ Len(NumCoresList) > 0
  /\ ThreadsPerCoreList \in Seq(Nat) /\ Len(ThreadsPerCoreList) > 0
  /\ MixThreadsList \in Seq(Nat) /\ Len(MixThreadsList) > 0
  /\ LatencyList \in Seq(Nat) /\ Len(LatencyList) > 0
  BY ListsAssumption

LEMMA FirstEntries ==
  1 \in 1 .. Len(NumCoresList) /\ 1 \in 1 .. Len(ThreadsPerCoreList) /\ 0 \in 0 .. Len(LatencyList)
  BY ListFacts

LEMMA CoreFacts ==
  /\ \A i \in 1 .. Len(NumCoresList) : NumCoresList[i] \in Elements(NumCoresList)
  /\ Elements(NumCoresList) \subseteq Nat \ {0}
  /\ MixCores \in Elements(NumCoresList)
<1>1. \A i \in 1 .. Len(NumCoresList) :
         NumCoresList[i] \in Elements(NumCoresList) /\ NumCoresList[i] \in Nat
  BY ListFacts DEF Elements
<1>2. \A c \in Elements(NumCoresList) : \E i \in 1 .. Len(NumCoresList) : c = NumCoresList[i]
  BY DEF Elements
<1>3. 0 \notin Elements(NumCoresList) /\ MixCores \in Elements(NumCoresList)
  BY ListsAssumption
<1>4. QED
  BY <1>1, <1>2, <1>3

(* The loops stay inside their lists, and a step of theirs keeps the       *)
(* number of cores, or builds.                                             *)
LEMMA AdvanceStep ==
  ASSUME LoopsOK, Advance
  PROVE  LoopsOK' /\ pc' \in {"bench", "patch", "done"} /\ (pc' = "bench" => Cores' = Cores)
<1>1. CASE NextLatency
  BY <1>1, ListFacts DEF NextLatency, LoopsOK, Cores, ThreadsList
<1>2. CASE NextThreads
  BY <1>2, ListFacts DEF NextThreads, LoopsOK, Cores, ThreadsList
<1>3. CASE NextCores
  BY <1>3, ListFacts DEF NextCores, LoopsOK, Cores, ThreadsList
<1>4. CASE BeginMix
  BY <1>4, ListFacts DEF BeginMix, LoopsOK, Cores, ThreadsList
<1>5. CASE EndSweep
  BY <1>5, ListFacts DEF EndSweep, LoopsOK, Cores, ThreadsList
<1>6. QED
  BY <1>1, <1>2, <1>3, <1>4, <1>5 DEF Advance

LEMMA CoresListed ==
  ASSUME TypeOK
  PROVE  Cores \in Elements(NumCoresList)
  BY ListFacts, CoreFacts DEF TypeOK, LoopsOK, Cores

LEMMA CurrentCores == CurrentJob.cores = Cores
  BY DEF CurrentJob, Job

-----------------------------------------------------------------------------
(* The job of the loops at entries c, t and l of their lists.              *)
ReadJob(c, t, l) ==
  IF l = 0
  THEN Job("readrandom", NumCoresList[c], ThreadsPerCoreList[t] * NumCoresList[c], "dram", 0)
  ELSE Job("readrandom", NumCoresList[c], ThreadsPerCoreList[t] * NumCoresList[c], "cxl", LatencyList[l])

MixJob(t, l) ==
  IF l = 0
  THEN Job("readrandomwriterandom", MixCores, MixThreadsList[t], "dram", 0)
  ELSE Job("readrandomwriterandom", MixCores, MixThreadsList[t], "cxl", LatencyList[l])

LEMMA JobIsAt ==
  CurrentJob = IF mix THEN MixJob(thr, lat) ELSE ReadJob(core, thr, lat)
  BY DEF CurrentJob, MixJob, ReadJob, Cores, Threads

LEMMA MemoryListed ==
  /\ <<"dram", 0>> \in Memories
  /\ \A l \in 0 .. Len(LatencyList) : l # 0 => <<"cxl", LatencyList[l]>> \in Memories
<1>1. \A l \in 0 .. Len(LatencyList) : l # 0 => LatencyList[l] \in Elements(LatencyList)
  BY ListFacts DEF Elements
<1>2. QED
  BY <1>1 DEF Memories

(* The jobs are those of the loops.                                        *)
LEMMA ReadJobListed ==
  ASSUME NEW c \in 1 .. Len(NumCoresList), NEW t \in 1 .. Len(ThreadsPerCoreList),
         NEW l \in 0 .. Len(LatencyList)
  PROVE  ReadJob(c, t, l) \in Jobs
<1>1. NumCoresList[c] \in Elements(NumCoresList)
  BY DEF Elements
<1>2. ThreadsPerCoreList[t] \in Elements(ThreadsPerCoreList)
  BY DEF Elements
<1>3. \A m \in Memories :
         Job("readrandom", NumCoresList[c], ThreadsPerCoreList[t] * NumCoresList[c], m[1], m[2]) \in Jobs
  BY <1>1, <1>2 DEF Jobs
<1>4. QED
  BY <1>3, MemoryListed DEF ReadJob

LEMMA MixJobListed ==
  ASSUME NEW t \in 1 .. Len(MixThreadsList), NEW l \in 0 .. Len(LatencyList)
  PROVE  MixJob(t, l) \in Jobs
<1>1. MixThreadsList[t] \in Elements(MixThreadsList)
  BY DEF Elements
<1>2. \A m \in Memories :
         Job("readrandomwriterandom", MixCores, MixThreadsList[t], m[1], m[2]) \in Jobs
  BY <1>1 DEF Jobs
<1>3. QED
  BY <1>2, MemoryListed DEF MixJob

LEMMA JobReached ==
  ASSUME NEW j \in Jobs
  PROVE  \/ \E c \in 1 .. Len(NumCoresList), t \in 1 .. Len(ThreadsPerCoreList),
              l \in 0 .. Len(LatencyList) : j = ReadJob(c, t, l)
         \/ \E t \in 1 .. Len(MixThreadsList), l \in 0 .. Len(LatencyList) : j = MixJob(t, l)
<1>1. ASSUME NEW m \in Memories
      PROVE  \E l \in 0 .. Len(LatencyList) :
               m = IF l = 0 THEN <<"dram", 0>> ELSE <<"cxl", LatencyList[l]>>
  <2>1. CASE m = <<"dram", 0>>
    BY <2>1, FirstEntries
  <2>2. ASSUME m # <<"dram", 0>>
        PROVE  \E l \in 1 .. Len(LatencyList) : m = <<"cxl", LatencyList[l]>>
    BY <2>2 DEF Memories, Elements
  <2>3. QED
    BY <2>1, <2>2, ListFacts
<1>2. ASSUME NEW c \in Elements(NumCoresList), NEW t \in Elements(ThreadsPerCoreList),
             NEW m \in Memories, j = Job("readrandom", c, t * c, m[1], m[2])
      PROVE  \E x \in 1 .. Len(NumCoresList), y \in 1 .. Len(ThreadsPerCoreList),
               l \in 0 .. Len(LatencyList) : j = ReadJob(x, y, l)
  <2>1. PICK x \in 1 .. Len(NumCoresList) : c = NumCoresList[x]
    BY DEF Elements
  <2>2. PICK y \in 1 .. Len(ThreadsPerCoreList) : t = ThreadsPerCoreList[y]
    BY DEF Elements
  <2>3. PICK l \in 0 .. Len(LatencyList) :
               m = IF l = 0 THEN <<"dram", 0>> ELSE <<"cxl", LatencyList[l]>>
    BY <1>1
  <2>4. j = ReadJob(x, y, l)
    BY <1>2, <2>1, <2>2, <2>3 DEF ReadJob
  <2>5. QED
    BY <2>4
<1>3. ASSUME NEW t \in Elements(MixThreadsList), NEW m \in Memories,
             j = Job("readrandomwriterandom", MixCores, t, m[1], m[2])
      PROVE  \E y \in 1 .. Len(MixThreadsList), l \in 0 .. Len(LatencyList) : j = MixJob(y, l)
  <2>1. PICK y \in 1 .. Len(MixThreadsList) : t = MixThreadsList[y]
    BY DEF Elements
  <2>2. PICK l \in 0 .. Len(LatencyList) :
               m = IF l = 0 THEN <<"dram", 0>> ELSE <<"cxl", LatencyList[l]>>
    BY <1>1
  <2>3. j = MixJob(y, l)
    BY <1>3, <2>1, <2>2 DEF MixJob
  <2>4. QED
    BY <2>3
<1>4. QED
  BY <1>2, <1>3 DEF Jobs

LEMMA CurrentListed ==
  ASSUME LoopsOK
  PROVE  CurrentJob \in Jobs
<1>1. CASE mix
  BY <1>1, JobIsAt, MixJobListed DEF LoopsOK, ThreadsList
<1>2. CASE ~mix
  BY <1>2, JobIsAt, ReadJobListed DEF LoopsOK, ThreadsList
<1>3. QED
  BY <1>1, <1>2

-----------------------------------------------------------------------------
(* The figures on the screen and on disk are of no type of interest; the   *)
(* rest has the types of TypeOK.                                           *)
LEMMA InitInv == Init => IInv
<1> SUFFICES ASSUME Init PROVE IInv
  OBVIOUS
<1>1. LoopsOK
  <2>1. ThreadsList = ThreadsPerCoreList
    BY DEF Init, ThreadsList
  <2>2. QED
    BY <2>1, FirstEntries DEF Init, LoopsOK
<1>2. TreeOK
  <2>1. NoLog \in [state : {"none", "directory", "empty", "full"},
                   by : {NoProgram} \cup Elements(NumCoresList), compiled : BOOLEAN,
                   sweep : 0 .. MaxStarts]
    BY BoundsAssumption DEF NoLog
  <2>2. QED
    BY <2>1 DEF Init, TreeOK
<1>3. NumCoresList[1] \in Elements(NumCoresList)
  BY ListFacts, CoreFacts
<1>4. TypeOK
  BY <1>1, <1>2, <1>3, BoundsAssumption DEF Init, TypeOK
<1>5. CoresInv
  BY DEF Init, CoresInv, MeasuredAsNamed, NoLog
<1>6. QED
  BY <1>4, <1>5 DEF IInv

(* A log that is begun is from the program there is.                       *)
LEMMA LogBegun ==
  ASSUME TypeOK, tree' = [tree EXCEPT ![CurrentJob] = NewLog]
  PROVE  /\ TreeOK'
         /\ \A j \in Jobs : \/ tree'[j] = tree[j]
                           \/ /\ j = CurrentJob /\ tree'[j].by = built
                              /\ tree'[j].compiled = compiled
<1>1. /\ starts \in 0 .. MaxStarts /\ compiled \in BOOLEAN
      /\ built \in {NoProgram} \cup Elements(NumCoresList)
  BY DEF TypeOK
<1>2. NewLog \in [state : {"none", "directory", "empty", "full"},
                  by : {NoProgram} \cup Elements(NumCoresList), compiled : BOOLEAN,
                  sweep : 0 .. MaxStarts]
  BY <1>1 DEF NewLog
<1>3. QED
  BY <1>2 DEF TypeOK, TreeOK, NewLog

(* Later on the state of a log may change, but not where it is from.       *)
LEMMA LogKept ==
  ASSUME TypeOK,
         NEW s \in {"none", "directory", "empty", "full"},
         tree' = [tree EXCEPT ![CurrentJob].state = s]
  PROVE  /\ TreeOK'
         /\ \A j \in Jobs : tree'[j].by = tree[j].by /\ tree'[j].compiled = tree[j].compiled
  BY DEF TypeOK, TreeOK

LEMMA NextInv == IInv /\ [Next]_vars => IInv'
<1> SUFFICES ASSUME IInv, [Next]_vars PROVE IInv'
  OBVIOUS
<1> USE DEF IInv
<1>a. Cores \in Elements(NumCoresList) /\ CurrentJob.cores = Cores
  BY CoresListed, CurrentCores
<1>1. CASE Truncate
  <2>1. LoopsOK' /\ TreeOK' /\ Cores' = Cores
    BY <1>1 DEF Truncate, TypeOK, LoopsOK, TreeOK, ThreadsList, Cores, programVars, treeVars
  <2>2. TypeOK'
    BY <1>1, <1>a, <2>1 DEF Truncate, TypeOK, programVars, treeVars
  <2>3. CoresInv'
    BY <1>1, <1>a, <2>1 DEF Truncate, CoresInv, MeasuredAsNamed, treeVars
  <2>4. QED
    BY <2>2, <2>3
<1>2. CASE Write
  <2>1. LoopsOK' /\ TreeOK' /\ Cores' = Cores
    BY <1>2 DEF Write, TypeOK, LoopsOK, TreeOK, ThreadsList, Cores, treeVars
  <2>2. TypeOK'
    BY <1>2, <2>1 DEF Write, TypeOK, programVars, treeVars
  <2>3. CoresInv'
    BY <1>2, <2>1 DEF Write, CoresInv, MeasuredAsNamed, treeVars
  <2>4. QED
    BY <2>2, <2>3
<1>3. CASE Build
  <2>1. LoopsOK' /\ TreeOK' /\ Cores' = Cores
    BY <1>3 DEF Build, TypeOK, LoopsOK, TreeOK, ThreadsList, Cores, treeVars
  <2>2. TypeOK'
    BY <1>3, <2>1 DEF Build, TypeOK, Fails, NoProgram, Lost, treeVars
  <2>3. compiled' => env # Lost /\ built' = env
    BY <1>3 DEF Build
  <2>4. CoresInv'
    BY <1>3, <2>1, <2>3 DEF Build, CoresInv, MeasuredAsNamed, treeVars
  <2>5. QED
    BY <2>2, <2>4
<1>4. CASE Launch
  <2>1. CASE /\ pc' = "running"
             /\ tree' = [tree EXCEPT ![CurrentJob] = NewLog]
             /\ UNCHANGED <<mix, core, thr, lat, skipped, faults>>
    <3>1. LoopsOK' /\ Cores' = Cores
      BY <2>1 DEF TypeOK, LoopsOK, ThreadsList, Cores
    <3>2. TypeOK'
      BY <1>4, <2>1, <3>1, LogBegun DEF Launch, TypeOK, programVars
    <3>3. CoresInv'
      BY <1>4, <1>a, <2>1, <3>1, LogBegun DEF Launch, CoresInv, MeasuredAsNamed, programVars
    <3>4. QED
      BY <3>2, <3>3
  <2>2. CASE /\ Fails("no log") /\ skipped' = skipped \cup {CurrentJob}
             /\ tree' = [tree EXCEPT ![CurrentJob].state =
                           IF @ = "none" THEN "directory" ELSE @]
             /\ Advance
    <3>1. LoopsOK' /\ pc' \in {"bench", "patch", "done"} /\ (pc' = "bench" => Cores' = Cores)
      BY <2>2, AdvanceStep DEF TypeOK
    <3>2. /\ TreeOK'
          /\ \A j \in Jobs : tree'[j].by = tree[j].by /\ tree'[j].compiled = tree[j].compiled
      BY <2>2 DEF TypeOK, TreeOK
    <3>3. CurrentJob \in Jobs
      BY CurrentListed DEF TypeOK
    <3>4. TypeOK'
      BY <1>4, <2>2, <3>1, <3>2, <3>3 DEF Launch, TypeOK, Fails, programVars
    <3>6. CoresInv'
      BY <1>4, <2>2, <3>1, <3>2 DEF Launch, CoresInv, MeasuredAsNamed, programVars
    <3>5. QED
      BY <3>4, <3>6
  <2>3. QED
    BY <1>4, <2>1, <2>2 DEF Launch
<1>5. CASE Finish
  <2>1. /\ Advance /\ pc = "running"
        /\ \/ tree' = [tree EXCEPT ![CurrentJob].state = "full"]
           \/ UNCHANGED tree
        /\ faults' \in {faults, faults \cup {"no figures"}}
        /\ UNCHANGED <<starts, data, env, built, compiled, skipped>>
    BY <1>5 DEF Finish, Fails, programVars
  <2>2. LoopsOK' /\ pc' \in {"bench", "patch", "done"} /\ (pc' = "bench" => Cores' = Cores)
    BY <2>1, AdvanceStep DEF TypeOK
  <2>3. /\ TreeOK'
        /\ \A j \in Jobs : tree'[j].by = tree[j].by /\ tree'[j].compiled = tree[j].compiled
    BY <2>1, LogKept DEF TypeOK, TreeOK
  <2>4. TypeOK'
    BY <2>1, <2>2, <2>3 DEF TypeOK
  <2>5. CoresInv'
    BY <2>1, <2>2, <2>3 DEF CoresInv, MeasuredAsNamed
  <2>6. QED
    BY <2>4, <2>5
<1>6. CASE Interrupt
  <2>1. LoopsOK' /\ TreeOK'
    <3>1. ThreadsList' = ThreadsPerCoreList
      BY <1>6 DEF Interrupt, ThreadsList
    <3>2. LoopsOK'
      BY <1>6, <3>1, FirstEntries DEF Interrupt, LoopsOK
    <3>3. QED
      BY <1>6, <3>2 DEF Interrupt, TypeOK, TreeOK, treeVars
  <2>2. TypeOK'
    BY <1>6, <2>1 DEF Interrupt, TypeOK, NoProgram, Lost, treeVars
  <2>3. CoresInv'
    BY <1>6 DEF Interrupt, CoresInv, MeasuredAsNamed, treeVars
  <2>4. QED
    BY <2>2, <2>3
<1>7. CASE Start
  <2>1. LoopsOK' /\ TreeOK'
    <3>1. ThreadsList' = ThreadsPerCoreList
      BY <1>7 DEF Start, ThreadsList
    <3>2. LoopsOK'
      BY <1>7, <3>1, FirstEntries DEF Start, LoopsOK
    <3>3. QED
      BY <1>7, <3>2 DEF Start, TypeOK, TreeOK
  <2>2. starts' \in 0 .. MaxStarts
    <3>1. starts \in 0 .. MaxStarts
      BY DEF TypeOK
    <3>2. starts < MaxStarts /\ starts' = starts + 1
      BY <1>7 DEF Start
    <3>3. QED
      BY <3>1, <3>2, BoundsAssumption
  <2>3. TypeOK'
    BY <1>7, <2>1, <2>2 DEF Start, TypeOK, programVars
  <2>4. CoresInv'
    BY <1>7 DEF Start, CoresInv, MeasuredAsNamed
  <2>5. QED
    BY <2>3, <2>4
<1>8. CASE Notebook \/ UNCHANGED vars
  <2>1. UNCHANGED <<pc, mix, core, thr, lat, starts, data, env, built, compiled,
                    tree, skipped, faults>>
    BY <1>8 DEF Notebook, vars, loopVars, programVars, treeVars
  <2>2. LoopsOK' /\ TreeOK' /\ Cores' = Cores
    BY <2>1 DEF TypeOK, LoopsOK, TreeOK, ThreadsList, Cores
  <2>3. QED
    BY <2>1, <2>2 DEF TypeOK, CoresInv, MeasuredAsNamed
<1>9. QED
  BY <1>1, <1>2, <1>3, <1>4, <1>5, <1>6, <1>7, <1>8 DEF Next

(* The loops never leave their lists, and header, program and logs name    *)
(* no number of cores outside NUM_CORES_LIST (batch.py:66-87).             *)
THEOREM TypeCorrect == Spec => []TypeOK
<1>1. IInv => TypeOK
  BY DEF IInv
<1>2. QED
  BY <1>1, InitInv, NextInv, PTL DEF Spec

(* Every log that was begun after a build that went through is from a      *)
(* program for the number of cores in its name (batch.py:17-30, 72-83).    *)
THEOREM NamesHold == Spec => []MeasuredAsNamed
<1>1. IInv => MeasuredAsNamed
  BY DEF IInv, CoresInv
<1>2. QED
  BY <1>1, InitInv, NextInv, PTL DEF Spec

-----------------------------------------------------------------------------
(* The loops are past these entries.                                       *)
ReadPassed(c, t, l) ==
  \/ pc = "done" \/ mix \/ c < core
  \/ c = core /\ t < thr
  \/ c = core /\ t = thr /\ l < lat

MixPassed(t, l) ==
  \/ pc = "done"
  \/ mix /\ t < thr
  \/ mix /\ t = thr /\ l < lat

(* The current sweep has made the log of j anew, or skipped it.            *)
Fresh(j) ==
  \/ j \in skipped
  \/ tree[j].state \in {"empty", "full"} /\ tree[j].sweep = starts

FreshInv ==
  /\ \A c \in 1 .. Len(NumCoresList), t \in 1 .. Len(ThreadsPerCoreList),
        l \in 0 .. Len(LatencyList) :
       pc # "off" /\ ReadPassed(c, t, l) => Fresh(ReadJob(c, t, l))
  /\ \A t \in 1 .. Len(MixThreadsList), l \in 0 .. Len(LatencyList) :
       pc # "off" /\ MixPassed(t, l) => Fresh(MixJob(t, l))
  /\ pc = "running" => Fresh(CurrentJob)

-----------------------------------------------------------------------------
(* A step of the loops passes the current job and no other.                *)
LEMMA AdvancePasses ==
  ASSUME LoopsOK, Advance, pc # "done"
  PROVE  /\ \A c \in 1 .. Len(NumCoresList), t \in 1 .. Len(ThreadsPerCoreList),
              l \in 0 .. Len(LatencyList) :
              ReadPassed(c, t, l)' =>
                \/ ReadPassed(c, t, l)
                \/ ~mix /\ c = core /\ t = thr /\ l = lat
         /\ \A t \in 1 .. Len(MixThreadsList), l \in 0 .. Len(LatencyList) :
              MixPassed(t, l)' =>
                \/ MixPassed(t, l)
                \/ mix /\ t = thr /\ l = lat
<1> USE ListFacts DEF ReadPassed, MixPassed, LoopsOK, ThreadsList
<1>1. CASE NextLatency
  BY <1>1 DEF NextLatency
<1>2. CASE NextThreads
  BY <1>2 DEF NextThreads
<1>3. CASE NextCores
  BY <1>3 DEF NextCores
<1>4. CASE BeginMix
  BY <1>4 DEF BeginMix
<1>5. CASE EndSweep
  BY <1>5 DEF EndSweep
<1>6. QED
  BY <1>1, <1>2, <1>3, <1>4, <1>5 DEF Advance

(* What is fresh stays so while the loops go on, if the current job is     *)
(* then.                                                                   *)
LEMMA AdvanceFresh ==
  ASSUME LoopsOK, Advance, pc # "done", pc # "off", FreshInv,
         \A j \in Jobs : Fresh(j) \/ j = CurrentJob => Fresh(j)'
  PROVE  FreshInv'
<1>1. ASSUME NEW c \in 1 .. Len(NumCoresList), NEW t \in 1 .. Len(ThreadsPerCoreList),
             NEW l \in 0 .. Len(LatencyList), ReadPassed(c, t, l)'
      PROVE  Fresh(ReadJob(c, t, l))'
  <2>1. ReadPassed(c, t, l) => Fresh(ReadJob(c, t, l))
    BY DEF FreshInv
  <2>2. ~mix /\ c = core /\ t = thr /\ l = lat => ReadJob(c, t, l) = CurrentJob
    BY JobIsAt
  <2>3. Fresh(ReadJob(c, t, l)) \/ ReadJob(c, t, l) = CurrentJob
    BY <1>1, <2>1, <2>2, AdvancePasses
  <2>4. ReadJob(c, t, l) \in Jobs
    BY ReadJobListed
  <2>5. QED
    BY <2>3, <2>4
<1>2. ASSUME NEW t \in 1 .. Len(MixThreadsList), NEW l \in 0 .. Len(LatencyList),
             MixPassed(t, l)'
      PROVE  Fresh(MixJob(t, l))'
  <2>1. MixPassed(t, l) => Fresh(MixJob(t, l))
    BY DEF FreshInv
  <2>2. mix /\ t = thr /\ l = lat => MixJob(t, l) = CurrentJob
    BY JobIsAt
  <2>3. Fresh(MixJob(t, l)) \/ MixJob(t, l) = CurrentJob
    BY <1>2, <2>1, <2>2, AdvancePasses
  <2>4. QED
    BY <2>3, MixJobListed
<1>3. pc' # "running"
  BY AdvanceStep
<1>4. QED
  BY <1>1, <1>2, <1>3 DEF FreshInv

LEMMA FreshNext ==
  ASSUME TypeOK, FreshInv, [Next]_vars
  PROVE  FreshInv'
<1>1. CASE Truncate \/ Write \/ Build
  <2>1. /\ pc \in {"patch", "write", "build"} /\ pc' \in {"write", "build", "bench"}
        /\ UNCHANGED <<mix, core, thr, lat, starts, tree, skipped>>
    BY <1>1 DEF Truncate, Write, Build, treeVars
  <2>2. QED
    BY <2>1 DEF FreshInv, ReadPassed, MixPassed, Fresh
<1>2. CASE Launch
  <2>1. CASE /\ pc' = "running"
             /\ tree' = [tree EXCEPT ![CurrentJob] = NewLog]
             /\ UNCHANGED <<mix, core, thr, lat, skipped, faults>>
    <3>1. pc = "bench" /\ UNCHANGED <<mix, core, thr, lat, starts, skipped>>
      BY <1>2, <2>1 DEF Launch
    <3>2. CurrentJob \in Jobs /\ CurrentJob' = CurrentJob
      BY <3>1, CurrentListed DEF TypeOK, CurrentJob, Cores, Threads
    <3>3. Fresh(CurrentJob)' /\ \A j \in Jobs : Fresh(j) => Fresh(j)'
      BY <2>1, <3>1, <3>2 DEF Fresh, TypeOK, TreeOK, NewLog
    <3>4. QED
      BY <2>1, <3>1, <3>3, ReadJobListed, MixJobListed DEF FreshInv, ReadPassed, MixPassed
  <2>2. CASE /\ Fails("no log") /\ skipped' = skipped \cup {CurrentJob}
             /\ tree' = [tree EXCEPT ![CurrentJob].state =
                           IF @ = "none" THEN "directory" ELSE @]
             /\ Advance
    <3>1. pc = "bench" /\ starts' = starts
      BY <1>2 DEF Launch
    <3>2. \A j \in Jobs : tree'[j].state \in {tree[j].state, "directory"}
                         /\ (tree[j].state # "none" => tree'[j].state = tree[j].state)
                         /\ tree'[j].sweep = tree[j].sweep
      BY <2>2 DEF TypeOK, TreeOK
    <3>3. \A j \in Jobs : Fresh(j) \/ j = CurrentJob => Fresh(j)'
      BY <2>2, <3>1, <3>2 DEF Fresh
    <3>4. QED
      BY <2>2, <3>1, <3>3, AdvanceFresh DEF TypeOK
  <2>3. QED
    BY <1>2, <2>1, <2>2 DEF Launch
<1>3. CASE Finish
  <2>1. /\ Advance /\ pc = "running"
        /\ \/ tree' = [tree EXCEPT ![CurrentJob].state = "full"]
           \/ UNCHANGED tree
        /\ UNCHANGED <<starts, skipped>>
    BY <1>3 DEF Finish
  <2>2. \A j \in Jobs : Fresh(j) => Fresh(j)'
    <3>1. CASE tree' = [tree EXCEPT ![CurrentJob].state = "full"]
      <4>1. \A j \in Jobs : /\ tree'[j].state \in {tree[j].state, "full"}
                           /\ tree'[j].sweep = tree[j].sweep
        BY <3>1 DEF TypeOK, TreeOK
      <4>2. QED
        BY <2>1, <4>1 DEF Fresh
    <3>2. CASE UNCHANGED tree
      BY <2>1, <3>2 DEF Fresh
    <3>3. QED
      BY <2>1, <3>1, <3>2
  <2>3. \A j \in Jobs : Fresh(j) \/ j = CurrentJob => Fresh(j)'
    BY <2>1, <2>2 DEF FreshInv
  <2>4. QED
    BY <2>1, <2>3, AdvanceFresh DEF TypeOK
<1>4. CASE Interrupt
  BY <1>4 DEF Interrupt, FreshInv
<1>5. CASE Start
  <2>1. pc' = "patch" /\ mix' = FALSE /\ core' = 1 /\ thr' = 1 /\ lat' = 0
    BY <1>5 DEF Start
  <2>2. \A c \in 1 .. Len(NumCoresList), t \in 1 .. Len(ThreadsPerCoreList),
           l \in 0 .. Len(LatencyList) : ~ReadPassed(c, t, l)'
    BY <2>1, ListFacts DEF ReadPassed
  <2>3. \A t \in 1 .. Len(MixThreadsList), l \in 0 .. Len(LatencyList) : ~MixPassed(t, l)'
    BY <2>1 DEF MixPassed
  <2>4. QED
    BY <2>1, <2>2, <2>3 DEF FreshInv
<1>6. CASE Notebook \/ UNCHANGED vars
  <2>1. UNCHANGED <<pc, mix, core, thr, lat, starts, tree, skipped>>
    BY <1>6 DEF Notebook, vars, loopVars, treeVars
  <2>2. CurrentJob' = CurrentJob
    BY <2>1 DEF CurrentJob, Cores, Threads
  <2>3. QED
    BY <2>1, <2>2 DEF FreshInv, ReadPassed, MixPassed, Fresh
<1>7. QED
  BY <1>1, <1>2, <1>3, <1>4, <1>5, <1>6 DEF Next

(* A sweep at its end has made every log anew, but for the jobs the shell  *)
(* did not start in it (batch.py:61-63, 71-87).                            *)
THEOREM LogsFresh == Spec => []NoStaleLogs
<1>1. Init => FreshInv
  BY DEF Init, FreshInv
<1>2. TypeOK /\ FreshInv /\ [Next]_vars => FreshInv'
  BY FreshNext
<1>3. FreshInv => NoStaleLogs
  <2> SUFFICES ASSUME FreshInv, pc = "done", NEW j \in Jobs
               PROVE  Fresh(j)
    BY DEF NoStaleLogs, Fresh
  <2>1. \A c \in 1 .. Len(NumCoresList), t \in 1 .. Len(ThreadsPerCoreList),
           l \in 0 .. Len(LatencyList) : Fresh(ReadJob(c, t, l))
    BY DEF FreshInv, ReadPassed
  <2>2. \A t \in 1 .. Len(MixThreadsList), l \in 0 .. Len(LatencyList) : Fresh(MixJob(t, l))
    BY DEF FreshInv, MixPassed
  <2>3. QED
    BY <2>1, <2>2, JobReached
<1>4. QED
  BY <1>1, <1>2, <1>3, TypeCorrect, PTL DEF Spec

-----------------------------------------------------------------------------
(* A job is its fields, and its memory and latency are of the lists.       *)
LEMMA JobFacts ==
  ASSUME NEW j \in Jobs
  PROVE  /\ j = Job(j.test, j.cores, j.threads, j.memory, j.latency)
         /\ \/ j.memory = "dram" /\ j.latency = 0
            \/ j.memory = "cxl" /\ j.latency \in Elements(LatencyList)
<1>1. PICK t, c, n : \E m \in Memories : j = Job(t, c, n, m[1], m[2])
  BY DEF Jobs
<1>2. PICK m \in Memories : j = Job(t, c, n, m[1], m[2])
  BY <1>1
<1>3. /\ j.test = t /\ j.cores = c /\ j.threads = n
      /\ j.memory = m[1] /\ j.latency = m[2]
  BY <1>2 DEF Job
<1>4. m = <<"dram", 0>> \/ \E l \in Elements(LatencyList) : m = <<"cxl", l>>
  BY DEF Memories
<1>5. \/ m[1] = "dram" /\ m[2] = 0
      \/ m[1] = "cxl" /\ m[2] \in Elements(LatencyList)
  BY <1>4
<1>6. QED
  BY <1>2, <1>3, <1>5

(* What is shown of a job's latency tells its memory and its setting.      *)
LEMMA LatencyShown ==
  ASSUME NEW j \in Jobs, NEW l \in Elements(NotebookLatencies)
  PROVE  ShownLatency(j) = l <=> <<j.memory, j.latency>> = Setting(l)
<1>1. /\ Renamed # 0 /\ Renamed \notin Elements(LatencyList)
      /\ l = 0 \/ l = Renamed \/ l \in Elements(LatencyList) \ {0}
  BY ListsAssumption
<1>2. CASE j.memory = "dram" /\ j.latency = 0
  BY <1>1, <1>2 DEF ShownLatency, Setting
<1>3. CASE j.memory = "cxl" /\ j.latency \in Elements(LatencyList)
  BY <1>1, <1>3 DEF ShownLatency, Setting
<1>4. QED
  BY <1>2, <1>3, JobFacts

(* The notebook has every latency that is shown.                           *)
LEMMA ShownListed ==
  ASSUME NEW j \in Jobs
  PROVE  ShownLatency(j) \in Elements(NotebookLatencies)
  BY JobFacts, ListsAssumption DEF ShownLatency

(* No two jobs have the same key.                                          *)
LEMMA KeysDiffer ==
  ASSUME NEW i \in Jobs, NEW j \in Jobs, Key(i) = Key(j)
  PROVE  i = j
<1>1. /\ i.test = j.test /\ i.cores = j.cores /\ i.threads = j.threads
      /\ ShownLatency(i) = ShownLatency(j)
  BY DEF Key
<1>2. <<i.memory, i.latency>> = <<j.memory, j.latency>>
  BY <1>1, ShownListed, LatencyShown
<1>3. i.memory = j.memory /\ i.latency = j.latency
  BY <1>2
<1>4. QED
  BY <1>1, <1>3, JobFacts

(* The parser keeps the throughput of every directory.                     *)
LEMMA StatsAre ==
  /\ DOMAIN Stats = {Key(j) : j \in Directories}
  /\ \A j \in Directories : Stats[Key(j)] = Throughput(j)
<1>1. DOMAIN Stats = {Key(j) : j \in Directories}
  BY DEF Stats
<1>2. ASSUME NEW j \in Directories
      PROVE  Stats[Key(j)] = Throughput(j)
  <2>1. Stats[Key(j)] = Throughput(CHOOSE i \in Directories : Key(i) = Key(j))
    BY DEF Stats
  <2>2. \A i \in Directories : Key(i) = Key(j) => i = j
    BY KeysDiffer DEF Directories
  <2>3. (CHOOSE i \in Directories : Key(i) = Key(j)) = j
    BY <2>2
  <2>4. QED
    BY <2>1, <2>3
<1>3. QED
  BY <1>1, <1>2

(* A bar is the best rate: what has no figures adds only zeros.            *)
LEMMA BarIsBest ==
  ASSUME MeasuredAsNamed, NEW test, NEW cores,
         NEW l \in Elements(NotebookLatencies), Trusted(test, cores, l)
  PROVE  MaxThroughput(Stats, test, cores, l) = Best(test, cores, l)
<1> DEFINE logs == Logs(test, cores, l)
           A == {Stats[k] : k \in {k \in DOMAIN Stats :
                                     k[1] = test /\ k[2] = cores /\ k[3] = l}}
           B == {Rate(j, cores) : j \in logs}
<1> USE DEF Logs
<1>1. ASSUME NEW j \in logs
      PROVE  tree[j].by = j.cores
  BY <1>1 DEF MeasuredAsNamed, Trusted
<1>2. ASSUME NEW x \in A PROVE x \in {0} \cup B
  <2>1. PICK j \in Directories : /\ x = Stats[Key(j)]
                                 /\ Key(j)[1] = test /\ Key(j)[2] = cores /\ Key(j)[3] = l
    BY StatsAre
  <2>2. j \in Jobs /\ j.test = test /\ j.cores = cores /\ ShownLatency(j) = l
    BY <2>1 DEF Directories, Key
  <2>3. x = Throughput(j)
    BY <2>1, StatsAre
  <2>4. CASE tree[j].state = "full"
    <3>1. j \in logs
      BY <2>2, <2>4, LatencyShown
    <3>2. x = Rate(j, cores)
      BY <1>1, <2>2, <2>3, <2>4, <3>1 DEF Throughput
    <3>3. QED
      BY <3>1, <3>2
  <2>5. CASE tree[j].state # "full"
    BY <2>3, <2>5 DEF Throughput
  <2>6. QED
    BY <2>4, <2>5
<1>3. ASSUME NEW x \in B PROVE x \in A
  <2>1. PICK j \in logs : x = Rate(j, cores)
    OBVIOUS
  <2>2. j \in Directories /\ j \in Jobs
    BY <2>1 DEF Directories
  <2>3. Key(j)[1] = test /\ Key(j)[2] = cores /\ Key(j)[3] = l
    BY <2>1, LatencyShown DEF Key
  <2>4. Stats[Key(j)] = x /\ Key(j) \in DOMAIN Stats
    BY <1>1, <2>1, <2>2, StatsAre DEF Throughput
  <2>5. QED
    BY <2>3, <2>4
<1>4. {0} \cup A = {0} \cup B
  BY <1>2, <1>3
<1>5. MaxThroughput(Stats, test, cores, l) = Max({0} \cup A)
  BY DEF MaxThroughput
<1>6. Best(test, cores, l) = Max({0} \cup B)
  BY DEF Best
<1>7. QED
  BY <1>4, <1>5, <1>6

(* What the notebooks show when the first is run.                          *)
LEMMA FiguresStep ==
  ASSUME MeasuredAsNamed, Notebook
  PROVE  /\ \A n \in DOMAIN shown', l \in Elements(NotebookLatencies) :
              \A c \in 1 .. Len(Figures[n].cores) :
                Trusted(Figures[n].test, Figures[n].cores[c], l) =>
                  shown'[n][l][c] = Best(Figures[n].test, Figures[n].cores[c], l)
         /\ json' # json =>
              \A p \in Elements(Multicore') :
                Trusted("readrandom", p[1], CxlLatency) =>
                  p[2] = Best("readrandom", p[1], CxlLatency)
<1>1. shown' = [n \in Drawn(Stats) |-> Bars(Stats, Figures[n])]
  BY DEF Notebook
<1>2. ASSUME NEW n \in DOMAIN shown', NEW l \in Elements(NotebookLatencies),
             NEW c \in 1 .. Len(Figures[n].cores),
             Trusted(Figures[n].test, Figures[n].cores[c], l)
      PROVE  shown'[n][l][c] = Best(Figures[n].test, Figures[n].cores[c], l)
  <2>1. shown'[n] = Bars(Stats, Figures[n])
    BY <1>1
  <2>2. shown'[n][l][c] = MaxThroughput(Stats, Figures[n].test, Figures[n].cores[c], l)
    BY <2>1 DEF Bars
  <2>3. QED
    BY <1>2, <2>2, BarIsBest
<1>3. ASSUME json' # json, NEW p \in Elements(Multicore'),
             Trusted("readrandom", p[1], CxlLatency)
      PROVE  p[2] = Best("readrandom", p[1], CxlLatency)
  <2>1. 2 \in DOMAIN shown' /\ json' = shown'[2]
    BY <1>3 DEF Notebook
  <2>2. Figures[2].test = "readrandom" /\ Figures[2].cores = NumCoresList
    BY DEF Figures
  <2>3. PICK c \in 1 .. Len(NumCoresList) : p = <<NumCoresList[c], json'[CxlLatency][c]>>
    <3>1. Multicore' = [c \in 1 .. Len(NumCoresList) |-> <<NumCoresList[c], json'[CxlLatency][c]>>]
      BY DEF Multicore
    <3>2. Len(Multicore') = Len(NumCoresList)
      <4>1. PICK N \in Nat : N = Len(NumCoresList)
        BY ListFacts
      <4>2. DOMAIN (Multicore') = 1 .. N
        BY <3>1, <4>1
      <4>3. QED
        BY <3>1, <4>1, <4>2
    <3>3. QED
      BY <3>1, <3>2 DEF Elements
  <2>4. json'[CxlLatency][c] = Best("readrandom", NumCoresList[c], CxlLatency)
    <3>1. CxlLatency \in Elements(NotebookLatencies)
      BY ListsAssumption
    <3>2. Trusted("readrandom", NumCoresList[c], CxlLatency)
      BY <1>3, <2>3
    <3>3. c \in 1 .. Len(Figures[2].cores)
      BY <2>2
    <3>4. shown'[2][CxlLatency][c] = Best(Figures[2].test, Figures[2].cores[c], CxlLatency)
      BY <1>2, <2>1, <2>2, <3>1, <3>2, <3>3
    <3>5. QED
      BY <2>1, <2>2, <3>4
  <2>5. QED
    BY <2>3, <2>4
<1>4. QED
  BY <1>2, <1>3

(* Every bar that is drawn and every point of the second notebook is the   *)
(* best rate of its number of cores and its latency, unless one of its own *)
(* logs is from after a build that failed, for all lists                   *)
(* (rocksdb_parser.py:36-69, 93-98, rocksdb.ipynb:56-123, multicore.ipynb: *)
(* 50-53).                                                                 *)
THEOREM BarsAreRight == Spec => FiguresRight
<1>1. ASSUME MeasuredAsNamed, [Next]_vars
      PROVE  [/\ shown' # shown =>
                   \A n \in DOMAIN shown', l \in Elements(NotebookLatencies) :
                     LET f == Figures[n]
                     IN  \A c \in 1 .. Len(f.cores) :
                           Trusted(f.test, f.cores[c], l) =>
                             shown'[n][l][c] = Best(f.test, f.cores[c], l)
              /\ json' # json =>
                   \A p \in Elements(Multicore') :
                     Trusted("readrandom", p[1], CxlLatency) =>
                       p[2] = Best("readrandom", p[1], CxlLatency)
             ]_vars
  <2>1. CASE Notebook
    BY <1>1, <2>1, FiguresStep
  <2>2. CASE ~Notebook
    <3>1. shown' = shown /\ json' = json
      BY <1>1, <2>2 DEF Next, vars, shownVars, Truncate, Write, Build, Launch, Finish,
                        Interrupt, Start
    <3>2. QED
      BY <3>1
  <2>3. QED
    BY <2>1, <2>2
<1>2. QED
  BY <1>1, NamesHold, PTL DEF Spec, FiguresRight
=============================================================================
