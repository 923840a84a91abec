-------------------------- MODULE AerospikeSweepProofs --------------------------
(***************************************************************************)
(* Proofs about AerospikeSweep, for every number of servers, all lists of  *)
(* latencies and client threads, and any number of failures.               *)
(*                                                                         *)
(* The argument: in a log the steps of the sweep ascend, and within one    *)
(* step the client threads do (OrderInv), so that no step has more than    *)
(* one drop.  The analyzer therefore moves on at most as often as the      *)
(* sweep had (MovesBound).  With no failure but one that leaves no trace,  *)
(* every step that has been begun has a drop as well (DropsInv), because   *)
(* what the step before ended with is above the first two numbers of       *)
(* client threads (TailInv).  Then the analyzer moves on exactly as often  *)
(* as the sweep had (MovesExact), every workload is filed under the        *)
(* latency of its step (FiledMild), and the tables follow.                 *)
(***************************************************************************)
EXTENDS AerospikeSweep, FunctionTheorems, FiniteSetTheorems, TLAPS

Steps == Len(Latencies)
Clients == Len(ClientThreads)

Section == [threads : Nat, read : BOOLEAN, cut : BOOLEAN,
            server : Nat, at : Nat, step : Nat]

Failures == {"silent", "cut", "missing", "no load", "trigger", "governor"}
Scripts == {"start", "defrag", "latency", "sweep"}
Ends == {"done", "no match", "IndexError", "UnboundLocalError"}

TypeInv ==
  /\ pc \in Scripts \cup {"analyse"} \cup Ends
  /\ rounds \in Nat /\ lat \in 0 .. Steps /\ client \in 0 .. Clients
  /\ device \in Nat
  /\ log \in Seq(Section) /\ logs \in Seq(Seq(Section))
  /\ toRead \in SUBSET (1 .. NumServers) /\ curLatency \in Int
  /\ faults \in Seq(Failures)

(* Where the scripts are, and when they are over.                          *)
FlowInv ==
  /\ IF pc \in Scripts THEN Len(logs) < NumServers ELSE Len(logs) = NumServers
  /\ pc \in Scripts => filed = {}
  /\ pc \in {"start", "analyse"} \cup Ends => log = << >>
  /\ pc \in {"start", "defrag"} => lat = 0
  /\ pc = "latency" /\ lat # 0 => client = Clients
  /\ pc = "sweep" => lat # 0
  /\ pc = "done" => toRead = {}

(* The log of one server: the steps ascend, and within a step the threads. *)
OrderedLog(l, f) ==
  /\ \A j \in 1 .. Len(l) :
       /\ l[j].server = f /\ l[j].step <= Steps
       /\ l[j].read => l[j].step # 0
       /\ l[j].step # 0 => \E c \in 1 .. Clients : l[j].threads = ClientThreads[c]
  /\ \A i, j \in 1 .. Len(l) : i < j =>
       /\ l[i].step <= l[j].step
       /\ l[i].step = l[j].step /\ l[j].step # 0 => l[i].threads < l[j].threads

OrderInv ==
  /\ OrderedLog(log, Len(logs) + 1)
  /\ \A j \in 1 .. Len(log) :
       /\ log[j].step <= lat
       /\ log[j].step = lat /\ lat # 0 =>
            client # 0 /\ log[j].threads <= ClientThreads[client]
  /\ \A f \in 1 .. Len(logs) : OrderedLog(logs[f], f)

(* What is filed is a measured workload of a log, under the latency the    *)
(* analyzer was at.                                                        *)
FiledInv ==
  \A r \in filed : \E f \in 1 .. Len(logs) : \E j \in 1 .. Len(logs[f]) :
    /\ r.workload = logs[f][j] /\ logs[f][j].read
    /\ Moves(logs[f], j) = 0 \/ r.latency = Latencies[Moves(logs[f], j)]

(* No failure, or one that FiguresAsMeasured speaks of.                    *)
Mild(fs) == fs \in {<< >>, <<"missing">>, <<"trigger">>}

(* Every step up to that of a section has a drop in front of it or there,  *)
(* and every section of a step was measured.                               *)
DropsLog(l) ==
  \A j \in 1 .. Len(l) :
    /\ l[j].step # 0 => l[j].read
    /\ \A t \in 1 .. l[j].step : \E d \in 1 .. j : d \in Drops(l) /\ l[d].step = t

DropsInv ==
  /\ DropsLog(log)
  /\ \A f \in 1 .. Len(logs) :
       DropsLog(logs[f]) /\ logs[f] # << >> /\ logs[f][Len(logs[f])].step = Steps

(* What a log ends with while it is written.                               *)
EndsWith(last) ==
  \/ lat = 0 /\ last.step = lat /\ last.threads = LoadThreads
  \/ /\ lat # 0 /\ last.step = lat /\ client # 0
     /\ last.threads = ClientThreads[client]
  \/ /\ lat # 0 /\ last.step = lat /\ client > 1 /\ faults = <<"missing">>
     /\ last.threads = ClientThreads[client - 1]
  \/ /\ lat # 0 /\ last.step = lat - 1 /\ client = 0
     /\ last.threads > ClientThreads[1]
     /\ faults # <<"missing">> => last.threads > ClientThreads[2]
  \/ /\ lat # 0 /\ last.step = lat - 1 /\ client = 1
     /\ faults = <<"missing">> /\ last.threads > ClientThreads[2]

TailInv ==
  /\ pc \in {"defrag", "latency", "sweep"} => log # << >>
  /\ log # << >> => EndsWith(log[Len(log)])

Wrong(w) == w.step # 0 /\ w.at # Latencies[w.step]
Place(w) == <<w.server, w.step>>

(* Every section measured at a wrong latency is of server and step m; no   *)
(* server has the number 0.                                                *)
WrongAt(m) ==
  /\ \A f \in 1 .. Len(logs) : \A j \in 1 .. Len(logs[f]) :
       Wrong(logs[f][j]) => Place(logs[f][j]) = m
  /\ \A j \in 1 .. Len(log) : Wrong(log[j]) => Place(log[j]) = m
  /\ pc = "sweep" /\ device # Latencies[lat] => m = <<Len(logs) + 1, lat>>
  /\ faults # <<"trigger">> => m = <<0, 0>>

TriggerInv == \E m \in Nat \X Nat : WrongAt(m)

(* The measured workloads of the logs that have been read are filed, each  *)
(* under the latency of its step.                                          *)
FiledMild ==
  pc \in {"analyse", "done"} =>
    \A r : r \in filed <=>
      \E f \in (1 .. NumServers) \ toRead : \E j \in Measured(logs[f]) :
        r = [workload |-> logs[f][j], latency |-> Latencies[logs[f][j].step]]

MildInv == Mild(faults) => DropsInv /\ TailInv /\ TriggerInv /\ FiledMild

Inv == TypeInv /\ FlowInv /\ OrderInv /\ FiledInv /\ EnoughLatencies

LEMMA ListFacts ==
  /\ Steps \in Nat \ {0} /\ Clients \in Nat /\ Clients > 2
  /\ \A t \in 1 .. Steps : Latencies[t] \in Nat
  /\ \A c \in 1 .. Clients : ClientThreads[c] \in Nat \ {0}
  /\ \A a, b \in 1 .. Clients : a < b => ClientThreads[a] < ClientThreads[b]
  /\ LoadThreads \in Nat /\ LoadThreads > ClientThreads[2]
  /\ NumServers \in Nat \ {0}
BY ListsAssumption DEF Steps, Clients

(* A sequence with an element appended, by its places.                     *)
LEMMA Appended ==
  ASSUME NEW S, NEW l \in Seq(S), NEW w \in S
  PROVE  /\ Append(l, w) \in Seq(S) /\ Len(l) \in Nat
         /\ Len(Append(l, w)) = Len(l) + 1
         /\ Append(l, w) # << >>
         /\ \A j \in 1 .. Len(l) : Append(l, w)[j] = l[j]
         /\ Append(l, w)[Len(l) + 1] = w
         /\ \A j \in 1 .. Len(Append(l, w)) : j \in 1 .. Len(l) \/ j = Len(l) + 1
<1>1. Append(l, w) \in Seq(S) /\ Len(l) \in Nat /\ Len(Append(l, w)) = Len(l) + 1
  OBVIOUS
<1>2. Append(l, w) # << >>
  BY <1>1
<1>3. /\ \A j \in 1 .. Len(l) : Append(l, w)[j] = l[j]
      /\ Append(l, w)[Len(l) + 1] = w
  OBVIOUS
<1>4. \A j \in 1 .. Len(Append(l, w)) : j \in 1 .. Len(l) \/ j = Len(l) + 1
  BY <1>1
<1>5. QED
  BY <1>1, <1>2, <1>3, <1>4

LEMMA Fields ==
  ASSUME NEW l \in Seq(Section), NEW j \in 1 .. Len(l)
  PROVE  /\ l[j] \in Section
         /\ l[j].threads \in Nat /\ l[j].step \in Nat /\ l[j].server \in Nat
         /\ l[j].at \in Nat /\ l[j].read \in BOOLEAN
<1>1. l[j] \in Section
  OBVIOUS
<1>2. QED
  BY <1>1 DEF Section

(* What a workload appends, if anything.                                   *)
LEMMA WorkloadIs ==
  ASSUME TypeInv, NEW n \in Nat, NEW r \in BOOLEAN, NEW c \in BOOLEAN
  PROVE  /\ Workload(n, r, c) \in Section
         /\ Workload(n, r, c).threads = n /\ Workload(n, r, c).read = r
         /\ Workload(n, r, c).server = Len(logs) + 1
         /\ Workload(n, r, c).at = device /\ Workload(n, r, c).step = lat
<1>1. Len(logs) + 1 \in Nat /\ device \in Nat /\ lat \in Nat
  BY DEF TypeInv
<1>2. QED
  BY <1>1 DEF Workload, Section

LEMMA GenerateIs ==
  ASSUME TypeInv, NEW n \in Nat, NEW m \in BOOLEAN, Generate(n, m)
  PROVE  /\ faults' \in Seq(Failures)
         /\ \/ log' = log
            \/ \E r, c \in BOOLEAN : (r => m) /\ log' = Append(log, Workload(n, r, c))
<1>1. faults \in Seq(Failures)
  BY DEF TypeInv
<1>2. \A x \in Failures : Append(faults, x) \in Seq(Failures)
  BY <1>1, Appended
<1>3. faults' \in Seq(Failures)
  <2>1. CASE UNCHANGED faults
    BY <1>1, <2>1
  <2>2. CASE \E x \in Failures : faults' = Append(faults, x)
    BY <1>2, <2>2
  <2>3. (UNCHANGED faults) \/ \E x \in Failures : faults' = Append(faults, x)
    <3>1. /\ "silent" \in Failures /\ "cut" \in Failures
          /\ (IF m THEN "missing" ELSE "no load") \in Failures
      BY Zenon DEF Failures
    <3>2. QED
      BY <3>1, Zenon DEF Generate
  <2>4. QED
    BY <2>1, <2>2, <2>3
<1>4. log' = log \/ \E r, c \in BOOLEAN : (r => m) /\ log' = Append(log, Workload(n, r, c))
  BY Zenon DEF Generate
<1>5. QED
  BY <1>3, <1>4

(* A section behind those of earlier steps and of fewer client threads     *)
(* keeps a log in order.                                                   *)
LEMMA AppendOrdered ==
  ASSUME NEW l \in Seq(Section), NEW f \in Nat, OrderedLog(l, f),
         NEW w \in Section, w.server = f, w.step <= Steps, w.read => w.step # 0,
         w.step # 0 => \E c \in 1 .. Clients : w.threads = ClientThreads[c],
         \A j \in 1 .. Len(l) :
           /\ l[j].step <= w.step
           /\ l[j].step = w.step /\ w.step # 0 => l[j].threads < w.threads
  PROVE  OrderedLog(Append(l, w), f)
<1> DEFINE k == Append(l, w)
<1>1. /\ Len(l) \in Nat /\ Len(k) = Len(l) + 1
      /\ \A j \in 1 .. Len(l) : k[j] = l[j]
      /\ k[Len(l) + 1] = w
      /\ \A j \in 1 .. Len(k) : j \in 1 .. Len(l) \/ j = Len(l) + 1
  BY Appended
<1> HIDE DEF k
<1>2. ASSUME NEW j \in 1 .. Len(k)
      PROVE  /\ k[j].server = f /\ k[j].step <= Steps
             /\ k[j].read => k[j].step # 0
             /\ k[j].step # 0 => \E c \in 1 .. Clients : k[j].threads = ClientThreads[c]
  <2>1. CASE j \in 1 .. Len(l)
    <3>1. k[j] = l[j]
      BY <1>1, <2>1
    <3>2. QED
      BY <2>1, <3>1, Zenon DEF OrderedLog
  <2>2. CASE j = Len(l) + 1
    <3>1. k[j] = w
      BY <1>1, <2>2
    <3>2. QED
      BY <3>1, Zenon
  <2>3. QED
    BY <1>1, <2>1, <2>2
<1>3. ASSUME NEW i \in 1 .. Len(k), NEW j \in 1 .. Len(k), i < j
      PROVE  /\ k[i].step <= k[j].step
             /\ k[i].step = k[j].step /\ k[j].step # 0 => k[i].threads < k[j].threads
  <2>1. i \in 1 .. Len(l) /\ k[i] = l[i]
    BY <1>1, <1>3
  <2>2. CASE j \in 1 .. Len(l)
    <3>1. k[j] = l[j]
      BY <1>1, <2>2
    <3>2. QED
      BY <1>3, <2>1, <2>2, <3>1, Zenon DEF OrderedLog
  <2>3. CASE j = Len(l) + 1
    <3>1. k[j] = w
      BY <1>1, <2>3
    <3>2. QED
      BY <2>1, <3>1, Zenon
  <2>4. QED
    BY <1>1, <2>2, <2>3
<1>4. QED
  BY <1>2, <1>3 DEF OrderedLog, k

-----------------------------------------------------------------------------
LEMMA InitInv == Init => Inv
<1> SUFFICES ASSUME Init PROVE Inv
  OBVIOUS
<1>1. TypeInv
  <2>1. << >> \in Seq(Section) /\ << >> \in Seq(Seq(Section)) /\ << >> \in Seq(Failures)
    OBVIOUS
  <2>2. QED
    BY <2>1, ListFacts DEF Init, TypeInv, Scripts, Unset
<1>2. FlowInv
  BY ListFacts DEF Init, FlowInv, Scripts, Ends
<1>3. OrderInv
  BY DEF Init, OrderInv, OrderedLog
<1>4. FiledInv
  BY DEF Init, FiledInv
<1>5. EnoughLatencies
  BY DEF Init, EnoughLatencies
<1>6. QED
  BY <1>1, <1>2, <1>3, <1>4, <1>5 DEF Inv

(* A run of the load generator keeps the log in order.                     *)
LEMMA GenerateOrdered ==
  ASSUME Inv, NEW n \in Nat, NEW m \in BOOLEAN, Generate(n, m),
         m => lat # 0, UNCHANGED <<lat, logs>>, client' \in 0 .. Clients,
         IF lat = 0 THEN TRUE
         ELSE client' = client + 1 /\ n = ClientThreads[client']
  PROVE  OrderInv' /\ log' \in Seq(Section)
<1>1. /\ lat \in 0 .. Steps /\ client \in 0 .. Clients /\ log \in Seq(Section)
      /\ logs \in Seq(Seq(Section))
  BY DEF Inv, TypeInv
<1>2. \A f \in 1 .. Len(logs') : OrderedLog(logs'[f], f)
  BY DEF Inv, OrderInv
<1>3. lat # 0 => /\ client' \in 1 .. Clients /\ client' # 0
                 /\ \A j \in 1 .. Len(log) :
                      log[j].step = lat => log[j].threads < ClientThreads[client']
  <2>1. SUFFICES ASSUME lat # 0
                 PROVE  /\ client' \in 1 .. Clients /\ client' # 0
                        /\ \A j \in 1 .. Len(log) :
                             log[j].step = lat => log[j].threads < ClientThreads[client']
    OBVIOUS
  <2>2. client' \in 1 .. Clients /\ client' # 0
    BY <1>1, <2>1
  <2>3. ASSUME NEW j \in 1 .. Len(log), log[j].step = lat
        PROVE  log[j].threads < ClientThreads[client']
    <3>1. client # 0 /\ log[j].threads <= ClientThreads[client]
      BY <2>1, <2>3 DEF Inv, OrderInv
    <3>2. client \in 1 .. Clients /\ client < client'
      BY <1>1, <2>1, <3>1
    <3>3. ClientThreads[client] < ClientThreads[client']
      BY <2>2, <3>2, ListFacts
    <3>4. /\ log[j].threads \in Nat /\ ClientThreads[client] \in Nat
          /\ ClientThreads[client'] \in Nat
      BY <1>1, <2>2, <3>2, Fields, ListFacts
    <3>5. QED
      BY <3>1, <3>3, <3>4
  <2>4. QED
    BY <2>2, <2>3
<1>4. CASE log' = log
  <2>1. ASSUME NEW j \in 1 .. Len(log')
        PROVE  /\ log'[j].step <= lat'
               /\ log'[j].step = lat' /\ lat' # 0 =>
                    client' # 0 /\ log'[j].threads <= ClientThreads[client']
    <3>1. log[j].step <= lat
      BY <1>4, <2>1 DEF Inv, OrderInv
    <3>2. ASSUME lat # 0, log[j].step = lat
          PROVE  client' # 0 /\ log[j].threads <= ClientThreads[client']
      <4>1. client' # 0 /\ log[j].threads < ClientThreads[client'] /\ client' \in 1 .. Clients
        BY <1>3, <1>4, <2>1, <3>2
      <4>2. log[j].threads \in Nat /\ ClientThreads[client'] \in Nat
        BY <1>1, <1>4, <2>1, <4>1, Fields, ListFacts
      <4>3. QED
        BY <4>1, <4>2
    <3>3. QED
      BY <1>4, <3>1, <3>2
  <2>2. OrderedLog(log', Len(logs') + 1)
    BY <1>4 DEF Inv, OrderInv
  <2>3. QED
    BY <1>1, <1>2, <1>4, <2>1, <2>2 DEF OrderInv
<1>5. CASE \E r, c \in BOOLEAN : (r => m) /\ log' = Append(log, Workload(n, r, c))
  <2>1. PICK r \in BOOLEAN, c \in BOOLEAN : (r => m) /\ log' = Append(log, Workload(n, r, c))
    BY <1>5
  <2>2. PICK w : w = Workload(n, r, c)
    OBVIOUS
  <2>3. /\ w \in Section /\ w.threads = n /\ w.read = r
        /\ w.server = Len(logs) + 1 /\ w.step = lat
    BY <2>2, WorkloadIs DEF Inv
  <2>4. \A j \in 1 .. Len(log) :
           /\ log[j].step <= w.step
           /\ log[j].step = w.step /\ w.step # 0 => log[j].threads < w.threads
    <3>1. \A j \in 1 .. Len(log) : log[j].step <= lat
      BY DEF Inv, OrderInv
    <3>2. QED
      BY <1>3, <2>3, <3>1
  <2>5. OrderedLog(log', Len(logs) + 1)
    <3>1. OrderedLog(log, Len(logs) + 1) /\ Len(logs) + 1 \in Nat
      BY <1>1 DEF Inv, OrderInv
    <3>2. w.step <= Steps /\ (w.read => w.step # 0)
      BY <1>1, <2>1, <2>3
    <3>3. w.step # 0 => \E b \in 1 .. Clients : w.threads = ClientThreads[b]
      BY <1>3, <2>3
    <3>4. QED
      BY <1>1, <2>1, <2>2, <2>3, <2>4, <3>1, <3>2, <3>3, AppendOrdered
  <2>6. ASSUME NEW j \in 1 .. Len(log')
        PROVE  /\ log'[j].step <= lat'
               /\ log'[j].step = lat' /\ lat' # 0 =>
                    client' # 0 /\ log'[j].threads <= ClientThreads[client']
    <3>1. CASE j \in 1 .. Len(log)
      <4>1. log'[j] = log[j]
        BY <1>1, <2>1, <2>2, <2>3, <3>1, Appended
      <4>2. log[j].step <= lat
        BY <3>1 DEF Inv, OrderInv
      <4>3. ASSUME lat # 0, log[j].step = lat
            PROVE  client' # 0 /\ log[j].threads <= ClientThreads[client']
        <5>1. client' # 0 /\ log[j].threads < ClientThreads[client'] /\ client' \in 1 .. Clients
          BY <1>3, <3>1, <4>3
        <5>2. log[j].threads \in Nat /\ ClientThreads[client'] \in Nat
          BY <1>1, <3>1, <5>1, Fields, ListFacts
        <5>3. QED
          BY <5>1, <5>2
      <4>4. QED
        BY <4>1, <4>2, <4>3
    <3>2. CASE j = Len(log) + 1
      <4>1. log'[j] = w
        BY <1>1, <2>1, <2>2, <2>3, <3>2, Appended
      <4>2. lat # 0 => ClientThreads[client'] \in Nat
        BY <1>3, ListFacts
      <4>3. QED
        BY <1>1, <1>3, <2>3, <4>1, <4>2
    <3>3. QED
      BY <1>1, <2>1, <2>2, <2>3, <3>1, <3>2, Appended
  <2>7. log' \in Seq(Section)
    BY <1>1, <2>1, <2>2, <2>3, Appended
  <2>8. QED
    BY <1>2, <2>5, <2>6, <2>7 DEF OrderInv
<1>6. QED
  BY <1>4, <1>5, GenerateIs DEF Inv

-----------------------------------------------------------------------------
LEMMA DropIs ==
  ASSUME NEW l \in Seq(Section), NEW j \in 1 .. Len(l)
  PROVE  j \in Drops(l) <=> l[j].read /\ Before(l, j) > l[j].threads
BY DEF Drops

(* Of two drops of a log, the later is in a later step.                    *)
LEMMA OneDrop ==
  ASSUME NEW l \in Seq(Section), NEW f, OrderedLog(l, f),
         NEW d \in Drops(l), NEW e \in Drops(l), d < e
  PROVE  l[d].step < l[e].step
<1>1. d \in 1 .. Len(l) /\ e \in 1 .. Len(l) /\ l[e].read /\ Before(l, e) > l[e].threads
  BY DEF Drops
<1>2. e - 1 \in 1 .. Len(l) /\ e - 1 < e /\ e # 1 /\ (d = e - 1 \/ d < e - 1)
  BY <1>1
<1>3. l[e - 1].threads > l[e].threads
  BY <1>1, <1>2 DEF Before
<1>4. l[d].step <= l[e - 1].step
  <2>1. CASE d = e - 1
    BY <1>1, <2>1, Fields
  <2>2. CASE d < e - 1
    BY <1>1, <1>2, <2>2, Zenon DEF OrderedLog
  <2>3. QED
    BY <1>2, <2>1, <2>2
<1>5. l[e].step # 0 /\ l[e - 1].step <= l[e].step
  BY <1>1, <1>2, Zenon DEF OrderedLog
<1>6. l[e - 1].step = l[e].step => l[e - 1].threads < l[e].threads
  BY <1>1, <1>2, <1>5, Zenon DEF OrderedLog
<1>7. /\ l[d].step \in Nat /\ l[e].step \in Nat /\ l[e - 1].step \in Nat
      /\ l[e - 1].threads \in Nat /\ l[e].threads \in Nat
  BY <1>1, <1>2, Fields
<1>8. QED
  BY <1>3, <1>4, <1>5, <1>6, <1>7

(* The analyzer has moved on at most as often as the sweep, and as often   *)
(* if every step has a drop.                                               *)
LEMMA MovesAre ==
  ASSUME NEW l \in Seq(Section), NEW f, OrderedLog(l, f), NEW j \in 1 .. Len(l)
  PROVE  /\ Moves(l, j) \in Nat /\ Moves(l, j) <= l[j].step
         /\ (\A t \in 1 .. l[j].step : \E d \in 1 .. j : d \in Drops(l) /\ l[d].step = t)
              => Moves(l, j) = l[j].step
<1> DEFINE D == {d \in Drops(l) : d <= j}
           T == 1 .. l[j].step
           g == [d \in D |-> l[d].step]
<1>1. l[j].step \in Nat
  BY Fields
<1>2. ASSUME NEW d \in D
      PROVE  d \in Drops(l) /\ d \in 1 .. Len(l) /\ l[d].step \in T
  <2>1. d \in Drops(l) /\ d \in 1 .. Len(l) /\ l[d].read /\ d <= j
    BY DEF Drops
  <2>2. l[d].step # 0
    BY <2>1, Zenon DEF OrderedLog
  <2>3. l[d].step <= l[j].step
    <3>1. CASE d = j
      BY <1>1, <3>1
    <3>2. CASE d # j
      <4>1. d < j
        BY <2>1, <3>2
      <4>2. QED
        BY <2>1, <4>1, Zenon DEF OrderedLog
    <3>3. QED
      BY <3>1, <3>2
  <2>4. l[d].step \in Nat
    BY <2>1, Fields
  <2>5. QED
    BY <1>1, <2>1, <2>2, <2>3, <2>4
<1>3. g \in Injection(D, T)
  <2>1. \A d \in D : l[d].step \in T
    BY <1>2
  <2>2. \A d, e \in D : l[d].step = l[e].step => d = e
    <3>1. SUFFICES ASSUME NEW d \in D, NEW e \in D, l[d].step = l[e].step, d # e
                   PROVE  FALSE
      OBVIOUS
    <3>2. /\ d \in Drops(l) /\ e \in Drops(l) /\ d \in 1 .. Len(l) /\ e \in 1 .. Len(l)
          /\ l[d].step \in Nat /\ l[e].step \in Nat
      BY <1>2, Fields
    <3>3. CASE d < e
      <4>1. l[d].step < l[e].step
        BY <3>2, <3>3, OneDrop
      <4>2. QED
        BY <3>1, <3>2, <4>1
    <3>4. CASE e < d
      <4>1. l[e].step < l[d].step
        BY <3>2, <3>4, OneDrop
      <4>2. QED
        BY <3>1, <3>2, <4>1
    <3>5. QED
      BY <3>1, <3>2, <3>3, <3>4
  <2> HIDE DEF D, T
  <2>3. QED
    BY <2>1, <2>2 DEF Injection, IsInjective
<1>4. IsFiniteSet(T) /\ Cardinality(T) = l[j].step
  <2>1. PICK n \in Nat : n = l[j].step
    BY <1>1
  <2>2. IsFiniteSet(1 .. n) /\ Cardinality(1 .. n) = IF 1 > n THEN 0 ELSE n - 1 + 1
    <3>1. 1 \in Int /\ n \in Int
      OBVIOUS
    <3>2. QED
      BY <3>1, FS_Interval
  <2>3. QED
    BY <2>1, <2>2
<1>5. /\ IsFiniteSet(D) /\ Cardinality(D) <= Cardinality(T)
      /\ Cardinality(D) = Cardinality(T) <=> g \in Surjection(D, T)
  <2> HIDE DEF D, T, g
  <2>1. QED
    BY <1>3, <1>4, FS_Injection
<1>6. Cardinality(D) \in Nat
  BY <1>5, FS_CardinalityType
<1>7. Moves(l, j) = Cardinality(D)
  BY DEF Moves
<1>8. ASSUME \A t \in 1 .. l[j].step : \E d \in 1 .. j : d \in Drops(l) /\ l[d].step = t
      PROVE  g \in Surjection(D, T)
  <2>1. \A t \in T : \E d \in D : l[d].step = t
    <3>1. SUFFICES ASSUME NEW t \in T PROVE \E d \in D : l[d].step = t
      OBVIOUS
    <3>2. PICK d \in 1 .. j : d \in Drops(l) /\ l[d].step = t
      BY <1>8
    <3>3. d <= j
      OBVIOUS
    <3>4. QED
      BY <3>2, <3>3
  <2>2. \A d \in D : l[d].step \in T
    BY <1>2
  <2> HIDE DEF D, T
  <2>3. QED
    BY <2>1, <2>2 DEF Surjection
<1>9. QED
  <2> HIDE DEF D, T, g
  <2>1. QED
    BY <1>4, <1>5, <1>6, <1>7, <1>8 DEF T

(* A measured workload has one place in its log.                           *)
LEMMA OnePlace ==
  ASSUME NEW l \in Seq(Section), NEW f, OrderedLog(l, f),
         NEW i \in 1 .. Len(l), NEW j \in 1 .. Len(l),
         l[j].step # 0, l[i].step = l[j].step, l[i].threads = l[j].threads
  PROVE  i = j
<1>1. l[i].threads \in Nat /\ l[j].threads \in Nat
  BY Fields
<1>2. CASE i < j
  <2>1. l[i].threads < l[j].threads
    BY <1>2, Zenon DEF OrderedLog
  <2>2. QED
    BY <1>1, <2>1
<1>3. CASE j < i
  <2>1. l[j].threads < l[i].threads
    BY <1>3, Zenon DEF OrderedLog
  <2>2. QED
    BY <1>1, <2>1
<1>4. QED
  BY <1>2, <1>3

-----------------------------------------------------------------------------
(* Where ReadLog gets to.                                                  *)
LEMMA ReadIs ==
  ASSUME Inv, NEW f \in 1 .. NumServers, ReadLog(f)
  PROVE  /\ pc = "analyse" /\ pc' \in {"analyse"} \cup Ends
         /\ toRead' = toRead \ {f} /\ UNCHANGED sweepVars
         /\ f \in 1 .. Len(logs) /\ logs[f] \in Seq(Section) /\ OrderedLog(logs[f], f)
         /\ curLatency' \in Int /\ pc' # "IndexError"
         /\ \/ filed' = filed /\ pc' \in Ends \ {"done"}
            \/ /\ filed' = filed \cup {[workload |-> logs[f][j],
                                        latency |-> LatencyOf(logs[f], j)] : j \in Measured(logs[f])}
               /\ pc' = IF toRead' = {} THEN "done" ELSE pc
<1>1. f \in 1 .. Len(logs) /\ logs[f] \in Seq(Section) /\ OrderedLog(logs[f], f)
  <2>1. Len(logs) = NumServers
    BY DEF ReadLog, Inv, FlowInv, Scripts
  <2>2. QED
    BY <2>1 DEF Inv, TypeInv, OrderInv
<1>2. \A j \in Measured(logs[f]) :
        Moves(logs[f], j) \in Nat /\ Moves(logs[f], j) <= Steps
  <2>1. SUFFICES ASSUME NEW j \in Measured(logs[f])
                 PROVE  Moves(logs[f], j) \in Nat /\ Moves(logs[f], j) <= Steps
    OBVIOUS
  <2>2. j \in 1 .. Len(logs[f])
    BY DEF Measured
  <2>3. /\ Moves(logs[f], j) \in Nat /\ Moves(logs[f], j) <= logs[f][j].step
        /\ logs[f][j].step \in Nat
    BY <1>1, <2>2, MovesAre, Fields
  <2>4. logs[f][j].step <= Steps
    BY <1>1, <2>2, Zenon DEF OrderedLog
  <2>5. QED
    BY <2>3, <2>4, ListFacts
<1>3. /\ pc = "analyse" /\ toRead' = toRead \ {f} /\ UNCHANGED sweepVars
      /\ \/ pc' \in Ends \ {"done"} /\ UNCHANGED <<curLatency, filed>>
         \/ /\ filed' = filed \cup {[workload |-> logs[f][j],
                                     latency |-> LatencyOf(logs[f], j)] : j \in Measured(logs[f])}
            /\ curLatency' = IF logs[f] = << >> THEN curLatency
                             ELSE LatencyOf(logs[f], Len(logs[f]))
            /\ pc' = IF toRead' = {} THEN "done" ELSE pc
  BY Zenon DEF ReadLog, Ends
<1>4. curLatency \in Int
  BY DEF Inv, TypeInv
<1>5. ASSUME logs[f] # << >> PROVE LatencyOf(logs[f], Len(logs[f])) \in Int
  <2>1. Len(logs[f]) \in 1 .. Len(logs[f])
    BY <1>1, <1>5
  <2>2. /\ Moves(logs[f], Len(logs[f])) \in Nat
        /\ Moves(logs[f], Len(logs[f])) <= logs[f][Len(logs[f])].step
        /\ logs[f][Len(logs[f])].step \in Nat
    BY <1>1, <2>1, MovesAre, Fields
  <2>3. logs[f][Len(logs[f])].step <= Steps
    BY <1>1, <2>1, Zenon DEF OrderedLog
  <2>4. \A m \in Nat : m <= Steps /\ m # 0 => Latencies[m] \in Int
    BY ListFacts
  <2>5. QED
    BY <1>4, <2>2, <2>3, <2>4, ListFacts DEF LatencyOf
<1>6. curLatency' \in Int
  BY <1>3, <1>4, <1>5
<1>7. pc' \in {"analyse"} \cup Ends
  BY <1>3 DEF Ends
<1>8. pc' # "IndexError"
  <2>1. ~\E j \in Measured(logs[f]) : Moves(logs[f], j) > Len(Latencies)
    <3>1. \A m \in Nat : m <= Steps => ~(m > Len(Latencies))
      BY ListFacts DEF Steps
    <3>2. QED
      BY <1>2, <3>1
  <2>2. QED
    BY <2>1 DEF ReadLog
<1>9. QED
  BY <1>1, <1>3, <1>6, <1>7, <1>8, Zenon

LEMMA TypeNext == Inv /\ [Next]_vars => TypeInv'
<1> SUFFICES ASSUME Inv, [Next]_vars PROVE TypeInv'
  OBVIOUS
<1>0. TypeInv /\ FlowInv
  BY DEF Inv
<1> USE DEF Scripts, Ends
<1>1. CASE Load
  <2>1. /\ log' \in Seq(Section) /\ faults' \in Seq(Failures)
    <3>1. Generate(LoadThreads, FALSE) /\ UNCHANGED <<lat, client, logs>> /\ lat = 0
      BY <1>0, <1>1 DEF Load, FlowInv
    <3>2. LoadThreads \in Nat /\ client' \in 0 .. Clients
      BY <1>0, <3>1, ListFacts DEF TypeInv
    <3>3. QED
      BY <1>0, <3>1, <3>2, GenerateOrdered, GenerateIs
  <2>2. QED
    BY <1>0, <1>1, <2>1 DEF Load, TypeInv, analyzerVars
<1>2. CASE WriteMore
  <2>1. /\ log' \in Seq(Section) /\ faults' \in Seq(Failures)
    <3>1. Generate(LoadThreads, FALSE) /\ UNCHANGED <<lat, client, logs>> /\ lat = 0
      BY <1>0, <1>2 DEF WriteMore, FlowInv
    <3>2. LoadThreads \in Nat /\ client' \in 0 .. Clients
      BY <1>0, <3>1, ListFacts DEF TypeInv
    <3>3. QED
      BY <1>0, <3>1, <3>2, GenerateOrdered, GenerateIs
  <2>2. QED
    BY <1>0, <1>2, <2>1 DEF WriteMore, TypeInv, analyzerVars
<1>3. CASE WrittenEnough
  BY <1>0, <1>3 DEF WrittenEnough, TypeInv, sweepVars, analyzerVars
<1>4. CASE NextLatency
  <2>1. device' \in Nat /\ lat' \in 0 .. Steps
    <3>1. lat' \in 1 .. Steps
      BY <1>0, <1>4, ListFacts DEF NextLatency, TypeInv, Steps
    <3>2. QED
      BY <1>0, <1>4, <3>1, ListFacts DEF NextLatency, TypeInv
  <2>2. faults' \in Seq(Failures)
    <3>1. faults' = faults \/ faults' = Append(faults, "trigger")
      BY <1>4 DEF NextLatency
    <3>2. "trigger" \in Failures
      BY DEF Failures
    <3>3. Append(faults, "trigger") \in Seq(Failures)
      <4>1. PICK x \in Failures : x = "trigger"
        BY <3>2
      <4>2. Append(faults, x) \in Seq(Failures)
        BY <1>0, Appended DEF TypeInv
      <4>3. QED
        BY <4>1, <4>2
    <3>4. QED
      BY <1>0, <3>1, <3>3 DEF TypeInv
  <2>3. QED
    BY <1>0, <1>4, <2>1, <2>2, ListFacts DEF NextLatency, TypeInv, analyzerVars
<1>5. CASE Measure
  <2>1. client' \in 1 .. Clients /\ client' = client + 1
    BY <1>0, <1>5, ListFacts DEF Measure, TypeInv, Clients
  <2>2. /\ log' \in Seq(Section) /\ faults' \in Seq(Failures)
    <3>1. Generate(ClientThreads[client'], TRUE) /\ UNCHANGED <<lat, logs>> /\ lat # 0
      BY <1>0, <1>5 DEF Measure, FlowInv
    <3>2. ClientThreads[client'] \in Nat /\ client' \in 0 .. Clients
      BY <2>1, ListFacts
    <3>3. QED
      BY <1>0, <2>1, <3>1, <3>2, GenerateOrdered, GenerateIs
  <2>3. QED
    BY <1>0, <1>5, <2>1, <2>2, ListFacts DEF Measure, TypeInv, analyzerVars
<1>6. CASE LatencyDone
  BY <1>0, <1>6 DEF LatencyDone, TypeInv, sweepVars, analyzerVars
<1>7. CASE SweepDone \/ WrongGovernor
  <2>1. EndScript /\ pc \in Scripts /\ device' \in Nat
    <3>1. CASE SweepDone
      BY <3>1 DEF SweepDone
    <3>2. CASE WrongGovernor
      BY <1>0, <3>2 DEF WrongGovernor, TypeInv
    <3>3. QED
      BY <1>7, <3>1, <3>2
  <2>2. faults' \in Seq(Failures)
    <3>1. "governor" \in Failures
      BY DEF Failures
    <3>2. faults' = faults \/ faults' = Append(faults, "governor")
      BY <1>7 DEF SweepDone, WrongGovernor
    <3>3. faults \in Seq(Failures)
      BY <1>0 DEF TypeInv
    <3>4. Append(faults, "governor") \in Seq(Failures)
      BY <3>1, <3>3, Appended
    <3>5. QED
      BY <3>2, <3>3, <3>4
  <2>3. logs' \in Seq(Seq(Section)) /\ log' \in Seq(Section)
    <3>1. << >> \in Seq(Section) /\ logs' = Append(logs, log) /\ log' = << >>
      BY <2>1 DEF EndScript
    <3>2. QED
      BY <1>0, <3>1, Appended DEF TypeInv
  <2>4. toRead' \in SUBSET (1 .. NumServers) /\ pc' \in Scripts \cup {"analyse"}
    BY <1>0, <2>1 DEF EndScript, TypeInv
  <2>5. rounds' \in Nat /\ lat' \in 0 .. Steps /\ client' \in 0 .. Clients
    BY <2>1, ListFacts DEF EndScript
  <2>6. QED
    BY <1>0, <2>1, <2>2, <2>3, <2>4, <2>5 DEF EndScript, TypeInv
<1>8. ASSUME NEW f \in 1 .. NumServers, ReadLog(f) PROVE TypeInv'
  <2>1. /\ pc' \in {"analyse"} \cup Ends /\ toRead' = toRead \ {f}
        /\ UNCHANGED sweepVars /\ curLatency' \in Int
    BY <1>8, ReadIs
  <2>2. QED
    BY <1>0, <2>1 DEF TypeInv, sweepVars
<1>9. CASE UNCHANGED vars
  BY <1>0, <1>9 DEF vars, sweepVars, analyzerVars, TypeInv
<1>10. QED
  BY <1>1, <1>2, <1>3, <1>4, <1>5, <1>6, <1>7, <1>8, <1>9 DEF Next

LEMMA FlowNext == Inv /\ [Next]_vars => FlowInv'
<1> SUFFICES ASSUME Inv, [Next]_vars PROVE FlowInv'
  OBVIOUS
<1>0. TypeInv /\ FlowInv
  BY DEF Inv
<1> USE DEF Scripts, Ends
<1>1. CASE Load
  BY <1>0, <1>1 DEF Load, FlowInv, analyzerVars
<1>2. CASE WriteMore
  BY <1>0, <1>2 DEF WriteMore, FlowInv, analyzerVars
<1>3. CASE WrittenEnough
  BY <1>0, <1>3 DEF WrittenEnough, FlowInv, sweepVars, analyzerVars
<1>4. CASE NextLatency
  BY <1>0, <1>4 DEF NextLatency, FlowInv, TypeInv, analyzerVars
<1>5. CASE Measure
  BY <1>0, <1>5 DEF Measure, FlowInv, analyzerVars
<1>6. CASE LatencyDone
  BY <1>0, <1>6 DEF LatencyDone, FlowInv, Clients, sweepVars, analyzerVars
<1>7. CASE SweepDone \/ WrongGovernor
  <2>1. EndScript /\ pc \in {"start", "latency"}
    BY <1>7 DEF SweepDone, WrongGovernor
  <2>2. Len(logs') = Len(logs) + 1 /\ Len(logs) \in Nat /\ Len(logs) < NumServers
    <3>1. Len(logs) < NumServers /\ logs' = Append(logs, log)
      BY <1>0, <2>1 DEF EndScript, FlowInv
    <3>2. QED
      BY <1>0, <3>1, Appended DEF TypeInv
  <2>3. NumServers \in Nat /\ filed = {}
    BY <1>0, <2>1, ListFacts DEF FlowInv
  <2>4. /\ log' = << >> /\ lat' = 0 /\ filed' = {}
        /\ IF Len(logs') < NumServers THEN pc' = "start" ELSE pc' = "analyse"
    BY <2>1, <2>3 DEF EndScript
  <2>5. QED
    BY <2>2, <2>3, <2>4 DEF FlowInv
<1>8. ASSUME NEW f \in 1 .. NumServers, ReadLog(f) PROVE FlowInv'
  <2>1. /\ pc = "analyse" /\ pc' \in {"analyse"} \cup Ends /\ UNCHANGED sweepVars
        /\ pc' = "done" => toRead' = {}
    BY <1>8, ReadIs
  <2>2. QED
    BY <1>0, <2>1 DEF FlowInv, sweepVars
<1>9. CASE UNCHANGED vars
  BY <1>0, <1>9 DEF vars, sweepVars, analyzerVars, FlowInv
<1>10. QED
  BY <1>1, <1>2, <1>3, <1>4, <1>5, <1>6, <1>7, <1>8, <1>9 DEF Next

LEMMA OrderNext == Inv /\ [Next]_vars => OrderInv'
<1> SUFFICES ASSUME Inv, [Next]_vars PROVE OrderInv'
  OBVIOUS
<1>0. TypeInv /\ FlowInv /\ OrderInv
  BY DEF Inv
<1>1. CASE Load
  <2>1. Generate(LoadThreads, FALSE) /\ UNCHANGED <<lat, client, logs>> /\ lat = 0
    BY <1>0, <1>1 DEF Load, FlowInv
  <2>2. LoadThreads \in Nat /\ client' \in 0 .. Clients
    BY <1>0, <2>1, ListFacts DEF TypeInv
  <2>3. QED
    BY <1>0, <2>1, <2>2, GenerateOrdered
<1>2. CASE WriteMore
  <2>1. Generate(LoadThreads, FALSE) /\ UNCHANGED <<lat, client, logs>> /\ lat = 0
    BY <1>0, <1>2 DEF WriteMore, FlowInv
  <2>2. LoadThreads \in Nat /\ client' \in 0 .. Clients
    BY <1>0, <2>1, ListFacts DEF TypeInv
  <2>3. QED
    BY <1>0, <2>1, <2>2, GenerateOrdered
<1>3. CASE WrittenEnough
  BY <1>0, <1>3 DEF WrittenEnough, OrderInv, sweepVars
<1>4. CASE NextLatency
  <2>1. lat' = lat + 1 /\ lat \in Nat /\ UNCHANGED <<log, logs>>
    BY <1>0, <1>4 DEF NextLatency, TypeInv
  <2>2. ASSUME NEW j \in 1 .. Len(log)
        PROVE  log[j].step <= lat' /\ log[j].step # lat'
    <3>1. log[j].step \in Nat /\ log[j].step <= lat
      BY <1>0, Fields DEF TypeInv, OrderInv
    <3>2. QED
      BY <2>1, <3>1
  <2>3. QED
    BY <1>0, <2>1, <2>2 DEF OrderInv
<1>5. CASE Measure
  <2>1. client' \in 1 .. Clients /\ client' = client + 1
    BY <1>0, <1>5, ListFacts DEF Measure, TypeInv, Clients
  <2>2. Generate(ClientThreads[client'], TRUE) /\ UNCHANGED <<lat, logs>> /\ lat # 0
    BY <1>0, <1>5 DEF Measure, FlowInv, Scripts
  <2>3. ClientThreads[client'] \in Nat /\ client' \in 0 .. Clients
    BY <2>1, ListFacts
  <2>4. QED
    BY <1>0, <2>1, <2>2, <2>3, GenerateOrdered
<1>6. CASE LatencyDone
  BY <1>0, <1>6 DEF LatencyDone, OrderInv, sweepVars
<1>7. CASE SweepDone \/ WrongGovernor
  <2>1. logs' = Append(logs, log) /\ log' = << >>
    BY <1>7 DEF SweepDone, WrongGovernor, EndScript
  <2>2. /\ Len(logs) \in Nat
        /\ \A f \in 1 .. Len(logs) : logs'[f] = logs[f]
        /\ logs'[Len(logs) + 1] = log
        /\ \A f \in 1 .. Len(logs') : f \in 1 .. Len(logs) \/ f = Len(logs) + 1
    BY <1>0, <2>1, Appended DEF TypeInv
  <2>3. \A f \in 1 .. Len(logs') : OrderedLog(logs'[f], f)
    BY <1>0, <2>2 DEF OrderInv
  <2>4. OrderedLog(<< >>, Len(logs') + 1)
    BY DEF OrderedLog
  <2>5. QED
    BY <2>1, <2>3, <2>4 DEF OrderInv
<1>8. ASSUME NEW f \in 1 .. NumServers, ReadLog(f) PROVE OrderInv'
  BY <1>0, <1>8 DEF ReadLog, sweepVars, OrderInv
<1>9. CASE UNCHANGED vars
  BY <1>0, <1>9 DEF vars, sweepVars, OrderInv
<1>10. QED
  BY <1>1, <1>2, <1>3, <1>4, <1>5, <1>6, <1>7, <1>8, <1>9 DEF Next

LEMMA FiledNext == Inv /\ [Next]_vars => FiledInv'
<1> SUFFICES ASSUME Inv, [Next]_vars PROVE FiledInv'
  OBVIOUS
<1>1. CASE \E f \in 1 .. NumServers : ReadLog(f)
  <2>1. PICK f \in 1 .. NumServers : ReadLog(f)
    BY <1>1
  <2>2. /\ f \in 1 .. Len(logs) /\ logs' = logs
        /\ \/ filed' = filed
           \/ filed' = filed \cup {[workload |-> logs[f][j],
                                    latency |-> LatencyOf(logs[f], j)] : j \in Measured(logs[f])}
    BY <2>1, ReadIs DEF sweepVars
  <2>3. ASSUME NEW r \in filed'
        PROVE  \E g \in 1 .. Len(logs) : \E j \in 1 .. Len(logs[g]) :
                 /\ r.workload = logs[g][j] /\ logs[g][j].read
                 /\ Moves(logs[g], j) = 0 \/ r.latency = Latencies[Moves(logs[g], j)]
    <3>1. CASE r \in filed
      BY <3>1 DEF Inv, FiledInv
    <3>2. CASE \E j \in Measured(logs[f]) :
                 r = [workload |-> logs[f][j], latency |-> LatencyOf(logs[f], j)]
      <4>1. PICK j \in Measured(logs[f]) :
                 r = [workload |-> logs[f][j], latency |-> LatencyOf(logs[f], j)]
        BY <3>2
      <4>2. j \in 1 .. Len(logs[f]) /\ logs[f][j].read
        BY DEF Measured
      <4>3. r.workload = logs[f][j] /\ r.latency = LatencyOf(logs[f], j)
        BY <4>1
      <4>4. Moves(logs[f], j) = 0 \/ r.latency = Latencies[Moves(logs[f], j)]
        BY <4>3 DEF LatencyOf
      <4>5. QED
        BY <2>2, <4>2, <4>3, <4>4
    <3>3. QED
      BY <2>2, <3>1, <3>2
  <2>4. \A g, j : Moves(logs[g], j)' = Moves(logs[g], j)
    BY <2>2 DEF Moves, Drops, Before
  <2>5. QED
    BY <2>2, <2>3, <2>4 DEF FiledInv
<1>2. CASE Load \/ WriteMore \/ WrittenEnough \/ NextLatency \/ Measure \/ LatencyDone \/ SweepDone
          \/ WrongGovernor
  <2>1. pc \in Scripts /\ filed' = filed
    BY <1>2 DEF Load, WriteMore, WrittenEnough, NextLatency, Measure, LatencyDone,
                SweepDone, WrongGovernor, EndScript, Scripts, analyzerVars
  <2>2. filed' = {}
    BY <2>1 DEF Inv, FlowInv
  <2>3. QED
    BY <2>2 DEF FiledInv
<1>3. CASE UNCHANGED vars
  <2>1. filed' = filed /\ logs' = logs
    BY <1>3 DEF vars, sweepVars, analyzerVars
  <2>2. \A g, j : Moves(logs[g], j)' = Moves(logs[g], j)
    BY <2>1 DEF Moves, Drops, Before
  <2>3. QED
    BY <2>1, <2>2 DEF Inv, FiledInv
<1>4. QED
  BY <1>1, <1>2, <1>3 DEF Next

LEMMA EnoughNext == Inv /\ [Next]_vars => EnoughLatencies'
<1> SUFFICES ASSUME Inv, [Next]_vars PROVE EnoughLatencies'
  OBVIOUS
<1>1. CASE \E f \in 1 .. NumServers : ReadLog(f)
  BY <1>1, ReadIs DEF EnoughLatencies
<1>2. CASE Load \/ WriteMore \/ WrittenEnough \/ NextLatency \/ Measure \/ LatencyDone \/ SweepDone
          \/ WrongGovernor
  <2>1. pc' \in Scripts \cup {"analyse"}
    BY <1>2 DEF Load, WriteMore, WrittenEnough, NextLatency, Measure, LatencyDone, SweepDone, WrongGovernor, EndScript, Scripts
  <2>2. QED
    BY <2>1 DEF EnoughLatencies, Scripts
<1>3. CASE UNCHANGED vars
  BY <1>3 DEF vars, Inv, EnoughLatencies
<1>4. QED
  BY <1>1, <1>2, <1>3 DEF Next

LEMMA Invariant == Spec => []Inv
<1>1. Inv /\ [Next]_vars => Inv'
  BY TypeNext, FlowNext, OrderNext, FiledNext, EnoughNext DEF Inv
<1>2. QED
  BY <1>1, InitInv, PTL DEF Spec

(* However many measurements fail, the analyzer never asks for more        *)
(* latencies than there are: it moves on at most once in each step of the  *)
(* sweep (aerospike_analyzer.py:21-22).                                    *)
THEOREM LatenciesSuffice == Spec => []EnoughLatencies
<1>1. Inv => EnoughLatencies
  BY DEF Inv
<1>2. QED
  BY <1>1, Invariant, PTL

(* Whatever fails, what is filed under a wrong latency is filed under an   *)
(* earlier one of its log, or under the one another log has left           *)
(* (aerospike_analyzer.py:17-25).                                          *)
THEOREM MisfilingGoesBack == Spec => []MisfiledTowardsEarlier
<1>1. Inv => MisfiledTowardsEarlier
  <2> SUFFICES ASSUME Inv PROVE MisfiledTowardsEarlier
    OBVIOUS
  <2>1. ASSUME NEW r \in filed
        PROVE  \/ \E k \in 1 .. r.workload.step : r.latency = Latencies[k]
               \/ Moves(logs[r.workload.server],
                        CHOOSE j \in 1 .. Len(logs[r.workload.server]) :
                          logs[r.workload.server][j] = r.workload) = 0
    <3>0. PICK f \in 1 .. Len(logs) : \E j \in 1 .. Len(logs[f]) :
            /\ r.workload = logs[f][j] /\ logs[f][j].read
            /\ Moves(logs[f], j) = 0 \/ r.latency = Latencies[Moves(logs[f], j)]
      BY DEF Inv, FiledInv
    <3>1. PICK j \in 1 .. Len(logs[f]) :
            /\ r.workload = logs[f][j] /\ logs[f][j].read
            /\ Moves(logs[f], j) = 0 \/ r.latency = Latencies[Moves(logs[f], j)]
      BY <3>0
    <3>2. PICK l : l = logs[f]
      OBVIOUS
    <3>3. l \in Seq(Section) /\ OrderedLog(l, f)
      BY <3>2 DEF Inv, TypeInv, OrderInv
    <3>4. j \in 1 .. Len(l) /\ l[j].server = f /\ l[j].step # 0
      BY <3>1, <3>2, <3>3, Zenon DEF OrderedLog
    <3>5. \A i \in 1 .. Len(l) : l[i] = l[j] => i = j
      BY <3>3, <3>4, OnePlace
    <3>6. (CHOOSE i \in 1 .. Len(l) : l[i] = r.workload) = j
      BY <3>1, <3>2, <3>4, <3>5
    <3>7. logs[r.workload.server] = l
      BY <3>1, <3>2, <3>4
    <3>8. /\ Moves(l, j) \in Nat /\ Moves(l, j) <= l[j].step /\ l[j].step \in Nat
      BY <3>3, <3>4, MovesAre, Fields
    <3>9. CASE Moves(l, j) = 0
      BY <3>6, <3>7, <3>9
    <3>10. CASE Moves(l, j) # 0
      <4>1. Moves(l, j) \in 1 .. r.workload.step
        BY <3>1, <3>2, <3>8, <3>10
      <4>2. r.latency = Latencies[Moves(l, j)]
        BY <3>1, <3>2, <3>10
      <4>3. QED
        BY <4>1, <4>2
    <3>11. QED
      BY <3>9, <3>10
  <2>2. QED
    BY <2>1 DEF MisfiledTowardsEarlier
<1>2. QED
  BY <1>1, Invariant, PTL

-----------------------------------------------------------------------------
LEMMA MildAppend ==
  ASSUME NEW s \in Seq(Failures), NEW x \in Failures, Mild(Append(s, x))
  PROVE  /\ s = << >>
         /\ \/ x = "missing" /\ Append(s, x) = <<"missing">>
            \/ x = "trigger" /\ Append(s, x) = <<"trigger">>
<1>1. /\ Len(s) \in Nat /\ Len(Append(s, x)) = Len(s) + 1
      /\ Append(s, x)[Len(s) + 1] = x
  BY Appended
<1>2. Append(s, x) = <<"missing">> \/ Append(s, x) = <<"trigger">>
  <2>1. Append(s, x) # << >>
    BY Appended
  <2>2. QED
    BY <2>1 DEF Mild
<1>3. Len(Append(s, x)) = 1
  <2>1. CASE Append(s, x) = <<"missing">>
    BY <2>1
  <2>2. CASE Append(s, x) = <<"trigger">>
    BY <2>2
  <2>3. QED
    BY <1>2, <2>1, <2>2
<1>4. Len(s) = 0
  BY <1>1, <1>3
<1>5. s = << >>
  BY <1>4
<1>6. Append(s, x)[1] = x
  BY <1>1, <1>4
<1>7. CASE Append(s, x) = <<"missing">>
  BY <1>5, <1>6, <1>7
<1>8. CASE Append(s, x) = <<"trigger">>
  BY <1>5, <1>6, <1>8
<1>9. QED
  BY <1>2, <1>7, <1>8

(* A script that measures nothing is not a mild failure.                   *)
LEMMA GovernorNotMild ==
  ASSUME TypeInv, WrongGovernor
  PROVE  ~Mild(faults')
<1>1. PICK x \in Failures : x = "governor"
  BY DEF Failures
<1>2. x # "missing" /\ x # "trigger" /\ faults' = Append(faults, x)
  BY <1>1 DEF WrongGovernor
<1>3. QED
  BY <1>2, MildAppend DEF TypeInv

LEMMA MildDiffer == /\ << >> # <<"missing">> /\ << >> # <<"trigger">>
                    /\ <<"missing">> # <<"trigger">>
<1>1. Len(<< >>) = 0 /\ Len(<<"missing">>) = 1 /\ Len(<<"trigger">>) = 1
  OBVIOUS
<1>2. <<"missing">>[1] = "missing" /\ <<"trigger">>[1] = "trigger"
  OBVIOUS
<1>3. QED
  BY <1>1, <1>2

(* A run of the load generator that leaves only mild failures.             *)
LEMMA MildGenerate ==
  ASSUME TypeInv, NEW n \in Nat, NEW m \in BOOLEAN, Generate(n, m), Mild(faults')
  PROVE  /\ Mild(faults)
         /\ \/ log' = Append(log, Workload(n, m, FALSE)) /\ faults' = faults
            \/ m /\ log' = log /\ faults = << >> /\ faults' = <<"missing">>
<1>1. faults \in Seq(Failures)
  BY DEF TypeInv
<1>2. CASE log' = Append(log, Workload(n, m, FALSE)) /\ faults' = faults
  BY <1>2
<1>3. ASSUME NEW x \in Failures, faults' = Append(faults, x)
      PROVE  /\ faults = << >>
             /\ (x = "missing" /\ faults' = <<"missing">>) \/ x = "trigger"
  BY <1>1, <1>3, MildAppend
<1>4. Mild(<< >>)
  BY DEF Mild
<1>5. CASE faults' = Append(faults, "silent")
  <2>1. PICK x \in Failures : x = "silent"
    BY DEF Failures
  <2>2. QED
    BY <1>3, <1>5, <2>1
<1>6. CASE faults' = Append(faults, "cut")
  <2>1. PICK x \in Failures : x = "cut"
    BY DEF Failures
  <2>2. QED
    BY <1>3, <1>6, <2>1
<1>7. CASE log' = log /\ faults' = Append(faults, IF m THEN "missing" ELSE "no load")
  <2>1. CASE m
    <3>1. PICK x \in Failures : x = "missing"
      BY DEF Failures
    <3>2. faults' = Append(faults, x)
      BY <1>7, <2>1, <3>1
    <3>3. QED
      BY <1>3, <1>4, <1>7, <2>1, <3>1, <3>2
  <2>2. CASE ~m
    <3>1. PICK x \in Failures : x = "no load"
      BY DEF Failures
    <3>2. faults' = Append(faults, x)
      BY <1>7, <2>2, <3>1
    <3>3. QED
      BY <1>3, <3>1, <3>2
  <2>3. QED
    BY <2>1, <2>2
<1>8. QED
  BY <1>2, <1>5, <1>6, <1>7, Zenon DEF Generate

LEMMA DropsKept ==
  ASSUME NEW l \in Seq(Section), NEW w \in Section, NEW j \in 1 .. Len(l)
  PROVE  j \in Drops(Append(l, w)) <=> j \in Drops(l)
<1>1. /\ Len(l) \in Nat /\ Len(Append(l, w)) = Len(l) + 1
      /\ \A i \in 1 .. Len(l) : Append(l, w)[i] = l[i]
  BY Appended
<1>2. j \in 1 .. Len(Append(l, w)) /\ (j # 1 => j - 1 \in 1 .. Len(l))
  BY <1>1
<1>3. Before(Append(l, w), j) = Before(l, j)
  BY <1>1, <1>2 DEF Before
<1>4. QED
  BY <1>1, <1>2, <1>3 DEF Drops

(* A section of the step of the one before it, or of the next step and     *)
(* then with fewer client threads.                                         *)
LEMMA AppendDrops ==
  ASSUME NEW l \in Seq(Section), DropsLog(l), NEW w \in Section, w.step # 0 => w.read,
         \/ w.step = 0
         \/ /\ l # << >>
            /\ \/ l[Len(l)].step = w.step
               \/ l[Len(l)].step = w.step - 1 /\ l[Len(l)].threads > w.threads
  PROVE  DropsLog(Append(l, w))
<1> DEFINE k == Append(l, w)
<1>1. /\ Len(l) \in Nat /\ Len(k) = Len(l) + 1
      /\ \A j \in 1 .. Len(l) : k[j] = l[j]
      /\ k[Len(l) + 1] = w
      /\ \A j \in 1 .. Len(k) : j \in 1 .. Len(l) \/ j = Len(l) + 1
  BY Appended
<1>2. \A j \in 1 .. Len(l) : j \in Drops(k) <=> j \in Drops(l)
  BY DropsKept
<1>3. k \in Seq(Section)
  BY Appended
<1> HIDE DEF k
<1>4. ASSUME NEW j \in 1 .. Len(l)
      PROVE  /\ k[j].step # 0 => k[j].read
             /\ \A t \in 1 .. k[j].step : \E d \in 1 .. j : d \in Drops(k) /\ k[d].step = t
  <2>1. k[j] = l[j]
    BY <1>1
  <2>2. k[j].step # 0 => k[j].read
    BY <2>1, Zenon DEF DropsLog
  <2>3. ASSUME NEW t \in 1 .. k[j].step
        PROVE  \E d \in 1 .. j : d \in Drops(k) /\ k[d].step = t
    <3>1. PICK d \in 1 .. j : d \in Drops(l) /\ l[d].step = t
      BY <2>1, Zenon DEF DropsLog
    <3>2. d \in 1 .. Len(l)
      BY <1>1
    <3>3. QED
      BY <1>1, <1>2, <3>1, <3>2
  <2>4. QED
    BY <2>2, <2>3
<1>5. w.step \in Nat /\ w.threads \in Nat
  BY DEF Section
<1>6. ASSUME NEW t \in 1 .. w.step
      PROVE  \E d \in 1 .. Len(l) + 1 : d \in Drops(k) /\ k[d].step = t
  <2>1. l # << >> /\ Len(l) \in 1 .. Len(l)
    <3>1. l # << >>
      BY <1>5
    <3>2. QED
      BY <1>1, <3>1
  <2>2. l[Len(l)].step \in Nat /\ l[Len(l)].threads \in Nat
    BY <2>1, Fields
  <2>3. CASE t <= l[Len(l)].step
    <3>1. t \in 1 .. l[Len(l)].step
      BY <1>5, <2>2, <2>3
    <3>2. PICK d \in 1 .. Len(l) : d \in Drops(l) /\ l[d].step = t
      BY <2>1, <3>1, Zenon DEF DropsLog
    <3>3. d \in 1 .. Len(l) + 1
      BY <1>1
    <3>4. QED
      BY <1>1, <1>2, <3>2, <3>3
  <2>4. CASE ~(t <= l[Len(l)].step)
    <3>1. l[Len(l)].step = w.step - 1 /\ l[Len(l)].threads > w.threads /\ t = w.step
      BY <1>5, <2>2, <2>4
    <3>2. Len(l) + 1 \in 1 .. Len(k) /\ Len(l) + 1 # 1 /\ Len(l) + 1 - 1 = Len(l)
      BY <1>1, <2>1
    <3>3. Before(k, Len(l) + 1) = l[Len(l)].threads
      BY <1>1, <2>1, <3>2 DEF Before
    <3>4. w.read
      BY <1>5, <2>1
    <3>5. Len(l) + 1 \in Drops(k)
      BY <1>1, <1>3, <3>1, <3>2, <3>3, <3>4, DropIs
    <3>6. Len(l) + 1 \in 1 .. Len(l) + 1
      BY <1>1
    <3>7. QED
      BY <1>1, <3>1, <3>5, <3>6
  <2>5. QED
    BY <2>3, <2>4
<1>7. ASSUME NEW j \in 1 .. Len(k)
      PROVE  /\ k[j].step # 0 => k[j].read
             /\ \A t \in 1 .. k[j].step : \E d \in 1 .. j : d \in Drops(k) /\ k[d].step = t
  <2>1. CASE j \in 1 .. Len(l)
    BY <1>4, <2>1
  <2>2. CASE j = Len(l) + 1
    <3>1. k[j] = w
      BY <1>1, <2>2
    <3>2. QED
      BY <1>6, <2>2, <3>1
  <2>3. QED
    BY <1>1, <2>1, <2>2
<1>8. QED
  BY <1>7 DEF DropsLog, k

-----------------------------------------------------------------------------
(* What is left of MildInv when the failures have to stay mild.            *)
MildNow == DropsInv /\ TailInv /\ TriggerInv /\ FiledMild

(* The steps that may add a failure; the others keep them.                 *)
LEMMA MildBefore ==
  ASSUME Inv, [Next]_vars, Mild(faults')
  PROVE  Mild(faults)
<1>0. TypeInv /\ FlowInv
  BY DEF Inv
<1>1. CASE Load \/ WriteMore
  <2>1. Generate(LoadThreads, FALSE) /\ LoadThreads \in Nat
    BY <1>1, ListFacts DEF Load, WriteMore
  <2>2. QED
    BY <1>0, <2>1, MildGenerate
<1>2. CASE Measure
  <2>1. Generate(ClientThreads[client'], TRUE) /\ client' \in 1 .. Clients
    <3>1. client' \in 1 .. Clients
      BY <1>0, <1>2, ListFacts DEF Measure, TypeInv, Clients
    <3>2. QED
      BY <1>2, <3>1 DEF Measure
  <2>2. ClientThreads[client'] \in Nat
    BY <2>1, ListFacts
  <2>3. QED
    BY <1>0, <2>1, <2>2, MildGenerate
<1>3. CASE NextLatency
  <2>1. faults' = faults \/ faults' = Append(faults, "trigger")
    BY <1>3 DEF NextLatency
  <2>2. PICK x \in Failures : x = "trigger"
    BY DEF Failures
  <2>3. CASE faults' = Append(faults, "trigger")
    <3>1. faults = << >>
      BY <1>0, <2>2, <2>3, MildAppend DEF TypeInv
    <3>2. QED
      BY <3>1 DEF Mild
  <2>4. QED
    BY <2>1, <2>3
<1>4. CASE WrittenEnough \/ LatencyDone \/ SweepDone \/ UNCHANGED vars
  BY <1>4 DEF WrittenEnough, LatencyDone, SweepDone, vars, sweepVars
<1>5. CASE \E f \in 1 .. NumServers : ReadLog(f)
  BY <1>5 DEF ReadLog, sweepVars
<1>6. QED
  BY <1>0, <1>1, <1>2, <1>3, <1>4, <1>5, GovernorNotMild DEF Next

LEMMA MildInit == Init => MildInv
<1> SUFFICES ASSUME Init PROVE MildNow
  BY DEF MildInv, MildNow
<1>1. DropsInv /\ TailInv
  BY DEF Init, DropsInv, DropsLog, TailInv
<1>2. TriggerInv
  <2>1. WrongAt(<<0, 0>>)
    BY DEF Init, WrongAt
  <2>2. <<0, 0>> \in Nat \X Nat
    OBVIOUS
  <2>3. QED
    BY <2>1, <2>2 DEF TriggerInv
<1>3. FiledMild
  BY DEF Init, FiledMild
<1>4. QED
  BY <1>1, <1>2, <1>3 DEF MildNow

(* The first numbers of client threads, and the last ones.                 *)
LEMMA ThreadFacts ==
  /\ ClientThreads[1] \in Nat /\ ClientThreads[2] \in Nat
  /\ ClientThreads[Clients] \in Nat /\ ClientThreads[Clients - 1] \in Nat
  /\ ClientThreads[1] < ClientThreads[2] /\ ClientThreads[2] < ClientThreads[Clients]
  /\ ClientThreads[1] < ClientThreads[Clients - 1]
<1>1. /\ 1 \in 1 .. Clients /\ 2 \in 1 .. Clients /\ Clients \in 1 .. Clients
      /\ Clients - 1 \in 1 .. Clients
      /\ 1 < 2 /\ 2 < Clients /\ 1 < Clients - 1
  BY ListFacts
<1>2. QED
  BY <1>1, ListFacts

(* The load begins a log, the writes go on with it.                        *)
LEMMA LoadTail ==
  ASSUME Inv, MildNow, Load \/ WriteMore, Mild(faults')
  PROVE  DropsInv' /\ TailInv'
<1>0. TypeInv /\ FlowInv
  BY DEF Inv
<1>1. /\ Generate(LoadThreads, FALSE) /\ UNCHANGED <<lat, client, logs>> /\ lat = 0
      /\ pc' \in {"defrag", "latency"} /\ LoadThreads \in Nat
  BY <1>0, ListFacts DEF Load, WriteMore, FlowInv
<1>2. log' = Append(log, Workload(LoadThreads, FALSE, FALSE)) /\ faults' = faults
  BY <1>0, <1>1, MildGenerate
<1>3. PICK w : w = Workload(LoadThreads, FALSE, FALSE)
  OBVIOUS
<1>4. w \in Section /\ w.threads = LoadThreads /\ w.step = lat
  BY <1>0, <1>1, <1>3, WorkloadIs
<1>5. log \in Seq(Section) /\ DropsLog(log)
  BY <1>0 DEF TypeInv, MildNow, DropsInv
<1>6. DropsLog(log')
  BY <1>1, <1>2, <1>3, <1>4, <1>5, AppendDrops
<1>7. log' # << >> /\ log'[Len(log')] = w
  <2>1. log' = Append(log, w)
    BY <1>2, <1>3
  <2>2. /\ Len(Append(log, w)) = Len(log) + 1 /\ Append(log, w) # << >>
        /\ Append(log, w)[Len(log) + 1] = w
    BY <1>4, <1>5, Appended
  <2>3. QED
    BY <2>1, <2>2
<1>8. DropsInv'
  <2>1. \A f \in 1 .. Len(logs) :
          DropsLog(logs[f]) /\ logs[f] # << >> /\ logs[f][Len(logs[f])].step = Steps
    BY DEF MildNow, DropsInv
  <2>2. QED
    BY <1>1, <1>6, <2>1 DEF DropsInv
<1>9. TailInv'
  BY <1>1, <1>4, <1>7 DEF TailInv, EndsWith
<1>10. QED
  BY <1>8, <1>9

LEMMA MeasureTail ==
  ASSUME Inv, MildNow, Measure, Mild(faults')
  PROVE  DropsInv' /\ TailInv'
<1>0. TypeInv /\ FlowInv
  BY DEF Inv
<1>1. /\ Generate(ClientThreads[client'], TRUE) /\ UNCHANGED <<lat, logs, pc>> /\ lat # 0
      /\ client' = client + 1 /\ client \in Nat /\ client' \in 1 .. Clients
  <2>1. client' \in 1 .. Clients /\ client' = client + 1 /\ client \in Nat
    BY <1>0, ListFacts DEF Measure, TypeInv, Clients
  <2>2. QED
    BY <1>0, <2>1 DEF Measure, FlowInv
<1>2. ClientThreads[client'] \in Nat
  BY <1>1, ListFacts
<1>3. PICK last : last = log[Len(log)]
  OBVIOUS
<1>4. /\ log \in Seq(Section) /\ log # << >> /\ DropsLog(log) /\ EndsWith(last) /\ lat \in Nat
      /\ last.threads \in Nat /\ last.step \in Nat
  <2>1. log \in Seq(Section) /\ log # << >> /\ DropsLog(log) /\ lat \in Nat
    BY <1>0 DEF TypeInv, MildNow, DropsInv, TailInv, Measure
  <2>2. Len(log) \in 1 .. Len(log)
    BY <2>1
  <2>3. QED
    BY <1>3, <2>1, <2>2, Fields DEF MildNow, TailInv
<1>5. \A f \in 1 .. Len(logs) :
        DropsLog(logs[f]) /\ logs[f] # << >> /\ logs[f][Len(logs[f])].step = Steps
  BY DEF MildNow, DropsInv
<1>6. CASE log' = Append(log, Workload(ClientThreads[client'], TRUE, FALSE)) /\ faults' = faults
  <2>1. PICK w : w = Workload(ClientThreads[client'], TRUE, FALSE)
    OBVIOUS
  <2>2. w \in Section /\ w.threads = ClientThreads[client'] /\ w.step = lat /\ w.read = TRUE
    BY <1>0, <1>2, <2>1, WorkloadIs
  <2>3. \/ last.step = w.step
        \/ last.step = w.step - 1 /\ last.threads > w.threads
    <3>1. CASE last.step = lat
      BY <2>2, <3>1
    <3>2. CASE last.step = lat - 1 /\ client = 0 /\ last.threads > ClientThreads[1]
      BY <1>1, <2>2, <3>2
    <3>3. CASE last.step = lat - 1 /\ client = 1 /\ last.threads > ClientThreads[2]
      BY <1>1, <2>2, <3>3
    <3>4. QED
      BY <1>4, <3>1, <3>2, <3>3 DEF EndsWith
  <2>4. DropsLog(log')
    BY <1>3, <1>4, <1>6, <2>1, <2>2, <2>3, AppendDrops
  <2>5. log' # << >> /\ log'[Len(log')] = w
    <3>1. log' = Append(log, w)
      BY <1>6, <2>1
    <3>2. /\ Len(Append(log, w)) = Len(log) + 1 /\ Append(log, w) # << >>
          /\ Append(log, w)[Len(log) + 1] = w
      BY <1>4, <2>2, Appended
    <3>3. QED
      BY <3>1, <3>2
  <2>6. TailInv'
    BY <1>1, <2>2, <2>5 DEF TailInv, EndsWith
  <2>7. QED
    BY <1>1, <1>5, <2>4, <2>6 DEF DropsInv
<1>7. CASE log' = log /\ faults = << >> /\ faults' = <<"missing">>
  <2>1. faults # <<"missing">>
    BY <1>7, MildDiffer
  <2>2. \/ last.step = lat /\ client # 0 /\ last.threads = ClientThreads[client]
        \/ last.step = lat - 1 /\ client = 0 /\ last.threads > ClientThreads[2]
    BY <1>1, <1>4, <2>1 DEF EndsWith
  <2>3. client' - 1 = client
    BY <1>1
  <2>4. EndsWith(last)'
    <3>1. CASE last.step = lat /\ client # 0 /\ last.threads = ClientThreads[client]
      <4>1. client' > 1
        BY <1>1, <3>1
      <4>2. QED
        BY <1>1, <1>7, <2>3, <3>1, <4>1 DEF EndsWith
    <3>2. CASE last.step = lat - 1 /\ client = 0 /\ last.threads > ClientThreads[2]
      BY <1>1, <1>7, <3>2 DEF EndsWith
    <3>3. QED
      BY <2>2, <3>1, <3>2
  <2>5. TailInv'
    BY <1>3, <1>4, <1>7, <2>4 DEF TailInv
  <2>6. DropsInv'
    BY <1>1, <1>4, <1>5, <1>7 DEF DropsInv
  <2>7. QED
    BY <2>5, <2>6
<1>8. QED
  BY <1>0, <1>1, <1>2, <1>6, <1>7, MildGenerate

LEMMA LatencyTail ==
  ASSUME Inv, MildNow, NextLatency, Mild(faults')
  PROVE  DropsInv' /\ TailInv'
<1>0. TypeInv /\ FlowInv
  BY DEF Inv
<1>1. /\ UNCHANGED <<log, logs>> /\ pc = "latency" /\ lat \in Nat /\ lat' = lat + 1
      /\ client' = 0 /\ (lat # 0 => client = Clients)
  BY <1>0 DEF NextLatency, FlowInv, TypeInv
<1>2. DropsInv'
  BY <1>1 DEF MildNow, DropsInv
<1>3. PICK last : last = log[Len(log)]
  OBVIOUS
<1>4. /\ log # << >> /\ EndsWith(last) /\ last.threads \in Nat
  <2>1. log # << >> /\ log \in Seq(Section)
    BY <1>0, <1>1 DEF TypeInv, MildNow, TailInv
  <2>2. Len(log) \in 1 .. Len(log)
    BY <2>1
  <2>3. QED
    BY <1>3, <2>1, <2>2, Fields DEF MildNow, TailInv
<1>5. faults = <<"missing">> => faults' = <<"missing">>
  <2>1. CASE faults' = faults
    BY <2>1
  <2>2. CASE faults' = Append(faults, "trigger")
    <3>1. PICK x \in Failures : x = "trigger"
      BY DEF Failures
    <3>2. faults = << >>
      BY <1>0, <2>2, <3>1, MildAppend DEF TypeInv
    <3>3. QED
      BY <3>2, MildDiffer
  <2>3. QED
    BY <2>1, <2>2 DEF NextLatency
<1>6. /\ last.step = lat /\ last.threads > ClientThreads[1]
      /\ faults # <<"missing">> => last.threads > ClientThreads[2]
  <2>1. CASE lat = 0
    <3>1. last.step = lat /\ last.threads = LoadThreads
      BY <1>4, <2>1 DEF EndsWith
    <3>2. QED
      BY <3>1, ListFacts, ThreadFacts
  <2>2. CASE lat # 0
    <3>1. client = Clients /\ client # 0 /\ client # 1
      BY <1>1, <2>2, ListFacts
    <3>2. /\ last.step = lat
          /\ \/ last.threads = ClientThreads[Clients]
             \/ faults = <<"missing">> /\ last.threads = ClientThreads[Clients - 1]
      BY <1>4, <2>2, <3>1 DEF EndsWith
    <3>3. QED
      BY <3>2, ThreadFacts
  <2>3. QED
    BY <2>1, <2>2
<1>7. EndsWith(last)'
  <2>1. last.step = lat' - 1 /\ lat' # 0
    BY <1>1, <1>6
  <2>2. faults' # <<"missing">> => last.threads > ClientThreads[2]
    BY <1>5, <1>6
  <2>3. QED
    BY <1>1, <1>6, <2>1, <2>2 DEF EndsWith
<1>8. TailInv'
  BY <1>1, <1>3, <1>4, <1>7 DEF TailInv
<1>9. QED
  BY <1>2, <1>8

LEMMA SweepTail ==
  ASSUME Inv, MildNow, SweepDone
  PROVE  DropsInv' /\ TailInv'
<1>0. TypeInv /\ FlowInv
  BY DEF Inv
<1>1. /\ pc = "latency" /\ lat = Steps /\ logs' = Append(logs, log) /\ log' = << >>
      /\ client = Clients /\ pc' \in {"start", "analyse"}
  BY <1>0, ListFacts DEF SweepDone, EndScript, FlowInv, Steps
<1>2. log # << >> /\ log[Len(log)].step = Steps /\ DropsLog(log)
  <2>1. log # << >> /\ EndsWith(log[Len(log)]) /\ DropsLog(log)
    BY <1>1 DEF MildNow, TailInv, DropsInv
  <2>2. lat # 0 /\ client # 0 /\ client # 1
    BY <1>1, ListFacts
  <2>3. QED
    BY <1>1, <2>1, <2>2 DEF EndsWith
<1>3. /\ Len(logs) \in Nat
      /\ \A f \in 1 .. Len(logs) : logs'[f] = logs[f]
      /\ logs'[Len(logs) + 1] = log
      /\ \A f \in 1 .. Len(logs') : f \in 1 .. Len(logs) \/ f = Len(logs) + 1
  BY <1>0, <1>1, Appended DEF TypeInv
<1>4. ASSUME NEW f \in 1 .. Len(logs')
      PROVE  DropsLog(logs'[f]) /\ logs'[f] # << >> /\ logs'[f][Len(logs'[f])].step = Steps
  <2>1. CASE f \in 1 .. Len(logs)
    <3>1. DropsLog(logs[f]) /\ logs[f] # << >> /\ logs[f][Len(logs[f])].step = Steps
      BY <2>1 DEF MildNow, DropsInv
    <3>2. QED
      BY <1>3, <2>1, <3>1
  <2>2. CASE f = Len(logs) + 1
    BY <1>2, <1>3, <2>2
  <2>3. QED
    BY <1>3, <2>1, <2>2
<1>5. DropsLog(<< >>)
  BY DEF DropsLog
<1>6. DropsInv'
  BY <1>1, <1>4, <1>5 DEF DropsInv
<1>7. TailInv'
  BY <1>1 DEF TailInv
<1>8. QED
  BY <1>6, <1>7

LEMMA TailNext ==
  ASSUME Inv, MildNow, [Next]_vars, Mild(faults')
  PROVE  DropsInv' /\ TailInv'
<1>0. TypeInv /\ FlowInv /\ DropsInv /\ TailInv
  BY DEF Inv, MildNow
<1>1. CASE WrittenEnough
  BY <1>0, <1>1 DEF WrittenEnough, sweepVars, DropsInv, TailInv, EndsWith
<1>2. CASE LatencyDone
  BY <1>0, <1>2 DEF LatencyDone, sweepVars, DropsInv, TailInv, EndsWith
<1>3. CASE \E f \in 1 .. NumServers : ReadLog(f)
  <2>1. PICK f \in 1 .. NumServers : ReadLog(f)
    BY <1>3
  <2>2. UNCHANGED sweepVars /\ pc' \in {"analyse"} \cup Ends
    BY <2>1, ReadIs
  <2>3. QED
    BY <1>0, <2>2 DEF sweepVars, DropsInv, TailInv, EndsWith, Ends
<1>4. CASE UNCHANGED vars
  BY <1>0, <1>4 DEF vars, sweepVars, DropsInv, TailInv, EndsWith
<1>5. QED
  BY <1>0, <1>1, <1>2, <1>3, <1>4, LoadTail, MeasureTail, LatencyTail, SweepTail,
     GovernorNotMild DEF Next

-----------------------------------------------------------------------------
LEMMA NoPlace ==
  ASSUME NEW n \in Nat, NEW k
  PROVE  <<n + 1, k>> # <<0, 0>>
<1>1. n + 1 # 0
  OBVIOUS
<1>2. <<n + 1, k>>[1] = n + 1 /\ <<0, 0>>[1] = 0
  OBVIOUS
<1>3. QED
  BY <1>1, <1>2

(* The appended section is wrong only if the device is.                    *)
LEMMA GenerateWrong ==
  ASSUME Inv, NEW m, WrongAt(m), NEW n \in Nat, NEW k \in BOOLEAN, Generate(n, k),
         UNCHANGED <<pc, lat, device, logs>> \/ (lat = 0 /\ pc' # "sweep" /\ UNCHANGED <<lat, logs>>),
         lat # 0 => pc = "sweep", Mild(faults')
  PROVE  WrongAt(m)'
<1>0. TypeInv /\ FlowInv
  BY DEF Inv
<1>1. /\ log \in Seq(Section) /\ UNCHANGED <<lat, logs>>
  BY <1>0 DEF TypeInv
<1>2. \A f \in 1 .. Len(logs') : \A j \in 1 .. Len(logs'[f]) :
        Wrong(logs'[f][j]) => Place(logs'[f][j]) = m
  BY <1>1 DEF WrongAt
<1>3. pc' = "sweep" /\ device' # Latencies[lat'] => m = <<Len(logs') + 1, lat'>>
  BY <1>1 DEF WrongAt
<1>4. faults' # <<"trigger">> => m = <<0, 0>>
  <2>1. faults' = faults \/ faults = << >>
    BY <1>0, MildGenerate
  <2>2. QED
    BY <2>1, MildDiffer DEF WrongAt
<1>5. CASE log' = log
  <2>1. \A j \in 1 .. Len(log') : Wrong(log'[j]) => Place(log'[j]) = m
    BY <1>5 DEF WrongAt
  <2>2. QED
    BY <1>2, <1>3, <1>4, <2>1 DEF WrongAt, Wrong, Place
<1>6. CASE log' = Append(log, Workload(n, k, FALSE))
  <2>1. PICK w : w = Workload(n, k, FALSE)
    OBVIOUS
  <2>2. w \in Section /\ w.server = Len(logs) + 1 /\ w.at = device /\ w.step = lat
    BY <1>0, <2>1, WorkloadIs
  <2>3. Wrong(w) => Place(w) = m
    BY <1>0, <2>2 DEF Wrong, Place, WrongAt
  <2>4. /\ Len(log) \in Nat
        /\ \A j \in 1 .. Len(log) : log'[j] = log[j]
        /\ log'[Len(log) + 1] = w
        /\ \A j \in 1 .. Len(log') : j \in 1 .. Len(log) \/ j = Len(log) + 1
    <3>1. log' = Append(log, w)
      BY <1>6, <2>1
    <3>2. /\ Len(log) \in Nat
          /\ \A j \in 1 .. Len(log) : Append(log, w)[j] = log[j]
          /\ Append(log, w)[Len(log) + 1] = w
          /\ \A j \in 1 .. Len(Append(log, w)) : j \in 1 .. Len(log) \/ j = Len(log) + 1
      BY <1>1, <2>2, Appended
    <3>3. QED
      BY <3>1, <3>2
  <2>5. ASSUME NEW j \in 1 .. Len(log'), Wrong(log'[j]) PROVE Place(log'[j]) = m
    <3>1. CASE j \in 1 .. Len(log)
      BY <2>4, <2>5, <3>1 DEF WrongAt
    <3>2. CASE j = Len(log) + 1
      BY <2>3, <2>4, <2>5, <3>2
    <3>3. QED
      BY <2>4, <3>1, <3>2
  <2>6. QED
    BY <1>2, <1>3, <1>4, <2>5 DEF WrongAt, Wrong, Place
<1>7. QED
  BY <1>0, <1>5, <1>6, MildGenerate

LEMMA TriggerNext ==
  ASSUME Inv, MildNow, [Next]_vars, Mild(faults')
  PROVE  TriggerInv'
<1>0. TypeInv /\ FlowInv
  BY DEF Inv
<1>1. PICK m \in Nat \X Nat : WrongAt(m)
  BY DEF MildNow, TriggerInv
<1>2. CASE Load \/ WriteMore
  <2>1. /\ Generate(LoadThreads, FALSE) /\ UNCHANGED <<lat, logs>> /\ lat = 0
        /\ pc' # "sweep" /\ LoadThreads \in Nat
    BY <1>0, <1>2, ListFacts DEF Load, WriteMore, FlowInv
  <2>2. WrongAt(m)'
    BY <1>1, <2>1, GenerateWrong
  <2>3. QED
    BY <2>2 DEF TriggerInv
<1>3. CASE Measure
  <2>1. client' \in 1 .. Clients
    BY <1>0, <1>3, ListFacts DEF Measure, TypeInv, Clients
  <2>2. /\ Generate(ClientThreads[client'], TRUE) /\ UNCHANGED <<pc, lat, device, logs>>
        /\ pc = "sweep" /\ ClientThreads[client'] \in Nat
    BY <1>3, <2>1, ListFacts DEF Measure
  <2>3. WrongAt(m)'
    BY <1>1, <2>2, GenerateWrong
  <2>4. QED
    BY <2>3 DEF TriggerInv
<1>4. CASE WrittenEnough \/ LatencyDone
  <2>1. UNCHANGED <<log, logs, lat, device, faults>> /\ pc' = "latency"
    BY <1>4 DEF WrittenEnough, LatencyDone, sweepVars
  <2>2. WrongAt(m)'
    BY <1>1, <2>1 DEF WrongAt, Wrong, Place
  <2>3. QED
    BY <2>2 DEF TriggerInv
<1>5. CASE NextLatency
  <2>1. /\ UNCHANGED <<log, logs>> /\ lat' = lat + 1 /\ pc' = "sweep" /\ pc # "sweep"
        /\ lat' \in Nat /\ Len(logs) \in Nat
    BY <1>0, <1>5 DEF NextLatency, TypeInv
  <2>2. CASE device' = Latencies[lat'] /\ UNCHANGED faults
    <3>1. WrongAt(m)'
      BY <1>1, <2>1, <2>2 DEF WrongAt, Wrong, Place
    <3>2. QED
      BY <3>1 DEF TriggerInv
  <2>3. CASE faults' = Append(faults, "trigger")
    <3>1. faults = << >> /\ faults' = <<"trigger">>
      <4>1. PICK x \in Failures : x = "trigger"
        BY DEF Failures
      <4>2. QED
        BY <1>0, <2>3, <4>1, MildAppend DEF TypeInv
    <3>2. m = <<0, 0>>
      BY <1>1, <3>1, MildDiffer DEF WrongAt
    <3>3. ASSUME NEW f \in 1 .. Len(logs), NEW j \in 1 .. Len(logs[f])
          PROVE  ~Wrong(logs[f][j])
      <4>1. logs[f] \in Seq(Section) /\ OrderedLog(logs[f], f)
        BY <1>0 DEF Inv, TypeInv, OrderInv
      <4>2. logs[f][j].server = f - 1 + 1 /\ f - 1 \in Nat
        <5>1. logs[f][j].server = f
          BY <4>1, Zenon DEF OrderedLog
        <5>2. QED
          BY <2>1, <5>1
      <4>3. Place(logs[f][j]) # <<0, 0>>
        BY <4>2, NoPlace DEF Place
      <4>4. QED
        BY <1>1, <3>2, <4>3 DEF WrongAt
    <3>4. ASSUME NEW j \in 1 .. Len(log)
          PROVE  ~Wrong(log[j])
      <4>1. log[j].server = Len(logs) + 1
        BY DEF Inv, OrderInv, OrderedLog
      <4>2. Place(log[j]) # <<0, 0>>
        BY <2>1, <4>1, NoPlace DEF Place
      <4>3. QED
        BY <1>1, <3>2, <4>2 DEF WrongAt
    <3>5. PICK n : n = <<Len(logs) + 1, lat'>>
      OBVIOUS
    <3>6. WrongAt(n)'
      BY <2>1, <3>1, <3>3, <3>4, <3>5 DEF WrongAt, Wrong, Place
    <3>7. n \in Nat \X Nat
      BY <2>1, <3>5
    <3>8. QED
      BY <3>6, <3>7 DEF TriggerInv
  <2>4. QED
    BY <1>5, <2>2, <2>3 DEF NextLatency
<1>6. CASE SweepDone
  <2>1. logs' = Append(logs, log) /\ log' = << >> /\ pc' # "sweep" /\ faults' = faults
    BY <1>6 DEF SweepDone, EndScript
  <2>2. /\ Len(logs) \in Nat
        /\ \A f \in 1 .. Len(logs) : logs'[f] = logs[f]
        /\ logs'[Len(logs) + 1] = log
        /\ \A f \in 1 .. Len(logs') : f \in 1 .. Len(logs) \/ f = Len(logs) + 1
    BY <1>0, <2>1, Appended DEF TypeInv
  <2>3. ASSUME NEW f \in 1 .. Len(logs'), NEW j \in 1 .. Len(logs'[f]), Wrong(logs'[f][j])
        PROVE  Place(logs'[f][j]) = m
    <3>1. CASE f \in 1 .. Len(logs)
      BY <1>1, <2>2, <2>3, <3>1 DEF WrongAt
    <3>2. CASE f = Len(logs) + 1
      BY <1>1, <2>2, <2>3, <3>2 DEF WrongAt
    <3>3. QED
      BY <2>2, <3>1, <3>2
  <2>4. WrongAt(m)'
    BY <1>1, <2>1, <2>3 DEF WrongAt, Wrong, Place
  <2>5. QED
    BY <2>4 DEF TriggerInv
<1>7. CASE \E f \in 1 .. NumServers : ReadLog(f)
  <2>1. PICK f \in 1 .. NumServers : ReadLog(f)
    BY <1>7
  <2>2. UNCHANGED sweepVars /\ pc' # "sweep"
    BY <2>1, ReadIs DEF Ends
  <2>3. WrongAt(m)'
    BY <1>1, <2>2 DEF WrongAt, Wrong, Place, sweepVars
  <2>4. QED
    BY <2>3 DEF TriggerInv
<1>8. CASE UNCHANGED vars
  <2>1. WrongAt(m)'
    BY <1>1, <1>8 DEF vars, sweepVars, WrongAt, Wrong, Place
  <2>2. QED
    BY <2>1 DEF TriggerInv
<1>9. QED
  BY <1>0, <1>2, <1>3, <1>4, <1>5, <1>6, <1>7, <1>8, GovernorNotMild DEF Next

(* Every workload of a log is filed under the latency of its step.         *)
LEMMA FiledMildNext ==
  ASSUME Inv, MildNow, [Next]_vars, Mild(faults')
  PROVE  FiledMild'
<1>0. TypeInv /\ FlowInv
  BY DEF Inv
<1>1. CASE Load \/ WriteMore \/ WrittenEnough \/ NextLatency \/ Measure \/ LatencyDone
  <2>1. pc' \in Scripts
    BY <1>1 DEF Load, WriteMore, WrittenEnough, NextLatency, Measure, LatencyDone, Scripts
  <2>2. QED
    BY <2>1 DEF FiledMild, Scripts
<1>2. CASE SweepDone
  <2>1. CASE pc' = "start"
    BY <2>1 DEF FiledMild
  <2>2. CASE pc' = "analyse" /\ toRead' = 1 .. NumServers
    <3>1. filed' = {}
      BY <1>0, <1>2 DEF SweepDone, EndScript, FlowInv, Scripts
    <3>2. (1 .. NumServers) \ toRead' = {}
      BY <2>2
    <3>3. QED
      BY <3>1, <3>2 DEF FiledMild
  <2>3. QED
    BY <1>2, <2>1, <2>2 DEF SweepDone, EndScript
<1>3. CASE \E f \in 1 .. NumServers : ReadLog(f)
  <2>1. PICK f \in 1 .. NumServers : ReadLog(f)
    BY <1>3
  <2>2. /\ pc = "analyse" /\ toRead' = toRead \ {f} /\ UNCHANGED logs /\ f \in 1 .. Len(logs)
        /\ logs[f] \in Seq(Section) /\ OrderedLog(logs[f], f)
        /\ \/ pc' \in Ends \ {"done"}
           \/ filed' = filed \cup {[workload |-> logs[f][j],
                                    latency |-> LatencyOf(logs[f], j)] : j \in Measured(logs[f])}
    BY <2>1, ReadIs DEF sweepVars
  <2>3. CASE pc' \in Ends \ {"done"}
    BY <2>3 DEF FiledMild, Ends
  <2>4. CASE filed' = filed \cup {[workload |-> logs[f][j],
                                   latency |-> LatencyOf(logs[f], j)] : j \in Measured(logs[f])}
    <3>1. ASSUME NEW j \in Measured(logs[f])
          PROVE  LatencyOf(logs[f], j) = Latencies[logs[f][j].step]
      <4>1. j \in 1 .. Len(logs[f]) /\ logs[f][j].read
        BY DEF Measured
      <4>2. \A t \in 1 .. logs[f][j].step :
              \E d \in 1 .. j : d \in Drops(logs[f]) /\ logs[f][d].step = t
        <5>1. DropsLog(logs[f])
          BY <2>2 DEF MildNow, DropsInv
        <5>2. QED
          BY <4>1, <5>1, Zenon DEF DropsLog
      <4>3. Moves(logs[f], j) = logs[f][j].step
        BY <2>2, <4>1, <4>2, MovesAre
      <4>4. logs[f][j].step # 0
        BY <2>2, <4>1, Zenon DEF OrderedLog
      <4>5. QED
        BY <4>3, <4>4 DEF LatencyOf
    <3>2. \A r : r \in filed <=>
            \E g \in (1 .. NumServers) \ toRead : \E j \in Measured(logs[g]) :
              r = [workload |-> logs[g][j], latency |-> Latencies[logs[g][j].step]]
      BY <2>2 DEF MildNow, FiledMild
    <3>3. \A g : g \in (1 .. NumServers) \ toRead' <=> g \in (1 .. NumServers) \ toRead \/ g = f
      BY <2>2
    <3>4. \A r : r \in filed' <=>
            \E g \in (1 .. NumServers) \ toRead' : \E j \in Measured(logs[g]) :
              r = [workload |-> logs[g][j], latency |-> Latencies[logs[g][j].step]]
      <4>1. ASSUME NEW r
            PROVE  r \in filed' <=>
                     \/ r \in filed
                     \/ \E j \in Measured(logs[f]) :
                          r = [workload |-> logs[f][j], latency |-> Latencies[logs[f][j].step]]
        BY <2>4, <3>1
      <4>2. QED
        BY <3>2, <3>3, <4>1
    <3>5. QED
      BY <2>2, <3>4 DEF FiledMild, Measured
  <2>5. QED
    BY <2>2, <2>3, <2>4
<1>4. CASE UNCHANGED vars
  BY <1>4 DEF vars, sweepVars, analyzerVars, MildNow, FiledMild, Measured
<1>5. QED
  BY <1>0, <1>1, <1>2, <1>3, <1>4, GovernorNotMild DEF Next

LEMMA MildInvariant == Spec => []MildInv
<1>1. Inv /\ MildInv /\ [Next]_vars => MildInv'
  <2> SUFFICES ASSUME Inv, MildInv, [Next]_vars, Mild(faults')
               PROVE  MildNow'
    BY DEF MildInv, MildNow, Mild
  <2>1. MildNow
    BY MildBefore DEF MildInv, MildNow
  <2>2. QED
    BY <2>1, TailNext, TriggerNext, FiledMildNext DEF MildNow
<1>2. QED
  BY <1>1, MildInit, Invariant, PTL DEF Spec

-----------------------------------------------------------------------------
(* A nonempty finite set of numbers has a greatest one.                    *)
LEMMA Greatest ==
  ASSUME NEW S \in SUBSET Nat, IsFiniteSet(S), S # {}
  PROVE  \E m \in S : \A x \in S : m >= x
<1> DEFINE Above(x) == {y \in S : y > x}
           U == {Above(x) : x \in S}
<1>1. IsWellFoundedOn(StrictSubsetOrdering(S), FiniteSubsetsOf(S))
  BY FS_StrictSubsetOrderingWellFounded
<1>2. U \subseteq FiniteSubsetsOf(S) /\ U # {}
  <2>1. ASSUME NEW x \in S PROVE Above(x) \in FiniteSubsetsOf(S)
    <3>1. Above(x) \in SUBSET S
      OBVIOUS
    <3> HIDE DEF Above
    <3>2. IsFiniteSet(Above(x))
      BY <3>1, FS_Subset
    <3>3. QED
      BY <3>1, <3>2 DEF FiniteSubsetsOf
  <2> HIDE DEF Above
  <2>2. QED
    BY <2>1
<1>3. PICK T \in U : \A K \in U : ~(<<K, T>> \in StrictSubsetOrdering(S))
  <2> HIDE DEF U
  <2>1. QED
    BY <1>1, <1>2, WFMin
<1>4. PICK m \in S : T = Above(m)
  OBVIOUS
<1>5. ASSUME NEW x \in S, ~(m >= x) PROVE FALSE
  <2>0. x \in Nat /\ m \in Nat /\ x > m /\ ~(x > x)
    BY <1>5
  <2>1. x \in Above(m) /\ x \notin Above(x)
    BY <2>0
  <2>2. Above(x) \subseteq Above(m)
    <3>1. \A y \in Nat : y > x => y > m
      BY <2>0
    <3>2. QED
      BY <3>1
  <2>3. Above(x) \in U /\ Above(x) \in SUBSET S /\ Above(m) \in SUBSET S
    OBVIOUS
  <2> HIDE DEF Above
  <2>4. QED
    BY <1>3, <1>4, <2>1, <2>2, <2>3 DEF StrictSubsetOrdering
<1>6. QED
  BY <1>5

LEMMA MaxIs ==
  ASSUME NEW S \in SUBSET Nat, NEW m \in S, \A x \in S : m >= x
  PROVE  Max(S) = m
<1>1. \A x \in S : (\A y \in S : x >= y) => x = m
  <2>1. SUFFICES ASSUME NEW x \in S, \A y \in S : x >= y PROVE x = m
    OBVIOUS
  <2>2. x >= m /\ m >= x /\ x \in Nat /\ m \in Nat
    BY <2>1
  <2>3. QED
    BY <2>2
<1>2. QED
  BY <1>1 DEF Max

(* The measured workloads of all logs.                                     *)
All == UNION {{logs[f][j] : j \in Measured(logs[f])} : f \in 1 .. NumServers}

(* When the analyzer is done.                                              *)
Analysed == Inv /\ MildNow /\ Mild(faults) /\ pc = "done"

LEMMA AllAre ==
  ASSUME Analysed
  PROVE  /\ \A w : w \in All <=>
              \E f \in 1 .. NumServers : \E j \in Measured(logs[f]) : w = logs[f][j]
         /\ Len(logs) = NumServers
         /\ \A f \in 1 .. NumServers : logs[f] \in Seq(Section) /\ OrderedLog(logs[f], f)
         /\ \A w \in All : /\ w \in Section /\ w.server \in 1 .. NumServers
                           /\ w.step \in 1 .. Steps
                           /\ \E c \in 1 .. Clients : w.threads = ClientThreads[c]
<1>1. \A w : w \in All <=>
        \E f \in 1 .. NumServers : \E j \in Measured(logs[f]) : w = logs[f][j]
  BY DEF All
<1>2. Len(logs) = NumServers
  BY DEF Analysed, Inv, FlowInv, Scripts
<1>3. ASSUME NEW f \in 1 .. NumServers
      PROVE  logs[f] \in Seq(Section) /\ OrderedLog(logs[f], f)
  BY <1>2 DEF Analysed, Inv, TypeInv, OrderInv
<1>4. ASSUME NEW w \in All
      PROVE  /\ w \in Section /\ w.server \in 1 .. NumServers /\ w.step \in 1 .. Steps
             /\ \E c \in 1 .. Clients : w.threads = ClientThreads[c]
  <2>1. PICK f \in 1 .. NumServers : \E j \in Measured(logs[f]) : w = logs[f][j]
    BY <1>1
  <2>2. PICK j \in Measured(logs[f]) : w = logs[f][j]
    BY <2>1
  <2>3. j \in 1 .. Len(logs[f]) /\ w.read
    BY <2>2 DEF Measured
  <2>4. w \in Section /\ w.step \in Nat
    BY <1>3, <2>2, <2>3, Fields
  <2>5. w.server = f /\ w.step <= Steps /\ w.step # 0
    BY <1>3, <2>2, <2>3, Zenon DEF OrderedLog
  <2>6. \E c \in 1 .. Clients : w.threads = ClientThreads[c]
    <3>1. logs[f][j].step # 0 => \E c \in 1 .. Clients : logs[f][j].threads = ClientThreads[c]
      BY <1>3, <2>3, Zenon DEF OrderedLog
    <3>2. QED
      BY <2>2, <2>5, <3>1
  <2>7. w.step \in 1 .. Steps
    BY <2>4, <2>5, ListFacts
  <2>8. QED
    BY <2>4, <2>5, <2>6, <2>7
<1>5. QED
  BY <1>1, <1>2, <1>3, <1>4

(* In the table of a step, a cell belongs to one workload.                 *)
LEMMA OneCell ==
  ASSUME Analysed, NEW v \in All, NEW w \in All, v.step = w.step,
         v.threads = w.threads, v.server = w.server
  PROVE  v = w
<1>1. PICK f \in 1 .. NumServers : \E j \in Measured(logs[f]) : w = logs[f][j]
  BY AllAre
<1>2. PICK j \in Measured(logs[f]) : w = logs[f][j]
  BY <1>1
<1>3. PICK g \in 1 .. NumServers : \E i \in Measured(logs[g]) : v = logs[g][i]
  BY AllAre
<1>4. PICK i \in Measured(logs[g]) : v = logs[g][i]
  BY <1>3
<1>5. j \in 1 .. Len(logs[f]) /\ i \in 1 .. Len(logs[g])
  BY DEF Measured
<1>6. w.server = f /\ v.server = g
  BY <1>2, <1>4, <1>5, AllAre, Zenon DEF OrderedLog
<1>7. f = g /\ w.step # 0
  <2>1. w.step \in 1 .. Steps
    BY AllAre
  <2>2. QED
    BY <1>6, <2>1
<1>8. i = j
  BY <1>2, <1>4, <1>5, <1>7, AllAre, OnePlace
<1>9. QED
  BY <1>2, <1>4, <1>7, <1>8

(* What is filed under the latency of a step.                              *)
LEMMA RunsAre ==
  ASSUME Analysed, NEW s \in 1 .. Steps
  PROVE  Runs(Latencies[s]) = {w \in All : w.step = s}
<1>1. \A r : r \in filed <=>
        \E f \in 1 .. NumServers : \E j \in Measured(logs[f]) :
          r = [workload |-> logs[f][j], latency |-> Latencies[logs[f][j].step]]
  <2>1. (1 .. NumServers) \ toRead = 1 .. NumServers
    BY DEF Analysed, Inv, FlowInv
  <2>2. QED
    BY <2>1 DEF Analysed, MildNow, FiledMild
<1>2. \A r : r \in filed <=>
        \E w \in All : r = [workload |-> w, latency |-> Latencies[w.step]]
  <2>1. \A w : w \in All <=>
          \E f \in 1 .. NumServers : \E j \in Measured(logs[f]) : w = logs[f][j]
    BY AllAre
  <2>2. ASSUME NEW r \in filed
        PROVE  \E w \in All : r = [workload |-> w, latency |-> Latencies[w.step]]
    <3>1. PICK f \in 1 .. NumServers : \E j \in Measured(logs[f]) :
            r = [workload |-> logs[f][j], latency |-> Latencies[logs[f][j].step]]
      BY <1>1
    <3>2. PICK j \in Measured(logs[f]) :
            r = [workload |-> logs[f][j], latency |-> Latencies[logs[f][j].step]]
      BY <3>1
    <3>3. logs[f][j] \in All
      BY <2>1
    <3>4. QED
      BY <3>2, <3>3
  <2>3. ASSUME NEW w \in All
        PROVE  [workload |-> w, latency |-> Latencies[w.step]] \in filed
    <3>1. PICK f \in 1 .. NumServers : \E j \in Measured(logs[f]) : w = logs[f][j]
      BY <2>1
    <3>2. PICK j \in Measured(logs[f]) : w = logs[f][j]
      BY <3>1
    <3>3. QED
      BY <1>1, <3>2
  <2>4. QED
    BY <2>2, <2>3
<1>3. ASSUME NEW w \in Runs(Latencies[s]) PROVE w \in All /\ w.step = s
  <2>1. PICK r \in filed : r.latency = Latencies[s] /\ w = r.workload
    BY DEF Runs
  <2>2. PICK v \in All : r = [workload |-> v, latency |-> Latencies[v.step]]
    BY <1>2
  <2>3. v = w /\ Latencies[w.step] = Latencies[s]
    BY <2>1, <2>2
  <2>4. w.step \in 1 .. Steps
    BY <2>2, <2>3, AllAre
  <2>5. QED
    BY <2>2, <2>3, <2>4, ListsAssumption DEF Steps
<1>4. ASSUME NEW w \in All, w.step = s PROVE w \in Runs(Latencies[s])
  <2>1. PICK r : r = [workload |-> w, latency |-> Latencies[w.step]]
    OBVIOUS
  <2>2. r \in filed /\ r.workload = w /\ r.latency = Latencies[s]
    BY <1>2, <1>4, <2>1
  <2>3. QED
    BY <2>2 DEF Runs
<1>5. QED
  BY <1>3, <1>4

(* Every step has been measured, and only finitely often.                  *)
LEMMA OfStep ==
  ASSUME Analysed, NEW s \in 1 .. Steps
  PROVE  {w \in All : w.step = s} # {} /\ IsFiniteSet({w \in All : w.step = s})
<1> DEFINE of == {w \in All : w.step = s}
<1>1. of # {}
  <2>1. 1 \in 1 .. NumServers
    BY ListFacts
  <2>2. DropsLog(logs[1]) /\ logs[1] # << >> /\ logs[1][Len(logs[1])].step = Steps
    BY <2>1, AllAre DEF Analysed, MildNow, DropsInv
  <2>3. Len(logs[1]) \in 1 .. Len(logs[1]) /\ logs[1] \in Seq(Section)
    <3>1. logs[1] \in Seq(Section)
      BY <2>1, AllAre
    <3>2. QED
      BY <2>2, <3>1
  <2>4. s \in 1 .. logs[1][Len(logs[1])].step
    BY <2>2
  <2>5. PICK d \in 1 .. Len(logs[1]) : d \in Drops(logs[1]) /\ logs[1][d].step = s
    BY <2>2, <2>3, <2>4, Zenon DEF DropsLog
  <2>6. d \in Measured(logs[1])
    BY <2>5 DEF Drops, Measured
  <2>7. logs[1][d] \in All
    BY <2>1, <2>6, AllAre
  <2>8. QED
    BY <2>5, <2>7
<1>2. IsFiniteSet(of)
  <2> DEFINE T == (1 .. NumServers) \X (1 .. Clients)
             g == [w \in of |-> <<w.server, CHOOSE c \in 1 .. Clients :
                                              w.threads = ClientThreads[c]>>]
  <2>1. IsFiniteSet(T)
    <3>1. IsFiniteSet(1 .. NumServers) /\ IsFiniteSet(1 .. Clients)
      <4>1. 1 \in Int /\ NumServers \in Int /\ Clients \in Int
        BY ListFacts
      <4>2. QED
        BY <4>1, FS_Interval
    <3>2. QED
      BY <3>1, FS_Product
  <2>2. ASSUME NEW w \in of
        PROVE  /\ w \in All /\ w.step = s /\ g[w] \in T /\ g[w][1] = w.server
               /\ w.threads = ClientThreads[g[w][2]]
    <3>1. w \in All /\ w.step = s
      OBVIOUS
    <3>2. w.server \in 1 .. NumServers /\ \E c \in 1 .. Clients : w.threads = ClientThreads[c]
      BY <3>1, AllAre
    <3>3. PICK c : c = CHOOSE b \in 1 .. Clients : w.threads = ClientThreads[b]
      OBVIOUS
    <3>4. c \in 1 .. Clients /\ w.threads = ClientThreads[c]
      BY <3>2, <3>3
    <3>5. g[w] = <<w.server, c>>
      BY <3>3
    <3>6. QED
      BY <3>1, <3>2, <3>4, <3>5
  <2>3. \A v, w \in of : g[v] = g[w] => v = w
    <3>1. SUFFICES ASSUME NEW v \in of, NEW w \in of, g[v] = g[w] PROVE v = w
      OBVIOUS
    <3> HIDE DEF of, g
    <3>2. v.step = w.step /\ v.threads = w.threads /\ v.server = w.server /\ v \in All /\ w \in All
      BY <2>2, <3>1
    <3>3. QED
      BY <3>2, OneCell
  <2>4. g \in [of -> T]
    <3>1. \A w \in of : g[w] \in T
      BY <2>2
    <3> HIDE DEF of, T
    <3>2. QED
      BY <3>1
  <2> HIDE DEF of, T, g
  <2>5. g \in Injection(of, T)
    BY <2>3, <2>4 DEF Injection, IsInjective
  <2>6. QED
    BY <2>1, <2>5, FS_Injection
<1>3. QED
  BY <1>1, <1>2

(* The table of a step has the rate of each of its workloads.              *)
LEMMA TableIs ==
  ASSUME Analysed, NEW s \in 1 .. Steps
  PROVE  LET of == {w \in All : w.step = s}
         IN  /\ DOMAIN Throughputs(Latencies[s]) = {<<w.threads, w.server>> : w \in of}
             /\ \A w \in of : Throughputs(Latencies[s])[<<w.threads, w.server>>] = Rate(w)
<1> DEFINE of == {w \in All : w.step = s}
<1>1. Runs(Latencies[s]) = of
  BY RunsAre
<1>2. \A v, w \in of : Cell(v) = Cell(w) => v = w
  <2>1. SUFFICES ASSUME NEW v \in of, NEW w \in of, Cell(v) = Cell(w) PROVE v = w
    OBVIOUS
  <2>2. v.threads = w.threads /\ v.server = w.server
    <3>1. <<v.threads, v.server>> = <<w.threads, w.server>>
      BY <2>1 DEF Cell
    <3>2. \A a, b, c, d : <<a, b>> = <<c, d>> => a = c /\ b = d
      OBVIOUS
    <3>3. QED
      BY <3>1, <3>2
  <2>3. v \in All /\ w \in All /\ v.step = w.step
    OBVIOUS
  <2>4. QED
    BY <2>2, <2>3, OneCell
<1>3. \A v, w \in of : v.step <= w.step
  <2>1. \A w \in of : w.step = s
    OBVIOUS
  <2>2. s <= s
    OBVIOUS
  <2>3. QED
    BY <2>1, <2>2
<1> HIDE DEF of
<1>4. Throughputs(Latencies[s]) =
        [c \in {Cell(w) : w \in of} |->
           Rate(CHOOSE w \in of : Cell(w) = c /\ \A v \in of : Cell(v) = c => v.step <= w.step)]
  BY <1>1 DEF Throughputs
<1>5. DOMAIN Throughputs(Latencies[s]) = {<<w.threads, w.server>> : w \in of}
  BY <1>4 DEF Cell
<1>6. ASSUME NEW w \in of
      PROVE  Throughputs(Latencies[s])[<<w.threads, w.server>>] = Rate(w)
  <2>1. Throughputs(Latencies[s])[Cell(w)] =
          Rate(CHOOSE u \in of : Cell(u) = Cell(w)
                                 /\ \A v \in of : Cell(v) = Cell(w) => v.step <= u.step)
    BY <1>4
  <2>2. (CHOOSE u \in of : Cell(u) = Cell(w)
                           /\ \A v \in of : Cell(v) = Cell(w) => v.step <= u.step) = w
    BY <1>2, <1>3
  <2>3. QED
    BY <2>1, <2>2 DEF Cell
<1>7. QED
  BY <1>5, <1>6 DEF of

(* The bar of a step is its best rate.                                     *)
LEMMA BestIs ==
  ASSUME Analysed, \A w \in Section : Rate(w) \in Nat, NEW s \in 1 .. Steps
  PROVE  MaxThroughput(Latencies[s]) = Max({Rate(w) : w \in {w \in All : w.step = s}})
<1> DEFINE of == {w \in All : w.step = s}
           R == {Rate(w) : w \in of}
<1>1. Runs(Latencies[s]) = of
  BY RunsAre
<1>2. of # {} /\ IsFiniteSet(of)
  BY OfStep
<1>3. \A w \in of : Rate(w) \in Nat
  BY AllAre
<1> HIDE DEF of
<1>4. R \in SUBSET Nat /\ R # {}
  BY <1>2, <1>3
<1>5. IsFiniteSet(R)
  <2> DEFINE g == [w \in of |-> Rate(w)]
  <2>1. g \in [of -> R] /\ \A x \in R : \E w \in of : g[w] = x
    OBVIOUS
  <2> HIDE DEF g, R
  <2>2. g \in Surjection(of, R)
    BY <2>1 DEF Surjection
  <2>3. QED
    BY <1>2, <2>2, FS_Surjection
<1>6. MaxThroughput(Latencies[s]) = Max({0} \cup R)
  BY <1>1 DEF MaxThroughput
<1> HIDE DEF R
<1>7. PICK m \in R : \A x \in R : m >= x
  BY <1>4, <1>5, Greatest
<1>8. Max(R) = m
  BY <1>4, <1>7, MaxIs
<1>9. Max({0} \cup R) = m
  <2>1. m \in Nat
    BY <1>4, <1>7
  <2>2. {0} \cup R \in SUBSET Nat /\ m \in {0} \cup R /\ \A x \in {0} \cup R : m >= x
    BY <1>4, <1>7, <2>1
  <2>3. QED
    BY <2>2, MaxIs
<1>10. QED
  BY <1>6, <1>8, <1>9 DEF R, of

(* At most one step of one log was measured at another latency.            *)
LEMMA FewWrong ==
  ASSUME Analysed
  PROVE  Cardinality({<<w.server, w.step>> : w \in {w \in All : w.at # Latencies[w.step]}})
           <= (IF faults = <<"trigger">> THEN 1 ELSE 0)
<1> DEFINE S == {<<w.server, w.step>> : w \in {w \in All : w.at # Latencies[w.step]}}
<1>1. PICK m \in Nat \X Nat : WrongAt(m)
  BY DEF Analysed, MildNow, TriggerInv
<1>2. ASSUME NEW w \in All, w.at # Latencies[w.step]
      PROVE  <<w.server, w.step>> = m
  <2>1. PICK f \in 1 .. NumServers : \E j \in Measured(logs[f]) : w = logs[f][j]
    BY AllAre
  <2>2. PICK j \in Measured(logs[f]) : w = logs[f][j]
    BY <2>1
  <2>3. j \in 1 .. Len(logs[f]) /\ f \in 1 .. Len(logs)
    BY AllAre DEF Measured
  <2>4. Wrong(w)
    <3>1. w.step \in 1 .. Steps
      BY AllAre
    <3>2. QED
      BY <1>2, <3>1 DEF Wrong
  <2>5. QED
    BY <1>1, <2>2, <2>3, <2>4 DEF WrongAt, Place
<1>3. S \in SUBSET {m}
  BY <1>2
<1>4. CASE faults = <<"trigger">>
  <2> HIDE DEF S
  <2>1. IsFiniteSet({m}) /\ Cardinality({m}) = 1
    BY FS_Singleton
  <2>2. Cardinality(S) <= 1
    BY <1>3, <2>1, FS_Subset
  <2>3. QED
    BY <1>4, <2>2 DEF S
<1>5. CASE faults # <<"trigger">>
  <2>1. m = <<0, 0>>
    BY <1>1, <1>5 DEF WrongAt
  <2>2. ~\E w \in All : w.at # Latencies[w.step]
    <3>1. SUFFICES ASSUME NEW w \in All, w.at # Latencies[w.step] PROVE FALSE
      OBVIOUS
    <3>2. <<w.server, w.step>> = <<0, 0>> /\ w.server \in 1 .. NumServers
      BY <1>2, <2>1, <3>1, AllAre
    <3>3. w.server = w.server - 1 + 1 /\ w.server - 1 \in Nat
      BY <3>2
    <3>4. <<w.server - 1 + 1, w.step>> # <<0, 0>>
      BY <3>3, NoPlace
    <3>5. QED
      BY <3>2, <3>3, <3>4
  <2>3. S = {}
    BY <2>2
  <2> HIDE DEF S
  <2>4. Cardinality(S) = 0
    BY <2>3, FS_EmptySet
  <2>5. QED
    BY <1>5, <2>4 DEF S
<1>6. QED
  BY <1>4, <1>5

(* With one failure that leaves no trace, or none, the tables and bars     *)
(* show what was measured, for all lists and all rates that are natural    *)
(* numbers (act-rw-cxl.sh:64-77, aerospike_analyzer.py:9-68,               *)
(* aerospike.ipynb:44-50).                                                 *)
THEOREM FiguresHold ==
  ASSUME \A w \in Section : Rate(w) \in Nat
  PROVE  Spec => []FiguresAsMeasured
<1>1. Inv /\ MildInv => FiguresAsMeasured
  <2> SUFFICES ASSUME Analysed PROVE FiguresAsMeasured
    BY DEF FiguresAsMeasured, Analysed, MildInv, MildNow, Mild
  <2>1. Cardinality({<<w.server, w.step>> : w \in {w \in All : w.at # Latencies[w.step]}})
          <= (IF faults = <<"trigger">> THEN 1 ELSE 0)
    BY FewWrong
  <2>2. ASSUME NEW s \in 1 .. Len(Latencies)
        PROVE  LET of == {w \in All : w.step = s}
               IN  /\ DOMAIN Throughputs(Latencies[s]) = {<<w.threads, w.server>> : w \in of}
                   /\ \A w \in of : Throughputs(Latencies[s])[<<w.threads, w.server>>] = Rate(w)
                   /\ MaxThroughput(Latencies[s]) = Max({Rate(w) : w \in of})
    <3>1. s \in 1 .. Steps
      BY DEF Steps
    <3>2. QED
      BY <3>1, TableIs, BestIs
  <2>3. QED
    BY <2>1, <2>2 DEF FiguresAsMeasured, All
<1>2. QED
  BY <1>1, Invariant, MildInvariant, PTL
=============================================================================
