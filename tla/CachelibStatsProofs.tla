-------------------------- MODULE CachelibStatsProofs --------------------------
(***************************************************************************)
(* Proofs about CachelibStats for every plan of the script, every window   *)
(* inside a latency and every run.                                         *)
(*                                                                         *)
(* The blocks are counted, the script goes by the clock.  What ties the    *)
(* two together is that the j-th block is written in one of the minutes    *)
(* j .. j + slips, and that the script is in one of the minutes            *)
(* ChangeTime(set) .. ChangeTime(set) + late when it sets the next latency *)
(* (BlockOK, ScriptInv).  So a block that is counted more than `late'      *)
(* behind one change and at least `slips' before the next was written      *)
(* between the two, and measured one latency (MeasuredInv, which has to be *)
(* proved when the block is appended: later the script is elsewhere).      *)
(***************************************************************************)
EXTENDS CachelibStats, TLAPS

(* One block, with the latencies it measured, its minute and time of day,  *)
(* and how many of its lines were written.                                 *)
BlockType == [at : SUBSET Nat, minute : Nat, clock : 0 .. Day - 1, lines : 0 .. 3]

Scalars ==
  /\ memory \in {"dram", "cxl"} /\ pc \in {"running", "ended", "parsed"}
  /\ how \in {"", "killed", "crashed"} /\ (pc = "running" <=> how = "")
  /\ now \in Nat /\ started \in Nat /\ due \in Nat /\ slips \in Nat /\ late \in Nat
  /\ device \in Nat /\ set \in 0 .. NumLatencies /\ failed \in BOOLEAN

Types == Scalars /\ log \in Seq(BlockType) /\ seen \in SUBSET Nat

(* The j-th block is written in minute j or, for each block that slipped   *)
(* before it, one later; only the last one can be cut, when the run ends.  *)
BlockOK(j) ==
  /\ j <= log[j].minute /\ log[j].minute <= j + slips
  /\ log[j].clock = (started + log[j].minute) % Day
  /\ log[j].at # {}
  /\ log[j].lines # 3 => pc # "running" /\ j = Len(log)

BlocksInv ==
  /\ \A j \in 1 .. Len(log) : BlockOK(j)
  /\ pc = "running" => seen # {} /\ Len(log) + slips = now

(* The script is at most `late' minutes behind its plan, and a latency it  *)
(* has set is, from its minute on, the only one that is seen.              *)
ScriptInv ==
  memory = "cxl" =>
    /\ ChangeTime(set) <= due /\ due <= ChangeTime(set) + late
    /\ pc = "running" => now <= ChangeTime(set) + late
    /\ set > 0 => due - Step <= now
    /\ ~failed => device = set
    /\ pc = "running" /\ ~failed /\ log # << >> /\ due - Step <= log[Len(log)].minute
         => seen = {set}

(* When the script ends the run in time, the log reaches to the last time  *)
(* at which a latency is over, and what is cut lies behind it.             *)
KilledInv ==
  memory = "cxl" /\ how = "killed" =>
    /\ Len(log) + slips >= ChangeTime(NumLatencies)
    /\ \A k \in 1 .. Len(log) : k + slips <= ChangeTime(NumLatencies) => log[k].lines = 3

(* A block that begins late enough after the script has set a latency and  *)
(* ends before the next is set measured nothing but this latency.          *)
MeasuredInv ==
  memory = "cxl" /\ how # "crashed" /\ ~failed =>
    \A j \in 2 .. Len(log), i \in 1 .. NumLatencies :
      ChangeTime(i - 1) + late < j /\ log[j].minute <= ChangeTime(i) => log[j].at = {i}

(* What a block gives for a name: its figure, or zero for a line that is   *)
(* missing.                                                                *)
Entry(name, block) == IF Line(name) <= block.lines THEN block.at ELSE Zero

(* The times are those of a parsing in which midnight falls before line m. *)
MidnightAt(m) ==
  \A k \in 1 .. Len(log) :
    time[k] = Elapsed(log[k].clock + (IF k >= m THEN Day ELSE 0),
                      log[1].clock + (IF 1 >= m THEN Day ELSE 0))

(* What the parser leaves behind.                                          *)
ParsedInv ==
  pc = "parsed" =>
    /\ \A name \in ToSet(Items) :
         /\ series[name] \in Seq(SUBSET Nat) /\ Len(series[name]) = Len(log)
         /\ \A k \in 1 .. Len(log) : series[name][k] = Entry(name, log[k])
    /\ Len(time) = Len(log)
    /\ \E m \in 1 .. Len(log) + 1 : MidnightAt(m)

(* What holds while the run goes on and after it.                          *)
StatsInv == Types /\ BlocksInv /\ ScriptInv /\ KilledInv /\ MeasuredInv

(* The types of the constants and what is assumed of them.                 *)
LEMMA Constants ==
  /\ NumLatencies \in Nat /\ Base \in Nat /\ Step \in Nat /\ From \in Nat /\ To \in Nat
  /\ 0 < To /\ To < From /\ From < Step /\ Step <= Base
  /\ Day \in Nat \ {0} /\ MaxMinutes \in Nat
  /\ \A t \in StartTimes : t \in Nat
PROOF
<1>1. StartTimes \subseteq 0 .. Day - 1 /\ Day \in Nat
  BY BoundsAssumption
<1>2. \A t \in StartTimes : t \in Nat
  BY <1>1
<1> QED BY <1>2, WindowAssumption, BoundsAssumption

LEMMA Sums == \A a, b \in Nat : a + b \in Nat
  OBVIOUS

LEMMA ItemsIs == Len(Items) = 3
  BY DEF Items

(* The times at which latencies end lie Step minutes apart.                *)
LEMMA Times ==
  ASSUME NEW i \in Nat, NEW k \in Nat
  PROVE  /\ ChangeTime(i) \in Nat
         /\ ChangeTime(i + 1) = ChangeTime(i) + Step
         /\ i <= k => ChangeTime(i) <= ChangeTime(k)
         /\ i < k => ChangeTime(i) + Step <= ChangeTime(k)
         /\ ChangeTime(0) = Base - Step
PROOF
<1> DEFINE x == Step * i
<1>1. x \in Nat /\ Step \in Nat /\ Base \in Nat /\ Step <= Base
  BY Constants
<1>2. Step * (i - 1) = x - Step /\ Step * (i + 1 - 1) = x /\ Step * (0 - 1) = - Step
  BY <1>1
<1>3. ASSUME i <= k PROVE \E y \in Nat : Step * (k - 1) = (x - Step) + y /\ (i < k => Step <= y)
  <2> DEFINE d == k - i
             y == Step * d
  <2>1. d \in Nat /\ (i < k => d - 1 \in Nat)
    BY <1>3
  <2>2. Step * (k - 1) = (x - Step) + y
    <3>1. k - 1 = i - 1 + d
      OBVIOUS
    <3> HIDE DEF d
    <3>2. Step * (i - 1 + d) = Step * (i - 1) + Step * d
      BY <1>1, <2>1
    <3> QED BY <1>2, <3>1, <3>2
  <2>3. y \in Nat /\ (i < k => Step <= y)
    <3> HIDE DEF d
    <3>1. y \in Nat
      BY <1>1, <2>1
    <3>2. ASSUME d - 1 \in Nat PROVE Step <= y
      <4>1. Step * d = Step * (d - 1) + Step /\ Step * (d - 1) \in Nat
        BY <1>1, <2>1, <3>2
      <4> QED BY <1>1, <4>1
    <3> QED BY <2>1, <3>1, <3>2
  <2> HIDE DEF y
  <2> QED BY <2>2, <2>3
<1> HIDE DEF x
<1>4. i <= k => ChangeTime(i) <= ChangeTime(k) /\ (i < k => ChangeTime(i) + Step <= ChangeTime(k))
  <2>1. SUFFICES ASSUME i <= k
                 PROVE ChangeTime(i) <= ChangeTime(k) /\ (i < k => ChangeTime(i) + Step <= ChangeTime(k))
    OBVIOUS
  <2>2. PICK y \in Nat : Step * (k - 1) = (x - Step) + y /\ (i < k => Step <= y)
    BY <1>3, <2>1
  <2>3. ChangeTime(i) = Base + (x - Step) /\ ChangeTime(k) = Base + ((x - Step) + y)
    BY <1>2, <2>2 DEF ChangeTime
  <2> QED BY <1>1, <2>2, <2>3
<1>5. ChangeTime(i) = Base + (x - Step) /\ ChangeTime(i + 1) = Base + x /\ ChangeTime(0) = Base + (- Step)
  BY <1>2 DEF ChangeTime
<1>6. ChangeTime(i) \in Nat /\ ChangeTime(i + 1) = ChangeTime(i) + Step /\ ChangeTime(0) = Base - Step
  BY <1>1, <1>5
<1>7. i < k => i <= k
  OBVIOUS
<1> QED BY <1>4, <1>6, <1>7

LEMMA Appended ==
  ASSUME NEW s \in Seq(BlockType), NEW b \in BlockType
  PROVE  /\ Append(s, b) \in Seq(BlockType)
         /\ Len(Append(s, b)) = Len(s) + 1 /\ Len(s) \in Nat
         /\ Append(s, b)[Len(s) + 1] = b
         /\ \A j \in 1 .. Len(s) : Append(s, b)[j] = s[j]
  OBVIOUS

LEMMA BlockIs ==
  ASSUME Types, now' \in Nat, NEW n \in 0 .. 3
  PROVE  /\ Block(n) \in BlockType
         /\ Block(n).at = seen /\ Block(n).minute = now' /\ Block(n).lines = n
         /\ Block(n).clock = (started + now') % Day
PROOF
<1>1. (started + now') % Day \in 0 .. Day - 1
  <2>1. started + now' \in Nat
    <3>1. started \in Nat
      BY DEF Types, Scalars
    <3> QED BY <3>1, Sums, Zenon
  <2> QED BY <2>1, Constants
<1>3. seen \in SUBSET Nat
  BY DEF Types
<1>4. Block(n) = [at |-> seen, minute |-> now', clock |-> (started + now') % Day, lines |-> n]
  BY DEF Block
<1> HIDE DEF Block
<1> QED BY <1>1, <1>3, <1>4 DEF BlockType

(* A run starts with the invariant.                                        *)
LEMMA InitStats == Init => StatsInv /\ ParsedInv
PROOF
<1> SUFFICES ASSUME Init PROVE StatsInv /\ ParsedInv
  OBVIOUS
<1>0. /\ memory \in {"dram", "cxl"} /\ started \in StartTimes
      /\ pc = "running" /\ how = "" /\ now = 0
      /\ set = 0 /\ due = Base - Step /\ device = 0 /\ seen = {0}
      /\ log = << >> /\ slips = 0 /\ late = 0 /\ failed = FALSE
  BY Zenon DEF Init
<1>1. log = << >> /\ Len(log) = 0 /\ log \in Seq(BlockType)
  <2>1. log = << >>
    BY <1>0
  <2>2. Len(log) = 0
    BY <2>1
  <2>3. log \in Seq(BlockType)
    BY <2>1
  <2> QED BY <2>1, <2>2, <2>3
<1>2. started \in Nat
  BY <1>0, Constants
<1>3. ChangeTime(0) = Base - Step /\ Base - Step \in Nat
  BY Constants, Times
<1>4. Types
  <2>1. Scalars
    <3>1. due \in Nat /\ set \in 0 .. NumLatencies
      <4>1. due \in Nat
        BY <1>0, <1>3
      <4>2. 0 \in 0 .. NumLatencies
        BY Constants
      <4> QED BY <1>0, <4>1, <4>2
    <3> QED BY <1>0, <1>2, <3>1 DEF Scalars
  <2>2. seen \in SUBSET Nat
    <3>1. {0} \in SUBSET Nat
      OBVIOUS
    <3> QED BY <1>0, <3>1
  <2> QED BY <1>1, <2>1, <2>2 DEF Types
<1>5. BlocksInv
  <2>1. 1 .. Len(log) = {}
    BY <1>1
  <2>2. Len(log) + slips = now
    <3>1. 0 + 0 = 0
      OBVIOUS
    <3>2. Len(log) = 0 /\ slips = 0 /\ now = 0
      BY <1>0, <1>1
    <3> QED BY <3>1, <3>2, Zenon
  <2>3. seen # {}
    BY <1>0, Zenon
  <2> QED BY <2>1, <2>2, <2>3 DEF BlocksInv
<1>6. ScriptInv
  <2> DEFINE c == ChangeTime(set)
  <2>1. c = ChangeTime(0) /\ set = 0 /\ due = Base - Step /\ late = 0 /\ now = 0 /\ device = set
    BY <1>0, Zenon
  <2>2. c \in Nat /\ due = c
    BY <1>3, <2>1
  <2> HIDE DEF c
  <2>3. /\ c <= due /\ due <= c + late /\ now <= c + late /\ ~(set > 0)
    BY <2>1, <2>2
  <2>4. log = << >>
    BY <1>0
  <2> QED BY <2>1, <2>3, <2>4, Zenon DEF ScriptInv, c
<1>7. KilledInv
  BY <1>0, Zenon DEF KilledInv
<1>8. MeasuredInv
  <2>1. 2 .. Len(log) = {}
    BY <1>1
  <2> QED BY <2>1 DEF MeasuredInv
<1>9. ParsedInv
  BY <1>0, Zenon DEF ParsedInv
<1> QED BY <1>4, <1>5, <1>6, <1>7, <1>8, <1>9 DEF StatsInv

(* What is known of a block, and of the variables, one fact at a time.     *)
LEMMA BlockFacts ==
  ASSUME Types, BlocksInv, NEW j \in 1 .. Len(log)
  PROVE  /\ BlockOK(j) /\ log[j] \in BlockType /\ log[j].minute \in Nat
         /\ j <= log[j].minute /\ log[j].minute <= j + slips /\ j \in Nat
         /\ log[j].at # {}
PROOF
<1>1. BlockOK(j)
  BY DEF BlocksInv
<1>2. log[j] \in BlockType
  BY DEF Types
<1>3. log[j].minute \in Nat
  BY <1>2 DEF BlockType
<1>4. j <= log[j].minute /\ log[j].minute <= j + slips /\ log[j].at # {}
  BY <1>1 DEF BlockOK
<1> QED BY <1>1, <1>2, <1>3, <1>4

(* A step that writes no block.                                            *)
LEMMA BlocksStay ==
  ASSUME Types, BlocksInv, Types', UNCHANGED <<log, started>>, slips <= slips',
         pc = "running" \/ pc' # "running"
  PROVE  \A j \in 1 .. Len(log)' : BlockOK(j)'
PROOF
<1>1. SUFFICES ASSUME NEW j \in 1 .. Len(log) PROVE BlockOK(j)'
  OBVIOUS
<1>2. /\ BlockOK(j) /\ log[j].minute \in Nat /\ log[j].minute <= j + slips /\ j \in Nat
  BY BlockFacts
<1>3. slips \in Nat /\ slips' \in Nat
  BY DEF Types, Scalars
<1>4. log[j].minute <= j + slips'
  BY <1>2, <1>3
<1> QED BY <1>2, <1>4 DEF BlockOK

(* What ScriptInv says of a run that is going on.                          *)
LEMMA ScriptFacts ==
  ASSUME StatsInv, memory = "cxl"
  PROVE  /\ ChangeTime(set) \in Nat /\ ChangeTime(set) <= due /\ due <= ChangeTime(set) + late
         /\ pc = "running" => now <= ChangeTime(set) + late
         /\ set > 0 => due - Step <= now
         /\ due \in Nat /\ now \in Nat /\ late \in Nat /\ set \in Nat /\ slips \in Nat
         /\ set \in 0 .. NumLatencies
PROOF
<1>1. due \in Nat /\ now \in Nat /\ late \in Nat /\ set \in 0 .. NumLatencies /\ slips \in Nat
  BY DEF StatsInv, Types, Scalars
<1>2. set \in Nat /\ ChangeTime(set) \in Nat
  BY <1>1, Times
<1>3. /\ ChangeTime(set) <= due /\ due <= ChangeTime(set) + late
      /\ pc = "running" => now <= ChangeTime(set) + late
      /\ set > 0 => due - Step <= now
  BY DEF StatsInv, ScriptInv
<1> QED BY <1>1, <1>2, <1>3

(* The latency a new block measured.                                       *)
LEMMA NewBlock ==
  ASSUME StatsInv, memory = "cxl", pc = "running", ~failed, log # << >>,
         NEW l \in Nat, l = late \/ l = late + 1, now >= due => l = late + 1,
         NEW i \in 1 .. NumLatencies,
         ChangeTime(i - 1) + l < Len(log) + 1, now + 1 <= ChangeTime(i)
  PROVE  seen = {i}
PROOF
<1> DEFINE n == Len(log)
           c == ChangeTime(set)
           a == ChangeTime(i - 1)
           b == ChangeTime(i)
           m == log[n].minute
<1>1. /\ c \in Nat /\ c <= due /\ due <= c + late /\ now <= c + late
      /\ set > 0 => due - Step <= now
      /\ due \in Nat /\ now \in Nat /\ late \in Nat /\ set \in Nat /\ slips \in Nat
  BY ScriptFacts
<1>2. n \in Nat \ {0} /\ n \in 1 .. n
  <2>1. log \in Seq(BlockType)
    BY DEF StatsInv, Types
  <2> QED BY <2>1
<1>3. n + slips = now
  BY DEF StatsInv, BlocksInv
<1>4. m \in Nat /\ n <= m
  BY <1>2, BlockFacts DEF StatsInv
<1>5. i \in Nat /\ i - 1 \in Nat /\ Step \in Nat
  BY Constants
<1>6. a \in Nat /\ b \in Nat /\ b = a + Step
  <2>1. (i - 1) + 1 = i
    BY <1>5
  <2>2. a \in Nat /\ ChangeTime((i - 1) + 1) = a + Step
    BY <1>5, Times
  <2> QED BY <1>5, <2>1, <2>2, Times
<1>7. /\ set <= i - 1 => c <= a
      /\ i < set => b + Step <= c
  BY <1>1, <1>5, Times
<1>8. a + l < n + 1 /\ now + 1 <= b
  OBVIOUS
<1>9. ASSUME \/ due - Step > m \/ set # i PROVE FALSE
  <2> HIDE DEF a, b, c, n, m
  <2>1. n <= now
    BY <1>1, <1>2, <1>3
  <2>2. CASE set <= i - 1
    <3>1. c + l <= now
      BY <1>1, <1>2, <1>6, <1>7, <1>8, <2>1, <2>2
    <3>2. CASE now >= due
      BY <1>1, <3>1, <3>2
    <3>3. CASE ~(now >= due)
      BY <1>1, <3>1, <3>3
    <3> QED BY <3>2, <3>3
  <2>3. CASE i < set
    <3>1. due - Step <= now /\ b + Step <= c
      BY <1>1, <1>5, <1>7, <2>3
    <3> QED BY <1>1, <1>5, <1>6, <1>8, <3>1
  <2>4. CASE set = i
    <3>1. c = b
      BY <2>4 DEF b, c
    <3>2. due - Step > m
      BY <1>9, <2>4
    <3> QED BY <1>1, <1>2, <1>4, <1>5, <1>6, <1>8, <3>1, <3>2
  <2> QED BY <1>1, <1>5, <2>2, <2>3, <2>4
<1>10. due - Step <= m /\ set = i
  <2>1. due - Step \in Int /\ m \in Int
    BY <1>1, <1>4, <1>5
  <2> HIDE DEF m
  <2> QED BY <1>9, <2>1
<1> QED BY <1>10 DEF StatsInv, ScriptInv

(* What a step appends to the log.                                         *)
LEMMA LogGrows ==
  ASSUME StatsInv, pc = "running", now' \in Nat, now' = now + 1, NEW n \in 0 .. 3,
         log' = Append(log, Block(n))
  PROVE  /\ log' \in Seq(BlockType) /\ Len(log') = Len(log) + 1 /\ Len(log) \in Nat
         /\ \A j \in 1 .. Len(log) : log'[j] = log[j] /\ log[j].lines = 3
         /\ log'[Len(log) + 1].at = seen /\ seen # {}
         /\ log'[Len(log) + 1].minute = now + 1
         /\ log'[Len(log) + 1].lines = n
         /\ log'[Len(log) + 1].clock = (started + (now + 1)) % Day
         /\ Len(log) + slips = now
PROOF
<1>1. Types /\ BlocksInv
  BY DEF StatsInv
<1>2. log \in Seq(BlockType)
  BY <1>1 DEF Types
<1>3. Block(n) \in BlockType /\ Block(n).at = seen /\ Block(n).minute = now' /\ Block(n).lines = n
      /\ Block(n).clock = (started + now') % Day
  BY <1>1, BlockIs
<1> DEFINE b == Block(n)
<1> HIDE DEF b
<1>4. /\ Append(log, b) \in Seq(BlockType) /\ Len(Append(log, b)) = Len(log) + 1 /\ Len(log) \in Nat
      /\ Append(log, b)[Len(log) + 1] = b
      /\ \A j \in 1 .. Len(log) : Append(log, b)[j] = log[j]
  <2>1. b \in BlockType
    BY <1>3 DEF b
  <2> QED BY <1>2, <2>1, Appended
<1>5. \A j \in 1 .. Len(log) : log[j].lines = 3
  BY <1>1 DEF BlocksInv, BlockOK
<1>6. log' = Append(log, b) /\ b.at = seen /\ b.minute = now + 1 /\ b.lines = n
      /\ b.clock = (started + (now + 1)) % Day
  BY <1>3 DEF b
<1>7. seen # {} /\ Len(log) + slips = now
  BY <1>1 DEF BlocksInv
<1> QED BY <1>4, <1>5, <1>6, <1>7

LEMMA GrownBlocks ==
  ASSUME StatsInv, pc = "running", now' \in Nat, now' = now + 1, NEW n \in 0 .. 3,
         n # 3 => pc' # "running",
         log' = Append(log, Block(n)), UNCHANGED <<slips, started>>
  PROVE  \A j \in 1 .. Len(log') : BlockOK(j)'
PROOF
<1>1. /\ log' \in Seq(BlockType) /\ Len(log') = Len(log) + 1 /\ Len(log) \in Nat
      /\ \A j \in 1 .. Len(log) : log'[j] = log[j] /\ log[j].lines = 3
      /\ log'[Len(log) + 1].at = seen /\ seen # {}
      /\ log'[Len(log) + 1].minute = now + 1
      /\ log'[Len(log) + 1].lines = n
      /\ log'[Len(log) + 1].clock = (started + (now + 1)) % Day
      /\ Len(log) + slips = now
  BY LogGrows
<1>2. ASSUME NEW j \in 1 .. Len(log) PROVE BlockOK(j)'
  <2>1. BlockOK(j)
    BY BlockFacts DEF StatsInv
  <2>2. log'[j] = log[j] /\ log'[j].lines = 3
    BY <1>1
  <2> QED BY <2>1, <2>2 DEF BlockOK
<1>3. PICK k : k = Len(log) + 1
  OBVIOUS
<1>4. BlockOK(k)'
  <2>1. slips \in Nat /\ now \in Nat
    BY DEF StatsInv, Types, Scalars
  <2>2. k <= now + 1 /\ now + 1 <= k + slips
    BY <1>1, <1>3, <2>1
  <2>3. /\ log'[k].minute = now + 1 /\ log'[k].clock = (started + (now + 1)) % Day
        /\ log'[k].at # {} /\ log'[k].lines = n /\ k = Len(log')
    BY <1>1, <1>3
  <2>4. /\ k <= log'[k].minute /\ log'[k].minute <= k + slips'
        /\ log'[k].clock = (started' + log'[k].minute) % Day
        /\ log'[k].at # {}
        /\ log'[k].lines # 3 => pc' # "running" /\ k = Len(log')
    BY <2>2, <2>3
  <2> QED BY <2>4 DEF BlockOK
<1>5. \A j \in 1 .. Len(log') : j \in 1 .. Len(log) \/ j = k
  BY <1>1, <1>3
<1> QED BY <1>2, <1>4, <1>5

-----------------------------------------------------------------------------
(* A minute passes: the log grows by a block or the block slips; the one   *)
(* case that needs an argument is what the new block measured (NewBlock).  *)
LEMMA MinuteInv == ASSUME StatsInv, Minute PROVE StatsInv'
PROOF
<1>1. /\ pc = "running" /\ pc' = "running" /\ now' = now + 1
      /\ UNCHANGED <<memory, how, started, set, due, device, failed>>
  BY DEF Minute
<1>2. /\ late' = late \/ late' = late + 1
      /\ memory = "cxl" /\ now >= due => late' = late + 1
  BY DEF Minute
<1>3. \/ log' = Append(log, Block(3)) /\ seen' = {device} /\ slips' = slips
      \/ slips' = slips + 1 /\ log' = log /\ seen' = seen
  BY ItemsIs DEF Minute
<1>c. how = ""
  BY <1>1 DEF StatsInv, Types, Scalars
<1>4. now \in Nat /\ late \in Nat /\ slips \in Nat /\ device \in Nat /\ due \in Nat
  BY <1>1 DEF StatsInv, Types, Scalars
<1>5. now' \in Nat /\ late' \in Nat /\ late <= late' /\ slips' \in Nat /\ slips <= slips'
  <2>1. PICK n, l, s : n = now' /\ l = late' /\ s = slips'
    OBVIOUS
  <2>2. n \in Nat
    BY <1>1, <1>4, <2>1
  <2>3. l \in Nat /\ late <= l
    <3>1. l = late \/ l = late + 1
      BY <1>2, <2>1
    <3> QED BY <1>4, <3>1
  <2>4. s \in Nat /\ slips <= s
    <3>1. s = slips \/ s = slips + 1
      BY <1>3, <2>1
    <3> QED BY <1>4, <3>1
  <2> QED BY <2>1, <2>2, <2>3, <2>4, Zenon
<1>6. Types /\ BlocksInv /\ ScriptInv /\ MeasuredInv
  BY DEF StatsInv
<1>7. Types'
  <2>1. Scalars'
    <3>1. Scalars
      BY <1>6 DEF Types
    <3> QED BY <1>1, <1>5, <3>1 DEF Scalars
  <2>2. log' \in Seq(BlockType)
    <3>1. CASE log' = Append(log, Block(3))
      BY <1>1, <1>5, <3>1, LogGrows
    <3>2. CASE log' = log
      BY <1>6, <3>2 DEF Types
    <3> QED BY <1>3, <3>1, <3>2
  <2>3. seen' \in SUBSET Nat
    <3>1. seen \in SUBSET Nat
      BY <1>6 DEF Types
    <3>2. {device} \in SUBSET Nat
      BY <1>4
    <3> QED BY <1>3, <3>1, <3>2
  <2> QED BY <2>1, <2>2, <2>3 DEF Types
<1>a. ASSUME memory = "cxl"
      PROVE  /\ ChangeTime(set) <= due /\ due <= ChangeTime(set) + late'
             /\ now' <= ChangeTime(set) + late'
             /\ set > 0 => due - Step <= now'
             /\ ~failed => device = set
  <2> DEFINE c == ChangeTime(set)
  <2>1. /\ c \in Nat /\ c <= due /\ due <= c + late /\ now <= c + late
        /\ set > 0 => due - Step <= now
    BY <1>1, <1>a, ScriptFacts
  <2>2. ~failed => device = set
    BY <1>6, <1>a DEF ScriptInv
  <2>3. Step \in Nat
    BY Constants
  <2> HIDE DEF c
  <2>4. PICK l : l = late'
    OBVIOUS
  <2>5. l \in Nat /\ late <= l /\ (now >= due => l = late + 1)
    BY <1>2, <1>5, <1>a, <2>4
  <2>6. c <= due /\ due <= c + l
    BY <1>4, <2>1, <2>5
  <2>7. now + 1 <= c + l
    BY <1>4, <2>1, <2>5
  <2>8. set > 0 => due - Step <= now + 1
    <3>1. ASSUME due - Step <= now PROVE due - Step <= now + 1
      BY <1>4, <2>3, <3>1
    <3> QED BY <2>1, <3>1
  <2> QED BY <1>1, <2>2, <2>4, <2>6, <2>7, <2>8, Zenon DEF c
<1>b. ASSUME memory = "cxl", ~failed, NEW j \in 2 .. Len(log), NEW i \in 1 .. NumLatencies,
             ChangeTime(i - 1) + late' < j, log[j].minute <= ChangeTime(i)
      PROVE  log[j].at = {i}
  <2>1. i - 1 \in Nat /\ j \in Nat
    BY Constants
  <2>2. ChangeTime(i - 1) + late < j
    <3> DEFINE a == ChangeTime(i - 1)
    <3>1. a \in Nat
      BY <2>1, Times
    <3>2. PICK l : l = late'
      OBVIOUS
    <3>3. l \in Nat /\ late <= l /\ a + l < j
      BY <1>5, <1>b, <3>2
    <3> HIDE DEF a
    <3>4. a + late < j
      BY <1>4, <2>1, <3>1, <3>3
    <3> QED BY <3>4 DEF a
  <2> QED BY <1>c, <1>6, <1>b, <2>2 DEF MeasuredInv
<1>8. CASE log' = Append(log, Block(3)) /\ seen' = {device} /\ slips' = slips
  <2>1. /\ log' \in Seq(BlockType) /\ Len(log') = Len(log) + 1 /\ Len(log) \in Nat
        /\ \A j \in 1 .. Len(log) : log'[j] = log[j] /\ log[j].lines = 3
        /\ log'[Len(log) + 1].at = seen /\ seen # {}
        /\ log'[Len(log) + 1].minute = now + 1
        /\ Len(log) + slips = now
    BY <1>1, <1>5, <1>8, LogGrows
  <2>2. BlocksInv'
    <3>1. \A j \in 1 .. Len(log') : BlockOK(j)'
      BY <1>1, <1>5, <1>8, GrownBlocks
    <3>2. Len(log') + slips' = now'
      <4>1. (Len(log) + 1) + slips = now + 1
        BY <1>4, <2>1
      <4> QED BY <1>1, <1>8, <2>1, <4>1
    <3>3. seen' # {}
      BY <1>8
    <3> QED BY <3>1, <3>2, <3>3 DEF BlocksInv
  <2>3. ScriptInv'
    <3>1. ASSUME memory = "cxl", ~failed PROVE seen' = {set}
      BY <1>6, <1>8, <3>1 DEF ScriptInv
    <3> QED BY <1>1, <1>a, <3>1 DEF ScriptInv
  <2>4. MeasuredInv'
    <3>1. SUFFICES ASSUME memory = "cxl", ~failed, NEW j \in 2 .. Len(log'), NEW i \in 1 .. NumLatencies,
                          ChangeTime(i - 1) + late' < j, log'[j].minute <= ChangeTime(i)
                   PROVE  log'[j].at = {i}
      BY <1>1 DEF MeasuredInv
    <3>2. CASE j \in 2 .. Len(log)
      BY <1>b, <2>1, <3>1, <3>2
    <3>3. CASE j = Len(log) + 1
      <4>1. log # << >>
        BY <2>1, <3>3
      <4>2. now + 1 <= ChangeTime(i) /\ ChangeTime(i - 1) + late' < Len(log) + 1
        BY <2>1, <3>1, <3>3
      <4>3. seen = {i}
        BY <1>1, <1>2, <1>5, <3>1, <4>1, <4>2, NewBlock
      <4> QED BY <2>1, <3>3, <4>3
    <3> QED BY <2>1, <3>2, <3>3
  <2> QED BY <1>1, <1>c, <1>7, <2>2, <2>3, <2>4 DEF StatsInv, KilledInv
<1>9. CASE slips' = slips + 1 /\ log' = log /\ seen' = seen
  <2>1. BlocksInv'
    <3>1. \A j \in 1 .. Len(log)' : BlockOK(j)'
      BY <1>1, <1>5, <1>6, <1>7, <1>9, BlocksStay
    <3>2. Len(log) + slips = now /\ seen # {} /\ Len(log) \in Nat
      BY <1>1, <1>6 DEF BlocksInv, Types
    <3>3. Len(log) + slips' = now'
      <4>1. Len(log) + (slips + 1) = now + 1
        BY <1>4, <3>2
      <4> QED BY <1>1, <1>9, <4>1
    <3> QED BY <1>9, <3>1, <3>2, <3>3 DEF BlocksInv
  <2>2. ScriptInv'
    <3>1. ASSUME memory = "cxl", ~failed, log # << >>, due - Step <= log[Len(log)].minute
          PROVE  seen = {set}
      BY <1>1, <1>6, <3>1 DEF ScriptInv
    <3> QED BY <1>1, <1>9, <1>a, <3>1 DEF ScriptInv
  <2>3. MeasuredInv'
    BY <1>1, <1>9, <1>b DEF MeasuredInv
  <2> QED BY <1>1, <1>c, <1>7, <2>1, <2>2, <2>3 DEF StatsInv, KilledInv
<1> QED BY <1>3, <1>8, <1>9

(* The script sets the next latency, or fails to (README.md:233-241).      *)
LEMMA SetLatencyInv == ASSUME StatsInv, SetLatency PROVE StatsInv'
PROOF
<1>1. /\ pc = "running" /\ memory = "cxl" /\ now >= due /\ set < NumLatencies
      /\ set' = set + 1 /\ due' = now + Step
      /\ UNCHANGED <<memory, pc, how, now, started, log, slips, late>>
  BY DEF SetLatency
<1>2. \/ device' = set + 1 /\ failed' = failed
      \/ failed' = TRUE /\ device' = device
  BY DEF SetLatency
<1>3. seen' = (IF log # << >> /\ Last(log).minute = now THEN {} ELSE seen) \cup {device'}
  BY DEF SetLatency
<1>4. Types /\ BlocksInv /\ ScriptInv /\ MeasuredInv
  BY DEF StatsInv
<1>5. /\ ChangeTime(set) \in Nat /\ ChangeTime(set) <= due /\ due <= ChangeTime(set) + late
      /\ now <= ChangeTime(set) + late
      /\ due \in Nat /\ now \in Nat /\ late \in Nat /\ set \in Nat /\ slips \in Nat
  BY <1>1, ScriptFacts
<1>6. Step \in Nat /\ NumLatencies \in Nat
  BY Constants
<1>7. device \in Nat /\ failed \in BOOLEAN /\ seen \in SUBSET Nat
  BY <1>4 DEF Types, Scalars
<1>8. Types'
  <2>1. set + 1 \in 0 .. NumLatencies /\ set + 1 \in Nat /\ now + Step \in Nat
    BY <1>1, <1>5, <1>6
  <2>2. device' \in Nat /\ failed' \in BOOLEAN
    BY <1>2, <1>7, <2>1
  <2>3. seen' \in SUBSET Nat
    <3>1. {device'} \in SUBSET Nat /\ {} \in SUBSET Nat
      BY <2>2
    <3> QED BY <1>3, <1>7, <3>1
  <2>4. Scalars'
    <3>1. Scalars
      BY <1>4 DEF Types
    <3> QED BY <1>1, <2>1, <2>2, <3>1 DEF Scalars
  <2>5. log' \in Seq(BlockType)
    BY <1>1, <1>4 DEF Types
  <2> QED BY <2>3, <2>4, <2>5 DEF Types
<1>9. BlocksInv'
  <2>1. \A j \in 1 .. Len(log)' : BlockOK(j)'
    <3>1. slips <= slips'
      BY <1>1, <1>5
    <3> QED BY <1>1, <1>4, <1>8, <3>1, BlocksStay
  <2>2. seen' # {}
    BY <1>3
  <2> QED BY <1>1, <1>4, <2>1, <2>2 DEF BlocksInv
<1>10. ScriptInv'
  <2> DEFINE c == ChangeTime(set)
             d == ChangeTime(set + 1)
  <2>1. d = c + Step /\ c \in Nat
    BY <1>5, Times
  <2> HIDE DEF c, d
  <2>2. c <= due /\ now <= c + late
    BY <1>5 DEF c
  <2>3. now >= due
    BY <1>1
  <2>4. d <= now + Step /\ now + Step <= d + late /\ now <= d + late
    BY <1>5, <1>6, <2>1, <2>2, <2>3
  <2>5. (now + Step) - Step = now /\ now <= now
    BY <1>5, <1>6
  <2>6. ASSUME ~failed' PROVE device' = set'
    BY <1>1, <1>2, <2>6
  <2>7. ASSUME ~failed', log # << >>, now <= log[Len(log)].minute PROVE seen' = {set'}
    <3>1. Len(log) \in 1 .. Len(log) /\ Len(log) \in Nat
      <4>1. log \in Seq(BlockType)
        BY <1>4 DEF Types
      <4> QED BY <2>7, <4>1
    <3>2. Len(log) + slips = now
      BY <1>1, <1>4 DEF BlocksInv
    <3>3. PICK m : m = log[Len(log)].minute
      OBVIOUS
    <3>4. m \in Nat /\ m <= Len(log) + slips
      BY <1>4, <3>1, <3>3, BlockFacts
    <3>5. m = now
      <4>1. now <= m
        BY <2>7, <3>3
      <4> QED BY <1>5, <3>2, <3>4, <4>1
    <3>6. Last(log).minute = now
      BY <3>3, <3>5 DEF Last
    <3> QED BY <1>3, <2>6, <2>7, <3>6
  <2>8. d = ChangeTime(set') /\ due' = now + Step
    BY <1>1 DEF d
  <2>9. /\ ChangeTime(set') <= due' /\ due' <= ChangeTime(set') + late'
        /\ now' <= ChangeTime(set') + late'
    BY <1>1, <2>4, <2>8, Zenon
  <2>10. due' - Step = now /\ due' - Step <= now'
    BY <1>1, <2>5
  <2>11. ~failed' /\ log' # << >> /\ due' - Step <= log'[Len(log')].minute => seen' = {set'}
    BY <1>1, <2>7, <2>10
  <2> QED BY <2>6, <2>9, <2>10, <2>11, Zenon DEF ScriptInv
<1>11. KilledInv'
  <2>1. how' = ""
    BY <1>1, <1>4 DEF Types, Scalars
  <2> QED BY <2>1 DEF KilledInv
<1>12. MeasuredInv'
  <2>1. ASSUME ~failed' PROVE ~failed
    BY <1>2, <2>1
  <2> QED BY <1>1, <1>4, <2>1 DEF MeasuredInv
<1> QED BY <1>8, <1>9, <1>10, <1>11, <1>12 DEF StatsInv

-----------------------------------------------------------------------------
(* The block a signal cuts is behind all windows.                          *)
LEMMA StopInv ==
  ASSUME StatsInv, NEW cause \in {"killed", "crashed"}, Stop(cause),
         cause = "killed" /\ memory = "cxl" => set = NumLatencies /\ now >= due
  PROVE  StatsInv'
PROOF
<1>1. /\ pc = "running" /\ pc' = "ended" /\ how' = cause /\ now' = now + 1
      /\ UNCHANGED <<memory, started, set, due, device, seen, slips, late, failed>>
  BY DEF Stop, errors
<1>2. log' = log \/ \E n \in 0 .. 3 : log' = Append(log, Block(n))
  BY ItemsIs DEF Stop
<1>4. Types /\ BlocksInv /\ ScriptInv /\ MeasuredInv
  BY DEF StatsInv
<1>5. now \in Nat /\ late \in Nat /\ slips \in Nat /\ due \in Nat
  BY <1>4 DEF Types, Scalars
<1>6. now' \in Nat
  BY <1>1, <1>5
<1>7. /\ log' \in Seq(BlockType) /\ Len(log) \in Nat /\ Len(log) + slips = now
      /\ \A j \in 1 .. Len(log) : log'[j] = log[j] /\ log[j].lines = 3
      /\ \/ Len(log') = Len(log)
         \/ /\ Len(log') = Len(log) + 1
            /\ log'[Len(log) + 1].minute = now + 1
  <2>1. CASE log' = log
    <3>1. log \in Seq(BlockType) /\ Len(log) \in Nat
      BY <1>4 DEF Types
    <3>2. \A j \in 1 .. Len(log) : log[j].lines = 3
      BY <1>1, <1>4 DEF BlocksInv, BlockOK
    <3>3. Len(log) + slips = now
      BY <1>1, <1>4 DEF BlocksInv
    <3> QED BY <2>1, <3>1, <3>2, <3>3
  <2>2. CASE \E n \in 0 .. 3 : log' = Append(log, Block(n))
    <3>1. PICK n \in 0 .. 3 : log' = Append(log, Block(n))
      BY <2>2
    <3> QED BY <1>1, <1>6, <3>1, LogGrows
  <2> QED BY <1>2, <2>1, <2>2
<1>8. Types'
  <2>1. Scalars
    BY <1>4 DEF Types
  <2>2. Scalars'
    BY <1>1, <1>6, <2>1 DEF Scalars
  <2> QED BY <1>1, <1>4, <1>7, <2>2 DEF Types
<1>9. BlocksInv'
  <2>1. CASE log' = log
    <3>1. slips <= slips'
      BY <1>1, <1>5
    <3>2. \A j \in 1 .. Len(log)' : BlockOK(j)'
      BY <1>1, <1>4, <1>8, <2>1, <3>1, BlocksStay
    <3> QED BY <1>1, <3>2 DEF BlocksInv
  <2>2. CASE \E n \in 0 .. 3 : log' = Append(log, Block(n))
    <3>1. PICK n \in 0 .. 3 : log' = Append(log, Block(n))
      BY <2>2
    <3>2. \A j \in 1 .. Len(log') : BlockOK(j)'
      BY <1>1, <1>6, <3>1, GrownBlocks
    <3> QED BY <1>1, <3>2 DEF BlocksInv
  <2> QED BY <1>2, <2>1, <2>2
<1>10. ScriptInv'
  <2>1. ASSUME memory = "cxl", set > 0 PROVE due - Step <= now + 1
    <3>1. due - Step <= now
      BY <2>1, ScriptFacts
    <3> QED BY <1>5, <3>1, Constants
  <2>2. memory = "cxl" => /\ ChangeTime(set) <= due /\ due <= ChangeTime(set) + late
                          /\ ~failed => device = set
    BY <1>4 DEF ScriptInv
  <2> QED BY <1>1, <2>1, <2>2 DEF ScriptInv
<1>11. ASSUME memory = "cxl", cause = "killed"
       PROVE  /\ Len(log) + slips >= ChangeTime(NumLatencies)
              /\ ChangeTime(NumLatencies) <= now /\ ChangeTime(NumLatencies) \in Nat
  <2> DEFINE c == ChangeTime(NumLatencies)
  <2>1. now >= due /\ c <= due /\ c \in Nat
    <3>1. ChangeTime(set) <= due /\ ChangeTime(set) \in Nat
      BY <1>11, ScriptFacts
    <3> QED BY <1>11, <3>1
  <2> HIDE DEF c
  <2>2. c <= now
    BY <1>5, <2>1
  <2>3. Len(log) + slips >= c
    BY <1>5, <1>7, <2>1, <2>2
  <2> QED BY <2>1, <2>2, <2>3 DEF c
<1>12. KilledInv'
  <2>1. SUFFICES ASSUME memory = "cxl", cause = "killed"
                 PROVE  /\ Len(log') + slips >= ChangeTime(NumLatencies)
                        /\ \A k \in 1 .. Len(log') :
                             k + slips <= ChangeTime(NumLatencies) => log'[k].lines = 3
    BY <1>1 DEF KilledInv
  <2>2. PICK c : c = ChangeTime(NumLatencies)
    OBVIOUS
  <2>3. Len(log) + slips >= c /\ c <= now /\ c \in Nat
    BY <1>11, <2>1, <2>2
  <2>4. Len(log') \in Nat /\ Len(log) <= Len(log')
    BY <1>7
  <2>5. Len(log') + slips >= c
    BY <1>5, <1>7, <2>3, <2>4
  <2>6. ASSUME NEW k \in 1 .. Len(log'), k + slips <= c PROVE log'[k].lines = 3
    <3>1. k <= Len(log)
      BY <1>5, <1>7, <2>3, <2>6
    <3> QED BY <1>7, <3>1
  <2> QED BY <2>2, <2>5, <2>6
<1>13. MeasuredInv'
  <2>1. SUFFICES ASSUME memory = "cxl", cause # "crashed", ~failed,
                        NEW j \in 2 .. Len(log'), NEW i \in 1 .. NumLatencies,
                        ChangeTime(i - 1) + late < j, log'[j].minute <= ChangeTime(i)
                 PROVE  log'[j].at = {i}
    BY <1>1 DEF MeasuredInv
  <2>2. CASE j \in 2 .. Len(log)
    <3>1. how = ""
      BY <1>1, <1>4 DEF Types, Scalars
    <3>2. log'[j] = log[j]
      BY <1>7, <2>2
    <3> QED BY <1>4, <2>1, <2>2, <3>1, <3>2 DEF MeasuredInv
  <2>3. CASE j \notin 2 .. Len(log)
    <3>1. j = Len(log) + 1 /\ log'[j].minute = now + 1
      BY <1>7, <2>3
    <3>2. PICK a, b : a = ChangeTime(i) /\ b = ChangeTime(NumLatencies)
      OBVIOUS
    <3>3. b <= now /\ b \in Nat
      BY <1>11, <2>1, <3>2
    <3>4. a \in Nat /\ a <= b
      <4>1. i \in Nat /\ NumLatencies \in Nat /\ i <= NumLatencies
        BY Constants
      <4> QED BY <3>2, <4>1, Times
    <3>5. now + 1 <= a
      BY <2>1, <3>1, <3>2
    <3> QED BY <1>5, <3>3, <3>4, <3>5
  <2> QED BY <2>2, <2>3
<1> QED BY <1>8, <1>9, <1>10, <1>12, <1>13 DEF StatsInv

(* A step that changes nothing StatsInv is about.                          *)
LEMMA QuietStats ==
  ASSUME StatsInv, UNCHANGED <<memory, how, now, started, set, due, device, seen, log, slips, late, failed>>,
         pc' \in {"running", "ended", "parsed"}, pc = "running" <=> pc' = "running"
  PROVE  StatsInv'
PROOF
<1>1. Types'
  BY DEF StatsInv, Types, Scalars
<1>2. BlocksInv'
  BY DEF StatsInv, BlocksInv, BlockOK
<1>3. ScriptInv'
  BY DEF StatsInv, ScriptInv
<1>4. KilledInv' /\ MeasuredInv'
  BY DEF StatsInv, KilledInv, MeasuredInv
<1> QED BY <1>1, <1>2, <1>3, <1>4 DEF StatsInv

(* Every name is a line of a block and belongs to a pattern.               *)
LEMMA ItemNames ==
  ASSUME NEW name \in ToSet(Items)
  PROVE  /\ \E p \in Patterns : name \in ToSet(p)
         /\ Line(name) \in 1 .. 3
PROOF
<1>1. Items \in [1 .. 3 -> {"cache_gets_total", "find_p50", "cache_gets"}]
      /\ Items[1] = "cache_gets_total" /\ Items[2] = "find_p50" /\ Items[3] = "cache_gets"
      /\ DOMAIN Items = 1 .. 3
  BY DEF Items
<1>2. PICK i \in 1 .. 3 : Items[i] = name
  BY <1>1 DEF ToSet
<1>3. Line(name) \in 1 .. 3
  BY <1>1, <1>2 DEF Line
<1>4. name = "cache_gets_total" \/ name = "find_p50" \/ name = "cache_gets"
  BY <1>1, <1>2
<1>5. /\ "find_p50" \in ToSet(<<"find_p50">>)
      /\ "cache_gets_total" \in ToSet(<<"cache_gets_total", "cache_gets">>)
      /\ "cache_gets" \in ToSet(<<"cache_gets_total", "cache_gets">>)
  BY DEF ToSet
<1>6. \E p \in Patterns : name \in ToSet(p)
  BY <1>4, <1>5 DEF Patterns
<1> QED BY <1>3, <1>6

(* Each series has one entry for each block (cachelib_parser.py:32-36).    *)
LEMMA SeriesIs ==
  ASSUME Types, NEW name \in ToSet(Items)
  PROVE  /\ Series[name] \in Seq(SUBSET Nat) /\ Len(Series[name]) = Len(log)
         /\ \A k \in 1 .. Len(log) : Series[name][k] = Entry(name, log[k])
PROOF
<1> DEFINE names == CHOOSE p \in Patterns : name \in ToSet(p)
           n == CHOOSE i \in DOMAIN names : names[i] = name
<1>1. names \in Patterns /\ name \in ToSet(names)
  BY ItemNames
<1>2. n \in DOMAIN names /\ names[n] = name
  <2> HIDE DEF names
  <2>1. \E i \in DOMAIN names : names[i] = name
    BY <1>1 DEF ToSet
  <2> QED BY <2>1
<1>3. Series[name] = [k \in DOMAIN log |-> _parse_items(names, log[k])[n]]
  BY Zenon DEF Series
<1> HIDE DEF names, n
<1>4. \A k : _parse_items(names, log[k])[n] = Entry(name, log[k])
  BY <1>2 DEF _parse_items, Entry
<1>5. DOMAIN log = 1 .. Len(log) /\ Len(log) \in Nat /\ \A k \in 1 .. Len(log) : log[k] \in BlockType
  BY DEF Types
<1>6. \A k \in 1 .. Len(log) : Entry(name, log[k]) \in SUBSET Nat
  <2>1. \A k \in 1 .. Len(log) : log[k].at \in SUBSET Nat
    BY <1>5 DEF BlockType
  <2>2. Zero \in SUBSET Nat
    BY DEF Zero
  <2> QED BY <2>1, <2>2 DEF Entry
<1>7. PICK s : s = Series[name]
  OBVIOUS
<1>8. s = [k \in 1 .. Len(log) |-> Entry(name, log[k])]
  BY <1>3, <1>4, <1>5, <1>7
<1>9. s \in [1 .. Len(log) -> SUBSET Nat] /\ \A k \in 1 .. Len(log) : s[k] = Entry(name, log[k])
  BY <1>6, <1>8
<1>10. s \in Seq(SUBSET Nat) /\ Len(s) = Len(log)
  BY <1>5, <1>9
<1> QED BY <1>7, <1>9, <1>10

(* The parser leaves behind what ParsedInv says.                           *)
LEMMA ParseInv == ASSUME Types, Parse PROVE ParsedInv'
PROOF
<1>1. log' = log /\ series' = Series /\ \E m \in 1 .. Len(log) + 1 : time' = ElapsedTimes(m)
  BY Zenon DEF Parse
<1>2. PICK m \in 1 .. Len(log) + 1 : time' = ElapsedTimes(m)
  BY <1>1
<1>3. DOMAIN log = 1 .. Len(log) /\ Len(log) \in Nat
  BY DEF Types
<1>4. Len(time') = Len(log) /\ MidnightAt(m)'
  <2>1. time' = [k \in 1 .. Len(log) |->
                   Elapsed(log[k].clock + (IF k >= m THEN Day ELSE 0),
                           log[1].clock + (IF 1 >= m THEN Day ELSE 0))]
    BY <1>2, <1>3 DEF ElapsedTimes
  <2>2. Len(time') = Len(log)
    BY <1>3, <2>1
  <2>3. \A k \in 1 .. Len(log) :
          time'[k] = Elapsed(log[k].clock + (IF k >= m THEN Day ELSE 0),
                             log[1].clock + (IF 1 >= m THEN Day ELSE 0))
    BY <2>1
  <2> QED BY <1>1, <2>2, <2>3 DEF MidnightAt
<1>5. \A name \in ToSet(Items) :
         /\ series'[name] \in Seq(SUBSET Nat) /\ Len(series'[name]) = Len(log')
         /\ \A k \in 1 .. Len(log') : series'[name][k] = Entry(name, log'[k])
  BY <1>1, SeriesIs
<1>6. \E k \in 1 .. Len(log') + 1 : MidnightAt(k)'
  BY <1>1, <1>4
<1> QED BY <1>1, <1>4, <1>5, <1>6 DEF ParsedInv

(* No block is written before the first.                                   *)
OrderInv ==
  \A j \in 1 .. Len(log) : log[1].minute <= log[j].minute /\ log[j].minute <= now

LEMMA OrderStep == ASSUME StatsInv, OrderInv, [Next]_vars PROVE OrderInv'
PROOF
<1>1. now \in Nat /\ log \in Seq(BlockType) /\ Len(log) \in Nat
      /\ \A j \in 1 .. Len(log) : log[j].minute \in Nat
  <2>1. \A j \in 1 .. Len(log) : log[j].minute \in Nat
    BY BlockFacts DEF StatsInv
  <2>2. log \in Seq(BlockType) /\ Scalars
    BY DEF StatsInv, Types
  <2>3. now \in Nat
    BY <2>2 DEF Scalars
  <2> QED BY <2>1, <2>2, <2>3
<1>2. CASE log' = log /\ (now' = now \/ now' = now + 1)
  <2>1. SUFFICES ASSUME NEW j \in 1 .. Len(log)
                 PROVE  log[1].minute <= log[j].minute /\ log[j].minute <= now'
    BY <1>2 DEF OrderInv
  <2>2. PICK m \in Nat : m = log[j].minute
    BY <1>1
  <2>3. log[1].minute <= m /\ m <= now
    BY <2>2 DEF OrderInv
  <2>4. m <= now'
    BY <1>1, <1>2, <2>3
  <2> QED BY <2>2, <2>3, <2>4
<1>3. CASE pc = "running" /\ now' = now + 1 /\ \E n \in 0 .. 3 : log' = Append(log, Block(n))
  <2>1. PICK n \in 0 .. 3 : log' = Append(log, Block(n))
    BY <1>3
  <2>2. now' \in Nat
    BY <1>1, <1>3
  <2>3. /\ Len(log') = Len(log) + 1
        /\ \A j \in 1 .. Len(log) : log'[j] = log[j]
        /\ log'[Len(log) + 1].minute = now + 1
    BY <1>3, <2>1, <2>2, LogGrows
  <2>4. SUFFICES ASSUME NEW j \in 1 .. Len(log')
                 PROVE  log'[1].minute <= log'[j].minute /\ log'[j].minute <= now + 1
    BY <1>3 DEF OrderInv
  <2>5. CASE j \in 1 .. Len(log)
    <3>1. log'[j] = log[j] /\ log'[1] = log[1]
      <4>1. 1 \in 1 .. Len(log)
        BY <1>1, <2>5
      <4> QED BY <2>3, <2>5, <4>1
    <3>2. PICK m \in Nat : m = log[j].minute
      BY <1>1, <2>5
    <3>3. log[1].minute <= m /\ m <= now
      BY <2>5, <3>2 DEF OrderInv
    <3>4. m <= now + 1
      BY <1>1, <3>3
    <3> QED BY <3>1, <3>2, <3>3, <3>4
  <2>6. CASE j = Len(log) + 1
    <3>1. log'[j].minute = now + 1
      BY <2>3, <2>6
    <3>2. log'[1].minute <= now + 1
      <4>1. CASE Len(log) = 0
        <5>1. j = 1
          BY <2>6, <4>1
        <5> QED BY <1>1, <3>1, <5>1
      <4>2. CASE Len(log) # 0
        <5>1. 1 \in 1 .. Len(log)
          BY <1>1, <4>2
        <5>2. PICK m \in Nat : m = log[1].minute
          BY <1>1, <5>1
        <5>3. m <= now
          BY <5>1, <5>2 DEF OrderInv
        <5> QED BY <1>1, <2>3, <5>1, <5>2, <5>3
      <4> QED BY <4>1, <4>2
    <3> QED BY <1>1, <3>1, <3>2
  <2> QED BY <1>1, <2>3, <2>5, <2>6
<1>4. CASE Minute
  <2>1. pc = "running" /\ now' = now + 1 /\ (log' = log \/ log' = Append(log, Block(Len(Items))))
    BY <1>4 DEF Minute
  <2>2. Len(Items) \in 0 .. 3
    BY ItemsIs
  <2> QED BY <1>2, <1>3, <2>1, <2>2
<1>5. ASSUME NEW cause \in {"killed", "crashed"}, Stop(cause) PROVE OrderInv'
  <2>1. pc = "running" /\ now' = now + 1
        /\ (log' = log \/ \E n \in 0 .. 3 : log' = Append(log, Block(n)))
    BY <1>5, ItemsIs DEF Stop
  <2> QED BY <1>2, <1>3, <2>1
<1>6. CASE SetLatency \/ Parse \/ UNCHANGED vars
  <2>1. log' = log /\ now' = now
    BY <1>6 DEF SetLatency, Parse, vars
  <2> QED BY <1>2, <2>1
<1> QED BY <1>4, <1>5, <1>6 DEF Next, Kill, Crash

(* The invariant of the whole specification.                               *)
LEMMA StatsInvariant == Spec => [](StatsInv /\ OrderInv /\ ParsedInv)
PROOF
<1>1. ASSUME StatsInv, ParsedInv, [Next]_vars PROVE StatsInv' /\ ParsedInv'
  <2>1. CASE Minute
    <3>1. pc' = "running"
      BY <2>1 DEF Minute
    <3> QED BY <1>1, <2>1, <3>1, MinuteInv DEF ParsedInv
  <2>2. CASE SetLatency
    <3>1. pc' = "running"
      BY <2>2 DEF SetLatency
    <3> QED BY <1>1, <2>2, <3>1, SetLatencyInv DEF ParsedInv
  <2>3. CASE Kill
    <3>1. Stop("killed") /\ (memory = "cxl" => set = NumLatencies /\ now >= due)
      BY <2>3 DEF Kill
    <3>2. pc' = "ended"
      BY <3>1 DEF Stop
    <3> QED BY <1>1, <3>1, <3>2, StopInv DEF ParsedInv
  <2>4. CASE Crash
    <3>1. Stop("crashed")
      BY <2>4 DEF Crash
    <3>2. pc' = "ended"
      BY <3>1 DEF Stop
    <3>3. "crashed" \in {"killed", "crashed"} /\ "crashed" # "killed"
      OBVIOUS
    <3> QED BY <1>1, <3>1, <3>2, <3>3, StopInv DEF ParsedInv
  <2>5. CASE Parse
    <3>1. /\ pc = "ended" /\ pc' = "parsed"
          /\ UNCHANGED <<memory, how, now, started, set, due, device, seen, log, slips, late, failed>>
      BY <2>5 DEF Parse, errors
    <3>2. ParsedInv'
      BY <1>1, <2>5, ParseInv DEF StatsInv
    <3> QED BY <1>1, <3>1, <3>2, QuietStats
  <2>6. CASE UNCHANGED vars
    <3>1. UNCHANGED <<memory, pc, how, now, started, set, due, device, seen, log, slips, late,
                      failed, time, series>>
      BY <2>6 DEF vars, errors, parsed
    <3>2. ParsedInv'
      BY <1>1, <3>1 DEF ParsedInv, MidnightAt
    <3> QED BY <1>1, <3>1, <3>2, QuietStats DEF StatsInv, Types, Scalars
  <2> QED BY <1>1, <2>1, <2>2, <2>3, <2>4, <2>5, <2>6 DEF Next
<1>2. Init => OrderInv
  <2>1. SUFFICES ASSUME Init PROVE OrderInv
    OBVIOUS
  <2>2. log = << >>
    BY <2>1, Zenon DEF Init
  <2> QED BY <2>2 DEF OrderInv
<1> QED BY <1>1, <1>2, InitStats, OrderStep, PTL DEF Spec

-----------------------------------------------------------------------------
(* The state predicates follow from the invariant.                         *)
LEMMA Aligned == ASSUME StatsInv, ParsedInv PROVE SeriesAligned
PROOF
<1> SUFFICES ASSUME pc = "parsed", NEW name \in ToSet(Items)
             PROVE  /\ Len(series[name]) = Len(time)
                    /\ \A k \in DOMAIN time :
                         \/ series[name][k] = log[k].at
                         \/ series[name][k] = Zero /\ k = Len(time)
  BY DEF SeriesAligned
<1>1. /\ Len(series[name]) = Len(log) /\ Len(time) = Len(log)
      /\ \A k \in 1 .. Len(log) : series[name][k] = Entry(name, log[k])
      /\ DOMAIN time = 1 .. Len(log)
  BY DEF ParsedInv
<1>2. Line(name) \in 1 .. 3
  BY ItemNames
<1>3. ASSUME NEW k \in DOMAIN time
      PROVE  \/ series[name][k] = log[k].at
             \/ series[name][k] = Zero /\ k = Len(time)
  <2>1. k \in 1 .. Len(log)
    BY <1>1, <1>3
  <2>2. series[name][k] = Entry(name, log[k])
    BY <1>1, <2>1
  <2>3. log[k].lines # 3 => k = Len(log)
    BY <2>1 DEF StatsInv, BlocksInv, BlockOK
  <2>4. CASE log[k].lines = 3
    <3>1. Line(name) <= log[k].lines
      BY <1>2, <2>4
    <3>2. Entry(name, log[k]) = log[k].at
      BY <3>1 DEF Entry
    <3> QED BY <2>2, <3>2, Zenon
  <2>5. CASE log[k].lines # 3
    BY <1>1, <2>2, <2>3, <2>5 DEF Entry
  <2> QED BY <2>4, <2>5
<1> QED BY <1>1, <1>3

-----------------------------------------------------------------------------
(* What the remainder of a number is.                                      *)
LEMMA DivMod ==
  ASSUME NEW d \in Nat \ {0}, NEW n \in Nat
  PROVE  n % d = n - d * (n \div d) /\ n % d \in 0 .. d - 1 /\ n \div d \in Nat
PROOF
<1>1. n % d = n - d * (n \div d)
  OBVIOUS
<1>2. n % d \in 0 .. d - 1
  OBVIOUS
<1>3. n \div d \in Nat
  OBVIOUS
<1> QED BY <1>1, <1>2, <1>3

(* Folding the time since the first block into one day.                    *)
LEMMA Folded ==
  ASSUME NEW d \in Nat \ {0}, NEW a \in Nat, NEW b \in Nat, a <= b
  PROVE  LET p == a % d  q == b % d
         IN  (b - a) % d = (IF q >= p THEN q - p ELSE q - p + d)
PROOF
<1> DEFINE p == a % d
           q == b % d
<1>1. PICK x \in Nat : p = a - d * x /\ p \in 0 .. d - 1
  BY DivMod
<1>2. PICK y \in Nat : q = b - d * y /\ q \in 0 .. d - 1
  BY DivMod
<1>0. PICK c \in Nat : c = b - a
  OBVIOUS
<1> DEFINE r == c % d
<1>3. PICK z \in Nat : r = c - d * z /\ r \in 0 .. d - 1
  BY DivMod
<1> HIDE DEF p, q, r
<1>4. PICK w \in Int : w = z + x - y
  OBVIOUS
<1>5. d * w = d * z + d * x - d * y
  <2>1. d \in Int /\ x \in Int /\ y \in Int /\ z \in Int
    OBVIOUS
  <2>2. d * (z + x - y) = d * z + d * x - d * y
    BY <2>1
  <2> QED BY <1>4, <2>2
<1>6. d * w = q - p - r
  <2>1. PICK dx, dy, dz \in Int : dx = d * x /\ dy = d * y /\ dz = d * z
    OBVIOUS
  <2> QED BY <1>0, <1>1, <1>2, <1>3, <1>5, <2>1
<1>7. w = 0 \/ w = -1
  <2>1. ASSUME w >= 1 PROVE FALSE
    <3>1. PICK v \in Nat : w = 1 + v
      <4>1. w - 1 \in Nat
        BY <2>1
      <4> QED BY <4>1
    <3>2. d * w = d + d * v /\ d * v \in Nat
      BY <3>1
    <3>3. PICK u \in Nat : u = d * v
      BY <3>2
    <3> QED BY <1>1, <1>2, <1>3, <1>6, <3>2, <3>3
  <2>2. ASSUME w <= -2 PROVE FALSE
    <3>1. PICK v \in Nat : w = -2 - v
      <4>1. -2 - w \in Nat
        BY <2>2
      <4> QED BY <4>1
    <3>2. d * w = -(2 * d) - d * v /\ d * v \in Nat
      BY <3>1
    <3>3. PICK u \in Nat : u = d * v
      BY <3>2
    <3> QED BY <1>1, <1>2, <1>3, <1>6, <3>2, <3>3
  <2> QED BY <2>1, <2>2
<1>8. r = (IF q >= p THEN q - p ELSE q - p + d)
  <2>1. CASE w = 0
    <3>1. d * w = 0
      BY <2>1
    <3> QED BY <1>1, <1>2, <1>3, <1>6, <3>1
  <2>2. CASE w = -1
    <3>1. d * w = -d
      BY <2>2
    <3> QED BY <1>1, <1>2, <1>3, <1>6, <3>1
  <2> QED BY <1>7, <2>1, <2>2
<1> QED BY <1>0, <1>8 DEF p, q, r

LEMMA TimeRight == ASSUME StatsInv, OrderInv, ParsedInv PROVE ElapsedTime
PROOF
<1> SUFFICES ASSUME pc = "parsed"
             PROVE  /\ Len(time) = Len(log)
                    /\ \E m \in 2 .. Len(log) + 2 : \A k \in DOMAIN log :
                         time[k] = (Total(k) % Day)
                                   + (IF k >= m /\ log[k].clock >= log[1].clock THEN Day ELSE 0)
  BY DEF ElapsedTime
<1>1. Len(time) = Len(log)
  BY DEF ParsedInv
<1>2. PICK m \in 1 .. Len(log) + 1 : MidnightAt(m)
  BY DEF ParsedInv
<1>3. PICK n \in 2 .. Len(log) + 2 : n = IF m = 1 THEN Len(log) + 2 ELSE m
  <2>1. Len(log) \in Nat
    BY DEF StatsInv, Types
  <2> QED BY <2>1
<1>4. ASSUME NEW k \in DOMAIN log
      PROVE  time[k] = (Total(k) % Day)
                       + (IF k >= n /\ log[k].clock >= log[1].clock THEN Day ELSE 0)
  <2>1. Len(log) \in Nat /\ k \in 1 .. Len(log) /\ 1 \in 1 .. Len(log) /\ k \in Nat
    <3>1. log \in Seq(BlockType)
      BY DEF StatsInv, Types
    <3> QED BY <1>4, <3>1
  <2>2. PICK c, f, a, b : /\ c = log[k].clock /\ f = log[1].clock
                          /\ a = log[1].minute /\ b = log[k].minute
    OBVIOUS
  <2>3. Day \in Nat \ {0} /\ started \in Nat
    BY Constants DEF StatsInv, Types, Scalars
  <2>4. c = (started + b) % Day /\ f = (started + a) % Day /\ a \in Nat /\ b \in Nat
    BY <2>1, <2>2, BlockFacts DEF StatsInv, BlockOK
  <2>5. c \in 0 .. Day - 1 /\ f \in 0 .. Day - 1
    <3>1. started + b \in Nat /\ started + a \in Nat
      BY <2>3, <2>4
    <3> QED BY <2>3, <2>4, <3>1
  <2>6. a <= b
    BY <2>1, <2>2 DEF OrderInv
  <2>7. (b - a) % Day = IF c >= f THEN c - f ELSE c - f + Day
    <3>1. PICK x, y \in Nat : x = started + a /\ y = started + b
      BY <2>3, <2>4
    <3>2. x <= y /\ y - x = b - a
      BY <2>3, <2>4, <2>6, <3>1
    <3>3. c = y % Day /\ f = x % Day
      BY <2>4, <3>1
    <3> QED BY <2>3, <3>2, <3>3, Folded
  <2>8. time[k] = Elapsed(c + (IF k >= m THEN Day ELSE 0), f + (IF 1 >= m THEN Day ELSE 0))
    BY <1>2, <2>1, <2>2 DEF MidnightAt
  <2>9. PICK g \in Int : g = (b - a) % Day
    BY <2>3, <2>4
  <2>10. time[k] = g + (IF k >= n /\ c >= f THEN Day ELSE 0)
    BY <1>3, <2>1, <2>3, <2>5, <2>7, <2>8, <2>9 DEF Elapsed
  <2> QED BY <2>2, <2>9, <2>10 DEF Total
<1> QED BY <1>1, <1>3, <1>4

-----------------------------------------------------------------------------
(* The greater and the smaller of two numbers.                             *)
LEMMA MaxMin ==
  ASSUME NEW a \in Int, NEW b \in Int
  PROVE  /\ Max({a, b}) = IF a >= b THEN a ELSE b
         /\ Min({a, b}) = IF a <= b THEN a ELSE b
PROOF
<1>1. ASSUME NEW c \in {a, b}, \A y \in {a, b} : c >= y PROVE Max({a, b}) = c
  <2> DEFINE m == CHOOSE x \in {a, b} : \A y \in {a, b} : x >= y
  <2>1. m \in {a, b} /\ \A y \in {a, b} : m >= y
    BY <1>1
  <2>2. m = c
    <3> HIDE DEF m
    <3> QED BY <1>1, <2>1
  <2> QED BY <2>2 DEF Max
<1>2. ASSUME NEW c \in {a, b}, \A y \in {a, b} : c <= y PROVE Min({a, b}) = c
  <2> DEFINE m == CHOOSE x \in {a, b} : \A y \in {a, b} : x <= y
  <2>1. m \in {a, b} /\ \A y \in {a, b} : m <= y
    BY <1>2
  <2>2. m = c
    <3> HIDE DEF m
    <3> QED BY <1>2, <2>1
  <2> QED BY <2>2 DEF Min
<1>3. a >= b \/ b >= a
  OBVIOUS
<1>4. CASE a >= b
  <2>1. Max({a, b}) = a
    BY <1>1, <1>4
  <2>2. Min({a, b}) = b
    BY <1>2, <1>4
  <2> QED BY <1>4, <2>1, <2>2
<1>5. CASE b >= a
  <2>1. Max({a, b}) = b
    BY <1>1, <1>5
  <2>2. Min({a, b}) = a
    BY <1>2, <1>5
  <2> QED BY <1>5, <2>1, <2>2
<1> QED BY <1>3, <1>4, <1>5

(* Where a slice of Python begins or ends.                                 *)
Position(n, len) == IF n < 0 THEN Max({0, len + n}) ELSE Min({n, len})

LEMMA Positions ==
  ASSUME NEW n \in Int, NEW len \in Nat
  PROVE  /\ n < 0 => Position(n, len) = IF len + n <= 0 THEN 0 ELSE len + n
         /\ n >= 0 => Position(n, len) = IF n <= len THEN n ELSE len
         /\ Position(n, len) \in 0 .. len
PROOF
<1>1. CASE n < 0
  <2>1. Position(n, len) = Max({0, len + n})
    BY <1>1 DEF Position
  <2> QED BY <1>1, <2>1, MaxMin
<1>2. CASE n >= 0
  <2>1. Position(n, len) = Min({n, len})
    BY <1>2 DEF Position
  <2>2. Min({n, len}) = IF n <= len THEN n ELSE len
    BY MaxMin
  <2> QED BY <1>2, <2>1, <2>2
<1> QED BY <1>1, <1>2

(* A slice as a function, and its entries.                                 *)
LEMMA SliceIs ==
  ASSUME NEW S, NEW s \in Seq(S), NEW a \in Int, NEW b \in Int,
         NEW p, p = Position(a, Len(s)), NEW q, q = Position(b, Len(s))
  PROVE  /\ p \in 0 .. Len(s) /\ q \in 0 .. Len(s)
         /\ ToSet(Slice(s, a, b)) = {s[j] : j \in p + 1 .. q}
         /\ p <= q => Slice(s, a, b) = [k \in 1 .. q - p |-> s[p + k]]
PROOF
<1>1. Len(s) \in Nat
  OBVIOUS
<1>2. p \in 0 .. Len(s) /\ q \in 0 .. Len(s)
  BY <1>1, Positions
<1>3. Slice(s, a, b) = SubSeq(s, p + 1, q)
  BY DEF Slice, Position
<1>4. SubSeq(s, p + 1, q) = [k \in 1 .. q - p |-> s[p + k]]
  BY <1>2
<1>5. PICK w : w = [k \in 1 .. q - p |-> s[p + k]]
  OBVIOUS
<1>6. SubSeq(s, p + 1, q) = w
  BY <1>4, <1>5
<1>7. DOMAIN w = 1 .. q - p /\ \A k \in 1 .. q - p : w[k] = s[p + k]
  BY <1>5
<1>8. ToSet(w) = {s[j] : j \in p + 1 .. q}
  <2>1. ASSUME NEW k \in 1 .. q - p PROVE \E j \in p + 1 .. q : w[k] = s[j]
    <3>1. p + k \in p + 1 .. q
      BY <1>1, <1>2
    <3> QED BY <1>7, <3>1
  <2>2. ASSUME NEW j \in p + 1 .. q PROVE \E k \in 1 .. q - p : w[k] = s[j]
    <3>1. j - p \in 1 .. q - p /\ p + (j - p) = j
      BY <1>1, <1>2
    <3>2. w[j - p] = s[p + (j - p)]
      BY <1>7, <3>1
    <3> QED BY <3>1, <3>2
  <2>3. ToSet(w) = {w[k] : k \in 1 .. q - p}
    BY <1>7 DEF ToSet
  <2>4. {w[k] : k \in 1 .. q - p} \subseteq {s[j] : j \in p + 1 .. q}
    <3>1. ASSUME NEW k \in 1 .. q - p PROVE w[k] \in {s[j] : j \in p + 1 .. q}
      BY <2>1, Zenon
    <3> QED BY <3>1, Zenon
  <2>5. {s[j] : j \in p + 1 .. q} \subseteq {w[k] : k \in 1 .. q - p}
    <3>1. ASSUME NEW j \in p + 1 .. q PROVE s[j] \in {w[k] : k \in 1 .. q - p}
      BY <2>2, Zenon
    <3> QED BY <3>1, Zenon
  <2> QED BY <2>3, <2>4, <2>5, Zenon
<1> QED BY <1>2, <1>3, <1>5, <1>6, <1>8

(* What the entries of a series are.                                       *)
LEMMA EntryWhole ==
  ASSUME StatsInv, ParsedInv, pc = "parsed", NEW name \in ToSet(Items),
         NEW j \in 1 .. Len(log), log[j].lines = 3
  PROVE  series[name][j] = log[j].at /\ series[name][j] # Zero
PROOF
<1>1. Line(name) <= log[j].lines
  BY ItemNames
<1>2. Entry(name, log[j]) = log[j].at
  BY <1>1 DEF Entry
<1>3. series[name][j] = Entry(name, log[j])
  BY DEF ParsedInv
<1>4. log[j].at # {}
  BY BlockFacts DEF StatsInv
<1> QED BY <1>2, <1>3, <1>4 DEF Zero

(* The windows of the latencies.                                           *)
LEMMA LatencyEnds ==
  ASSUME NEW i \in 1 .. NumLatencies
  PROVE  /\ ChangeTime(i) \in Nat /\ Step <= ChangeTime(i)
         /\ ChangeTime(i) <= ChangeTime(NumLatencies) /\ ChangeTime(NumLatencies) \in Nat
         /\ ChangeTime(i - 1) \in Nat /\ ChangeTime(i) = ChangeTime(i - 1) + Step
PROOF
<1>1. i \in Nat /\ i - 1 \in Nat /\ NumLatencies \in Nat /\ i <= NumLatencies /\ Step \in Nat
  BY Constants
<1>2. ChangeTime(i - 1) \in Nat /\ ChangeTime((i - 1) + 1) = ChangeTime(i - 1) + Step
  BY <1>1, Times
<1>3. (i - 1) + 1 = i
  BY <1>1
<1>4. ChangeTime(i) = ChangeTime(i - 1) + Step
  BY <1>2, <1>3
<1>5. /\ ChangeTime(i) \in Nat /\ ChangeTime(NumLatencies) \in Nat
      /\ ChangeTime(i) <= ChangeTime(NumLatencies)
  BY <1>1, Times
<1> QED BY <1>1, <1>2, <1>4, <1>5

LEMMA Whole == ASSUME StatsInv, ParsedInv PROVE WholeBlocks
PROOF
<1> SUFFICES ASSUME pc = "parsed", memory = "dram" \/ (how = "killed" /\ slips <= To),
                    NEW name \in ToSet(Items), NEW window \in ToSet(Averaged(name)),
                    Zero \in ToSet(window)
             PROVE  FALSE
  BY DEF WholeBlocks
<1>1. PICK s : s = series[name]
  OBVIOUS
<1>2. /\ s \in Seq(SUBSET Nat) /\ Len(s) = Len(log) /\ Len(log) \in Nat
  <2>1. Len(log) \in Nat
    BY DEF StatsInv, Types
  <2> QED BY <1>1, <2>1 DEF ParsedInv
<1>3. From \in Nat /\ To \in Nat /\ 0 < To /\ To < From /\ From < Step /\ Step \in Nat
  BY Constants
<1>4. slips \in Nat
  BY DEF StatsInv, Types, Scalars
<1>5. CASE memory = "dram"
  <2>1. Averaged(name) = <<Window(s, 0)>>
    BY <1>1, <1>5 DEF Averaged
  <2>2. window = Window(s, 0)
    BY <2>1 DEF ToSet
  <2>3. PICK p, q : p = Position(0 - From, Len(s)) /\ q = Position(0 - To, Len(s))
    OBVIOUS
  <2>4. ToSet(window) = {s[j] : j \in p + 1 .. q} /\ p \in 0 .. Len(s) /\ q \in 0 .. Len(s)
    <3>1. 0 - From \in Int /\ 0 - To \in Int
      BY <1>3
    <3> QED BY <1>2, <2>2, <2>3, <3>1, SliceIs DEF Window
  <2>5. PICK j \in p + 1 .. q : s[j] = Zero
    BY <2>4
  <2>6. q = IF Len(s) + (0 - To) <= 0 THEN 0 ELSE Len(s) + (0 - To)
    <3>1. 0 - To \in Int /\ 0 - To < 0
      BY <1>3
    <3> QED BY <1>2, <2>3, <3>1, Positions
  <2>7. j \in 1 .. Len(log) /\ j # Len(log)
    BY <1>2, <1>3, <2>4, <2>5, <2>6
  <2>8. log[j].lines = 3
    BY <2>7 DEF StatsInv, BlocksInv, BlockOK
  <2> QED BY <1>1, <2>5, <2>7, <2>8, EntryWhole
<1>6. CASE memory # "dram"
  <2>1. memory = "cxl" /\ how = "killed" /\ slips <= To
    BY <1>6 DEF StatsInv, Types, Scalars
  <2>2. Averaged(name) = [i \in 1 .. NumLatencies |-> Window(s, ChangeTime(i))]
    BY <1>1, <1>6 DEF Averaged
  <2>3. PICK i \in 1 .. NumLatencies : window = Window(s, ChangeTime(i))
    BY <2>2 DEF ToSet
  <2>4. PICK c, e : c = ChangeTime(i) /\ e = ChangeTime(NumLatencies)
    OBVIOUS
  <2>5. c \in Nat /\ e \in Nat /\ c <= e /\ Step <= c
    BY <2>4, LatencyEnds
  <2>6. PICK p, q : p = Position(c - From, Len(s)) /\ q = Position(c - To, Len(s))
    OBVIOUS
  <2>7. c - From \in Nat /\ c - To \in Nat
    BY <1>3, <2>5
  <2>8. ToSet(window) = {s[j] : j \in p + 1 .. q} /\ p \in 0 .. Len(s) /\ q \in 0 .. Len(s)
    <3>1. c - From \in Int /\ c - To \in Int
      BY <2>7
    <3> QED BY <1>2, <2>3, <2>4, <2>6, <3>1, SliceIs DEF Window
  <2>9. PICK j \in p + 1 .. q : s[j] = Zero
    BY <2>8
  <2>10. q <= c - To
    <3>1. q = IF c - To <= Len(s) THEN c - To ELSE Len(s)
      <4>1. c - To \in Int /\ c - To >= 0
        BY <2>7
      <4> QED BY <1>2, <2>6, <4>1, Positions
    <3> QED BY <1>2, <2>7, <3>1
  <2>11. j \in 1 .. Len(log) /\ j + slips <= e
    BY <1>2, <1>3, <1>4, <2>1, <2>5, <2>8, <2>9, <2>10
  <2>12. log[j].lines = 3
    BY <2>1, <2>4, <2>11 DEF StatsInv, KilledInv
  <2> QED BY <1>1, <2>9, <2>11, <2>12, EntryWhole
<1> QED BY <1>5, <1>6

LEMMA OnLatency == ASSUME StatsInv, ParsedInv PROVE WindowsOnLatency
PROOF
<1> SUFFICES ASSUME pc = "parsed", memory = "cxl", how = "killed", ~failed,
                    slips <= To, late <= Step - From,
                    NEW name \in ToSet(Items), NEW i \in 1 .. NumLatencies
             PROVE  Averaged(name)[i] = [k \in 1 .. From - To |-> {i}]
  BY DEF WindowsOnLatency
<1>1. PICK s : s = series[name]
  OBVIOUS
<1>2. /\ s \in Seq(SUBSET Nat) /\ Len(s) = Len(log) /\ Len(log) \in Nat
  <2>1. Len(log) \in Nat
    BY DEF StatsInv, Types
  <2> QED BY <1>1, <2>1 DEF ParsedInv
<1>3. From \in Nat /\ To \in Nat /\ 0 < To /\ To < From /\ From < Step /\ Step \in Nat
  BY Constants
<1>4. slips \in Nat /\ late \in Nat
  BY DEF StatsInv, Types, Scalars
<1>5. PICK b, c, e : b = ChangeTime(i - 1) /\ c = ChangeTime(i) /\ e = ChangeTime(NumLatencies)
  OBVIOUS
<1>6. b \in Nat /\ c \in Nat /\ e \in Nat /\ c <= e /\ Step <= c /\ c = b + Step
  BY <1>5, LatencyEnds
<1>7. Averaged(name)[i] = Window(s, c)
  BY <1>1, <1>5 DEF Averaged
<1>8. PICK p, q : p = Position(c - From, Len(s)) /\ q = Position(c - To, Len(s))
  OBVIOUS
<1>9. Len(log) + slips >= e
  BY <1>5 DEF StatsInv, KilledInv
<1>10. c - From \in Nat /\ c - To \in Nat /\ c - From <= c - To /\ c - To <= Len(s)
       /\ c - From <= Len(s)
  BY <1>2, <1>3, <1>4, <1>6, <1>9
<1>11. p = c - From /\ q = c - To
  BY <1>2, <1>8, <1>10, Positions
<1>12. Window(s, c) = [k \in 1 .. q - p |-> s[p + k]]
  <2>1. c - From \in Int /\ c - To \in Int /\ p <= q
    BY <1>10, <1>11
  <2> QED BY <1>2, <1>8, <2>1, SliceIs DEF Window
<1>13. q - p = From - To
  BY <1>3, <1>6, <1>11
<1>14. ASSUME NEW k \in 1 .. q - p PROVE s[p + k] = {i}
  <2>1. PICK j : j = p + k
    OBVIOUS
  <2>2. j \in 2 .. Len(log) /\ j + slips <= c /\ b + late < j /\ j + slips <= e
    BY <1>2, <1>3, <1>4, <1>6, <1>9, <1>10, <1>11, <2>1
  <2>3. j \in 1 .. Len(log)
    BY <1>2, <2>2
  <2>4. log[j].lines = 3
    BY <1>5, <2>2, <2>3 DEF StatsInv, KilledInv
  <2>5. s[j] = log[j].at
    BY <1>1, <2>3, <2>4, EntryWhole
  <2>6. PICK m : m = log[j].minute
    OBVIOUS
  <2>7. m \in Nat /\ m <= j + slips
    BY <2>3, <2>6, BlockFacts DEF StatsInv
  <2>8. m <= c
    BY <1>4, <1>6, <2>2, <2>7
  <2>9. log[j].at = {i}
    BY <1>5, <2>2, <2>6, <2>8 DEF StatsInv, MeasuredInv
  <2> QED BY <2>1, <2>5, <2>9
<1> QED BY <1>7, <1>12, <1>13, <1>14

-----------------------------------------------------------------------------
(* The k-th entry of each series belongs to the k-th time, whichever block *)
(* was cut: the parser fills what is missing with zeros, and only the last *)
(* block can be cut (cachelib_parser.py:32-36).                            *)
THEOREM SeriesStayAligned == Spec => []SeriesAligned
PROOF
<1> QED BY StatsInvariant, Aligned, PTL

(* For a day of any length and a run of any length, a parsing that midnight*)
(* falls into gives each block its time since the first one, folded into   *)
(* one day, and at most a day more (cachelib_parser.py:81-89).             *)
THEOREM TimesAreElapsed == Spec => []ElapsedTime
PROOF
<1> QED BY StatsInvariant, TimeRight, PTL

(* No block that a signal cut is averaged in DRAM, where windows are       *)
(* counted from the end of the log, nor with CXL when the run is ended by  *)
(* its script and blocks have slipped by at most the margin To.  A CXL run *)
(* that ends in one of its windows may average the block that was cut      *)
(* (cachelib_analyzer.py:19-20).                                           *)
THEOREM OnlyWholeBlocksAveraged == Spec => []WholeBlocks
PROOF
<1> QED BY StatsInvariant, Whole, PTL

(* Each window holds From - To blocks that measured its latency alone, for *)
(* every number of latencies and every length of theirs, as long as blocks *)
(* slip by at most To and latencies are late by at most Step - From        *)
(* minutes (cachelib_analyzer.py:19-20, cachelib.ipynb:46-73,              *)
(* README.md:233-241).                                                     *)
THEOREM WindowsMeasureOneLatency == Spec => []WindowsOnLatency
PROOF
<1> QED BY StatsInvariant, OnLatency, PTL
=============================================================================
