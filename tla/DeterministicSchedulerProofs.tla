--------------------- MODULE DeterministicSchedulerProofs ---------------------
(***************************************************************************)
(* Proofs about the scheduler, for any number of schedulers on one clock,  *)
(* with or without somebody else who moves it.                             *)
(***************************************************************************)
EXTENDS DeterministicScheduler, TLAPS

USE DEF Items, PopsOf

\* The clock is never behind what was handed out, and what is queued comes after what
\* the same scheduler handed out: what makes PopsInOrder inductive.
PoppedIsPast ==
  /\ \A i \in DOMAIN popped : popped[i].item.tick <= clock
  /\ \A s \in Schedulers : \A x \in queue[s], i \in PopsOf(s) : Before(popped[i].item, x)

Inv == TypeOK /\ PoppedIsPast /\ PopsInOrder /\ NothingLost

\* What was handed out is an item of one of the schedulers.
LEMMA PopTyped ==
  ASSUME TypeOK, NEW i \in DOMAIN popped
  PROVE  /\ popped[i].scheduler \in Schedulers
         /\ popped[i].item \in Items
         /\ popped[i].item.tick \in Nat
         /\ popped[i].item.ordinal \in Nat
<1>1. popped[i] \in [scheduler : Schedulers, item : Items]
  <2> DEFINE S == [scheduler : Schedulers, item : Items]
  <2>1. popped \in Seq(S)
    BY DEF TypeOK
  <2> HIDE DEF S
  <2>2. popped[i] \in S
    BY <2>1
  <2> QED BY <2>2 DEF S
<1> QED BY <1>1

\* A new pop is the last one and leaves the earlier ones as they were.
LEMMA PoppedAppend ==
  ASSUME TypeOK, NEW s \in Schedulers, NEW head \in Items,
         popped' = Append(popped, [scheduler |-> s, item |-> head])
  PROVE  /\ popped' \in Seq([scheduler : Schedulers, item : Items])
         /\ DOMAIN popped = 1..Len(popped)
         /\ Len(popped) \in Nat
         /\ DOMAIN popped' = 1..(Len(popped) + 1)
         /\ \A i \in DOMAIN popped : popped'[i] = popped[i]
         /\ popped'[Len(popped) + 1] = [scheduler |-> s, item |-> head]
<1> DEFINE S == [scheduler : Schedulers, item : Items]
           pop == [scheduler |-> s, item |-> head]
<1>1. popped \in Seq(S) /\ pop \in S /\ popped' = Append(popped, pop)
  BY DEF TypeOK
<1> HIDE DEF S, pop
<1>2. /\ popped' \in Seq(S)
      /\ DOMAIN popped = 1..Len(popped)
      /\ Len(popped) \in Nat
      /\ DOMAIN popped' = 1..(Len(popped) + 1)
      /\ \A i \in DOMAIN popped : popped'[i] = popped[i]
      /\ popped'[Len(popped) + 1] = pop
  BY <1>1, SMTT(30)
<1> QED BY <1>2 DEF S, pop

\* Order and loss are about items and pops only.
LEMMA SameOrder ==
  ASSUME PopsInOrder, NothingLost, UNCHANGED <<next_ordinal, queue, popped>>
  PROVE  PopsInOrder' /\ NothingLost'
<1>1. PopsInOrder'
  BY DEF PopsInOrder, Before
<1>2. ASSUME NEW s \in Schedulers
      PROVE  PoppedOrdinals(s)' = PoppedOrdinals(s) /\ QueuedOrdinals(s)' = QueuedOrdinals(s)
  BY DEF PoppedOrdinals, QueuedOrdinals
<1>3. NothingLost'
  BY <1>2 DEF NothingLost
<1> QED BY <1>1, <1>3

\* What the clock's other holders do disturbs nothing.
LEMMA AdvanceStep ==
  ASSUME Inv, NEW tick \in 0..MaxTick, Advance(tick)
  PROVE  Inv'
<1>1. TypeOK'
  BY ClockBoundsAssumption DEF Inv, TypeOK, Advance
<1>2. PoppedIsPast'
  <2>1. \A i \in DOMAIN popped : popped[i].item.tick \in Nat
    BY PopTyped DEF Inv
  <2>2. clock < clock' /\ clock \in Nat /\ clock' \in Nat
    BY ClockBoundsAssumption DEF Inv, TypeOK, Advance
  <2>3. \A i \in DOMAIN popped : popped'[i].item.tick <= clock'
    BY <2>1, <2>2 DEF Inv, PoppedIsPast, Advance
  <2> QED BY <2>3, SMTT(30) DEF Inv, PoppedIsPast, Advance, Before
<1>3. PopsInOrder' /\ NothingLost'
  BY SameOrder DEF Inv, Advance
<1> QED BY <1>1, <1>2, <1>3 DEF Inv

\* Scheduling adds an item after everything handed out, under a new ordinal.
LEMMA ScheduleStep ==
  ASSUME Inv, NEW s \in Schedulers, NEW tick \in Nat, ScheduleAt(s, tick)
  PROVE  Inv'
<1>1. PICK item : item = [tick |-> tick, ordinal |-> next_ordinal[s]]
  OBVIOUS
<1>2. /\ item \in Items
      /\ queue' = [queue EXCEPT ![s] = @ \cup {item}]
      /\ next_ordinal' = [next_ordinal EXCEPT ![s] = @ + 1]
      /\ clock' = clock /\ popped' = popped
      /\ tick >= clock
      /\ queue \in [Schedulers -> SUBSET Items]
      /\ next_ordinal \in [Schedulers -> Nat]
      /\ clock \in Nat
  BY <1>1 DEF Inv, TypeOK, ScheduleAt
<1>3. TypeOK'
  BY <1>2 DEF Inv, TypeOK
<1>4. PopsInOrder'
  BY <1>2 DEF Inv, PopsInOrder, Before
<1>5. \A r \in Schedulers : PoppedOrdinals(r)' = PoppedOrdinals(r)
  BY <1>2 DEF PoppedOrdinals
<1>6. \A i \in PopsOf(s) : popped[i].item \in Items /\ popped[i].item.ordinal < next_ordinal[s]
  <2>1. \A i \in PopsOf(s) : popped[i].item \in Items
    BY PopTyped DEF Inv
  <2>2. \A i \in PopsOf(s) : popped[i].item.ordinal \in 0..(next_ordinal[s] - 1)
    BY DEF Inv, NothingLost, PoppedOrdinals
  <2> QED BY <1>2, <2>1, <2>2
<1>7. PoppedIsPast'
  <2>1. \A i \in PopsOf(s) : Before(popped[i].item, item)
    BY <1>1, <1>2, <1>6 DEF Inv, PoppedIsPast, Before
  <2> QED BY <1>2, <2>1 DEF Inv, PoppedIsPast, Before
<1>8. NothingLost'
  <2>1. /\ PoppedOrdinals(s) \cup QueuedOrdinals(s) = 0..(next_ordinal[s] - 1)
        /\ PoppedOrdinals(s) \cap QueuedOrdinals(s) = {}
        /\ \A x, y \in queue[s] : x.ordinal = y.ordinal => x = y
    BY DEF Inv, NothingLost
  <2>2. QueuedOrdinals(s)' = QueuedOrdinals(s) \cup {next_ordinal[s]}
    BY <1>1, <1>2 DEF QueuedOrdinals
  <2>3. \A r \in Schedulers \ {s} : QueuedOrdinals(r)' = QueuedOrdinals(r)
                                   /\ queue'[r] = queue[r]
                                   /\ next_ordinal'[r] = next_ordinal[r]
    BY <1>2 DEF QueuedOrdinals
  <2>4. next_ordinal'[s] = next_ordinal[s] + 1 /\ next_ordinal[s] \in Nat
    BY <1>2
  <2>5. PoppedOrdinals(s)' \cup QueuedOrdinals(s)' = 0..(next_ordinal'[s] - 1)
    BY <1>5, <2>1, <2>2, <2>4
  <2>6. PoppedOrdinals(s)' \cap QueuedOrdinals(s)' = {}
    BY <1>5, <2>1, <2>2, <2>4
  <2>7. \A x, y \in queue'[s] : x.ordinal = y.ordinal => x = y
    <3>1. \A x \in queue[s] : x.ordinal # next_ordinal[s]
      BY <2>1, <2>4 DEF QueuedOrdinals
    <3> QED BY <1>1, <1>2, <2>1, <3>1
  <2>8. \A r \in Schedulers : \A i, j \in PopsOf(r)' :
          popped'[i].item.ordinal = popped'[j].item.ordinal => i = j
    BY <1>2 DEF Inv, NothingLost
  <2>9. ASSUME NEW r \in Schedulers \ {s}
        PROVE  /\ PoppedOrdinals(r)' \cup QueuedOrdinals(r)' = 0..(next_ordinal'[r] - 1)
               /\ PoppedOrdinals(r)' \cap QueuedOrdinals(r)' = {}
               /\ \A x, y \in queue'[r] : x.ordinal = y.ordinal => x = y
    BY <1>5, <2>3 DEF Inv, NothingLost
  <2> QED BY <2>5, <2>6, <2>7, <2>8, <2>9 DEF NothingLost
<1> QED BY <1>3, <1>4, <1>7, <1>8 DEF Inv

\* A pop hands out the least item, which no earlier pop comes after.
LEMMA PopStep ==
  ASSUME Inv, NEW s \in Schedulers, PopNext(s)
  PROVE  Inv'
<1>1. PICK head \in queue[s] :
        /\ \A y \in queue[s] \ {head} : Before(head, y)
        /\ head.tick >= clock
        /\ clock' = head.tick
        /\ queue' = [queue EXCEPT ![s] = @ \ {head}]
        /\ popped' = Append(popped, [scheduler |-> s, item |-> head])
        /\ next_ordinal' = next_ordinal
  BY DEF PopNext, First
<1>2. /\ head \in Items
      /\ queue \in [Schedulers -> SUBSET Items]
      /\ next_ordinal \in [Schedulers -> Nat]
      /\ clock \in Nat
  BY DEF Inv, TypeOK
<1>3. PICK n : n = Len(popped) + 1
  OBVIOUS
<1>4. /\ popped' \in Seq([scheduler : Schedulers, item : Items])
      /\ n \in Nat /\ n \notin DOMAIN popped
      /\ \A i \in DOMAIN popped : i \in Nat /\ i < n
      /\ DOMAIN popped' = DOMAIN popped \cup {n}
      /\ \A i \in DOMAIN popped : popped'[i] = popped[i] /\ popped[i].item \in Items
      /\ popped'[n] = [scheduler |-> s, item |-> head]
  <2>1. \A i \in DOMAIN popped : popped[i].item \in Items
    BY PopTyped DEF Inv
  <2>2. /\ popped' \in Seq([scheduler : Schedulers, item : Items])
        /\ DOMAIN popped = 1..Len(popped)
        /\ Len(popped) \in Nat
        /\ DOMAIN popped' = 1..(Len(popped) + 1)
        /\ \A i \in DOMAIN popped : popped'[i] = popped[i]
        /\ popped'[Len(popped) + 1] = [scheduler |-> s, item |-> head]
    BY <1>1, <1>2, PoppedAppend DEF Inv
  <2> QED BY <1>3, <2>1, <2>2
<1>5. TypeOK'
  BY <1>1, <1>2, <1>4 DEF TypeOK
<1>6. PoppedIsPast'
  <2>1. ASSUME NEW i \in DOMAIN popped'
        PROVE  popped'[i].item.tick <= clock'
    <3>1. head.tick \in Nat
      BY <1>2
    <3>2. CASE i = n
      <4>1. popped'[i].item = head
        BY <1>4, <3>2
      <4> QED BY <1>1, <3>1, <4>1
    <3>3. CASE i \in DOMAIN popped
      <4>1. popped[i].item.tick <= clock /\ popped[i].item.tick \in Nat
        BY <1>4, <3>3 DEF Inv, PoppedIsPast
      <4>2. clock <= clock' /\ clock \in Nat /\ clock' \in Nat
        BY <1>1, <1>2, <3>1
      <4>3. popped'[i] = popped[i]
        BY <1>4, <3>3
      <4> QED BY <4>1, <4>2, <4>3
    <3> QED BY <1>4, <3>2, <3>3
  <2>2. ASSUME NEW r \in Schedulers, NEW x \in queue'[r], NEW i \in PopsOf(r)'
        PROVE  Before(popped'[i].item, x)
    <3>1. x \in queue[r]
      BY <1>1, <1>2
    <3>2. CASE i = n
      BY <1>1, <1>2, <1>4, <3>1, <3>2
    <3>3. CASE i # n
      BY <1>4, <3>1, <3>3 DEF Inv, PoppedIsPast
    <3> QED BY <3>2, <3>3
  <2> QED BY <2>1, <2>2 DEF PoppedIsPast, Before
<1>7. PopsInOrder'
  <2>1. ASSUME NEW i \in DOMAIN popped
        PROVE  /\ popped[i].item.tick <= head.tick
               /\ popped[i].scheduler = s => Before(popped[i].item, head)
    <3>1. popped[i].item.tick <= clock /\ popped[i].item.tick \in Nat
      BY <1>4 DEF Inv, PoppedIsPast
    <3>2. popped[i].item.tick <= head.tick
      BY <1>1, <1>2, <3>1
    <3>3. popped[i].scheduler = s => Before(popped[i].item, head)
      BY DEF Inv, PoppedIsPast
    <3> QED BY <3>2, <3>3
  <2>2. ASSUME NEW i \in DOMAIN popped', NEW j \in DOMAIN popped', i < j
        PROVE  /\ popped'[i].item.tick <= popped'[j].item.tick
               /\ popped'[i].scheduler = popped'[j].scheduler =>
                    Before(popped'[i].item, popped'[j].item)
    <3>1. i \in DOMAIN popped
      BY <1>4, <2>2
    <3>2. CASE j = n
      BY <1>4, <2>1, <3>1, <3>2
    <3>3. CASE j \in DOMAIN popped
      BY <1>4, <2>2, <3>1, <3>3 DEF Inv, PopsInOrder
    <3> QED BY <1>4, <3>2, <3>3
  <2> QED BY <2>2 DEF PopsInOrder, Before
<1>8. NothingLost'
  <2>1. /\ PoppedOrdinals(s) \cup QueuedOrdinals(s) = 0..(next_ordinal[s] - 1)
        /\ PoppedOrdinals(s) \cap QueuedOrdinals(s) = {}
        /\ \A x, y \in queue[s] : x.ordinal = y.ordinal => x = y
        /\ \A i, j \in PopsOf(s) : popped[i].item.ordinal = popped[j].item.ordinal => i = j
    BY DEF Inv, NothingLost
  <2>2. PopsOf(s)' = PopsOf(s) \cup {n}
        /\ \A r \in Schedulers \ {s} : PopsOf(r)' = PopsOf(r)
    BY <1>4
  <2>3. PoppedOrdinals(s)' = PoppedOrdinals(s) \cup {head.ordinal}
        /\ \A r \in Schedulers \ {s} : PoppedOrdinals(r)' = PoppedOrdinals(r)
    BY <1>4, <2>2 DEF PoppedOrdinals
  <2>4. queue'[s] = queue[s] \ {head} /\ \A r \in Schedulers \ {s} : queue'[r] = queue[r]
    BY <1>1, <1>2
  <2>5. QueuedOrdinals(s)' = QueuedOrdinals(s) \ {head.ordinal} /\ head.ordinal \in QueuedOrdinals(s)
    BY <2>1, <2>4 DEF QueuedOrdinals
  <2>6. /\ PoppedOrdinals(s)' \cup QueuedOrdinals(s)' = 0..(next_ordinal'[s] - 1)
        /\ PoppedOrdinals(s)' \cap QueuedOrdinals(s)' = {}
    BY <1>1, <2>1, <2>3, <2>5
  <2>7. \A i, j \in PopsOf(s)' : popped'[i].item.ordinal = popped'[j].item.ordinal => i = j
    <3>1. \A i \in PopsOf(s) : popped[i].item.ordinal # head.ordinal
      BY <2>1, <2>5 DEF PoppedOrdinals
    <3> QED BY <1>4, <2>1, <2>2, <3>1
  <2>8. ASSUME NEW r \in Schedulers \ {s}
        PROVE  /\ PoppedOrdinals(r)' \cup QueuedOrdinals(r)' = 0..(next_ordinal'[r] - 1)
               /\ PoppedOrdinals(r)' \cap QueuedOrdinals(r)' = {}
               /\ \A x, y \in queue'[r] : x.ordinal = y.ordinal => x = y
               /\ \A i, j \in PopsOf(r)' : popped'[i].item.ordinal = popped'[j].item.ordinal => i = j
    <3>1. QueuedOrdinals(r)' = QueuedOrdinals(r)
      BY <2>4 DEF QueuedOrdinals
    <3>2. \A i \in PopsOf(r) : popped'[i] = popped[i]
      BY <1>4
    <3> QED BY <1>1, <2>2, <2>3, <2>4, <3>1, <3>2 DEF Inv, NothingLost
  <2> QED BY <2>1, <2>4, <2>6, <2>7, <2>8 DEF NothingLost
<1> QED BY <1>5, <1>6, <1>7, <1>8 DEF Inv

\* The invariant holds at the start and every step keeps it.
LEMMA Invariance == Spec => []Inv
<1>1. Init => Inv
  <2> SUFFICES ASSUME Init PROVE Inv
    OBVIOUS
  <2>1. TypeOK /\ PoppedIsPast /\ PopsInOrder
    BY DEF Init, TypeOK, PoppedIsPast, PopsInOrder
  <2>2. NothingLost
    <3>1. ASSUME NEW s \in Schedulers
          PROVE  /\ PoppedOrdinals(s) = {} /\ QueuedOrdinals(s) = {}
                 /\ PopsOf(s) = {} /\ queue[s] = {} /\ next_ordinal[s] = 0
      <4>1. queue[s] = {} /\ next_ordinal[s] = 0 /\ DOMAIN popped = {}
        BY DEF Init
      <4>2. PopsOf(s) = {}
        BY <4>1
      <4> QED BY <4>1, <4>2 DEF PoppedOrdinals, QueuedOrdinals
    <3>3. 0..(0 - 1) = {}
      OBVIOUS
    <3> QED BY <3>1, <3>3 DEF NothingLost
  <2> QED BY <2>1, <2>2 DEF Inv
<1>2. Inv /\ [Next]_vars => Inv'
  <2> SUFFICES ASSUME Inv, [Next]_vars PROVE Inv'
    OBVIOUS
  <2>1. CASE UNCHANGED vars
    <3>1. TypeOK' /\ PoppedIsPast'
      BY <2>1 DEF Inv, TypeOK, PoppedIsPast, Before, vars
    <3>2. PopsInOrder' /\ NothingLost'
      BY <2>1, SameOrder DEF Inv, vars
    <3> QED BY <3>1, <3>2 DEF Inv
  <2>2. CASE Next
    <3>1. ASSUME NEW s \in Schedulers, NEW tick \in 0..MaxTick, ScheduleAt(s, tick)
          PROVE  Inv'
      BY <3>1, ScheduleStep, ClockBoundsAssumption
    <3>2. ASSUME NEW s \in Schedulers, NEW delay \in 0..MaxTick, ScheduleAfter(s, delay)
          PROVE  Inv'
      <4>1. clock + delay \in Nat
        BY ClockBoundsAssumption DEF Inv, TypeOK
      <4> QED BY <3>2, <4>1, ScheduleStep DEF ScheduleAfter
    <3> QED BY <2>2, <3>1, <3>2, PopStep, AdvanceStep DEF Next
  <2> QED BY <2>1, <2>2
<1> QED BY <1>1, <1>2, PTL DEF Spec

-----------------------------------------------------------------------------
\* Items come out by tick and, within a tick, in the order they were scheduled,
\* whatever is scheduled in between and whoever moves the clock.
THEOREM OrderCorrect == Spec => []PopsInOrder
<1>1. Inv => PopsInOrder
  BY DEF Inv
<1> QED BY <1>1, Invariance, PTL

\* No accepted item is lost, handed out twice or given another item's ordinal.
THEOREM NothingLostCorrect == Spec => []NothingLost
<1>1. Inv => NothingLost
  BY DEF Inv
<1> QED BY <1>1, Invariance, PTL

\* A late item stays, and blocks its queue: pop_next raises instead of skipping it.
THEOREM LateItemsBlockCorrect == Spec => LateItemsBlock
<1>1. Inv /\ [Next]_vars =>
        [\A s \in Schedulers :
           (\E x \in queue[s] : x.tick < clock) => queue[s] \subseteq queue'[s]]_vars
  <2> SUFFICES ASSUME Inv, Next, NEW s \in Schedulers, NEW x \in queue[s], x.tick < clock
               PROVE  queue[s] \subseteq queue'[s]
    BY DEF vars
  <2>1. queue \in [Schedulers -> SUBSET Items] /\ clock \in Nat
    BY DEF Inv, TypeOK
  <2>2. ASSUME NEW r \in Schedulers, PopNext(r) PROVE queue[s] \subseteq queue'[s]
    <3>1. PICK head \in queue[r] :
            /\ \A y \in queue[r] \ {head} : Before(head, y)
            /\ head.tick >= clock
            /\ queue' = [queue EXCEPT ![r] = @ \ {head}]
      BY <2>2 DEF PopNext, First
    <3>2. r # s
      BY <2>1, <3>1 DEF Before
    <3> QED BY <2>1, <3>1, <3>2
  <2>3. ASSUME NEW r \in Schedulers, NEW tick, ScheduleAt(r, tick)
        PROVE  queue[s] \subseteq queue'[s]
    BY <2>1, <2>3 DEF ScheduleAt
  <2> QED BY <2>2, <2>3 DEF Next, ScheduleAfter, Advance
<1> QED BY <1>1, Invariance, PTL DEF Spec, LateItemsBlock
=============================================================================
