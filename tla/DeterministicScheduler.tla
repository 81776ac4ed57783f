------------------------ MODULE DeterministicScheduler ------------------------
(***************************************************************************)
(* LogicalClock and DeterministicScheduler (clock.py).  A scheduler is     *)
(* given its clock, so several schedulers, and anybody else who holds the  *)
(* clock, may move the same time.  The heap of (tick, ordinal, item) is    *)
(* the set of its pairs: heapq hands out the least one first and never     *)
(* looks at a payload as long as no two pairs are equal.                   *)
(***************************************************************************)
EXTENDS Integers, Sequences

CONSTANTS
  Schedulers,     \* the schedulers that share the clock
  MayAdvance,     \* whether anybody else moves the clock
  MaxTick,        \* bound: the last tick anybody asks for
  MaxItems        \* bound: items one scheduler is given

ASSUME MayAdvanceAssumption == MayAdvance \in BOOLEAN
ASSUME ClockBoundsAssumption == MaxTick \in Nat /\ MaxItems \in Nat

VARIABLES
  clock,          \* the shared clock's _tick
  next_ordinal,   \* per scheduler, _next_ordinal
  queue,          \* per scheduler, the pairs in _queue
  popped          \* auxiliary: what pop_next returned, by whom, in order

vars == <<clock, next_ordinal, queue, popped>>

Items == [tick : Nat, ordinal : Nat]

TypeOK ==
  /\ clock \in Nat
  /\ next_ordinal \in [Schedulers -> Nat]
  /\ queue \in [Schedulers -> SUBSET Items]
  /\ popped \in Seq([scheduler : Schedulers, item : Items])

Init ==
  /\ clock = 0
  /\ next_ordinal = [s \in Schedulers |-> 0]
  /\ queue = [s \in Schedulers |-> {}]
  /\ popped = <<>>

\* The order of the heap's tuples.
Before(x, y) == x.tick < y.tick \/ (x.tick = y.tick /\ x.ordinal < y.ordinal)

\* Faulty variant: the heap is ordered by the tick alone.
FirstByTick(q) == {x \in q : \A y \in q : x.tick <= y.tick}

\* The least pair, _queue[0].
First(q) == {x \in q : \A y \in q \ {x} : Before(x, y)}

\* Faulty variant: the past is not refused.
ScheduleAtAnyTick(s, tick) ==
  /\ next_ordinal[s] < MaxItems
  /\ queue' = [queue EXCEPT ![s] = @ \cup {[tick |-> tick, ordinal |-> next_ordinal[s]]}]
  /\ next_ordinal' = [next_ordinal EXCEPT ![s] = @ + 1]
  /\ UNCHANGED <<clock, popped>>

ScheduleAt(s, tick) ==
  /\ tick >= clock
  /\ next_ordinal[s] < MaxItems
  /\ queue' = [queue EXCEPT ![s] = @ \cup {[tick |-> tick, ordinal |-> next_ordinal[s]]}]
  /\ next_ordinal' = [next_ordinal EXCEPT ![s] = @ + 1]
  /\ UNCHANGED <<clock, popped>>

ScheduleAfter(s, delay) == ScheduleAt(s, clock + delay)

\* Faulty variants: late items are skipped over; ordinals are counted by what is queued.
PopNextOnTime(s) ==
  \E head \in First({x \in queue[s] : x.tick >= clock}) :
    /\ clock' = head.tick
    /\ queue' = [queue EXCEPT ![s] = {x \in @ : x.tick >= clock} \ {head}]
    /\ popped' = Append(popped, [scheduler |-> s, item |-> head])
    /\ UNCHANGED next_ordinal
PopNextWithLength(s) ==
  \E head \in First(queue[s]) :
    /\ head.tick >= clock
    /\ clock' = head.tick
    /\ queue' = [queue EXCEPT ![s] = @ \ {head}]
    /\ next_ordinal' = [next_ordinal EXCEPT ![s] = @ - 1]
    /\ popped' = Append(popped, [scheduler |-> s, item |-> head])

\* pop_next() on an item that is not late.  A late head raises and an empty queue
\* returns None: both change nothing.
PopNext(s) ==
  \E head \in First(queue[s]) :
    /\ head.tick >= clock
    /\ clock' = head.tick
    /\ queue' = [queue EXCEPT ![s] = @ \ {head}]
    /\ popped' = Append(popped, [scheduler |-> s, item |-> head])
    /\ UNCHANGED next_ordinal

\* advance() or advance_to() by another holder of the clock.
Advance(tick) ==
  /\ MayAdvance
  /\ tick > clock
  /\ clock' = tick
  /\ UNCHANGED <<next_ordinal, queue, popped>>

Next ==
  \/ \E s \in Schedulers :
       \/ \E tick \in 0..MaxTick : ScheduleAt(s, tick)
       \/ \E delay \in 0..MaxTick : clock + delay <= MaxTick /\ ScheduleAfter(s, delay)
       \/ PopNext(s)
  \/ \E tick \in 0..MaxTick : Advance(tick)

Spec == Init /\ [][Next]_vars

\* Whoever owns a scheduler pops it until pop_next returns None.
LiveSpec == Spec /\ \A s \in Schedulers : WF_vars(PopNext(s))

-----------------------------------------------------------------------------
(***************************************************************************)
(* Properties.                                                             *)
(***************************************************************************)

\* A scheduler hands its items out by tick, and in the order they were scheduled
\* within a tick, also when some are scheduled while others are being handled; over
\* all schedulers of a clock the ticks never go back.
PopsInOrder ==
  \A i, j \in DOMAIN popped :
    i < j =>
      /\ popped[i].item.tick <= popped[j].item.tick
      /\ popped[i].scheduler = popped[j].scheduler =>
           Before(popped[i].item, popped[j].item)

PopsOf(s) == {i \in DOMAIN popped : popped[i].scheduler = s}
PoppedOrdinals(s) == {popped[i].item.ordinal : i \in PopsOf(s)}
QueuedOrdinals(s) == {x.ordinal : x \in queue[s]}

\* Every item a scheduler accepted is either still queued or was handed out, once,
\* under an ordinal of its own; so no two tuples in the heap are equal up to the
\* ordinal and payloads are never compared.
NothingLost ==
  \A s \in Schedulers :
    /\ PoppedOrdinals(s) \cup QueuedOrdinals(s) = 0..(next_ordinal[s] - 1)
    /\ PoppedOrdinals(s) \cap QueuedOrdinals(s) = {}
    /\ \A x, y \in queue[s] : x.ordinal = y.ordinal => x = y
    /\ \A i, j \in PopsOf(s) : popped[i].item.ordinal = popped[j].item.ordinal => i = j

\* An item the clock has passed is never dropped and never overtaken: once a
\* scheduler holds one, nothing leaves its queue again.
LateItemsBlock ==
  [][ \A s \in Schedulers :
        (\E x \in queue[s] : x.tick < clock) => queue[s] \subseteq queue'[s] ]_vars

\* With one scheduler, a clock nobody else moves and finitely many items, every
\* accepted item is handed out in the end.
EveryItemPopped ==
  \A s \in Schedulers, n \in 0..(MaxItems - 1) :
    n < next_ordinal[s] ~>
      \E i \in DOMAIN popped : popped[i].scheduler = s /\ popped[i].item.ordinal = n
=============================================================================
