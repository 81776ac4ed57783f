--------------------------- MODULE OperationLedger ---------------------------
(***************************************************************************)
(* SQLiteLedger (ledger.py): the durable event and operation ledger of one *)
(* run, seen through its four tables and the handles that have it open.    *)
(*                                                                         *)
(* Every writing call runs inside one BEGIN IMMEDIATE ... COMMIT: SQLite   *)
(* lets one writer in at a time and makes its changes visible and durable  *)
(* together, so a call is one step here, and a call that raises before its *)
(* COMMIT, or whose process dies there, changes no table.  What may still  *)
(* happen is a crash after the COMMIT and before record_dispatch returns:  *)
(* the permit of such a call waits in "returning" until the call returns.  *)
(*                                                                         *)
(* The ledger keeps nothing in memory: each call rebuilds the action's     *)
(* machine from the transitions table (_load_machine_unlocked) and refuses *)
(* to go on when the tables disagree with the replay.                      *)
(*                                                                         *)
(* A table keyed by a contiguous number is a sequence: the seq of an event *)
(* is its index in "events", the ordinal of a row its index in             *)
(* "transitions".  Identifiers, evidence and reasons are those of          *)
(* TransitionRules.                                                        *)
(***************************************************************************)
EXTENDS TransitionRules, FiniteSets, SequencesExt

CONSTANTS
  Handles,      \* the SQLiteLedger objects, each in a process of its own
  Requests,     \* the (target, evidence) pairs callers choose from
  None,         \* a missing identity, set of facts or permit
  MaxTick,      \* bound: the largest tick a caller passes
  MaxOther,     \* bound: events of unmanaged kinds
  MaxEvents     \* bound: rows of the events table

ASSUME RequestsAssumption == Requests \subseteq [target : States, evidence : Evidence]
ASSUME BoundsAssumption == {MaxTick, MaxOther, MaxEvents} \subseteq Nat

Ticks == 0..MaxTick
ManagedKinds ==
  {"ACTION_PROPOSED", "OPERATION_PREPARED", "ATTEMPT_DISPATCHED", "STATE_TRANSITION"}
Kinds == ManagedKinds \cup {"OTHER"}   \* OTHER: any kind append_event accepts

Facts == [record : Records, flags : SUBSET Flags]
EventRows == [tick : Ticks, kind : Kinds, identity : Identities \cup {None},
              attempt : AttemptIds \cup {NoAttempt}, facts : Facts \cup {None}]
OperationRows == [identity : Identities, state : States, created : Nat, updated : Nat]
TransitionRows == [seq : Nat, record : Records, candidate : Identities, flags : SUBSET Flags]
AttemptRows == [attempt : AttemptIds, action : ActionIds, ordinal : Nat,
                dispatch : Nat, transition : Nat]
Permits == AttemptRows

VARIABLES
  events,       \* the events table
  operations,   \* the operations table: a function on the registered actions
  transitions,  \* the transitions table: per action, its rows in ordinal order
  attempts,     \* the attempts table, a set of rows
  open,         \* the handles that are not closed
  returning,    \* per handle, the permit of a record_dispatch between COMMIT and return
  permits,      \* the permits callers have received
  attempted     \* auxiliary: the actions on which a forbidden call was made

tables == <<events, operations, transitions, attempts>>
handles == <<open, returning, permits>>
vars == <<events, operations, transitions, attempts, open, returning, permits, attempted>>

TypeOK ==
  /\ events \in Seq(EventRows)
  /\ DOMAIN operations \subseteq ActionIds
  /\ operations \in [DOMAIN operations -> OperationRows]
  /\ transitions \in [ActionIds -> Seq(TransitionRows)]
  /\ attempts \subseteq AttemptRows
  /\ open \subseteq Handles
  /\ returning \in [Handles -> Permits \cup {None}]
  /\ permits \subseteq Permits
  /\ attempted \subseteq ActionIds

\* create(): one handle has the new, empty ledger open.
Init ==
  /\ events = <<>>
  /\ operations = [a \in {} |-> None]
  /\ transitions = [a \in ActionIds |-> <<>>]
  /\ attempts = {}
  /\ \E h \in Handles : open = {h}
  /\ returning = [h \in Handles |-> None]
  /\ permits = {}
  /\ attempted = {}

-----------------------------------------------------------------------------
(***************************************************************************)
(* Replay: the machine an action's rows stand for.                         *)
(***************************************************************************)

DispatchRows(rows) == {n \in DOMAIN rows : IsDispatch(rows[n].record)}

\* The machine's state and used attempt identifiers before the n-th row.
StateBefore(rows, n) == IF n = 1 THEN "PROPOSED" ELSE rows[n - 1].record.resulting
UsedBefore(rows, n) == {rows[m].record.attempt : m \in {k \in DispatchRows(rows) : k < n}}

\* Faulty variant: a machine rebuilt without the identifiers it has used.
ReplayedAttemptsForgotten(a) == {}

\* The same for the machine at the end of the replay.
ReplayedState(a) == StateBefore(transitions[a], Len(transitions[a]) + 1)
ReplayedAttempts(a) == UsedBefore(transitions[a], Len(transitions[a]) + 1)

\* The call that the replay of a row makes.
CallOf(row) ==
  [target |-> row.record.attempted,
   evidence |-> [cause |-> row.record.cause, flags |-> row.flags],
   identity |-> row.candidate, attempt |-> row.record.attempt]

\* The attempts rows of an action, and whether they name its dispatches in order.
AttemptsOf(a) == {r \in attempts : r.action = a}
AttemptsAgree(a) ==
  LET dispatches == DispatchRows(transitions[a])
  IN  /\ Cardinality(AttemptsOf(a)) = Cardinality(dispatches)
      /\ \A n \in dispatches : \E r \in AttemptsOf(a) :
           /\ r.attempt = transitions[a][n].record.attempt
           /\ r.ordinal = Cardinality({m \in dispatches : m <= n})

\* Every row replays to the record it holds.
RowsReplay(rows, identity) ==
  \A n \in DOMAIN rows :
    LET before == StateBefore(rows, n) IN
    /\ before # "VIOLATION"
    /\ rows[n].record = RecordOf(before, UsedBefore(rows, n), identity, CallOf(rows[n]))

\* The rows of an action replay, and the replay ends in the cached state.
Replays(a) ==
  /\ RowsReplay(transitions[a], operations[a].identity)
  /\ operations[a].state = ReplayedState(a)

\* _load_machine_unlocked succeeds.
Loads(a) ==
  /\ a \in DOMAIN operations
  /\ Replays(a)
  /\ AttemptsAgree(a)

-----------------------------------------------------------------------------
(***************************************************************************)
(* _validate_contents, what reopen() demands of the file it finds.         *)
(***************************************************************************)

\* Event n is there, is of this kind and bears this identity, attempt and facts.
HasEvent(n, kind, identity, attempt, facts) ==
  /\ n \in DOMAIN events
  /\ [events[n] EXCEPT !.tick = 0] =
       [tick |-> 0, kind |-> kind, identity |-> identity, attempt |-> attempt, facts |-> facts]

\* A successful row into PREPARED has its OPERATION_PREPARED event just before.
Prepares(record) == record.resulting = "PREPARED" /\ record.reason = NoReason

TransitionEventsAgree(a) ==
  LET identity == operations[a].identity IN
  \A n \in DOMAIN transitions[a] :
    LET row == transitions[a][n] IN
    /\ HasEvent(row.seq, "STATE_TRANSITION", identity, row.record.attempt,
                [record |-> row.record, flags |-> row.flags])
    /\ Prepares(row.record) =>
         /\ HasEvent(row.seq - 1, "OPERATION_PREPARED", identity, NoAttempt, None)
         /\ events[row.seq - 1].tick = events[row.seq].tick

AttemptEventsAgree(a) ==
  LET identity == operations[a].identity IN
  \A r \in AttemptsOf(a) :
    /\ HasEvent(r.dispatch, "ATTEMPT_DISPATCHED", identity, r.attempt, None)
    /\ r.transition = r.dispatch + 1
    /\ r.transition \in DOMAIN events
    /\ events[r.transition].tick = events[r.dispatch].tick
    /\ \E n \in DispatchRows(transitions[a]) :
         /\ transitions[a][n].seq = r.transition
         /\ transitions[a][n].record.attempt = r.attempt

\* Faulty variant: the proposal event is forgotten.
ReferencedEventsOfRows(a) == {transitions[a][n].seq : n \in DOMAIN transitions[a]}

\* The managed events that the rows of an action account for.
ReferencedEvents(a) ==
  {operations[a].created}
  \cup (UNION {{r.dispatch, r.transition} : r \in AttemptsOf(a)})
  \cup {transitions[a][n].seq : n \in DOMAIN transitions[a]}
  \cup {transitions[a][n].seq - 1 : n \in {m \in DOMAIN transitions[a] :
                                            Prepares(transitions[a][m].record)}}

TicksNondecreasing ==
  \A m, n \in DOMAIN events : m <= n => events[m].tick <= events[n].tick

\* The events an operation and its rows speak of are there.
OperationEventsAgree(a) ==
  /\ HasEvent(operations[a].created, "ACTION_PROPOSED", operations[a].identity, NoAttempt, None)
  /\ operations[a].updated =
       IF transitions[a] = <<>> THEN operations[a].created
       ELSE transitions[a][Len(transitions[a])].seq
  /\ AttemptEventsAgree(a)
  /\ TransitionEventsAgree(a)

OperationValid(a) == Loads(a) /\ OperationEventsAgree(a)

ContentsValid ==
  /\ TicksNondecreasing
  /\ \A a \in DOMAIN operations : OperationValid(a)
  /\ {n \in DOMAIN events : events[n].kind \in ManagedKinds} =
       UNION {ReferencedEvents(a) : a \in DOMAIN operations}

-----------------------------------------------------------------------------
(***************************************************************************)
(* The calls.                                                              *)
(***************************************************************************)

\* A handle that is open and not inside a call.
Idle(h) == h \in open /\ returning[h] = None

\* Faulty variant: a tick may lie in the past.
InOrderUnchecked(tick) == tick \in Ticks

\* _insert_event's condition on the tick.
InOrder(tick) == events # <<>> => tick >= events[Len(events)].tick

Event(tick, kind, identity, attempt, facts) ==
  [tick |-> tick, kind |-> kind, identity |-> identity, attempt |-> attempt, facts |-> facts]

AppendRows(rows) ==
  /\ Len(events) + Len(rows) <= MaxEvents
  /\ events' = events \o rows

\* Faulty variant: the ledger numbers the event itself, whatever number it bears.
AppendEventUnnumbered(h, seq, tick) ==
  /\ Idle(h)
  /\ InOrder(tick)
  /\ Cardinality({n \in DOMAIN events : events[n].kind = "OTHER"}) < MaxOther
  /\ AppendRows(<<Event(tick, "OTHER", None, NoAttempt, None)>>)
  /\ UNCHANGED <<operations, transitions, attempts, handles, attempted>>

\* append_event: any kind the ledger does not manage itself, next in sequence.
AppendEvent(h, seq, tick) ==
  /\ Idle(h)
  /\ seq = Len(events) + 1
  /\ InOrder(tick)
  /\ Cardinality({n \in DOMAIN events : events[n].kind = "OTHER"}) < MaxOther
  /\ AppendRows(<<Event(tick, "OTHER", None, NoAttempt, None)>>)
  /\ UNCHANGED <<operations, transitions, attempts, handles, attempted>>

RegisterOperation(h, identity, tick) ==
  LET a == identity.action_id
      row == [identity |-> identity, state |-> "PROPOSED",
              created |-> Len(events) + 1, updated |-> Len(events) + 1]
  IN  /\ Idle(h)
      /\ a \notin DOMAIN operations
      /\ InOrder(tick)
      /\ AppendRows(<<Event(tick, "ACTION_PROPOSED", identity, NoAttempt, None)>>)
      /\ operations' = [b \in DOMAIN operations \cup {a} |->
                          IF b = a THEN row ELSE operations[b]]
      /\ UNCHANGED <<transitions, attempts, handles, attempted>>

\* Faulty variant: PREPARED without its own event.
TransitionEventsUnprepared(identity, record, flags, tick) ==
  <<Event(tick, "STATE_TRANSITION", identity, record.attempt,
          [record |-> record, flags |-> flags])>>

\* The events _persist_transition appends.
TransitionEvents(identity, record, flags, tick) ==
  (IF Prepares(record)
   THEN <<Event(tick, "OPERATION_PREPARED", identity, NoAttempt, None)>> ELSE <<>>)
  \o <<Event(tick, "STATE_TRANSITION", identity, record.attempt,
             [record |-> record, flags |-> flags])>>

\* _persist_transition, after the events "before" of the same transaction.
PersistTransition(a, before, record, call, tick) ==
  /\ InOrder(tick)
  /\ AppendRows(before \o TransitionEvents(operations[a].identity, record,
                                        call.evidence.flags, tick))
  /\ transitions' = [transitions EXCEPT ![a] =
       Append(@, [seq |-> Len(events'), record |-> record,
                  candidate |-> call.identity, flags |-> call.evidence.flags])]
  /\ operations' = [operations EXCEPT ![a].state = record.resulting,
                                      ![a].updated = Len(events')]

\* The record the replayed machine makes of a call.
RecordInLedger(a, call) ==
  RecordOf(ReplayedState(a), ReplayedAttempts(a), operations[a].identity, call)

\* A call that raises InvalidTransitionError, rather than one that reports a violation.
Forbidden(record) == record.reason \notin {NoReason, Reported}

\* The machine refuses a call, but the tick lies in the past: _insert_event raises and
\* the whole transaction is rolled back.
ForbiddenButLate(a, call, tick) ==
  /\ Forbidden(RecordInLedger(a, call))
  /\ ~InOrder(tick)
  /\ attempted' = attempted \cup {a}
  /\ UNCHANGED <<tables, handles>>

\* What both calls do when they do not let an attempt out.
RecordOnly(a, call, tick) ==
  LET record == RecordInLedger(a, call)
  IN  /\ ~IsDispatch(record)
      /\ PersistTransition(a, <<>>, record, call, tick)
      /\ attempted' = IF Forbidden(record) THEN attempted \cup {a} ELSE attempted
      /\ UNCHANGED <<attempts, handles>>

\* The state from which a call can change something.
Callable(h, a) ==
  /\ Idle(h)
  /\ a \in DOMAIN operations
  /\ operations[a].state # "VIOLATION"
  /\ Loads(a)

\* transition(): IN_FLIGHT is refused before the transaction (DispatchRequiredError).
TransitionCall(h, a, request, identity, tick) ==
  LET call == [target |-> request.target, evidence |-> request.evidence,
               identity |-> identity, attempt |-> NoAttempt]
  IN  /\ Callable(h, a)
      /\ request.target # "IN_FLIGHT"
      /\ RecordOnly(a, call, tick) \/ ForbiddenButLate(a, call, tick)

\* Faulty variants of LetOut: no PRIMARY KEY on the attempt identifier; a collision
\* that leaves the events and the transition behind.
LetOutUnkeyed(h, a, call, tick) ==
  LET record == RecordInLedger(a, call)
      permit == [attempt |-> call.attempt, action |-> a,
                 ordinal |-> Cardinality(ReplayedAttempts(a)) + 1,
                 dispatch |-> Len(events) + 1, transition |-> Len(events) + 2]
  IN  /\ IsDispatch(record)
      /\ PersistTransition(a,
           <<Event(tick, "ATTEMPT_DISPATCHED", operations[a].identity, call.attempt, None)>>,
           record, call, tick)
      /\ attempts' = attempts \cup {permit}
      /\ returning' = [returning EXCEPT ![h] = permit]
      /\ UNCHANGED <<open, permits, attempted>>
LetOutHalfway(h, a, call, tick) ==
  IF \A r \in attempts : r.attempt # call.attempt
  THEN LetOutUnkeyed(h, a, call, tick)
  ELSE /\ IsDispatch(RecordInLedger(a, call))
       /\ PersistTransition(a, <<>>, RecordInLedger(a, call), call, tick)
       /\ UNCHANGED <<attempts, handles, attempted>>

\* The dispatch half of record_dispatch: both events, the transition and the attempt
\* row, or, on a collision of the attempt identifier, nothing at all.
LetOut(h, a, call, tick) ==
  LET record == RecordInLedger(a, call)
      permit == [attempt |-> call.attempt, action |-> a,
                 ordinal |-> Cardinality(ReplayedAttempts(a)) + 1,
                 dispatch |-> Len(events) + 1, transition |-> Len(events) + 2]
  IN  /\ IsDispatch(record)
      /\ \A r \in attempts : r.attempt # call.attempt
      /\ PersistTransition(a,
           <<Event(tick, "ATTEMPT_DISPATCHED", operations[a].identity, call.attempt, None)>>,
           record, call, tick)
      /\ attempts' = attempts \cup {permit}
      /\ returning' = [returning EXCEPT ![h] = permit]
      /\ UNCHANGED <<open, permits, attempted>>

\* record_dispatch()
RecordDispatch(h, a, id, evidence, identity, tick) ==
  LET call == [target |-> "IN_FLIGHT", evidence |-> evidence,
               identity |-> identity, attempt |-> id]
  IN  /\ Callable(h, a)
      /\ \/ LetOut(h, a, call, tick)
         \/ RecordOnly(a, call, tick)
         \/ ForbiddenButLate(a, call, tick)

\* Faulty variant: record_dispatch returns whatever it has.
ReturnAnything(h) ==
  /\ h \in open
  /\ permits' = permits \cup {returning[h]}
  /\ returning' = [returning EXCEPT ![h] = None]
  /\ UNCHANGED <<tables, open, attempted>>

\* record_dispatch returns its permit to the caller.
ReturnPermit(h) ==
  /\ returning[h] # None
  /\ permits' = permits \cup {returning[h]}
  /\ returning' = [returning EXCEPT ![h] = None]
  /\ UNCHANGED <<tables, open, attempted>>

\* Faulty variant: a crash loses the last event, as without synchronous = FULL.
CrashLosingEvent(h) ==
  /\ h \in open /\ events # <<>>
  /\ events' = SubSeq(events, 1, Len(events) - 1)
  /\ open' = open \ {h}
  /\ returning' = [returning EXCEPT ![h] = None]
  /\ UNCHANGED <<operations, transitions, attempts, permits, attempted>>

\* close(), or the end of the handle's process, at any moment.
CloseOrCrash(h) ==
  /\ h \in open
  /\ open' = open \ {h}
  /\ returning' = [returning EXCEPT ![h] = None]
  /\ UNCHANGED <<tables, permits, attempted>>

\* reopen(): only a file that passes validation.
Reopen(h) ==
  /\ h \notin open
  /\ ContentsValid
  /\ open' = open \cup {h}
  /\ UNCHANGED <<tables, returning, permits, attempted>>

Next ==
  \E h \in Handles :
    \/ \E tick \in Ticks :
         \/ AppendEvent(h, Len(events) + 1, tick)
         \/ \E identity \in Identities : RegisterOperation(h, identity, tick)
         \/ \E a \in ActionIds, request \in Requests, identity \in Identities :
              \/ TransitionCall(h, a, request, identity, tick)
              \/ \E id \in AttemptIds :
                   RecordDispatch(h, a, id, request.evidence, identity, tick)
    \/ ReturnPermit(h)
    \/ CloseOrCrash(h)
    \/ Reopen(h)

Spec == Init /\ [][Next]_vars

-----------------------------------------------------------------------------
(***************************************************************************)
(* Properties.                                                             *)
(***************************************************************************)

\* Whatever the calls, handles and crashes, the file passes the validation that
\* reopen() and validate() demand: no sequence of legal calls locks its own ledger out.
AlwaysReopens == ContentsValid

\* Append before dispatch: every permit, delivered or still being returned, has its
\* attempt row and its dispatch event in the tables, comes after the action's
\* OPERATION_PREPARED event, and no two permits of any action or handle share an
\* attempt identifier or a dispatch event.
PermitsAreDurable ==
  LET issued == permits \cup {returning[h] : h \in {g \in Handles : returning[g] # None}}
  IN  /\ \A p \in issued :
           /\ p \in attempts
           /\ HasEvent(p.dispatch, "ATTEMPT_DISPATCHED",
                       operations[p.action].identity, p.attempt, None)
           /\ \E n \in 1..(p.dispatch - 1) :
                HasEvent(n, "OPERATION_PREPARED", operations[p.action].identity, NoAttempt, None)
      /\ \A p, q \in issued :
           p.attempt = q.attempt \/ p.dispatch = q.dispatch => p = q

\* Nothing is ever rewritten: events, transition rows and attempts only grow, and an
\* operation keeps its identity and proposal event.
AppendOnly ==
  [][ /\ IsPrefix(events, events')
      /\ \A a \in ActionIds : IsPrefix(transitions[a], transitions'[a])
      /\ attempts \subseteq attempts'
      /\ \A a \in DOMAIN operations :
           /\ a \in DOMAIN operations'
           /\ operations'[a].identity = operations[a].identity
           /\ operations'[a].created = operations[a].created ]_vars

\* The abstract lifecycle over all registered actions.
KnowledgeOf(s) ==
  CASE s \in {"PROPOSED", "AUTHORIZED", "PREPARED"} -> "unsent"
    [] s \in {"IN_FLIGHT", "INDETERMINATE", "RECONCILING"} -> "maybe"
    [] s = "VERIFYING" -> "found"
    [] s = "RETRYABLE" -> "absent"
    [] s = "COMPLETE" -> "complete"
    [] s = "SAFE_STOP" -> "stopped"
    [] s = "VIOLATION" -> "violated"

Lifecycle == INSTANCE ActionLifecycle WITH
  knowledge <- [a \in ActionIds |->
                 IF a \in DOMAIN operations THEN KnowledgeOf(operations[a].state) ELSE "unsent"],
  issued    <- [a \in ActionIds |-> {r.attempt : r \in AttemptsOf(a)}]

\* The tables implement ActionLifecycle for all actions together: attempt identifiers
\* are never shared between actions, and no action is dispatched while an earlier
\* attempt may have an effect, across handles, crashes and reopening.
ImplementsLifecycle == Lifecycle!Spec

\* ARCHITECTURE.md: a forbidden call "transitions the action to VIOLATION, even when
\* the gateway prevents the effect".
ForbiddenCallsAreRecorded ==
  \A a \in attempted : operations[a].state = "VIOLATION"
=============================================================================
