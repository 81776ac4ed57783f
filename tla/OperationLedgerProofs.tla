------------------------ MODULE OperationLedgerProofs ------------------------
(***************************************************************************)
(* Proofs about the ledger, for any handles, requests, ticks and bounds:   *)
(* its tables are well-typed, nothing in them is ever rewritten, a permit  *)
(* is backed by durable rows, the file always passes its own validation,   *)
(* the tables implement the abstract lifecycle of all actions, and what    *)
(* they say of an action is the life of one OperationStateMachine.         *)
(***************************************************************************)
EXTENDS LedgerMachines, TransitionRulesProofs, FiniteSetTheorems

-----------------------------------------------------------------------------
\* Appending rows to a table keeps the rows before them.
LEMMA AppendIsPrefix ==
  ASSUME NEW S, NEW q \in Seq(S), NEW r \in Seq(S)
  PROVE  q \o r \in Seq(S) /\ IsPrefix(q, q \o r)
<1>1. q \o r \in Seq(S) /\ Len(q \o r) = Len(q) + Len(r)
  OBVIOUS
<1>2. SubSeq(q, 1, Len(q)) = SubSeq(q \o r, 1, Len(q))
  OBVIOUS
<1> QED BY <1>1, <1>2 DEF IsPrefix

\* So does appending one row.
LEMMA AppendOneIsPrefix ==
  ASSUME NEW S, NEW q \in Seq(S), NEW e \in S
  PROVE  Append(q, e) \in Seq(S) /\ IsPrefix(q, Append(q, e))
<1>1. SubSeq(q, 1, Len(q)) = SubSeq(Append(q, e), 1, Len(q))
  OBVIOUS
<1> QED BY <1>1 DEF IsPrefix

\* The replay of typed rows stands in one of the machine's states.
LEMMA StateBeforeTyped ==
  ASSUME NEW rows \in Seq(TransitionRows), NEW n \in 1..(Len(rows) + 1)
  PROVE  StateBefore(rows, n) \in States
<1>1. CASE n = 1
  BY <1>1 DEF StateBefore, States
<1>2. CASE n # 1
  <2>1. rows[n - 1] \in TransitionRows
    BY <1>2
  <2> QED BY <2>1, <1>2 DEF StateBefore, TransitionRows, Records
<1> QED BY <1>1, <1>2

\* The attempt identifiers of a replay can be counted.
LEMMA UsedBeforeFinite ==
  ASSUME NEW rows \in Seq(TransitionRows), NEW n
  PROVE  Cardinality(UsedBefore(rows, n)) \in Nat
<1> DEFINE ks == {k \in DispatchRows(rows) : k < n}
<1> DEFINE f == [k \in ks |-> rows[k].record.attempt]
<1>1. IsFiniteSet(ks)
  <2>1. ks \in SUBSET (1..Len(rows))
    BY DEF DispatchRows
  <2>2. IsFiniteSet(1..Len(rows))
    BY FS_Interval, Len(rows) \in Int
  <2> QED BY <2>1, <2>2, FS_Subset
<1>2. f \in Surjection(ks, UsedBefore(rows, n))
  BY DEF UsedBefore, Surjection
<1>3. IsFiniteSet(UsedBefore(rows, n))
  <2> HIDE DEF ks, f
  <2> QED BY <1>1, <1>2, FS_Surjection
<1> QED BY <1>3, FS_CardinalityType

-----------------------------------------------------------------------------
(***************************************************************************)
(* One step.  Grown is what every step leaves behind: typed tables that    *)
(* extend the ones before.                                                 *)
(***************************************************************************)

Grown ==
  /\ TypeOK'
  /\ IsPrefix(events, events')
  /\ \A a \in ActionIds : IsPrefix(transitions[a], transitions'[a])
  /\ attempts \subseteq attempts'
  /\ \A a \in DOMAIN operations :
       /\ a \in DOMAIN operations'
       /\ operations'[a].identity = operations[a].identity
       /\ operations'[a].created = operations[a].created

\* A typed sequence is its own prefix.
LEMMA PrefixOfItself ==
  ASSUME NEW S, NEW q \in Seq(S)
  PROVE  IsPrefix(q, q)
BY DEF IsPrefix

\* A prefix, row by row.
LEMMA PrefixMeans ==
  ASSUME NEW S, NEW p \in Seq(S), NEW q \in Seq(S)
  PROVE  IsPrefix(p, q) <=> Len(p) <= Len(q) /\ \A n \in 1..Len(p) : p[n] = q[n]
<1>1. CASE Len(p) <= Len(q)
  <2>1. /\ SubSeq(p, 1, Len(p)) \in Seq(S) /\ SubSeq(q, 1, Len(p)) \in Seq(S)
        /\ Len(SubSeq(p, 1, Len(p))) = Len(p) /\ Len(SubSeq(q, 1, Len(p))) = Len(p)
        /\ \A n \in 1..Len(p) : SubSeq(p, 1, Len(p))[n] = p[n] /\ SubSeq(q, 1, Len(p))[n] = q[n]
    BY <1>1
  <2> QED BY <1>1, <2>1 DEF IsPrefix
<1>2. CASE ~(Len(p) <= Len(q))
  BY <1>2 DEF IsPrefix
<1> QED BY <1>1, <1>2

\* A prefix of a prefix.
LEMMA PrefixTransitive ==
  ASSUME NEW S, NEW p \in Seq(S), NEW q \in Seq(S), NEW r \in Seq(S),
         IsPrefix(p, q), IsPrefix(q, r)
  PROVE  IsPrefix(p, r)
<1>1. Len(p) <= Len(q) /\ \A n \in 1..Len(p) : p[n] = q[n]
  BY PrefixMeans
<1>2. Len(q) <= Len(r) /\ \A n \in 1..Len(q) : q[n] = r[n]
  BY PrefixMeans
<1>3. Len(p) \in Nat /\ Len(q) \in Nat /\ Len(r) \in Nat
  OBVIOUS
<1>4. Len(p) <= Len(r) /\ \A n \in 1..Len(p) : p[n] = r[n]
  BY <1>1, <1>2, <1>3
<1> QED BY <1>4, PrefixMeans

\* The empty table is a prefix of every one.
LEMMA EmptyIsPrefix ==
  ASSUME NEW S, NEW q \in Seq(S)
  PROVE  IsPrefix(<<>>, q)
<1>1. Len(<<>>) = 0 /\ Len(q) \in Nat /\ SubSeq(<<>>, 1, 0) = <<>> /\ SubSeq(q, 1, 0) = <<>>
  OBVIOUS
<1> QED BY <1>1 DEF IsPrefix

\* A step that leaves the tables alone grows them if it leaves the handles typed.
LEMMA TablesUnchanged ==
  ASSUME TypeOK, UNCHANGED tables, open' \subseteq Handles,
         returning' \in [Handles -> Permits \cup {None}], permits' \subseteq Permits,
         attempted' \subseteq ActionIds
  PROVE  Grown
<1>1. IsPrefix(events, events)
  BY PrefixOfItself DEF TypeOK
<1>2. \A a \in ActionIds : IsPrefix(transitions[a], transitions[a])
  BY PrefixOfItself DEF TypeOK
<1> QED BY <1>1, <1>2 DEF Grown, TypeOK, tables

\* The record of a call is well-typed.
LEMMA LedgerRecordTyped ==
  ASSUME TypeOK, NEW a \in ActionIds, NEW call \in Calls
  PROVE  RecordInLedger(a, call) \in Records
<1>1. transitions[a] \in Seq(TransitionRows)
  BY DEF TypeOK
<1>2. ReplayedState(a) \in States
  <2>1. Len(transitions[a]) + 1 \in 1..(Len(transitions[a]) + 1)
    BY <1>1
  <2> QED BY <1>1, <2>1, StateBeforeTyped DEF ReplayedState
<1> QED BY <1>2, RecordShape DEF RecordInLedger

\* An identity, attempt and facts of the right kinds make a row of the events table.
LEMMA EventTyped ==
  ASSUME NEW tick \in Ticks, NEW kind \in Kinds, NEW i \in Identities \cup {None},
         NEW t \in AttemptIds \cup {NoAttempt}, NEW facts \in Facts \cup {None}
  PROVE  <<Event(tick, kind, i, t, facts)>> \in Seq(EventRows)
BY DEF Event, EventRows

\* The events of a transition are typed.
LEMMA TransitionEventsTyped ==
  ASSUME NEW i \in Identities, NEW record \in Records, NEW flags \in SUBSET Flags,
         NEW tick \in Ticks
  PROVE  TransitionEvents(i, record, flags, tick) \in Seq(EventRows)
<1> DEFINE facts == [record |-> record, flags |-> flags]
<1>1. <<Event(tick, "OPERATION_PREPARED", i, NoAttempt, None)>> \in Seq(EventRows)
  BY EventTyped DEF Kinds, ManagedKinds
<1>2. <<Event(tick, "STATE_TRANSITION", i, record.attempt, facts)>> \in Seq(EventRows)
  <2>1. facts \in Facts /\ record.attempt \in AttemptIds \cup {NoAttempt}
    BY DEF Facts, Records
  <2> HIDE DEF facts
  <2> QED BY <2>1, EventTyped DEF Kinds, ManagedKinds
<1>3. <<>> \in Seq(EventRows)
  OBVIOUS
<1> QED BY <1>1, <1>2, <1>3, AppendIsPrefix DEF TransitionEvents

\* _persist_transition extends events and transitions and leaves the rest as it was.
LEMMA PersistGrows ==
  ASSUME TypeOK, NEW a \in DOMAIN operations, NEW call \in Calls, NEW tick \in Ticks,
         NEW before \in Seq(EventRows),
         PersistTransition(a, before, RecordInLedger(a, call), call, tick),
         attempts' \in SUBSET AttemptRows, attempts \subseteq attempts',
         open' \subseteq Handles, permits' \subseteq Permits,
         returning' \in [Handles -> Permits \cup {None}], attempted' \subseteq ActionIds
  PROVE  Grown
<1> DEFINE record == RecordInLedger(a, call)
<1> DEFINE rows == before \o TransitionEvents(operations[a].identity, record,
                                             call.evidence.flags, tick)
<1>1. /\ a \in ActionIds
      /\ record \in Records
      /\ operations[a] \in OperationRows
      /\ call.evidence.flags \in SUBSET Flags
      /\ call.identity \in Identities
  BY LedgerRecordTyped DEF TypeOK, Calls, Evidence
<1> HIDE DEF record
<1>2. rows \in Seq(EventRows)
  BY <1>1, TransitionEventsTyped, AppendIsPrefix DEF OperationRows
<1>3. events' = events \o rows
  BY DEF PersistTransition, AppendRows, record
<1> HIDE DEF rows
<1>4. /\ events' \in Seq(EventRows)
      /\ IsPrefix(events, events')
      /\ Len(events') \in Nat
  BY <1>2, <1>3, AppendIsPrefix DEF TypeOK
<1> DEFINE row == [seq |-> Len(events'), record |-> record,
                   candidate |-> call.identity, flags |-> call.evidence.flags]
<1>5. row \in TransitionRows
  BY <1>1, <1>4 DEF TransitionRows
<1>6. transitions' = [transitions EXCEPT ![a] = Append(@, row)]
  BY DEF PersistTransition, record
<1> HIDE DEF row
<1>7. /\ transitions' \in [ActionIds -> Seq(TransitionRows)]
      /\ \A b \in ActionIds : IsPrefix(transitions[b], transitions'[b])
  <2>1. /\ Append(transitions[a], row) \in Seq(TransitionRows)
        /\ IsPrefix(transitions[a], Append(transitions[a], row))
    BY <1>1, <1>5, AppendOneIsPrefix DEF TypeOK
  <2>2. \A b \in ActionIds : IsPrefix(transitions[b], transitions[b])
    BY PrefixOfItself DEF TypeOK
  <2>3. transitions' \in [ActionIds -> Seq(TransitionRows)]
    BY <1>6, <2>1 DEF TypeOK
  <2>4. ASSUME NEW b \in ActionIds PROVE IsPrefix(transitions[b], transitions'[b])
    <3>1. CASE b = a
      BY <3>1, <1>1, <1>6, <2>1 DEF TypeOK
    <3>2. CASE b # a
      BY <3>2, <1>6, <2>2 DEF TypeOK
    <3> QED BY <3>1, <3>2
  <2> QED BY <2>3, <2>4
<1>8. /\ DOMAIN operations' = DOMAIN operations
      /\ operations' \in [DOMAIN operations -> OperationRows]
      /\ \A b \in DOMAIN operations :
           /\ operations'[b].identity = operations[b].identity
           /\ operations'[b].created = operations[b].created
  <2>1. operations' = [operations EXCEPT ![a].state = record.resulting,
                                         ![a].updated = Len(events')]
    BY DEF PersistTransition, record
  <2>2. record.resulting \in States
    BY <1>1 DEF Records
  <2> QED BY <2>1, <2>2, <1>1, <1>4 DEF TypeOK, OperationRows
<1> QED BY <1>4, <1>7, <1>8 DEF Grown, TypeOK

\* A transition or dispatch that lets nothing out grows the tables.
LEMMA RecordOnlyGrows ==
  ASSUME TypeOK, NEW a \in DOMAIN operations, NEW call \in Calls, NEW tick \in Ticks,
         RecordOnly(a, call, tick) \/ ForbiddenButLate(a, call, tick)
  PROVE  Grown
<1>1. a \in ActionIds
  BY DEF TypeOK
<1>2. CASE RecordOnly(a, call, tick)
  <2>1. PersistTransition(a, <<>>, RecordInLedger(a, call), call, tick)
    BY <1>2 DEF RecordOnly
  <2>2. <<>> \in Seq(EventRows)
    OBVIOUS
  <2>3. /\ attempts' \in SUBSET AttemptRows /\ attempts \subseteq attempts'
        /\ open' \subseteq Handles /\ permits' \subseteq Permits
        /\ returning' \in [Handles -> Permits \cup {None}] /\ attempted' \subseteq ActionIds
    BY <1>1, <1>2 DEF RecordOnly, handles, TypeOK
  <2> QED BY <2>1, <2>2, <2>3, PersistGrows
<1>3. CASE ForbiddenButLate(a, call, tick)
  <2>1. /\ UNCHANGED tables
        /\ open' \subseteq Handles /\ permits' \subseteq Permits
        /\ returning' \in [Handles -> Permits \cup {None}] /\ attempted' \subseteq ActionIds
    BY <1>1, <1>3 DEF ForbiddenButLate, handles, TypeOK
  <2> QED BY <2>1, TablesUnchanged
<1> QED BY <1>2, <1>3

\* A dispatch that is let out grows the tables.
LEMMA LetOutGrows ==
  ASSUME TypeOK, NEW h \in Handles, NEW a \in DOMAIN operations, NEW call \in Calls,
         NEW tick \in Ticks, LetOut(h, a, call, tick)
  PROVE  Grown
<1>1. PICK before, permit :
        /\ before = <<Event(tick, "ATTEMPT_DISPATCHED", operations[a].identity,
                            call.attempt, None)>>
        /\ permit = [attempt |-> call.attempt, action |-> a,
                     ordinal |-> Cardinality(ReplayedAttempts(a)) + 1,
                     dispatch |-> Len(events) + 1, transition |-> Len(events) + 2]
        /\ IsDispatch(RecordInLedger(a, call))
        /\ PersistTransition(a, before, RecordInLedger(a, call), call, tick)
        /\ attempts' = attempts \cup {permit}
        /\ returning' = [returning EXCEPT ![h] = permit]
        /\ UNCHANGED <<open, permits, attempted>>
  BY DEF LetOut
<1>2. /\ a \in ActionIds
      /\ transitions[a] \in Seq(TransitionRows)
      /\ Len(events) \in Nat
      /\ operations[a].identity \in Identities
  BY DEF TypeOK, OperationRows
<1>3. call.attempt \in AttemptIds
  <2>1. Len(transitions[a]) + 1 \in 1..(Len(transitions[a]) + 1)
    BY <1>2
  <2>2. ReplayedState(a) \in States
    BY <1>2, <2>1, StateBeforeTyped DEF ReplayedState
  <2>3. RecordInLedger(a, call).attempt \in AttemptIds
    BY <1>1, <2>2, DispatchIsFresh DEF RecordInLedger
  <2> QED BY <2>3, AttemptAssumption DEF RecordInLedger, RecordOf, AttemptForRecord
<1>4. permit \in AttemptRows
  <2>1. Cardinality(ReplayedAttempts(a)) \in Nat
    BY <1>2, UsedBeforeFinite DEF ReplayedAttempts
  <2> QED BY <1>1, <1>2, <1>3, <2>1 DEF AttemptRows
<1>5. before \in Seq(EventRows)
  BY <1>1, <1>2, <1>3, EventTyped DEF Kinds, ManagedKinds
<1>6. /\ attempts' \in SUBSET AttemptRows /\ attempts \subseteq attempts'
      /\ open' \subseteq Handles /\ permits' \subseteq Permits
      /\ returning' \in [Handles -> Permits \cup {None}] /\ attempted' \subseteq ActionIds
  BY <1>1, <1>4 DEF TypeOK, Permits
<1> QED BY <1>1, <1>5, <1>6, PersistGrows

\* Every step of the ledger grows its tables.
LEMMA NextGrows ==
  ASSUME TypeOK, [Next]_vars
  PROVE  Grown
<1>1. CASE UNCHANGED vars
  <2>1. UNCHANGED tables /\ open' \subseteq Handles /\ permits' \subseteq Permits
        /\ returning' \in [Handles -> Permits \cup {None}] /\ attempted' \subseteq ActionIds
    BY <1>1 DEF vars, tables, TypeOK
  <2> QED BY <2>1, TablesUnchanged
<1>2. CASE Next
  <2>1. ASSUME NEW h \in Handles, NEW tick \in Ticks, AppendEvent(h, Len(events) + 1, tick)
        PROVE  Grown
    <3>1. PICK row : row = Event(tick, "OTHER", None, NoAttempt, None) /\ <<row>> \in Seq(EventRows)
      BY EventTyped DEF Kinds
    <3>2. events' = events \o <<row>>
      BY <2>1, <3>1 DEF AppendEvent, AppendRows
    <3>3. events' \in Seq(EventRows) /\ IsPrefix(events, events')
      BY <3>1, <3>2, AppendIsPrefix DEF TypeOK
    <3>4. \A a \in ActionIds : IsPrefix(transitions[a], transitions[a])
      BY PrefixOfItself DEF TypeOK
    <3> QED BY <2>1, <3>3, <3>4 DEF AppendEvent, handles, Grown, TypeOK
  <2>2. ASSUME NEW h \in Handles, NEW tick \in Ticks, NEW identity \in Identities,
               RegisterOperation(h, identity, tick)
        PROVE  Grown
    <3>1. PICK row : row = Event(tick, "ACTION_PROPOSED", identity, NoAttempt, None)
                     /\ <<row>> \in Seq(EventRows)
      BY EventTyped DEF Kinds, ManagedKinds
    <3>2. events' = events \o <<row>>
      BY <2>2, <3>1 DEF RegisterOperation, AppendRows
    <3>3. events' \in Seq(EventRows) /\ IsPrefix(events, events')
      BY <3>1, <3>2, AppendIsPrefix DEF TypeOK
    <3>4. \A a \in ActionIds : IsPrefix(transitions[a], transitions[a])
      BY PrefixOfItself DEF TypeOK
    <3>5. PICK a, r :
            /\ a = identity.action_id
            /\ r = [identity |-> identity, state |-> "PROPOSED",
                    created |-> Len(events) + 1, updated |-> Len(events) + 1]
            /\ a \notin DOMAIN operations
            /\ operations' = [b \in DOMAIN operations \cup {a} |->
                                IF b = a THEN r ELSE operations[b]]
      BY <2>2 DEF RegisterOperation
    <3>6. a \in ActionIds /\ r \in OperationRows
      BY <3>5 DEF Identities, OperationRows, States, TypeOK
    <3>7. /\ DOMAIN operations' \subseteq ActionIds
          /\ operations' \in [DOMAIN operations' -> OperationRows]
          /\ \A b \in DOMAIN operations :
               b \in DOMAIN operations' /\ operations'[b] = operations[b]
      BY <3>5, <3>6 DEF TypeOK
    <3> QED BY <2>2, <3>3, <3>4, <3>7 DEF RegisterOperation, handles, Grown, TypeOK
  <2>3. ASSUME NEW h \in Handles, NEW tick \in Ticks, NEW a \in ActionIds,
               NEW request \in Requests, NEW identity \in Identities,
               TransitionCall(h, a, request, identity, tick)
        PROVE  Grown
    <3>1. PICK call :
            /\ call = [target |-> request.target, evidence |-> request.evidence,
                       identity |-> identity, attempt |-> NoAttempt]
            /\ RecordOnly(a, call, tick) \/ ForbiddenButLate(a, call, tick)
      BY <2>3 DEF TransitionCall
    <3>2. call \in Calls /\ a \in DOMAIN operations
      BY <2>3, <3>1, RequestsAssumption DEF TransitionCall, Callable, Calls, CallAttempts
    <3> QED BY <3>1, <3>2, RecordOnlyGrows
  <2>4. ASSUME NEW h \in Handles, NEW tick \in Ticks, NEW a \in ActionIds,
               NEW request \in Requests, NEW identity \in Identities, NEW id \in AttemptIds,
               RecordDispatch(h, a, id, request.evidence, identity, tick)
        PROVE  Grown
    <3>1. PICK call :
            /\ call = [target |-> "IN_FLIGHT", evidence |-> request.evidence,
                       identity |-> identity, attempt |-> id]
            /\ \/ LetOut(h, a, call, tick)
               \/ RecordOnly(a, call, tick)
               \/ ForbiddenButLate(a, call, tick)
      BY <2>4 DEF RecordDispatch
    <3>2. call \in Calls /\ a \in DOMAIN operations
      BY <2>4, <3>1, RequestsAssumption
      DEF RecordDispatch, Callable, Calls, CallAttempts, States
    <3> QED BY <3>1, <3>2, RecordOnlyGrows, LetOutGrows
  <2>5. ASSUME NEW h \in Handles, ReturnPermit(h) PROVE Grown
    <3>1. UNCHANGED tables /\ open' \subseteq Handles /\ permits' \subseteq Permits
          /\ returning' \in [Handles -> Permits \cup {None}] /\ attempted' \subseteq ActionIds
      BY <2>5 DEF ReturnPermit, TypeOK
    <3> QED BY <3>1, TablesUnchanged
  <2>6. ASSUME NEW h \in Handles, CloseOrCrash(h) \/ Reopen(h) PROVE Grown
    <3>1. UNCHANGED tables /\ open' \subseteq Handles /\ permits' \subseteq Permits
          /\ returning' \in [Handles -> Permits \cup {None}] /\ attempted' \subseteq ActionIds
      BY <2>6 DEF CloseOrCrash, Reopen, TypeOK
    <3> QED BY <3>1, TablesUnchanged
  <2> QED BY <1>2, <2>1, <2>2, <2>3, <2>4, <2>5, <2>6 DEF Next
<1> QED BY <1>1, <1>2

-----------------------------------------------------------------------------
\* Every table, permit and handle keeps its type, whatever is called and whenever
\* processes die.
THEOREM TypeCorrect == Spec => []TypeOK
<1>1. Init => TypeOK
  BY DEF Init, TypeOK
<1>2. TypeOK /\ [Next]_vars => TypeOK'
  BY NextGrows DEF Grown
<1> QED BY <1>1, <1>2, PTL DEF Spec

\* Nothing is ever rewritten: events, transition rows and attempts only grow, and an
\* operation keeps its identity and proposal event (ledger.py has no other UPDATE than
\* the cached state, and no DELETE).
THEOREM AppendOnlyCorrect == Spec => AppendOnly
<1>1. TypeOK /\ [Next]_vars =>
        [ /\ IsPrefix(events, events')
          /\ \A a \in ActionIds : IsPrefix(transitions[a], transitions'[a])
          /\ attempts \subseteq attempts'
          /\ \A a \in DOMAIN operations :
               /\ a \in DOMAIN operations'
               /\ operations'[a].identity = operations[a].identity
               /\ operations'[a].created = operations[a].created ]_vars
  BY NextGrows DEF Grown
<1> QED BY <1>1, TypeCorrect, PTL DEF Spec, AppendOnly

-----------------------------------------------------------------------------
(***************************************************************************)
(* Permits.  The invariant speaks of the tables alone: an attempts row     *)
(* stands behind its dispatch event, and that behind the event of the      *)
(* action's preparation.                                                   *)
(***************************************************************************)

\* Row n of an events table is of this kind, for this identity and attempt.
Shows(rows, n, kind, i, t) ==
  /\ n \in DOMAIN rows
  /\ [rows[n] EXCEPT !.tick = 0] =
       [tick |-> 0, kind |-> kind, identity |-> i, attempt |-> t, facts |-> None]
Prepared(rows, i) == \E n \in DOMAIN rows : Shows(rows, n, "OPERATION_PREPARED", i, NoAttempt)
Placed(rows, r, i) ==
  /\ Shows(rows, r.dispatch, "ATTEMPT_DISPATCHED", i, r.attempt)
  /\ \E n \in 1..(r.dispatch - 1) : Shows(rows, n, "OPERATION_PREPARED", i, NoAttempt)

\* The state at the end of a replay, and the states a prepared action can be in.
Reached(rows) == StateBefore(rows, Len(rows) + 1)
AfterPreparation == States \ {"PROPOSED", "AUTHORIZED", "SAFE_STOP", "VIOLATION"}

PreparedOnRecord ==
  \A a \in ActionIds :
    IF a \in DOMAIN operations
    THEN Reached(transitions[a]) \in AfterPreparation =>
           Prepared(events, operations[a].identity)
    ELSE transitions[a] = <<>>
AttemptsPlaced ==
  \A r \in attempts :
    r.action \in DOMAIN operations /\ Placed(events, r, operations[r.action].identity)
AttemptsOnce ==
  \A r, q \in attempts : r.attempt = q.attempt \/ r.dispatch = q.dispatch => r = q
IssuedAreAttempts ==
  permits \subseteq attempts /\ \A h \in Handles : returning[h] # None => returning[h] \in attempts

PermitInv == PreparedOnRecord /\ AttemptsPlaced /\ AttemptsOnce /\ IssuedAreAttempts

\* A longer table shows what its prefix shows.
LEMMA ShownStaysShown ==
  ASSUME NEW S, NEW q \in Seq(S), NEW s \in Seq(S), IsPrefix(q, s)
  PROVE  /\ DOMAIN q \subseteq DOMAIN s
         /\ \A n \in DOMAIN q : s[n] = q[n]
         /\ \A n, kind, i, t : Shows(q, n, kind, i, t) => Shows(s, n, kind, i, t)
<1>1. Len(q) <= Len(s) /\ SubSeq(q, 1, Len(q)) = SubSeq(s, 1, Len(q))
  BY DEF IsPrefix
<1>2. DOMAIN q = 1..Len(q) /\ DOMAIN s = 1..Len(s) /\ Len(q) \in Nat /\ Len(s) \in Nat
  OBVIOUS
<1>3. ASSUME NEW n \in DOMAIN q PROVE n \in DOMAIN s /\ s[n] = q[n]
  <2>1. SubSeq(q, 1, Len(q))[n] = q[n] /\ SubSeq(s, 1, Len(q))[n] = s[n]
    BY <1>1, <1>2
  <2> QED BY <1>1, <1>2, <2>1
<1> QED BY <1>3 DEF Shows

\* What was placed stays placed, and what was prepared stays prepared.
LEMMA StaysPlaced ==
  ASSUME TypeOK, Grown, PermitInv
  PROVE  /\ \A r \in attempts :
              r.action \in DOMAIN operations' /\ Placed(events', r, operations'[r.action].identity)
         /\ \A a \in DOMAIN operations :
              Prepared(events, operations[a].identity) => Prepared(events', operations'[a].identity)
<1>1. /\ DOMAIN events \subseteq DOMAIN events'
      /\ \A n, kind, i, t : Shows(events, n, kind, i, t) => Shows(events', n, kind, i, t)
  BY ShownStaysShown DEF TypeOK, Grown
<1>2. \A a \in DOMAIN operations :
        a \in DOMAIN operations' /\ operations'[a].identity = operations[a].identity
  BY DEF Grown
<1>3. ASSUME NEW r \in attempts
      PROVE  r.action \in DOMAIN operations' /\ Placed(events', r, operations'[r.action].identity)
  BY <1>1, <1>2 DEF PermitInv, AttemptsPlaced, Placed
<1>4. ASSUME NEW a \in DOMAIN operations, Prepared(events, operations[a].identity)
      PROVE  Prepared(events', operations'[a].identity)
  BY <1>1, <1>2, <1>4 DEF Prepared
<1> QED BY <1>3, <1>4

\* A step that lets nothing out, and leaves every action prepared on record, keeps the
\* invariant.
LEMMA NothingLetOut ==
  ASSUME TypeOK, Grown, PermitInv, attempts' = attempts, permits' \subseteq attempts,
         \A h \in Handles : returning'[h] # None => returning'[h] \in attempts,
         PreparedOnRecord'
  PROVE  PermitInv'
<1>1. AttemptsPlaced'
  BY StaysPlaced DEF AttemptsPlaced
<1> QED BY <1>1 DEF PermitInv, AttemptsOnce, IssuedAreAttempts

\* The place of the first element of a sequence appended behind others.
LEMMA AppendedAt ==
  ASSUME NEW S, NEW q \in Seq(S), NEW b \in Seq(S), NEW t \in Seq(S), Len(t) > 0
  PROVE  LET s == q \o (b \o t)
             n == Len(q) + Len(b) + 1
         IN  n \in DOMAIN s /\ s[n] = t[1]
<1> DEFINE u == b \o t
           n == Len(q) + Len(b) + 1
<1>1. /\ u \in Seq(S) /\ Len(u) = Len(b) + Len(t)
      /\ u[Len(b) + 1] = t[1]
  OBVIOUS
<1>2. Len(q) \in Nat /\ Len(b) \in Nat /\ Len(t) \in Nat
  OBVIOUS
<1> HIDE DEF u
<1>3. /\ Len(q \o u) = Len(q) + Len(u)
      /\ DOMAIN (q \o u) = 1..(Len(q) + Len(u))
      /\ \A k \in 1..Len(u) : (q \o u)[Len(q) + k] = u[k]
  <2>1. u \in Seq(S)
    BY <1>1
  <2>2. Len(q \o u) = Len(q) + Len(u) /\ q \o u \in Seq(S)
    BY <2>1
  <2>3. DOMAIN (q \o u) = 1..(Len(q) + Len(u))
    BY <2>1, <2>2
  <2>4. ASSUME NEW k \in 1..Len(u) PROVE (q \o u)[Len(q) + k] = u[k]
    BY <2>1
  <2> QED BY <2>2, <2>3, <2>4
<1>4. Len(b) + 1 \in 1..Len(u) /\ n \in 1..(Len(q) + Len(u)) /\ n = Len(q) + (Len(b) + 1)
  BY <1>1, <1>2
<1> QED BY <1>1, <1>3, <1>4 DEF u

\* The rows of other actions are left alone, and the new row of this one ends in the
\* record's state; entering PREPARED leaves the event behind.
LEMMA PersistKeepsPreparation ==
  ASSUME TypeOK, Grown, PermitInv, NEW a \in DOMAIN operations, NEW call \in Calls,
         NEW tick \in Ticks, NEW before \in Seq(EventRows),
         PersistTransition(a, before, RecordInLedger(a, call), call, tick)
  PROVE  PreparedOnRecord'
<1> DEFINE record == RecordInLedger(a, call)
           i == operations[a].identity
           tail == TransitionEvents(i, record, call.evidence.flags, tick)
           row == [seq |-> Len(events'), record |-> record,
                   candidate |-> call.identity, flags |-> call.evidence.flags]
<1>1. a \in ActionIds /\ transitions[a] \in Seq(TransitionRows) /\ i \in Identities
  BY DEF TypeOK, OperationRows
<1>2. Reached(transitions[a]) \in States
  <2>1. Len(transitions[a]) + 1 \in 1..(Len(transitions[a]) + 1)
    BY <1>1
  <2> QED BY <1>1, <2>1, StateBeforeTyped DEF Reached
<1>3. /\ record \in Records
      /\ record.source = Reached(transitions[a])
      /\ \/ record.resulting = "VIOLATION"
         \/ Edge(Reached(transitions[a]), record.resulting, record.cause) \in NORMATIVE_TRANSITIONS
  BY <1>2, RecordShape DEF RecordInLedger, ReplayedState, Reached
<1>4. record.resulting # "VIOLATION" => record.reason = NoReason
  BY DEF RecordInLedger, RecordOf
<1>5. /\ events' = events \o (before \o tail)
      /\ transitions' = [transitions EXCEPT ![a] = Append(@, row)]
  BY DEF PersistTransition, AppendRows
<1>6. DOMAIN operations' = DOMAIN operations
  BY DEF PersistTransition
<1>7. row \in TransitionRows /\ row.record = record
  <2>1. call.identity \in Identities /\ call.evidence.flags \in SUBSET Flags
    BY DEF Calls, Evidence
  <2>2. Len(events') \in Nat
    BY DEF Grown, TypeOK
  <2> HIDE DEF record
  <2> QED BY <1>3, <2>1, <2>2 DEF TransitionRows
<1>8. Reached(transitions'[a]) = record.resulting
  <2> HIDE DEF row
  <2>1. transitions'[a] = Append(transitions[a], row)
    BY <1>1, <1>5 DEF TypeOK
  <2>2. /\ Len(Append(transitions[a], row)) = Len(transitions[a]) + 1
        /\ Append(transitions[a], row)[Len(transitions[a]) + 1] = row
        /\ Len(transitions[a]) \in Nat
    BY <1>1, <1>7, AppendFacts
  <2> QED BY <1>7, <2>1, <2>2 DEF Reached, StateBefore
<1>9. record.resulting = "PREPARED" => Prepared(events', i)
  <2> SUFFICES ASSUME record.resulting = "PREPARED" PROVE Prepared(events', i)
    OBVIOUS
  <2> DEFINE e == Event(tick, "OPERATION_PREPARED", i, NoAttempt, None)
             f == Event(tick, "STATE_TRANSITION", i, record.attempt,
                        [record |-> record, flags |-> call.evidence.flags])
  <2>1. tail = <<e>> \o <<f>>
    BY <1>4 DEF TransitionEvents, Prepares
  <2> HIDE DEF e, f, tail, record, i
  <2>2. events' = events \o (before \o (<<e>> \o <<f>>))
    BY <1>5, <2>1
  <2>3. events \in Seq(EventRows)
    BY DEF TypeOK
  <2>4. PICK n : n = Len(events) + Len(before) + 1
    OBVIOUS
  <2>5. n \in DOMAIN events' /\ events'[n] = e
    <3>1. <<e>> \in Seq(EventRows) /\ <<f>> \in Seq(EventRows)
      <4>1. record.attempt \in AttemptIds \cup {NoAttempt}
            /\ [record |-> record, flags |-> call.evidence.flags] \in Facts
        BY <1>3 DEF Records, Facts, Calls, Evidence
      <4> QED BY <1>1, <4>1, EventTyped DEF e, f, Kinds, ManagedKinds
    <3> DEFINE x == <<e>>
               y == <<f>>
    <3>2. Len(x) = 1 /\ x[1] = e
      OBVIOUS
    <3> HIDE DEF x, y
    <3>3. x \o y \in Seq(EventRows) /\ Len(x \o y) > 0 /\ (x \o y)[1] = x[1]
      <4>1. x \in Seq(EventRows) /\ y \in Seq(EventRows)
        BY <3>1 DEF x, y
      <4>2. x \o y \in Seq(EventRows) /\ IsPrefix(x, x \o y)
        BY <4>1, AppendIsPrefix
      <4>3. DOMAIN x \subseteq DOMAIN (x \o y) /\ \A k \in DOMAIN x : (x \o y)[k] = x[k]
        BY <4>1, <4>2, ShownStaysShown
      <4>4. 1 \in DOMAIN x
        BY <3>2, <4>1
      <4>5. Len(x \o y) > 0
        BY <4>2, <4>3, <4>4
      <4> QED BY <4>2, <4>3, <4>4, <4>5
    <3>4. events' = events \o (before \o (x \o y))
      BY <2>2 DEF x, y
    <3>5. PICK s \in Seq(EventRows) : s = x \o y /\ Len(s) > 0 /\ s[1] = e
      BY <3>2, <3>3
    <3>6. /\ Len(events) + Len(before) + 1 \in DOMAIN (events \o (before \o s))
          /\ (events \o (before \o s))[Len(events) + Len(before) + 1] = s[1]
      <4>1. Len(s) > 0 /\ events \in Seq(EventRows) /\ before \in Seq(EventRows)
        BY <2>3, <3>5
      <4> QED BY ONLY <4>1, AppendedAt
    <3> QED BY ONLY <2>4, <3>4, <3>5, <3>6
  <2>6. [e EXCEPT !.tick = 0] =
          [tick |-> 0, kind |-> "OPERATION_PREPARED", identity |-> i,
           attempt |-> NoAttempt, facts |-> None]
    BY DEF e, Event
  <2> QED BY <2>5, <2>6 DEF Prepared, Shows
<1>10. ASSUME NEW b \in ActionIds
       PROVE  IF b \in DOMAIN operations'
              THEN Reached(transitions'[b]) \in AfterPreparation =>
                     Prepared(events', operations'[b].identity)
              ELSE transitions'[b] = <<>>
  <2>1. CASE b = a
    <3>1. operations'[a].identity = i
      BY DEF Grown
    <3>2. record.resulting \in AfterPreparation =>
            record.resulting = "PREPARED" \/ Reached(transitions[a]) \in AfterPreparation
      BY <1>2, <1>3 DEF AfterPreparation, NORMATIVE_TRANSITIONS, Graph, Edge, States
    <3>3. Reached(transitions[a]) \in AfterPreparation => Prepared(events', operations'[a].identity)
      BY <1>1, StaysPlaced DEF PermitInv, PreparedOnRecord
    <3> QED BY <1>6, <1>8, <1>9, <2>1, <3>1, <3>2, <3>3
  <2>2. CASE b # a
    <3>1. transitions'[b] = transitions[b]
      BY <1>5, <2>2 DEF TypeOK
    <3>2. CASE b \in DOMAIN operations
      BY <1>6, <3>1, <3>2, StaysPlaced DEF PermitInv, PreparedOnRecord
    <3>3. CASE b \notin DOMAIN operations
      BY <1>6, <3>1, <3>3 DEF PermitInv, PreparedOnRecord
    <3> QED BY <3>2, <3>3
  <2> QED BY <2>1, <2>2
<1> QED BY <1>10 DEF PreparedOnRecord

\* A call that lets nothing out keeps the invariant.
LEMMA RecordOnlyKeepsPermits ==
  ASSUME TypeOK, PermitInv, NEW a \in DOMAIN operations, NEW call \in Calls, NEW tick \in Ticks,
         RecordOnly(a, call, tick) \/ ForbiddenButLate(a, call, tick)
  PROVE  PermitInv'
<1>1. Grown
  BY RecordOnlyGrows
<1>2. UNCHANGED <<attempts, permits, returning>>
  BY DEF RecordOnly, ForbiddenButLate, tables, handles
<1>3. PreparedOnRecord'
  <2>1. CASE RecordOnly(a, call, tick)
    <3>1. PersistTransition(a, <<>>, RecordInLedger(a, call), call, tick)
      BY <2>1 DEF RecordOnly
    <3>2. <<>> \in Seq(EventRows)
      OBVIOUS
    <3> QED BY <1>1, <3>1, <3>2, PersistKeepsPreparation
  <2>2. CASE ForbiddenButLate(a, call, tick)
    BY <2>2 DEF ForbiddenButLate, tables, PermitInv, PreparedOnRecord, Prepared
  <2> QED BY <2>1, <2>2
<1> QED BY <1>1, <1>2, <1>3, NothingLetOut DEF PermitInv, IssuedAreAttempts

\* A dispatch that is let out leaves its event, after that of the preparation, and an
\* attempts row of its own.
LEMMA LetOutKeepsPermits ==
  ASSUME TypeOK, PermitInv, NEW h \in Handles, NEW a \in DOMAIN operations, NEW call \in Calls,
         NEW tick \in Ticks, LetOut(h, a, call, tick)
  PROVE  PermitInv'
<1> DEFINE i == operations[a].identity
           e == Event(tick, "ATTEMPT_DISPATCHED", i, call.attempt, None)
           last == Len(events) + 1
<1>1. Grown
  BY LetOutGrows
<1>2. PICK permit :
        /\ permit = [attempt |-> call.attempt, action |-> a,
                     ordinal |-> Cardinality(ReplayedAttempts(a)) + 1,
                     dispatch |-> Len(events) + 1, transition |-> Len(events) + 2]
        /\ IsDispatch(RecordInLedger(a, call))
        /\ \A r \in attempts : r.attempt # call.attempt
        /\ PersistTransition(a, <<e>>, RecordInLedger(a, call), call, tick)
        /\ attempts' = attempts \cup {permit}
        /\ returning' = [returning EXCEPT ![h] = permit]
        /\ permits' = permits
  BY DEF LetOut
<1>3. permit.action = a /\ permit.dispatch = last /\ permit.attempt = call.attempt
  BY <1>2
<1>4. /\ a \in ActionIds /\ i \in Identities /\ transitions[a] \in Seq(TransitionRows)
      /\ events \in Seq(EventRows) /\ Len(events) \in Nat
  BY DEF TypeOK, OperationRows
<1>5. /\ Reached(transitions[a]) \in {"PREPARED", "RETRYABLE"}
      /\ RecordInLedger(a, call).attempt \in AttemptIds
  <2>1. Len(transitions[a]) + 1 \in 1..(Len(transitions[a]) + 1)
    BY <1>4
  <2>2. Reached(transitions[a]) \in States
    BY <1>4, <2>1, StateBeforeTyped DEF Reached
  <2> QED BY <1>2, <2>2, DispatchIsFresh DEF RecordInLedger, ReplayedState, Reached
<1>6. call.attempt \in AttemptIds
  BY <1>5, AttemptAssumption DEF RecordInLedger, RecordOf, AttemptForRecord
<1>7. <<e>> \in Seq(EventRows)
  BY <1>4, <1>6, EventTyped DEF Kinds, ManagedKinds
<1>8. PreparedOnRecord'
  BY <1>1, <1>2, <1>7, PersistKeepsPreparation
<1>9. Shows(events', last, "ATTEMPT_DISPATCHED", i, call.attempt)
  <2>1. PICK rest \in Seq(EventRows) : events' = events \o (<<e>> \o rest)
    <3>1. RecordInLedger(a, call) \in Records /\ call.evidence.flags \in SUBSET Flags
      BY <1>4, LedgerRecordTyped DEF Calls, Evidence
    <3>2. TransitionEvents(i, RecordInLedger(a, call), call.evidence.flags, tick) \in Seq(EventRows)
      BY <1>4, <3>1, TransitionEventsTyped
    <3> QED BY <1>2, <3>2 DEF PersistTransition, AppendRows
  <2>2. [e EXCEPT !.tick = 0] =
          [tick |-> 0, kind |-> "ATTEMPT_DISPATCHED", identity |-> i,
           attempt |-> call.attempt, facts |-> None]
    BY DEF Event
  <2> HIDE DEF e
  <2>3. last \in DOMAIN events' /\ events'[last] = e
    BY <1>4, <2>1
  <2> QED BY <2>2, <2>3 DEF Shows
<1>10. \E n \in 1..(last - 1) : Shows(events', n, "OPERATION_PREPARED", i, NoAttempt)
  <2>1. Prepared(events, i)
    BY <1>4, <1>5 DEF PermitInv, PreparedOnRecord, AfterPreparation, States
  <2>2. PICK n \in DOMAIN events : Shows(events, n, "OPERATION_PREPARED", i, NoAttempt)
    BY <2>1 DEF Prepared
  <2>3. Shows(events', n, "OPERATION_PREPARED", i, NoAttempt)
    BY <1>1, <2>2, ShownStaysShown DEF TypeOK, Grown
  <2>4. n \in 1..(last - 1)
    BY <1>4
  <2> QED BY <2>3, <2>4
<1>11. AttemptsPlaced'
  <2>1. a \in DOMAIN operations' /\ operations'[a].identity = i
    BY <1>1 DEF Grown
  <2>2. Placed(events', permit, i)
    BY <1>3, <1>9, <1>10 DEF Placed
  <2> HIDE DEF i
  <2>3. \A r \in attempts :
          r.action \in DOMAIN operations' /\ Placed(events', r, operations'[r.action].identity)
    BY <1>1, StaysPlaced
  <2> QED BY <1>2, <1>3, <2>1, <2>2, <2>3 DEF AttemptsPlaced
<1>12. AttemptsOnce'
  <2>1. \A r \in attempts : r.dispatch \in DOMAIN events
    BY DEF PermitInv, AttemptsPlaced, Placed, Shows
  <2>2. \A r \in attempts : r.dispatch # last
    BY <1>4, <2>1
  <2> QED BY <1>2, <1>3, <2>2 DEF PermitInv, AttemptsOnce
<1>13. IssuedAreAttempts'
  BY <1>2 DEF PermitInv, IssuedAreAttempts, TypeOK
<1> QED BY <1>8, <1>11, <1>12, <1>13 DEF PermitInv

\* No step of the ledger disturbs the invariant.
LEMMA PermitStep ==
  ASSUME TypeOK, PermitInv, [Next]_vars
  PROVE  PermitInv'
<1>1. Grown
  BY NextGrows
<1>2. ASSUME UNCHANGED tables, permits' \subseteq attempts,
             \A h \in Handles : returning'[h] # None => returning'[h] \in attempts
      PROVE  PermitInv'
  <2>1. PreparedOnRecord'
    BY <1>2 DEF tables, PermitInv, PreparedOnRecord, Prepared
  <2> QED BY <1>1, <1>2, <2>1, NothingLetOut DEF tables
<1>3. CASE UNCHANGED vars
  BY <1>2, <1>3 DEF vars, tables, PermitInv, IssuedAreAttempts
<1>4. ASSUME NEW h \in Handles, NEW tick \in Ticks, AppendEvent(h, Len(events) + 1, tick)
      PROVE  PermitInv'
  <2>1. UNCHANGED <<operations, transitions, attempts, permits, returning>>
    BY <1>4 DEF AppendEvent, handles
  <2>2. PreparedOnRecord'
    BY <1>1, <2>1, StaysPlaced DEF PermitInv, PreparedOnRecord
  <2> QED BY <1>1, <2>1, <2>2, NothingLetOut DEF PermitInv, IssuedAreAttempts
<1>5. ASSUME NEW h \in Handles, NEW tick \in Ticks, NEW identity \in Identities,
             RegisterOperation(h, identity, tick)
      PROVE  PermitInv'
  <2> DEFINE a == identity.action_id
  <2>1. /\ UNCHANGED <<transitions, attempts, permits, returning>>
        /\ a \notin DOMAIN operations
        /\ DOMAIN operations' = DOMAIN operations \cup {a}
    BY <1>5 DEF RegisterOperation, handles
  <2>2. PreparedOnRecord'
    <3> SUFFICES ASSUME NEW b \in ActionIds
                 PROVE  IF b \in DOMAIN operations'
                        THEN Reached(transitions'[b]) \in AfterPreparation =>
                               Prepared(events', operations'[b].identity)
                        ELSE transitions'[b] = <<>>
      BY DEF PreparedOnRecord
    <3>1. CASE b \in DOMAIN operations
      BY <1>1, <2>1, <3>1, StaysPlaced DEF PermitInv, PreparedOnRecord
    <3>2. CASE b \notin DOMAIN operations
      <4>1. transitions'[b] = <<>>
        BY <2>1, <3>2 DEF PermitInv, PreparedOnRecord
      <4> QED BY <4>1 DEF Reached, StateBefore, AfterPreparation
    <3> QED BY <3>1, <3>2
  <2> QED BY <1>1, <2>1, <2>2, NothingLetOut DEF PermitInv, IssuedAreAttempts
<1>6. ASSUME NEW h \in Handles, NEW tick \in Ticks, NEW a \in ActionIds,
             NEW request \in Requests, NEW identity \in Identities,
             TransitionCall(h, a, request, identity, tick)
      PROVE  PermitInv'
  <2>1. PICK call :
          /\ call = [target |-> request.target, evidence |-> request.evidence,
                     identity |-> identity, attempt |-> NoAttempt]
          /\ RecordOnly(a, call, tick) \/ ForbiddenButLate(a, call, tick)
    BY <1>6 DEF TransitionCall
  <2>2. call \in Calls /\ a \in DOMAIN operations
    BY <1>6, <2>1, RequestsAssumption DEF TransitionCall, Callable, Calls, CallAttempts
  <2> QED BY <2>1, <2>2, RecordOnlyKeepsPermits
<1>7. ASSUME NEW h \in Handles, NEW tick \in Ticks, NEW a \in ActionIds,
             NEW request \in Requests, NEW identity \in Identities, NEW id \in AttemptIds,
             RecordDispatch(h, a, id, request.evidence, identity, tick)
      PROVE  PermitInv'
  <2>1. PICK call :
          /\ call = [target |-> "IN_FLIGHT", evidence |-> request.evidence,
                     identity |-> identity, attempt |-> id]
          /\ \/ LetOut(h, a, call, tick)
             \/ RecordOnly(a, call, tick)
             \/ ForbiddenButLate(a, call, tick)
    BY <1>7 DEF RecordDispatch
  <2>2. call \in Calls /\ a \in DOMAIN operations
    BY <1>7, <2>1, RequestsAssumption DEF RecordDispatch, Callable, Calls, CallAttempts, States
  <2> QED BY <2>1, <2>2, RecordOnlyKeepsPermits, LetOutKeepsPermits
<1>8. ASSUME NEW h \in Handles, ReturnPermit(h) \/ CloseOrCrash(h) \/ Reopen(h)
      PROVE  PermitInv'
  <2>1. UNCHANGED tables
    BY <1>8 DEF ReturnPermit, CloseOrCrash, Reopen
  <2>2. /\ permits' \subseteq attempts
        /\ \A g \in Handles : returning'[g] # None => returning'[g] \in attempts
    BY <1>8 DEF ReturnPermit, CloseOrCrash, Reopen, PermitInv, IssuedAreAttempts, TypeOK
  <2> QED BY <1>2, <2>1, <2>2
<1> QED BY <1>3, <1>4, <1>5, <1>6, <1>7, <1>8 DEF Next

\* A ledger in which nothing was ever written.
NothingWritten ==
  /\ events = <<>> /\ DOMAIN operations = {} /\ attempts = {}
  /\ \A a \in ActionIds : transitions[a] = <<>>
  /\ permits = {} /\ \A h \in Handles : returning[h] = None

\* No permit is out yet.
LEMMA NoPermitsYet == NothingWritten => PermitInv
<1> SUFFICES ASSUME NothingWritten PROVE PermitInv OBVIOUS
<1>1. PreparedOnRecord
  BY DEF NothingWritten, PreparedOnRecord
<1> QED BY <1>1 DEF NothingWritten, PermitInv, AttemptsPlaced, AttemptsOnce, IssuedAreAttempts

\* The invariant says of every attempt what is promised of those whose permit is out.
LEMMA PermitsBacked == PermitInv => PermitsAreDurable
<1> SUFFICES ASSUME PermitInv PROVE PermitsAreDurable OBVIOUS
<1> DEFINE issued == permits \cup {returning[h] : h \in {g \in Handles : returning[g] # None}}
<1>1. issued \subseteq attempts
  BY DEF PermitInv, IssuedAreAttempts
<1>2. ASSUME NEW p \in attempts
      PROVE  /\ HasEvent(p.dispatch, "ATTEMPT_DISPATCHED",
                         operations[p.action].identity, p.attempt, None)
             /\ \E n \in 1..(p.dispatch - 1) :
                  HasEvent(n, "OPERATION_PREPARED", operations[p.action].identity, NoAttempt, None)
  <2>1. Placed(events, p, operations[p.action].identity)
    BY DEF PermitInv, AttemptsPlaced
  <2> QED BY <2>1 DEF Placed, Shows, HasEvent
<1>3. \A p, q \in attempts : p.attempt = q.attempt \/ p.dispatch = q.dispatch => p = q
  BY DEF PermitInv, AttemptsOnce
<1> HIDE DEF issued
<1>4. /\ \A p \in issued :
           /\ p \in attempts
           /\ HasEvent(p.dispatch, "ATTEMPT_DISPATCHED",
                       operations[p.action].identity, p.attempt, None)
           /\ \E n \in 1..(p.dispatch - 1) :
                HasEvent(n, "OPERATION_PREPARED", operations[p.action].identity, NoAttempt, None)
      /\ \A p, q \in issued : p.attempt = q.attempt \/ p.dispatch = q.dispatch => p = q
  BY <1>1, <1>2, <1>3
<1> QED BY <1>4 DEF issued, PermitsAreDurable

\* Append before dispatch, whatever the calls, crashes and handles: a permit, delivered
\* or not, is a durable attempt with its dispatch event after the action's preparation,
\* and shares neither identifier nor event with another.
THEOREM PermitsCorrect == Spec => []PermitsAreDurable
<1>1. Init => NothingWritten
  BY DEF Init, NothingWritten
<1> QED BY <1>1, NoPermitsYet, PermitsBacked, PermitStep, TypeCorrect, PTL DEF Spec

-----------------------------------------------------------------------------
(***************************************************************************)
(* Reopening.  Validation looks at every row, but a call only adds some:   *)
(* the new rows validate, and the old ones are judged as before.           *)
(***************************************************************************)

\* What the replays do not say: who has rows, and that each dispatch has its identifier.
RowsOwned ==
  /\ IsFiniteSet(attempts)
  /\ \A r \in attempts : r.action \in DOMAIN operations
  /\ \A a \in ActionIds : a \notin DOMAIN operations => transitions[a] = <<>>
  /\ \A a \in ActionIds :
       /\ IsFiniteSet(ReplayedAttempts(a)) /\ IsFiniteSet(DispatchRows(transitions[a]))
       /\ Cardinality(ReplayedAttempts(a)) = Cardinality(DispatchRows(transitions[a]))

ReopenInv == ContentsValid /\ RowsOwned

\* Rows appended to a table stand behind the old ones.
LEMMA RowsBehind ==
  ASSUME NEW S, NEW q \in Seq(S), NEW t \in Seq(S)
  PROVE  /\ q \o t \in Seq(S) /\ Len(q \o t) = Len(q) + Len(t)
         /\ \A n \in 1..Len(q) : (q \o t)[n] = q[n]
         /\ \A n \in 1..Len(t) : (q \o t)[Len(q) + n] = t[n]
         /\ <<>> \o t = t
OBVIOUS

\* Two rows, and one.
LEMMA TwoRows ==
  ASSUME NEW S, NEW e \in S, NEW f \in S
  PROVE  /\ <<e>> \in Seq(S) /\ Len(<<e>>) = 1 /\ <<e>>[1] = e
         /\ <<e>> \o <<f>> \in Seq(S) /\ Len(<<e>> \o <<f>>) = 2
         /\ (<<e>> \o <<f>>)[1] = e /\ (<<e>> \o <<f>>)[2] = f
OBVIOUS

\* What the replay of a table shows when a row is appended, up to that row and after it.
Longer(rows, row, longer) ==
  /\ longer \in Seq(TransitionRows) /\ Len(longer) = Len(rows) + 1
  /\ DOMAIN rows = 1..Len(rows) /\ DOMAIN longer = 1..(Len(rows) + 1)
  /\ longer[Len(rows) + 1] = row /\ \A n \in 1..Len(rows) : longer[n] = rows[n]
  /\ \A n \in 1..(Len(rows) + 1) : /\ StateBefore(longer, n) = StateBefore(rows, n)
                                   /\ UsedBefore(longer, n) = UsedBefore(rows, n)
  /\ StateBefore(longer, Len(longer) + 1) = row.record.resulting
  /\ DispatchRows(longer) =
       DispatchRows(rows) \cup (IF IsDispatch(row.record) THEN {Len(rows) + 1} ELSE {})
  /\ UsedBefore(longer, Len(longer) + 1) =
       UsedBefore(rows, Len(rows) + 1)
         \cup (IF IsDispatch(row.record) THEN {row.record.attempt} ELSE {})

\* The replay of a table continues with the row appended to it.
LEMMA ReplayAppended ==
  ASSUME NEW rows \in Seq(TransitionRows), NEW row \in TransitionRows
  PROVE  Longer(rows, row, Append(rows, row))
<1> DEFINE longer == Append(rows, row)
<1> DEFINE M == Len(rows)
<1>1. /\ longer \in Seq(TransitionRows) /\ Len(longer) = M + 1 /\ M \in Nat
      /\ DOMAIN rows = 1..M /\ DOMAIN longer = 1..(M + 1)
      /\ longer[M + 1] = row /\ \A n \in 1..M : longer[n] = rows[n]
  BY AppendFacts
<1> HIDE DEF M, longer
<1>2. \A n \in 1..(M + 1) : StateBefore(longer, n) = StateBefore(rows, n)
  BY <1>1 DEF StateBefore
<1>3. StateBefore(longer, M + 2) = row.record.resulting
  BY <1>1 DEF StateBefore
<1>4. DispatchRows(longer) =
        DispatchRows(rows) \cup (IF IsDispatch(row.record) THEN {M + 1} ELSE {})
  BY <1>1 DEF DispatchRows
<1>5. DispatchRows(rows) \subseteq 1..M
  BY <1>1 DEF DispatchRows
<1>6. ASSUME NEW n \in 1..(M + 1) PROVE UsedBefore(longer, n) = UsedBefore(rows, n)
  <2>1. {k \in DispatchRows(longer) : k < n} = {k \in DispatchRows(rows) : k < n}
    BY <1>1, <1>4, <1>5
  <2> QED BY <1>1, <1>5, <2>1 DEF UsedBefore
<1>7. UsedBefore(longer, M + 2) =
        UsedBefore(rows, M + 1) \cup (IF IsDispatch(row.record) THEN {row.record.attempt} ELSE {})
  <2>1. {k \in DispatchRows(longer) : k < M + 2} = DispatchRows(longer)
    BY <1>1, <1>4, <1>5
  <2>2. {k \in DispatchRows(rows) : k < M + 1} = DispatchRows(rows)
    BY <1>1, <1>5
  <2>3. \A k \in DispatchRows(rows) : longer[k] = rows[k]
    BY <1>1, <1>5
  <2>4. UsedBefore(longer, M + 2) = {longer[k].record.attempt : k \in DispatchRows(longer)}
    BY <2>1 DEF UsedBefore
  <2>5. UsedBefore(rows, M + 1) = {rows[k].record.attempt : k \in DispatchRows(rows)}
    BY <2>2 DEF UsedBefore
  <2>6. CASE IsDispatch(row.record)
    <3>1. DispatchRows(longer) = DispatchRows(rows) \cup {M + 1}
      BY <1>4, <2>6
    <3>2. PICK m : m = M + 1 /\ longer[m].record.attempt = row.record.attempt
      BY <1>1
    <3>3. UsedBefore(longer, M + 2) =
            {longer[k].record.attempt : k \in DispatchRows(rows) \cup {m}}
      BY <2>4, <3>1, <3>2
    <3>4. UsedBefore(longer, M + 2) =
            {longer[k].record.attempt : k \in DispatchRows(rows)} \cup {row.record.attempt}
      BY <3>2, <3>3
    <3>5. {longer[k].record.attempt : k \in DispatchRows(rows)} =
            {rows[k].record.attempt : k \in DispatchRows(rows)}
      BY <2>3
    <3> QED BY <2>5, <2>6, <3>4, <3>5
  <2>7. CASE ~IsDispatch(row.record)
    <3>1. DispatchRows(longer) = DispatchRows(rows)
      BY <1>4, <2>7
    <3> QED BY <2>3, <2>4, <2>5, <2>7, <3>1
  <2> QED BY <2>6, <2>7
<1>8. Longer(rows, row, longer)
  BY <1>1, <1>2, <1>3, <1>4, <1>6, <1>7 DEF M, Longer
<1> QED BY <1>8 DEF longer

\* A call is found again in the row it leaves behind.
LEMMA CallReplays ==
  ASSUME NEW s, NEW used, NEW i, NEW call \in Calls, call.attempt # Malformed, NEW row,
         row.record = RecordOf(s, used, i, call), row.candidate = call.identity,
         row.flags = call.evidence.flags
  PROVE  row.record = RecordOf(s, used, i, CallOf(row))
<1>1. AttemptForRecord(call.attempt) = call.attempt
  BY AttemptAssumption DEF AttemptForRecord, Calls, CallAttempts
<1>2. /\ row.record.attempted = call.target /\ row.record.cause = call.evidence.cause
      /\ row.record.attempt = call.attempt
  BY <1>1 DEF RecordOf
<1>3. call = [target |-> call.target,
              evidence |-> [cause |-> call.evidence.cause, flags |-> call.evidence.flags],
              identity |-> call.identity, attempt |-> call.attempt]
  BY DEF Calls, Evidence
<1>4. CallOf(row) = call
  BY <1>2, <1>3 DEF CallOf
<1> QED BY <1>4

-----------------------------------------------------------------------------
\* What a call that makes this record adds to the tables: w rows of events, the last of
\* them the transition's, and the row behind it.
Added(a, call, tick, record, row, w) ==
  /\ w = IF Prepares(record) \/ IsDispatch(record) THEN 2 ELSE 1
  /\ events' \in Seq(EventRows) /\ Len(events') = Len(events) + w
  /\ \A n \in 1..Len(events) : events'[n] = events[n]
  /\ events'[Len(events) + w] =
       Event(tick, "STATE_TRANSITION", operations[a].identity, record.attempt,
             [record |-> record, flags |-> call.evidence.flags])
  /\ Prepares(record) =>
       events'[Len(events) + 1] =
         Event(tick, "OPERATION_PREPARED", operations[a].identity, NoAttempt, None)
  /\ IsDispatch(record) =>
       /\ ~Prepares(record) /\ record.attempt = call.attempt
       /\ events'[Len(events) + 1] =
            Event(tick, "ATTEMPT_DISPATCHED", operations[a].identity, call.attempt, None)
  /\ row = [seq |-> Len(events) + w, record |-> record,
            candidate |-> call.identity, flags |-> call.evidence.flags]
  /\ row \in TransitionRows
  /\ transitions'[a] = Append(transitions[a], row)
  /\ \A b \in ActionIds : b # a => transitions'[b] = transitions[b]
  /\ DOMAIN operations' = DOMAIN operations
  /\ \A b \in DOMAIN operations : b # a => operations'[b] = operations[b]
  /\ operations'[a].identity = operations[a].identity
  /\ operations'[a].created = operations[a].created
  /\ operations'[a].state = record.resulting
  /\ operations'[a].updated = Len(events) + w

\* What a call that is recorded adds to the tables, in the terms of Added.
LEMMA CallAdds ==
  ASSUME TypeOK, NEW a \in DOMAIN operations, NEW call \in Calls, NEW tick \in Ticks,
         NEW record, record = RecordInLedger(a, call), NEW before,
         IF IsDispatch(record)
         THEN before = <<Event(tick, "ATTEMPT_DISPATCHED", operations[a].identity,
                               call.attempt, None)>>
         ELSE before = <<>>,
         PersistTransition(a, before, record, call, tick)
  PROVE  \E row, w : Added(a, call, tick, record, row, w)
<1> DEFINE i == operations[a].identity
           facts == [record |-> record, flags |-> call.evidence.flags]
           last == Event(tick, "STATE_TRANSITION", i, record.attempt, facts)
           prepared == Event(tick, "OPERATION_PREPARED", i, NoAttempt, None)
           dispatched == Event(tick, "ATTEMPT_DISPATCHED", i, call.attempt, None)
           tail == TransitionEvents(i, record, call.evidence.flags, tick)
<1>1. /\ a \in ActionIds /\ operations[a] \in OperationRows /\ i \in Identities
      /\ events \in Seq(EventRows) /\ Len(events) \in Nat
      /\ transitions[a] \in Seq(TransitionRows) /\ transitions \in [ActionIds -> Seq(TransitionRows)]
      /\ call.identity \in Identities /\ call.evidence.flags \in SUBSET Flags
      /\ call.attempt \in CallAttempts
  BY DEF TypeOK, OperationRows, Calls, Evidence
<1>2. record \in Records
  BY <1>1, LedgerRecordTyped
<1>3. IsDispatch(record) => /\ ~Prepares(record) /\ record.attempt = call.attempt
                            /\ call.attempt \in AttemptIds
  <2> SUFFICES ASSUME IsDispatch(record)
               PROVE  ~Prepares(record) /\ record.attempt = call.attempt /\ call.attempt \in AttemptIds
    OBVIOUS
  <2>1. Len(transitions[a]) + 1 \in 1..(Len(transitions[a]) + 1)
    BY <1>1
  <2>2. ReplayedState(a) \in States
    BY <1>1, <2>1, StateBeforeTyped DEF ReplayedState
  <2>3. record.attempt \in AttemptIds
    BY <2>2, DispatchIsFresh DEF RecordInLedger
  <2>4. record.attempt = call.attempt
    BY <2>3, AttemptAssumption DEF RecordInLedger, RecordOf, AttemptForRecord
  <2> QED BY <2>3, <2>4 DEF IsDispatch, Prepares
<1>4. /\ last \in EventRows /\ prepared \in EventRows
      /\ IsDispatch(record) => dispatched \in EventRows
  <2>1. facts \in Facts /\ record.attempt \in AttemptIds \cup {NoAttempt}
    BY <1>1, <1>2 DEF Facts, Records
  <2> HIDE DEF facts
  <2> QED BY <1>1, <1>3, <2>1 DEF Event, EventRows, Kinds, ManagedKinds
<1>5. events' = events \o (before \o tail)
  BY DEF PersistTransition, AppendRows
<1> DEFINE w == IF Prepares(record) \/ IsDispatch(record) THEN 2 ELSE 1
<1>6. /\ events' \in Seq(EventRows) /\ Len(events') = Len(events) + w
      /\ \A n \in 1..Len(events) : events'[n] = events[n]
      /\ events'[Len(events) + w] = last
      /\ Prepares(record) => events'[Len(events) + 1] = prepared
      /\ IsDispatch(record) => events'[Len(events) + 1] = dispatched
  <2>1. tail = (IF Prepares(record) THEN <<prepared>> ELSE <<>>) \o <<last>>
    BY DEF TransitionEvents
  <2>2. IF IsDispatch(record) THEN before = <<dispatched>> ELSE before = <<>>
    OBVIOUS
  <2> HIDE DEF tail, last, prepared, dispatched
  <2>3. CASE IsDispatch(record)
    <3>1. <<>> \o <<last>> = <<last>>
      BY <1>4, TwoRows, RowsBehind
    <3>2. PICK t : t = <<dispatched>> \o <<last>>
      OBVIOUS
    <3>3. events' = events \o t
      BY <1>3, <1>5, <2>1, <2>2, <2>3, <3>1, <3>2
    <3>4. t \in Seq(EventRows) /\ Len(t) = 2 /\ t[1] = dispatched /\ t[2] = last
      BY <1>4, <2>3, <3>2, TwoRows
    <3>5. w = 2 /\ ~Prepares(record)
      BY <1>3, <2>3
    <3> HIDE DEF w
    <3>6. /\ events' \in Seq(EventRows) /\ Len(events') = Len(events) + Len(t)
          /\ \A n \in 1..Len(events) : events'[n] = events[n]
          /\ Len(t) >= 1 => events'[Len(events) + 1] = t[1]
          /\ Len(t) = 2 => events'[Len(events) + 2] = t[2]
      <4>1. events \in Seq(EventRows)
        BY <1>1
      <4>2. t \in Seq(EventRows)
        BY <3>4
      <4>3. /\ events \o t \in Seq(EventRows) /\ Len(events \o t) = Len(events) + Len(t)
            /\ \A n \in 1..Len(events) : (events \o t)[n] = events[n]
            /\ \A n \in 1..Len(t) : (events \o t)[Len(events) + n] = t[n]
        BY ONLY <4>1, <4>2, RowsBehind
      <4>4. Len(t) \in Nat
        BY ONLY <4>2
      <4> QED BY ONLY <3>3, <4>3, <4>4
    <3> QED BY <2>3, <3>3, <3>4, <3>5, <3>6
  <2>4. CASE ~IsDispatch(record) /\ Prepares(record)
    <3>1. PICK t : t = <<prepared>> \o <<last>>
      OBVIOUS
    <3>2. t \in Seq(EventRows) /\ Len(t) = 2 /\ t[1] = prepared /\ t[2] = last
      <4>1. prepared \in EventRows /\ last \in EventRows
        BY <1>4
      <4>2. <<prepared>> \o <<last>> \in Seq(EventRows)
        BY ONLY <4>1
      <4>3. /\ Len(<<prepared>> \o <<last>>) = 2
            /\ (<<prepared>> \o <<last>>)[1] = prepared /\ (<<prepared>> \o <<last>>)[2] = last
        BY ONLY TRUE
      <4> QED BY ONLY <3>1, <4>2, <4>3
    <3>3. events' = events \o (<<>> \o t)
      BY <1>5, <2>1, <2>2, <2>4, <3>1
    <3>4. events' = events \o t
      BY <3>2, <3>3, RowsBehind
    <3>5. w = 2
      BY <2>4
    <3> HIDE DEF w
    <3>6. /\ events' \in Seq(EventRows) /\ Len(events') = Len(events) + Len(t)
          /\ \A n \in 1..Len(events) : events'[n] = events[n]
          /\ Len(t) >= 1 => events'[Len(events) + 1] = t[1]
          /\ Len(t) = 2 => events'[Len(events) + 2] = t[2]
      <4>1. events \in Seq(EventRows)
        BY <1>1
      <4>2. t \in Seq(EventRows)
        BY <3>2
      <4>3. /\ events \o t \in Seq(EventRows) /\ Len(events \o t) = Len(events) + Len(t)
            /\ \A n \in 1..Len(events) : (events \o t)[n] = events[n]
            /\ \A n \in 1..Len(t) : (events \o t)[Len(events) + n] = t[n]
        BY ONLY <4>1, <4>2, RowsBehind
      <4>4. Len(t) \in Nat
        BY ONLY <4>2
      <4> QED BY ONLY <3>4, <4>3, <4>4
    <3> QED BY <2>4, <3>2, <3>4, <3>5, <3>6
  <2>5. CASE ~IsDispatch(record) /\ ~Prepares(record)
    <3>1. PICK t : t = <<last>>
      OBVIOUS
    <3>2. t \in Seq(EventRows) /\ Len(t) = 1 /\ t[1] = last
      BY <1>4, <3>1, TwoRows
    <3>3. events' = events \o (<<>> \o (<<>> \o t))
      BY <1>5, <2>1, <2>2, <2>5, <3>1
    <3>4. events' = events \o t
      BY <3>2, <3>3, RowsBehind
    <3>5. w = 1
      BY <2>5
    <3> HIDE DEF w
    <3>6. /\ events' \in Seq(EventRows) /\ Len(events') = Len(events) + Len(t)
          /\ \A n \in 1..Len(events) : events'[n] = events[n]
          /\ Len(t) >= 1 => events'[Len(events) + 1] = t[1]
          /\ Len(t) = 2 => events'[Len(events) + 2] = t[2]
      <4>1. events \in Seq(EventRows)
        BY <1>1
      <4>2. t \in Seq(EventRows)
        BY <3>2
      <4>3. /\ events \o t \in Seq(EventRows) /\ Len(events \o t) = Len(events) + Len(t)
            /\ \A n \in 1..Len(events) : (events \o t)[n] = events[n]
            /\ \A n \in 1..Len(t) : (events \o t)[Len(events) + n] = t[n]
        BY ONLY <4>1, <4>2, RowsBehind
      <4>4. Len(t) \in Nat
        BY ONLY <4>2
      <4> QED BY ONLY <3>4, <4>3, <4>4
    <3> QED BY <2>5, <3>2, <3>4, <3>5, <3>6
  <2> QED BY <2>3, <2>4, <2>5
<1> DEFINE row == [seq |-> Len(events) + w, record |-> record,
                   candidate |-> call.identity, flags |-> call.evidence.flags]
<1>7. w \in Nat
  OBVIOUS
<1>8. /\ transitions' = [transitions EXCEPT ![a] = Append(@, row)]
      /\ operations' = [operations EXCEPT ![a].state = record.resulting,
                                          ![a].updated = Len(events) + w]
  BY <1>6 DEF PersistTransition
<1> HIDE DEF w, last, prepared, dispatched
<1>9. row \in TransitionRows
  BY <1>1, <1>2, <1>7 DEF TransitionRows
<1> HIDE DEF row
<1>10. /\ transitions'[a] = Append(transitions[a], row)
       /\ \A b \in ActionIds : b # a => transitions'[b] = transitions[b]
  BY <1>1, <1>8
<1>11. /\ DOMAIN operations' = DOMAIN operations
       /\ \A b \in DOMAIN operations : b # a => operations'[b] = operations[b]
  BY <1>8
<1>12. /\ operations'[a].identity = operations[a].identity
       /\ operations'[a].created = operations[a].created
       /\ operations'[a].state = record.resulting
       /\ operations'[a].updated = Len(events) + w
  BY <1>1, <1>8 DEF OperationRows
<1>13. w = IF Prepares(record) \/ IsDispatch(record) THEN 2 ELSE 1
  BY DEF w
<1>14. row = [seq |-> Len(events) + w, record |-> record,
              candidate |-> call.identity, flags |-> call.evidence.flags]
  BY DEF row
<1>15. /\ last = Event(tick, "STATE_TRANSITION", operations[a].identity, record.attempt,
                       [record |-> record, flags |-> call.evidence.flags])
       /\ prepared = Event(tick, "OPERATION_PREPARED", operations[a].identity,
                           NoAttempt, None)
       /\ dispatched = Event(tick, "ATTEMPT_DISPATCHED", operations[a].identity,
                             call.attempt, None)
  BY DEF last, prepared, dispatched
<1>16. Added(a, call, tick, record, row, w)
  BY ONLY <1>3, <1>6, <1>9, <1>10, <1>11, <1>12, <1>13, <1>14, <1>15 DEF Added
<1> QED BY ONLY <1>16

\* And what it adds to the attempts.
AttemptAdded(a, call, record) ==
  IF IsDispatch(record)
  THEN /\ \A r \in attempts : r.attempt # call.attempt
       /\ attempts' = attempts \cup
            {[attempt |-> call.attempt, action |-> a,
              ordinal |-> Cardinality(ReplayedAttempts(a)) + 1,
              dispatch |-> Len(events) + 1, transition |-> Len(events) + 2]}
  ELSE attempts' = attempts

\* The rows of an action that did not change replay as they did.
LEMMA ReplayStays ==
  ASSUME NEW b, Loads(b), b \in DOMAIN operations', operations'[b] = operations[b],
         transitions'[b] = transitions[b], AttemptsOf(b)' = AttemptsOf(b)
  PROVE  Loads(b)'
BY DEF Loads, Replays, RowsReplay, AttemptsAgree, ReplayedState

\* The new row replays, behind the old ones.
LEMMA RowReplays ==
  ASSUME TypeOK, NEW a \in DOMAIN operations, Loads(a), operations[a].state # "VIOLATION",
         NEW call \in Calls, call.attempt # Malformed, NEW tick, NEW record,
         record = RecordInLedger(a, call), NEW row, NEW w, Added(a, call, tick, record, row, w)
  PROVE  Replays(a)'
<1> DEFINE rows == transitions[a]
           longer == transitions'[a]
           M == Len(rows)
           i == operations[a].identity
<1>1. /\ a \in ActionIds /\ rows \in Seq(TransitionRows) /\ M \in Nat
      /\ row \in TransitionRows /\ longer = Append(rows, row)
      /\ row.record = record /\ row.candidate = call.identity /\ row.flags = call.evidence.flags
      /\ operations'[a].identity = i /\ operations'[a].state = record.resulting
      /\ a \in DOMAIN operations'
  BY DEF TypeOK, Added
<1> HIDE DEF rows, longer, M, i
<1>2. /\ Len(longer) = M + 1
      /\ DOMAIN rows = 1..M /\ DOMAIN longer = 1..(M + 1)
      /\ longer[M + 1] = row /\ \A n \in 1..M : longer[n] = rows[n]
      /\ \A n \in 1..(M + 1) : /\ StateBefore(longer, n) = StateBefore(rows, n)
                               /\ UsedBefore(longer, n) = UsedBefore(rows, n)
      /\ StateBefore(longer, Len(longer) + 1) = row.record.resulting
  <2>1. rows \in Seq(TransitionRows) /\ row \in TransitionRows /\ longer = Append(rows, row)
    BY <1>1
  <2>2. Longer(rows, row, longer)
    BY <2>1, ReplayAppended
  <2> QED BY <1>1, <2>2 DEF M, Longer
<1>3. \A n \in 1..M :
        /\ StateBefore(rows, n) # "VIOLATION"
        /\ rows[n].record = RecordOf(StateBefore(rows, n), UsedBefore(rows, n), i, CallOf(rows[n]))
  BY <1>2 DEF Loads, Replays, RowsReplay, rows, i
<1>4. StateBefore(rows, M + 1) # "VIOLATION"
  BY DEF Loads, Replays, RowsReplay, ReplayedState, rows, M
<1>5. record = RecordOf(StateBefore(rows, M + 1), UsedBefore(rows, M + 1), i, call)
  BY DEF RecordInLedger, ReplayedState, ReplayedAttempts, rows, M, i
<1>6. row.record = RecordOf(StateBefore(rows, M + 1), UsedBefore(rows, M + 1), i, CallOf(row))
  BY <1>1, <1>5, CallReplays
<1>7. ASSUME NEW n \in DOMAIN longer
      PROVE  /\ StateBefore(longer, n) # "VIOLATION"
             /\ longer[n].record =
                  RecordOf(StateBefore(longer, n), UsedBefore(longer, n), i, CallOf(longer[n]))
  <2>1. CASE n = M + 1
    BY <1>1, <1>2, <1>4, <1>6, <2>1
  <2>2. CASE n # M + 1
    <3>1. n \in 1..M /\ n \in 1..(M + 1)
      BY <1>1, <1>2, <2>2
    <3> QED BY <1>2, <1>3, <3>1
  <2> QED BY <2>1, <2>2
<1> QED BY <1>1, <1>2, <1>7 DEF Replays, RowsReplay, ReplayedState, longer, i

\* The attempts still name the dispatches in order.
LEMMA AttemptsStillAgree ==
  ASSUME TypeOK, RowsOwned, NEW a \in DOMAIN operations, AttemptsAgree(a),
         NEW call, NEW tick, NEW record, NEW row, NEW w,
         Added(a, call, tick, record, row, w), AttemptAdded(a, call, record)
  PROVE  AttemptsAgree(a)'
<1> DEFINE rows == transitions[a]
           longer == transitions'[a]
           M == Len(rows)
           D == DispatchRows(rows)
           E == DispatchRows(longer)
<1>1. /\ a \in ActionIds /\ rows \in Seq(TransitionRows) /\ M \in Nat
      /\ row \in TransitionRows /\ longer = Append(rows, row) /\ row.record = record
      /\ IsDispatch(record) => record.attempt = call.attempt
  BY DEF TypeOK, Added
<1> HIDE DEF rows, longer, M
<1>2. /\ DOMAIN rows = 1..M /\ longer[M + 1] = row /\ \A n \in 1..M : longer[n] = rows[n]
      /\ E = D \cup (IF IsDispatch(record) THEN {M + 1} ELSE {})
  <2>1. rows \in Seq(TransitionRows) /\ row \in TransitionRows /\ longer = Append(rows, row)
    BY <1>1
  <2>2. Longer(rows, row, longer)
    BY <2>1, ReplayAppended
  <2> QED BY <1>1, <2>2 DEF M, Longer
<1>3. /\ IsFiniteSet(D) /\ D \subseteq 1..M /\ M + 1 \notin D
      /\ Cardinality(D) = Cardinality(ReplayedAttempts(a)) /\ Cardinality(D) \in Nat
  <2>1. IsFiniteSet(D) /\ Cardinality(D) = Cardinality(ReplayedAttempts(a))
    BY <1>1 DEF RowsOwned, rows
  <2>2. D \subseteq 1..M
    BY <1>2 DEF DispatchRows
  <2>3. Cardinality(D) \in Nat
    BY <2>1, FS_CardinalityType
  <2> HIDE DEF D
  <2> QED BY <1>1, <2>1, <2>2, <2>3
<1>4. IsFiniteSet(AttemptsOf(a)) /\ Cardinality(AttemptsOf(a)) \in Nat
  <2>1. AttemptsOf(a) \subseteq attempts
    BY DEF AttemptsOf
  <2> QED BY <2>1, FS_Subset, FS_CardinalityType DEF RowsOwned
<1>5. /\ Cardinality(AttemptsOf(a)) = Cardinality(D)
      /\ \A n \in D : \E r \in AttemptsOf(a) :
           /\ r.attempt = rows[n].record.attempt
           /\ r.ordinal = Cardinality({m \in D : m <= n})
  BY DEF AttemptsAgree, rows
<1> HIDE DEF D, E
<1>6. \A n \in D : {m \in E : m <= n} = {m \in D : m <= n}
  BY <1>1, <1>2, <1>3
<1>7. /\ Cardinality(AttemptsOf(a)') = Cardinality(E)
      /\ \A n \in E : \E r \in AttemptsOf(a)' :
           /\ r.attempt = longer[n].record.attempt
           /\ r.ordinal = Cardinality({m \in E : m <= n})
  <2>1. CASE ~IsDispatch(record)
    <3>1. AttemptsOf(a)' = AttemptsOf(a) /\ E = D
      BY <1>2, <2>1 DEF AttemptAdded, AttemptsOf
    <3> QED BY <1>2, <1>3, <1>5, <3>1
  <2>2. CASE IsDispatch(record)
    <3>1. PICK p :
            /\ p.attempt = call.attempt /\ p.action = a
            /\ p.ordinal = Cardinality(ReplayedAttempts(a)) + 1
            /\ \A r \in attempts : r.attempt # call.attempt
            /\ attempts' = attempts \cup {p}
      BY <2>2 DEF AttemptAdded
    <3>2. AttemptsOf(a)' = AttemptsOf(a) \cup {p} /\ p \notin AttemptsOf(a)
      BY <3>1 DEF AttemptsOf
    <3>3. E = D \cup {M + 1}
      BY <1>2, <2>2
    <3>4. /\ Cardinality(AttemptsOf(a)') = Cardinality(AttemptsOf(a)) + 1
          /\ Cardinality(E) = Cardinality(D) + 1
      BY <1>3, <1>4, <3>2, <3>3, FS_AddElement
    <3>5. ASSUME NEW n \in E
          PROVE  \E r \in AttemptsOf(a)' :
                   /\ r.attempt = longer[n].record.attempt
                   /\ r.ordinal = Cardinality({m \in E : m <= n})
      <4>1. CASE n \in D
        BY <1>2, <1>3, <1>5, <1>6, <3>2, <4>1
      <4>2. CASE n = M + 1
        <5>1. {m \in E : m <= n} = E
          <6>1. \A m \in E : m <= n
            BY <1>1, <1>3, <3>3, <4>2
          <6> QED BY <6>1
        <5>2. p.ordinal = Cardinality(E) /\ p.attempt = longer[n].record.attempt
          BY <1>1, <1>2, <1>3, <2>2, <3>1, <3>4, <4>2
        <5> QED BY <3>2, <5>1, <5>2
      <4> QED BY <3>3, <4>1, <4>2
    <3> QED BY <1>5, <3>4, <3>5
  <2> QED BY <2>1, <2>2
<1> QED BY <1>7 DEF AttemptsAgree, E, longer

\* A table of events that goes on where it ended.
Extended ==
  /\ events \in Seq(EventRows) /\ events' \in Seq(EventRows)
  /\ Len(events) <= Len(events')
  /\ \A n \in 1..Len(events) : events'[n] = events[n]

\* Event n of a table; the row of a transition and of an attempt, with their events.
Stands(table, n, kind, i, t, facts) ==
  /\ n \in DOMAIN table
  /\ [table[n] EXCEPT !.tick = 0] =
       [tick |-> 0, kind |-> kind, identity |-> i, attempt |-> t, facts |-> facts]
RowStands(table, i, row) ==
  /\ Stands(table, row.seq, "STATE_TRANSITION", i, row.record.attempt,
            [record |-> row.record, flags |-> row.flags])
  /\ Prepares(row.record) =>
       /\ Stands(table, row.seq - 1, "OPERATION_PREPARED", i, NoAttempt, None)
       /\ table[row.seq - 1].tick = table[row.seq].tick
AttemptStands(table, i, r) ==
  /\ Stands(table, r.dispatch, "ATTEMPT_DISPATCHED", i, r.attempt, None)
  /\ r.transition = r.dispatch + 1
  /\ r.transition \in DOMAIN table
  /\ table[r.transition].tick = table[r.dispatch].tick

\* An event but for its tick.
LEMMA EventStands ==
  ASSUME NEW tick, NEW kind, NEW i, NEW t, NEW facts
  PROVE  /\ Event(tick, kind, i, t, facts).tick = tick
         /\ \A table : \A n \in DOMAIN table :
              table[n] = Event(tick, kind, i, t, facts) => Stands(table, n, kind, i, t, facts)
<1>1. [Event(tick, kind, i, t, facts) EXCEPT !.tick = 0] =
        [tick |-> 0, kind |-> kind, identity |-> i, attempt |-> t, facts |-> facts]
  BY DEF Event
<1> QED BY <1>1 DEF Stands, Event

\* What stands in a table stands in its extension.
LEMMA StandsStill ==
  ASSUME Extended
  PROVE  /\ DOMAIN events = 1..Len(events) /\ DOMAIN events' = 1..Len(events')
         /\ DOMAIN events \subseteq DOMAIN events'
         /\ \A n, kind, i, t, facts :
              Stands(events, n, kind, i, t, facts) => Stands(events', n, kind, i, t, facts)
         /\ \A i, row : RowStands(events, i, row) => RowStands(events', i, row)
         /\ \A i, r : AttemptStands(events, i, r) => AttemptStands(events', i, r)
<1>1. /\ DOMAIN events = 1..Len(events) /\ DOMAIN events' = 1..Len(events')
      /\ DOMAIN events \subseteq DOMAIN events'
      /\ \A n \in DOMAIN events : events'[n] = events[n]
  BY DEF Extended
<1>2. \A n, kind, i, t, facts :
        Stands(events, n, kind, i, t, facts) =>
          Stands(events', n, kind, i, t, facts) /\ n \in DOMAIN events
  BY <1>1 DEF Stands
<1>3. ASSUME NEW i, NEW row, RowStands(events, i, row) PROVE RowStands(events', i, row)
  BY <1>1, <1>2, <1>3 DEF RowStands
<1>4. ASSUME NEW i, NEW r, AttemptStands(events, i, r) PROVE AttemptStands(events', i, r)
  BY <1>1, <1>2, <1>4 DEF AttemptStands
<1> QED BY <1>1, <1>2, <1>3, <1>4

\* The events of an action that did not change agree with it as they did.
LEMMA EventsStillAgree ==
  ASSUME Extended, NEW b, OperationEventsAgree(b), operations'[b] = operations[b],
         transitions'[b] = transitions[b], AttemptsOf(b)' = AttemptsOf(b)
  PROVE  OperationEventsAgree(b)' /\ ReferencedEvents(b)' = ReferencedEvents(b)
<1> DEFINE i == operations[b].identity
<1>1. /\ Stands(events, operations[b].created, "ACTION_PROPOSED", i, NoAttempt, None)
      /\ \A n \in DOMAIN transitions[b] : RowStands(events, i, transitions[b][n])
      /\ \A r \in AttemptsOf(b) : AttemptStands(events, i, r)
  BY DEF OperationEventsAgree, TransitionEventsAgree, AttemptEventsAgree, HasEvent, Stands,
         RowStands, AttemptStands
<1>2. /\ Stands(events', operations[b].created, "ACTION_PROPOSED", i, NoAttempt, None)
      /\ \A n \in DOMAIN transitions[b] : RowStands(events', i, transitions[b][n])
      /\ \A r \in AttemptsOf(b) : AttemptStands(events', i, r)
  BY <1>1, StandsStill
<1>3. /\ \A r \in AttemptsOf(b) : \E n \in DispatchRows(transitions[b]) :
           /\ transitions[b][n].seq = r.transition
           /\ transitions[b][n].record.attempt = r.attempt
      /\ operations[b].updated =
           IF transitions[b] = <<>> THEN operations[b].created
           ELSE transitions[b][Len(transitions[b])].seq
  BY DEF OperationEventsAgree, AttemptEventsAgree
<1>4. AttemptEventsAgree(b)'
  <2>1. AttemptsOf(b)' = AttemptsOf(b) /\ operations'[b].identity = i
    OBVIOUS
  <2>2. ASSUME NEW r \in AttemptsOf(b)
        PROVE  /\ HasEvent(r.dispatch, "ATTEMPT_DISPATCHED", operations[b].identity,
                           r.attempt, None)'
               /\ r.transition = r.dispatch + 1
               /\ r.transition \in DOMAIN events'
               /\ events'[r.transition].tick = events'[r.dispatch].tick
    BY <1>2 DEF AttemptStands, Stands, HasEvent
  <2>3. \A r \in AttemptsOf(b) : \E n \in DispatchRows(transitions'[b]) :
           /\ transitions'[b][n].seq = r.transition
           /\ transitions'[b][n].record.attempt = r.attempt
    BY <1>3
  <2> HIDE DEF i
  <2> QED BY <2>1, <2>2, <2>3 DEF AttemptEventsAgree, HasEvent
<1>5. TransitionEventsAgree(b)'
  BY <1>2 DEF TransitionEventsAgree, RowStands, Stands, HasEvent
<1>6. HasEvent(operations[b].created, "ACTION_PROPOSED", operations[b].identity, NoAttempt, None)'
  BY <1>2 DEF Stands, HasEvent
<1>7. OperationEventsAgree(b)'
  BY <1>3, <1>4, <1>5, <1>6 DEF OperationEventsAgree
<1>8. ReferencedEvents(b)' = ReferencedEvents(b)
  BY DEF ReferencedEvents
<1> QED BY <1>7, <1>8

\* What was added stands in the longer table.
LEMMA AddedStands ==
  ASSUME TypeOK, NEW a \in DOMAIN operations, NEW call, NEW tick, NEW record, NEW row, NEW w,
         Added(a, call, tick, record, row, w)
  PROVE  /\ Extended /\ w \in {1, 2} /\ Len(events) \in Nat
         /\ row.seq = Len(events) + w /\ row.record = record
         /\ RowStands(events', operations[a].identity, row)
         /\ IsDispatch(record) =>
              \A r : /\ r.attempt = call.attempt
                     /\ r.dispatch = Len(events) + 1 /\ r.transition = Len(events) + 2
                     => AttemptStands(events', operations[a].identity, r)
<1>1. Extended /\ w \in {1, 2} /\ Len(events) \in Nat
  BY DEF Added, Extended, TypeOK
<1>2. DOMAIN events' = 1..(Len(events) + w)
  BY <1>1, StandsStill DEF Added
<1>3. row.seq = Len(events) + w /\ row.record = record /\ row.flags = call.evidence.flags
  BY DEF Added
<1>4. Stands(events', Len(events) + w, "STATE_TRANSITION", operations[a].identity,
             record.attempt, [record |-> record, flags |-> call.evidence.flags])
  <2>1. Len(events) + w \in DOMAIN events'
    BY <1>1, <1>2
  <2> QED BY <2>1, EventStands DEF Added
<1>5. events'[Len(events) + w].tick = tick
  BY EventStands DEF Added
<1>6. Prepares(record) =>
        /\ w = 2 /\ events'[Len(events) + 1].tick = tick
        /\ Stands(events', Len(events) + 1, "OPERATION_PREPARED", operations[a].identity,
                  NoAttempt, None)
  <2>1. Len(events) + 1 \in DOMAIN events'
    BY <1>1, <1>2
  <2> QED BY <2>1, EventStands DEF Added
<1>7. IsDispatch(record) =>
        /\ w = 2 /\ events'[Len(events) + 1].tick = tick
        /\ Stands(events', Len(events) + 1, "ATTEMPT_DISPATCHED", operations[a].identity,
                  call.attempt, None)
  <2>1. Len(events) + 1 \in DOMAIN events'
    BY <1>1, <1>2
  <2> QED BY <2>1, EventStands DEF Added
<1>8. RowStands(events', operations[a].identity, row)
  BY <1>1, <1>3, <1>4, <1>5, <1>6 DEF RowStands
<1>9. ASSUME IsDispatch(record), NEW r, r.attempt = call.attempt,
             r.dispatch = Len(events) + 1, r.transition = Len(events) + 2
      PROVE  AttemptStands(events', operations[a].identity, r)
  <2>1. r.transition \in DOMAIN events' /\ r.transition = r.dispatch + 1
    BY <1>1, <1>2, <1>7, <1>9
  <2> QED BY <1>5, <1>7, <1>9, <2>1 DEF AttemptStands
<1> QED BY <1>1, <1>3, <1>8, <1>9

\* The events of the action that was called agree with its rows, old and new.
LEMMA AddedEventsAgree ==
  ASSUME TypeOK, NEW a \in DOMAIN operations, OperationEventsAgree(a),
         NEW call, NEW tick, NEW record, NEW row, NEW w,
         Added(a, call, tick, record, row, w), AttemptAdded(a, call, record)
  PROVE  OperationEventsAgree(a)'
<1> DEFINE i == operations[a].identity
           rows == transitions[a]
           longer == transitions'[a]
           M == Len(rows)
           L == Len(events)
<1>1. /\ a \in ActionIds /\ rows \in Seq(TransitionRows) /\ M \in Nat /\ row \in TransitionRows
      /\ longer = Append(rows, row) /\ row.record = record /\ row.seq = L + w
      /\ operations'[a].identity = i /\ operations'[a].created = operations[a].created
      /\ operations'[a].updated = L + w
      /\ IsDispatch(record) => w = 2
      /\ IsDispatch(record) => record.attempt = call.attempt
  BY DEF TypeOK, Added
<1>2. /\ Extended /\ RowStands(events', i, row)
      /\ IsDispatch(record) =>
           \A r : r.attempt = call.attempt /\ r.dispatch = L + 1 /\ r.transition = L + 2
                    => AttemptStands(events', i, r)
  BY AddedStands
<1>3. /\ Stands(events, operations[a].created, "ACTION_PROPOSED", i, NoAttempt, None)
      /\ \A n \in DOMAIN rows : RowStands(events, i, rows[n])
      /\ \A r \in AttemptsOf(a) :
           /\ AttemptStands(events, i, r)
           /\ \E n \in DispatchRows(rows) :
                rows[n].seq = r.transition /\ rows[n].record.attempt = r.attempt
  BY DEF OperationEventsAgree, TransitionEventsAgree, AttemptEventsAgree, HasEvent, Stands,
         RowStands, AttemptStands
<1>4. /\ Stands(events', operations[a].created, "ACTION_PROPOSED", i, NoAttempt, None)
      /\ \A n \in DOMAIN rows : RowStands(events', i, rows[n])
      /\ \A r \in AttemptsOf(a) : AttemptStands(events', i, r)
  BY <1>2, <1>3, StandsStill
<1> HIDE DEF rows, longer, M, L, i
<1>5. Longer(rows, row, longer)
  BY <1>1, ReplayAppended
<1>6. TransitionEventsAgree(a)'
  <2>1. ASSUME NEW n \in DOMAIN longer PROVE RowStands(events', i, longer[n])
    BY <1>1, <1>2, <1>4, <1>5, <2>1 DEF Longer, M
  <2> QED BY <1>1, <2>1 DEF TransitionEventsAgree, RowStands, Stands, HasEvent, longer
<1>7. ASSUME NEW r \in AttemptsOf(a)'
      PROVE  /\ AttemptStands(events', i, r)
             /\ \E n \in DispatchRows(longer) :
                  longer[n].seq = r.transition /\ longer[n].record.attempt = r.attempt
  <2>1. CASE r \in AttemptsOf(a)
    <3>1. PICK n \in DispatchRows(rows) :
            rows[n].seq = r.transition /\ rows[n].record.attempt = r.attempt
      BY <1>3, <2>1
    <3>2. n \in DispatchRows(longer) /\ longer[n] = rows[n]
      BY <1>5 DEF Longer, DispatchRows
    <3> QED BY <1>4, <2>1, <3>1, <3>2
  <2>2. CASE r \notin AttemptsOf(a)
    <3>1. /\ IsDispatch(record) /\ r.attempt = call.attempt
          /\ r.dispatch = L + 1 /\ r.transition = L + 2
      BY <1>7, <2>2 DEF AttemptAdded, AttemptsOf, L
    <3>2. M + 1 \in DispatchRows(longer) /\ longer[M + 1] = row
      BY <1>1, <1>5, <3>1 DEF Longer, M
    <3> QED BY <1>1, <1>2, <3>1, <3>2
  <2> QED BY <2>1, <2>2
<1>8. AttemptEventsAgree(a)'
  <2>1. ASSUME NEW r \in AttemptsOf(a)'
        PROVE  /\ HasEvent(r.dispatch, "ATTEMPT_DISPATCHED", operations[a].identity,
                           r.attempt, None)'
               /\ r.transition = r.dispatch + 1
               /\ r.transition \in DOMAIN events'
               /\ events'[r.transition].tick = events'[r.dispatch].tick
    BY <1>1, <1>7, <2>1 DEF AttemptStands, Stands, HasEvent
  <2>2. \A r \in AttemptsOf(a)' : \E n \in DispatchRows(transitions'[a]) :
           /\ transitions'[a][n].seq = r.transition
           /\ transitions'[a][n].record.attempt = r.attempt
    BY <1>7 DEF longer
  <2> QED BY <2>1, <2>2 DEF AttemptEventsAgree, HasEvent
<1>9. HasEvent(operations[a].created, "ACTION_PROPOSED", operations[a].identity, NoAttempt, None)'
  BY <1>1, <1>4 DEF Stands, HasEvent
<1>10. longer # <<>> /\ longer[Len(longer)].seq = L + w
  BY <1>1, <1>5 DEF Longer, M
<1> QED BY <1>1, <1>6, <1>8, <1>9, <1>10 DEF OperationEventsAgree, longer

\* Which events the rows of an action account for, one by one.
Accounted(a, x) ==
  \/ x = operations[a].created
  \/ \E r \in AttemptsOf(a) : x = r.dispatch \/ x = r.transition
  \/ \E n \in DOMAIN transitions[a] : x = transitions[a][n].seq
  \/ \E n \in DOMAIN transitions[a] :
       Prepares(transitions[a][n].record) /\ x = transitions[a][n].seq - 1

\* ReferencedEvents, taken one event at a time.
LEMMA AccountedEvents ==
  \A a, x : /\ x \in ReferencedEvents(a) <=> Accounted(a, x)
            /\ x \in ReferencedEvents(a)' <=> Accounted(a, x)'
BY DEF Accounted, ReferencedEvents

\* The called action accounts for the events added, and for no other new ones.
LEMMA AddedAccounted ==
  ASSUME TypeOK, NEW a \in DOMAIN operations, NEW call, NEW tick, NEW record, NEW row, NEW w,
         Added(a, call, tick, record, row, w), AttemptAdded(a, call, record), NEW x
  PROVE  Accounted(a, x)' <=>
           Accounted(a, x) \/ x = Len(events) + 1 \/ x = Len(events) + w
<1> DEFINE rows == transitions[a]
           longer == transitions'[a]
           M == Len(rows)
           L == Len(events)
<1>1. /\ a \in ActionIds /\ rows \in Seq(TransitionRows) /\ M \in Nat /\ row \in TransitionRows
      /\ longer = Append(rows, row) /\ row.record = record /\ row.seq = L + w
      /\ operations'[a].created = operations[a].created /\ L \in Nat
      /\ w = IF Prepares(record) \/ IsDispatch(record) THEN 2 ELSE 1
      /\ IsDispatch(record) => ~Prepares(record)
  BY DEF TypeOK, Added
<1> HIDE DEF rows, longer, M, L
<1>2. Longer(rows, row, longer)
  BY <1>1, ReplayAppended
<1>3. /\ DOMAIN rows = 1..M /\ DOMAIN longer = 1..(M + 1)
      /\ longer[M + 1] = row /\ \A n \in 1..M : longer[n] = rows[n]
  BY <1>2 DEF Longer, M
<1>4. (\E n \in DOMAIN longer : x = longer[n].seq)
        <=> (\E n \in DOMAIN rows : x = rows[n].seq) \/ x = L + w
  <2>1. \A n \in 1..(M + 1) : n \in 1..M \/ n = M + 1
    BY <1>1
  <2>2. M + 1 \in 1..(M + 1) /\ 1..M \subseteq 1..(M + 1)
    BY <1>1
  <2> QED BY <1>1, <1>3, <2>1, <2>2
<1>5. (\E n \in DOMAIN longer : Prepares(longer[n].record) /\ x = longer[n].seq - 1)
        <=> \/ \E n \in DOMAIN rows : Prepares(rows[n].record) /\ x = rows[n].seq - 1
            \/ Prepares(record) /\ x = L + 1
  <2>1. \A n \in 1..(M + 1) : n \in 1..M \/ n = M + 1
    BY <1>1
  <2>2. M + 1 \in 1..(M + 1) /\ 1..M \subseteq 1..(M + 1)
    BY <1>1
  <2>3. Prepares(record) => row.seq - 1 = L + 1
    BY <1>1
  <2> QED BY <1>1, <1>3, <2>1, <2>2, <2>3
<1>6. (\E r \in AttemptsOf(a)' : x = r.dispatch \/ x = r.transition)
        <=> \/ \E r \in AttemptsOf(a) : x = r.dispatch \/ x = r.transition
            \/ IsDispatch(record) /\ (x = L + 1 \/ x = L + 2)
  <2>1. CASE IsDispatch(record)
    <3>1. PICK p : /\ p.action = a /\ p.dispatch = L + 1 /\ p.transition = L + 2
                   /\ attempts' = attempts \cup {p}
      BY <2>1 DEF AttemptAdded, L
    <3>2. AttemptsOf(a)' = AttemptsOf(a) \cup {p}
      BY <3>1 DEF AttemptsOf
    <3> QED BY <2>1, <3>1, <3>2
  <2>2. CASE ~IsDispatch(record)
    BY <2>2 DEF AttemptAdded, AttemptsOf
  <2> QED BY <2>1, <2>2
<1>7. Accounted(a, x)' <=>
        \/ x = operations[a].created
        \/ \E r \in AttemptsOf(a)' : x = r.dispatch \/ x = r.transition
        \/ \E n \in DOMAIN longer : x = longer[n].seq
        \/ \E n \in DOMAIN longer : Prepares(longer[n].record) /\ x = longer[n].seq - 1
  BY <1>1 DEF Accounted, longer
<1>8. Accounted(a, x) <=>
        \/ x = operations[a].created
        \/ \E r \in AttemptsOf(a) : x = r.dispatch \/ x = r.transition
        \/ \E n \in DOMAIN rows : x = rows[n].seq
        \/ \E n \in DOMAIN rows : Prepares(rows[n].record) /\ x = rows[n].seq - 1
  BY DEF Accounted, rows
<1>9. /\ (Prepares(record) \/ IsDispatch(record)) => w = 2
      /\ ~(Prepares(record) \/ IsDispatch(record)) => w = 1
  BY <1>1
<1> QED BY <1>4, <1>5, <1>6, <1>7, <1>8, <1>9 DEF L

\* Events of one tick appended in order leave the ticks in order.
LEMMA TicksStayInOrder ==
  ASSUME Extended, TicksNondecreasing, NEW tick \in Ticks, InOrder(tick),
         \A n \in DOMAIN events' : n > Len(events) => events'[n].tick = tick
  PROVE  TicksNondecreasing'
<1>1. /\ DOMAIN events = 1..Len(events) /\ DOMAIN events' = 1..Len(events')
      /\ \A n \in 1..Len(events) : events'[n] = events[n]
      /\ Len(events) \in Nat /\ Len(events') \in Nat
      /\ \A n \in DOMAIN events : events[n].tick \in Nat
      /\ tick \in Nat
      /\ events = <<>> <=> Len(events) = 0
  <2>1. \A n \in DOMAIN events : events[n] \in EventRows
    BY DEF Extended
  <2>2. Ticks \subseteq Nat
    BY BoundsAssumption DEF Ticks
  <2>3. \A n \in DOMAIN events : events[n].tick \in Nat
    BY <2>1, <2>2 DEF EventRows
  <2> QED BY <2>2, <2>3, StandsStill DEF Extended
<1>2. \A n \in DOMAIN events : events[n].tick <= tick
  <2> SUFFICES ASSUME NEW n \in DOMAIN events PROVE events[n].tick <= tick
    OBVIOUS
  <2>1. Len(events) \in DOMAIN events /\ n <= Len(events) /\ events # <<>>
    BY <1>1
  <2>2. events[n].tick <= events[Len(events)].tick
    BY <2>1 DEF TicksNondecreasing
  <2>3. events[Len(events)].tick <= tick
    BY <2>1 DEF InOrder
  <2> QED BY <1>1, <2>1, <2>2, <2>3
<1>3. ASSUME NEW m \in DOMAIN events', NEW n \in DOMAIN events', m <= n
      PROVE  events'[m].tick <= events'[n].tick
  <2>1. CASE n \in DOMAIN events
    <3>1. m \in DOMAIN events
      BY <1>1, <1>3, <2>1
    <3> QED BY <1>1, <1>3, <2>1, <3>1 DEF TicksNondecreasing
  <2>2. CASE n \notin DOMAIN events
    <3>1. events'[n].tick = tick
      BY <1>1, <2>2
    <3>2. CASE m \in DOMAIN events
      BY <1>1, <1>2, <3>1, <3>2
    <3>3. CASE m \notin DOMAIN events
      BY <1>1, <3>1, <3>3
    <3> QED BY <3>2, <3>3
  <2> QED BY <2>1, <2>2
<1> QED BY <1>3 DEF TicksNondecreasing

\* A call that is not raised away keeps the file valid.
LEMMA CallKeepsValid ==
  ASSUME TypeOK, TypeOK', ReopenInv, NEW a \in DOMAIN operations, operations[a].state # "VIOLATION",
         NEW call \in Calls, call.attempt # Malformed, NEW tick \in Ticks, InOrder(tick),
         NEW record, record = RecordInLedger(a, call), NEW row, NEW w,
         Added(a, call, tick, record, row, w), AttemptAdded(a, call, record)
  PROVE  ReopenInv'
<1> DEFINE L == Len(events)
<1>1. /\ Extended /\ w \in {1, 2} /\ L \in Nat
      /\ DOMAIN events = 1..L /\ DOMAIN events' = 1..(L + w)
      /\ \A n \in 1..L : events'[n] = events[n]
  <2>1. Extended /\ w \in {1, 2} /\ L \in Nat
    BY AddedStands
  <2>2. Len(events') = L + w /\ \A n \in 1..L : events'[n] = events[n]
    BY DEF Added
  <2> QED BY <2>1, <2>2, StandsStill
<1>2. /\ DOMAIN operations' = DOMAIN operations /\ a \in ActionIds
      /\ DOMAIN operations \subseteq ActionIds
  BY DEF Added, TypeOK
<1>3. ASSUME NEW b \in DOMAIN operations, b # a
      PROVE  /\ operations'[b] = operations[b] /\ transitions'[b] = transitions[b]
             /\ AttemptsOf(b)' = AttemptsOf(b)
  BY <1>2, <1>3 DEF Added, AttemptAdded, AttemptsOf
<1>4. \A b \in DOMAIN operations' : OperationValid(b)'
  <2>1. OperationValid(a)'
    <3>1. Loads(a) /\ OperationEventsAgree(a)
      BY DEF ReopenInv, ContentsValid, OperationValid
    <3>2. RowsOwned
      BY DEF ReopenInv
    <3>3. Replays(a)'
      BY <3>1, RowReplays
    <3>4. AttemptsAgree(a)'
      BY <3>1, <3>2, AttemptsStillAgree DEF Loads
    <3>5. OperationEventsAgree(a)'
      BY <3>1, AddedEventsAgree
    <3> QED BY <1>2, <3>3, <3>4, <3>5 DEF OperationValid, Loads
  <2>2. ASSUME NEW b \in DOMAIN operations, b # a PROVE OperationValid(b)'
    <3>1. Loads(b) /\ OperationEventsAgree(b)
      BY DEF ReopenInv, ContentsValid, OperationValid
    <3>2. b \in DOMAIN operations'
      BY <1>2
    <3>3. Loads(b)'
      BY <1>3, <2>2, <3>1, <3>2, ReplayStays
    <3>4. OperationEventsAgree(b)'
      BY <1>1, <1>3, <2>2, <3>1, EventsStillAgree
    <3> QED BY <3>3, <3>4 DEF OperationValid
  <2> QED BY <1>2, <2>1, <2>2
<1>5. /\ events'[L + w].kind = "STATE_TRANSITION" /\ events'[L + w].tick = tick
      /\ w = 2 => events'[L + 1].kind \in ManagedKinds /\ events'[L + 1].tick = tick
  BY DEF Added, Event, ManagedKinds
<1>6. TicksNondecreasing'
  <2>1. \A n \in DOMAIN events' : n > L => events'[n].tick = tick
    BY <1>1, <1>5
  <2>2. TicksNondecreasing
    BY DEF ReopenInv, ContentsValid
  <2> QED BY <1>1, <2>1, <2>2, TicksStayInOrder
<1>7. {n \in DOMAIN events' : events'[n].kind \in ManagedKinds} =
        UNION {ReferencedEvents(b)' : b \in DOMAIN operations'}
  <2>1. {n \in DOMAIN events : events[n].kind \in ManagedKinds} =
          UNION {ReferencedEvents(b) : b \in DOMAIN operations}
    BY DEF ReopenInv, ContentsValid
  <2>2. ASSUME NEW x
        PROVE  x \in UNION {ReferencedEvents(b)' : b \in DOMAIN operations'}
                 <=> \/ x \in UNION {ReferencedEvents(b) : b \in DOMAIN operations}
                     \/ x = L + 1 \/ x = L + w
    <3>1. x \in ReferencedEvents(a)' <=> x \in ReferencedEvents(a) \/ x = L + 1 \/ x = L + w
      BY AddedAccounted, AccountedEvents
    <3>2. \A b \in DOMAIN operations : b # a => ReferencedEvents(b)' = ReferencedEvents(b)
      <4> SUFFICES ASSUME NEW b \in DOMAIN operations, b # a
                   PROVE  ReferencedEvents(b)' = ReferencedEvents(b)
        OBVIOUS
      <4>1. OperationEventsAgree(b)
        BY DEF ReopenInv, ContentsValid, OperationValid
      <4> QED BY <1>1, <1>3, <4>1, EventsStillAgree
    <3> QED BY <1>2, <3>1, <3>2
  <2>3. ASSUME NEW x
        PROVE  x \in {n \in DOMAIN events' : events'[n].kind \in ManagedKinds}
                 <=> \/ x \in {n \in DOMAIN events : events[n].kind \in ManagedKinds}
                     \/ x = L + 1 \/ x = L + w
    <3>1. "STATE_TRANSITION" \in ManagedKinds
      BY DEF ManagedKinds
    <3> QED BY <1>1, <1>5, <3>1
  <2> QED BY <2>1, <2>2, <2>3
<1>8. ContentsValid'
  BY <1>4, <1>6, <1>7 DEF ContentsValid
<1>9. RowsOwned'
  <2>1. IsFiniteSet(attempts')
    <3>1. IsFiniteSet(attempts)
      BY DEF ReopenInv, RowsOwned
    <3>2. \A x : IsFiniteSet(attempts \cup {x})
      BY <3>1, FS_AddElement
    <3> QED BY <3>1, <3>2 DEF AttemptAdded
  <2>2. \A r \in attempts' : r.action \in DOMAIN operations'
    BY <1>2 DEF ReopenInv, RowsOwned, AttemptAdded
  <2>3. \A b \in ActionIds : b \notin DOMAIN operations' => transitions'[b] = <<>>
    BY <1>2 DEF ReopenInv, RowsOwned, Added
  <2>4. ASSUME NEW b \in ActionIds
        PROVE  /\ IsFiniteSet(ReplayedAttempts(b)') /\ IsFiniteSet(DispatchRows(transitions'[b]))
               /\ Cardinality(ReplayedAttempts(b)') = Cardinality(DispatchRows(transitions'[b]))
    <3>1. /\ IsFiniteSet(ReplayedAttempts(b)) /\ IsFiniteSet(DispatchRows(transitions[b]))
          /\ Cardinality(ReplayedAttempts(b)) = Cardinality(DispatchRows(transitions[b]))
      BY DEF ReopenInv, RowsOwned
    <3>2. CASE b # a
      <4>1. transitions'[b] = transitions[b]
        BY <3>2 DEF Added
      <4> QED BY <3>1, <4>1 DEF ReplayedAttempts
    <3>3. CASE b = a
      <4> DEFINE rows == transitions[a]
                 longer == transitions'[a]
      <4>1. /\ rows \in Seq(TransitionRows) /\ row \in TransitionRows
            /\ longer = Append(rows, row) /\ row.record = record
        BY <1>2 DEF TypeOK, Added
      <4>2. Longer(rows, row, longer)
        <5> HIDE DEF rows, longer
        <5> QED BY <4>1, ReplayAppended
      <4>3. ReplayedAttempts(a)' = UsedBefore(longer, Len(longer) + 1)
            /\ ReplayedAttempts(a) = UsedBefore(rows, Len(rows) + 1)
        BY DEF ReplayedAttempts
      <4> HIDE DEF rows, longer
      <4>4. CASE ~IsDispatch(record)
        BY <3>1, <3>3, <4>1, <4>2, <4>3, <4>4 DEF Longer, rows, longer
      <4>5. CASE IsDispatch(record)
        <5>1. record.attempt \notin ReplayedAttempts(a)
          <6>1. Len(rows) + 1 \in 1..(Len(rows) + 1)
            BY <4>1
          <6>2. ReplayedState(a) \in States
            BY <4>1, <6>1, StateBeforeTyped DEF ReplayedState, rows
          <6> QED BY <4>5, <6>2, DispatchIsFresh DEF RecordInLedger
        <5>2. PICK m : m = Len(rows) + 1 /\ m \notin DispatchRows(rows)
          BY <4>1 DEF DispatchRows
        <5>3. /\ ReplayedAttempts(a)' = ReplayedAttempts(a) \cup {record.attempt}
              /\ DispatchRows(longer) = DispatchRows(rows) \cup {m}
          BY <4>1, <4>2, <4>3, <4>5, <5>2 DEF Longer
        <5>4. /\ IsFiniteSet(ReplayedAttempts(a)) /\ IsFiniteSet(DispatchRows(rows))
              /\ Cardinality(ReplayedAttempts(a)) = Cardinality(DispatchRows(rows))
          BY <3>1, <3>3 DEF rows
        <5>5. /\ IsFiniteSet(ReplayedAttempts(a)')
              /\ Cardinality(ReplayedAttempts(a)') = Cardinality(ReplayedAttempts(a)) + 1
          <6>1. /\ IsFiniteSet(ReplayedAttempts(a) \cup {record.attempt})
                /\ Cardinality(ReplayedAttempts(a) \cup {record.attempt}) =
                     Cardinality(ReplayedAttempts(a)) + 1
            BY <5>1, <5>4, FS_AddElement
          <6> QED BY <5>3, <6>1
        <5>6. /\ IsFiniteSet(DispatchRows(longer))
              /\ Cardinality(DispatchRows(longer)) = Cardinality(DispatchRows(rows)) + 1
          <6>1. /\ IsFiniteSet(DispatchRows(rows) \cup {m})
                /\ Cardinality(DispatchRows(rows) \cup {m}) = Cardinality(DispatchRows(rows)) + 1
            BY <5>2, <5>4, FS_AddElement
          <6> QED BY <5>3, <6>1
        <5> QED BY <3>3, <5>4, <5>5, <5>6 DEF longer
      <4> QED BY <4>4, <4>5
    <3> QED BY <3>2, <3>3
  <2> QED BY <2>1, <2>2, <2>3, <2>4 DEF RowsOwned
<1> QED BY <1>8, <1>9 DEF ReopenInv

\* One event of another call, and the tables extended by it.
LEMMA OneEvent ==
  ASSUME TypeOK, NEW e \in EventRows, events' = events \o <<e>>
  PROVE  /\ Extended /\ Len(events) \in Nat
         /\ DOMAIN events = 1..Len(events) /\ DOMAIN events' = 1..(Len(events) + 1)
         /\ events'[Len(events) + 1] = e
         /\ \A n \in 1..Len(events) : events'[n] = events[n]
<1>1. events \in Seq(EventRows)
  BY DEF TypeOK
<1>2. PICK t : t = <<e>> /\ t \in Seq(EventRows) /\ Len(t) = 1 /\ t[1] = e
  <2>1. <<e>> \in Seq(EventRows) /\ Len(<<e>>) = 1 /\ <<e>>[1] = e
    BY TwoRows
  <2> QED BY ONLY <2>1
<1>3. /\ events \o t \in Seq(EventRows) /\ Len(events \o t) = Len(events) + Len(t)
      /\ \A n \in 1..Len(events) : (events \o t)[n] = events[n]
      /\ \A n \in 1..Len(t) : (events \o t)[Len(events) + n] = t[n]
  <2>1. t \in Seq(EventRows)
    BY <1>2
  <2> QED BY ONLY <1>1, <2>1, RowsBehind
<1>4. Len(events) \in Nat
  BY ONLY <1>1
<1>5. /\ events' \in Seq(EventRows) /\ Len(events') = Len(events) + 1
      /\ \A n \in 1..Len(events) : events'[n] = events[n]
      /\ events'[Len(events) + 1] = e
  BY <1>2, <1>3, <1>4
<1>6. Extended
  BY <1>1, <1>4, <1>5 DEF Extended
<1> QED BY <1>4, <1>5, <1>6, StandsStill

\* An unmanaged event belongs to no action.
LEMMA AppendEventKeepsValid ==
  ASSUME TypeOK, ReopenInv, NEW h \in Handles, NEW tick \in Ticks,
         AppendEvent(h, Len(events) + 1, tick)
  PROVE  ReopenInv'
<1> DEFINE e == Event(tick, "OTHER", None, NoAttempt, None)
<1>1. /\ InOrder(tick) /\ events' = events \o <<e>>
      /\ UNCHANGED <<operations, transitions, attempts>>
  BY DEF AppendEvent, AppendRows
<1>2. e \in EventRows /\ e.kind \notin ManagedKinds /\ e.tick = tick
  BY DEF Event, EventRows, Kinds, ManagedKinds
<1> HIDE DEF e
<1>3. /\ Extended /\ Len(events) \in Nat
      /\ DOMAIN events = 1..Len(events) /\ DOMAIN events' = 1..(Len(events) + 1)
      /\ events'[Len(events) + 1] = e
      /\ \A n \in 1..Len(events) : events'[n] = events[n]
  BY <1>1, <1>2, OneEvent
<1>4. ASSUME NEW b \in DOMAIN operations
      PROVE  OperationValid(b)' /\ ReferencedEvents(b)' = ReferencedEvents(b)
  <2>1. Loads(b) /\ OperationEventsAgree(b)
    BY DEF ReopenInv, ContentsValid, OperationValid
  <2>2. /\ b \in DOMAIN operations' /\ operations'[b] = operations[b]
        /\ transitions'[b] = transitions[b] /\ AttemptsOf(b)' = AttemptsOf(b)
    BY <1>1 DEF AttemptsOf
  <2>3. Loads(b)'
    BY <2>1, <2>2, ReplayStays
  <2>4. OperationEventsAgree(b)' /\ ReferencedEvents(b)' = ReferencedEvents(b)
    BY <1>3, <2>1, <2>2, EventsStillAgree
  <2> QED BY <2>3, <2>4 DEF OperationValid
<1>5. TicksNondecreasing'
  <2>1. \A n \in DOMAIN events' : n > Len(events) => events'[n].tick = tick
    BY <1>2, <1>3
  <2>2. TicksNondecreasing
    BY DEF ReopenInv, ContentsValid
  <2> QED BY <1>1, <1>3, <2>1, <2>2, TicksStayInOrder
<1>6. {n \in DOMAIN events' : events'[n].kind \in ManagedKinds} =
        {n \in DOMAIN events : events[n].kind \in ManagedKinds}
  BY <1>2, <1>3
<1>7. ContentsValid'
  <2>1. UNION {ReferencedEvents(b)' : b \in DOMAIN operations'} =
          UNION {ReferencedEvents(b) : b \in DOMAIN operations}
    BY <1>1, <1>4
  <2>2. \A b \in DOMAIN operations' : OperationValid(b)'
    BY <1>1, <1>4
  <2> QED BY <1>5, <1>6, <2>1, <2>2 DEF ReopenInv, ContentsValid
<1>8. RowsOwned'
  BY <1>1 DEF ReopenInv, RowsOwned, ReplayedAttempts
<1> QED BY <1>7, <1>8 DEF ReopenInv

\* A new action has no rows, and its proposal is the one event added.
LEMMA RegisterKeepsValid ==
  ASSUME TypeOK, ReopenInv, NEW h \in Handles, NEW tick \in Ticks, NEW identity \in Identities,
         RegisterOperation(h, identity, tick)
  PROVE  ReopenInv'
<1> DEFINE e == Event(tick, "ACTION_PROPOSED", identity, NoAttempt, None)
           L == Len(events)
<1>1. PICK a, o :
        /\ a = identity.action_id /\ a \notin DOMAIN operations
        /\ o.identity = identity /\ o.state = "PROPOSED"
        /\ o.created = L + 1 /\ o.updated = L + 1
        /\ InOrder(tick) /\ events' = events \o <<e>>
        /\ UNCHANGED <<transitions, attempts>>
        /\ operations' = [b \in DOMAIN operations \cup {a} |->
                            IF b = a THEN o ELSE operations[b]]
  <2>1. PICK r : r = [identity |-> identity, state |-> "PROPOSED",
                      created |-> L + 1, updated |-> L + 1]
    OBVIOUS
  <2>2. r.identity = identity /\ r.state = "PROPOSED" /\ r.created = L + 1 /\ r.updated = L + 1
    BY <2>1
  <2>3. /\ identity.action_id \notin DOMAIN operations /\ InOrder(tick)
        /\ events' = events \o <<e>> /\ UNCHANGED <<transitions, attempts>>
        /\ operations' = [b \in DOMAIN operations \cup {identity.action_id} |->
                            IF b = identity.action_id THEN r ELSE operations[b]]
    BY <2>1 DEF RegisterOperation, AppendRows
  <2> HIDE DEF e
  <2> QED BY <2>2, <2>3
<1>2. /\ a \in ActionIds /\ e \in EventRows /\ e.tick = tick /\ e.kind = "ACTION_PROPOSED"
      /\ "ACTION_PROPOSED" \in ManagedKinds
  BY <1>1 DEF Identities, Event, EventRows, Kinds, ManagedKinds
<1>3. \A table : \A n \in DOMAIN table :
        table[n] = e => Stands(table, n, "ACTION_PROPOSED", identity, NoAttempt, None)
  BY EventStands
<1> HIDE DEF e
<1>4. /\ Extended /\ L \in Nat
      /\ DOMAIN events = 1..L /\ DOMAIN events' = 1..(L + 1)
      /\ events'[L + 1] = e
      /\ \A n \in 1..L : events'[n] = events[n]
  BY <1>1, <1>2, OneEvent
<1>5. /\ transitions'[a] = <<>> /\ AttemptsOf(a)' = {}
      /\ a \in DOMAIN operations' /\ operations'[a] = o
      /\ DOMAIN operations' = DOMAIN operations \cup {a}
  <2>1. transitions[a] = <<>> /\ AttemptsOf(a) = {}
    BY <1>1, <1>2 DEF ReopenInv, RowsOwned, AttemptsOf
  <2> QED BY <1>1, <2>1 DEF AttemptsOf
<1>6. OperationValid(a)'
  <2>1. DOMAIN transitions'[a] = {} /\ DispatchRows(transitions'[a]) = {} /\ Len(transitions'[a]) = 0
    BY <1>5 DEF DispatchRows
  <2>2. Replays(a)'
    <3>1. ReplayedState(a)' = "PROPOSED"
      BY <2>1 DEF ReplayedState, StateBefore
    <3> QED BY <1>1, <1>5, <2>1, <3>1 DEF Replays, RowsReplay
  <2>3. AttemptsAgree(a)'
    BY <1>5, <2>1 DEF AttemptsAgree
  <2>4. TransitionEventsAgree(a)' /\ AttemptEventsAgree(a)'
    BY <1>5, <2>1 DEF TransitionEventsAgree, AttemptEventsAgree
  <2>5. HasEvent(operations[a].created, "ACTION_PROPOSED", operations[a].identity, NoAttempt, None)'
    <3>1. L + 1 \in DOMAIN events'
      BY <1>4
    <3>2. Stands(events', L + 1, "ACTION_PROPOSED", identity, NoAttempt, None)
      BY <1>3, <1>4, <3>1
    <3> QED BY <1>1, <1>5, <3>2 DEF Stands, HasEvent
  <2>6. OperationEventsAgree(a)'
    BY <1>1, <1>5, <2>4, <2>5 DEF OperationEventsAgree
  <2> QED BY <1>5, <2>2, <2>3, <2>6 DEF OperationValid, Loads
<1>7. ASSUME NEW b \in DOMAIN operations
      PROVE  OperationValid(b)' /\ ReferencedEvents(b)' = ReferencedEvents(b)
  <2>1. Loads(b) /\ OperationEventsAgree(b)
    BY DEF ReopenInv, ContentsValid, OperationValid
  <2>2. /\ b \in DOMAIN operations' /\ operations'[b] = operations[b]
        /\ transitions'[b] = transitions[b] /\ AttemptsOf(b)' = AttemptsOf(b)
    BY <1>1 DEF AttemptsOf
  <2>3. Loads(b)'
    BY <2>1, <2>2, ReplayStays
  <2>4. OperationEventsAgree(b)' /\ ReferencedEvents(b)' = ReferencedEvents(b)
    BY <1>4, <2>1, <2>2, EventsStillAgree
  <2> QED BY <2>3, <2>4 DEF OperationValid
<1>8. TicksNondecreasing'
  <2>1. \A n \in DOMAIN events' : n > L => events'[n].tick = tick
    BY <1>2, <1>4
  <2>2. TicksNondecreasing
    BY DEF ReopenInv, ContentsValid
  <2> QED BY <1>1, <1>4, <2>1, <2>2, TicksStayInOrder
<1>9. {n \in DOMAIN events' : events'[n].kind \in ManagedKinds} =
        {n \in DOMAIN events : events[n].kind \in ManagedKinds} \cup {L + 1}
  BY <1>2, <1>4
<1>10. ReferencedEvents(a)' = {L + 1}
  <2>1. \A x : Accounted(a, x)' <=> x = L + 1
    BY <1>1, <1>5 DEF Accounted
  <2> QED BY <2>1, AccountedEvents
<1>11. ContentsValid'
  <2>1. UNION {ReferencedEvents(b)' : b \in DOMAIN operations'} =
          (UNION {ReferencedEvents(b) : b \in DOMAIN operations}) \cup {L + 1}
    BY <1>5, <1>7, <1>10
  <2>2. \A b \in DOMAIN operations' : OperationValid(b)'
    BY <1>5, <1>6, <1>7
  <2> QED BY <1>8, <1>9, <2>1, <2>2 DEF ReopenInv, ContentsValid
<1>12. RowsOwned'
  BY <1>1, <1>5 DEF ReopenInv, RowsOwned, ReplayedAttempts
<1> QED BY <1>11, <1>12 DEF ReopenInv

\* A step that leaves the tables alone leaves them valid.
LEMMA TablesKept ==
  ASSUME TypeOK, ReopenInv, UNCHANGED tables
  PROVE  ReopenInv'
<1>1. /\ events' = events /\ operations' = operations /\ transitions' = transitions
      /\ attempts' = attempts /\ Extended
  BY DEF tables, Extended, TypeOK
<1>2. ASSUME NEW b \in DOMAIN operations
      PROVE  OperationValid(b)' /\ ReferencedEvents(b)' = ReferencedEvents(b)
  <2>1. Loads(b) /\ OperationEventsAgree(b)
    BY DEF ReopenInv, ContentsValid, OperationValid
  <2>2. /\ b \in DOMAIN operations' /\ operations'[b] = operations[b]
        /\ transitions'[b] = transitions[b] /\ AttemptsOf(b)' = AttemptsOf(b)
    BY <1>1 DEF AttemptsOf
  <2>3. Loads(b)'
    BY <2>1, <2>2, ReplayStays
  <2>4. OperationEventsAgree(b)' /\ ReferencedEvents(b)' = ReferencedEvents(b)
    BY <1>1, <2>1, <2>2, EventsStillAgree
  <2> QED BY <2>3, <2>4 DEF OperationValid
<1>3. ContentsValid'
  <2>1. UNION {ReferencedEvents(b)' : b \in DOMAIN operations'} =
          UNION {ReferencedEvents(b) : b \in DOMAIN operations}
    BY <1>1, <1>2
  <2>2. \A b \in DOMAIN operations' : OperationValid(b)'
    BY <1>1, <1>2
  <2>3. TicksNondecreasing'
    BY <1>1 DEF ReopenInv, ContentsValid, TicksNondecreasing
  <2> QED BY <1>1, <2>1, <2>2, <2>3 DEF ReopenInv, ContentsValid
<1>4. RowsOwned'
  BY <1>1 DEF ReopenInv, RowsOwned, ReplayedAttempts
<1> QED BY <1>3, <1>4 DEF ReopenInv

\* The calls of transition() and record_dispatch().
LEMMA RecordedCallKeepsValid ==
  ASSUME TypeOK, TypeOK', ReopenInv, NEW h \in Handles, NEW a \in ActionIds, Callable(h, a),
         NEW call \in Calls, call.attempt # Malformed, NEW tick \in Ticks,
         LetOut(h, a, call, tick) \/ RecordOnly(a, call, tick) \/ ForbiddenButLate(a, call, tick)
  PROVE  ReopenInv'
<1>1. PICK record : record = RecordInLedger(a, call)
  OBVIOUS
<1>2. a \in DOMAIN operations /\ operations[a].state # "VIOLATION"
  BY DEF Callable
<1>3. CASE ForbiddenButLate(a, call, tick)
  BY <1>3, TablesKept DEF ForbiddenButLate
<1>4. ASSUME NEW before,
             PersistTransition(a, before, record, call, tick),
             IF IsDispatch(record)
             THEN before = <<Event(tick, "ATTEMPT_DISPATCHED", operations[a].identity,
                                   call.attempt, None)>>
             ELSE before = <<>>,
             AttemptAdded(a, call, record)
      PROVE  ReopenInv'
  <2>1. PICK row, w : Added(a, call, tick, record, row, w)
    BY <1>1, <1>2, <1>4, CallAdds
  <2>2. InOrder(tick)
    BY <1>4 DEF PersistTransition
  <2> QED BY <1>1, <1>2, <1>4, <2>1, <2>2, CallKeepsValid
<1>5. CASE LetOut(h, a, call, tick)
  BY <1>1, <1>4, <1>5 DEF LetOut, AttemptAdded
<1>6. CASE RecordOnly(a, call, tick)
  <2>1. ~IsDispatch(record) /\ PersistTransition(a, <<>>, record, call, tick) /\ attempts' = attempts
    BY <1>1, <1>6 DEF RecordOnly
  <2> QED BY <1>4, <2>1 DEF AttemptAdded
<1> QED BY <1>3, <1>5, <1>6

\* No step of the ledger invalidates the file.
LEMMA ReopenStep ==
  ASSUME TypeOK, TypeOK', ReopenInv, [Next]_vars
  PROVE  ReopenInv'
<1>1. ASSUME UNCHANGED tables PROVE ReopenInv'
  BY <1>1, TablesKept
<1>2. CASE UNCHANGED vars
  BY <1>1, <1>2 DEF vars, tables
<1>3. ASSUME NEW h \in Handles, ReturnPermit(h) \/ CloseOrCrash(h) \/ Reopen(h)
      PROVE  ReopenInv'
  BY <1>1, <1>3 DEF ReturnPermit, CloseOrCrash, Reopen
<1>4. ASSUME NEW h \in Handles, NEW tick \in Ticks, NEW a \in ActionIds,
             NEW request \in Requests, NEW identity \in Identities,
             TransitionCall(h, a, request, identity, tick)
      PROVE  ReopenInv'
  <2>1. PICK call :
          /\ call = [target |-> request.target, evidence |-> request.evidence,
                     identity |-> identity, attempt |-> NoAttempt]
          /\ RecordOnly(a, call, tick) \/ ForbiddenButLate(a, call, tick)
    BY <1>4 DEF TransitionCall
  <2>2. call \in Calls /\ Callable(h, a) /\ call.attempt # Malformed
    BY <1>4, <2>1, RequestsAssumption, AttemptAssumption DEF TransitionCall, Calls, CallAttempts
  <2> QED BY <2>1, <2>2, RecordedCallKeepsValid
<1>5. ASSUME NEW h \in Handles, NEW tick \in Ticks, NEW a \in ActionIds,
             NEW request \in Requests, NEW identity \in Identities, NEW id \in AttemptIds,
             RecordDispatch(h, a, id, request.evidence, identity, tick)
      PROVE  ReopenInv'
  <2>1. PICK call :
          /\ call = [target |-> "IN_FLIGHT", evidence |-> request.evidence,
                     identity |-> identity, attempt |-> id]
          /\ \/ LetOut(h, a, call, tick)
             \/ RecordOnly(a, call, tick)
             \/ ForbiddenButLate(a, call, tick)
    BY <1>5 DEF RecordDispatch
  <2>2. call \in Calls /\ Callable(h, a) /\ call.attempt # Malformed
    BY <1>5, <2>1, RequestsAssumption, AttemptAssumption
    DEF RecordDispatch, Calls, CallAttempts, States
  <2> QED BY <2>1, <2>2, RecordedCallKeepsValid
<1> QED
  BY <1>2, <1>3, <1>4, <1>5, AppendEventKeepsValid, RegisterKeepsValid DEF Next

\* A new, empty file is valid.
LEMMA EmptyIsValid == NothingWritten => ReopenInv
<1> SUFFICES ASSUME NothingWritten PROVE ReopenInv
  OBVIOUS
<1>1. /\ events = <<>> /\ DOMAIN operations = {} /\ attempts = {}
      /\ \A a \in ActionIds : transitions[a] = <<>>
  BY DEF NothingWritten
<1>2. ContentsValid
  BY <1>1 DEF ContentsValid, TicksNondecreasing
<1>3. ASSUME NEW a \in ActionIds
      PROVE  DispatchRows(transitions[a]) = {} /\ ReplayedAttempts(a) = {}
  BY <1>1 DEF DispatchRows, ReplayedAttempts, UsedBefore
<1>4. RowsOwned
  BY <1>1, <1>3, FS_EmptySet DEF RowsOwned
<1> QED BY <1>2, <1>4 DEF ReopenInv

\* Whatever the calls, handles, ticks and crashes, the file passes the validation that
\* reopen() and validate() demand: no sequence of legal calls locks its own ledger out.
THEOREM AlwaysReopensCorrect == Spec => []AlwaysReopens
<1>1. Init => ReopenInv
  BY EmptyIsValid DEF Init, NothingWritten
<1>2. TypeOK /\ TypeOK' /\ ReopenInv /\ [Next]_vars => ReopenInv'
  BY ReopenStep
<1>3. ReopenInv => AlwaysReopens
  BY DEF ReopenInv, AlwaysReopens
<1> QED BY <1>1, <1>2, <1>3, TypeCorrect, PTL DEF Spec

-----------------------------------------------------------------------------
(***************************************************************************)
(* The abstract lifecycle.  A call changes one action along one edge, and  *)
(* the key of the attempts table keeps identifiers apart.                  *)
(***************************************************************************)

\* What a call changes in an action whose rows replay: an edge, a violation, or a dispatch.
LEMMA CallEffect ==
  ASSUME TypeOK, NEW a \in DOMAIN operations, Loads(a), operations[a].state # "VIOLATION",
         NEW call \in Calls, NEW before, NEW tick,
         PersistTransition(a, before, RecordInLedger(a, call), call, tick)
  PROVE  /\ operations[a].state \in States /\ a \in ActionIds
         /\ DOMAIN operations' = DOMAIN operations
         /\ \A b \in DOMAIN operations : b # a => operations'[b] = operations[b]
         /\ operations'[a].state = RecordInLedger(a, call).resulting
         /\ \/ operations'[a].state = "VIOLATION"
            \/ Edge(operations[a].state, operations'[a].state, RecordInLedger(a, call).cause)
                 \in NORMATIVE_TRANSITIONS
         /\ IsDispatch(RecordInLedger(a, call)) =>
              operations[a].state \in {"PREPARED", "RETRYABLE"}
<1> DEFINE record == RecordInLedger(a, call)
<1>1. a \in ActionIds /\ operations[a] \in OperationRows
  BY DEF TypeOK
<1>2. operations[a].state \in States /\ operations[a].state = ReplayedState(a)
  BY <1>1 DEF OperationRows, Loads, Replays, RowsReplay
<1>3. /\ \/ record.resulting = "VIOLATION"
         \/ Edge(operations[a].state, record.resulting, record.cause) \in NORMATIVE_TRANSITIONS
      /\ IsDispatch(record) => operations[a].state \in {"PREPARED", "RETRYABLE"}
  BY <1>2, RecordShape, DispatchIsFresh DEF RecordInLedger
<1>4. operations' = [operations EXCEPT ![a].state = record.resulting, ![a].updated = Len(events')]
  BY DEF PersistTransition
<1> HIDE DEF record
<1>5. operations'[a].state = record.resulting
  BY <1>1, <1>4 DEF OperationRows
<1>6. /\ DOMAIN operations' = DOMAIN operations
      /\ \A b \in DOMAIN operations : b # a => operations'[b] = operations[b]
  BY <1>4
<1> QED BY <1>1, <1>2, <1>3, <1>5, <1>6 DEF record

\* The mapping of the tables.
Known(a) == IF a \in DOMAIN operations THEN KnowledgeOf(operations[a].state) ELSE "unsent"
Issued(a) == {r.attempt : r \in AttemptsOf(a)}

\* Where no row of an action changes its state, no abstract state changes.
LEMMA LifecycleStutters ==
  ASSUME \A a \in ActionIds : Known(a)' = Known(a), attempts' = attempts
  PROVE  UNCHANGED Lifecycle!vars
BY DEF Lifecycle!vars, Known, AttemptsOf

\* A call that lets nothing out is a step or a stutter of the abstract lifecycle.
LEMMA RecordOnlyImplements ==
  ASSUME TypeOK, NEW a \in DOMAIN operations, Loads(a), operations[a].state # "VIOLATION",
         NEW call \in Calls, NEW tick,
         RecordOnly(a, call, tick) \/ ForbiddenButLate(a, call, tick)
  PROVE  [Lifecycle!Next]_(Lifecycle!vars)
<1>1. CASE ForbiddenButLate(a, call, tick)
  BY <1>1, LifecycleStutters DEF ForbiddenButLate, tables, Known
<1>2. CASE RecordOnly(a, call, tick)
  <2> DEFINE record == RecordInLedger(a, call)
             k == Known(a)
             l == KnowledgeOf(operations'[a].state)
  <2>1. /\ ~IsDispatch(record) /\ attempts' = attempts
        /\ PersistTransition(a, <<>>, record, call, tick)
    BY <1>2 DEF RecordOnly
  <2>2. /\ operations[a].state \in States /\ a \in ActionIds
        /\ DOMAIN operations' = DOMAIN operations
        /\ \A b \in DOMAIN operations : b # a => operations'[b] = operations[b]
        /\ operations'[a].state = record.resulting
        /\ \/ operations'[a].state = "VIOLATION"
           \/ Edge(operations[a].state, operations'[a].state, record.cause)
                \in NORMATIVE_TRANSITIONS
    BY <2>1, CallEffect
  <2> HIDE DEF record
  <2>3. [b \in ActionIds |-> Known(b)'] = [[b \in ActionIds |-> Known(b)] EXCEPT ![a] = l]
    BY <2>2 DEF Known
  <2>4. [b \in ActionIds |-> Issued(b)'] = [b \in ActionIds |-> Issued(b)]
    BY <2>1 DEF Issued, AttemptsOf
  <2>5. [b \in ActionIds |-> Known(b)][a] = k /\ k = KnowledgeOf(operations[a].state)
    BY <2>2 DEF Known
  <2>6. k # "violated"
    BY <2>2, <2>5 DEF KnowledgeOf, States
  <2>7. \/ k = l
        \/ (k = "maybe" /\ l \in {"found", "absent"}) \/ (k = "found" /\ l = "maybe")
        \/ k = "found" /\ l = "complete"
        \/ k \in {"unsent", "maybe", "found", "absent"} /\ l = "stopped"
        \/ l = "violated"
    BY <2>1, <2>2, <2>5 DEF IsDispatch, KnowledgeOf, NORMATIVE_TRANSITIONS, Graph, Edge
  <2> HIDE DEF k, l
  <2> USE DEF Known, Issued
  <2>8. CASE k = l
    <3>1. [b \in ActionIds |-> Known(b)'] = [b \in ActionIds |-> Known(b)]
      <4> HIDE DEF Known, Issued
      <4> QED BY <2>2, <2>3, <2>5, <2>8
    <3> QED BY <2>4, <3>1 DEF Lifecycle!vars
  <2>9. CASE (k = "maybe" /\ l \in {"found", "absent"}) \/ (k = "found" /\ l = "maybe")
    BY <2>2, <2>3, <2>4, <2>5, <2>9 DEF Lifecycle!Next, Lifecycle!Learn, Lifecycle!Become
  <2>10. CASE k = "found" /\ l = "complete"
    BY <2>2, <2>3, <2>4, <2>5, <2>10 DEF Lifecycle!Next, Lifecycle!Complete, Lifecycle!Become
  <2>11. CASE k \in {"unsent", "maybe", "found", "absent"} /\ l = "stopped"
    BY <2>2, <2>3, <2>4, <2>5, <2>11
    DEF Lifecycle!Next, Lifecycle!Stop, Lifecycle!Become, Lifecycle!Live
  <2>12. CASE l = "violated"
    BY <2>2, <2>3, <2>4, <2>5, <2>6, <2>12
    DEF Lifecycle!Next, Lifecycle!Violate, Lifecycle!Become
  <2> QED BY <2>7, <2>8, <2>9, <2>10, <2>11, <2>12
<1> QED BY <1>1, <1>2

\* A dispatch that is let out is an abstract dispatch: the key of the attempts table makes
\* its identifier new to every action.
LEMMA LetOutImplements ==
  ASSUME TypeOK, NEW h \in Handles, NEW a \in DOMAIN operations, Loads(a),
         operations[a].state # "VIOLATION", NEW call \in Calls, NEW tick \in Ticks,
         LetOut(h, a, call, tick)
  PROVE  Lifecycle!Next
<1> DEFINE record == RecordInLedger(a, call)
<1>1. PICK before, permit :
        /\ permit.attempt = call.attempt /\ permit.action = a
        /\ IsDispatch(record)
        /\ \A r \in attempts : r.attempt # call.attempt
        /\ PersistTransition(a, before, record, call, tick)
        /\ attempts' = attempts \cup {permit}
  BY DEF LetOut
<1>2. /\ operations[a].state \in {"PREPARED", "RETRYABLE"} /\ a \in ActionIds
      /\ DOMAIN operations' = DOMAIN operations
      /\ \A b \in DOMAIN operations : b # a => operations'[b] = operations[b]
      /\ operations'[a].state = "IN_FLIGHT"
  BY <1>1, CallEffect DEF IsDispatch
<1>3. call.attempt \in AttemptIds
  <2>1. transitions[a] \in Seq(TransitionRows)
    BY <1>2 DEF TypeOK
  <2>2. Len(transitions[a]) + 1 \in 1..(Len(transitions[a]) + 1)
    BY <2>1
  <2>3. ReplayedState(a) \in States
    BY <2>1, <2>2, StateBeforeTyped DEF ReplayedState
  <2>4. record.attempt \in AttemptIds
    BY <1>1, <2>3, DispatchIsFresh DEF RecordInLedger
  <2> QED BY <2>4, AttemptAssumption DEF RecordInLedger, RecordOf, AttemptForRecord
<1> HIDE DEF record
<1>4. [b \in ActionIds |-> Known(b)'] = [[b \in ActionIds |-> Known(b)] EXCEPT ![a] = "maybe"]
  <2>1. KnowledgeOf("IN_FLIGHT") = "maybe"
    BY DEF KnowledgeOf
  <2> QED BY <1>2, <2>1 DEF Known
<1>5. [b \in ActionIds |-> Issued(b)'] =
        [[b \in ActionIds |-> Issued(b)] EXCEPT ![a] = @ \cup {call.attempt}]
  <2>1. Issued(a)' = Issued(a) \cup {call.attempt}
    BY <1>1 DEF Issued, AttemptsOf
  <2>2. \A b \in ActionIds : b # a => Issued(b)' = Issued(b)
    BY <1>1 DEF Issued, AttemptsOf
  <2> HIDE DEF Issued
  <2> QED BY <1>2, <2>1, <2>2
<1>6. \A b \in ActionIds : call.attempt \notin [c \in ActionIds |-> Issued(c)][b]
  BY <1>1 DEF Issued, AttemptsOf
<1>7. [b \in ActionIds |-> Known(b)][a] \in {"unsent", "absent"}
  BY <1>2 DEF Known, KnowledgeOf
<1> USE DEF Known, Issued
<1> QED BY <1>2, <1>3, <1>4, <1>5, <1>6, <1>7
  DEF Lifecycle!Next, Lifecycle!Dispatch, Lifecycle!Become

\* Every step of the ledger is a step of the abstract lifecycle or none.
LEMMA LifecycleStep ==
  ASSUME TypeOK, [Next]_vars
  PROVE  [Lifecycle!Next]_(Lifecycle!vars)
<1>1. ASSUME UNCHANGED tables PROVE UNCHANGED Lifecycle!vars
  BY <1>1, LifecycleStutters DEF tables, Known
<1>2. CASE UNCHANGED vars
  BY <1>1, <1>2 DEF vars, tables
<1>3. ASSUME NEW h \in Handles, NEW tick \in Ticks, AppendEvent(h, Len(events) + 1, tick)
      PROVE  UNCHANGED Lifecycle!vars
  BY <1>3, LifecycleStutters DEF AppendEvent, Known
<1>4. ASSUME NEW h \in Handles, NEW tick \in Ticks, NEW identity \in Identities,
             RegisterOperation(h, identity, tick)
      PROVE  UNCHANGED Lifecycle!vars
  <2>1. \A a \in ActionIds : Known(a)' = Known(a)
    <3>1. KnowledgeOf("PROPOSED") = "unsent"
      BY DEF KnowledgeOf
    <3> QED BY <1>4, <3>1 DEF RegisterOperation, Known
  <2> QED BY <1>4, <2>1, LifecycleStutters DEF RegisterOperation
<1>5. ASSUME NEW h \in Handles, NEW tick \in Ticks, NEW a \in ActionIds,
             NEW request \in Requests, NEW identity \in Identities,
             TransitionCall(h, a, request, identity, tick)
      PROVE  [Lifecycle!Next]_(Lifecycle!vars)
  <2>1. PICK call :
          /\ call = [target |-> request.target, evidence |-> request.evidence,
                     identity |-> identity, attempt |-> NoAttempt]
          /\ RecordOnly(a, call, tick) \/ ForbiddenButLate(a, call, tick)
    BY <1>5 DEF TransitionCall
  <2>2. call \in Calls /\ Callable(h, a)
    BY <1>5, <2>1, RequestsAssumption DEF TransitionCall, Calls, CallAttempts
  <2> QED BY <2>1, <2>2, RecordOnlyImplements DEF Callable
<1>6. ASSUME NEW h \in Handles, NEW tick \in Ticks, NEW a \in ActionIds,
             NEW request \in Requests, NEW identity \in Identities, NEW id \in AttemptIds,
             RecordDispatch(h, a, id, request.evidence, identity, tick)
      PROVE  [Lifecycle!Next]_(Lifecycle!vars)
  <2>1. PICK call :
          /\ call = [target |-> "IN_FLIGHT", evidence |-> request.evidence,
                     identity |-> identity, attempt |-> id]
          /\ \/ LetOut(h, a, call, tick)
             \/ RecordOnly(a, call, tick)
             \/ ForbiddenButLate(a, call, tick)
    BY <1>6 DEF RecordDispatch
  <2>2. call \in Calls /\ Callable(h, a)
    BY <1>6, <2>1, RequestsAssumption DEF RecordDispatch, Calls, CallAttempts, States
  <2> QED BY <2>1, <2>2, RecordOnlyImplements, LetOutImplements DEF Callable
<1>7. ASSUME NEW h \in Handles, ReturnPermit(h) \/ CloseOrCrash(h) \/ Reopen(h)
      PROVE  UNCHANGED Lifecycle!vars
  BY <1>1, <1>7 DEF ReturnPermit, CloseOrCrash, Reopen
<1> QED BY <1>2, <1>3, <1>4, <1>5, <1>6, <1>7 DEF Next

\* The tables implement the abstract lifecycle for all actions together, whatever the
\* handles, crashes and ticks: a second attempt of an action is let out only when the
\* first is known to have had no effect, under an identifier that is new to all of them.
THEOREM LifecycleImplemented == Spec => ImplementsLifecycle
<1>1. NothingWritten => Lifecycle!Init
  BY DEF NothingWritten, Lifecycle!Init, AttemptsOf
<1>2. Init => NothingWritten
  BY DEF Init, NothingWritten
<1> QED
  BY <1>1, <1>2, LifecycleStep, TypeCorrect, PTL DEF Spec, ImplementsLifecycle, Lifecycle!Spec

-----------------------------------------------------------------------------
(***************************************************************************)
(* What a step writes comes after all that was written before it.          *)
(***************************************************************************)

\* What a step writes about an action bears the number of an event of that step.
StampedLater ==
  /\ \A a \in DOMAIN operations' :
       a \notin DOMAIN operations => operations'[a].created > Len(events)
  /\ \A a \in ActionIds : \A n \in DOMAIN transitions'[a] :
       n > Len(transitions[a]) => transitions'[a][n].seq > Len(events)

\* No step stamps what it writes with an event that was there before.
LEMMA StampsAreLater ==
  ASSUME TypeOK, [Next]_vars
  PROVE  StampedLater
<1>1. Len(events) \in Nat /\ \A a \in ActionIds : transitions[a] \in Seq(TransitionRows)
  BY DEF TypeOK
<1>2. ASSUME operations' = operations, transitions' = transitions
      PROVE  StampedLater
  <2>1. \A a \in ActionIds : DOMAIN transitions[a] = 1..Len(transitions[a]) /\ Len(transitions[a]) \in Nat
    BY <1>1
  <2> QED BY <1>2, <2>1 DEF StampedLater
<1>3. ASSUME NEW h \in Handles, NEW tick \in Ticks, NEW identity \in Identities,
             RegisterOperation(h, identity, tick)
      PROVE  StampedLater
  <2>1. \A a \in DOMAIN operations' :
          a \notin DOMAIN operations => operations'[a].created = Len(events) + 1
    BY <1>3 DEF RegisterOperation
  <2>2. transitions' = transitions
    BY <1>3 DEF RegisterOperation
  <2>3. \A a \in ActionIds : DOMAIN transitions[a] = 1..Len(transitions[a]) /\ Len(transitions[a]) \in Nat
    BY <1>1
  <2> QED BY <1>1, <2>1, <2>2, <2>3 DEF StampedLater
<1>4. ASSUME NEW a \in DOMAIN operations, NEW call \in Calls, NEW tick \in Ticks, NEW before,
             PersistTransition(a, before, RecordInLedger(a, call), call, tick),
             IF IsDispatch(RecordInLedger(a, call))
             THEN before = <<Event(tick, "ATTEMPT_DISPATCHED", operations[a].identity,
                                   call.attempt, None)>>
             ELSE before = <<>>
      PROVE  StampedLater
  <2>1. PICK record : record = RecordInLedger(a, call)
    OBVIOUS
  <2>2. PICK row, w : Added(a, call, tick, record, row, w)
    BY <1>4, <2>1, CallAdds
  <2>3. /\ DOMAIN operations' = DOMAIN operations
        /\ transitions'[a] = Append(transitions[a], row) /\ row \in TransitionRows
        /\ \A b \in ActionIds : b # a => transitions'[b] = transitions[b]
        /\ row.seq = Len(events) + w /\ w \in {1, 2}
    BY <2>2 DEF Added
  <2>4. a \in ActionIds
    BY DEF TypeOK
  <2>5. ASSUME NEW b \in ActionIds, NEW n \in DOMAIN transitions'[b], n > Len(transitions[b])
        PROVE  transitions'[b][n].seq > Len(events)
    <3>1. CASE b # a
      BY <1>1, <2>3, <2>5, <3>1
    <3>2. CASE b = a
      <4>1. n = Len(transitions[a]) + 1 /\ transitions'[a][n] = row
        BY <1>1, <2>3, <2>4, <2>5, <3>2, AppendFacts
      <4> QED BY <1>1, <2>3, <3>2, <4>1
    <3> QED BY <3>1, <3>2
  <2> QED BY <2>3, <2>5 DEF StampedLater
<1>5. ASSUME NEW h \in Handles, NEW a \in DOMAIN operations, NEW call \in Calls, NEW tick \in Ticks,
             LetOut(h, a, call, tick) \/ RecordOnly(a, call, tick) \/ ForbiddenButLate(a, call, tick)
      PROVE  StampedLater
  <2>1. CASE LetOut(h, a, call, tick)
    BY <1>4, <2>1 DEF LetOut
  <2>2. CASE RecordOnly(a, call, tick)
    BY <1>4, <2>2 DEF RecordOnly
  <2>3. CASE ForbiddenButLate(a, call, tick)
    BY <1>2, <2>3 DEF ForbiddenButLate, tables
  <2> QED BY <1>5, <2>1, <2>2, <2>3
<1>6. ASSUME NEW h \in Handles, NEW tick \in Ticks, NEW a \in ActionIds,
             NEW request \in Requests, NEW identity \in Identities,
             TransitionCall(h, a, request, identity, tick)
      PROVE  StampedLater
  <2>1. PICK call :
          /\ call = [target |-> request.target, evidence |-> request.evidence,
                     identity |-> identity, attempt |-> NoAttempt]
          /\ RecordOnly(a, call, tick) \/ ForbiddenButLate(a, call, tick)
    BY <1>6 DEF TransitionCall
  <2>2. call \in Calls /\ a \in DOMAIN operations
    BY <1>6, <2>1, RequestsAssumption DEF TransitionCall, Callable, Calls, CallAttempts
  <2> QED BY <1>5, <2>1, <2>2
<1>7. ASSUME NEW h \in Handles, NEW tick \in Ticks, NEW a \in ActionIds,
             NEW request \in Requests, NEW identity \in Identities, NEW id \in AttemptIds,
             RecordDispatch(h, a, id, request.evidence, identity, tick)
      PROVE  StampedLater
  <2>1. PICK call :
          /\ call = [target |-> "IN_FLIGHT", evidence |-> request.evidence,
                     identity |-> identity, attempt |-> id]
          /\ \/ LetOut(h, a, call, tick)
             \/ RecordOnly(a, call, tick)
             \/ ForbiddenButLate(a, call, tick)
    BY <1>7 DEF RecordDispatch
  <2>2. call \in Calls /\ a \in DOMAIN operations
    BY <1>7, <2>1, RequestsAssumption DEF RecordDispatch, Callable, Calls, CallAttempts, States
  <2> QED BY <1>5, <2>1, <2>2
<1>8. CASE UNCHANGED vars
  BY <1>2, <1>8 DEF vars
<1>9. ASSUME NEW h \in Handles,
             \/ ReturnPermit(h) \/ CloseOrCrash(h) \/ Reopen(h)
             \/ \E tick \in Ticks : AppendEvent(h, Len(events) + 1, tick)
      PROVE  StampedLater
  BY <1>2, <1>9 DEF ReturnPermit, CloseOrCrash, Reopen, AppendEvent, tables
<1> QED BY <1>3, <1>6, <1>7, <1>8, <1>9 DEF Next

-----------------------------------------------------------------------------
(***************************************************************************)
(* The machines.  A call replays the rows and makes one step of the        *)
(* machine they stand for, so that the table read in ordinal order is the  *)
(* history of that machine.                                                *)
(***************************************************************************)

\* The machine of an identity judges a call by the same rules.
LEMMA SameRules ==
  ASSUME NEW i
  PROVE  /\ \A s, used, j, call : Machine(i)!RecordOf(s, used, j, call) = RecordOf(s, used, j, call)
         /\ \A r : Machine(i)!IsDispatch(r) <=> IsDispatch(r)
         /\ Machine(i)!Identities = Identities
<1>1. ASSUME NEW s, NEW used, NEW j, NEW call
      PROVE  Machine(i)!RecordOf(s, used, j, call) = RecordOf(s, used, j, call)
  BY DEF Machine!RecordOf, RecordOf, Machine!AttemptForRecord, AttemptForRecord,
         Machine!ViolationReason, ViolationReason, Machine!ReportsViolation, ReportsViolation,
         Machine!AttemptFault, AttemptFault, Machine!EdgeFault, EdgeFault,
         Machine!NORMATIVE_TRANSITIONS, NORMATIVE_TRANSITIONS, Machine!Graph, Graph,
         Machine!Edge, Edge, Machine!RequiredFlags, RequiredFlags,
         Machine!NoReason, NoReason, Machine!Reported, Reported
<1> QED BY <1>1 DEF Machine!IsDispatch, IsDispatch, Machine!Identities, Identities

\* A permit whose ordinal comes next is the last of the ordered attempts.
LEMMA OrderedAppend ==
  ASSUME NEW rows, IsFiniteSet(rows), \A r \in rows : r.ordinal \in 1..Cardinality(rows),
         NEW permit, permit.ordinal = Cardinality(rows) + 1
  PROVE  /\ Cardinality(rows \cup {permit}) = Cardinality(rows) + 1
         /\ Ordered(rows \cup {permit}) = Append(Ordered(rows), permit.attempt)
<1> DEFINE N == Cardinality(rows)
           more == rows \cup {permit}
<1>1. N \in Nat /\ permit \notin rows
  BY FS_CardinalityType
<1>2. Cardinality(more) = N + 1
  BY <1>1, FS_AddElement
<1>3. ASSUME NEW n \in 1..N PROVE Nth(more, n) = Nth(rows, n)
  <2>1. \A r : r \in more /\ r.ordinal = n <=> r \in rows /\ r.ordinal = n
    BY <1>1
  <2> HIDE DEF more
  <2> QED BY <2>1, Zenon DEF Nth
<1>4. Nth(more, N + 1) = permit
  <2>1. \A r \in more : r.ordinal = N + 1 <=> r = permit
    BY <1>1
  <2> QED BY <2>1 DEF Nth
<1> HIDE DEF N, more
<1>5. Append(Ordered(rows), permit.attempt) =
        [n \in 1..(N + 1) |-> IF n = N + 1 THEN permit.attempt ELSE Ordered(rows)[n]]
  <2>1. Ordered(rows) = [n \in 1..N |-> Ordered(rows)[n]]
    BY DEF Ordered, N
  <2>2. PICK f : f = Ordered(rows)
    OBVIOUS
  <2> QED BY <1>1, <2>1, <2>2
<1>6. Ordered(more) =
        [n \in 1..(N + 1) |-> IF n = N + 1 THEN permit.attempt ELSE Ordered(rows)[n]]
  BY <1>1, <1>2, <1>3, <1>4 DEF Ordered, N
<1> QED BY <1>2, <1>5, <1>6 DEF more, N

\* Ordinals count the attempts of an action, in their order its identifiers are those of
\* the dispatches, no action has more rows than there are events, and each operation is
\* kept under the action of its identity.
OrdinalsInOrder ==
  \A r \in attempts : r.ordinal \in 1..Cardinality(AttemptsOf(r.action))
IdentifiersInOrder ==
  \A a \in ActionIds :
    LET ordered == Ordered(AttemptsOf(a))
    IN  {ordered[n] : n \in DOMAIN ordered} = ReplayedAttempts(a)
RowsCounted == \A a \in ActionIds : Len(transitions[a]) <= Len(events)
Keyed == \A a \in DOMAIN operations : operations[a].identity.action_id = a

MachinesInv == OrdinalsInOrder /\ IdentifiersInOrder /\ RowsCounted /\ Keyed

\* A machine rests while the tables say the same of its identity.
LEMMA MachineRests ==
  ASSUME NEW i,
         RowsOf(i)' = RowsOf(i), AttemptRowsOf(i)' = AttemptRowsOf(i), StateOf(i)' = StateOf(i)
  PROVE  UNCHANGED Machine(i)!vars
BY DEF Machine!vars, HistoryOf

\* Tables that stay as they are.
LEMMA MachinesRest ==
  ASSUME TypeOK, MachinesInv, operations' = operations, transitions' = transitions,
         attempts' = attempts, Len(events') \in Nat, Len(events') >= Len(events)
  PROVE  MachinesInv' /\ EveryMachineSteps
<1>1. \A a : AttemptsOf(a)' = AttemptsOf(a) /\ ReplayedAttempts(a)' = ReplayedAttempts(a)
  BY DEF AttemptsOf, ReplayedAttempts
<1>2. \A a \in ActionIds : Len(transitions[a]) \in Nat /\ Len(events) \in Nat
  BY DEF TypeOK
<1>3. MachinesInv'
  BY <1>1, <1>2 DEF MachinesInv, OrdinalsInOrder, IdentifiersInOrder, RowsCounted, Keyed
<1>4. ASSUME NEW i PROVE UNCHANGED Machine(i)!vars
  <2>1. /\ RowsOf(i)' = RowsOf(i) /\ AttemptRowsOf(i)' = AttemptRowsOf(i)
        /\ StateOf(i)' = StateOf(i)
    BY <1>1 DEF RowsOf, AttemptRowsOf, StateOf, Registered
  <2> QED BY <2>1, MachineRests
<1> QED BY <1>3, <1>4 DEF EveryMachineSteps

\* A call that is recorded is a step of the machine of the action it is made on.
LEMMA CalledMachineSteps ==
  ASSUME TypeOK, ReopenInv, MachinesInv,
         NEW a \in DOMAIN operations, Loads(a), operations[a].state # "VIOLATION",
         NEW call \in LedgerCalls, NEW tick, NEW row, NEW w,
         NEW record, record = RecordInLedger(a, call),
         Added(a, call, tick, record, row, w), Len(events') <= MaxEvents,
         AttemptAdded(a, call, record)
  PROVE  MachinesInv' /\ EveryMachineSteps
<1> DEFINE rows == transitions[a]
           mine == AttemptsOf(a)
<1>11. PICK i \in Identities : i = operations[a].identity /\ i.action_id = a
  BY DEF TypeOK, OperationRows, MachinesInv, Keyed
<1>1. /\ a \in ActionIds /\ operations[a] \in OperationRows
      /\ \A b \in ActionIds : transitions[b] \in Seq(TransitionRows) /\ Len(transitions[b]) \in Nat
      /\ Len(events) \in Nat /\ i \in Identities
      /\ operations[a].state = ReplayedState(a)
  BY <1>11 DEF TypeOK, Loads, Replays, OperationRows
<1>2. row \in TransitionRows /\ row.record = record
  BY DEF Added
<1>3. /\ transitions'[a] = Append(rows, row)
      /\ \A b \in ActionIds : b # a => transitions'[b] = transitions[b]
      /\ DOMAIN operations' = DOMAIN operations
      /\ \A b \in DOMAIN operations : b # a => operations'[b] = operations[b]
      /\ operations'[a].identity = i /\ operations'[a].state = record.resulting
      /\ Len(events') > Len(events) /\ Len(events') \in Nat
  BY <1>1, <1>11 DEF Added
<1>4. Longer(rows, row, transitions'[a])
  BY <1>1, <1>2, <1>3, ReplayAppended
<1>5. /\ IsFiniteSet(mine) /\ \A r \in mine : r.ordinal \in 1..Cardinality(mine)
      /\ Cardinality(ReplayedAttempts(a)) = Cardinality(mine)
  <2>1. IsFiniteSet(mine)
    BY FS_Subset DEF ReopenInv, RowsOwned, AttemptsOf
  <2>2. Cardinality(mine) = Cardinality(DispatchRows(rows))
    BY DEF Loads, AttemptsAgree
  <2> QED BY <1>1, <2>1, <2>2 DEF MachinesInv, OrdinalsInOrder, AttemptsOf, ReopenInv, RowsOwned
<1>6. \A b : b # a => AttemptsOf(b)' = AttemptsOf(b)
  BY DEF AttemptAdded, AttemptsOf
<1>7. IF IsDispatch(record)
      THEN /\ \E permit : /\ permit.ordinal = Cardinality(mine) + 1
                          /\ permit.attempt = record.attempt /\ permit.action = a
                          /\ AttemptsOf(a)' = mine \cup {permit}
           /\ Cardinality(AttemptsOf(a)') = Cardinality(mine) + 1
           /\ Ordered(AttemptsOf(a)') = Append(Ordered(mine), record.attempt)
      ELSE AttemptsOf(a)' = mine
  <2>1. CASE IsDispatch(record)
    <3>1. record.attempt = call.attempt
      BY <2>1 DEF Added
    <3>2. PICK permit : /\ permit.ordinal = Cardinality(mine) + 1
                        /\ permit.attempt = record.attempt /\ permit.action = a
                        /\ attempts' = attempts \cup {permit}
      BY <1>5, <2>1, <3>1 DEF AttemptAdded
    <3>3. AttemptsOf(a)' = mine \cup {permit}
      BY <3>2 DEF AttemptsOf
    <3>4. /\ Cardinality(mine \cup {permit}) = Cardinality(mine) + 1
          /\ Ordered(mine \cup {permit}) = Append(Ordered(mine), permit.attempt)
      BY <1>5, <3>2, OrderedAppend
    <3> HIDE DEF mine, IsDispatch
    <3> QED BY <2>1, <3>2, <3>3, <3>4
  <2>2. CASE ~IsDispatch(record)
    BY <2>2 DEF AttemptAdded, AttemptsOf
  <2> QED BY <2>1, <2>2
<1>8. MachinesInv'
  <2>1. RowsCounted'
    <3>1. Len(transitions'[a]) = Len(rows) + 1
      BY <1>4 DEF Longer
    <3> QED BY <1>1, <1>3, <3>1 DEF MachinesInv, RowsCounted
  <2>2. OrdinalsInOrder'
    <3> SUFFICES ASSUME NEW r \in attempts'
                 PROVE  r.ordinal \in 1..Cardinality(AttemptsOf(r.action)')
      BY DEF OrdinalsInOrder, AttemptsOf
    <3>1. Cardinality(mine) \in Nat
      BY <1>5, FS_CardinalityType
    <3>2. CASE r.action = a
      <4>1. r \in AttemptsOf(a)'
        BY <3>2 DEF AttemptsOf
      <4> QED BY <1>5, <1>7, <3>1, <3>2, <4>1
    <3>3. CASE r.action # a
      <4>1. r \in AttemptsOf(r.action)'
        BY DEF AttemptsOf
      <4>2. r \in AttemptsOf(r.action)
        BY <1>6, <3>3, <4>1
      <4>3. r.ordinal \in 1..Cardinality(AttemptsOf(r.action))
        BY <4>2 DEF AttemptsOf, MachinesInv, OrdinalsInOrder
      <4> QED BY <1>6, <3>3, <4>3
    <3> QED BY <3>2, <3>3
  <2>3. IdentifiersInOrder'
    <3>1. ASSUME NEW b \in ActionIds, b # a
          PROVE  AttemptsOf(b)' = AttemptsOf(b) /\ ReplayedAttempts(b)' = ReplayedAttempts(b)
      BY <1>3, <1>6, <3>1 DEF ReplayedAttempts
    <3>2. ReplayedAttempts(a)' =
            ReplayedAttempts(a) \cup (IF IsDispatch(record) THEN {record.attempt} ELSE {})
      BY <1>2, <1>4 DEF Longer, ReplayedAttempts
    <3>3. LET ordered == Ordered(mine)
          IN  {ordered[n] : n \in DOMAIN ordered} = ReplayedAttempts(a)
      BY <1>1 DEF MachinesInv, IdentifiersInOrder
    <3>4. LET ordered == Ordered(AttemptsOf(a)')
          IN  {ordered[n] : n \in DOMAIN ordered} = ReplayedAttempts(a)'
      <4>1. CASE IsDispatch(record)
        <5>1. PICK q : q = Ordered(mine)
          OBVIOUS
        <5>2. DOMAIN q = 1..Cardinality(mine) /\ Cardinality(mine) \in Nat
          BY <1>5, <5>1, FS_CardinalityType DEF Ordered
        <5>3. {Append(q, record.attempt)[n] : n \in DOMAIN Append(q, record.attempt)} =
                {q[n] : n \in DOMAIN q} \cup {record.attempt}
          <6>1. PICK p : p = Append(q, record.attempt)
            OBVIOUS
          <6>2. /\ DOMAIN p = 1..(Cardinality(mine) + 1)
                /\ p[Cardinality(mine) + 1] = record.attempt
                /\ \A n \in 1..Cardinality(mine) : p[n] = q[n]
            <7>1. q = [n \in 1..Cardinality(mine) |-> q[n]]
              BY <5>1 DEF Ordered
            <7>2. q \in Seq({q[n] : n \in DOMAIN q} \cup {record.attempt})
              BY <5>2, <7>1
            <7>3. Len(q) = Cardinality(mine)
              BY <5>2, <7>2
            <7> QED BY <5>2, <6>1, <7>2, <7>3, AppendFacts
          <6> QED BY <5>2, <6>1, <6>2
        <5> QED BY <1>7, <3>2, <3>3, <4>1, <5>1, <5>3
      <4>2. CASE ~IsDispatch(record)
        BY <1>7, <3>2, <3>3, <4>2
      <4> QED BY <4>1, <4>2
    <3> QED BY <3>1, <3>4 DEF IdentifiersInOrder, MachinesInv
  <2>4. Keyed'
    BY <1>3, <1>11 DEF MachinesInv, Keyed
  <2> QED BY <2>1, <2>2, <2>3, <2>4 DEF MachinesInv
<1>9. Machine(i)!Transition(call)
  <2>1. /\ RowsOf(i) = rows /\ RowsOf(i)' = Append(rows, row)
        /\ AttemptRowsOf(i) = mine /\ AttemptRowsOf(i)' = AttemptsOf(a)'
        /\ StateOf(i) = operations[a].state /\ StateOf(i)' = record.resulting
    BY <1>1, <1>3, <1>11 DEF RowsOf, AttemptRowsOf, StateOf, Registered
  <2>2. Machine(i)!Used = ReplayedAttempts(a)
    BY <1>1, <1>11, <2>1 DEF Machine!Used, MachinesInv, IdentifiersInOrder
  <2>3. Machine(i)!RecordOf(StateOf(i), Machine(i)!Used, i, call) = record
    <3>1. record = RecordOf(StateOf(i), Machine(i)!Used, i, call)
      BY <1>1, <1>11, <2>1, <2>2 DEF RecordInLedger
    <3> QED BY <3>1, SameRules
  <2>4. Len(HistoryOf(i)) < MaxEvents
    <3>1. Len(HistoryOf(i)) = Len(rows)
      BY <1>1, <2>1 DEF HistoryOf
    <3>2. Len(rows) <= Len(events)
      BY <1>1 DEF MachinesInv, RowsCounted
    <3> QED BY <1>1, <1>3, <3>1, <3>2, BoundsAssumption
  <2>5. HistoryOf(i)' = Append(HistoryOf(i), record)
    <3>1. /\ DOMAIN rows = 1..Len(rows) /\ DOMAIN Append(rows, row) = 1..(Len(rows) + 1)
          /\ \A n \in 1..Len(rows) : Append(rows, row)[n] = rows[n]
          /\ Append(rows, row)[Len(rows) + 1] = row
      BY <1>1, <1>2, AppendFacts
    <3>2. HistoryOf(i)' = [n \in 1..(Len(rows) + 1) |-> Append(rows, row)[n].record]
      BY <2>1, <3>1 DEF HistoryOf
    <3>3. HistoryOf(i) = [n \in 1..Len(rows) |-> rows[n].record]
      BY <2>1, <3>1 DEF HistoryOf
    <3>4. Append(HistoryOf(i), record) =
            [n \in 1..(Len(rows) + 1) |-> IF n = Len(rows) + 1 THEN record ELSE rows[n].record]
      BY <1>1, <3>3
    <3> QED BY <1>1, <1>2, <3>1, <3>2, <3>4
  <2>6. Ordered(AttemptRowsOf(i))' = IF IsDispatch(record)
                                     THEN Append(Ordered(AttemptRowsOf(i)), record.attempt)
                                     ELSE Ordered(AttemptRowsOf(i))
    BY <1>7, <2>1
  <2> HIDE DEF IsDispatch
  <2> QED BY <2>1, <2>3, <2>4, <2>5, <2>6, SameRules DEF Machine!Transition
<1>10. ASSUME NEW j \in Identities, j # i PROVE UNCHANGED Machine(j)!vars
  <2>1. /\ RowsOf(j)' = RowsOf(j) /\ AttemptRowsOf(j)' = AttemptRowsOf(j)
        /\ StateOf(j)' = StateOf(j)
    <3>1. j.action_id \in ActionIds
      BY DEF Identities
    <3>2. CASE j.action_id = a
      BY <1>3, <1>10, <1>11, <3>2 DEF RowsOf, AttemptRowsOf, StateOf, Registered
    <3>3. CASE j.action_id # a
      BY <1>3, <1>6, <3>1, <3>3 DEF RowsOf, AttemptRowsOf, StateOf, Registered
    <3> QED BY <3>2, <3>3
  <2> QED BY <2>1, MachineRests
<1> QED BY <1>8, <1>9, <1>10 DEF EveryMachineSteps, Machine!Next

\* Registering an action starts its machine, which rested in its first state before.
LEMMA RegisteredMachineRests ==
  ASSUME TypeOK, ReopenInv, MachinesInv, NEW h \in Handles, NEW tick \in Ticks,
         NEW identity \in Identities, RegisterOperation(h, identity, tick),
         Len(events') \in Nat, Len(events') >= Len(events)
  PROVE  MachinesInv' /\ EveryMachineSteps
<1>1. PICK a : a = identity.action_id /\ a \in ActionIds
  BY DEF Identities
<1>2. /\ a \notin DOMAIN operations /\ DOMAIN operations' = DOMAIN operations \cup {a}
      /\ operations'[a].identity = identity /\ operations'[a].state = "PROPOSED"
      /\ \A b \in DOMAIN operations : operations'[b] = operations[b]
      /\ transitions' = transitions /\ attempts' = attempts
  BY <1>1 DEF RegisterOperation
<1>3. \A b : AttemptsOf(b)' = AttemptsOf(b) /\ ReplayedAttempts(b)' = ReplayedAttempts(b)
  BY <1>2 DEF AttemptsOf, ReplayedAttempts
<1>4. transitions[a] = <<>> /\ AttemptsOf(a) = {}
  BY <1>1, <1>2 DEF ReopenInv, RowsOwned, AttemptsOf
<1>5. \A b \in ActionIds : Len(transitions[b]) \in Nat /\ Len(events) \in Nat
  BY DEF TypeOK
<1>6. MachinesInv'
  <2>1. Keyed'
    BY <1>1, <1>2 DEF MachinesInv, Keyed
  <2> QED BY <1>2, <1>3, <1>5, <2>1
          DEF MachinesInv, OrdinalsInOrder, IdentifiersInOrder, RowsCounted
<1>7. ASSUME NEW i PROVE UNCHANGED Machine(i)!vars
  <2>1. CASE i.action_id = a
    <3>1. RowsOf(i) = <<>> /\ RowsOf(i)' = <<>>
      BY <1>2, <1>4, <2>1 DEF RowsOf, Registered
    <3>2. AttemptRowsOf(i) = {} /\ AttemptRowsOf(i)' = {}
      BY <1>2, <1>3, <1>4, <2>1 DEF AttemptRowsOf, Registered
    <3>3. StateOf(i) = "PROPOSED" /\ StateOf(i)' = "PROPOSED"
      BY <1>2, <2>1 DEF StateOf, Registered
    <3> QED BY <3>1, <3>2, <3>3, MachineRests
  <2>2. CASE i.action_id # a
    <3>1. /\ RowsOf(i)' = RowsOf(i) /\ AttemptRowsOf(i)' = AttemptRowsOf(i)
          /\ StateOf(i)' = StateOf(i)
      BY <1>2, <1>3, <2>2 DEF RowsOf, AttemptRowsOf, StateOf, Registered
    <3> QED BY <3>1, MachineRests
  <2> QED BY <2>1, <2>2
<1> QED BY <1>6, <1>7 DEF EveryMachineSteps

\* The calls of transition() and record_dispatch().
LEMMA RecordedCallIsMachineStep ==
  ASSUME TypeOK, ReopenInv, MachinesInv, NEW h \in Handles, NEW a \in ActionIds, Callable(h, a),
         NEW call \in LedgerCalls, call \in Calls, NEW tick \in Ticks,
         LetOut(h, a, call, tick) \/ RecordOnly(a, call, tick) \/ ForbiddenButLate(a, call, tick)
  PROVE  MachinesInv' /\ EveryMachineSteps
<1>1. PICK record : record = RecordInLedger(a, call)
  OBVIOUS
<1>2. a \in DOMAIN operations /\ operations[a].state # "VIOLATION" /\ Loads(a)
  BY DEF Callable
<1>3. CASE ForbiddenButLate(a, call, tick)
  <2>1. Len(events) \in Nat
    BY DEF TypeOK
  <2> QED BY <1>3, <2>1, MachinesRest DEF ForbiddenButLate, tables
<1>4. ASSUME NEW before,
             PersistTransition(a, before, record, call, tick),
             IF IsDispatch(record)
             THEN before = <<Event(tick, "ATTEMPT_DISPATCHED", operations[a].identity,
                                   call.attempt, None)>>
             ELSE before = <<>>,
             AttemptAdded(a, call, record)
      PROVE  MachinesInv' /\ EveryMachineSteps
  <2>1. PICK row, w : Added(a, call, tick, record, row, w)
    BY <1>1, <1>2, <1>4, CallAdds
  <2>2. Len(events') <= MaxEvents
    <3>1. PICK rows : /\ rows = before \o TransitionEvents(operations[a].identity, record,
                                                         call.evidence.flags, tick)
                      /\ events' = events \o rows /\ Len(events) + Len(rows) <= MaxEvents
      BY <1>4 DEF PersistTransition, AppendRows
    <3>2. /\ operations[a].identity \in Identities /\ record \in Records
          /\ call.evidence.flags \in SUBSET Flags
          /\ IsDispatch(record) => call.attempt \in AttemptIds \cup {NoAttempt}
      BY <1>1, <1>2, <2>1, LedgerRecordTyped
      DEF TypeOK, OperationRows, Calls, Evidence, Added, Records
    <3>3. before \in Seq(EventRows)
      <4>1. CASE IsDispatch(record)
        BY <1>4, <3>2, <4>1, EventTyped DEF Kinds, ManagedKinds
      <4>2. CASE ~IsDispatch(record)
        BY <1>4, <4>2
      <4> QED BY <4>1, <4>2
    <3>4. events \in Seq(EventRows) /\ rows \in Seq(EventRows)
      BY <3>1, <3>2, <3>3, TransitionEventsTyped, AppendIsPrefix DEF TypeOK
    <3> QED BY <3>1, <3>4
  <2> QED BY <1>1, <1>2, <1>4, <2>1, <2>2, CalledMachineSteps
<1>5. CASE LetOut(h, a, call, tick)
  BY <1>1, <1>4, <1>5 DEF LetOut, AttemptAdded
<1>6. CASE RecordOnly(a, call, tick)
  <2>1. /\ ~IsDispatch(record) /\ PersistTransition(a, <<>>, record, call, tick)
        /\ attempts' = attempts
    BY <1>1, <1>6 DEF RecordOnly
  <2> QED BY <1>4, <2>1 DEF AttemptAdded
<1> QED BY <1>3, <1>5, <1>6

\* Every step of the ledger is a step or a stutter of every machine.
LEMMA MachinesStep ==
  ASSUME TypeOK, TypeOK', ReopenInv, MachinesInv, [Next]_vars
  PROVE  MachinesInv' /\ EveryMachineSteps
<1>1. /\ Len(events) \in Nat /\ Len(events') \in Nat /\ Len(events') >= Len(events)
  <2>1. IsPrefix(events, events') /\ events \in Seq(EventRows) /\ events' \in Seq(EventRows)
    BY NextGrows DEF Grown, TypeOK
  <2> QED BY <2>1, PrefixMeans
<1>2. ASSUME UNCHANGED tables PROVE MachinesInv' /\ EveryMachineSteps
  BY <1>1, <1>2, MachinesRest DEF tables
<1>3. CASE UNCHANGED vars
  BY <1>2, <1>3 DEF vars, tables
<1>4. ASSUME NEW h \in Handles, ReturnPermit(h) \/ CloseOrCrash(h) \/ Reopen(h)
      PROVE  MachinesInv' /\ EveryMachineSteps
  BY <1>2, <1>4 DEF ReturnPermit, CloseOrCrash, Reopen
<1>5. ASSUME NEW h \in Handles, NEW tick \in Ticks, AppendEvent(h, Len(events) + 1, tick)
      PROVE  MachinesInv' /\ EveryMachineSteps
  BY <1>1, <1>5, MachinesRest DEF AppendEvent
<1>6. ASSUME NEW h \in Handles, NEW tick \in Ticks, NEW a \in ActionIds,
             NEW request \in Requests, NEW identity \in Identities,
             TransitionCall(h, a, request, identity, tick)
      PROVE  MachinesInv' /\ EveryMachineSteps
  <2>1. PICK call :
          /\ call = [target |-> request.target, evidence |-> request.evidence,
                     identity |-> identity, attempt |-> NoAttempt]
          /\ RecordOnly(a, call, tick) \/ ForbiddenButLate(a, call, tick)
    BY <1>6 DEF TransitionCall
  <2>2. call \in Calls /\ Callable(h, a) /\ call \in LedgerCalls
    BY <1>6, <2>1, RequestsAssumption
    DEF TransitionCall, Calls, CallAttempts, LedgerCalls
  <2> QED BY <2>1, <2>2, RecordedCallIsMachineStep
<1>7. ASSUME NEW h \in Handles, NEW tick \in Ticks, NEW a \in ActionIds,
             NEW request \in Requests, NEW identity \in Identities, NEW id \in AttemptIds,
             RecordDispatch(h, a, id, request.evidence, identity, tick)
      PROVE  MachinesInv' /\ EveryMachineSteps
  <2>1. PICK call :
          /\ call = [target |-> "IN_FLIGHT", evidence |-> request.evidence,
                     identity |-> identity, attempt |-> id]
          /\ \/ LetOut(h, a, call, tick)
             \/ RecordOnly(a, call, tick)
             \/ ForbiddenButLate(a, call, tick)
    BY <1>7 DEF RecordDispatch
  <2>2. call \in Calls /\ Callable(h, a) /\ call \in LedgerCalls
    BY <1>7, <2>1, RequestsAssumption
    DEF RecordDispatch, Calls, CallAttempts, States, LedgerCalls
  <2> QED BY <2>1, <2>2, RecordedCallIsMachineStep
<1> QED
  BY <1>1, <1>3, <1>4, <1>5, <1>6, <1>7, RegisteredMachineRests DEF Next

\* At first every machine is in its first state.
LEMMA MachinesStart == NothingWritten => MachinesInv /\ EveryMachineStarts
<1> SUFFICES ASSUME NothingWritten PROVE MachinesInv /\ EveryMachineStarts
  OBVIOUS
<1>1. /\ events = <<>> /\ DOMAIN operations = {} /\ attempts = {}
      /\ \A a \in ActionIds : transitions[a] = <<>>
  BY DEF NothingWritten
<1>2. Ordered({}) = <<>>
  BY FS_EmptySet DEF Ordered
<1>3. ASSUME NEW a \in ActionIds PROVE AttemptsOf(a) = {} /\ ReplayedAttempts(a) = {}
  <2>1. DispatchRows(transitions[a]) = {}
    BY <1>1 DEF DispatchRows
  <2> QED BY <1>1, <2>1 DEF AttemptsOf, ReplayedAttempts, UsedBefore
<1>4. MachinesInv
  <2>1. IdentifiersInOrder
    <3>1. ASSUME NEW a \in ActionIds
          PROVE  {Ordered(AttemptsOf(a))[n] : n \in DOMAIN Ordered(AttemptsOf(a))}
                   = ReplayedAttempts(a)
      <4>1. Ordered(AttemptsOf(a)) = <<>> /\ ReplayedAttempts(a) = {}
        BY <1>2, <1>3
      <4> DEFINE none == Ordered(AttemptsOf(a))
      <4>2. DOMAIN none = {}
        BY <4>1
      <4> HIDE DEF none
      <4>3. {none[n] : n \in DOMAIN none} = {}
        BY <4>2
      <4> QED BY <4>1, <4>3 DEF none
    <3> QED BY <3>1 DEF IdentifiersInOrder
  <2>2. RowsCounted
    <3>1. Len(<<>>) <= Len(<<>>)
      OBVIOUS
    <3>2. ASSUME NEW a \in ActionIds PROVE transitions[a] = <<>> /\ events = <<>>
      BY <1>1
    <3> QED BY <3>1, <3>2 DEF RowsCounted
  <2>3. OrdinalsInOrder /\ Keyed
    BY <1>1 DEF OrdinalsInOrder, Keyed
  <2> QED BY <2>1, <2>2, <2>3 DEF MachinesInv
<1>5. ASSUME NEW i \in Identities PROVE Machine(i)!Init
  <2>1. RowsOf(i) = <<>> /\ AttemptRowsOf(i) = {} /\ StateOf(i) = "PROPOSED"
    BY <1>1 DEF RowsOf, AttemptRowsOf, StateOf, Registered
  <2>2. HistoryOf(i) = <<>>
    BY <2>1 DEF HistoryOf
  <2> QED BY <1>2, <2>1, <2>2, SameRules DEF Machine!Init
<1> QED BY <1>4, <1>5 DEF EveryMachineStarts

\* The tables implement the machine, for every identity at once: whatever the handles, the
\* crashes and the ticks, what they say of an action is what one OperationStateMachine
\* kept in memory would say.
THEOREM MachinesImplemented == Spec => ImplementsMachines
<1>1. Init => NothingWritten
  BY DEF Init, NothingWritten
<1>2. TypeOK /\ TypeOK' /\ ReopenInv /\ MachinesInv /\ [Next]_vars
        => MachinesInv' /\ EveryMachineSteps
  BY MachinesStep
<1> QED
  BY <1>1, <1>2, MachinesStart, EmptyIsValid, ReopenStep, TypeCorrect, PTL
  DEF Spec, ImplementsMachines

\* The same, one identity at a time: its rows are a behaviour of a machine.
THEOREM EachMachineImplemented == ASSUME NEW i \in Identities PROVE Spec => Machine(i)!Spec
<1>1. EveryMachineStarts => Machine(i)!Init
  BY DEF EveryMachineStarts
<1>2. UNCHANGED vars => UNCHANGED Machine(i)!vars
  <2> SUFFICES ASSUME UNCHANGED vars PROVE UNCHANGED Machine(i)!vars
    OBVIOUS
  <2>1. /\ RowsOf(i)' = RowsOf(i) /\ AttemptRowsOf(i)' = AttemptRowsOf(i)
        /\ StateOf(i)' = StateOf(i)
    BY DEF vars, RowsOf, AttemptRowsOf, AttemptsOf, StateOf, Registered
  <2> QED BY <2>1, MachineRests
<1>3. [EveryMachineSteps]_vars => [Machine(i)!Next]_(Machine(i)!vars)
  BY <1>2 DEF EveryMachineSteps
<1> QED BY <1>1, <1>3, MachinesImplemented, PTL DEF Machine!Spec, ImplementsMachines
=============================================================================
