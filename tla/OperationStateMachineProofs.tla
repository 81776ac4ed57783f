--------------------- MODULE OperationStateMachineProofs ---------------------
(***************************************************************************)
(* Proofs about the operation state machine, for every set of identities,  *)
(* attempt identifiers and calls and every bound on the history.           *)
(***************************************************************************)
EXTENDS OperationStateMachine, TransitionRulesProofs

USE DEF IsDispatch

-----------------------------------------------------------------------------
\* Every reachable state of the machine is well typed: whatever the calls, the state,
\* the attempt identifiers and the history hold only values of their types.
THEOREM TypeCorrect == Spec => []TypeOK
<1>1. Init => TypeOK
  BY DEF Init, TypeOK, States
<1>2. TypeOK /\ [Next]_vars => TypeOK'
  <2> SUFFICES ASSUME TypeOK, [Next]_vars PROVE TypeOK' OBVIOUS
  <2>1. ASSUME NEW call \in CallsMade, Transition(call) PROVE TypeOK'
    <3> DEFINE r == RecordOf(state, Used, identity, call)
    <3>1. call \in Calls /\ state \in States
      BY CallsAssumption DEF TypeOK
    <3>2. r \in Records
      BY <3>1, RecordShape
    <3>3. IsDispatch(r) => r.attempt \in AttemptIds
      BY <3>1, DispatchIsFresh
    <3> HIDE DEF r
    <3> QED BY <2>1, <3>2, <3>3 DEF Transition, TypeOK, Records, r
  <2>2. CASE UNCHANGED vars
    BY <2>2 DEF vars, TypeOK
  <2> QED BY <2>1, <2>2 DEF Next, TerminalCall
<1> QED BY <1>1, <1>2, PTL DEF Spec

\* What every property proof uses of a call: the record it appends and how the state
\* and the attempt identifiers follow from it.
LEMMA TransitionEffect ==
  ASSUME TypeOK, NEW call \in CallsMade, Transition(call)
  PROVE  \E r \in Records :
           /\ history' = Append(history, r)
           /\ state' = r.resulting
           /\ identity' = identity
           /\ r.source = state
           /\ state # "VIOLATION"
           /\ \/ r.resulting = "VIOLATION"
              \/ Edge(state, r.resulting, r.cause) \in NORMATIVE_TRANSITIONS
           /\ IF IsDispatch(r)
              THEN /\ attempt_ids' = Append(attempt_ids, r.attempt)
                   /\ r.attempt \in AttemptIds \ Used
                   /\ state \in {"PREPARED", "RETRYABLE"}
              ELSE attempt_ids' = attempt_ids
<1> DEFINE r == RecordOf(state, Used, identity, call)
<1>1. call \in Calls /\ state \in States
  BY CallsAssumption DEF TypeOK
<1>2. /\ r \in Records /\ r.source = state
      /\ \/ r.resulting = "VIOLATION"
         \/ Edge(state, r.resulting, r.cause) \in NORMATIVE_TRANSITIONS
  BY <1>1, RecordShape
<1>3. IsDispatch(r) => r.attempt \in AttemptIds \ Used /\ state \in {"PREPARED", "RETRYABLE"}
  BY <1>1, DispatchIsFresh
<1>4. /\ history' = Append(history, r) /\ state' = r.resulting /\ identity' = identity
      /\ state # "VIOLATION"
      /\ attempt_ids' = IF IsDispatch(r) THEN Append(attempt_ids, r.attempt) ELSE attempt_ids
  BY DEF Transition
<1> HIDE DEF r
<1> QED BY <1>2, <1>3, <1>4

\* The history of every reachable machine accounts for its state.
THEOREM HistoryCorrect == Spec => []HistoryExplainsState
<1>1. Init => HistoryExplainsState
  BY DEF Init, HistoryExplainsState
<1>2. TypeOK /\ HistoryExplainsState /\ [Next]_vars => HistoryExplainsState'
  <2> SUFFICES ASSUME TypeOK, HistoryExplainsState, [Next]_vars
               PROVE  HistoryExplainsState'
    OBVIOUS
  <2>1. ASSUME NEW call \in CallsMade, Transition(call) PROVE HistoryExplainsState'
    <3>1. PICK r \in Records :
            /\ history' = Append(history, r) /\ state' = r.resulting
            /\ r.source = state /\ state # "VIOLATION"
      BY <2>1, TransitionEffect
    <3>2. history \in Seq(Records)
      BY DEF TypeOK
    <3>3. history' # <<>> /\ state' = history'[Len(history')].resulting
      BY <3>1, <3>2, AppendFacts
    <3>4. ASSUME NEW i \in DOMAIN history'
          PROVE  /\ history'[i].source =
                      IF i = 1 THEN "PROPOSED" ELSE history'[i - 1].resulting
                 /\ history'[i].source # "VIOLATION"
      <4>1. CASE i \in DOMAIN history
        BY <4>1, <3>1, <3>2, AppendFacts DEF HistoryExplainsState
      <4>2. CASE i = Len(history) + 1
        BY <4>2, <3>1, <3>2, AppendFacts DEF HistoryExplainsState
      <4> QED BY <4>1, <4>2, <3>1, <3>2, AppendFacts
    <3> QED BY <3>3, <3>4 DEF HistoryExplainsState
  <2>2. CASE UNCHANGED vars
    BY <2>2 DEF vars, HistoryExplainsState
  <2> QED BY <2>1, <2>2 DEF Next, TerminalCall
<1> QED BY <1>1, <1>2, TypeCorrect, PTL DEF Spec

\* A finished action is never revived.
THEOREM FinishedCorrect == Spec => FinishedStaysFinished
<1>1. TypeOK /\ [Next]_vars =>
        [ /\ state = "VIOLATION" => UNCHANGED vars
          /\ state \in {"COMPLETE", "SAFE_STOP"} => state' \in {state, "VIOLATION"} ]_vars
  <2> SUFFICES ASSUME TypeOK, NEW call \in CallsMade, Transition(call)
               PROVE  /\ state # "VIOLATION"
                      /\ state \in {"COMPLETE", "SAFE_STOP"} => state' = "VIOLATION"
    BY DEF Next, TerminalCall
  <2>1. PICK r \in Records :
          /\ state' = r.resulting /\ state # "VIOLATION"
          /\ \/ r.resulting = "VIOLATION"
             \/ Edge(state, r.resulting, r.cause) \in NORMATIVE_TRANSITIONS
    BY TransitionEffect
  <2> QED BY <2>1 DEF NORMATIVE_TRANSITIONS, Graph, Edge
<1> QED BY <1>1, TypeCorrect, PTL DEF Spec, FinishedStaysFinished

-----------------------------------------------------------------------------
\* The attempt identifiers of every reachable machine are those of its dispatch
\* records, in order and without repetition.
THEOREM AttemptsCorrect == Spec => []AttemptsAreDispatches
<1> DEFINE D(h) == {n \in DOMAIN h : IsDispatch(h[n])}
<1>1. Init => AttemptsAreDispatches
  BY DEF Init, AttemptsAreDispatches, Used
<1>2. TypeOK /\ AttemptsAreDispatches /\ [Next]_vars => AttemptsAreDispatches'
  <2> SUFFICES ASSUME TypeOK, AttemptsAreDispatches, [Next]_vars
               PROVE  AttemptsAreDispatches'
    OBVIOUS
  <2>1. ASSUME NEW call \in CallsMade, Transition(call) PROVE AttemptsAreDispatches'
    <3>1. PICK r \in Records :
            /\ history' = Append(history, r)
            /\ IF IsDispatch(r)
               THEN attempt_ids' = Append(attempt_ids, r.attempt) /\ r.attempt \in AttemptIds \ Used
               ELSE attempt_ids' = attempt_ids
      BY <2>1, TransitionEffect
    <3>2. history \in Seq(Records) /\ attempt_ids \in Seq(AttemptIds)
      BY DEF TypeOK
    <3>3. /\ DOMAIN history' = DOMAIN history \cup {Len(history) + 1}
          /\ DOMAIN history = 1..Len(history) /\ Len(history) \in Nat
          /\ \A n \in DOMAIN history : history'[n] = history[n]
          /\ history'[Len(history) + 1] = r
      BY <3>1, <3>2, AppendFacts
    <3>4. /\ Used = {history[n].attempt : n \in D(history)}
          /\ \A m, n \in D(history) : m < n =>
               \E i, j \in DOMAIN attempt_ids :
                 i < j /\ attempt_ids[i] = history[m].attempt
                       /\ attempt_ids[j] = history[n].attempt
          /\ \A i, j \in DOMAIN attempt_ids : attempt_ids[i] = attempt_ids[j] => i = j
      BY DEF AttemptsAreDispatches
    <3>5. CASE ~IsDispatch(r)
      <4>1. D(history') = D(history) /\ attempt_ids' = attempt_ids
        BY <3>1, <3>3, <3>5
      <4>2. \A n \in D(history) : history'[n] = history[n]
        BY <3>3
      <4>3. Used' = Used
        BY <4>1 DEF Used
      <4> HIDE DEF D
      <4>4. /\ \A m, n \in D(history') : m < n =>
                 \E i, j \in DOMAIN attempt_ids' :
                   i < j /\ attempt_ids'[i] = history'[m].attempt
                         /\ attempt_ids'[j] = history'[n].attempt
            /\ Used' = {history'[n].attempt : n \in D(history')}
        BY <3>4, <4>1, <4>2, <4>3
      <4> QED BY <3>4, <4>1, <4>4 DEF D, AttemptsAreDispatches
    <3>6. CASE IsDispatch(r)
      <4> DEFINE last == Len(history) + 1
                 end  == Len(attempt_ids) + 1
      <4>1. /\ DOMAIN attempt_ids' = DOMAIN attempt_ids \cup {end}
            /\ DOMAIN attempt_ids = 1..Len(attempt_ids) /\ Len(attempt_ids) \in Nat
            /\ \A n \in DOMAIN attempt_ids : attempt_ids'[n] = attempt_ids[n]
            /\ attempt_ids'[end] = r.attempt
        BY <3>1, <3>2, <3>6, AppendFacts, SMTT(30)
      <4>2. D(history') = D(history) \cup {last}
        BY <3>3, <3>6
      <4>3. \A n \in D(history) : history'[n] = history[n] /\ n < last
        BY <3>3
      <4>4. Used' = Used \cup {r.attempt}
        BY <4>1 DEF Used
      <4>5. Used' = {history'[n].attempt : n \in D(history')}
        BY <3>3, <3>4, <4>2, <4>3, <4>4
      <4>6. ASSUME NEW m \in D(history'), NEW n \in D(history'), m < n
            PROVE  \E i, j \in DOMAIN attempt_ids' :
                     i < j /\ attempt_ids'[i] = history'[m].attempt
                           /\ attempt_ids'[j] = history'[n].attempt
        <5>1. m \in D(history) /\ history'[m] = history[m]
          BY <4>2, <4>3, <4>6, <3>3
        <5>2. CASE n \in D(history)
          BY <5>1, <5>2, <3>4, <4>1, <4>3, <4>6
        <5>3. CASE n = last
          <6>1. PICK i \in DOMAIN attempt_ids : attempt_ids[i] = history[m].attempt
            BY <5>1, <3>4 DEF Used
          <6> QED BY <6>1, <5>1, <5>3, <4>1, <3>3
        <5> QED BY <5>2, <5>3, <4>2
      <4>7. \A i, j \in DOMAIN attempt_ids' : attempt_ids'[i] = attempt_ids'[j] => i = j
        BY <3>1, <3>4, <3>6, <4>1 DEF Used
      <4> QED BY <4>5, <4>6, <4>7 DEF AttemptsAreDispatches
    <3> QED BY <3>5, <3>6
  <2>2. CASE UNCHANGED vars
    BY <2>2 DEF vars, AttemptsAreDispatches, Used
  <2> QED BY <2>1, <2>2 DEF Next, TerminalCall
<1> QED BY <1>1, <1>2, TypeCorrect, PTL DEF Spec

-----------------------------------------------------------------------------
\* The strengthening behind RetryNeedsNonCommitEvidence: what the records since a
\* dispatch say in each state the machine can be in.
SinceDispatch ==
  \A i \in DOMAIN history :
    IsDispatch(history[i]) =>
      LET since == Between(history, i, Len(history) + 1)
      IN  /\ state \notin {"PROPOSED", "AUTHORIZED", "PREPARED"}
          /\ state = "RETRYABLE" => \E r \in since : r.resulting = "RETRYABLE"
          /\ (\A r \in since : ~IsDispatch(r)) =>
               /\ state = "IN_FLIGHT" =>
                    \A r \in since : r.resulting \notin {"INDETERMINATE", "VERIFYING"}
               /\ state = "RETRYABLE"
                  /\ (\E r \in since : r.resulting \in {"INDETERMINATE", "VERIFYING"}) =>
                    \E r \in since : r.source = "RECONCILING" /\ r.cause = "conclusive_absence"

\* Appending a record adds it to the records since an earlier one and to no others.
LEMMA BetweenAppend ==
  ASSUME NEW h \in Seq(Records), NEW r \in Records, NEW i \in DOMAIN h
  PROVE  /\ Between(Append(h, r), i, Len(h) + 2) = Between(h, i, Len(h) + 1) \cup {r}
         /\ \A j \in 1..(Len(h) + 1) : Between(Append(h, r), i, j) = Between(h, i, j)
<1> DEFINE g == Append(h, r)
           N(q, j) == {n \in DOMAIN q : i < n /\ n < j}
<1>1. /\ DOMAIN g = 1..(Len(h) + 1) /\ DOMAIN h = 1..Len(h) /\ Len(h) \in Nat
      /\ \A n \in DOMAIN h : g[n] = h[n]
      /\ g[Len(h) + 1] = r
  BY AppendFacts
<1>2. N(g, Len(h) + 2) = N(h, Len(h) + 1) \cup {Len(h) + 1}
  BY <1>1
<1>3. \A j \in 1..(Len(h) + 1) : N(g, j) = N(h, j)
  BY <1>1
<1>4. N(h, Len(h) + 1) \subseteq DOMAIN h
  OBVIOUS
<1>5. Between(g, i, Len(h) + 2) = Between(h, i, Len(h) + 1) \cup {r}
  <2>1. Between(g, i, Len(h) + 2) = {g[k] : k \in N(h, Len(h) + 1) \cup {Len(h) + 1}}
    BY <1>2 DEF Between
  <2>2. Between(h, i, Len(h) + 1) = {h[k] : k \in N(h, Len(h) + 1)}
    BY DEF Between
  <2>3. \A k \in N(h, Len(h) + 1) : g[k] = h[k]
    BY <1>1
  <2> HIDE DEF g, N
  <2> QED BY <2>1, <2>2, <2>3, <1>1
<1>6. ASSUME NEW j \in 1..(Len(h) + 1) PROVE Between(g, i, j) = Between(h, i, j)
  <2>1. Between(g, i, j) = {g[k] : k \in N(h, j)} /\ Between(h, i, j) = {h[k] : k \in N(h, j)}
    BY <1>3 DEF Between
  <2>2. \A k \in N(h, j) : g[k] = h[k]
    BY <1>1
  <2> HIDE DEF g, N
  <2> QED BY <2>1, <2>2
<1> QED BY <1>5, <1>6

\* What the records since a dispatch say follows from the graph, call by call.
LEMMA SinceDispatchStep ==
  ASSUME TypeOK, SinceDispatch, NEW call \in CallsMade, Transition(call)
  PROVE  SinceDispatch'
<1>1. PICK r \in Records :
        /\ history' = Append(history, r) /\ state' = r.resulting
        /\ r.source = state /\ state # "VIOLATION"
        /\ \/ r.resulting = "VIOLATION"
           \/ Edge(state, r.resulting, r.cause) \in NORMATIVE_TRANSITIONS
  BY TransitionEffect
<1>2. /\ history \in Seq(Records) /\ Len(history) \in Nat
      /\ DOMAIN history' = DOMAIN history \cup {Len(history) + 1}
      /\ DOMAIN history = 1..Len(history)
      /\ \A n \in DOMAIN history : history'[n] = history[n]
      /\ history'[Len(history) + 1] = r
      /\ Len(history') = Len(history) + 1
  BY <1>1, AppendFacts DEF TypeOK
<1> SUFFICES ASSUME NEW i \in DOMAIN history', IsDispatch(history'[i])
             PROVE  LET since == Between(history', i, Len(history') + 1)
      IN  /\ state' \notin {"PROPOSED", "AUTHORIZED", "PREPARED"}
          /\ state' = "RETRYABLE" => \E q \in since : q.resulting = "RETRYABLE"
          /\ (\A q \in since : ~IsDispatch(q)) =>
               /\ state' = "IN_FLIGHT" =>
                    \A q \in since : q.resulting \notin {"INDETERMINATE", "VERIFYING"}
               /\ state' = "RETRYABLE"
                  /\ (\E q \in since : q.resulting \in {"INDETERMINATE", "VERIFYING"}) =>
                    \E q \in since : q.source = "RECONCILING" /\ q.cause = "conclusive_absence"
  BY DEF SinceDispatch
<1>3. CASE i = Len(history) + 1
  <2>1. Between(history', i, Len(history') + 1) = {}
    BY <1>2, <1>3 DEF Between
  <2>2. state' = "IN_FLIGHT"
    BY <1>1, <1>2, <1>3
  <2> QED BY <2>1, <2>2
<1>4. CASE i \in DOMAIN history
  <2> DEFINE old == Between(history, i, Len(history) + 1)
             since == Between(history', i, Len(history') + 1)
  <2>1. since = old \cup {r}
    <3>1. Between(Append(history, r), i, Len(history) + 2) = old \cup {r}
      <4>1. history \in Seq(Records)
        BY <1>2
      <4> QED BY <4>1, <1>4, BetweenAppend
    <3>2. Len(history') + 1 = Len(history) + 2
      BY <1>2
    <3> QED BY <1>1, <3>1, <3>2
  <2>2. /\ state \notin {"PROPOSED", "AUTHORIZED", "PREPARED"}
        /\ (\A q \in old : ~IsDispatch(q)) /\ state = "IN_FLIGHT" =>
             \A q \in old : q.resulting \notin {"INDETERMINATE", "VERIFYING"}
    BY <1>2, <1>4 DEF SinceDispatch
  <2>3. CASE r.resulting = "VIOLATION"
    BY <2>3, <1>1
  <2>4. CASE Edge(state, r.resulting, r.cause) \in NORMATIVE_TRANSITIONS
    <3>1. state' \notin {"PROPOSED", "AUTHORIZED", "PREPARED"}
      BY <1>1, <2>2, <2>4 DEF NORMATIVE_TRANSITIONS, Graph, Edge
    <3>2. state' = "IN_FLIGHT" => IsDispatch(r) /\ r \in since
      BY <1>1, <2>1
    <3>3. state' = "RETRYABLE" =>
            \/ state = "IN_FLIGHT"
            \/ r.source = "RECONCILING" /\ r.cause = "conclusive_absence"
      BY <1>1, <2>4 DEF NORMATIVE_TRANSITIONS, Graph, Edge
    <3>4. r \in since /\ old \subseteq since /\ since \subseteq old \cup {r}
      BY <2>1
    <3> HIDE DEF old, since
    <3> QED BY <1>1, <2>2, <3>1, <3>2, <3>3, <3>4 DEF since
  <2> QED BY <1>1, <2>3, <2>4
<1> QED BY <1>2, <1>3, <1>4

\* A retry of any action follows conclusive evidence that the attempt before it had no
\* effect, and after an unknown outcome that evidence is a conclusive absence.
THEOREM RetryCorrect == Spec => []RetryNeedsNonCommitEvidence
<1> DEFINE IInv == SinceDispatch /\ RetryNeedsNonCommitEvidence
<1>1. Init => IInv
  BY DEF Init, SinceDispatch, RetryNeedsNonCommitEvidence
<1>2. TypeOK /\ IInv /\ [Next]_vars => IInv'
  <2> SUFFICES ASSUME TypeOK, SinceDispatch, RetryNeedsNonCommitEvidence, [Next]_vars
               PROVE  SinceDispatch' /\ RetryNeedsNonCommitEvidence'
    OBVIOUS
  <2>1. ASSUME NEW call \in CallsMade, Transition(call)
        PROVE  SinceDispatch' /\ RetryNeedsNonCommitEvidence'
    <3>1. PICK r \in Records :
            /\ history' = Append(history, r) /\ r.source = state
            /\ IsDispatch(r) => state \in {"PREPARED", "RETRYABLE"}
      BY <2>1, TransitionEffect
    <3>2. /\ history \in Seq(Records) /\ Len(history) \in Nat
          /\ DOMAIN history' = DOMAIN history \cup {Len(history) + 1}
          /\ DOMAIN history = 1..Len(history)
          /\ \A n \in DOMAIN history : history'[n] = history[n]
          /\ history'[Len(history) + 1] = r
      BY <3>1, AppendFacts DEF TypeOK
    <3>3. ASSUME NEW i \in DOMAIN history', NEW j \in DOMAIN history',
                 i < j, IsDispatch(history'[i]), IsDispatch(history'[j])
          PROVE  LET between == Between(history', i, j) IN
                 /\ \E q \in between : q.resulting = "RETRYABLE"
                 /\ (\E q \in between : q.resulting \in {"INDETERMINATE", "VERIFYING"})
                    /\ (\A q \in between : ~IsDispatch(q)) =>
                      \E q \in between : q.source = "RECONCILING" /\ q.cause = "conclusive_absence"
      <4>1. i \in DOMAIN history /\ j \in 1..(Len(history) + 1)
        BY <3>2, <3>3
      <4>2. Between(history', i, j) = Between(history, i, j)
        <5>1. \A k \in 1..(Len(history) + 1) :
                Between(Append(history, r), i, k) = Between(history, i, k)
          BY <3>1, <3>2, <4>1, BetweenAppend
        <5> QED BY ONLY <3>1, <4>1, <5>1
      <4>3. CASE j \in DOMAIN history
        BY <3>2, <3>3, <4>1, <4>2, <4>3 DEF RetryNeedsNonCommitEvidence
      <4>4. CASE j = Len(history) + 1
        <5>1. IsDispatch(history[i]) /\ state = "RETRYABLE"
          BY <3>1, <3>2, <3>3, <4>1, <4>4 DEF SinceDispatch
        <5> QED BY <4>1, <4>2, <4>4, <5>1 DEF SinceDispatch
      <4> QED BY <3>2, <4>3, <4>4
    <3>4. RetryNeedsNonCommitEvidence'
      BY <3>3 DEF RetryNeedsNonCommitEvidence
    <3> QED BY <2>1, <3>4, SinceDispatchStep
  <2>2. CASE UNCHANGED vars
    BY <2>2 DEF vars, SinceDispatch, RetryNeedsNonCommitEvidence
  <2> QED BY <2>1, <2>2 DEF Next, TerminalCall
<1> QED BY <1>1, <1>2, TypeCorrect, PTL DEF Spec

-----------------------------------------------------------------------------
\* What accounts for an attempt, among the records since its dispatch.
Accounts(r) == r.cause = "precommit_rejection" \/ r.source \in {"RECONCILING", "VERIFYING"}

\* The strengthening behind StopOnlyWhenAccountedFor: an action that was dispatched never
\* returns to the states before it, and is accounted for in RETRYABLE as well.
AccountedFor ==
  \A i \in DOMAIN history :
    IsDispatch(history[i]) =>
      /\ state \notin {"PROPOSED", "AUTHORIZED", "PREPARED"}
      /\ state \in {"RETRYABLE", "SAFE_STOP"} =>
           \E r \in Between(history, i, Len(history) + 1) : Accounts(r)

\* An action is stopped only when its attempts are accounted for, whatever the calls and
\* however many attempts there were.
THEOREM StopCorrect == Spec => []StopOnlyWhenAccountedFor
<1>1. Init => AccountedFor
  BY DEF Init, AccountedFor
<1>2. TypeOK /\ AccountedFor /\ [Next]_vars => AccountedFor'
  <2> SUFFICES ASSUME TypeOK, AccountedFor, [Next]_vars PROVE AccountedFor'
    OBVIOUS
  <2>1. ASSUME NEW call \in CallsMade, Transition(call) PROVE AccountedFor'
    <3>1. PICK r \in Records :
            /\ history' = Append(history, r) /\ state' = r.resulting
            /\ r.source = state
            /\ \/ r.resulting = "VIOLATION"
               \/ Edge(state, r.resulting, r.cause) \in NORMATIVE_TRANSITIONS
      BY <2>1, TransitionEffect
    <3>2. /\ history \in Seq(Records) /\ Len(history) \in Nat
          /\ DOMAIN history' = DOMAIN history \cup {Len(history) + 1}
          /\ DOMAIN history = 1..Len(history)
          /\ \A n \in DOMAIN history : history'[n] = history[n]
          /\ history'[Len(history) + 1] = r
          /\ Len(history') + 1 = Len(history) + 2
      BY <3>1, AppendFacts DEF TypeOK
    <3> SUFFICES ASSUME NEW i \in DOMAIN history', IsDispatch(history'[i])
                 PROVE  /\ state' \notin {"PROPOSED", "AUTHORIZED", "PREPARED"}
                        /\ state' \in {"RETRYABLE", "SAFE_STOP"} =>
                             \E q \in Between(history', i, Len(history') + 1) : Accounts(q)
      BY DEF AccountedFor
    <3>3. CASE i = Len(history) + 1
      BY <3>1, <3>2, <3>3
    <3>4. CASE i \in DOMAIN history
      <4> DEFINE old == Between(history, i, Len(history) + 1)
      <4>1. Between(history', i, Len(history') + 1) = old \cup {r}
        <5>1. Between(Append(history, r), i, Len(history) + 2) = old \cup {r}
          <6>1. history \in Seq(Records)
            BY <3>2
          <6> QED BY <6>1, <3>4, BetweenAppend
        <5> QED BY <3>1, <3>2, <5>1
      <4>2. /\ state \notin {"PROPOSED", "AUTHORIZED", "PREPARED"}
            /\ state \in {"RETRYABLE", "SAFE_STOP"} => \E q \in old : Accounts(q)
        BY <3>2, <3>4 DEF AccountedFor
      <4>3. state' \notin {"PROPOSED", "AUTHORIZED", "PREPARED"}
        BY <3>1, <4>2 DEF NORMATIVE_TRANSITIONS, Graph, Edge
      <4>4. state' \in {"RETRYABLE", "SAFE_STOP"} => state = "RETRYABLE" \/ Accounts(r)
        BY <3>1, <4>2 DEF NORMATIVE_TRANSITIONS, Graph, Edge, Accounts
      <4> HIDE DEF old
      <4> QED BY <4>1, <4>2, <4>3, <4>4
    <3> QED BY <3>2, <3>3, <3>4
  <2>2. CASE UNCHANGED vars
    BY <2>2 DEF vars, AccountedFor
  <2> QED BY <2>1, <2>2 DEF Next, TerminalCall
<1>3. AccountedFor => StopOnlyWhenAccountedFor
  BY DEF AccountedFor, StopOnlyWhenAccountedFor, Accounts
<1> QED BY <1>1, <1>2, <1>3, TypeCorrect, PTL DEF Spec

-----------------------------------------------------------------------------
\* Every machine implements the abstract lifecycle: a second attempt is let out only
\* when the first is known to have had no effect, and under a new identifier.
THEOREM LifecycleImplemented == Spec => ImplementsLifecycle
<1> DEFINE K(i, s) == [a \in ActionIds |-> IF a = i.action_id THEN KnowledgeOf(s) ELSE "unsent"]
           I(i, u) == [a \in ActionIds |-> IF a = i.action_id THEN u ELSE {}]
<1>1. Init => Lifecycle!Init
  BY DEF Init, Lifecycle!Init, KnowledgeOf, Used
<1>2. TypeOK /\ [Next]_vars => [Lifecycle!Next]_(Lifecycle!vars)
  <2> SUFFICES ASSUME TypeOK, [Next]_vars PROVE [Lifecycle!Next]_(Lifecycle!vars)
    OBVIOUS
  <2>1. CASE UNCHANGED vars
    BY <2>1 DEF vars, Lifecycle!vars, Used
  <2>2. ASSUME NEW call \in CallsMade, Transition(call)
        PROVE  [Lifecycle!Next]_(Lifecycle!vars)
    <3> DEFINE a == identity.action_id
    <3>1. PICK r \in Records :
            /\ state' = r.resulting /\ identity' = identity /\ state # "VIOLATION"
            /\ \/ r.resulting = "VIOLATION"
               \/ Edge(state, r.resulting, r.cause) \in NORMATIVE_TRANSITIONS
            /\ IF IsDispatch(r)
               THEN /\ attempt_ids' = Append(attempt_ids, r.attempt)
                    /\ r.attempt \in AttemptIds \ Used
                    /\ state \in {"PREPARED", "RETRYABLE"}
               ELSE attempt_ids' = attempt_ids
      BY <2>2, TransitionEffect
    <3>2. a \in ActionIds /\ identity' = identity
      BY <3>1 DEF TypeOK, Identities
    <3>3. K(identity', state') = [K(identity, state) EXCEPT ![a] = KnowledgeOf(state')]
      BY <3>2
    <3>4. state # "VIOLATION" => KnowledgeOf(state) # "violated"
      BY DEF KnowledgeOf, TypeOK, States
    <3>5. CASE IsDispatch(r)
      <4>1. Used' = Used \cup {r.attempt}
        <5>1. attempt_ids \in Seq(AttemptIds) /\ r.attempt \in AttemptIds
          BY <3>1, <3>5 DEF TypeOK
        <5> QED BY <5>1, <3>1, <3>5, AppendFacts DEF Used
      <4>2. I(identity', Used') = [I(identity, Used) EXCEPT ![a] = @ \cup {r.attempt}]
        BY <3>2, <4>1
      <4>3. \A b \in ActionIds : r.attempt \notin I(identity, Used)[b]
        BY <3>1, <3>5
      <4>4. KnowledgeOf(state) \in {"unsent", "absent"} /\ KnowledgeOf(state') = "maybe"
        BY <3>1, <3>5 DEF KnowledgeOf
      <4>5. r.attempt \in AttemptIds /\ K(identity, state)[a] = KnowledgeOf(state)
        BY <3>1, <3>2, <3>5
      <4> QED
        BY <3>2, <3>3, <4>2, <4>3, <4>4, <4>5
        DEF Lifecycle!Next, Lifecycle!Dispatch, Lifecycle!Become
    <3>6. CASE ~IsDispatch(r)
      <4>1. Used' = Used
        BY <3>1, <3>6 DEF Used
      <4>2. I(identity', Used') = I(identity, Used)
        BY <3>2, <4>1
      <4>3. CASE r.resulting = "VIOLATION"
        <5>1. KnowledgeOf(state') = "violated" /\ K(identity, state)[a] # "violated"
          BY <3>1, <3>2, <3>4, <4>3 DEF KnowledgeOf
        <5> QED
          BY <3>2, <3>3, <4>2, <5>1 DEF Lifecycle!Next, Lifecycle!Violate, Lifecycle!Become
      <4>4. CASE Edge(state, r.resulting, r.cause) \in NORMATIVE_TRANSITIONS
        <5>1. PICK k, l : k = KnowledgeOf(state) /\ l = KnowledgeOf(state')
          OBVIOUS
        <5>2. \/ k = l
              \/ (k = "maybe" /\ l \in {"found", "absent"}) \/ (k = "found" /\ l = "maybe")
              \/ k = "found" /\ l = "complete"
              \/ k \in {"unsent", "maybe", "found", "absent"} /\ l = "stopped"
              \/ l = "violated"
          BY <3>1, <3>6, <4>4, <5>1 DEF KnowledgeOf, NORMATIVE_TRANSITIONS, Graph, Edge
        <5>3. K(identity, state)[a] = k /\ k # "violated"
          BY <3>1, <3>2, <3>4, <5>1
        <5>4. K(identity', state') = [K(identity, state) EXCEPT ![a] = l]
          BY <3>3, <5>1
        <5>5. CASE k = l
          <6>1. K(identity', state') = K(identity, state)
            BY <3>2, <5>1, <5>5
          <6> QED BY <4>2, <6>1 DEF Lifecycle!vars
        <5>6. CASE (k = "maybe" /\ l \in {"found", "absent"}) \/ (k = "found" /\ l = "maybe")
          BY <3>2, <4>2, <5>3, <5>4, <5>6 DEF Lifecycle!Next, Lifecycle!Learn, Lifecycle!Become
        <5>7. CASE k = "found" /\ l = "complete"
          BY <3>2, <4>2, <5>3, <5>4, <5>7 DEF Lifecycle!Next, Lifecycle!Complete, Lifecycle!Become
        <5>8. CASE k \in {"unsent", "maybe", "found", "absent"} /\ l = "stopped"
          BY <3>2, <4>2, <5>3, <5>4, <5>8
          DEF Lifecycle!Next, Lifecycle!Stop, Lifecycle!Become, Lifecycle!Live
        <5>9. CASE l = "violated"
          BY <3>2, <4>2, <5>3, <5>4, <5>9 DEF Lifecycle!Next, Lifecycle!Violate, Lifecycle!Become
        <5> QED BY <5>2, <5>5, <5>6, <5>7, <5>8, <5>9
      <4> QED BY <3>1, <4>3, <4>4
    <3> QED BY <3>5, <3>6
  <2> QED BY <2>1, <2>2 DEF Next, TerminalCall
<1> QED BY <1>1, <1>2, TypeCorrect, PTL DEF Spec, ImplementsLifecycle, Lifecycle!Spec
=============================================================================
