------------------------- MODULE EffectRecoveryProofs -------------------------
(***************************************************************************)
(* Proofs about a machine and the service behind it, for every set of      *)
(* attempt identifiers and calls: honest evidence and the guards of the    *)
(* graph together keep a second effect from ever happening.                *)
(***************************************************************************)
EXTENDS EffectRecovery, OperationStateMachineProofs

-----------------------------------------------------------------------------
\* A call that does not end in VIOLATION moved along an edge of the graph with the cause
\* and the flags that the edge asks for.
LEMMA EvidenceTaken ==
  ASSUME NEW s \in States, NEW used, NEW i, NEW call \in Calls,
         RecordOf(s, used, i, call).resulting # "VIOLATION"
  PROVE  /\ RecordOf(s, used, i, call).resulting = call.target
         /\ Edge(s, call.target, call.evidence.cause) \in NORMATIVE_TRANSITIONS
         /\ RequiredFlags(s, call.target) \subseteq call.evidence.flags
<1> DEFINE reason == ViolationReason(s, used, i, call)
<1>1. reason = NoReason
  BY DEF RecordOf
<1>2. EdgeFault(s, call) = NoReason
  BY <1>1 DEF ViolationReason, NoReason, Reported
<1>3. RequiredFlags(s, call.target) \subseteq call.evidence.flags
  BY <1>2 DEF EdgeFault, NoReason
<1>4. RecordOf(s, used, i, call).resulting = call.target
  BY <1>1 DEF RecordOf
<1> QED BY <1>2, <1>3, <1>4, EdgeTaken

\* Every behaviour with a service is a behaviour of the machine alone, so that what is
\* proved of the machine holds here too.
THEOREM RecoveryIsMachine == RecoverySpec => Spec
<1>1. RecoveryInit => Init
  BY DEF RecoveryInit
<1>2. [RecoveryNext]_recovery_vars => [Next]_vars
  BY DEF RecoveryNext, RecoveryCall, Settle, recovery_vars, vars, Next
<1> QED BY <1>1, <1>2, PTL DEF RecoverySpec, Spec

-----------------------------------------------------------------------------
Outstanding == InDoubt \cup Committed
Unsent == {"PROPOSED", "AUTHORIZED", "PREPARED", "RETRYABLE"}

\* The strengthening: only the attempt let out last can still have, or get, an effect,
\* and none can where the next dispatch may be made.
OnlyLastOutstanding ==
  \A t \in Outstanding : attempt_ids # <<>> /\ t = attempt_ids[Len(attempt_ids)]
NoneBeforeDispatch == state \in Unsent => Outstanding = {}

RecoveryInv ==
  /\ fate \in [AttemptIds -> Fates]
  /\ OnlyLastOutstanding
  /\ NoneBeforeDispatch
  /\ CompleteMeansDone

\* The service never makes more attempts outstanding, nor takes an effect back.
LEMMA SettleStep ==
  ASSUME RecoveryInv, NEW t \in AttemptIds, NEW end \in {"committed", "dead"}, Settle(t, end)
  PROVE  RecoveryInv'
<1>1. fate' \in [AttemptIds -> Fates]
  BY DEF RecoveryInv, Settle, Fates
<1>2. Outstanding' \subseteq Outstanding /\ Committed \subseteq Committed' /\ InDoubt' \subseteq InDoubt
  BY DEF RecoveryInv, Settle, Outstanding, InDoubt, Committed
<1>3. UNCHANGED <<state, attempt_ids>>
  BY DEF Settle, vars
<1> QED
  BY <1>1, <1>2, <1>3
  DEF RecoveryInv, OnlyLastOutstanding, NoneBeforeDispatch, CompleteMeansDone

\* A call that lets nothing out changes nothing in the service.
LEMMA AnswerStep ==
  ASSUME TypeOK, RecoveryInv, NEW call \in CallsMade, RecoveryCall(call),
         ~IsDispatch(RecordOf(state, Used, identity, call))
  PROVE  RecoveryInv'
<1> DEFINE r == RecordOf(state, Used, identity, call)
<1>1. call \in Calls /\ state \in States
  BY CallsAssumption DEF TypeOK
<1>2. /\ state' = r.resulting /\ UNCHANGED <<attempt_ids, fate>>
      /\ Honest(call.evidence)
  BY DEF RecoveryCall, Transition
<1>3. UNCHANGED <<InDoubt, Committed, Outstanding>>
  BY <1>2 DEF InDoubt, Committed, Outstanding
<1>4. fate' \in [AttemptIds -> Fates] /\ OnlyLastOutstanding'
  BY <1>2, <1>3 DEF RecoveryInv, OnlyLastOutstanding
<1>5. CASE r.resulting = "VIOLATION"
  <2>1. state' = "VIOLATION"
    BY <1>2, <1>5
  <2> QED BY <1>4, <2>1 DEF RecoveryInv, NoneBeforeDispatch, CompleteMeansDone, Unsent
<1>6. CASE r.resulting # "VIOLATION"
  <2> DEFINE c == call.evidence.cause
  <2>1. /\ state' = call.target
        /\ Edge(state, call.target, c) \in NORMATIVE_TRANSITIONS
        /\ RequiredFlags(state, call.target) \subseteq call.evidence.flags
    BY <1>1, <1>2, <1>6, EvidenceTaken
  <2>2. NoneBeforeDispatch'
    <3> SUFFICES ASSUME state' \in Unsent PROVE Outstanding' = {}
      BY DEF NoneBeforeDispatch
    <3>1. \/ state \in Unsent
          \/ state = "IN_FLIGHT" /\ c = "precommit_rejection"
          \/ state = "RECONCILING" /\ call.target = "RETRYABLE" /\ c = "conclusive_absence"
      BY <2>1 DEF NORMATIVE_TRANSITIONS, Graph, Edge, Unsent
    <3>2. CASE state \in Unsent
      BY <1>3, <3>2 DEF RecoveryInv, NoneBeforeDispatch
    <3>3. CASE c = "precommit_rejection"
      <4>1. Claim(c)
        BY <1>2, <3>3 DEF Honest, Vouching
      <4>2. attempt_ids # <<>> /\ fate[attempt_ids[Len(attempt_ids)]] = "dead"
        BY <4>1, <3>3 DEF Claim
      <4> QED
        BY <1>3, <4>2 DEF RecoveryInv, OnlyLastOutstanding, Outstanding, InDoubt, Committed
    <3>4. CASE state = "RECONCILING" /\ call.target = "RETRYABLE" /\ c = "conclusive_absence"
      <4>1. LookupFlags \subseteq call.evidence.flags
        BY <2>1, <3>4 DEF RequiredFlags, LookupFlags
      <4>2. Vouching(c) = LookupFlags
        BY <3>4 DEF Vouching
      <4>3. Claim(c)
        BY <1>2, <4>1, <4>2 DEF Honest
      <4> QED BY <1>3, <3>4, <4>3 DEF Claim, Outstanding
    <3> QED BY <3>1, <3>2, <3>3, <3>4
  <2>3. CompleteMeansDone'
    <3> SUFFICES ASSUME state' = "COMPLETE" PROVE InDoubt' = {} /\ Committed' # {}
      BY DEF CompleteMeansDone
    <3>1. state = "VERIFYING" /\ call.target = "COMPLETE" /\ c = "fresh_postcondition"
      BY <2>1 DEF NORMATIVE_TRANSITIONS, Graph, Edge
    <3>2. Vouching(c) \subseteq call.evidence.flags
      BY <2>1, <3>1 DEF RequiredFlags, Vouching
    <3>3. Claim(c)
      BY <1>2, <3>2 DEF Honest
    <3> QED BY <1>3, <3>1, <3>3 DEF Claim
  <2> QED BY <1>4, <2>2, <2>3 DEF RecoveryInv
<1> QED BY <1>5, <1>6

\* A dispatch is made where nothing is outstanding, and leaves its own attempt alone so.
LEMMA DispatchStep ==
  ASSUME TypeOK, RecoveryInv, NEW call \in CallsMade, RecoveryCall(call),
         IsDispatch(RecordOf(state, Used, identity, call))
  PROVE  RecoveryInv'
<1> DEFINE r == RecordOf(state, Used, identity, call)
           t == call.attempt
<1>1. call \in Calls /\ state \in States /\ attempt_ids \in Seq(AttemptIds)
  BY CallsAssumption DEF TypeOK
<1>2. r.attempt \in AttemptIds /\ state \in {"PREPARED", "RETRYABLE"}
  BY <1>1, DispatchIsFresh
<1>3. t \in AttemptIds /\ r.attempt = t
  BY <1>2, AttemptAssumption DEF RecordOf, AttemptForRecord
<1>4. /\ state' = "IN_FLIGHT"
      /\ attempt_ids' = Append(attempt_ids, t)
      /\ fate' = [fate EXCEPT ![t] = "in_doubt"]
  <2>1. IsDispatch(r) /\ r.resulting = "IN_FLIGHT"
    BY DEF IsDispatch
  <2>2. /\ state' = r.resulting
        /\ attempt_ids' = IF IsDispatch(r) THEN Append(attempt_ids, r.attempt) ELSE attempt_ids
    BY DEF RecoveryCall, Transition
  <2>3. fate' = IF IsDispatch(r) THEN [fate EXCEPT ![t] = "in_doubt"] ELSE fate
    BY DEF RecoveryCall
  <2> HIDE DEF r
  <2> QED BY <1>3, <2>1, <2>2, <2>3
<1>5. Outstanding = {}
  BY <1>2 DEF RecoveryInv, NoneBeforeDispatch, Unsent
<1>6. fate' \in [AttemptIds -> Fates]
  BY <1>3, <1>4 DEF RecoveryInv, Fates
<1>7. Outstanding' \subseteq {t}
  BY <1>4, <1>5 DEF RecoveryInv, Outstanding, InDoubt, Committed
<1>8. attempt_ids' # <<>> /\ attempt_ids'[Len(attempt_ids')] = t
  BY <1>1, <1>3, <1>4, AppendFacts
<1> QED
  BY <1>4, <1>6, <1>7, <1>8
  DEF RecoveryInv, OnlyLastOutstanding, NoneBeforeDispatch, CompleteMeansDone, Unsent

\* What is known of the service in every state of the machine, whatever the calls.
LEMMA RecoveryInvariant == RecoverySpec => [](TypeOK /\ RecoveryInv)
<1>1. RecoveryInit => RecoveryInv
  BY DEF RecoveryInit, Init, RecoveryInv, OnlyLastOutstanding, NoneBeforeDispatch,
         CompleteMeansDone, Outstanding, InDoubt, Committed, Fates
<1>2. TypeOK /\ RecoveryInv /\ [RecoveryNext]_recovery_vars => RecoveryInv'
  <2> SUFFICES ASSUME TypeOK, RecoveryInv, [RecoveryNext]_recovery_vars PROVE RecoveryInv'
    OBVIOUS
  <2>1. CASE \E call \in CallsMade : RecoveryCall(call)
    BY <2>1, AnswerStep, DispatchStep
  <2>2. CASE \E t \in AttemptIds, end \in {"committed", "dead"} : Settle(t, end)
    BY <2>2, SettleStep
  <2>3. CASE UNCHANGED recovery_vars
    BY <2>3
    DEF recovery_vars, RecoveryInv, OnlyLastOutstanding, NoneBeforeDispatch,
        CompleteMeansDone, Outstanding, InDoubt, Committed
  <2> QED BY <2>1, <2>2, <2>3 DEF RecoveryNext
<1>3. RecoverySpec => []TypeOK
  BY RecoveryIsMachine, TypeCorrect, PTL
<1> QED BY <1>1, <1>2, <1>3, PTL DEF RecoverySpec

-----------------------------------------------------------------------------
\* Retries never duplicate the effect: of all attempts of an action, however many and
\* however late, at most one commits.
THEOREM OneEffectCorrect == RecoverySpec => []AtMostOneEffect
<1>1. RecoveryInv => AtMostOneEffect
  BY DEF RecoveryInv, OnlyLastOutstanding, AtMostOneEffect, Outstanding
<1> QED BY <1>1, RecoveryInvariant, PTL

\* A completed action has its effect, and nothing is left that could commit another.
THEOREM CompleteCorrect == RecoverySpec => []CompleteMeansDone
<1>1. RecoveryInv => CompleteMeansDone
  BY DEF RecoveryInv
<1> QED BY <1>1, RecoveryInvariant, PTL

\* Where an action may be dispatched again nothing let out before can take effect.
THEOREM AbsentCorrect == RecoverySpec => RetryableMeansAbsent
<1>1. TypeOK /\ RecoveryInv /\ [RecoveryNext]_recovery_vars =>
        [state = "RETRYABLE" => InDoubt \cup Committed = {} /\ Committed' = {}]_recovery_vars
  <2> SUFFICES ASSUME TypeOK, RecoveryInv, RecoveryNext, state = "RETRYABLE"
               PROVE  InDoubt \cup Committed = {} /\ Committed' = {}
    OBVIOUS
  <2>1. Outstanding = {}
    BY DEF RecoveryInv, NoneBeforeDispatch, Unsent
  <2>2. Committed' = {}
    <3>1. CASE \E call \in CallsMade : RecoveryCall(call)
      BY <2>1, <3>1 DEF RecoveryCall, RecoveryInv, Outstanding, InDoubt, Committed
    <3>2. CASE \E t \in AttemptIds, end \in {"committed", "dead"} : Settle(t, end)
      BY <2>1, <3>2 DEF Settle, Outstanding, InDoubt
    <3> QED BY <3>1, <3>2 DEF RecoveryNext
  <2> QED BY <2>1, <2>2 DEF Outstanding
<1> QED BY <1>1, RecoveryInvariant, PTL DEF RecoverySpec, RetryableMeansAbsent
=============================================================================
