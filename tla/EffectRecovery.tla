---------------------------- MODULE EffectRecovery ----------------------------
(***************************************************************************)
(* What the operation state machine is for: one action, its machine, and   *)
(* the service that may or may not carry out each attempt let out.  The    *)
(* service is external: an attempt is in doubt until it commits its effect *)
(* or is known never to (rejected, lost on the way, never sent because its *)
(* permit died with a process); answers may be lost or late.               *)
(*                                                                         *)
(* The machine believes evidence by its cause and flags.  Evidence here is *)
(* honest in what it claims (fresh, authoritative and exact answers are    *)
(* true and stay true) and worthless where a flag is missing: a stale or   *)
(* partial lookup may say anything.  The question is whether the machine   *)
(* asks for enough: that no sequence of calls, wrong calls included, lets  *)
(* a second effect happen or completes an action that has none.            *)
(***************************************************************************)
EXTENDS OperationStateMachine

VARIABLE fate    \* per attempt identifier, what became of it in the service

recovery_vars == <<identity, state, attempt_ids, history, fate>>

Fates == {"unsent", "in_doubt", "committed", "dead"}

InDoubt == {t \in AttemptIds : fate[t] = "in_doubt"}
Committed == {t \in AttemptIds : fate[t] = "committed"}

RecoveryInit == Init /\ fate = [t \in AttemptIds |-> "unsent"]

-----------------------------------------------------------------------------
LookupFlags == {"fresh", "authoritative", "exact_identity"}

\* What evidence of a cause says about the service, if its flags vouch for it.
Claim(cause) ==
  CASE cause = "success_receipt" -> Committed # {}
    [] cause = "precommit_rejection" ->
         attempt_ids # <<>> /\ fate[attempt_ids[Len(attempt_ids)]] = "dead"
    [] cause = "exact_effect_found" -> Committed # {}
    [] cause = "conclusive_absence" -> InDoubt \cup Committed = {}
    [] cause = "fresh_postcondition" -> InDoubt = {} /\ \E t \in Committed : Committed = {t}
    [] OTHER -> TRUE

\* The flags without which evidence of a cause vouches for nothing.
Vouching(cause) ==
  CASE cause \in {"exact_effect_found", "conclusive_absence"} -> LookupFlags
    [] cause = "fresh_postcondition" ->
         {"fresh", "authoritative", "postcondition_verified", "cardinality_valid"}
    [] OTHER -> {}

Honest(evidence) ==
  Vouching(evidence.cause) \subseteq evidence.flags => Claim(evidence.cause)

\* A call of the machine with honest evidence; an attempt let out is in doubt at once.
RecoveryCall(call) ==
  /\ Honest(call.evidence)
  /\ Transition(call)
  /\ fate' = IF IsDispatch(RecordOf(state, Used, identity, call))
             THEN [fate EXCEPT ![call.attempt] = "in_doubt"] ELSE fate

\* The service decides an attempt, in its own time.
Settle(t, end) ==
  /\ fate[t] = "in_doubt"
  /\ fate' = [fate EXCEPT ![t] = end]
  /\ UNCHANGED vars

RecoveryNext ==
  \/ \E call \in CallsMade : RecoveryCall(call)
  \/ \E t \in AttemptIds, end \in {"committed", "dead"} : Settle(t, end)

RecoverySpec == RecoveryInit /\ [][RecoveryNext]_recovery_vars

-----------------------------------------------------------------------------
(***************************************************************************)
(* Properties.                                                             *)
(***************************************************************************)

\* Retries never duplicate the effect: at most one attempt of the action ever commits,
\* however late, whichever calls are made, and also after a violation or a safe stop.
AtMostOneEffect == \A t, u \in Committed : t = u

\* A completed action has exactly its effect, and nothing is left that could still
\* commit another.
CompleteMeansDone ==
  state = "COMPLETE" => InDoubt = {} /\ Committed # {}

\* When an action may be dispatched again, or is stopped instead, nothing that was let
\* out before can take effect any more.
RetryableMeansAbsent ==
  [][ state = "RETRYABLE" => InDoubt \cup Committed = {} /\ Committed' = {} ]_recovery_vars
=============================================================================
