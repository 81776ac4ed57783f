--------------------------- MODULE TransitionRules ---------------------------
(***************************************************************************)
(* The rules of one call of OperationStateMachine.transition               *)
(* (state_machine.py): the normative graph, the evidence guards and the    *)
(* record a call produces.  Everything here is a pure operator of the      *)
(* machine's current state, so that the machine itself, the ledger that    *)
(* replays it from its tables, and the recovery protocol built on it all   *)
(* share one definition of what a call does.                               *)
(*                                                                         *)
(* Data abstraction: the triple (operation_key, intent_digest,             *)
(* authority_id) of an identity is one "binding"; the five Boolean fields  *)
(* of the evidence are the set of those that are TRUE; evidence_id, which  *)
(* no decision reads, is left out; a violation reason is a short token.    *)
(***************************************************************************)
EXTENDS Naturals, Sequences

CONSTANTS
  ActionIds,    \* the ActionId values in use
  Bindings,     \* the (operation_key, intent_digest, authority_id) triples in use
  AttemptIds,   \* the well-formed AttemptId values in use
  NoAttempt,    \* attempt_id is None
  Malformed     \* any value the AttemptId adapter rejects

ASSUME AttemptAssumption ==
  /\ NoAttempt \notin AttemptIds
  /\ Malformed \notin AttemptIds \cup {NoAttempt}

States ==
  {"PROPOSED", "AUTHORIZED", "PREPARED", "IN_FLIGHT", "INDETERMINATE", "RECONCILING",
   "RETRYABLE", "VERIFYING", "COMPLETE", "SAFE_STOP", "VIOLATION"}

Causes ==
  {"authority_confirmed", "invariant_violation", "preparation_durable",
   "safe_stop_selected", "attempt_delivered", "success_receipt", "precommit_rejection",
   "ambiguous_outcome", "reconciliation_started", "exact_effect_found",
   "conclusive_absence", "reconciliation_inconclusive", "redispatch_authorized",
   "fresh_postcondition", "verification_incomplete", "postcondition_failed"}

Edge(source, target, cause) == [source |-> source, target |-> target, cause |-> cause]

Graph ==
  { Edge("PROPOSED", "AUTHORIZED", "authority_confirmed"),
    Edge("PROPOSED", "VIOLATION", "invariant_violation"),
    Edge("AUTHORIZED", "PREPARED", "preparation_durable"),
    Edge("AUTHORIZED", "SAFE_STOP", "safe_stop_selected"),
    Edge("PREPARED", "IN_FLIGHT", "attempt_delivered"),
    Edge("IN_FLIGHT", "VERIFYING", "success_receipt"),
    Edge("IN_FLIGHT", "RETRYABLE", "precommit_rejection"),
    Edge("IN_FLIGHT", "INDETERMINATE", "ambiguous_outcome"),
    Edge("INDETERMINATE", "RECONCILING", "reconciliation_started"),
    Edge("RECONCILING", "VERIFYING", "exact_effect_found"),
    Edge("RECONCILING", "RETRYABLE", "conclusive_absence"),
    Edge("RECONCILING", "SAFE_STOP", "reconciliation_inconclusive"),
    Edge("RETRYABLE", "IN_FLIGHT", "redispatch_authorized"),
    Edge("RETRYABLE", "SAFE_STOP", "safe_stop_selected"),
    Edge("VERIFYING", "COMPLETE", "fresh_postcondition"),
    Edge("VERIFYING", "RECONCILING", "verification_incomplete"),
    Edge("VERIFYING", "SAFE_STOP", "postcondition_failed") }

\* Faulty graphs to test the properties with: a redispatch while the outcome is still
\* unknown, a stop that skips the lookup, a dispatch that was never prepared.
BlindRetryGraph == Graph \cup {Edge("INDETERMINATE", "IN_FLIGHT", "redispatch_authorized")}
BlindStopGraph == Graph \cup {Edge("INDETERMINATE", "SAFE_STOP", "safe_stop_selected")}
UnpreparedGraph == Graph \cup {Edge("AUTHORIZED", "IN_FLIGHT", "attempt_delivered")}

NORMATIVE_TRANSITIONS == Graph

Identities == [action_id : ActionIds, binding : Bindings]

Flags == {"fresh", "authoritative", "exact_identity", "postcondition_verified",
          "cardinality_valid"}
Evidence == [cause : Causes, flags : SUBSET Flags]

CallAttempts == AttemptIds \cup {NoAttempt, Malformed}
Calls == [target : States, evidence : Evidence, identity : Identities,
          attempt : CallAttempts]

NoReason == "none"
Reported == "invariant violation reported"
Reasons ==
  {NoReason, Reported, "immutable identity changed", "attempt_id not expected",
   "attempt_id required", "attempt_id is invalid", "attempt_id was already used",
   "transition is not allowed", "cause does not match", "evidence lacks flags"}

Records ==
  [source : States, attempted : States, resulting : States, cause : Causes,
   attempt : AttemptIds \cup {NoAttempt}, reason : Reasons]

-----------------------------------------------------------------------------
\* Faulty variant: nobody asks whether the source was authoritative.
RequiredFlagsWithoutAuthority(source, target) ==
  CASE source = "RECONCILING" -> {"fresh", "exact_identity"}
    [] source = "VERIFYING" /\ target = "COMPLETE" ->
         {"fresh", "postcondition_verified", "cardinality_valid"}
    [] OTHER -> {}

\* The flags _guard_failure asks of the evidence on an edge.
RequiredFlags(source, target) ==
  CASE source = "RECONCILING" /\ target \in {"VERIFYING", "RETRYABLE"} ->
         {"fresh", "authoritative", "exact_identity"}
    [] source = "RECONCILING" /\ target = "SAFE_STOP" -> {"exact_identity"}
    [] source = "VERIFYING" /\ target = "COMPLETE" ->
         {"fresh", "authoritative", "postcondition_verified", "cardinality_valid"}
    [] OTHER -> {}

\* Faulty variant: a used identifier is accepted again.
AttemptFaultWithoutReuseCheck(used, call) ==
  IF (call.target = "IN_FLIGHT") # (call.attempt \in AttemptIds)
  THEN "attempt_id is invalid" ELSE NoReason

\* Why _validate_attempt_for_target fails the call, NoReason when it does not.
AttemptFault(used, call) ==
  IF call.target # "IN_FLIGHT"
  THEN IF call.attempt = NoAttempt THEN NoReason ELSE "attempt_id not expected"
  ELSE IF call.attempt = NoAttempt THEN "attempt_id required"
  ELSE IF call.attempt \notin AttemptIds THEN "attempt_id is invalid"
  ELSE IF call.attempt \in used THEN "attempt_id was already used" ELSE NoReason

\* Why the edge itself is refused: no such edge, another cause, or weak evidence.
EdgeFault(state, call) ==
  LET edges == {e \in NORMATIVE_TRANSITIONS : e.source = state /\ e.target = call.target}
  IN  IF edges = {} THEN "transition is not allowed"
      ELSE IF \A e \in edges : e.cause # call.evidence.cause THEN "cause does not match"
      ELSE IF ~(RequiredFlags(state, call.target) \subseteq call.evidence.flags)
           THEN "evidence lacks flags" ELSE NoReason

ReportsViolation(call) ==
  call.target = "VIOLATION" /\ call.evidence.cause = "invariant_violation"

\* The violation_reason of the record that the call adds to the history.  "state" is
\* not VIOLATION; "used" is the set of attempt identifiers dispatched so far.
ViolationReason(state, used, identity, call) ==
  IF call.identity # identity THEN "immutable identity changed"
  ELSE IF AttemptFault(used, call) # NoReason THEN AttemptFault(used, call)
  ELSE IF ReportsViolation(call) THEN Reported
  ELSE EdgeFault(state, call)

\* Faulty variant: the caller's value is recorded as it came.
RawAttemptForRecord(attempt) == attempt

\* An attempt identifier the adapter rejects is recorded as None.
AttemptForRecord(attempt) == IF attempt \in AttemptIds THEN attempt ELSE NoAttempt

\* The TransitionRecord that a call in a state other than VIOLATION appends.
RecordOf(state, used, identity, call) ==
  LET reason == ViolationReason(state, used, identity, call)
  IN  [source    |-> state,
       attempted |-> call.target,
       resulting |-> IF reason = NoReason THEN call.target ELSE "VIOLATION",
       cause     |-> call.evidence.cause,
       attempt   |-> AttemptForRecord(call.attempt),
       reason    |-> reason]

\* A record of an attempt that was let out: the call entered IN_FLIGHT.
IsDispatch(record) == record.resulting = "IN_FLIGHT"
=============================================================================
