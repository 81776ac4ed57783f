---------------------------- MODULE AuthorityEngine ----------------------------
(***************************************************************************)
(* check_authority (authority.py): whether one immutable grant covers one  *)
(* request, and which call of the operation state machine follows from the *)
(* answer.  The engine keeps no state, so this is a module of operators;   *)
(* GrantedEffects puts it between the machines and the clock.              *)
(*                                                                         *)
(* Data abstraction: a canonical digest tells intents apart and nothing    *)
(* else, so the digest of an intent is the intent.  Parameters are model   *)
(* values: canonical bytes differ when the values do.  The binding of an   *)
(* identity is opened into the three fields it stands for.  The evidence   *)
(* of a decision repeats its inputs and is left out, except disposition    *)
(* and reason.                                                             *)
(***************************************************************************)
EXTENDS TransitionRules, FiniteSetsExt

CONSTANTS
  Keys,         \* the OperationKey values in use
  Authorities,  \* the AuthorityId values in use
  Subjects,     \* the SubjectId values in use
  Services, ServiceOperations, Parameters,   \* what an intent is made of
  NoAction,     \* allowed_compensation is None
  NoGrant       \* original_grant is None

Intents == [service : Services, operation : ServiceOperations, parameters : Parameters]

ASSUME BindingAssumption ==
  Bindings \subseteq [operation_key : Keys, intent_digest : Intents, authority_id : Authorities]
ASSUME NoActionAssumption == NoAction \notin ActionIds

Grants ==
  [authority_id : Authorities, subject_id : Subjects, service : Services,
   operation : ServiceOperations, semantic_intent_digest : Intents,
   allowed_parameters : Parameters, expires_at_tick : Nat, max_effects : Nat \ {0},
   allowed_compensation : ActionIds \cup {NoAction}]

CheckKinds ==
  {"AUTHORIZE", "PASSIVE_PRE_DISPATCH", "PRE_DISPATCH_WRITE", "REDISPATCH", "READ_ONLY"}

\* The requests AuthorityCheck can be built with: an original grant only with a claim of
\* compensation, and no such claim in a read-only check.
Checks ==
  {check \in [kind : CheckKinds, candidate : Identities, confirmed : Identities,
              subject_id : Subjects, intent : Intents, current_tick : Nat,
              committed_effect_count : Nat, is_compensation : BOOLEAN,
              original_grant : Grants \cup {NoGrant}] :
     /\ check.original_grant # NoGrant => check.is_compensation
     /\ check.kind = "READ_ONLY" => ~check.is_compensation}

\* Faulty variant: expiry is noticed before the cap.
PrecedenceOfExpiry ==
  <<"AUTH_EXPIRED", "IDENTITY_MISMATCH", "AUTHORITY_ID_MISMATCH", "SUBJECT_MISMATCH",
    "SERVICE_MISMATCH", "OPERATION_MISMATCH", "INTENT_DIGEST_MISMATCH",
    "PARAMETERS_MISMATCH", "COMPENSATION_NOT_AUTHORIZED", "CARDINALITY_EXCEEDED">>

REASON_PRECEDENCE ==
  <<"IDENTITY_MISMATCH", "AUTHORITY_ID_MISMATCH", "SUBJECT_MISMATCH", "SERVICE_MISMATCH",
    "OPERATION_MISMATCH", "INTENT_DIGEST_MISMATCH", "PARAMETERS_MISMATCH",
    "COMPENSATION_NOT_AUTHORIZED", "CARDINALITY_EXCEEDED", "AUTH_EXPIRED">>

DefectReasons == {REASON_PRECEDENCE[n] : n \in DOMAIN REASON_PRECEDENCE}
AllowReasons == {"AUTHORIZED", "REVALIDATED", "READ_ONLY_ALLOWED"}

-----------------------------------------------------------------------------
\* Faulty variants: valid until just before the tick, or one tick beyond it; one effect
\* more than the cap; a confirmation that may be transferred between actions.
TickValidExclusive(grant, check) == check.current_tick < grant.expires_at_tick
TickValidBeyond(grant, check) == check.current_tick <= grant.expires_at_tick + 1
CardinalityValidInclusive(grant, check) == check.committed_effect_count <= grant.max_effects
IdentityTransferred(check) ==
  check.candidate.binding.intent_digest = check.confirmed.binding.intent_digest

TickValid(grant, check) == check.current_tick <= grant.expires_at_tick
CardinalityValid(grant, check) == check.committed_effect_count < grant.max_effects
IdentityConfirmed(check) == check.candidate = check.confirmed

\* The original grant names the compensating action, and the current one is another.
CompensationAuthorized(grant, check) ==
  /\ check.original_grant # NoGrant
  /\ check.original_grant.allowed_compensation = check.candidate.action_id
  /\ check.original_grant.authority_id # grant.authority_id

\* Faulty variant: lookups are held to the limits of writes.
AlwaysWriteCapable(check) == check.kind \in CheckKinds

WriteCapable(check) == check.kind # "READ_ONLY"

IsDefect(grant, check, reason) ==
  LET digest == check.candidate.binding.intent_digest IN
  CASE reason = "IDENTITY_MISMATCH" -> ~IdentityConfirmed(check)
    [] reason = "AUTHORITY_ID_MISMATCH" ->
         check.candidate.binding.authority_id # grant.authority_id
    [] reason = "SUBJECT_MISMATCH" -> check.subject_id # grant.subject_id
    [] reason = "SERVICE_MISMATCH" -> check.intent.service # grant.service
    [] reason = "OPERATION_MISMATCH" -> check.intent.operation # grant.operation
    [] reason = "INTENT_DIGEST_MISMATCH" ->
         check.intent # digest \/ check.intent # grant.semantic_intent_digest
    [] reason = "PARAMETERS_MISMATCH" -> check.intent.parameters # grant.allowed_parameters
    [] reason = "COMPENSATION_NOT_AUTHORIZED" ->
         check.is_compensation /\ ~CompensationAuthorized(grant, check)
    [] reason = "CARDINALITY_EXCEEDED" -> WriteCapable(check) /\ ~CardinalityValid(grant, check)
    [] reason = "AUTH_EXPIRED" -> WriteCapable(check) /\ ~TickValid(grant, check)

\* The place in REASON_PRECEDENCE of the reason that wins, 0 if there is no defect.
Winning(grant, check) ==
  LET found == {n \in DOMAIN REASON_PRECEDENCE : IsDefect(grant, check, REASON_PRECEDENCE[n])}
  IN  IF found = {} THEN 0 ELSE Min(found)

-----------------------------------------------------------------------------
\* A decision; target and cause are "none" together.
Decision(disposition, reason, target, cause) ==
  [disposition |-> disposition, reason |-> reason, target |-> target, cause |-> cause]

\* Faulty variant: any expiry is a safe stop.
StopsAlways(check, reason) == reason = "AUTH_EXPIRED"

\* Expiry found without an attempt to write.
StopsSafely(check, reason) ==
  reason = "AUTH_EXPIRED" /\ check.kind = "PASSIVE_PRE_DISPATCH"

check_authority(grant, check) ==
  LET n == Winning(grant, check) IN
  IF n = 0
  THEN CASE check.kind = "AUTHORIZE" ->
              Decision("ALLOW", "AUTHORIZED", "AUTHORIZED", "authority_confirmed")
         [] check.kind = "READ_ONLY" -> Decision("ALLOW", "READ_ONLY_ALLOWED", "none", "none")
         [] OTHER -> Decision("ALLOW", "REVALIDATED", "none", "none")
  ELSE IF StopsSafely(check, REASON_PRECEDENCE[n])
       THEN Decision("SAFE_STOP", "AUTH_EXPIRED", "SAFE_STOP", "safe_stop_selected")
       ELSE Decision("VIOLATION", REASON_PRECEDENCE[n], "VIOLATION", "invariant_violation")

\* What AuthorityDecision demands of itself before it can be built.
MatrixRow(decision) ==
  LET pair == <<decision.target, decision.cause>> IN
  CASE decision.disposition = "ALLOW" ->
         /\ decision.reason \in AllowReasons
         /\ pair = IF decision.reason = "AUTHORIZED"
                   THEN <<"AUTHORIZED", "authority_confirmed">> ELSE <<"none", "none">>
    [] decision.disposition = "SAFE_STOP" ->
         decision.reason = "AUTH_EXPIRED" /\ pair = <<"SAFE_STOP", "safe_stop_selected">>
    [] decision.disposition = "VIOLATION" ->
         decision.reason \in DefectReasons /\ pair = <<"VIOLATION", "invariant_violation">>
=============================================================================
