--------------------------- MODULE MCGrantedEffects ---------------------------
(* GrantedEffects with two actions under one grant, one of them a compensation. *)
EXTENDS GrantedEffects, TLC

CONSTANTS
  a1, a2, k1, k2, current, earlier, owner, mail, send, text,
  MaxEffects   \* the cap of the grant

Sent == [service |-> mail, operation |-> send, parameters |-> text]

\* The grant both actions are under, through tick 1, and an earlier one, expired since,
\* that names a2 as its compensation.
GrantOf(authority, expires, compensation) ==
  [authority_id |-> authority, subject_id |-> owner, service |-> mail, operation |-> send,
   semantic_intent_digest |-> Sent, allowed_parameters |-> text,
   expires_at_tick |-> expires, max_effects |-> MaxEffects,
   allowed_compensation |-> compensation]

Planned(key, original) ==
  [binding |-> [operation_key |-> key, intent_digest |-> Sent, authority_id |-> current],
   subject |-> owner, intent |-> Sent, grant |-> GrantOf(current, 1, NoAction),
   original |-> original]

MCPlan ==
  [a \in ActionIds |->
     IF a = a1 THEN Planned(k1, NoGrant) ELSE Planned(k2, GrantOf(earlier, 0, a2))]

\* The plan is one its grants cover: what the theorems about obedient callers ask for.
ASSUME MCPlanAssumption == PlanIsGranted

MCBindings == {MCPlan[a].binding : a \in ActionIds}

Symmetry == Permutations(AttemptIds)
=============================================================================
