-------------------------- MODULE MCOperationLedger --------------------------
(* OperationLedger with the requests of a small instance. *)
EXTENDS LedgerMachines, TLC

Strong(e) == [target |-> e.target, evidence |-> [cause |-> e.cause, flags |-> Flags]]

\* Every edge with strong evidence; a lookup without freshness; a wrong edge's cause.
AllRequests ==
  {Strong(e) : e \in NORMATIVE_TRANSITIONS}
  \cup {[target |-> t, evidence |-> [cause |-> c, flags |-> Flags \ {"fresh"}]] :
          t \in {"RETRYABLE"}, c \in {"conclusive_absence"}}

\* The edges that lead to a first dispatch.
DispatchRequests ==
  {Strong(e) : e \in {d \in NORMATIVE_TRANSITIONS :
     d.cause \in {"authority_confirmed", "preparation_durable", "attempt_delivered"}}}

\* Those, a rejection and the redispatch after it.
ShortRequests ==
  {Strong(e) : e \in {d \in NORMATIVE_TRANSITIONS :
     d.cause \in {"authority_confirmed", "preparation_durable", "attempt_delivered",
                  "precommit_rejection", "redispatch_authorized"}}}

Symmetry == Permutations(AttemptIds) \cup Permutations(Handles) \cup Permutations(ActionIds)
=============================================================================
