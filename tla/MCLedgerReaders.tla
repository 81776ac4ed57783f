---------------------------- MODULE MCLedgerReaders ----------------------------
(* LedgerReaders with the writers of a small instance. *)
EXTENDS LedgerReaders

Strong(e) == [target |-> e.target, evidence |-> [cause |-> e.cause, flags |-> Flags]]

\* The edges that lead to a first dispatch, and a violation.
DispatchRequests ==
  {Strong(e) : e \in {d \in NORMATIVE_TRANSITIONS :
     d.cause \in {"authority_confirmed", "preparation_durable", "attempt_delivered"}}}

Symmetry == Permutations(ActionIds)
=============================================================================
