----------------------------- MODULE MCRunLifetime -----------------------------
(* RunLifetime with the calls of a small instance. *)
EXTENDS RunLifetime

\* The edges to a first dispatch, a rejection, and the redispatch after it.
ShortRequests ==
  { [target |-> e.target, evidence |-> [cause |-> e.cause, flags |-> Flags]] :
      e \in {d \in NORMATIVE_TRANSITIONS :
               d.cause \in {"authority_confirmed", "preparation_durable", "attempt_delivered",
                            "precommit_rejection", "redispatch_authorized"}} }

Symmetry == Permutations(Handles)
=============================================================================
