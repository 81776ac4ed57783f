----------------------- MODULE MCOperationStateMachine -----------------------
(* OperationStateMachine with the calls of a small instance. *)
EXTENDS OperationStateMachine, TLC

\* Evidence with every flag, or with exactly one of them missing.
StrongAndWeak == {Flags} \cup {Flags \ {f} : f \in Flags}

OwnAndOther == Identities

MCCalls ==
  \* every edge of the graph, under any attempt identifier and any evidence strength
  { [target |-> e.target, evidence |-> [cause |-> e.cause, flags |-> f],
     identity |-> i, attempt |-> t] :
       e \in NORMATIVE_TRANSITIONS, f \in StrongAndWeak, i \in OwnAndOther,
       t \in CallAttempts }
  \cup
  \* any target for any cause, with the identifier an honest caller would pass
  { c \in [target : States, evidence : [cause : Causes, flags : {Flags}],
           identity : Identities, attempt : CallAttempts] :
       c.attempt = NoAttempt <=> c.target # "IN_FLIGHT" }

Symmetry == Permutations(AttemptIds) \cup Permutations(Bindings)
=============================================================================
