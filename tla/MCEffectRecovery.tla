--------------------------- MODULE MCEffectRecovery ---------------------------
(* EffectRecovery with the calls of a small instance. *)
EXTENDS EffectRecovery, TLC

\* The cause of every edge towards its target, made in every state of the machine, with
\* full evidence or with evidence that lacks one flag.
RecoveryCalls ==
  { [target |-> e.target, evidence |-> [cause |-> e.cause, flags |-> f],
     identity |-> i, attempt |-> t] :
       e \in NORMATIVE_TRANSITIONS, f \in {Flags} \cup {Flags \ {g} : g \in Flags},
       i \in Identities,
       t \in AttemptIds \cup {NoAttempt} }

MCCalls == {c \in RecoveryCalls : c.target # "IN_FLIGHT" => c.attempt = NoAttempt}

Symmetry == Permutations(AttemptIds)
=============================================================================
