----------------------- MODULE MCDeterministicScheduler -----------------------
(* DeterministicScheduler: the symmetry of the schedulers of one clock. *)
EXTENDS DeterministicScheduler, TLC

Symmetry == Permutations(Schedulers)
=============================================================================
