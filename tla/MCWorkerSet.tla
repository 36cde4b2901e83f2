---------------------------- MODULE MCWorkerSet ----------------------------
(* Instances of WorkerSet for TLC. *)
EXTENDS WorkerSet, TLC

CONSTANTS r1, r2, r3

MCRequests == {r1, r2, r3}

Symmetry == Permutations(MCRequests)

=============================================================================
