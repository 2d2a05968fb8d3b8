---------------------------- MODULE MCWorkerSecrets ----------------------------
(* Small instances of WorkerSecrets.                                        *)
EXTENDS WorkerSecrets, TLC

CONSTANTS p1, p2, v1, v2

Symmetry == Permutations({p1, p2}) \cup Permutations({v1, v2})
=============================================================================
