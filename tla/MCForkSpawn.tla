----------------------------- MODULE MCForkSpawn -----------------------------
(* Small instances of ForkSpawn. *)
EXTENDS ForkSpawn, TLC

\* Calls of spawnFork are interchangeable.
Forks == Permutations(Fork)
=============================================================================
