----------------------------- MODULE MCRepoLocks -----------------------------
(* RepoLocks for TLC: two repositories, one of them under two spellings. *)
EXTENDS RepoLocks, TLC

CONSTANTS a, aLink, b, kA, kB

MCRoot == {a, aLink, b}
MCKey == {kA, kB}
MCKeyOf == (a :> kA) @@ (aLink :> kA) @@ (b :> kB)
Symmetry == Permutations(Mutex)
=============================================================================
