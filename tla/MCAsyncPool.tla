----------------------------- MODULE MCAsyncPool -----------------------------
(* Instances of AsyncPool for TLC. *)
EXTENDS AsyncPool, TLC

Symmetry == Permutations(Leases) \cup Permutations(Sessions)
=============================================================================
