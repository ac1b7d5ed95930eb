--------------------------- MODULE MCNativeDriver ---------------------------
(* Instances of NativeDriver for TLC. *)
EXTENDS NativeDriver, TLC

Symmetry == Permutations(Tasks)
=============================================================================
