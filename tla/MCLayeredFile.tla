--------------------------- MODULE MCLayeredFile ---------------------------
(* Model-checking instance of LayeredFile: addresses and program variables *)
(* are model values given in the .cfg files.                               *)
EXTENDS LayeredFile, TLC

(* Addresses and variables are only compared for equality.                 *)
Symmetry == Permutations(Addr) \cup Permutations(Slot)
=============================================================================
