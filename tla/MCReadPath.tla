----------------------------- MODULE MCReadPath -----------------------------
(* Model-checking instance of ReadPath.  The .cfg shrinks i32 to 3 bits     *)
(* (IntMax = 3) and usize to 4 bits (UsizeMax = 15): the casts are          *)
(* reductions modulo a power of two, so every case of the 32/64-bit build   *)
(* (a length above i32::MAX, a count that narrows to a negative or to a     *)
(* positive i32) has a small counterpart.                                   *)
EXTENDS ReadPath, TLC
=============================================================================
