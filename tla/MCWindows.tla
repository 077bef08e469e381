----------------------------- MODULE MCWindows -----------------------------
(* Model-checking instance of Windows. *)
EXTENDS Windows, TLC
Symmetry == Permutations(Plane) \cup Permutations(Thread)
=============================================================================
