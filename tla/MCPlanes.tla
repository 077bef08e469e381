------------------------------ MODULE MCPlanes ------------------------------
(* Symmetry of the CRTCs for TLC; planes and windows are ordered. *)
EXTENDS Bandwidth, TLC

Symmetry == Permutations(Crtc)
=============================================================================
