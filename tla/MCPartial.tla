----------------------------- MODULE MCPartial -----------------------------
(* Four lines; slices of two lines, or of one in the other mode.             *)
EXTENDS Partial

MCSlice    == [coarse |-> 2, fine |-> 1]
MCRequests == {[lo |-> 1, hi |-> 2], [lo |-> 0, hi |-> 3], [lo |-> 2, hi |-> 5]}
MCKinds    == <<{"plain", "scaled"}, {"yuv", "scaled"}>>
MCPlaces   == {[lo |-> 1, hi |-> 3], Full}

=============================================================================
