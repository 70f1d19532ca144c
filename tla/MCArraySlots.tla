---------------------------- MODULE MCArraySlots -----------------------------
(* Instances of ArraySlots for TLC.                                          *)
EXTENDS ArraySlots, TLC

Interchangeable == Permutations(Objects) \cup Permutations(Arrays)
=============================================================================
