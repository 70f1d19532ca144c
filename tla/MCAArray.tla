------------------------------ MODULE MCAArray -------------------------------
(* Instances of AArray for TLC.                                              *)
EXTENDS AArray, TLC

CONSTANT Loner

\* Loner is alone in bucket 0, the other keys share the last bucket.
Collide == [k \in Keys |-> IF k = Loner THEN buckets ELSE buckets - 1]

Interchangeable == Permutations(Keys \ {Loner}) \cup Permutations(Tables)
=============================================================================
