------------------------------- MODULE MCServer ------------------------------
(* Instances of Server for TLC: connections are the attempts of the clients. *)
EXTENDS Server

CONSTANTS a, b, p

Tried == <<a, b>>
Listened == {<<b>>, <<b, a>>}
Made == {p} \X {1, 2}
=============================================================================
