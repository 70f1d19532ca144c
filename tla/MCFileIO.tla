------------------------------ MODULE MCFileIO -------------------------------
(* Instances of FileIO for TLC: the contents of the stream.                  *)
EXTENDS FileIO

\* A line with a carriage return, a line with a zero byte and without its end.
Odd == <<"char", "cr", "nl", "nul", "char">>
=============================================================================
