----------------------------- MODULE MCStringBuf -----------------------------
(* Instances of StringBuf for TLC: a negative character, a space and a letter. *)
EXTENDS StringBuf

Letters == {-1, 32, 65}
Written == {<<>>, <<32>>, <<65, 65>>, <<-1, 65, 65>>}
Contents == {<<65>>, <<0, 65>>, <<65, 0, 65>>}
=============================================================================
