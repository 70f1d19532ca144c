-------------------------------- MODULE MCJson -------------------------------
(* Instances of Json for TLC: texts by what they are made of. *)
EXTENDS Json

a == <<Quote, 97, Quote>>
brackets == {<<123>>, <<125>>, <<91>>, <<93>>, <<Comma>>, a \o <<Colon>>, <<48, 32>>}
strings == {<<Quote>>, <<Backslash>>, <<117>>, <<48, 48, 69, 57>>, <<110>>}
numbers == {<<48>>, <<49>>, <<Dot>>, <<45>>, <<43>>, <<101>>}
bytes == {<<65>>, <<195>>, <<169>>, <<192>>, <<226>>, <<240, 159>>}
ReadTexts == {brackets, strings, numbers, bytes}

Trees0 == {<<91, 91, 49, 93, Comma, 91, 93, Comma, 91, 49, 93, 93>>, <<91>> \o a \o <<Comma, 123, 125, 93>>, <<123>> \o a \o <<Colon, 91, 49, 93, Comma>> \o a \o <<Colon, 120>>}
Values == {Null, Bool(TRUE), Str(<<Quote, Backslash, 7>>), Num(<<49>>), Arr(<<>>), Obj(<<>>)}
Names == {<<97>>, <<>>, <<97, Quote>>}
=============================================================================
