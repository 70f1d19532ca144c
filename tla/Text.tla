-------------------------------- MODULE Text ---------------------------------
(***************************************************************************)
(* What the members of bwct::String (mstring.cc) that look for something,  *)
(* cut or split compute from the characters of a string.  A text is the    *)
(* sequence of its characters, signed numbers as in the code, without the  *)
(* terminating zero.  Positions count from 0 as in the code, so that the   *)
(* character at i is s[i + 1].                                             *)
(*                                                                         *)
(* The caller does not search for an empty text in replace and strsplit,   *)
(* which never end, nor cut to an end before the begin.                    *)
(***************************************************************************)
EXTENDS Integers, Sequences, SequencesExt

None == -1

From(s, i) == SubSeq(s, i + 1, Len(s))
Matches(s, i, t) == i + Len(t) <= Len(s) /\ SubSeq(s, i + 1, i + Len(t)) = t

\* strstr(s + i, t) as a position
strstr(s, i, t) ==
  LET found == {k \in i .. Len(s) : Matches(s, k, t)}
  IN  IF found = {} THEN None ELSE CHOOSE k \in found : \A l \in found : k <= l

contains(s, t) == strstr(s, 0, t) # None

\* strncmp(frompos, rhs) for frompos up to the length
strncmp(s, frompos, t) == IF Len(s) + frompos < Len(t) THEN FALSE ELSE Matches(s, frompos, t)

-----------------------------------------------------------------------------
(* Order.  The zero at the end takes part in it: a negative character is    *)
(* less than the end of the other string.                                   *)

At(s, i) == IF i < Len(s) THEN s[i + 1] ELSE 0

\* The first position operator< and operator> look at that differs.
Differ(s, t) ==
  LET d == {i \in 0 .. Len(s) : i <= Len(t) /\ At(s, i) # At(t, i)}
  IN  IF d = {} THEN None ELSE CHOOSE i \in d : \A k \in d : i <= k

\* Mutant: the shorter text is never looked beyond.
LessShort(s, t) == Differ(s, t) \in 0 .. Len(s) - 1 /\ At(s, Differ(s, t)) < At(t, Differ(s, t))

Less(s, t) == Differ(s, t) # None /\ At(s, Differ(s, t)) < At(t, Differ(s, t))
Equal(s, t) == Len(s) = Len(t) /\ Differ(s, t) = None
Greater(s, t) == Differ(s, t) # None /\ At(s, Differ(s, t)) > At(t, Differ(s, t))

-----------------------------------------------------------------------------
(* Parts                                                                    *)

cut(s, begin, end) ==
  IF end < 0 THEN From(s, begin)
  ELSE SubSeq(From(s, begin), 1, IF end < Len(s) THEN end - begin + 1 ELSE Len(s) - begin)

\* How far a run of c reaches from the start, and where it starts at the end.
FirstOther(s, c) == CHOOSE k \in 0 .. Len(s) :
  (\A i \in 0 .. k - 1 : At(s, i) = c) /\ (k = Len(s) \/ At(s, k) # c)
LastOther(s, c) == CHOOSE k \in -1 .. Len(s) - 1 :
  (\A i \in k + 1 .. Len(s) - 1 : At(s, i) = c) /\ (k = -1 \/ At(s, k) # c)

TrimTo(s, first, last) ==
  IF first > Len(s) - 1 \/ last < 0 THEN <<>> ELSE cut(s, first, last)

trim(s, c) == TrimTo(s, FirstOther(s, c), LastOther(s, c))
trimstart(s, c) == TrimTo(s, FirstOther(s, c), Len(s) - 1)
trimend(s, c) == TrimTo(s, 0, LastOther(s, c))

-----------------------------------------------------------------------------
(* Splitting, each as a function of the position it has come to             *)

\* Mutant: what follows the last match is lost.
StrsplitShort(s, delim) ==
  LET rest[i \in 0 .. Len(s)] ==
        LET match == strstr(s, i, delim)
        IN  IF match = None THEN <<>>
            ELSE <<SubSeq(s, i + 1, match)>> \o rest[match + Len(delim)]
  IN  rest[0]

strsplit(s, delim) ==
  LET rest[i \in 0 .. Len(s)] ==
        LET match == strstr(s, i, delim)
        IN  IF match = None THEN <<From(s, i)>>
            ELSE <<SubSeq(s, i + 1, match)>> \o rest[match + Len(delim)]
  IN  rest[0]

\* split(delim, len); split(delim) is split with a len of 0.  n pieces are done.
split(s, delims, len) ==
  LET rest[i \in 0 .. Len(s)] == [n \in Nat |->
        LET ends == {k \in i .. Len(s) - 1 : At(s, k) \in delims}
            k == CHOOSE e \in ends : \A f \in ends : e <= f
        IN  IF n + 1 = len \/ ends = {} THEN <<From(s, i)>>
            ELSE <<SubSeq(s, i + 1, k)>> \o rest[k + 1][n + 1]]
  IN  rest[0][0]

\* Mutant: a quote inside the text does not open.
CSVsplitPlain(s, quote, sep) == split(SelectSeq(s, LAMBDA c : c # quote), {sep}, 0)

\* The fields so far, the one being read, and whether a quote is open.
CSVsplit(s, quote, sep) ==
  LET Read(r, c) ==
        IF c = quote THEN [r EXCEPT !.open = ~@]
        ELSE IF c = sep /\ ~r.open THEN [r EXCEPT !.done = Append(@, r.field), !.field = <<>>]
        ELSE [r EXCEPT !.field = Append(@, c)]
      read[i \in 0 .. Len(s)] ==
        IF i = 0 THEN [done |-> <<>>, field |-> <<>>, open |-> FALSE] ELSE Read(read[i - 1], s[i])
      end == read[Len(s)]
  IN  Append(end.done, end.field)

\* A newline and a carriage return are one end of a line, in either order.
linesplit(s, nl, cr) ==
  LET rest[i \in 0 .. Len(s) + 1] ==
        LET ends == {k \in i .. Len(s) - 1 : At(s, k) \in {nl, cr}}
            k == CHOOSE e \in ends : \A f \in ends : e <= f
            width == IF {At(s, k), At(s, k + 1)} = {nl, cr} THEN 2 ELSE 1
        IN  IF i >= Len(s) THEN <<>>
            ELSE IF ends = {} THEN <<From(s, i)>>
            ELSE <<SubSeq(s, i + 1, k)>> \o rest[k + width]
  IN  rest[0]

-----------------------------------------------------------------------------
(* Putting together                                                         *)

join(texts, bind) ==
  LET joined[i \in DOMAIN texts] ==
        IF i = 1 THEN texts[1] ELSE joined[i - 1] \o bind \o texts[i]
  IN  IF texts = <<>> THEN <<>> ELSE joined[Len(texts)]

\* The pieces replace appends to its temporary, one after the other.
ReplacePieces(s, search, by) ==
  LET rest[i \in 0 .. Len(s)] ==
        LET match == strstr(s, i, search)
        IN  IF match = None THEN <<From(s, i)>>
            ELSE <<SubSeq(s, i + 1, match), by>> \o rest[match + Len(search)]
  IN  rest[0]

ReplaceFirstPieces(s, search, by) ==
  LET match == strstr(s, 0, search)
  IN  <<SubSeq(s, 1, match), by, From(s, match + Len(search))>>

replace(s, search, by) == FlattenSeq(ReplacePieces(s, search, by))
=============================================================================
