------------------------------- MODULE Unicode -------------------------------
(***************************************************************************)
(* UTF-8 in bwct::String (mstring.cc 617-690, 997-1051, 1557-1585) and in  *)
(* the \u escapes of JSON (json.cc 180-224).  Characters are the bytes     *)
(* 0 to 255 here, as those members read them, and code points are numbers. *)
(***************************************************************************)
EXTENDS Text

CONSTANTS
  Alphabets,   \* sets of the pieces a text is made of
  MaxPieces    \* bound: the longest text

ASSUME PiecesAssumption == UNION Alphabets \subseteq Seq(0 .. 255)

VARIABLE input \* the text a program is given, in pieces

IsCont(d) == d \div 64 = 2

\* How many continuation bytes belong to a first byte.
Continuation(d) ==
  CASE d \div 128 = 0 -> 0
    [] d \div 32 = 6 -> 1
    [] d \div 16 = 14 -> 2
    [] d \div 8 = 30 -> 3
    [] OTHER -> None

\* Mutant: the last continuation byte is taken on trust.
FirstBrokenEarly(s, i, n) ==
  LET bad == {k \in 1 .. n - 1 : ~IsCont(At(s, i + k))}
  IN  IF bad = {} THEN None ELSE CHOOSE k \in bad : \A l \in bad : k <= l

FirstBroken(s, i, n) ==
  LET bad == {k \in 1 .. n : ~IsCont(At(s, i + k))}
  IN  IF bad = {} THEN None ELSE CHOOSE k \in bad : \A l \in bad : k <= l

\* By the number of bytes that follow, from none to three: what the first byte is
\* marked with, how many values it has beside that, where the first byte counts,
\* and what is too large a code point.
Mark == <<0, 192, 224, 240>>
Room == <<128, 32, 16, 8>>
Place == <<1, 64, 4096, 262144>>
TooLarge == <<128, 2048, 65536, 2097152>>

\* The code point at i, with n bytes to follow.
Point(s, i, n) ==
  LET point[k \in 0 .. n] ==
        IF k = 0 THEN At(s, i) % Room[n + 1] ELSE 64 * point[k - 1] + (At(s, i + k) % 64)
  IN  point[n]

\* What u_str leaves to its readers, who stop at the first zero.  The byte that
\* breaks a character is dropped with it.
u_str(s) ==
  LET points[i \in 0 .. Len(s)] ==
        LET n == Continuation(At(s, i))
            broken == FirstBroken(s, i, n)
        IN  IF i = Len(s) THEN <<>>
            ELSE IF n = None \/ i + n >= Len(s) THEN points[i + 1]
            ELSE IF broken # None THEN points[i + broken + 1]
            ELSE <<Point(s, i, n)>> \o points[i + n + 1]
      all == points[0]
  IN  SubSeq(all, 1, CHOOSE n \in 0 .. Len(all) :
        (\A i \in 1 .. n : all[i] # 0) /\ (n = Len(all) \/ all[n + 1] = 0))

u_length(s) == Len(u_str(s))

\* u_str gives no code point that takes five or six bytes.
Encoded(c) ==
  LET n == CHOOSE m \in 0 .. 3 : c < TooLarge[m + 1] /\ (m > 0 => c >= TooLarge[m])
  IN  <<Mark[n + 1] + (c \div Place[n + 1])>> \o [k \in 1 .. n |-> 128 + ((c \div Place[n - k + 1]) % 64)]

\* The end is excluded here; for cut it is included.
u_cut(s, begin, end) ==
  FlattenSeq([k \in 1 .. (IF end < 0 THEN u_length(s) ELSE end) - begin |-> Encoded(u_str(s)[begin + k])])

\* The zero at the end is looked at as well, and ends no character.
test_utf(s) ==
  LET valid[i \in 0 .. Len(s) + 1] ==
        LET n == Continuation(At(s, i)) IN
        IF i > Len(s) THEN TRUE
        ELSE /\ n # None /\ i + n <= Len(s)
             /\ FirstBroken(s, i, n) = None
             /\ valid[i + n + 1]
  IN  s # <<>> => valid[0]

-----------------------------------------------------------------------------
(* Any text                                                                 *)

Given == FlattenSeq(input)

Give(piece) ==
  /\ Len(input) < MaxPieces
  /\ \E A \in Alphabets : ToSet(input) \cup {piece} \subseteq A
  /\ input' = Append(input, piece)

Receive == \E piece \in UNION Alphabets : Give(piece)
Reading == input = <<>> /\ [][Receive]_input

\* A character that is longer than it need be.
Longer(s, i) ==
  \/ At(s, i) \in {192, 193}
  \/ At(s, i) = 224 /\ At(s, i + 1) < 160
  \/ At(s, i) = 240 /\ At(s, i + 1) < 144

Survives(s) == u_cut(s, 0, None) = s

\* Text that test_utf takes and that has no character longer than it need be
\* comes back from its code points (1557-1585, 617-690, 997-1051), in one piece
\* or in two; what u_str makes of any other text, every character cut off or
\* broken included, is such text.
UnicodeKept ==
  LET s == Given
      again == u_cut(s, 0, None)
  IN  /\ test_utf(s) /\ 0 \notin ToSet(s) /\ (\A i \in 0 .. Len(s) - 1 : ~Longer(s, i)) => Survives(s)
      /\ test_utf(again) /\ Survives(again) /\ u_str(again) = u_str(s)
      /\ \A k \in 0 .. u_length(s) : u_cut(s, 0, k) \o u_cut(s, k, None) = again
=============================================================================
