---------------------------- MODULE StringBufProofs ----------------------------
(***************************************************************************)
(* Theorems about StringBuf, Text and Unicode.                             *)
(*                                                                         *)
(* Typed is inductive; a lemma per member says what it does to one string, *)
(* and which of them keep it sound.  What the functions of Text find is    *)
(* proved by induction from the end of the text down (Downwards), for the  *)
(* functions that cut all at once: CutsAs is what strsplit and replace     *)
(* have in common.  CSVsplit goes forward, with what it has read so far    *)
(* and what is left to pick being all that is picked (CSVRead).  A code    *)
(* point and the bytes it is written as are compared case by case, by how  *)
(* many bytes there are (Spelt).                                           *)
(***************************************************************************)
EXTENDS StringBuf, Unicode, SequenceLemmas

\* What the members of a string may be.
Objects == {r \in [text : Seq(Chars), ln : Nat, buflen : Nat, room : Nat] : r.buflen >= directsize}

\* Sound, and moved from, of what a string is instead of its name.
Held(r) == r.ln = Len(r.text) /\ Len(r.text) < r.room /\ r.room = r.buflen
Spent(r) == r.ln = 0 /\ r.text = <<>> /\ r.room = 0 /\ r.buflen > directsize

\* The inductive invariant: a string that can be used has its text in the bound.
Typed ==
  /\ str \in [Strings -> Objects]
  /\ \A x \in Strings : Usable(x) => Len(str[x].text) <= MaxLen + 1

-----------------------------------------------------------------------------
(* The operators on a buffer                                                 *)

LEMMA SizesAre ==
  /\ directsize \in Nat \ {0} /\ Small \in Nat \ {0} /\ Large \in Nat \ {0}
  /\ NumberRoom \in Nat /\ SizeMax \in Nat /\ MaxLen \in Nat /\ MaxLen < SizeMax
  /\ Chars \subseteq Int /\ 0 \notin Chars
BY SizeAssumption, CharsAssumption

LEMMA EmptyText == <<>> \in Seq(Chars) /\ Len(<<>>) = 0
BY EmptySeq

LEMMA NewSizeIs ==
  ASSUME NEW len \in Nat
  PROVE  NewSize(len) \in Nat /\ NewSize(len) >= len
<1> DEFINE sizes == {Small * 2 ^ k : k \in 0 .. len}
           wide == {n \in sizes : n >= len}
<1>1. CASE len >= Large
  BY <1>1, SizesAre DEF NewSize
<1>2. CASE ~(len >= Large)
  <2> DEFINE least == CHOOSE n \in sizes : n >= len /\ \A m \in sizes : m >= len => n <= m
  <2>1. NewSize(len) = 2 * least
    BY <1>2 DEF NewSize
  <2>2. \A k \in 0 .. len : Small * 2 ^ k \in Nat
    <3>1. \A k \in 0 .. len : 2 ^ k \in Nat
      BY PowerAbove
    <3> QED
      BY <3>1, SizesAre
  <2>3. Small * 2 ^ len \in sizes /\ Small * 2 ^ len >= len
    <3>1. 2 ^ len \in Nat /\ len < 2 ^ len /\ len \in 0 .. len
      BY PowerAbove
    <3>2. \A x \in Nat : Small * x >= x
      BY SizesAre
    <3>3. Small * 2 ^ len >= 2 ^ len /\ Small * 2 ^ len \in Nat
      BY <2>2, <3>1, <3>2
    <3> QED
      BY <3>1, <3>3
  <2>4. sizes \subseteq Nat
    BY <2>2
  <2> HIDE DEF sizes
  <2>5. wide \in SUBSET Nat /\ wide # {}
    BY <2>3, <2>4
  <2>6. PICK s \in wide : \A u \in wide : s <= u
    BY <2>5, Least
  <2>7. \E n \in sizes : n >= len /\ \A m \in sizes : m >= len => n <= m
    BY <2>6
  <2>8. least \in sizes /\ least >= len
    BY <2>7
  <2> HIDE DEF least
  <2> QED
    BY <2>1, <2>4, <2>8
<1> QED
  BY <1>1, <1>2

LEMMA EmptyIs ==
  /\ Empty \in Objects /\ Held(Empty) /\ Empty.text = <<>> /\ Empty.ln = 0
  /\ Empty.buflen = directsize /\ Empty.room = directsize
BY SizesAre, EmptyText DEF Empty, Objects, Held

LEMMA bufsizeIs ==
  ASSUME NEW len \in Nat
  PROVE  LET b == bufsize(len) IN
         b \in Objects /\ Held(b) /\ b.text = <<>> /\ b.ln = 0 /\ b.room >= len
<1>1. CASE len <= directsize
  BY <1>1, EmptyIs, SizesAre DEF bufsize
<1>2. CASE ~(len <= directsize)
  <2>1. NewSize(len) \in Nat /\ NewSize(len) >= len
    BY NewSizeIs
  <2>2. bufsize(len) = [text |-> <<>>, ln |-> 0, buflen |-> NewSize(len), room |-> NewSize(len)]
    BY <1>2 DEF bufsize, Empty
  <2>3. NewSize(len) > directsize
    BY <1>2, <2>1, SizesAre
  <2> QED
    BY <2>1, <2>2, <2>3, EmptyText, SizesAre DEF Objects, Held
<1> QED
  BY <1>1, <1>2

LEMMA ObjectIs ==
  ASSUME NEW r \in Objects
  PROVE  /\ r.text \in Seq(Chars) /\ Len(r.text) \in Nat /\ r.ln \in Nat /\ r.buflen \in Nat /\ r.room \in Nat
         /\ r.buflen >= directsize
         /\ r = [text |-> r.text, ln |-> r.ln, buflen |-> r.buflen, room |-> r.room]
BY LenProperties DEF Objects

LEMMA rebufsizeIs ==
  ASSUME NEW r \in Objects, NEW len \in Nat
  PROVE  LET b == rebufsize(r, len) IN
         /\ b \in Objects /\ b.text = r.text /\ b.ln = r.ln
         /\ r.room = r.buflen => b.room = b.buflen /\ b.room >= len /\ b.room >= r.room
<1>1. CASE len <= r.buflen
  BY <1>1, ObjectIs DEF rebufsize
<1>2. CASE ~(len <= r.buflen)
  <2>1. NewSize(len) \in Nat /\ NewSize(len) >= len
    BY NewSizeIs
  <2>2. rebufsize(r, len) = [text |-> r.text, ln |-> r.ln, buflen |-> NewSize(len), room |-> NewSize(len)]
    BY <1>2 DEF rebufsize, Objects
  <2>3. NewSize(len) >= directsize /\ NewSize(len) >= r.buflen
    BY <1>2, <2>1, ObjectIs, SizesAre
  <2> QED
    BY <2>1, <2>2, <2>3, ObjectIs DEF Objects
<1> QED
  BY <1>1, <1>2

LEMMA strcpyIs ==
  ASSUME NEW r \in Objects, NEW i, NEW t
  PROVE  strcpy(r, i, t) =
           [text |-> SubSeq(r.text, 1, i) \o t, ln |-> r.ln, buflen |-> r.buflen, room |-> r.room]
<1> DEFINE s == SubSeq(r.text, 1, i) \o t
<1>1. strcpy(r, i, t) = [r EXCEPT !.text = s]
  BY DEF strcpy
<1> HIDE DEF s
<1>2. strcpy(r, i, t) = [text |-> s, ln |-> r.ln, buflen |-> r.buflen, room |-> r.room]
  BY <1>1 DEF Objects
<1> QED
  BY <1>2 DEF s

LEMMA DeadIs ==
  Dead \in Objects /\ Dead = [text |-> <<>>, ln |-> 0, buflen |-> directsize, room |-> 0]
<1>1. Dead = [text |-> <<>>, ln |-> 0, buflen |-> directsize, room |-> 0]
  BY DEF Dead, Empty
<1> QED
  BY <1>1, SizesAre, EmptyText DEF Objects

LEMMA AddedIs ==
  ASSUME NEW b \in Objects, b.ln = Len(b.text), NEW t \in Seq(Chars), NEW n \in Nat
  PROVE  /\ Added(b, t, n) \in Objects
         /\ b.room # 0 => Added(b, t, n) =
              [text |-> b.text \o t, ln |-> b.ln + n, buflen |-> b.buflen, room |-> b.room]
<1>1. CASE b.room = 0
  BY <1>1, DeadIs DEF Added
<1>2. CASE b.room # 0
  <2> DEFINE m == b.ln + n
             u == b.text \o t
             c == strcpy(b, b.ln, t)
  <2>1. SubSeq(b.text, 1, b.ln) = b.text
    BY ObjectIs, SubSeqFull
  <2>2. c = [text |-> SubSeq(b.text, 1, b.ln) \o t, ln |-> b.ln, buflen |-> b.buflen, room |-> b.room]
    BY strcpyIs
  <2>3. u \in Seq(Chars) /\ m \in Nat
    BY ObjectIs, ConcatAt
  <2>4. Added(b, t, n) = [c EXCEPT !.ln = c.ln + n]
    BY <1>2 DEF Added
  <2> HIDE DEF c
  <2>5. c.ln = b.ln
    BY <2>2
  <2>6. Added(b, t, n) = [c EXCEPT !.ln = m]
    BY <2>4, <2>5
  <2>7. c = [text |-> u, ln |-> b.ln, buflen |-> b.buflen, room |-> b.room]
    BY <2>1, <2>2
  <2> HIDE DEF u, m
  <2>8. Added(b, t, n) = [text |-> u, ln |-> m, buflen |-> b.buflen, room |-> b.room]
    BY <2>6, <2>7
  <2>9. Added(b, t, n) \in Objects
    BY <2>3, <2>8, ObjectIs DEF Objects
  <2> QED
    BY <2>8, <2>9 DEF u, m
<1> QED
  BY <1>1, <1>2

LEMMA AppendedIs ==
  ASSUME NEW r \in Objects, r.ln = Len(r.text), NEW t \in Seq(Chars)
  PROVE  /\ Appended(r, t) \in Objects
         /\ Held(r) => Held(Appended(r, t))
<1> DEFINE n == Len(t)
           b == rebufsize(r, r.ln + n + 1)
           a == Added(b, t, n)
<1>1. n \in Nat /\ r.ln + n + 1 \in Nat
  BY ObjectIs, LenProperties
<1>2. /\ b \in Objects /\ b.text = r.text /\ b.ln = r.ln
      /\ r.room = r.buflen => b.room = b.buflen /\ b.room >= r.ln + n + 1
  BY <1>1, rebufsizeIs
<1>3. Appended(r, t) = a
  BY DEF Appended
<1> HIDE DEF b
<1>4. /\ a \in Objects
      /\ b.room # 0 => a = [text |-> b.text \o t, ln |-> b.ln + n, buflen |-> b.buflen, room |-> b.room]
  BY <1>1, <1>2, AddedIs
<1>5. Len(r.text \o t) = Len(r.text) + n
  BY ObjectIs, ConcatAt
<1> HIDE DEF a
<1>6. ASSUME Held(r) PROVE Held(a)
  <2>1. b.room = b.buflen /\ b.room >= r.ln + n + 1 /\ b.room \in Nat /\ r.ln \in Nat
    BY <1>2, <1>6, ObjectIs DEF Held
  <2>2. b.room # 0
    BY <1>1, <2>1
  <2>3. a.text = r.text \o t /\ a.ln = r.ln + n /\ a.room = b.room /\ a.buflen = b.buflen
    BY <1>2, <1>4, <2>2
  <2> HIDE DEF n
  <2> QED
    BY <1>1, <1>5, <2>1, <2>3 DEF Held
<1> QED
  BY <1>3, <1>4, <1>6

LEMMA PutIs ==
  ASSUME NEW r \in Objects, NEW t \in Seq(Chars)
  PROVE  LET a == Put(r, t) IN
         /\ a \in Objects /\ a.text = t /\ a.ln = Len(t)
         /\ r.room = r.buflen /\ Len(t) < r.room => Held(a)
<1>1. SubSeq(r.text, 1, 0) \o t = t
  <2>1. SubSeq(r.text, 1, 0) = <<>>
    BY ObjectIs, SubSeqEmpty
  <2> QED
    BY <2>1, ConcatEmptySeq
<1>2. Put(r, t) = [text |-> t, ln |-> Len(t), buflen |-> r.buflen, room |-> r.room]
  BY <1>1, strcpyIs DEF Put
<1>3. Len(t) \in Nat
  BY LenProperties
<1> QED
  BY <1>2, <1>3, ObjectIs DEF Objects, Held

LEMMA FromTextIs ==
  ASSUME NEW t \in Seq(Chars)
  PROVE  FromText(t) \in Objects /\ Held(FromText(t)) /\ FromText(t).text = t /\ FromText(t).ln = Len(t)
<1>1. Len(t) + 1 \in Nat /\ Len(t) \in Nat
  BY LenProperties
<1> DEFINE b == bufsize(Len(t) + 1)
<1>2. b \in Objects /\ Held(b) /\ b.room >= Len(t) + 1
  BY <1>1, bufsizeIs
<1>3. b.room = b.buflen /\ Len(t) < b.room
  BY <1>1, <1>2, ObjectIs DEF Held
<1> HIDE DEF b
<1> QED
  BY <1>2, <1>3, PutIs DEF FromText, b

LEMMA FromNumberIs ==
  ASSUME NEW t \in Numbers
  PROVE  /\ FromNumber(t) \in Objects /\ Held(FromNumber(t))
         /\ FromNumber(t).text = t /\ FromNumber(t).ln = Len(t)
<1> DEFINE b == bufsize(NumberRoom)
<1>1. t \in Seq(Chars) /\ Len(t) \in Nat /\ Len(t) < NumberRoom
  BY TextsAssumption, LenProperties DEF Numbers
<1>2. b \in Objects /\ Held(b) /\ b.room >= NumberRoom
  BY SizesAre, bufsizeIs
<1>3. b.room = b.buflen /\ Len(t) < b.room
  BY <1>1, <1>2, SizesAre, ObjectIs DEF Held
<1> HIDE DEF b
<1> QED
  BY <1>1, <1>2, <1>3, PutIs DEF FromNumber, b

\* What is in files and in memory.
Codes == Chars \cup {0}

LEMMA UpToZeroIs ==
  ASSUME NEW d \in Seq(Codes)
  PROVE  /\ UpToZero(d) \in Seq(Chars) /\ Len(UpToZero(d)) <= Len(d)
         /\ 0 \notin ToSet(d) => UpToZero(d) = d
<1> DEFINE n == Len(d)
           B == {k \in Nat : k = n \/ d[k + 1] = 0}
           Ends(k) == (\A i \in 1 .. k : d[i] # 0) /\ (k = n \/ d[k + 1] = 0)
           z == CHOOSE k \in 0 .. n : Ends(k)
<1>0. n \in Nat /\ DOMAIN d = 1 .. n
  BY LenProperties
<1>1. \A i \in 1 .. n : d[i] \in Codes
  BY <1>0, ElementOfSeq
<1>2. UpToZero(d) = SubSeq(d, 1, z)
  BY DEF UpToZero
<1> HIDE DEF n
<1>3. n \in B
  BY <1>0
<1> HIDE DEF B, z
<1>4. PICK m \in 0 .. n : m \in B /\ \A k \in 0 .. m - 1 : k \notin B
  BY <1>0, <1>3, FirstUpTo
<1>5. Ends(m)
  <2>1. m = n \/ d[m + 1] = 0
    BY <1>4 DEF B
  <2>2. ASSUME NEW i \in 1 .. m PROVE d[i] # 0
    <3>1. i - 1 \in 0 .. m - 1 /\ i - 1 \in Nat /\ (i - 1) + 1 = i
      BY <1>0, <1>4
    <3>2. i - 1 \notin B
      BY <1>4, <3>1
    <3> QED
      BY <3>1, <3>2 DEF B
  <2> QED
    BY <2>1, <2>2
<1>6. z \in 0 .. n /\ Ends(z)
  <2> HIDE DEF Ends
  <2> QED
    BY <1>4, <1>5 DEF z
<1>7. \A i \in 1 .. z : d[i] \in Chars
  <2>1. ASSUME NEW i \in 1 .. z PROVE i \in 1 .. n
    BY <1>0, <1>6
  <2>2. \A i \in 1 .. z : d[i] # 0
    BY <1>6
  <2> QED
    BY <1>1, <2>1, <2>2 DEF Codes
<1>8. UpToZero(d) \in Seq(Chars) /\ Len(UpToZero(d)) = z
  <2> HIDE DEF Ends
  <2>1. SubSeq(d, 1, z) \in Seq(Chars) /\ Len(SubSeq(d, 1, z)) = IF 1 <= z THEN z - 1 + 1 ELSE 0
    BY <1>0, <1>6, <1>7, SubSeqProperties
  <2> QED
    BY <1>0, <1>2, <1>6, <2>1
<1>9. ASSUME 0 \notin ToSet(d) PROVE UpToZero(d) = d
  <2>1. ASSUME z # n PROVE FALSE
    <3>1. z + 1 \in DOMAIN d
      <4> HIDE DEF Ends
      <4> QED
        BY <1>0, <1>6, <2>1
    <3>2. d[z + 1] = 0
      BY <1>6, <2>1
    <3> QED
      BY <1>9, <3>1, <3>2 DEF ToSet
  <2> QED
    BY <1>2, <2>1, SubSeqFull DEF n
<1> HIDE DEF Ends
<1> QED
  BY <1>0, <1>6, <1>8, <1>9 DEF n

-----------------------------------------------------------------------------
(* Texts put together                                                        *)

\* What a temporary is built of.
BuiltAs(f, pieces) ==
  f = [i \in 0 .. Len(pieces) |->
        IF i = 0 THEN Empty
        ELSE IF pieces[i] = <<>> THEN f[i - 1] ELSE Appended(f[i - 1], pieces[i])]

Whole == {r \in Objects : Held(r)}

LEMMA BuiltIs ==
  ASSUME NEW pieces \in Seq(Seq(Chars))
  PROVE  Built(pieces) \in Objects /\ Held(Built(pieces))
<1> DEFINE n == Len(pieces)
           More(i, r) == IF pieces[i] = <<>> THEN r ELSE Appended(r, pieces[i])
           step == [i \in 1 .. n |-> [r \in Whole |-> More(i, r)]]
<1>1. n \in Nat /\ \A i \in 1 .. n : pieces[i] \in Seq(Chars)
  BY LenProperties, ElementOfSeq
<1>2. \A i \in 1 .. n : \A r \in Whole : More(i, r) \in Whole
  BY <1>1, AppendedIs DEF Whole, Held
<1> HIDE DEF n, More
<1>3. step \in [1 .. n -> [Whole -> Whole]] /\ \A i \in 1 .. n : \A r \in Whole : step[i][r] = More(i, r)
  BY <1>2
<1>4. Empty \in Whole
  BY EmptyIs DEF Whole
<1> HIDE DEF step
<1>0. PICK f : Leads(f, Whole, Empty, n, step)
  BY <1>1, <1>3, <1>4, Recursion
<1>5. /\ f \in [0 .. n -> Whole] /\ f[0] = Empty /\ \A i \in 1 .. n : f[i] = step[i][f[i - 1]]
      /\ \A g : /\ g[0] = Empty
                /\ \A i \in 1 .. n : g[i - 1] \in Whole => g[i] = step[i][g[i - 1]]
                => \A i \in 0 .. n : g[i] = f[i]
  BY <1>0 DEF Leads
<1>6. BuiltAs(f, pieces)
  <2>1. ASSUME NEW i \in 0 .. n PROVE f[i] = IF i = 0 THEN Empty ELSE More(i, f[i - 1])
    <3>1. CASE i = 0
      BY <1>5, <3>1
    <3>2. CASE i # 0
      <4>1. i \in 1 .. n /\ i - 1 \in 0 .. n
        BY <1>1, <3>2
      <4>2. f[i - 1] \in Whole
        BY <1>5, <4>1
      <4> QED
        BY <1>3, <1>5, <3>2, <4>1, <4>2
    <3> QED
      BY <3>1, <3>2
  <2>2. f = [i \in 0 .. n |-> IF i = 0 THEN Empty ELSE More(i, f[i - 1])]
    BY <1>5, <2>1
  <2> QED
    BY <2>2 DEF BuiltAs, n, More
<1> DEFINE built == CHOOSE g : BuiltAs(g, pieces)
<1>7. BuiltAs(built, pieces)
  BY <1>6
<1>8. Built(pieces) = built[n]
  BY DEF Built, BuiltAs, n
<1> HIDE DEF built
<1>9. built[0] = Empty /\ \A i \in 1 .. n : built[i] = More(i, built[i - 1])
  <2>1. built = [i \in 0 .. n |-> IF i = 0 THEN Empty ELSE More(i, built[i - 1])]
    BY <1>7 DEF BuiltAs, n, More
  <2> QED
    BY <1>1, <2>1
<1>10. \A i \in 0 .. n : built[i] = f[i]
  <2>1. \A i \in 1 .. n : built[i - 1] \in Whole => built[i] = step[i][built[i - 1]]
    BY <1>3, <1>9
  <2> QED
    BY <1>5, <1>9, <2>1
<1>11. built[n] \in Whole
  BY <1>1, <1>5, <1>10
<1> QED
  BY <1>8, <1>11 DEF Whole

\* joined, the function join is the last value of.
JoinedAs(f, texts, bind) ==
  f = [i \in DOMAIN texts |-> IF i = 1 THEN texts[1] ELSE f[i - 1] \o bind \o texts[i]]

Joins(f, S, texts, bind) ==
  /\ f \in [1 .. Len(texts) -> Seq(S)]
  /\ f[1] = texts[1]
  /\ \A i \in 2 .. Len(texts) : f[i] = f[i - 1] \o bind \o texts[i]
  /\ \A g : JoinedAs(g, texts, bind) => g = f

LEMMA JoinedIs ==
  ASSUME NEW S, NEW texts \in Seq(Seq(S)), NEW bind \in Seq(S), texts # <<>>
  PROVE  \E f : Joins(f, S, texts, bind) /\ JoinedAs(f, texts, bind)
<1> DEFINE n == Len(texts)
           More(i, t) == t \o bind \o texts[i + 1]
           step == [i \in 1 .. n - 1 |-> [t \in Seq(S) |-> More(i, t)]]
           Q == Seq(S)
<1>1. n \in Nat /\ n # 0 /\ DOMAIN texts = 1 .. n /\ \A i \in 1 .. n : texts[i] \in Seq(S)
  BY LenProperties, ElementOfSeq, EmptySeq
<1>2. \A i \in 1 .. n - 1 : \A t \in Q : More(i, t) \in Q
  <2>1. ASSUME NEW i \in 1 .. n - 1, NEW t \in Q PROVE More(i, t) \in Q
    <3>1. i + 1 \in 1 .. n
      BY <1>1
    <3>2. texts[i + 1] \in Seq(S) /\ t \o bind \in Seq(S)
      BY <1>1, <3>1, ConcatAt
    <3> QED
      BY <3>2, ConcatAt
  <2> QED
    BY <2>1
<1> HIDE DEF n, More, Q
<1>3. step \in [1 .. n - 1 -> [Q -> Q]] /\ \A i \in 1 .. n - 1 : \A t \in Q : step[i][t] = More(i, t)
  BY <1>2 DEF Q
<1>4. texts[1] \in Q /\ n - 1 \in Nat
  BY <1>1 DEF Q
<1> HIDE DEF step
<1>5. PICK h : Leads(h, Q, texts[1], n - 1, step)
  BY <1>3, <1>4, Recursion
<1>6. /\ h \in [0 .. n - 1 -> Q] /\ h[0] = texts[1] /\ \A i \in 1 .. n - 1 : h[i] = step[i][h[i - 1]]
      /\ \A g : /\ g[0] = texts[1]
                /\ \A i \in 1 .. n - 1 : g[i - 1] \in Q => g[i] = step[i][g[i - 1]]
                => \A i \in 0 .. n - 1 : g[i] = h[i]
  BY <1>5 DEF Leads
<1> DEFINE f == [i \in 1 .. n |-> h[i - 1]]
<1>7. f \in [1 .. n -> Q] /\ f[1] = texts[1] /\ \A i \in 1 .. n : f[i] = h[i - 1]
  BY <1>1, <1>6
<1> HIDE DEF f
<1>8. ASSUME NEW i \in 2 .. n PROVE f[i] = f[i - 1] \o bind \o texts[i]
  <2>1. i - 1 \in 1 .. n - 1 /\ (i - 1) - 1 \in 0 .. n - 1 /\ (i - 1) + 1 = i /\ i \in 1 .. n /\ i - 1 \in 1 .. n
    BY <1>1
  <2>2. h[i - 1] = More(i - 1, h[(i - 1) - 1])
    BY <1>3, <1>6, <2>1
  <2> QED
    BY <1>7, <2>1, <2>2 DEF More
<1>9. JoinedAs(f, texts, bind)
  <2>1. ASSUME NEW i \in 1 .. n PROVE f[i] = IF i = 1 THEN texts[1] ELSE f[i - 1] \o bind \o texts[i]
    <3>1. i = 1 \/ i \in 2 .. n
      BY <1>1
    <3>2. i \in 2 .. n => i # 1
      OBVIOUS
    <3> QED
      BY <1>7, <1>8, <3>1, <3>2
  <2>2. f = [i \in 1 .. n |-> IF i = 1 THEN texts[1] ELSE f[i - 1] \o bind \o texts[i]]
    BY <1>7, <2>1
  <2> QED
    BY <1>1, <2>2 DEF JoinedAs
<1>10. ASSUME NEW g, JoinedAs(g, texts, bind) PROVE g = f
  <2>1. g = [i \in 1 .. n |-> IF i = 1 THEN texts[1] ELSE g[i - 1] \o bind \o texts[i]]
    BY <1>1, <1>10 DEF JoinedAs
  <2> DEFINE k == [i \in 0 .. n - 1 |-> g[i + 1]]
  <2>2. k[0] = texts[1] /\ \A i \in 0 .. n - 1 : k[i] = g[i + 1]
    BY <1>1, <2>1
  <2> HIDE DEF k
  <2>3. ASSUME NEW i \in 1 .. n - 1, k[i - 1] \in Q PROVE k[i] = step[i][k[i - 1]]
    <3>1. i + 1 \in 1 .. n /\ i + 1 # 1 /\ (i + 1) - 1 = i /\ i \in 0 .. n - 1 /\ i - 1 \in 0 .. n - 1 /\ (i - 1) + 1 = i
      BY <1>1
    <3>2. g[i + 1] = g[i] \o bind \o texts[i + 1]
      BY <2>1, <3>1
    <3>3. k[i] = More(i, k[i - 1])
      BY <2>2, <3>1, <3>2 DEF More
    <3> QED
      BY <1>3, <2>3, <3>3
  <2>4. \A i \in 0 .. n - 1 : k[i] = h[i]
    BY <1>6, <2>2, <2>3
  <2>5. ASSUME NEW i \in 1 .. n PROVE g[i] = f[i]
    <3>1. i - 1 \in 0 .. n - 1 /\ (i - 1) + 1 = i
      BY <1>1
    <3> QED
      BY <1>7, <2>2, <2>4, <3>1
  <2>6. g = [i \in 1 .. n |-> g[i]]
    BY <2>1
  <2> QED
    BY <1>7, <2>5, <2>6
<1> QED
  BY <1>7, <1>8, <1>9, <1>10 DEF Joins, n, Q

\* join, step by step.
LEMMA JoinIs ==
  ASSUME NEW S, NEW texts \in Seq(Seq(S)), NEW bind \in Seq(S), texts # <<>>
  PROVE  \E f : Joins(f, S, texts, bind) /\ join(texts, bind) = f[Len(texts)]
<1> DEFINE joined == CHOOSE g : JoinedAs(g, texts, bind)
<1>1. join(texts, bind) = joined[Len(texts)]
  BY DEF join, JoinedAs
<1>2. PICK f : Joins(f, S, texts, bind) /\ JoinedAs(f, texts, bind)
  BY JoinedIs
<1>3. JoinedAs(joined, texts, bind)
  BY <1>2
<1> HIDE DEF joined
<1>4. joined = f
  BY <1>2, <1>3 DEF Joins
<1> QED
  BY <1>1, <1>2, <1>4

LEMMA JoinType ==
  ASSUME NEW S, NEW texts \in Seq(Seq(S)), NEW bind \in Seq(S)
  PROVE  join(texts, bind) \in Seq(S)
<1>1. CASE texts = <<>>
  BY <1>1, EmptySeq DEF join
<1>2. CASE texts # <<>>
  <2>1. PICK f : Joins(f, S, texts, bind) /\ join(texts, bind) = f[Len(texts)]
    BY <1>2, JoinIs
  <2>2. Len(texts) \in Nat /\ Len(texts) # 0
    BY <1>2, LenProperties, EmptySeq
  <2>3. Len(texts) \in 1 .. Len(texts)
    BY <2>2
  <2> QED
    BY <2>1, <2>3 DEF Joins
<1> QED
  BY <1>1, <1>2

LEMMA SingleIs ==
  ASSUME NEW S, NEW a \in S
  PROVE  <<a>> \in Seq(S) /\ Len(<<a>>) = 1 /\ <<a>>[1] = a /\ <<a>> # <<>>
OBVIOUS

LEMMA JoinOne ==
  ASSUME NEW S, NEW t \in Seq(S), NEW bind \in Seq(S)
  PROVE  join(<<t>>, bind) = t
<1>1. <<t>> \in Seq(Seq(S)) /\ Len(<<t>>) = 1 /\ <<t>>[1] = t /\ <<t>> # <<>>
  BY SingleIs
<1>2. PICK f : Joins(f, S, <<t>>, bind) /\ join(<<t>>, bind) = f[Len(<<t>>)]
  BY <1>1, JoinIs
<1> QED
  BY <1>1, <1>2 DEF Joins

\* The first, the binding, and the rest joined.
Prefixed(p, rest, bind) == join(<<p>> \o rest, bind) = p \o (bind \o join(rest, bind))

LEMMA JoinMore ==
  ASSUME NEW S, NEW p \in Seq(S), NEW rest \in Seq(Seq(S)), rest # <<>>, NEW bind \in Seq(S)
  PROVE  Prefixed(p, rest, bind)
<1> DEFINE all == <<p>> \o rest
           n == Len(rest)
<1>1. n \in Nat /\ n # 0 /\ \A i \in 1 .. n : rest[i] \in Seq(S)
  BY LenProperties, ElementOfSeq, EmptySeq
<1>2. <<p>> \in Seq(Seq(S)) /\ Len(<<p>>) = 1 /\ <<p>>[1] = p
  BY SingleIs
<1>3. all \in Seq(Seq(S)) /\ Len(all) = n + 1 /\ all[1] = p /\ \A i \in 1 .. n : all[1 + i] = rest[i]
  <2>1. /\ all \in Seq(Seq(S)) /\ Len(all) = Len(<<p>>) + Len(rest)
        /\ \A i \in 1 .. Len(<<p>>) : all[i] = <<p>>[i]
        /\ \A i \in 1 .. Len(rest) : all[Len(<<p>>) + i] = rest[i]
    BY <1>2, ConcatAt
  <2>2. 1 \in 1 .. Len(<<p>>)
    BY <1>2
  <2> QED
    BY <1>1, <1>2, <2>1, <2>2
<1>4. all # <<>>
  BY <1>1, <1>3, EmptySeq
<1> HIDE DEF all
<1>5. PICK f : Joins(f, S, all, bind) /\ join(all, bind) = f[n + 1]
  <2>1. \E f : Joins(f, S, all, bind) /\ join(all, bind) = f[Len(all)]
    BY <1>3, <1>4, JoinIs
  <2> HIDE DEF n
  <2> QED
    BY <1>3, <2>1
<1>6. PICK g : Joins(g, S, rest, bind) /\ join(rest, bind) = g[n]
  BY JoinIs
<1> HIDE DEF n
<1>7. /\ f \in [1 .. n + 1 -> Seq(S)] /\ f[1] = p
      /\ \A i \in 2 .. n + 1 : f[i] = f[i - 1] \o bind \o all[i]
  BY <1>3, <1>5 DEF Joins
<1>8. /\ g \in [1 .. n -> Seq(S)] /\ g[1] = rest[1]
      /\ \A i \in 2 .. n : g[i] = g[i - 1] \o bind \o rest[i]
  BY <1>6 DEF Joins, n
<1> DEFINE T == {i \in Nat : i + 1 <= n => f[i + 2] = p \o (bind \o g[i + 1])}
<1>9. 0 \in T
  <2>1. f[2] = f[1] \o bind \o all[2]
    <3>1. 2 \in 2 .. n + 1 /\ 2 - 1 = 1
      BY <1>1
    <3> QED
      BY <1>7, <3>1
  <2>2. all[2] = rest[1] /\ rest[1] \in Seq(S)
    <3>1. 1 \in 1 .. n /\ 1 + 1 = 2
      BY <1>1
    <3> QED
      BY <1>1, <1>3, <3>1
  <2>3. (p \o bind) \o rest[1] = p \o (bind \o rest[1])
    <3>1. Brackets(p, bind, rest[1])
      BY <2>2, Assoc
    <3> QED
      BY <3>1 DEF Brackets
  <2>4. f[2] = (p \o bind) \o rest[1] /\ g[1] = rest[1]
    BY <1>7, <1>8, <2>1, <2>2
  <2>5. f[2] = p \o (bind \o g[1])
    BY <2>3, <2>4
  <2>6. 0 + 2 = 2 /\ 0 + 1 = 1 /\ 0 \in Nat
    OBVIOUS
  <2> HIDE DEF T
  <2> QED
    BY <2>5, <2>6 DEF T
<1>10. ASSUME NEW i \in Nat, i \in T PROVE i + 1 \in T
  <2> SUFFICES ASSUME i + 2 <= n PROVE f[i + 3] = p \o (bind \o g[i + 2])
    <3>1. (i + 1) + 1 = i + 2 /\ (i + 1) + 2 = i + 3
      OBVIOUS
    <3> QED
      BY <3>1
  <2>1. i + 3 \in 2 .. n + 1 /\ (i + 3) - 1 = i + 2 /\ i + 2 \in 2 .. n /\ (i + 2) - 1 = i + 1 /\ i + 1 \in 1 .. n
        /\ i + 2 \in 1 .. n /\ 1 + (i + 2) = i + 3
    <3> HIDE DEF T
    <3> QED
      BY SMTT(40), <1>1
  <2>2. f[i + 2] = p \o (bind \o g[i + 1])
    BY <1>10, <2>1
  <2>3. f[i + 3] = f[i + 2] \o bind \o all[i + 3]
    BY <1>7, <2>1
  <2>4. all[i + 3] = rest[i + 2] /\ rest[i + 2] \in Seq(S)
    BY <1>1, <1>3, <2>1
  <2>5. g[i + 2] = g[i + 1] \o bind \o rest[i + 2] /\ g[i + 1] \in Seq(S)
    BY <1>8, <2>1
  <2> DEFINE a == g[i + 1]
             c == rest[i + 2]
  <2> HIDE DEF a, c, T
  <2>6. a \in Seq(S) /\ c \in Seq(S)
    BY <2>4, <2>5 DEF a, c
  <2>7. ((p \o (bind \o a)) \o bind) \o c = p \o (bind \o ((a \o bind) \o c))
    <3>1. bind \o a \in Seq(S) /\ a \o bind \in Seq(S)
      BY <2>6, ConcatIn
    <3>2. bind \o (a \o bind) \in Seq(S)
      BY <3>1, ConcatIn
    <3>3. Brackets(p, bind \o a, bind)
      BY <3>1, Assoc
    <3>4. Brackets(bind, a, bind)
      BY <2>6, Assoc
    <3>5. Brackets(p, bind \o (a \o bind), c)
      BY <2>6, <3>2, Assoc
    <3>6. Brackets(bind, a \o bind, c)
      BY <2>6, <3>1, Assoc
    <3>7. ((p \o (bind \o a)) \o bind) \o c = (p \o (bind \o (a \o bind))) \o c
      BY <3>3, <3>4 DEF Brackets
    <3>8. (p \o (bind \o (a \o bind))) \o c = p \o (bind \o ((a \o bind) \o c))
      BY <3>5, <3>6 DEF Brackets
    <3> QED
      BY <3>7, <3>8
  <2> QED
    BY <2>2, <2>3, <2>4, <2>5, <2>7 DEF a, c
<1> HIDE DEF T
<1>11. Nat \subseteq T
  BY <1>9, <1>10, NatSet
<1>12. n - 1 \in T /\ (n - 1) + 1 = n /\ (n - 1) + 2 = n + 1
  BY <1>1, <1>11
<1>13. f[n + 1] = p \o (bind \o g[n])
  BY <1>1, <1>12 DEF T
<1> QED
  BY <1>5, <1>6, <1>13 DEF all, Prefixed

FlattenedAs(f, texts) ==
  f = [i \in 1 .. Len(texts) |-> IF i = 1 THEN texts[i] ELSE f[i - 1] \o texts[i]]

\* To flatten is to join with nothing between.
LEMMA FlattenIs ==
  ASSUME NEW S, NEW texts \in Seq(Seq(S)), texts # <<>>
  PROVE  FlattenSeq(texts) = join(texts, <<>>)
<1> DEFINE n == Len(texts)
           flatten == CHOOSE g : FlattenedAs(g, texts)
<1>1. n \in Nat /\ n # 0 /\ \A i \in 1 .. n : texts[i] \in Seq(S)
  BY LenProperties, ElementOfSeq, EmptySeq
<1>2. FlattenSeq(texts) = flatten[n]
  BY <1>1 DEF FlattenSeq, FlattenedAs
<1>3. <<>> \in Seq(S)
  BY EmptySeq
<1>4. PICK f : Joins(f, S, texts, <<>>) /\ join(texts, <<>>) = f[n]
  BY <1>3, JoinIs
<1> HIDE DEF n
<1>5. /\ f \in [1 .. n -> Seq(S)] /\ f[1] = texts[1]
      /\ \A i \in 2 .. n : f[i] = f[i - 1] \o <<>> \o texts[i]
  BY <1>4 DEF Joins, n
<1>6. ASSUME NEW i \in 2 .. n PROVE f[i] = f[i - 1] \o texts[i]
  <2>1. i - 1 \in 1 .. n /\ i \in 1 .. n
    BY <1>1
  <2>2. f[i - 1] \in Seq(S)
    BY <1>5, <2>1
  <2>3. f[i - 1] \o <<>> = f[i - 1]
    BY <2>2, ConcatEmptySeq
  <2>4. f[i] = (f[i - 1] \o <<>>) \o texts[i]
    BY <1>5
  <2> QED
    BY <2>3, <2>4
<1>7. FlattenedAs(f, texts)
  <2>1. ASSUME NEW i \in 1 .. n PROVE f[i] = IF i = 1 THEN texts[i] ELSE f[i - 1] \o texts[i]
    <3>1. i = 1 \/ i \in 2 .. n
      BY <1>1
    <3>2. i \in 2 .. n => i # 1
      OBVIOUS
    <3> QED
      BY <1>5, <1>6, <3>1, <3>2
  <2>2. f = [i \in 1 .. n |-> IF i = 1 THEN texts[i] ELSE f[i - 1] \o texts[i]]
    BY <1>5, <2>1
  <2> QED
    BY <2>2 DEF FlattenedAs, n
<1>8. FlattenedAs(flatten, texts)
  BY <1>7
<1> HIDE DEF flatten
<1>9. flatten[1] = texts[1] /\ \A i \in 2 .. n : flatten[i] = flatten[i - 1] \o texts[i]
  <2>1. flatten = [i \in 1 .. n |-> IF i = 1 THEN texts[i] ELSE flatten[i - 1] \o texts[i]]
    BY <1>8 DEF FlattenedAs, n
  <2>2. 1 \in 1 .. n
    BY <1>1
  <2>3. ASSUME NEW i \in 2 .. n PROVE i \in 1 .. n /\ i # 1
    BY <1>1
  <2> QED
    BY <2>1, <2>2, <2>3
<1> DEFINE T == {m \in Nat : m + 1 <= n => flatten[m + 1] = f[m + 1]}
<1>10. 0 \in T
  <2>1. 0 + 1 = 1 /\ 0 \in Nat
    OBVIOUS
  <2> QED
    BY <1>5, <1>9, <2>1
<1>11. ASSUME NEW m \in Nat, m \in T PROVE m + 1 \in T
  <2> SUFFICES ASSUME m + 2 <= n PROVE flatten[m + 2] = f[m + 2]
    <3>1. (m + 1) + 1 = m + 2
      OBVIOUS
    <3> QED
      BY <3>1
  <2>1. m + 2 \in 2 .. n /\ (m + 2) - 1 = m + 1 /\ m + 1 <= n
    BY <1>1
  <2>2. flatten[m + 1] = f[m + 1]
    BY <1>11, <2>1
  <2> QED
    BY <1>6, <1>9, <2>1, <2>2
<1> HIDE DEF T
<1>12. n - 1 \in T /\ n - 1 \in Nat /\ (n - 1) + 1 = n
  <2>1. Nat \subseteq T
    BY <1>10, <1>11, NatSet
  <2> QED
    BY <1>1, <2>1
<1>13. flatten[n] = f[n]
  BY <1>1, <1>12 DEF T
<1> QED
  BY <1>2, <1>4, <1>13

LEMMA FlattenMore ==
  ASSUME NEW S, NEW p \in Seq(S), NEW rest \in Seq(Seq(S)), rest # <<>>
  PROVE  FlattenSeq(<<p>> \o rest) = p \o FlattenSeq(rest)
<1>1. <<>> \in Seq(S) /\ <<p>> \in Seq(Seq(S)) /\ Len(<<p>>) = 1
  BY EmptySeq, SingleIs
<1>2. <<p>> \o rest \in Seq(Seq(S)) /\ <<p>> \o rest # <<>>
  <2>1. <<p>> \o rest \in Seq(Seq(S)) /\ Len(<<p>> \o rest) = Len(<<p>>) + Len(rest) /\ Len(rest) \in Nat
    BY <1>1, ConcatAt
  <2>2. Len(<<p>> \o rest) # 0
    BY <1>1, <2>1
  <2> QED
    BY <2>1, <2>2, EmptySeq
<1>3. FlattenSeq(<<p>> \o rest) = join(<<p>> \o rest, <<>>)
  BY <1>2, FlattenIs
<1>4. FlattenSeq(rest) = join(rest, <<>>) /\ join(rest, <<>>) \in Seq(S)
  <2>1. FlattenSeq(rest) = join(rest, <<>>)
    BY FlattenIs
  <2>2. join(rest, <<>>) \in Seq(S)
    BY <1>1, JoinType
  <2> QED
    BY <2>1, <2>2
<1>5. join(<<p>> \o rest, <<>>) = p \o (<<>> \o join(rest, <<>>))
  <2>1. Prefixed(p, rest, <<>>)
    BY <1>1, JoinMore
  <2> QED
    BY <2>1 DEF Prefixed
<1>6. <<>> \o join(rest, <<>>) = join(rest, <<>>)
  BY <1>4, ConcatEmptySeq
<1> QED
  BY <1>3, <1>4, <1>5, <1>6

LEMMA TwoAre ==
  ASSUME NEW S, NEW t \in Seq(S), NEW u \in Seq(S), NEW bind \in Seq(S)
  PROVE  /\ join(<<t, u>>, bind) \in Seq(S)
         /\ Len(join(<<t, u>>, bind)) = Len(FlattenSeq(<<t, u>>)) + Len(bind)
         /\ FlattenSeq(<<t, u>>) \in Seq(S)
<1> DEFINE rest == <<u>>
           both == <<t, u>>
<1>1. both = <<t>> \o rest
  <2>1. both \in Seq(Seq(S)) /\ Len(both) = 2 /\ both[1] = t /\ both[2] = u
    OBVIOUS
  <2>2. <<t>> \in Seq(Seq(S)) /\ Len(<<t>>) = 1 /\ <<t>>[1] = t
    BY SingleIs
  <2>3. rest \in Seq(Seq(S)) /\ Len(rest) = 1 /\ rest[1] = u
    BY SingleIs
  <2> HIDE DEF both, rest
  <2> DEFINE one == <<t>>
  <2> HIDE DEF one
  <2>4. one \in Seq(Seq(S)) /\ Len(one) = 1 /\ one[1] = t
    BY <2>2 DEF one
  <2>5. one \o rest = both
    <3>1. Len(both) = Len(one) + Len(rest)
      BY <2>1, <2>3, <2>4
    <3>2. \A i \in 1 .. Len(one) : both[i] = one[i]
      BY <2>1, <2>4
    <3>3. \A i \in 1 .. Len(rest) : both[Len(one) + i] = rest[i]
      BY <2>1, <2>3, <2>4
    <3> QED
      BY <2>1, <2>3, <2>4, <3>1, <3>2, <3>3, ConcatIs
  <2> QED
    BY <2>5 DEF one
<1>2. rest \in Seq(Seq(S)) /\ rest # <<>>
  BY SingleIs
<1>3. join(rest, bind) = u /\ FlattenSeq(rest) = u
  <2>1. join(rest, bind) = u
    BY JoinOne
  <2>2. join(rest, <<>>) = u
    <3>1. <<>> \in Seq(S)
      BY EmptySeq
    <3> QED
      BY <3>1, JoinOne
  <2>3. FlattenSeq(rest) = join(rest, <<>>)
    BY <1>2, FlattenIs
  <2> QED
    BY <2>1, <2>2, <2>3
<1> HIDE DEF rest, both
<1>4. join(both, bind) = t \o (bind \o u)
  <2>1. Prefixed(t, rest, bind)
    BY <1>2, JoinMore
  <2> QED
    BY <1>1, <1>3, <2>1 DEF Prefixed
<1>5. FlattenSeq(both) = t \o u
  BY <1>1, <1>2, <1>3, FlattenMore
<1>6. t \o u \in Seq(S) /\ Len(t \o u) = Len(t) + Len(u) /\ Len(t) \in Nat /\ Len(u) \in Nat
  BY ConcatAt
<1>7. bind \o u \in Seq(S) /\ Len(bind \o u) = Len(bind) + Len(u) /\ Len(bind) \in Nat
  BY ConcatAt
<1> DEFINE bu == bind \o u
<1> HIDE DEF bu
<1>8. bu \in Seq(S) /\ t \o bu \in Seq(S) /\ Len(t \o bu) = Len(t) + Len(bu)
  BY <1>7, ConcatAt DEF bu
<1>9. join(both, bind) = t \o bu
  BY <1>4 DEF bu
<1>10. /\ join(both, bind) \in Seq(S) /\ FlattenSeq(both) \in Seq(S)
       /\ Len(join(both, bind)) = Len(FlattenSeq(both)) + Len(bind)
  <2>1. Len(bu) = Len(bind) + Len(u)
    BY <1>7 DEF bu
  <2> QED
    BY <1>5, <1>6, <1>7, <1>8, <1>9, <2>1
<1> QED
  BY <1>10 DEF both

-----------------------------------------------------------------------------
(* What is found, and what is cut there                                      *)

LEMMA MatchesIs ==
  ASSUME NEW S, NEW s \in Seq(S), NEW t \in Seq(S), t # <<>>, NEW k \in Nat, Matches(s, k, t)
  PROVE  k + Len(t) \in k + 1 .. Len(s) /\ Len(t) \in Nat \ {0} /\ Len(s) \in Nat
<1>1. Len(t) \in Nat /\ Len(s) \in Nat /\ Len(t) # 0
  BY LenProperties, EmptySeq
<1> QED
  BY <1>1 DEF Matches

\* m is the first position from i on at which t is in s.
Finds(s, i, t, m) ==
  \/ m = None /\ \A k \in i .. Len(s) : ~Matches(s, k, t)
  \/ /\ m # None /\ m \in i .. Len(s) /\ m + Len(t) \in i + 1 .. Len(s)
     /\ Matches(s, m, t) /\ \A k \in i .. m - 1 : ~Matches(s, k, t)

LEMMA strstrIs ==
  ASSUME NEW S, NEW s \in Seq(S), NEW t \in Seq(S), t # <<>>, NEW i \in 0 .. Len(s)
  PROVE  Finds(s, i, t, strstr(s, i, t))
<1> DEFINE found == {k \in i .. Len(s) : Matches(s, k, t)}
           m == CHOOSE k \in found : \A l \in found : k <= l
<1>1. Len(s) \in Nat /\ Len(t) \in Nat /\ i \in Nat
  BY LenProperties
<1>2. CASE found = {}
  <2>1. strstr(s, i, t) = None
    BY <1>2 DEF strstr
  <2>2. \A k \in i .. Len(s) : ~Matches(s, k, t)
    BY <1>2
  <2> QED
    BY <2>1, <2>2 DEF Finds
<1>3. CASE found # {}
  <2>1. strstr(s, i, t) = m
    BY <1>3 DEF strstr
  <2>2. found \in SUBSET Nat
    BY <1>1
  <2> HIDE DEF found
  <2>3. \E k \in found : \A l \in found : k <= l
    BY <1>3, <2>2, Least
  <2>4. m \in found /\ \A l \in found : m <= l
    BY <2>3
  <2> HIDE DEF m
  <2>5. m \in i .. Len(s) /\ m \in Nat /\ Matches(s, m, t)
    BY <1>1, <2>4 DEF found
  <2>6. m + Len(t) \in m + 1 .. Len(s) /\ Len(t) \in Nat \ {0}
    BY <2>5, MatchesIs
  <2>7. m # None /\ m + Len(t) \in i + 1 .. Len(s)
    BY <1>1, <2>5, <2>6 DEF None
  <2>8. ASSUME NEW k \in i .. m - 1 PROVE ~Matches(s, k, t)
    <3>1. k \in i .. Len(s) /\ ~(m <= k)
      BY <1>1, <2>5
    <3> QED
      BY <2>4, <3>1 DEF found
  <2> QED
    BY <2>1, <2>5, <2>7, <2>8 DEF Finds
<1> QED
  BY <1>2, <1>3

LEMMA PartIs ==
  ASSUME NEW S, NEW s \in Seq(S), NEW i \in 0 .. Len(s), NEW m \in i .. Len(s)
  PROVE  /\ SubSeq(s, i + 1, m) \in Seq(S) /\ Len(SubSeq(s, i + 1, m)) = m - i
         /\ \A k \in 1 .. m - i : SubSeq(s, i + 1, m)[k] = s[i + k]
<1>1. Len(s) \in Nat /\ \A k \in 1 .. Len(s) : s[k] \in S
  BY LenProperties, ElementOfSeq
<1> DEFINE n == Len(s)
<1> HIDE DEF n
<1>2. /\ SubSeq(s, i + 1, m) \in Seq(S)
      /\ Len(SubSeq(s, i + 1, m)) = (IF i + 1 <= m THEN m - (i + 1) + 1 ELSE 0)
      /\ \A k \in 1 .. m - (i + 1) + 1 : SubSeq(s, i + 1, m)[k] = s[(i + 1) + k - 1]
  <2>1. \A k \in i + 1 .. m : s[k] \in S
    BY <1>1 DEF n
  <2>2. i + 1 \in Int /\ m \in Int
    BY <1>1
  <2> QED
    BY <2>1, <2>2, SubSeqProperties
<1>3. m - (i + 1) + 1 = m - i /\ (IF i + 1 <= m THEN m - (i + 1) + 1 ELSE 0) = m - i
  BY <1>1
<1>4. ASSUME NEW k \in 1 .. m - i PROVE (i + 1) + k - 1 = i + k
  BY <1>1
<1> QED
  BY <1>2, <1>3, <1>4

LEMMA FromIs ==
  ASSUME NEW S, NEW s \in Seq(S), NEW i \in 0 .. Len(s)
  PROVE  /\ From(s, i) \in Seq(S) /\ Len(From(s, i)) = Len(s) - i
         /\ \A k \in 1 .. Len(s) - i : From(s, i)[k] = s[i + k]
<1>1. Len(s) \in i .. Len(s)
  BY LenProperties
<1> QED
  BY <1>1, PartIs DEF From

\* The pieces of s from a position on: head up to each match, then what is left.
CutsAs(f, s, t, head) ==
  f = [i \in 0 .. Len(s) |->
        IF strstr(s, i, t) = None THEN <<From(s, i)>> ELSE head[i] \o f[strstr(s, i, t) + Len(t)]]

\* Where the search goes on.
After(s, t, i) == IF strstr(s, i, t) = None THEN i ELSE strstr(s, i, t) + Len(t)

LEMMA AfterIs ==
  ASSUME NEW S, NEW s \in Seq(S), NEW t \in Seq(S), t # <<>>, NEW i \in 0 .. Len(s)
  PROVE  /\ After(s, t, i) \in 0 .. Len(s)
         /\ strstr(s, i, t) = None <=> ~(After(s, t, i) > i)
         /\ strstr(s, i, t) # None => After(s, t, i) = strstr(s, i, t) + Len(t) /\ After(s, t, i) \in i + 1 .. Len(s)
<1>1. Len(s) \in Nat
  BY LenProperties
<1>2. Finds(s, i, t, strstr(s, i, t))
  BY strstrIs
<1>3. CASE strstr(s, i, t) = None
  BY <1>1, <1>3 DEF After
<1>4. CASE strstr(s, i, t) # None
  <2>1. strstr(s, i, t) + Len(t) \in i + 1 .. Len(s)
    BY <1>2, <1>4 DEF Finds
  <2>2. After(s, t, i) = strstr(s, i, t) + Len(t)
    BY <1>4 DEF After
  <2> QED
    BY <1>1, <1>4, <2>1, <2>2
<1> QED
  BY <1>3, <1>4

LEMMA CutsExist ==
  ASSUME NEW S, NEW s \in Seq(S), NEW t \in Seq(S), t # <<>>, NEW head \in [0 .. Len(s) -> Seq(Seq(S))]
  PROVE  \E f : CutsAs(f, s, t, head)
<1> DEFINE n == Len(s)
           Q == Seq(Seq(S))
           base == [i \in 0 .. n |-> <<From(s, i)>>]
           jump == [i \in 0 .. n |-> After(s, t, i)]
           step == [i \in 0 .. n |-> [q \in Q |-> head[i] \o q]]
<1>1. n \in Nat
  BY LenProperties
<1>2. jump \in [0 .. n -> 0 .. n] /\ \A i \in 0 .. n : jump[i] = After(s, t, i)
  BY AfterIs
<1>3. base \in [0 .. n -> Q] /\ \A i \in 0 .. n : base[i] = <<From(s, i)>>
  BY FromIs
<1>4. step \in [0 .. n -> [Q -> Q]] /\ \A i \in 0 .. n : \A q \in Q : step[i][q] = head[i] \o q
  <2>1. ASSUME NEW i \in 0 .. n, NEW q \in Q PROVE head[i] \o q \in Q
    <3>1. head[i] \in Q
      OBVIOUS
    <3> QED
      BY <3>1, ConcatIn
  <2> HIDE DEF Q, n
  <2> QED
    BY <2>1
<1> HIDE DEF n, Q, base, jump, step
<1>5. PICK f : LeadsBack(f, Q, n, jump, base, step)
  BY <1>1, <1>2, <1>3, <1>4, Backwards
<1>6. /\ f \in [0 .. n -> Q]
      /\ \A i \in 0 .. n : f[i] = IF jump[i] > i THEN step[i][f[jump[i]]] ELSE base[i]
  BY <1>5 DEF LeadsBack
<1>7. ASSUME NEW i \in 0 .. n
      PROVE  f[i] = IF strstr(s, i, t) = None THEN <<From(s, i)>> ELSE head[i] \o f[strstr(s, i, t) + Len(t)]
  <2>1. /\ jump[i] = After(s, t, i) /\ jump[i] \in 0 .. n
        /\ strstr(s, i, t) = None <=> ~(jump[i] > i)
        /\ strstr(s, i, t) # None => jump[i] = strstr(s, i, t) + Len(t)
    BY <1>2, AfterIs DEF n
  <2>2. f[jump[i]] \in Q
    BY <1>6, <2>1
  <2>3. CASE strstr(s, i, t) = None
    BY <1>3, <1>6, <2>1, <2>3
  <2>4. CASE strstr(s, i, t) # None
    BY <1>4, <1>6, <2>1, <2>2, <2>4
  <2> QED
    BY <2>3, <2>4
<1>8. f = [i \in 0 .. n |->
            IF strstr(s, i, t) = None THEN <<From(s, i)>> ELSE head[i] \o f[strstr(s, i, t) + Len(t)]]
  BY <1>6, <1>7
<1> QED
  BY <1>8 DEF CutsAs, n

LEMMA ConcatSome ==
  ASSUME NEW S, NEW a \in Seq(S), NEW b \in Seq(S), b # <<>>
  PROVE  a \o b \in Seq(S) /\ a \o b # <<>>
<1>1. a \o b \in Seq(S) /\ Len(a \o b) = Len(a) + Len(b) /\ Len(a) \in Nat /\ Len(b) \in Nat
  BY ConcatAt
<1>2. Len(b) # 0
  BY EmptySeq
<1>3. Len(a \o b) # 0
  BY <1>1, <1>2
<1> QED
  BY <1>1, <1>3, EmptySeq

LEMMA CutsAre ==
  ASSUME NEW S, NEW s \in Seq(S), NEW t \in Seq(S), t # <<>>, NEW head \in [0 .. Len(s) -> Seq(Seq(S))],
         NEW f, CutsAs(f, s, t, head)
  PROVE  \A i \in 0 .. Len(s) : f[i] \in Seq(Seq(S)) /\ f[i] # <<>>
<1> DEFINE n == Len(s)
           T == {i \in 0 .. n : f[i] \in Seq(Seq(S)) /\ f[i] # <<>>}
<1>1. n \in Nat
  BY LenProperties
<1>2. \A i \in 0 .. n :
        f[i] = IF strstr(s, i, t) = None THEN <<From(s, i)>> ELSE head[i] \o f[strstr(s, i, t) + Len(t)]
  BY DEF CutsAs
<1>3. ASSUME NEW i \in 0 .. n, \A k \in i + 1 .. n : k \in T PROVE i \in T
  <2>1. CASE strstr(s, i, t) = None
    <3>1. f[i] = <<From(s, i)>>
      BY <1>2, <2>1
    <3>2. From(s, i) \in Seq(S)
      BY FromIs
    <3> QED
      BY <3>1, <3>2, SingleIs
  <2>2. CASE strstr(s, i, t) # None
    <3> DEFINE k == strstr(s, i, t) + Len(t)
    <3>1. k \in i + 1 .. n
      BY <2>2, AfterIs
    <3>2. f[i] = head[i] \o f[k]
      BY <1>2, <2>2
    <3>3. f[k] \in Seq(Seq(S)) /\ f[k] # <<>>
      BY <1>3, <3>1
    <3>4. head[i] \in Seq(Seq(S))
      OBVIOUS
    <3> DEFINE a == head[i]
               b == f[k]
    <3>5. a \in Seq(Seq(S)) /\ b \in Seq(Seq(S)) /\ b # <<>>
      BY <3>3, <3>4
    <3> HIDE DEF a, b, k
    <3>6. a \o b \in Seq(Seq(S)) /\ a \o b # <<>>
      BY <3>5, ConcatSome
    <3> QED
      BY <3>2, <3>6 DEF a, b
  <2> QED
    BY <2>1, <2>2
<1> HIDE DEF T
<1>4. \A i \in 0 .. n : i \in T
  BY <1>1, <1>3, Downwards
<1> QED
  BY <1>4 DEF T

\* Each match is replaced.
HeadsBy(heads, s, t, by) ==
  \A i \in 0 .. Len(s) : strstr(s, i, t) # None => heads[i] = <<SubSeq(s, i + 1, strstr(s, i, t)), by>>

\* The pieces replace puts together.
LEMMA ReplacePiecesIs ==
  ASSUME NEW S, NEW s \in Seq(S), NEW t \in Seq(S), t # <<>>, NEW by \in Seq(S)
  PROVE  \E head \in [0 .. Len(s) -> Seq(Seq(S))] : \E f :
           CutsAs(f, s, t, head) /\ ReplacePieces(s, t, by) = f[0] /\ HeadsBy(head, s, t, by)
<1> DEFINE n == Len(s)
           Piece(i) == <<SubSeq(s, i + 1, strstr(s, i, t)), by>>
           head == [i \in 0 .. n |-> IF strstr(s, i, t) = None THEN <<>> ELSE Piece(i)]
           RestAs(f) == f = [i \in 0 .. n |->
             LET match == strstr(s, i, t)
             IN  IF match = None THEN <<From(s, i)>>
                 ELSE <<SubSeq(s, i + 1, match), by>> \o f[match + Len(t)]]
           rest == CHOOSE f : RestAs(f)
<1>1. \A i \in 0 .. n : strstr(s, i, t) # None => Piece(i) \in Seq(Seq(S))
  <2>1. ASSUME NEW i \in 0 .. n, strstr(s, i, t) # None PROVE SubSeq(s, i + 1, strstr(s, i, t)) \in Seq(S)
    <3>1. Finds(s, i, t, strstr(s, i, t))
      BY strstrIs
    <3>2. strstr(s, i, t) \in i .. Len(s)
      BY <2>1, <3>1 DEF Finds
    <3> QED
      BY <3>2, PartIs
  <2> QED
    BY <2>1
<1>2. head \in [0 .. n -> Seq(Seq(S))] /\ \A i \in 0 .. n : strstr(s, i, t) # None => head[i] = Piece(i)
  <2> HIDE DEF Piece
  <2> QED
    BY <1>1, EmptySeq
<1> HIDE DEF head
<1>3. ReplacePieces(s, t, by) = rest[0]
  BY DEF ReplacePieces
<1>4. ASSUME NEW f PROVE CutsAs(f, s, t, head) <=> RestAs(f)
  <2> HIDE DEF Piece
  <2>1. ASSUME NEW i \in 0 .. n
        PROVE  (IF strstr(s, i, t) = None THEN <<From(s, i)>> ELSE head[i] \o f[strstr(s, i, t) + Len(t)])
             = (IF strstr(s, i, t) = None THEN <<From(s, i)>> ELSE Piece(i) \o f[strstr(s, i, t) + Len(t)])
    BY <1>2
  <2>2. [i \in 0 .. n |-> IF strstr(s, i, t) = None THEN <<From(s, i)>> ELSE head[i] \o f[strstr(s, i, t) + Len(t)]]
      = [i \in 0 .. n |-> IF strstr(s, i, t) = None THEN <<From(s, i)>> ELSE Piece(i) \o f[strstr(s, i, t) + Len(t)]]
    BY <2>1
  <2> QED
    BY <2>2 DEF CutsAs, Piece
<1> HIDE DEF RestAs
<1>5. \E f : RestAs(f)
  BY <1>2, <1>4, CutsExist
<1>6. RestAs(rest)
  BY <1>5
<1> HIDE DEF rest
<1>7. CutsAs(rest, s, t, head)
  BY <1>4, <1>6
<1>8. HeadsBy(head, s, t, by)
  BY <1>2 DEF HeadsBy
<1> QED
  BY <1>2, <1>3, <1>7, <1>8

LEMMA ReplacePiecesIn ==
  ASSUME NEW S, NEW s \in Seq(S), NEW t \in Seq(S), t # <<>>, NEW by \in Seq(S)
  PROVE  /\ ReplacePieces(s, t, by) \in Seq(Seq(S))
         /\ contains(s, t) => ReplaceFirstPieces(s, t, by) \in Seq(Seq(S))
<1>1. 0 \in 0 .. Len(s) /\ Len(s) \in Nat
  BY LenProperties
<1>2. ReplacePieces(s, t, by) \in Seq(Seq(S))
  <2>1. PICK head \in [0 .. Len(s) -> Seq(Seq(S))] :
          \E f : CutsAs(f, s, t, head) /\ ReplacePieces(s, t, by) = f[0]
    BY ReplacePiecesIs
  <2>2. PICK f : CutsAs(f, s, t, head) /\ ReplacePieces(s, t, by) = f[0]
    BY <2>1
  <2>3. f[0] \in Seq(Seq(S))
    BY <1>1, <2>1, <2>2, CutsAre
  <2> QED
    BY <2>2, <2>3
<1>3. ASSUME contains(s, t) PROVE ReplaceFirstPieces(s, t, by) \in Seq(Seq(S))
  <2> DEFINE m == strstr(s, 0, t)
  <2>1. m # None /\ Finds(s, 0, t, m)
    BY <1>1, <1>3, strstrIs DEF contains
  <2> HIDE DEF m
  <2>2. m \in 0 .. Len(s) /\ m + Len(t) \in 0 + 1 .. Len(s)
    BY <2>1 DEF Finds
  <2>3. m + Len(t) \in 0 .. Len(s)
    BY <1>1, <2>2
  <2>4. SubSeq(s, 1, m) \in Seq(S)
    <3>1. 0 + 1 = 1
      OBVIOUS
    <3>2. SubSeq(s, 0 + 1, m) \in Seq(S)
      BY <1>1, <2>2, PartIs
    <3> QED
      BY <3>1, <3>2
  <2>5. From(s, m + Len(t)) \in Seq(S)
    BY <2>3, FromIs
  <2>6. ReplaceFirstPieces(s, t, by) = <<SubSeq(s, 1, m), by, From(s, m + Len(t))>>
    BY DEF ReplaceFirstPieces, m
  <2> DEFINE a == SubSeq(s, 1, m)
             b == From(s, m + Len(t))
             P == Seq(S)
  <2>7. a \in P /\ b \in P /\ by \in P
    BY <2>4, <2>5
  <2> HIDE DEF a, b, P
  <2>8. <<a, by, b>> \in Seq(P)
    BY <2>7
  <2> QED
    BY <2>6, <2>8 DEF a, b, P
<1> QED
  BY <1>2, <1>3

-----------------------------------------------------------------------------
(* What a step keeps                                                         *)

\* What a string can be and be used.
Fit(r) == Held(r) \/ Spent(r)

LEMMA MovedShape ==
  ASSUME NEW b, NEW m
  PROVE  [Empty EXCEPT !.buflen = b, !.room = m] = [text |-> <<>>, ln |-> 0, buflen |-> b, room |-> m]
<1> DEFINE e == [text |-> <<>>, ln |-> 0, buflen |-> b, room |-> directsize]
<1>1. [Empty EXCEPT !.buflen = b] = e
  BY DEF Empty
<1>2. [e EXCEPT !.room = m] = [text |-> <<>>, ln |-> 0, buflen |-> b, room |-> m]
  OBVIOUS
<1>3. [Empty EXCEPT !.buflen = b, !.room = m] = [[Empty EXCEPT !.buflen = b] EXCEPT !.room = m]
  OBVIOUS
<1> QED
  BY <1>1, <1>2, <1>3

LEMMA FitIs ==
  ASSUME NEW r \in Objects
  PROVE  /\ r.room = (IF r.buflen <= directsize THEN directsize ELSE r.buflen) <=> r.room = r.buflen
         /\ r = [Empty EXCEPT !.buflen = r.buflen, !.room = 0] /\ r.buflen > directsize <=> Spent(r)
<1>1. r.buflen >= directsize /\ r.buflen \in Nat /\ directsize \in Nat
  BY ObjectIs, SizesAre
<1>2. (IF r.buflen <= directsize THEN directsize ELSE r.buflen) = r.buflen
  BY <1>1
<1> DEFINE b == r.buflen
<1>3. [Empty EXCEPT !.buflen = b, !.room = 0] = [text |-> <<>>, ln |-> 0, buflen |-> b, room |-> 0]
  BY MovedShape
<1>4. r = [text |-> r.text, ln |-> r.ln, buflen |-> b, room |-> r.room]
  BY ObjectIs
<1> HIDE DEF b
<1>5. r = [Empty EXCEPT !.buflen = b, !.room = 0] <=> r.text = <<>> /\ r.ln = 0 /\ r.room = 0
  BY <1>3, <1>4
<1> QED
  BY <1>2, <1>5 DEF Spent, b

LEMMA UsableIs ==
  ASSUME Typed, NEW x \in Strings
  PROVE  /\ str[x] \in Objects
         /\ Sound(x) <=> Held(str[x])
         /\ Moved(x) <=> Spent(str[x])
         /\ Usable(x) <=> Fit(str[x])
<1>1. str[x] \in Objects
  BY DEF Typed
<1> DEFINE r == str[x]
<1>2. /\ r.room = (IF r.buflen <= directsize THEN directsize ELSE r.buflen) <=> r.room = r.buflen
      /\ r = [Empty EXCEPT !.buflen = r.buflen, !.room = 0] /\ r.buflen > directsize <=> Spent(r)
  BY <1>1, FitIs
<1> HIDE DEF r
<1>3. Sound(x) <=> Held(r)
  BY <1>2 DEF Sound, Held, r
<1>4. Moved(x) <=> Spent(r)
  BY <1>2 DEF Moved, r
<1> QED
  BY <1>1, <1>3, <1>4 DEF Usable, Fit, r

LEMMA UsableNext ==
  ASSUME str' \in [Strings -> Objects], NEW x \in Strings
  PROVE  (Usable(x))' <=> Fit(str'[x])
<1>1. str'[x] \in Objects
  OBVIOUS
<1> DEFINE r == str'[x]
<1>2. /\ r.room = (IF r.buflen <= directsize THEN directsize ELSE r.buflen) <=> r.room = r.buflen
      /\ r = [Empty EXCEPT !.buflen = r.buflen, !.room = 0] /\ r.buflen > directsize <=> Spent(r)
  BY <1>1, FitIs
<1> HIDE DEF r
<1>3. (Sound(x))' <=> Held(r)
  BY <1>2 DEF Sound, Held, r
<1>4. (Moved(x))' <=> Spent(r)
  BY <1>2 DEF Moved, r
<1> QED
  BY <1>3, <1>4 DEF Usable, Fit, r

\* What every change shows: the invariant, and that what it breaks is named.
Keeps == Typed' /\ (AllUsable' \/ Breaks)

\* A step that leaves usable strings only.
LEMMA FitKeeps ==
  ASSUME str' \in [Strings -> Objects],
         \A y \in Strings : Fit(str'[y]) /\ Len(str'[y].text) <= MaxLen + 1
  PROVE  Keeps
<1>1. Typed'
  BY DEF Typed
<1>2. AllUsable'
  BY UsableNext DEF AllUsable
<1> QED
  BY <1>1, <1>2 DEF Keeps

LEMMA Short ==
  ASSUME Typed, AllUsable, NEW x \in Strings
  PROVE  /\ str[x] \in Objects /\ Fit(str[x]) /\ Len(str[x].text) <= MaxLen + 1
         /\ str[x].ln = Len(str[x].text) /\ str[x].text \in Seq(Chars) /\ str[x].ln \in Nat
         /\ Held(str[x]) \/ (Moved(x) /\ Spent(str[x]) /\ str[x].ln = 0)
<1>1. Usable(x)
  BY DEF AllUsable
<1>2. str[x] \in Objects /\ Fit(str[x]) /\ (Moved(x) <=> Spent(str[x]))
  BY <1>1, UsableIs
<1>3. Len(str[x].text) <= MaxLen + 1
  BY <1>1 DEF Typed
<1>4. str[x].text \in Seq(Chars) /\ str[x].ln \in Nat
  BY <1>2, ObjectIs
<1> DEFINE r == str[x]
<1> HIDE DEF r
<1>5. r.ln = Len(r.text)
  BY <1>2, EmptyText DEF Fit, Held, Spent, r
<1>6. Held(r) \/ (Moved(x) /\ Spent(r) /\ r.ln = 0)
  BY <1>2 DEF Fit, Spent, r
<1> QED
  BY <1>2, <1>3, <1>4, <1>5, <1>6 DEF r

LEMMA SetIs ==
  ASSUME Typed, NEW x \in Strings, NEW r \in Objects, Set(x, r)
  PROVE  /\ str' \in [Strings -> Objects] /\ str'[x] = r /\ Len(r.text) <= MaxLen + 1
         /\ \A y \in Strings : y # x => str'[y] = str[y]
BY DEF Typed, Set

LEMMA SetTyped ==
  ASSUME Typed, NEW x \in Strings, NEW r \in Objects, Set(x, r)
  PROVE  Typed'
<1>1. /\ str' \in [Strings -> Objects] /\ str'[x] = r /\ Len(r.text) <= MaxLen + 1
      /\ \A y \in Strings : y # x => str'[y] = str[y]
  BY SetIs
<1>2. ASSUME NEW y \in Strings, Usable(y)' PROVE Len(str'[y].text) <= MaxLen + 1
  <2>1. CASE y = x
    BY <1>1, <2>1
  <2>2. CASE y # x
    <3>1. Fit(str'[y]) /\ str'[y] = str[y]
      BY <1>1, <1>2, <2>2, UsableNext
    <3>2. Usable(y)
      BY <3>1, UsableIs
    <3> QED
      BY <3>1, <3>2 DEF Typed
  <2> QED
    BY <2>1, <2>2
<1> QED
  BY <1>1, <1>2 DEF Typed

LEMMA SetKeeps ==
  ASSUME Typed, AllUsable, NEW x \in Strings, NEW r \in Objects, Set(x, r),
         Fit(r) \/ Moved(x) \/ Breaks
  PROVE  Keeps
<1>1. Typed'
  BY SetTyped
<1>2. /\ str' \in [Strings -> Objects] /\ str'[x] = r
      /\ \A y \in Strings : y # x => str'[y] = str[y]
  BY SetIs
<1>3. Usable(x)' => AllUsable'
  <2>1. ASSUME NEW y \in Strings, y # x PROVE Usable(y)'
    <3>1. Fit(str[y]) /\ str'[y] = str[y]
      BY <1>2, <2>1, Short
    <3> QED
      BY <1>2, <3>1, UsableNext
  <2> QED
    BY <2>1 DEF AllUsable
<1>4. CASE Fit(r)
  <2>1. Usable(x)'
    BY <1>2, <1>4, UsableNext
  <2> QED
    BY <1>1, <1>3, <2>1 DEF Keeps
<1>5. CASE Moved(x)
  <2>1. ~Usable(x)' => Breaks
    BY <1>5 DEF Breaks
  <2> QED
    BY <1>1, <1>3, <2>1 DEF Keeps
<1>6. CASE Breaks
  BY <1>1, <1>6 DEF Keeps
<1> QED
  BY <1>4, <1>5, <1>6

\* A string made from one that was moved from has no memory.
LEMMA DeadKeeps ==
  ASSUME Typed, AllUsable, NEW x \in Strings, NEW y \in Strings, Moved(y), Set(x, Dead)
  PROVE  Keeps
<1>2. Dead \in Objects
  BY DeadIs
<1>3. str'[x] = Dead
  BY <1>2, SetIs
<1>4. Breaks
  BY <1>3 DEF Breaks
<1> QED
  BY <1>2, <1>4, SetKeeps

\* Two strings at once: what was moved, or exchanged.
LEMMA PairKeeps ==
  ASSUME Typed, AllUsable, NEW x \in Strings, NEW y \in Strings, NEW r \in Objects, NEW q \in Objects,
         Fit(r), Fit(q), Len(r.text) <= MaxLen + 1, Len(q.text) <= MaxLen + 1,
         str' = [str EXCEPT ![x] = r, ![y] = q]
  PROVE  Keeps
<1>1. str \in [Strings -> Objects]
  BY DEF Typed
<1>2. str' \in [Strings -> Objects] /\ str'[y] = q /\ (x # y => str'[x] = r)
      /\ \A z \in Strings : z # x /\ z # y => str'[z] = str[z]
  BY <1>1
<1>3. ASSUME NEW z \in Strings PROVE Fit(str'[z]) /\ Len(str'[z].text) <= MaxLen + 1
  <2>1. Fit(str[z]) /\ Len(str[z].text) <= MaxLen + 1
    BY Short
  <2>2. str'[z] = q \/ str'[z] = r \/ str'[z] = str[z]
    BY <1>2
  <2> QED
    BY <2>1, <2>2
<1> QED
  BY <1>2, <1>3, FitKeeps

-----------------------------------------------------------------------------
(* Change, member by member                                                  *)

LEMMA HeldKeeps ==
  ASSUME Typed, AllUsable, NEW x \in Strings, NEW r \in Objects, Held(r), Set(x, r)
  PROVE  Keeps
BY SetKeeps DEF Fit

LEMMA AppendKeeps ==
  ASSUME Typed, AllUsable, NEW x \in Strings, NEW t \in Seq(Chars), Set(x, Appended(str[x], t))
  PROVE  Keeps
<1> DEFINE a == Appended(str[x], t)
<1>1. str[x] \in Objects /\ str[x].ln = Len(str[x].text) /\ (Held(str[x]) \/ Moved(x))
  BY Short
<1>2. a \in Objects /\ (Held(str[x]) => Held(a))
  BY <1>1, AppendedIs
<1> HIDE DEF a
<1>3. Fit(a) \/ Moved(x)
  BY <1>1, <1>2 DEF Fit
<1>4. Set(x, a)
  BY DEF a
<1> QED
  BY <1>2, <1>3, <1>4, SetKeeps

LEMMA LnIs ==
  ASSUME NEW r \in Objects, NEW n
  PROVE  [r EXCEPT !.ln = n] = [text |-> r.text, ln |-> n, buflen |-> r.buflen, room |-> r.room]
BY DEF Objects

LEMMA TextIs ==
  ASSUME NEW r \in Objects, NEW t
  PROVE  [r EXCEPT !.text = t] = [text |-> t, ln |-> r.ln, buflen |-> r.buflen, room |-> r.room]
BY DEF Objects

LEMMA TextLnIs ==
  ASSUME NEW r \in Objects, NEW t, NEW n
  PROVE  [r EXCEPT !.text = t, !.ln = n] = [text |-> t, ln |-> n, buflen |-> r.buflen, room |-> r.room]
<1> DEFINE e == [text |-> t, ln |-> r.ln, buflen |-> r.buflen, room |-> r.room]
<1>1. [r EXCEPT !.text = t] = e
  BY TextIs
<1>2. [e EXCEPT !.ln = n] = [text |-> t, ln |-> n, buflen |-> r.buflen, room |-> r.room]
  OBVIOUS
<1>3. [r EXCEPT !.text = t, !.ln = n] = [[r EXCEPT !.text = t] EXCEPT !.ln = n]
  OBVIOUS
<1> QED
  BY <1>1, <1>2, <1>3

LEMMA DecreasedIs ==
  ASSUME NEW n \in Nat
  PROVE  /\ Decreased(n) \in Nat
         /\ n # 0 /\ n <= SizeMax => Decreased(n) = n - 1
<1>1. SizeMax \in Nat /\ SizeMax + 1 \in Nat /\ n + SizeMax \in Nat /\ SizeMax + 1 > 0
  BY SizesAre
<1>2. Decreased(n) \in Nat
  BY <1>1 DEF Decreased
<1>3. ASSUME n # 0, n <= SizeMax PROVE Decreased(n) = n - 1
  <2>1. n + SizeMax = (n - 1) + (SizeMax + 1) /\ n - 1 \in 0 .. SizeMax
    BY <1>1, <1>3
  <2> DEFINE k == SizeMax + 1
  <2>2. k \in Nat /\ k > 0 /\ n - 1 \in 0 .. k - 1 /\ n + SizeMax = (n - 1) + k
    BY <1>1, <2>1
  <2> HIDE DEF k
  <2>3. ((n - 1) + k) % k = n - 1
    BY <2>2
  <2> QED
    BY <2>2, <2>3 DEF Decreased, k
<1> QED
  BY <1>2, <1>3

LEMMA TailIs ==
  ASSUME NEW S, NEW s \in Seq(S), Len(s) # 0
  PROVE  Tail(s) \in Seq(S) /\ Len(Tail(s)) = Len(s) - 1
<1>1. s # <<>>
  BY EmptySeq
<1> QED
  BY <1>1, HeadTailProperties

LEMMA pop_frontKeeps ==
  ASSUME Typed, AllUsable, NEW x \in Strings, pop_front(x)
  PROVE  Keeps
<1> DEFINE s == str[x]
           t == IF s.ln = 0 THEN s.text ELSE Tail(s.text)
           r == [s EXCEPT !.text = t, !.ln = Decreased(s.ln)]
<1>1. /\ s \in Objects /\ s.ln = Len(s.text) /\ s.text \in Seq(Chars) /\ s.ln \in Nat /\ s.ln <= MaxLen + 1
      /\ Held(s) \/ s.ln = 0
  BY Short
<1>2. Set(x, r)
  BY DEF pop_front
<1> HIDE DEF s
<1>3. t \in Seq(Chars) /\ (s.ln # 0 => Len(t) = s.ln - 1)
  BY <1>1, TailIs
<1>4. Decreased(s.ln) \in Nat /\ (s.ln # 0 => Decreased(s.ln) = s.ln - 1)
  <2>1. s.ln <= SizeMax
    BY <1>1, SizesAre
  <2> QED
    BY <1>1, <2>1, DecreasedIs
<1> DEFINE n == Decreased(s.ln)
<1>5. r = [text |-> t, ln |-> n, buflen |-> s.buflen, room |-> s.room]
  <2> HIDE DEF t, n
  <2> QED
    BY <1>1, TextLnIs DEF n
<1> HIDE DEF t, r, n
<1>6. r \in Objects
  BY <1>1, <1>3, <1>4, <1>5, ObjectIs DEF Objects, n
<1>7. CASE s.ln = 0
  <2>1. Breaks
    BY <1>7 DEF Breaks, s
  <2> QED
    BY <1>2, <1>6, <2>1, SetKeeps
<1>8. CASE s.ln # 0
  <2>1. Held(r)
    BY <1>1, <1>3, <1>4, <1>5, <1>8, ObjectIs DEF Held, n
  <2> QED
    BY <1>2, <1>6, <2>1, HeldKeeps
<1> QED
  BY <1>7, <1>8

LEMMA pop_backKeeps ==
  ASSUME Typed, AllUsable, NEW x \in Strings, pop_back(x)
  PROVE  Keeps
<1> DEFINE s == str[x]
           t == SubSeq(s.text, 1, s.ln)
           n == Decreased(s.ln)
           r == [s EXCEPT !.text = t, !.ln = n]
<1>1. s \in Objects /\ s.ln = Len(s.text) /\ s.text \in Seq(Chars) /\ s.ln \in Nat
  BY Short
<1>2. Set(x, r)
  BY DEF pop_back
<1>3. t = s.text
  BY <1>1, SubSeqFull
<1>4. n \in Nat
  BY <1>1, DecreasedIs
<1> HIDE DEF s, t, n
<1>5. r = [text |-> t, ln |-> n, buflen |-> s.buflen, room |-> s.room]
  BY <1>1, TextLnIs
<1> HIDE DEF r
<1>6. r \in Objects
  BY <1>1, <1>3, <1>4, <1>5, ObjectIs DEF Objects
<1>7. Breaks
  BY DEF Breaks
<1> QED
  BY <1>2, <1>6, <1>7, SetKeeps

LEMMA push_frontKeeps ==
  ASSUME Typed, AllUsable, NEW x \in Strings, NEW c \in Chars, push_front(x, c)
  PROVE  Keeps
<1> DEFINE s == str[x]
           b == rebufsize(s, s.ln + 2)
           t == <<c>> \o b.text
           r == [b EXCEPT !.text = t]
<1>1. s \in Objects /\ s.ln \in Nat
  BY Short
<1>2. Set(x, r)
  BY DEF push_front
<1> HIDE DEF s
<1>3. b \in Objects
  BY <1>1, rebufsizeIs
<1> HIDE DEF b
<1>4. t \in Seq(Chars)
  <2>1. <<c>> \in Seq(Chars) /\ b.text \in Seq(Chars)
    BY <1>3, ObjectIs, SingleIs
  <2> QED
    BY <2>1, ConcatIn
<1> HIDE DEF t
<1>5. r = [text |-> t, ln |-> b.ln, buflen |-> b.buflen, room |-> b.room]
  BY <1>3, TextIs
<1> HIDE DEF r
<1>6. r \in Objects
  BY <1>3, <1>4, <1>5, ObjectIs DEF Objects
<1>7. Breaks
  BY DEF Breaks
<1> QED
  BY <1>2, <1>6, <1>7, SetKeeps

LEMMA LiteralIs ==
  ASSUME NEW t \in Literals
  PROVE  t \in Seq(Chars) /\ Len(t) \in Nat
BY TextsAssumption, LenProperties

LEMMA clearKeeps ==
  ASSUME Typed, AllUsable, NEW x \in Strings, clear(x)
  PROVE  Keeps
BY EmptyIs, HeldKeeps DEF clear

LEMMA AssignTextKeeps ==
  ASSUME Typed, AllUsable, NEW x \in Strings, NEW t \in Seq(Chars), AssignText(x, t)
  PROVE  Keeps
BY FromTextIs, HeldKeeps DEF AssignText

LEMMA AssignNumberKeeps ==
  ASSUME Typed, AllUsable, NEW x \in Strings, NEW t \in Numbers, AssignNumber(x, t)
  PROVE  Keeps
BY FromNumberIs, HeldKeeps DEF AssignNumber

LEMMA PrintfKeeps ==
  ASSUME Typed, AllUsable, NEW x \in Strings, NEW t \in Literals, Printf(x, t)
  PROVE  Keeps
<1>1. t \in Seq(Chars) /\ Len(t) \in Nat /\ directsize \in Nat
  BY LiteralIs, SizesAre
<1>2. CASE Len(t) + 1 <= directsize
  <2>1. Set(x, Put(Empty, t))
    BY <1>2 DEF Printf
  <2>2. Empty.room = Empty.buflen /\ Len(t) < Empty.room
    BY <1>1, <1>2, EmptyIs
  <2>3. Put(Empty, t) \in Objects /\ Held(Put(Empty, t))
    BY <1>1, <2>2, EmptyIs, PutIs
  <2> QED
    BY <2>1, <2>3, HeldKeeps
<1>3. CASE ~(Len(t) + 1 <= directsize)
  <2> DEFINE n == Len(t) + 1
             b == [Empty EXCEPT !.buflen = n, !.room = n]
  <2>1. Set(x, Put(b, t))
    BY <1>3 DEF Printf
  <2>2. n \in Nat /\ n >= directsize /\ Len(t) < n
    BY <1>1, <1>3
  <2> HIDE DEF n
  <2>3. b = [text |-> <<>>, ln |-> 0, buflen |-> n, room |-> n]
    BY MovedShape
  <2> HIDE DEF b
  <2>4. b \in Objects /\ b.room = b.buflen /\ Len(t) < b.room
    BY <2>2, <2>3, EmptyText DEF Objects
  <2>5. Put(b, t) \in Objects /\ Held(Put(b, t))
    BY <1>1, <2>4, PutIs
  <2> QED
    BY <2>1, <2>5, HeldKeeps
<1> QED
  BY <1>2, <1>3

LEMMA AppendTemporaryKeeps ==
  ASSUME Typed, AllUsable, NEW x \in Strings, NEW r \in Objects, Held(r), AppendTemporary(x, r)
  PROVE  Keeps
<1>1. CASE Taking(str[x])
  <2>1. Set(x, r)
    BY <1>1 DEF AppendTemporary
  <2> QED
    BY <2>1, HeldKeeps
<1>2. CASE ~Taking(str[x])
  <2>1. Set(x, Appended(str[x], r.text))
    BY <1>2 DEF AppendTemporary
  <2> QED
    BY <2>1, ObjectIs, AppendKeeps
<1> QED
  BY <1>1, <1>2

LEMMA push_backKeeps ==
  ASSUME Typed, AllUsable, NEW x \in Strings, NEW c \in Chars, push_back(x, c)
  PROVE  Keeps
<1>1. <<c>> \in Seq(Chars)
  BY SingleIs
<1> DEFINE t == <<c>>
<1>2. t \in Seq(Chars) /\ Set(x, Appended(str[x], t))
  BY <1>1 DEF push_back
<1> HIDE DEF t
<1> QED
  BY <1>2, AppendKeeps

LEMMA BytesAre ==
  ASSUME NEW d \in Bytes
  PROVE  d \in Seq(Codes) /\ Len(d) \in Nat
<1>1. d \in Seq(Codes)
  BY TextsAssumption DEF Codes
<1> QED
  BY <1>1, LenProperties

\* Bytes behind a text.  The length counts all of them.
LEMMA FilledIs ==
  ASSUME NEW b \in Objects, NEW d \in Bytes, b.ln = Len(b.text)
  PROVE  LET r == Added(b, UpToZero(d), Len(d)) IN
         /\ r \in Objects
         /\ 0 \notin ToSet(d) /\ b.room = b.buflen /\ b.ln + Len(d) < b.room => Held(r)
<1> DEFINE u == UpToZero(d)
           n == Len(d)
           r == Added(b, u, n)
<1>1. d \in Seq(Codes) /\ n \in Nat /\ b.ln \in Nat /\ b.room \in Nat
  BY BytesAre, ObjectIs
<1>2. u \in Seq(Chars) /\ (0 \notin ToSet(d) => u = d)
  BY <1>1, UpToZeroIs
<1> HIDE DEF u
<1>3. /\ r \in Objects
      /\ b.room # 0 => r = [text |-> b.text \o u, ln |-> b.ln + n, buflen |-> b.buflen, room |-> b.room]
  BY <1>1, <1>2, AddedIs
<1>4. Len(b.text \o u) = b.ln + Len(u)
  BY <1>2, ObjectIs, ConcatAt
<1> HIDE DEF r
<1>5. ASSUME 0 \notin ToSet(d), b.room = b.buflen, b.ln + n < b.room PROVE Held(r)
  <2>1. b.room # 0
    BY <1>1, <1>5
  <2>2. r.text = b.text \o u /\ r.ln = b.ln + n /\ r.room = b.room /\ r.buflen = b.buflen
    BY <1>3, <2>1
  <2>3. Len(u) = n
    BY <1>2, <1>5
  <2> HIDE DEF n
  <2> QED
    BY <1>1, <1>4, <1>5, <2>2, <2>3 DEF Held
<1> QED
  BY <1>3, <1>5 DEF r, u

LEMMA FromBytesIs ==
  ASSUME NEW d \in Bytes
  PROVE  FromBytes(d) \in Objects /\ (0 \notin ToSet(d) => Held(FromBytes(d)))
<1> DEFINE b == bufsize(Len(d) + 1)
           u == UpToZero(d)
           r == Added(b, u, Len(d))
<1>1. Len(d) \in Nat /\ Len(d) + 1 \in Nat
  BY BytesAre
<1>2. b \in Objects /\ Held(b) /\ b.text = <<>> /\ b.ln = 0 /\ b.room >= Len(d) + 1
  BY <1>1, bufsizeIs
<1>3. FromBytes(d) = [strcpy(b, 0, u) EXCEPT !.ln = Len(d)]
  BY DEF FromBytes
<1> HIDE DEF b, u
<1>4. b.ln = Len(b.text) /\ b.room = b.buflen /\ b.room \in Nat /\ b.ln + Len(d) < b.room /\ b.room # 0
  BY <1>1, <1>2, ObjectIs DEF Held
<1>5. r \in Objects /\ (0 \notin ToSet(d) => Held(r))
  BY <1>2, <1>4, FilledIs DEF u
<1>6. r = [strcpy(b, 0, u) EXCEPT !.ln = Len(d)]
  <2> DEFINE c == strcpy(b, 0, u)
  <2>1. c = [text |-> SubSeq(b.text, 1, 0) \o u, ln |-> 0, buflen |-> b.buflen, room |-> b.room]
    BY <1>2, strcpyIs
  <2>2. r = [c EXCEPT !.ln = c.ln + Len(d)]
    BY <1>2, <1>4 DEF Added
  <2> HIDE DEF c
  <2>3. c.ln + Len(d) = Len(d)
    BY <1>1, <2>1
  <2> QED
    BY <2>2, <2>3 DEF c
<1> HIDE DEF r
<1> QED
  BY <1>3, <1>5, <1>6

LEMMA BytesKeep ==
  ASSUME Typed, AllUsable, NEW x \in Strings, NEW d \in Bytes, AssignFile(x, d) \/ AssignString(x, d)
  PROVE  Keeps
<1>1. FromBytes(d) \in Objects /\ (0 \notin ToSet(d) => Held(FromBytes(d)))
  BY FromBytesIs
<1>2. Set(x, FromBytes(d))
  BY DEF AssignFile, AssignString
<1>3. 0 \in ToSet(d) => Breaks
  BY DEF Breaks
<1> QED
  BY <1>1, <1>2, <1>3, SetKeeps DEF Fit

LEMMA add_memoryKeeps ==
  ASSUME Typed, AllUsable, NEW x \in Strings, NEW d \in Bytes, add_memory(x, d)
  PROVE  Keeps
<1> DEFINE s == str[x]
           b == rebufsize(s, s.ln + Len(d) + 1)
           r == Added(b, UpToZero(d), Len(d))
<1>1. Len(d) \in Nat
  BY BytesAre
<1>2. s \in Objects /\ s.ln = Len(s.text) /\ s.ln \in Nat /\ (Held(s) \/ Moved(x))
  BY Short
<1>3. CASE d[1] = 0
  <2> DEFINE none == <<>>
  <2>1. none \in Seq(Chars) /\ Set(x, Appended(str[x], none))
    BY <1>3, EmptyText DEF add_memory
  <2> HIDE DEF none
  <2> QED
    BY <2>1, AppendKeeps
<1>4. CASE d[1] # 0
  <2>1. s.ln + Len(d) + 1 \in Nat
    BY <1>1, <1>2
  <2>4. Set(x, r)
    BY <1>4 DEF add_memory
  <2> HIDE DEF s
  <2>2. /\ b \in Objects /\ b.text = s.text /\ b.ln = s.ln
        /\ s.room = s.buflen => b.room = b.buflen /\ b.room >= s.ln + Len(d) + 1
    BY <1>2, <2>1, rebufsizeIs
  <2> HIDE DEF b
  <2>3. r \in Objects /\ (0 \notin ToSet(d) /\ b.room = b.buflen /\ b.ln + Len(d) < b.room => Held(r))
    BY <1>2, <2>2, FilledIs
  <2> HIDE DEF r
  <2>5. Held(s) /\ 0 \notin ToSet(d) => Held(r)
    <3>1. ASSUME Held(s) PROVE b.room = b.buflen /\ b.ln + Len(d) < b.room
      <4>1. b.room \in Nat /\ s.room = s.buflen
        BY <2>2, <3>1, ObjectIs DEF Held
      <4> QED
        BY <1>1, <1>2, <2>2, <4>1
    <3> QED
      BY <2>3, <3>1
  <2>6. 0 \in ToSet(d) => Breaks
    BY <1>4 DEF Breaks
  <2> QED
    BY <1>2, <2>3, <2>4, <2>5, <2>6, SetKeeps DEF Fit
<1> QED
  BY <1>3, <1>4

LEMMA set_sizeKeeps ==
  ASSUME Typed, AllUsable, NEW x \in Strings, NEW n \in Nat, set_size(x, n)
  PROVE  Keeps
<1> DEFINE s == str[x]
           b == rebufsize(s, n + 1)
<1>1. s \in Objects /\ s.ln = Len(s.text) /\ s.ln \in Nat /\ (Held(s) \/ Moved(x))
  BY Short
<1>2. CASE Moved(x) /\ n + 1 > s.buflen
  <2>1. Set(x, Dead)
    BY <1>2 DEF set_size
  <2> QED
    BY <1>2, <2>1, DeadKeeps
<1>3. CASE ~(Moved(x) /\ n + 1 > s.buflen)
  <2>1. Set(x, b)
    BY <1>3 DEF set_size
  <2>2. n + 1 \in Nat
    OBVIOUS
  <2> HIDE DEF s
  <2>3. /\ b \in Objects /\ b.text = s.text /\ b.ln = s.ln
        /\ s.room = s.buflen => b.room = b.buflen /\ b.room >= s.room
    BY <1>1, <2>2, rebufsizeIs
  <2> HIDE DEF b
  <2>4. Held(s) => Held(b)
    BY <1>1, <2>3, ObjectIs DEF Held
  <2> QED
    BY <1>1, <2>1, <2>3, <2>4, SetKeeps DEF Fit
<1> QED
  BY <1>2, <1>3

LEMMA resizeKeeps ==
  ASSUME Typed, AllUsable, NEW x \in Strings, NEW n \in Nat, resize(x, n)
  PROVE  Keeps
<1> DEFINE s == str[x]
           t == SubSeq(s.text, 1, n)
           r == [s EXCEPT !.text = t, !.ln = n]
<1>1. s \in Objects /\ s.ln = Len(s.text) /\ s.text \in Seq(Chars) /\ s.ln \in Nat /\ (Held(s) \/ s.ln = 0)
  BY Short
<1>2. n < s.ln /\ Set(x, r)
  BY DEF resize
<1> HIDE DEF s
<1>3. t \in Seq(Chars) /\ Len(t) = n
  <2>1. 0 \in 0 .. Len(s.text) /\ n \in 0 .. Len(s.text)
    BY <1>1, <1>2
  <2>2. SubSeq(s.text, 0 + 1, n) \in Seq(Chars) /\ Len(SubSeq(s.text, 0 + 1, n)) = n - 0
    BY <1>1, <2>1, PartIs
  <2>3. 0 + 1 = 1 /\ n - 0 = n
    OBVIOUS
  <2> QED
    BY <2>2, <2>3
<1> HIDE DEF t
<1>4. r = [text |-> t, ln |-> n, buflen |-> s.buflen, room |-> s.room]
  BY <1>1, TextLnIs
<1> HIDE DEF r
<1>5. r \in Objects /\ Held(r)
  <2>1. Held(s)
    BY <1>1, <1>2
  <2> QED
    BY <1>1, <1>2, <1>3, <1>4, <2>1, ObjectIs DEF Objects, Held
<1> QED
  BY <1>2, <1>5, HeldKeeps

LEMMA OverwriteKeeps ==
  ASSUME Typed, AllUsable, NEW x \in Strings, NEW i \in Nat, NEW c \in Chars, Overwrite(x, i, c)
  PROVE  Keeps
<1> DEFINE s == str[x]
           t == [s.text EXCEPT ![i + 1] = c]
           r == [s EXCEPT !.text = t]
<1>1. s \in Objects /\ s.ln = Len(s.text) /\ s.text \in Seq(Chars) /\ s.ln \in Nat /\ (Held(s) \/ s.ln = 0)
  BY Short
<1>2. i < s.ln /\ Set(x, r)
  BY DEF Overwrite
<1> HIDE DEF s
<1>3. t \in Seq(Chars) /\ Len(t) = Len(s.text)
  <2>1. i + 1 \in 1 .. Len(s.text)
    BY <1>1, <1>2
  <2> QED
    BY <1>1, <2>1, ExceptSeq
<1> HIDE DEF t
<1>4. r = [text |-> t, ln |-> s.ln, buflen |-> s.buflen, room |-> s.room]
  BY <1>1, TextIs
<1> HIDE DEF r
<1>5. r \in Objects /\ Held(r)
  <2>1. Held(s)
    BY <1>1, <1>2
  <2> QED
    BY <1>1, <1>2, <1>3, <1>4, <2>1, ObjectIs DEF Objects, Held
<1> QED
  BY <1>2, <1>5, HeldKeeps

LEMMA CopyAssignKeeps ==
  ASSUME Typed, AllUsable, NEW x \in Strings, NEW y \in Strings, CopyAssign(x, y)
  PROVE  Keeps
<1>1. str[y].text \in Seq(Chars)
  BY Short
<1> DEFINE r == IF x = y \/ str[y].ln = 0 THEN Empty ELSE FromText(str[y].text)
<1>2. r \in Objects /\ Held(r)
  BY <1>1, EmptyIs, FromTextIs
<1>3. Set(x, r)
  BY DEF CopyAssign
<1> HIDE DEF r
<1> QED
  BY <1>2, <1>3, HeldKeeps

LEMMA CopyConstructKeeps ==
  ASSUME Typed, AllUsable, NEW x \in Strings, NEW y \in Strings, CopyConstruct(x, y)
  PROVE  Keeps
<1>1. str[y].text \in Seq(Chars)
  BY Short
<1>2. Set(x, Copied(y))
  BY DEF CopyConstruct
<1>3. CASE Moved(y)
  <2>1. Set(x, Dead)
    BY <1>2, <1>3 DEF Copied
  <2> QED
    BY <1>3, <2>1, DeadKeeps
<1>4. CASE ~Moved(y)
  <2>1. Set(x, FromText(str[y].text))
    BY <1>2, <1>4 DEF Copied
  <2> QED
    BY <1>1, <2>1, FromTextIs, HeldKeeps
<1> QED
  BY <1>3, <1>4

LEMMA MovedFromIs ==
  ASSUME NEW r \in Objects
  PROVE  MovedFrom(r) \in Objects /\ Fit(MovedFrom(r)) /\ Len(MovedFrom(r).text) <= MaxLen + 1
<1> DEFINE b == r.buflen
           m == IF r.buflen <= directsize THEN directsize ELSE 0
<1>1. b \in Nat /\ b >= directsize /\ directsize \in Nat \ {0} /\ MaxLen \in Nat
  BY ObjectIs, SizesAre
<1>2. m \in Nat /\ (m = b \/ (m = 0 /\ b > directsize)) /\ (m = b => m > 0)
  BY <1>1
<1> HIDE DEF b, m
<1>3. MovedFrom(r) = [text |-> <<>>, ln |-> 0, buflen |-> b, room |-> m]
  BY MovedShape DEF MovedFrom, b, m
<1> DEFINE q == MovedFrom(r)
<1>4. q.text = <<>> /\ q.ln = 0 /\ q.buflen = b /\ q.room = m
  BY <1>3
<1>5. q \in Objects
  BY <1>1, <1>2, <1>3, EmptyText DEF Objects
<1> HIDE DEF q
<1>6. Fit(q) /\ Len(q.text) <= MaxLen + 1
  <2>1. Len(q.text) = 0
    BY <1>4, EmptyText
  <2> QED
    BY <1>1, <1>2, <1>4, <2>1 DEF Fit, Held, Spent
<1> QED
  BY <1>5, <1>6 DEF q

LEMMA MoveConstructKeeps ==
  ASSUME Typed, AllUsable, NEW x \in Strings, NEW y \in Strings, MoveConstruct(x, y)
  PROVE  Keeps
<1> DEFINE r == str[y]
           q == MovedFrom(str[y])
<1>1. r \in Objects /\ Fit(r) /\ Len(r.text) <= MaxLen + 1
  BY Short
<1>2. q \in Objects /\ Fit(q) /\ Len(q.text) <= MaxLen + 1
  BY <1>1, MovedFromIs
<1>3. str' = [str EXCEPT ![x] = r, ![y] = q]
  BY DEF MoveConstruct
<1> HIDE DEF r, q
<1> QED
  BY <1>1, <1>2, <1>3, PairKeeps

LEMMA SwapKeeps ==
  ASSUME Typed, AllUsable, NEW x \in Strings, NEW y \in Strings, str' = [str EXCEPT ![x] = str[y], ![y] = str[x]]
  PROVE  Keeps
<1> DEFINE r == str[y]
           q == str[x]
<1>1. r \in Objects /\ Fit(r) /\ Len(r.text) <= MaxLen + 1
  BY Short
<1>2. q \in Objects /\ Fit(q) /\ Len(q.text) <= MaxLen + 1
  BY Short
<1>3. str' = [str EXCEPT ![x] = r, ![y] = q]
  OBVIOUS
<1> HIDE DEF r, q
<1> QED
  BY <1>1, <1>2, <1>3, PairKeeps

LEMMA MoveAssignKeeps ==
  ASSUME Typed, AllUsable, NEW x \in Strings, NEW y \in Strings, MoveAssign(x, y)
  PROVE  Keeps
<1>1. CASE str[y].ln <= directsize
  BY <1>1, CopyAssignKeeps DEF MoveAssign
<1>2. CASE ~(str[y].ln <= directsize)
  BY <1>2, SwapKeeps DEF MoveAssign
<1> QED
  BY <1>1, <1>2

LEMMA SameKeeps ==
  ASSUME Typed, AllUsable, UNCHANGED str
  PROVE  Keeps
<1>1. str' \in [Strings -> Objects] /\ \A y \in Strings : Fit(str'[y]) /\ Len(str'[y].text) <= MaxLen + 1
  <2>1. \A y \in Strings : Fit(str[y]) /\ Len(str[y].text) <= MaxLen + 1
    BY Short
  <2> QED
    BY <2>1 DEF Typed
<1> QED
  BY <1>1, FitKeeps

LEMMA ModIs == ASSUME NEW n \in Nat, n > 0, NEW m \in Nat PROVE m % n \in 0 .. n - 1
OBVIOUS

\* A string copied behind itself fills its buffer and has no end.
LEMMA OverrunKeeps ==
  ASSUME Typed, AllUsable, NEW x \in Strings, str[x].ln # 0, Overrun(x), Breaks
  PROVE  Keeps
<1> DEFINE s == str[x]
           b == rebufsize(s, s.ln + s.ln + 1)
           c(i) == b.text[1 + ((i - 1) % b.ln)]
           t == [i \in 1 .. b.room |-> c(i)]
           r == [b EXCEPT !.text = t]
<1>1. s \in Objects /\ s.ln = Len(s.text) /\ s.text \in Seq(Chars) /\ s.ln \in Nat /\ s.ln # 0
  BY Short
<1>2. str' = [str EXCEPT ![x] = r]
  BY DEF Overrun
<1>3. s.ln + s.ln + 1 \in Nat
  BY <1>1
<1> HIDE DEF s
<1>4. b \in Objects /\ b.ln = s.ln /\ b.text = s.text
  BY <1>1, <1>3, rebufsizeIs
<1> HIDE DEF b
<1>5. b.room \in Nat
  BY <1>4, ObjectIs
<1>6. \A i \in 1 .. b.room : c(i) \in Chars
  <2> DEFINE n == b.ln
  <2>1. n \in Nat /\ n > 0 /\ n = Len(b.text) /\ b.text \in Seq(Chars)
    BY <1>1, <1>4
  <2> HIDE DEF n
  <2>2. \A m \in Nat : m % n \in 0 .. n - 1
    BY <2>1, ModIs
  <2>3. ASSUME NEW i \in 1 .. b.room PROVE 1 + ((i - 1) % n) \in 1 .. n
    <3> DEFINE m == (i - 1) % n
    <3>1. i - 1 \in Nat
      BY <1>5
    <3>2. m \in 0 .. n - 1
      BY <2>2, <3>1
    <3> HIDE DEF m
    <3>3. 1 + m \in 1 .. n
      BY <2>1, <3>2
    <3> QED
      BY <3>3 DEF m
  <2> QED
    BY <2>1, <2>3, ElementOfSeq DEF n
<1> HIDE DEF c
<1>7. t \in Seq(Chars) /\ Len(t) = b.room
  <2> DEFINE n == b.room
  <2>1. n \in Nat /\ \A i \in 1 .. n : c(i) \in Chars
    BY <1>5, <1>6
  <2> HIDE DEF n
  <2>2. [i \in 1 .. n |-> c(i)] \in Seq(Chars) /\ Len([i \in 1 .. n |-> c(i)]) = n
    BY <2>1
  <2> QED
    BY <2>2 DEF n
<1> HIDE DEF t
<1>8. r = [text |-> t, ln |-> b.ln, buflen |-> b.buflen, room |-> b.room]
  BY <1>4, TextIs
<1> HIDE DEF r
<1>9. r \in Objects
  BY <1>4, <1>7, <1>8, ObjectIs DEF Objects
<1>10. ~Fit(r)
  BY <1>1, <1>4, <1>5, <1>7, <1>8 DEF Fit, Held, Spent
<1>11. /\ str' \in [Strings -> Objects] /\ str'[x] = r
       /\ \A y \in Strings : y # x => str'[y] = str[y]
  BY <1>2, <1>9 DEF Typed
<1>12. ASSUME NEW y \in Strings, Usable(y)' PROVE Len(str'[y].text) <= MaxLen + 1
  <2>1. Fit(str'[y])
    BY <1>11, <1>12, UsableNext
  <2>2. y # x
    BY <1>10, <1>11, <2>1
  <2>3. str'[y] = str[y] /\ Len(str[y].text) <= MaxLen + 1
    BY <1>11, <2>2, Short
  <2> QED
    BY <2>3
<1>13. Typed'
  BY <1>11, <1>12 DEF Typed
<1> QED
  BY <1>13 DEF Keeps

LEMMA AppendMovedKeeps ==
  ASSUME Typed, AllUsable, NEW x \in Strings, NEW y \in Strings, AppendMoved(x, y)
  PROVE  Keeps
<1>1. str[y].text \in Seq(Chars)
  BY Short
<1>2. CASE str[y].ln = 0
  BY <1>2, SameKeeps DEF AppendMoved
<1>3. CASE str[y].ln # 0 /\ Taking(str[x])
  BY <1>3, SwapKeeps DEF AppendMoved
<1>4. CASE str[y].ln # 0 /\ ~Taking(str[x]) /\ x = y
  <2>1. AppendMoved(x, x) /\ Overrun(x)
    BY <1>4 DEF AppendMoved
  <2>2. Breaks
    BY <2>1 DEF Breaks
  <2> QED
    BY <1>4, <2>1, <2>2, OverrunKeeps
<1>5. CASE str[y].ln # 0 /\ ~Taking(str[x]) /\ x # y
  BY <1>1, <1>5, AppendKeeps DEF AppendMoved
<1> QED
  BY <1>2, <1>3, <1>4, <1>5

LEMMA AppendStringKeeps ==
  ASSUME Typed, AllUsable, NEW x \in Strings, NEW y \in Strings, AppendString(x, y)
  PROVE  Keeps
<1>1. str[y].text \in Seq(Chars)
  BY Short
<1>2. CASE str[y].ln = 0
  BY <1>2, SameKeeps DEF AppendString
<1>3. CASE str[y].ln # 0 /\ x = y
  <2>1. AppendString(x, x) /\ Overrun(x)
    BY <1>3 DEF AppendString
  <2>2. Breaks
    BY <2>1 DEF Breaks
  <2> QED
    BY <1>3, <2>1, <2>2, OverrunKeeps
<1>4. CASE str[y].ln # 0 /\ x # y
  BY <1>1, <1>4, AppendKeeps DEF AppendString
<1> QED
  BY <1>2, <1>3, <1>4

LEMMA PlusKeeps ==
  ASSUME Typed, AllUsable, NEW x \in Strings, NEW y \in Strings, NEW z \in Strings, Plus(x, y, z)
  PROVE  Keeps
<1>1. str[y].text \in Seq(Chars) /\ str[z].text \in Seq(Chars)
  BY Short
<1>2. CASE Moved(y)
  <2>1. Set(x, Dead)
    BY <1>2 DEF Plus
  <2> QED
    BY <1>2, <2>1, DeadKeeps
<1>3. CASE ~Moved(y)
  <2> DEFINE c == FromText(str[y].text)
             t == str[z].text
  <2>1. c \in Objects /\ Held(c) /\ t \in Seq(Chars)
    BY <1>1, FromTextIs
  <2>2. Copied(y) = c
    BY <1>3 DEF Copied
  <2>3. Set(x, IF str[z].ln = 0 THEN c ELSE Appended(c, t))
    BY <1>3, <2>2 DEF Plus
  <2> HIDE DEF c, t
  <2>4. Appended(c, t) \in Objects /\ Held(Appended(c, t))
    <3>1. c.ln = Len(c.text)
      BY <2>1 DEF Held
    <3> QED
      BY <2>1, <3>1, AppendedIs
  <2> DEFINE r == IF str[z].ln = 0 THEN c ELSE Appended(c, t)
  <2>5. r \in Objects /\ Held(r) /\ Set(x, r)
    BY <2>1, <2>3, <2>4
  <2> HIDE DEF r
  <2> QED
    BY <2>5, HeldKeeps
<1> QED
  BY <1>2, <1>3

LEMMA MoveInKeeps ==
  ASSUME Typed, AllUsable, NEW x \in Strings, NEW pieces \in Seq(Seq(Chars)), MoveIn(x, pieces)
  PROVE  Keeps
<1> DEFINE b == Built(pieces)
           r == MovedIn(str[x], b)
<1>1. b \in Objects /\ Held(b)
  BY BuiltIs
<1> HIDE DEF b
<1>2. FromText(b.text) \in Objects /\ Held(FromText(b.text))
  BY <1>1, ObjectIs, FromTextIs
<1>3. r \in Objects /\ Held(r)
  BY <1>1, <1>2, EmptyIs DEF MovedIn
<1>4. Set(x, r)
  BY DEF MoveIn, b
<1> HIDE DEF r
<1> QED
  BY <1>3, <1>4, HeldKeeps

LEMMA ReplaceKeeps ==
  ASSUME Typed, AllUsable, NEW x \in Strings, NEW y \in Strings, NEW by \in Literals, Replace(x, y, by)
  PROVE  Keeps
<1>1. str[x].text \in Seq(Chars) /\ str[y].text \in Seq(Chars) /\ str[y].ln = Len(str[y].text)
  BY Short
<1>2. by \in Seq(Chars)
  BY LiteralIs
<1>3. str[y].text # <<>>
  BY <1>1, EmptyText DEF Replace
<1>4. CASE Moved(x)
  <2>1. Set(x, Dead)
    BY <1>4 DEF Replace
  <2> QED
    BY <1>4, <2>1, DeadKeeps
<1>5. CASE ~Moved(x)
  <2> DEFINE all == ReplacePieces(str[x].text, str[y].text, by)
             first == ReplaceFirstPieces(str[x].text, str[y].text, by)
  <2>1. contains(str[x].text, str[y].text) /\ (MoveIn(x, all) \/ MoveIn(x, first))
    BY <1>5 DEF Replace
  <2>2. all \in Seq(Seq(Chars)) /\ first \in Seq(Seq(Chars))
    BY <1>1, <1>2, <1>3, <2>1, ReplacePiecesIn
  <2> HIDE DEF all, first
  <2> QED
    BY <2>1, <2>2, MoveInKeeps
<1> QED
  BY <1>4, <1>5

LEMMA reverseKeeps ==
  ASSUME Typed, AllUsable, NEW x \in Strings, reverse(x)
  PROVE  Keeps
<1> DEFINE n == str[x].ln
           s == str[x].text
           pieces == [i \in 1 .. n |-> <<s[n + 1 - i]>>]
<1>1. n \in Nat /\ n = Len(s) /\ s \in Seq(Chars)
  BY Short
<1>2. MoveIn(x, pieces)
  BY DEF reverse
<1> HIDE DEF n, s
<1>3. ASSUME NEW i \in 1 .. n PROVE <<s[n + 1 - i]>> \in Seq(Chars)
  <2>1. n + 1 - i \in 1 .. Len(s)
    BY <1>1
  <2>2. s[n + 1 - i] \in Chars
    BY <1>1, <2>1, ElementOfSeq
  <2> QED
    BY <2>2, SingleIs
<1>4. pieces \in Seq(Seq(Chars))
  <2> DEFINE Q == Seq(Chars)
             P(i) == <<s[n + 1 - i]>>
  <2>1. \A i \in 1 .. n : P(i) \in Q
    BY <1>3
  <2> HIDE DEF Q, P
  <2>2. [i \in 1 .. n |-> P(i)] \in Seq(Q)
    BY <1>1, <2>1
  <2> QED
    BY <2>2 DEF P, Q
<1> HIDE DEF pieces
<1> QED
  BY <1>2, <1>4, MoveInKeeps

LEMMA AssignJoinedKeeps ==
  ASSUME Typed, AllUsable, NEW x \in Strings, NEW t \in Literals, NEW u \in Literals, NEW bind \in Literals,
         AssignJoined(x, <<t, u>>, bind)
  PROVE  Keeps
<1> DEFINE n == Len(FlattenSeq(<<t, u>>)) + Len(bind) * (Len(<<t, u>>) - 1) + 1
           j == join(<<t, u>>, bind)
<1>1. t \in Seq(Chars) /\ u \in Seq(Chars) /\ bind \in Seq(Chars) /\ Len(bind) \in Nat
  BY LiteralIs
<1>2. j \in Seq(Chars) /\ Len(j) = Len(FlattenSeq(<<t, u>>)) + Len(bind) /\ Len(FlattenSeq(<<t, u>>)) \in Nat
  BY <1>1, TwoAre, LenProperties
<1>3. Set(x, Put(bufsize(n), j))
  <2>1. <<t, u>> # <<>>
    OBVIOUS
  <2> QED
    BY <2>1 DEF AssignJoined
<1>4. n = Len(j) + 1 /\ n \in Nat /\ Len(j) \in Nat
  <2>1. Len(<<t, u>>) - 1 = 1
    OBVIOUS
  <2> QED
    BY <1>1, <1>2, <2>1
<1> HIDE DEF n, j
<1> DEFINE b == bufsize(n)
<1>5. b \in Objects /\ Held(b) /\ b.room >= n
  BY <1>4, bufsizeIs
<1> HIDE DEF b
<1>6. b.room = b.buflen /\ Len(j) < b.room
  BY <1>4, <1>5, ObjectIs DEF Held
<1>7. Put(b, j) \in Objects /\ Held(Put(b, j))
  BY <1>2, <1>5, <1>6, PutIs
<1> QED
  BY <1>3, <1>7, HeldKeeps DEF b

LEMMA ChangeKeeps ==
  ASSUME Typed, AllUsable, Change
  PROVE  Keeps
<1>1. PICK x \in Strings :
        \/ clear(x) \/ pop_front(x) \/ pop_back(x) \/ reverse(x)
        \/ \E t \in Literals : AssignText(x, t) \/ Printf(x, t) \/ AppendText(x, t) \/ AppendTemporary(x, FromText(t))
        \/ \E t \in Numbers : AssignNumber(x, t) \/ AppendTemporary(x, FromNumber(t))
        \/ \E d \in Bytes : AssignFile(x, d) \/ AssignString(x, d) \/ add_memory(x, d)
        \/ \E c \in Chars : push_back(x, c) \/ push_front(x, c) \/ \E i \in 0 .. MaxLen - 1 : Overwrite(x, i, c)
        \/ \E n \in 0 .. MaxLen - 1 : resize(x, n)
        \/ \E n \in 0 .. 2 * MaxLen : set_size(x, n)
        \/ \E y \in Strings :
             \/ CopyAssign(x, y) \/ CopyConstruct(x, y) \/ MoveConstruct(x, y) \/ MoveAssign(x, y)
             \/ AppendString(x, y) \/ AppendMoved(x, y)
             \/ \E z \in Strings : Plus(x, y, z)
             \/ \E t \in Literals : Replace(x, y, t)
        \/ \E t, u, bind \in Literals : AssignJoined(x, <<t, u>>, bind)
  BY DEF Change
<1>2. CASE clear(x) \/ pop_front(x) \/ pop_back(x) \/ reverse(x)
  BY <1>2, clearKeeps, pop_frontKeeps, pop_backKeeps, reverseKeeps
<1>3. ASSUME NEW t \in Literals,
             AssignText(x, t) \/ Printf(x, t) \/ AppendText(x, t) \/ AppendTemporary(x, FromText(t))
      PROVE  Keeps
  <2>1. t \in Seq(Chars) /\ FromText(t) \in Objects /\ Held(FromText(t))
    BY LiteralIs, FromTextIs
  <2>2. CASE AssignText(x, t)
    BY <2>1, <2>2, AssignTextKeeps
  <2>3. CASE Printf(x, t)
    BY <2>3, PrintfKeeps
  <2>4. CASE AppendText(x, t)
    BY <2>1, <2>4, AppendKeeps DEF AppendText
  <2>5. CASE AppendTemporary(x, FromText(t))
    BY <2>1, <2>5, AppendTemporaryKeeps
  <2> QED
    BY <1>3, <2>2, <2>3, <2>4, <2>5
<1>4. ASSUME NEW t \in Numbers, AssignNumber(x, t) \/ AppendTemporary(x, FromNumber(t))
      PROVE  Keeps
  <2>1. FromNumber(t) \in Objects /\ Held(FromNumber(t))
    BY FromNumberIs
  <2>2. CASE AssignNumber(x, t)
    BY <2>2, AssignNumberKeeps
  <2>3. CASE AppendTemporary(x, FromNumber(t))
    BY <2>1, <2>3, AppendTemporaryKeeps
  <2> QED
    BY <1>4, <2>2, <2>3
<1>5. ASSUME NEW d \in Bytes, AssignFile(x, d) \/ AssignString(x, d) \/ add_memory(x, d) PROVE Keeps
  BY <1>5, BytesKeep, add_memoryKeeps
<1>6. ASSUME NEW c \in Chars, push_back(x, c) \/ push_front(x, c) \/ \E i \in 0 .. MaxLen - 1 : Overwrite(x, i, c)
      PROVE  Keeps
  <2>1. ASSUME NEW i \in 0 .. MaxLen - 1, Overwrite(x, i, c) PROVE Keeps
    <3>1. i \in Nat
      BY SizesAre
    <3> QED
      BY <2>1, <3>1, OverwriteKeeps
  <2> QED
    BY <1>6, <2>1, push_backKeeps, push_frontKeeps
<1>7. ASSUME NEW n \in 0 .. MaxLen - 1, resize(x, n) PROVE Keeps
  <2>1. n \in Nat
    BY SizesAre
  <2> QED
    BY <1>7, <2>1, resizeKeeps
<1>10. ASSUME NEW n \in 0 .. 2 * MaxLen, set_size(x, n) PROVE Keeps
  <2>1. n \in Nat
    BY SizesAre
  <2> QED
    BY <1>10, <2>1, set_sizeKeeps
<1>8. ASSUME NEW y \in Strings,
             \/ CopyAssign(x, y) \/ CopyConstruct(x, y) \/ MoveConstruct(x, y) \/ MoveAssign(x, y)
             \/ AppendString(x, y) \/ AppendMoved(x, y)
             \/ \E z \in Strings : Plus(x, y, z)
             \/ \E t \in Literals : Replace(x, y, t)
      PROVE  Keeps
  <2>1. CASE CopyAssign(x, y) \/ CopyConstruct(x, y) \/ MoveConstruct(x, y) \/ MoveAssign(x, y)
    BY <2>1, CopyAssignKeeps, CopyConstructKeeps, MoveConstructKeeps, MoveAssignKeeps
  <2>2. CASE AppendString(x, y) \/ AppendMoved(x, y)
    BY <2>2, AppendStringKeeps, AppendMovedKeeps
  <2>3. ASSUME NEW z \in Strings, Plus(x, y, z) PROVE Keeps
    BY <2>3, PlusKeeps
  <2>4. ASSUME NEW t \in Literals, Replace(x, y, t) PROVE Keeps
    BY <2>4, ReplaceKeeps
  <2> QED
    BY <1>8, <2>1, <2>2, <2>3, <2>4
<1>9. ASSUME NEW t \in Literals, NEW u \in Literals, NEW bind \in Literals, AssignJoined(x, <<t, u>>, bind)
      PROVE  Keeps
  BY <1>9, AssignJoinedKeeps
<1> QED
  BY <1>1, <1>2, <1>3, <1>4, <1>5, <1>6, <1>7, <1>8, <1>9, <1>10

-----------------------------------------------------------------------------
(* Theorems                                                                  *)

LEMMA InitTyped == Init => Typed
<1> SUFFICES ASSUME Init PROVE Typed
  OBVIOUS
<1>1. \A x \in Strings : str[x] = Empty
  BY DEF Init
<1>2. str \in [Strings -> Objects]
  BY EmptyIs DEF Init
<1>3. Len(Empty.text) <= MaxLen + 1
  BY EmptyIs, EmptyText, SizesAre
<1> QED
  BY <1>1, <1>2, <1>3 DEF Typed

LEMMA NextTyped == Typed /\ [Next]_vars => Typed'
<1> SUFFICES ASSUME Typed, [Next]_vars PROVE Typed'
  OBVIOUS
<1>1. CASE AllUsable /\ Change
  BY <1>1, ChangeKeeps DEF Keeps
<1>2. CASE UNCHANGED vars
  <2>1. str' = str
    BY <1>2 DEF vars
  <2>2. ASSUME NEW x \in Strings, Usable(x)' PROVE Usable(x)
    BY <2>1, <2>2 DEF Usable, Sound, Moved
  <2> QED
    BY <2>1, <2>2 DEF Typed
<1> QED
  BY <1>1, <1>2 DEF Next, Unsound

\* The type invariant: every string is a text of characters, a length and a buffer
\* no smaller than the object, and a string that can be used has its text in the
\* bound (mstring.h 18-60).
THEOREM TypedThm == Spec => []Typed
<1>1. Init => Typed
  BY InitTyped
<1>2. Typed /\ [Next]_vars => Typed'
  BY NextTyped
<1> QED
  BY <1>1, <1>2, PTL DEF Spec

\* Every member of bwct::String keeps the length that of the text and the text
\* with its zero in the buffer, whatever the texts, the sizes and the number of
\* strings, but for those that Breaks names (mstring.cc 51-1350).
THEOREM SoundThm == Spec => SoundKept
<1>1. Typed /\ [Next]_vars => [AllUsable => AllUsable' \/ Breaks]_vars
  <2> SUFFICES ASSUME Typed, Next, AllUsable PROVE AllUsable' \/ Breaks
    OBVIOUS
  <2>1. Change
    BY DEF Next, Unsound
  <2> QED
    BY <2>1, ChangeKeeps DEF Keeps
<1> QED
  BY <1>1, TypedThm, PTL DEF Spec, SoundKept

-----------------------------------------------------------------------------
(* Order                                                                     *)

LEMMA AtIs ==
  ASSUME NEW s \in Seq(Chars), NEW i \in Nat
  PROVE  /\ At(s, i) \in Int /\ Len(s) \in Nat
         /\ At(s, i) = 0 <=> i >= Len(s)
<1>1. Len(s) \in Nat
  BY LenProperties
<1>2. CASE i < Len(s)
  <2>1. i + 1 \in 1 .. Len(s)
    BY <1>1, <1>2
  <2>2. s[i + 1] \in Chars
    BY <2>1, ElementOfSeq
  <2>3. s[i + 1] \in Int /\ s[i + 1] # 0
    BY <2>2, SizesAre
  <2>4. At(s, i) = s[i + 1]
    BY <1>2 DEF At
  <2> QED
    BY <1>1, <1>2, <2>3, <2>4
<1>3. CASE ~(i < Len(s))
  BY <1>1, <1>3 DEF At
<1> QED
  BY <1>2, <1>3

\* i is the first position at which s and t differ.
First(s, t, i) ==
  /\ i \in Nat /\ i <= Len(s) /\ i <= Len(t) /\ At(s, i) # At(t, i)
  /\ \A k \in 0 .. i - 1 : At(s, k) = At(t, k)

Alike(s, t) == \A k \in Nat : k <= Len(s) /\ k <= Len(t) => At(s, k) = At(t, k)

LEMMA DifferIs ==
  ASSUME NEW s \in Seq(Chars), NEW t \in Seq(Chars)
  PROVE  \/ Differ(s, t) = None /\ Alike(s, t)
         \/ Differ(s, t) # None /\ First(s, t, Differ(s, t))
<1> DEFINE d == {i \in 0 .. Len(s) : i <= Len(t) /\ At(s, i) # At(t, i)}
           m == CHOOSE i \in d : \A k \in d : i <= k
<1>1. Len(s) \in Nat /\ Len(t) \in Nat
  BY LenProperties
<1>2. CASE d = {}
  <2>1. Differ(s, t) = None
    BY <1>2 DEF Differ
  <2>2. ASSUME NEW k \in Nat, k <= Len(s), k <= Len(t) PROVE At(s, k) = At(t, k)
    <3>1. k \in 0 .. Len(s)
      BY <1>1, <2>2
    <3> QED
      BY <1>2, <2>2, <3>1
  <2> QED
    BY <2>1, <2>2 DEF Alike
<1>3. CASE d # {}
  <2>1. Differ(s, t) = m
    BY <1>3 DEF Differ
  <2>2. d \in SUBSET Nat
    BY <1>1
  <2> HIDE DEF d
  <2>3. \E i \in d : \A k \in d : i <= k
    BY <1>3, <2>2, Least
  <2>4. m \in d /\ \A k \in d : m <= k
    BY <2>3
  <2> HIDE DEF m
  <2>5. m \in Nat /\ m <= Len(s) /\ m <= Len(t) /\ At(s, m) # At(t, m)
    BY <1>1, <2>4 DEF d
  <2>6. ASSUME NEW k \in 0 .. m - 1 PROVE At(s, k) = At(t, k)
    <3>1. k \notin d
      BY <2>4, <2>5, <2>6
    <3>2. k \in 0 .. Len(s) /\ k <= Len(t)
      BY <1>1, <2>5
    <3> QED
      BY <3>1, <3>2 DEF d
  <2>7. m # None
    BY <2>5 DEF None
  <2> QED
    BY <2>1, <2>5, <2>6, <2>7 DEF First
<1> QED
  BY <1>2, <1>3

\* There is one such position, and none when the texts are alike.
LEMMA FirstIs ==
  ASSUME NEW s, NEW t, NEW i, First(s, t, i)
  PROVE  /\ First(t, s, i) /\ ~Alike(s, t)
         /\ \A j : First(s, t, j) => i = j
<1>1. First(t, s, i) /\ ~Alike(s, t)
  BY DEF First, Alike
<1>2. ASSUME NEW j, First(s, t, j) PROVE i = j
  <2>1. i \in Nat /\ j \in Nat
    BY <1>2 DEF First
  <2>2. ~(i < j)
    BY <1>2, <2>1 DEF First
  <2>3. ~(j < i)
    BY <1>2, <2>1 DEF First
  <2> QED
    BY <2>1, <2>2, <2>3
<1> QED
  BY <1>1, <1>2

LEMMA LessIs ==
  ASSUME NEW s \in Seq(Chars), NEW t \in Seq(Chars)
  PROVE  /\ Less(s, t) <=> \E i : First(s, t, i) /\ At(s, i) < At(t, i)
         /\ Greater(s, t) <=> \E i : First(s, t, i) /\ At(s, i) > At(t, i)
<1> DEFINE m == Differ(s, t)
<1>1. (m = None /\ Alike(s, t)) \/ (m # None /\ First(s, t, m))
  BY DifferIs
<1>2. (Less(s, t) <=> m # None /\ At(s, m) < At(t, m)) /\ (Greater(s, t) <=> m # None /\ At(s, m) > At(t, m))
  BY DEF Less, Greater
<1> HIDE DEF m
<1>3. CASE m = None
  <2>1. \A i : ~First(s, t, i)
    BY <1>1, <1>3, FirstIs
  <2> QED
    BY <1>2, <1>3, <2>1
<1>4. CASE m # None
  <2>1. First(s, t, m) /\ \A j : First(s, t, j) => m = j
    BY <1>1, <1>4, FirstIs
  <2> QED
    BY <1>2, <1>4, <2>1
<1> QED
  BY <1>3, <1>4

\* The zero at the end tells a text from a longer one.
LEMMA EqualIs ==
  ASSUME NEW s \in Seq(Chars), NEW t \in Seq(Chars)
  PROVE  Equal(s, t) <=> \A i : ~First(s, t, i)
<1>1. \/ Differ(s, t) = None /\ Alike(s, t)
      \/ Differ(s, t) # None /\ First(s, t, Differ(s, t))
  BY DifferIs
<1>2. CASE Differ(s, t) = None
  <2>1. Alike(s, t)
    BY <1>1, <1>2
  <2>2. \A i : ~First(s, t, i)
    BY <2>1, FirstIs
  <2>3. Len(s) \in Nat /\ Len(t) \in Nat
    BY LenProperties
  <2>4. ASSUME NEW n \in Nat, n <= Len(s), n <= Len(t) PROVE n >= Len(s) <=> n >= Len(t)
    <3>1. At(s, n) = At(t, n)
      BY <2>1, <2>4 DEF Alike
    <3> QED
      BY <3>1, AtIs
  <2>5. Len(s) = Len(t)
    <3>1. CASE Len(s) <= Len(t)
      BY <2>3, <2>4, <3>1
    <3>2. CASE ~(Len(s) <= Len(t))
      BY <2>3, <2>4, <3>2
    <3> QED
      BY <3>1, <3>2
  <2> QED
    BY <1>2, <2>2, <2>5 DEF Equal
<1>3. CASE Differ(s, t) # None
  BY <1>1, <1>3 DEF Equal
<1> QED
  BY <1>2, <1>3

LEMMA LessTransitive ==
  ASSUME NEW s \in Seq(Chars), NEW t \in Seq(Chars), NEW u \in Seq(Chars), Less(s, t), Less(t, u)
  PROVE  Less(s, u)
<1>1. PICK i : First(s, t, i) /\ At(s, i) < At(t, i)
  BY LessIs
<1>2. PICK j : First(t, u, j) /\ At(t, j) < At(u, j)
  BY LessIs
<1>3. /\ i \in Nat /\ i <= Len(s) /\ i <= Len(t) /\ \A k \in 0 .. i - 1 : At(s, k) = At(t, k)
      /\ j \in Nat /\ j <= Len(t) /\ j <= Len(u) /\ \A k \in 0 .. j - 1 : At(t, k) = At(u, k)
      /\ Len(s) \in Nat /\ Len(t) \in Nat /\ Len(u) \in Nat
  BY <1>1, <1>2, LenProperties DEF First
<1>4. /\ At(s, i) \in Int /\ At(t, i) \in Int /\ At(u, i) \in Int
      /\ At(s, j) \in Int /\ At(t, j) \in Int /\ At(u, j) \in Int
  BY <1>3, AtIs
<1> DEFINE m == IF i < j THEN i ELSE j
<1>5. m \in Nat /\ m <= Len(s) /\ m <= Len(u) /\ m <= i /\ m <= j
  BY <1>3
<1>6. At(s, m) < At(u, m)
  <2>1. CASE i < j
    <3>1. i \in 0 .. j - 1
      BY <1>3, <2>1
    <3>2. At(t, i) = At(u, i)
      BY <1>3, <3>1
    <3> QED
      BY <1>1, <2>1, <3>2
  <2>2. CASE j < i
    <3>1. j \in 0 .. i - 1
      BY <1>3, <2>2
    <3>2. At(s, j) = At(t, j)
      BY <1>3, <3>1
    <3>3. m = j
      BY <1>3, <2>2
    <3> QED
      BY <1>2, <3>2, <3>3
  <2>3. CASE i = j
    <3>1. m = j
      BY <2>3
    <3>2. At(s, j) < At(t, j) /\ At(t, j) < At(u, j)
      BY <1>1, <1>2, <2>3
    <3>3. At(s, j) < At(u, j)
      BY <1>4, <3>2
    <3> QED
      BY <3>1, <3>3
  <2> QED
    BY <1>3, <2>1, <2>2, <2>3
<1>7. ASSUME NEW k \in 0 .. m - 1 PROVE At(s, k) = At(u, k)
  <2>1. k \in 0 .. i - 1 /\ k \in 0 .. j - 1
    BY <1>3, <1>5
  <2> QED
    BY <1>3, <2>1
<1>8. At(s, m) # At(u, m)
  <2>1. At(s, m) \in Int /\ At(u, m) \in Int
    BY <1>5, AtIs
  <2> HIDE DEF m
  <2> QED
    BY <1>6, <2>1
<1> HIDE DEF m
<1>9. First(s, u, m)
  BY <1>5, <1>7, <1>8 DEF First
<1> QED
  BY <1>6, <1>9, LessIs

\* operator< (mstring.cc 518-530) is a strict order of all strings, operator> is
\* that order the other way round, and two strings are equal when neither is
\* less: negative characters and texts that end early included.
THEOREM OrderedThm == Spec => []Ordered
<1>1. Typed => Ordered
  <2> SUFFICES ASSUME Typed, AllUsable, NEW s \in Texts, NEW t \in Texts
               PROVE  /\ Less(s, t) <=> Greater(t, s)
                      /\ Equal(s, t) <=> ~Less(s, t) /\ ~Less(t, s)
                      /\ \A u \in Literals : Less(s, t) /\ Less(t, u) => Less(s, u)
    BY DEF Ordered
  <2>1. s \in Seq(Chars) /\ t \in Seq(Chars)
    BY Short DEF Texts
  <2>2. \A i : First(s, t, i) <=> First(t, s, i)
    BY FirstIs
  <2>3. Less(s, t) <=> \E i : First(s, t, i) /\ At(s, i) < At(t, i)
    BY <2>1, LessIs
  <2>4. Less(t, s) <=> \E i : First(t, s, i) /\ At(t, i) < At(s, i)
    BY <2>1, LessIs
  <2>5. Greater(t, s) <=> \E i : First(t, s, i) /\ At(t, i) > At(s, i)
    BY <2>1, LessIs
  <2>6. ASSUME NEW i, First(s, t, i)
        PROVE  /\ At(s, i) < At(t, i) <=> At(t, i) > At(s, i)
               /\ At(s, i) < At(t, i) \/ At(t, i) < At(s, i)
    <3>1. i \in Nat /\ At(s, i) # At(t, i)
      BY <2>6 DEF First
    <3>2. At(s, i) \in Int /\ At(t, i) \in Int
      BY <2>1, <3>1, AtIs
    <3> QED
      BY <3>1, <3>2
  <2>7. Less(s, t) <=> Greater(t, s)
    BY <2>2, <2>3, <2>5, <2>6
  <2>8. Equal(s, t) <=> ~Less(s, t) /\ ~Less(t, s)
    <3>1. Equal(s, t) <=> \A i : ~First(s, t, i)
      BY <2>1, EqualIs
    <3> QED
      BY <2>2, <2>3, <2>4, <2>6, <3>1
  <2>9. ASSUME NEW u \in Literals, Less(s, t), Less(t, u) PROVE Less(s, u)
    <3>1. u \in Seq(Chars)
      BY LiteralIs
    <3> QED
      BY <2>1, <2>9, <3>1, LessTransitive
  <2> QED
    BY <2>7, <2>8, <2>9
<1> QED
  BY <1>1, TypedThm, PTL

-----------------------------------------------------------------------------
(* Splitting                                                                 *)

LEMMA Splice ==
  ASSUME NEW S, NEW s \in Seq(S), NEW i \in 0 .. Len(s), NEW m \in i .. Len(s)
  PROVE  SubSeq(s, i + 1, m) \o From(s, m) = From(s, i)
<1> DEFINE n == Len(s)
           a == SubSeq(s, i + 1, m)
           b == From(s, m)
           c == From(s, i)
<1>1. n \in Nat /\ i \in 0 .. n /\ m \in i .. n /\ m \in 0 .. n
  BY LenProperties
<1>2. a \in Seq(S) /\ Len(a) = m - i /\ \A k \in 1 .. m - i : a[k] = s[i + k]
  BY PartIs
<1>3. b \in Seq(S) /\ Len(b) = n - m /\ \A k \in 1 .. n - m : b[k] = s[m + k]
  BY <1>1, FromIs
<1>4. c \in Seq(S) /\ Len(c) = n - i /\ \A k \in 1 .. n - i : c[k] = s[i + k]
  BY FromIs
<1> HIDE DEF n, a, b, c
<1>5. Len(c) = Len(a) + Len(b)
  BY <1>1, <1>2, <1>3, <1>4
<1>6. \A k \in 1 .. Len(a) : c[k] = a[k]
  BY <1>1, <1>2, <1>4
<1>7. ASSUME NEW k \in 1 .. Len(b) PROVE c[Len(a) + k] = b[k]
  <2>1. Len(a) + k \in 1 .. n - i /\ i + (Len(a) + k) = m + k /\ k \in 1 .. n - m
    BY <1>1, <1>2, <1>3
  <2> QED
    BY <1>3, <1>4, <2>1
<1>8. a \o b = c
  BY <1>2, <1>3, <1>4, <1>5, <1>6, <1>7, ConcatIs
<1> QED
  BY <1>8 DEF a, b, c

\* The pieces strsplit cuts.
LEMMA strsplitIs ==
  ASSUME NEW S, NEW s \in Seq(S), NEW t \in Seq(S), t # <<>>
  PROVE  \E head \in [0 .. Len(s) -> Seq(Seq(S))] : \E f :
           /\ CutsAs(f, s, t, head) /\ strsplit(s, t) = f[0]
           /\ \A i \in 0 .. Len(s) : strstr(s, i, t) # None => head[i] = <<SubSeq(s, i + 1, strstr(s, i, t))>>
<1> DEFINE n == Len(s)
           Piece(i) == <<SubSeq(s, i + 1, strstr(s, i, t))>>
           head == [i \in 0 .. n |-> IF strstr(s, i, t) = None THEN <<>> ELSE Piece(i)]
           RestAs(f) == f = [i \in 0 .. n |->
             LET match == strstr(s, i, t)
             IN  IF match = None THEN <<From(s, i)>>
                 ELSE <<SubSeq(s, i + 1, match)>> \o f[match + Len(t)]]
           rest == CHOOSE f : RestAs(f)
<1>1. \A i \in 0 .. n : strstr(s, i, t) # None => Piece(i) \in Seq(Seq(S))
  <2>1. ASSUME NEW i \in 0 .. n, strstr(s, i, t) # None PROVE SubSeq(s, i + 1, strstr(s, i, t)) \in Seq(S)
    <3>1. Finds(s, i, t, strstr(s, i, t))
      BY strstrIs
    <3>2. strstr(s, i, t) \in i .. Len(s)
      BY <2>1, <3>1 DEF Finds
    <3> QED
      BY <3>2, PartIs
  <2> QED
    BY <2>1, SingleIs
<1>2. head \in [0 .. n -> Seq(Seq(S))] /\ \A i \in 0 .. n : strstr(s, i, t) # None => head[i] = Piece(i)
  <2> HIDE DEF Piece
  <2> QED
    BY <1>1, EmptySeq
<1> HIDE DEF head
<1>3. strsplit(s, t) = rest[0]
  BY DEF strsplit
<1>4. ASSUME NEW f PROVE CutsAs(f, s, t, head) <=> RestAs(f)
  <2> HIDE DEF Piece
  <2>1. ASSUME NEW i \in 0 .. n
        PROVE  (IF strstr(s, i, t) = None THEN <<From(s, i)>> ELSE head[i] \o f[strstr(s, i, t) + Len(t)])
             = (IF strstr(s, i, t) = None THEN <<From(s, i)>> ELSE Piece(i) \o f[strstr(s, i, t) + Len(t)])
    BY <1>2
  <2>2. [i \in 0 .. n |-> IF strstr(s, i, t) = None THEN <<From(s, i)>> ELSE head[i] \o f[strstr(s, i, t) + Len(t)]]
      = [i \in 0 .. n |-> IF strstr(s, i, t) = None THEN <<From(s, i)>> ELSE Piece(i) \o f[strstr(s, i, t) + Len(t)]]
    BY <2>1
  <2> QED
    BY <2>2 DEF CutsAs, Piece
<1> HIDE DEF RestAs
<1>5. \E f : RestAs(f)
  BY <1>2, <1>4, CutsExist
<1>6. RestAs(rest)
  BY <1>5
<1> HIDE DEF rest
<1>7. CutsAs(rest, s, t, head)
  BY <1>4, <1>6
<1> QED
  BY <1>2, <1>3, <1>7

\* What a step of a cut is: nothing more is found, or it goes on at k behind a
\* match at m.
Stays(f, s, t, i) == f[i] = <<From(s, i)>> /\ \A l \in i .. Len(s) : ~Matches(s, l, t)
Goes(S, f, s, t, head, i, m, k) ==
  /\ m \in i .. Len(s) /\ k \in i + 1 .. Len(s) /\ k \in m .. Len(s)
  /\ strstr(s, i, t) = m /\ m # None /\ k = m + Len(t)
  /\ Matches(s, m, t) /\ \A l \in i .. m - 1 : ~Matches(s, l, t)
  /\ f[i] = head[i] \o f[k] /\ f[k] \in Seq(Seq(S)) /\ f[k] # <<>>

LEMMA CutIs ==
  ASSUME NEW S, NEW s \in Seq(S), NEW t \in Seq(S), t # <<>>, NEW head \in [0 .. Len(s) -> Seq(Seq(S))],
         NEW f, CutsAs(f, s, t, head), NEW i \in 0 .. Len(s)
  PROVE  \/ strstr(s, i, t) = None /\ Stays(f, s, t, i)
         \/ \E m, k : Goes(S, f, s, t, head, i, m, k)
<1>1. f[i] = IF strstr(s, i, t) = None THEN <<From(s, i)>> ELSE head[i] \o f[strstr(s, i, t) + Len(t)]
  BY DEF CutsAs
<1> DEFINE m == strstr(s, i, t)
           k == m + Len(t)
<1>2. Finds(s, i, t, m) /\ Len(s) \in Nat /\ Len(t) \in Nat
  BY strstrIs, LenProperties
<1>3. f[i] = IF m = None THEN <<From(s, i)>> ELSE head[i] \o f[k]
  BY <1>1
<1> HIDE DEF m
<1>4. CASE m = None
  <2>1. \A l \in i .. Len(s) : ~Matches(s, l, t)
    BY <1>2, <1>4 DEF Finds, None
  <2> QED
    BY <1>3, <1>4, <2>1 DEF m, Stays
<1>5. CASE m # None
  <2>1. m \in i .. Len(s) /\ k \in i + 1 .. Len(s) /\ Matches(s, m, t) /\ \A l \in i .. m - 1 : ~Matches(s, l, t)
    BY <1>2, <1>5 DEF Finds
  <2>2. k \in 0 .. Len(s) /\ k \in m .. Len(s)
    BY <1>2, <2>1
  <2>3. f[k] \in Seq(Seq(S)) /\ f[k] # <<>>
    BY <2>2, CutsAre
  <2> HIDE DEF k
  <2>4. f[i] = head[i] \o f[k]
    BY <1>3, <1>5
  <2>5. strstr(s, i, t) = m /\ k = m + Len(t)
    BY DEF m, k
  <2> QED
    BY <1>5, <2>1, <2>2, <2>3, <2>4, <2>5 DEF Goes
<1> QED
  BY <1>4, <1>5

\* Each match is preceded by what stands before it.
Heads(head, s, t) ==
  \A i \in 0 .. Len(s) : strstr(s, i, t) # None => head[i] = <<SubSeq(s, i + 1, strstr(s, i, t))>>

\* The pieces joined by what they were cut at are the text again.
LEMMA CutsJoin ==
  ASSUME NEW S, NEW s \in Seq(S), NEW t \in Seq(S), t # <<>>, NEW head \in [0 .. Len(s) -> Seq(Seq(S))],
         Heads(head, s, t), NEW f, CutsAs(f, s, t, head)
  PROVE  \A i \in 0 .. Len(s) : join(f[i], t) = From(s, i)
<1> DEFINE n == Len(s)
           T == {i \in 0 .. n : join(f[i], t) = From(s, i)}
<1>1. n \in Nat
  BY LenProperties
<1>2. ASSUME NEW i \in 0 .. n, \A k \in i + 1 .. n : k \in T PROVE i \in T
  <2>1. CASE Stays(f, s, t, i)
    <3>1. From(s, i) \in Seq(S)
      BY FromIs
    <3>2. join(<<From(s, i)>>, t) = From(s, i)
      BY <3>1, JoinOne
    <3> QED
      BY <2>1, <3>2 DEF Stays
  <2>2. ASSUME NEW m, NEW k, Goes(S, f, s, t, head, i, m, k) PROVE i \in T
    <3>0. /\ m \in i .. Len(s) /\ k \in i + 1 .. Len(s) /\ k \in m .. Len(s)
          /\ strstr(s, i, t) = m /\ m # None /\ k = m + Len(t) /\ Matches(s, m, t)
          /\ f[i] = head[i] \o f[k] /\ f[k] \in Seq(Seq(S)) /\ f[k] # <<>>
      BY <2>2 DEF Goes
    <3> DEFINE p == SubSeq(s, i + 1, m)
               q == f[k]
    <3>1. m \in 0 .. n /\ head[i] = <<p>> /\ t = SubSeq(s, m + 1, k)
      BY SMTT(40), <1>1, <3>0 DEF Heads, Matches
    <3>2. p \in Seq(S) /\ q \in Seq(Seq(S)) /\ q # <<>> /\ f[i] = <<p>> \o q
      BY <3>0, <3>1, PartIs
    <3>3. join(q, t) = From(s, k)
      BY <1>2, <3>0
    <3>4. t \o From(s, k) = From(s, m)
      <4>1. SubSeq(s, m + 1, k) \o From(s, k) = From(s, m)
        BY <3>0, <3>1, Splice
      <4> QED
        BY <3>1, <4>1
    <3>5. p \o From(s, m) = From(s, i)
      BY <3>0, Splice
    <3> HIDE DEF p, q, T
    <3>6. Prefixed(p, q, t)
      BY <3>2, JoinMore
    <3>7. join(f[i], t) = From(s, i)
      BY <3>2, <3>3, <3>4, <3>5, <3>6 DEF Prefixed
    <3> QED
      BY <3>7 DEF T
  <2> HIDE DEF T
  <2> QED
    BY <2>1, <2>2, CutIs
<1> HIDE DEF T
<1>3. \A i \in 0 .. n : i \in T
  BY <1>1, <1>2, Downwards
<1> QED
  BY <1>3 DEF T

Clean(q, t) == \A j \in DOMAIN q : ~contains(q[j], t)

LEMMA CleanMore ==
  ASSUME NEW S, NEW p \in S, NEW q \in Seq(S), NEW t, ~contains(p, t), Clean(q, t)
  PROVE  Clean(<<p>> \o q, t)
<1> DEFINE one == <<p>>
           all == one \o q
<1>1. one \in Seq(S) /\ Len(one) = 1 /\ one[1] = p
  BY SingleIs
<1> HIDE DEF one
<1>2. /\ all \in Seq(S) /\ Len(all) = Len(one) + Len(q) /\ Len(q) \in Nat
      /\ \A j \in 1 .. Len(one) : all[j] = one[j]
      /\ \A j \in 1 .. Len(q) : all[Len(one) + j] = q[j]
  <2>1. one \in Seq(S) /\ q \in Seq(S)
    BY <1>1
  <2> QED
    BY <2>1, ConcatAt
<1> HIDE DEF all
<1>3. DOMAIN all = 1 .. Len(all) /\ DOMAIN q = 1 .. Len(q)
  BY <1>2, LenProperties
<1>4. ASSUME NEW j \in DOMAIN all PROVE ~contains(all[j], t)
  <2>1. CASE j = 1
    BY <1>1, <1>2, <2>1
  <2>2. CASE j # 1
    <3>1. j - 1 \in 1 .. Len(q) /\ Len(one) + (j - 1) = j
      BY <1>1, <1>2, <1>3, <2>2
    <3>2. all[j] = q[j - 1]
      BY <1>2, <3>1
    <3> QED
      BY <1>3, <3>1, <3>2 DEF Clean
  <2> QED
    BY <2>1, <2>2
<1>5. Clean(all, t)
  BY <1>4 DEF Clean
<1> QED
  BY <1>5 DEF all, one

\* A part of a text, in one word.
Part(S, s, i, m) ==
  /\ SubSeq(s, i + 1, m) \in Seq(S) /\ Len(SubSeq(s, i + 1, m)) = m - i
  /\ \A k \in 1 .. m - i : SubSeq(s, i + 1, m)[k] = s[i + k]

LEMMA PartHolds ==
  ASSUME NEW S, NEW s \in Seq(S), NEW i \in 0 .. Len(s), NEW m \in i .. Len(s)
  PROVE  Part(S, s, i, m)
BY PartIs DEF Part

\* A match inside of a part is a match of the text.
LEMMA PartClean ==
  ASSUME NEW S, NEW s \in Seq(S), NEW t \in Seq(S), t # <<>>, NEW i \in 0 .. Len(s), NEW m \in i .. Len(s),
         \A l \in i .. m - 1 : ~Matches(s, l, t)
  PROVE  ~contains(SubSeq(s, i + 1, m), t)
<1> DEFINE p == SubSeq(s, i + 1, m)
<1>1. p \in Seq(S) /\ Len(p) = m - i /\ \A k \in 1 .. m - i : p[k] = s[i + k]
  BY PartIs
<1>2. Len(s) \in Nat /\ Len(t) \in Nat /\ Len(t) # 0 /\ 0 \in 0 .. Len(p)
  BY <1>1, LenProperties, EmptySeq
<1> HIDE DEF p
<1>3. ASSUME contains(p, t) PROVE FALSE
  <2> DEFINE l == strstr(p, 0, t)
  <2>1. l # None /\ Finds(p, 0, t, l)
    BY <1>1, <1>2, <1>3, strstrIs DEF contains
  <2> HIDE DEF l
  <2>2. l \in 0 .. Len(p) /\ Matches(p, l, t)
    BY <2>1 DEF Finds
  <2>3. l + Len(t) <= Len(p) /\ SubSeq(p, l + 1, l + Len(t)) = t
    BY <2>2 DEF Matches
  <2>4. /\ i + l \in 0 .. Len(s) /\ (i + l) + Len(t) \in i + l .. Len(s) /\ i + l \in i .. m - 1
        /\ l + Len(t) \in l .. Len(p) /\ ((i + l) + Len(t)) - (i + l) = Len(t) /\ (l + Len(t)) - l = Len(t)
    BY <1>1, <1>2, <2>2, <2>3
  <2> DEFINE a == SubSeq(s, (i + l) + 1, (i + l) + Len(t))
             b == SubSeq(p, l + 1, l + Len(t))
             n == Len(t)
  <2>5. a \in Seq(S) /\ Len(a) = n /\ \A k \in 1 .. n : a[k] = s[(i + l) + k]
    <3>1. Part(S, s, i + l, (i + l) + Len(t))
      BY <2>4, PartHolds
    <3> QED
      BY <2>4, <3>1 DEF Part
  <2>6. b \in Seq(S) /\ Len(b) = n /\ \A k \in 1 .. n : b[k] = p[l + k]
    <3>1. Part(S, p, l, l + Len(t))
      BY <1>1, <2>2, <2>4, PartHolds
    <3> QED
      BY <2>4, <3>1 DEF Part
  <2> HIDE DEF a, b, n
  <2>7. ASSUME NEW k \in 1 .. n PROVE a[k] = b[k]
    <3>1. l + k \in 1 .. m - i /\ i + (l + k) = (i + l) + k
      BY <1>1, <1>2, <2>2, <2>3 DEF n
    <3> QED
      BY <1>1, <2>5, <2>6, <3>1
  <2>8. a = b
    BY <2>5, <2>6, <2>7, SeqEqual
  <2>9. Matches(s, i + l, t)
    <3>1. (i + l) + Len(t) <= Len(s)
      BY <1>2, <2>4
    <3>2. SubSeq(s, (i + l) + 1, (i + l) + Len(t)) = t
      BY <2>3, <2>8 DEF a, b
    <3> QED
      BY <3>1, <3>2 DEF Matches
  <2> QED
    BY <2>4, <2>9
<1> QED
  BY <1>3 DEF p

\* A piece and what it is replaced by.
Twice(p, by, rest) == FlattenSeq(<<p, by>> \o rest) = p \o (by \o FlattenSeq(rest))

LEMMA FlattenTwice ==
  ASSUME NEW S, NEW p \in Seq(S), NEW by \in Seq(S), NEW rest \in Seq(Seq(S)), rest # <<>>
  PROVE  Twice(p, by, rest)
<1> DEFINE a == <<p>>
           b == <<by>>
           two == <<p, by>>
<1>1. /\ a \in Seq(Seq(S)) /\ b \in Seq(Seq(S)) /\ two \in Seq(Seq(S))
      /\ Len(a) = 1 /\ Len(b) = 1 /\ Len(two) = 2
      /\ a[1] = p /\ b[1] = by /\ two[1] = p /\ two[2] = by
  <2> DEFINE Q == Seq(S)
  <2>1. p \in Q /\ by \in Q
    OBVIOUS
  <2> HIDE DEF Q
  <2>2. /\ a \in Seq(Q) /\ b \in Seq(Q) /\ two \in Seq(Q)
        /\ Len(a) = 1 /\ Len(b) = 1 /\ Len(two) = 2
        /\ a[1] = p /\ b[1] = by /\ two[1] = p /\ two[2] = by
    BY <2>1
  <2> QED
    BY <2>2 DEF Q
<1> HIDE DEF a, b, two
<1>2. a \o b = two
  <2>1. Len(two) = Len(a) + Len(b) /\ \A i \in 1 .. Len(a) : two[i] = a[i]
    BY <1>1
  <2>2. \A i \in 1 .. Len(b) : two[Len(a) + i] = b[i]
    BY <1>1
  <2> QED
    BY <1>1, <2>1, <2>2, ConcatIs
<1>3. two \o rest = a \o (b \o rest)
  <2>1. Brackets(a, b, rest)
    BY <1>1, Assoc
  <2> QED
    BY <1>2, <2>1 DEF Brackets
<1>4. b \o rest \in Seq(Seq(S)) /\ b \o rest # <<>>
  BY <1>1, ConcatSome
<1>5. FlattenSeq(b \o rest) = by \o FlattenSeq(rest)
  BY FlattenMore DEF b
<1> DEFINE c == b \o rest
<1> HIDE DEF c
<1>6. c \in Seq(Seq(S)) /\ c # <<>> /\ two \o rest = a \o c /\ FlattenSeq(c) = by \o FlattenSeq(rest)
  BY <1>3, <1>4, <1>5 DEF c
<1>7. FlattenSeq(a \o c) = p \o FlattenSeq(c)
  BY <1>6, FlattenMore DEF a
<1>8. FlattenSeq(two \o rest) = p \o (by \o FlattenSeq(rest))
  BY <1>6, <1>7
<1> QED
  BY <1>8 DEF Twice, two

\* No piece holds what the text was cut at.
LEMMA CutsClean ==
  ASSUME NEW S, NEW s \in Seq(S), NEW t \in Seq(S), t # <<>>, NEW head \in [0 .. Len(s) -> Seq(Seq(S))],
         Heads(head, s, t), NEW f, CutsAs(f, s, t, head)
  PROVE  \A i \in 0 .. Len(s) : Clean(f[i], t)
<1> DEFINE n == Len(s)
           T == {i \in 0 .. n : Clean(f[i], t)}
<1>1. n \in Nat
  BY LenProperties
<1>2. ASSUME NEW i \in 0 .. n, \A k \in i + 1 .. n : k \in T PROVE i \in T
  <2>1. CASE Stays(f, s, t, i)
    <3>1. From(s, i) \in Seq(S)
      BY FromIs
    <3>2. ~contains(From(s, i), t)
      <4>1. n \in i .. Len(s) /\ \A l \in i .. n - 1 : ~Matches(s, l, t)
        BY <1>1, <2>1 DEF Stays
      <4>2. ~contains(SubSeq(s, i + 1, n), t)
        BY <4>1, PartClean
      <4> QED
        BY <4>2 DEF From
    <3> DEFINE q == <<From(s, i)>>
    <3>3. DOMAIN q = {1} /\ q[1] = From(s, i)
      OBVIOUS
    <3> HIDE DEF q, T
    <3>4. Clean(q, t)
      BY <3>2, <3>3 DEF Clean
    <3> QED
      BY <2>1, <3>4 DEF Stays, q, T
  <2>2. ASSUME NEW m, NEW k, Goes(S, f, s, t, head, i, m, k) PROVE i \in T
    <3>0. /\ m \in i .. Len(s) /\ k \in i + 1 .. Len(s) /\ strstr(s, i, t) = m /\ m # None
          /\ \A l \in i .. m - 1 : ~Matches(s, l, t)
          /\ f[i] = head[i] \o f[k] /\ f[k] \in Seq(Seq(S))
      BY <2>2 DEF Goes
    <3> DEFINE p == SubSeq(s, i + 1, m)
               q == f[k]
    <3>1. head[i] = <<p>> /\ f[i] = <<p>> \o q /\ q \in Seq(Seq(S))
      BY <3>0 DEF Heads
    <3>2. p \in Seq(S)
      BY <3>0, PartIs
    <3>3. ~contains(p, t)
      BY <3>0, PartClean
    <3>4. Clean(q, t)
      BY <1>2, <3>0
    <3> HIDE DEF p, q, T
    <3>5. Clean(<<p>> \o q, t)
      BY <3>1, <3>2, <3>3, <3>4, CleanMore
    <3> QED
      BY <3>1, <3>5 DEF T
  <2> HIDE DEF T
  <2> QED
    BY <2>1, <2>2, CutIs
<1> HIDE DEF T
<1>3. \A i \in 0 .. n : i \in T
  BY <1>1, <1>2, Downwards
<1> QED
  BY <1>3 DEF T

\* The first piece is what the text begins with.
LEMMA FirstPiece ==
  ASSUME NEW S, NEW s \in Seq(S), NEW t \in Seq(S), t # <<>>, NEW head \in [0 .. Len(s) -> Seq(Seq(S))],
         Heads(head, s, t), NEW f, CutsAs(f, s, t, head)
  PROVE  strncmp(s, 0, f[0][1])
<1>1. Len(s) \in Nat /\ 0 \in 0 .. Len(s)
  BY LenProperties
<1>2. \E e \in 0 .. Len(s) : f[0][1] = SubSeq(s, 0 + 1, e)
  <2>1. CASE Stays(f, s, t, 0)
    <3>1. f[0][1] = From(s, 0)
      BY <2>1 DEF Stays
    <3> QED
      BY <1>1, <3>1 DEF From
  <2>2. ASSUME NEW m, NEW k, Goes(S, f, s, t, head, 0, m, k) PROVE f[0][1] = SubSeq(s, 0 + 1, m) /\ m \in 0 .. Len(s)
    <3>0. /\ m \in 0 .. Len(s) /\ strstr(s, 0, t) = m /\ m # None
          /\ f[0] = head[0] \o f[k] /\ f[k] \in Seq(Seq(S))
      BY <2>2 DEF Goes
    <3> DEFINE p == SubSeq(s, 0 + 1, m)
               q == f[k]
               one == <<p>>
    <3>1. f[0] = one \o q /\ q \in Seq(Seq(S))
      BY <1>1, <3>0 DEF Heads
    <3>2. p \in Seq(S)
      BY <1>1, <3>0, PartIs
    <3> HIDE DEF p
    <3>3. one \in Seq(Seq(S)) /\ Len(one) = 1 /\ one[1] = p
      BY <3>2, SingleIs
    <3> HIDE DEF q, one
    <3>4. \A j \in 1 .. Len(one) : (one \o q)[j] = one[j]
      BY <3>1, <3>3, ConcatAt
    <3>5. f[0][1] = p
      <4>1. 1 \in 1 .. Len(one)
        BY <3>3
      <4>2. (one \o q)[1] = one[1]
        BY <3>4, <4>1
      <4> QED
        BY <3>1, <3>3, <4>2
    <3> QED
      BY <3>0, <3>5 DEF p
  <2> QED
    BY <1>1, <2>1, <2>2, CutIs
<1>3. PICK e \in 0 .. Len(s) : f[0][1] = SubSeq(s, 0 + 1, e)
  BY <1>2
<1> DEFINE p == f[0][1]
<1>4. p = SubSeq(s, 0 + 1, e) /\ Len(p) = e
  <2>1. Len(SubSeq(s, 0 + 1, e)) = e - 0 /\ e - 0 = e
    BY <1>1, <1>3, PartIs
  <2> QED
    BY <1>3, <2>1
<1> HIDE DEF p
<1>5. Matches(s, 0, p)
  <2>1. 0 + Len(p) = e /\ e <= Len(s)
    BY <1>1, <1>3, <1>4
  <2> QED
    BY <1>4, <2>1 DEF Matches
<1>6. ~(Len(s) + 0 < Len(p))
  BY <1>1, <1>3, <1>4
<1> QED
  BY <1>5, <1>6 DEF strncmp, p

\* To replace is to join by something else.
Swaps(S, s, t, by, head, f, heads, g) == \A i \in 0 .. Len(s) : FlattenSeq(g[i]) = join(f[i], by)

LEMMA CutsReplace ==
  ASSUME NEW S, NEW s \in Seq(S), NEW t \in Seq(S), t # <<>>, NEW by \in Seq(S),
         NEW head \in [0 .. Len(s) -> Seq(Seq(S))], Heads(head, s, t), NEW f, CutsAs(f, s, t, head),
         NEW heads \in [0 .. Len(s) -> Seq(Seq(S))], NEW g, CutsAs(g, s, t, heads), HeadsBy(heads, s, t, by)
  PROVE  Swaps(S, s, t, by, head, f, heads, g)
<1> DEFINE n == Len(s)
           T == {i \in 0 .. n : FlattenSeq(g[i]) = join(f[i], by)}
<1>1. n \in Nat
  BY LenProperties
<1>2. ASSUME NEW i \in 0 .. n, \A k \in i + 1 .. n : k \in T PROVE i \in T
  <2>0. (strstr(s, i, t) = None /\ Stays(g, s, t, i)) \/ \E m, k : Goes(S, g, s, t, heads, i, m, k)
    BY CutIs
  <2>1. CASE strstr(s, i, t) = None /\ Stays(f, s, t, i)
    <3>1. Stays(g, s, t, i)
      BY <2>0, <2>1 DEF Goes
    <3> DEFINE q == <<From(s, i)>>
    <3>2. From(s, i) \in Seq(S)
      BY FromIs
    <3>3. join(q, by) = From(s, i)
      BY <3>2, JoinOne
    <3>4. FlattenSeq(q) = From(s, i)
      <4>1. q \in Seq(Seq(S)) /\ q # <<>>
        BY <3>2, SingleIs
      <4>2. FlattenSeq(q) = join(q, <<>>)
        BY <4>1, FlattenIs
      <4>3. <<>> \in Seq(S)
        BY EmptySeq
      <4>4. join(q, <<>>) = From(s, i)
        BY <3>2, <4>3, JoinOne
      <4> QED
        BY <4>2, <4>4
    <3>5. f[i] = q /\ g[i] = q
      BY <2>1, <3>1 DEF Stays
    <3> QED
      BY <3>3, <3>4, <3>5
  <2>2. ASSUME NEW m, NEW k, Goes(S, f, s, t, head, i, m, k) PROVE i \in T
    <3>0. /\ m \in i .. Len(s) /\ k \in i + 1 .. Len(s) /\ strstr(s, i, t) = m /\ m # None /\ k = m + Len(t)
          /\ f[i] = head[i] \o f[k] /\ f[k] \in Seq(Seq(S)) /\ f[k] # <<>>
      BY <2>2 DEF Goes
    <3>1. g[i] = heads[i] \o g[k] /\ g[k] \in Seq(Seq(S)) /\ g[k] # <<>>
      BY <2>0, <3>0 DEF Goes
    <3> DEFINE p == SubSeq(s, i + 1, m)
               q == f[k]
               h == g[k]
    <3>2. head[i] = <<p>> /\ heads[i] = <<p, by>>
      BY <3>0 DEF Heads, HeadsBy
    <3>3. p \in Seq(S)
      BY <3>0, PartIs
    <3>4. FlattenSeq(h) = join(q, by)
      BY <1>2, <3>0
    <3>5. f[i] = <<p>> \o q /\ g[i] = <<p, by>> \o h /\ q \in Seq(Seq(S)) /\ q # <<>> /\ h \in Seq(Seq(S)) /\ h # <<>>
      BY <3>0, <3>1, <3>2
    <3> HIDE DEF p, q, h, T
    <3>6. join(f[i], by) = p \o (by \o join(q, by))
      <4>1. Prefixed(p, q, by)
        BY <3>3, <3>5, JoinMore
      <4> QED
        BY <3>5, <4>1 DEF Prefixed
    <3>7. FlattenSeq(g[i]) = p \o (by \o FlattenSeq(h))
      <4>1. Twice(p, by, h)
        BY <3>3, <3>5, FlattenTwice
      <4> QED
        BY <3>5, <4>1 DEF Twice
    <3> QED
      BY <3>4, <3>6, <3>7 DEF T
  <2> QED
    BY <2>1, <2>2, CutIs
<1> HIDE DEF T
<1>3. \A i \in 0 .. n : i \in T
  BY <1>1, <1>2, Downwards
<1> QED
  BY <1>3 DEF T, Swaps

\* The positions from i on at which strsep stops, and the first of them.
EndsFrom(s, D, i) == {k \in i .. Len(s) - 1 : At(s, k) \in D}
FirstEnd(s, D, i) == CHOOSE e \in EndsFrom(s, D, i) : \A f \in EndsFrom(s, D, i) : e <= f

LEMMA FirstEndIs ==
  ASSUME NEW S, NEW s \in Seq(S), NEW D, NEW i \in 0 .. Len(s), EndsFrom(s, D, i) # {}
  PROVE  LET e == FirstEnd(s, D, i) IN
         /\ e \in i .. Len(s) - 1 /\ e \in i .. Len(s) /\ e + 1 \in i + 1 .. Len(s) /\ e + 1 \in 0 .. Len(s)
         /\ e \in EndsFrom(s, D, i) /\ \A k \in i .. e - 1 : k \notin EndsFrom(s, D, i)
<1> DEFINE B == EndsFrom(s, D, i)
           e == CHOOSE k \in B : \A f \in B : k <= f
<1>1. FirstEnd(s, D, i) = e
  BY DEF FirstEnd
<1>2. Len(s) \in Nat /\ i \in Nat
  BY LenProperties
<1>3. B \in SUBSET Nat /\ \A k \in B : k \in i .. Len(s) - 1
  BY <1>2 DEF EndsFrom
<1> HIDE DEF B
<1>4. \E k \in B : \A f \in B : k <= f
  BY <1>3, Least DEF B
<1>5. e \in B /\ \A f \in B : e <= f
  BY <1>4
<1> HIDE DEF e
<1>6. e \in i .. Len(s) - 1 /\ e \in i .. Len(s) /\ e + 1 \in i + 1 .. Len(s) /\ e + 1 \in 0 .. Len(s)
  BY <1>2, <1>3, <1>5
<1>7. ASSUME NEW k \in i .. e - 1 PROVE k \notin B
  BY <1>2, <1>5, <1>6
<1> QED
  BY <1>1, <1>5, <1>6, <1>7 DEF B

\* What split has found from i on when n pieces are done.
SplitAs(f, s, D, len) ==
  f = [i \in 0 .. Len(s) |-> [n \in Nat |->
        IF n + 1 = len \/ EndsFrom(s, D, i) = {} THEN <<From(s, i)>>
        ELSE <<SubSeq(s, i + 1, FirstEnd(s, D, i))>> \o f[FirstEnd(s, D, i) + 1][n + 1]]]

SplitAt(f, s, D, len, i, n) ==
  f[i][n] = IF n + 1 = len \/ EndsFrom(s, D, i) = {} THEN <<From(s, i)>>
            ELSE <<SubSeq(s, i + 1, FirstEnd(s, D, i))>> \o f[FirstEnd(s, D, i) + 1][n + 1]

LEMMA SplitExists ==
  ASSUME NEW S, NEW s \in Seq(S), NEW D, NEW len
  PROVE  \E f : SplitAs(f, s, D, len)
<1> DEFINE m == Len(s)
           P == Seq(Seq(S))
           Q == [Nat -> P]
           None_(i) == EndsFrom(s, D, i) = {}
           Last_(i) == <<From(s, i)>>
           Piece(i) == <<SubSeq(s, i + 1, FirstEnd(s, D, i))>>
           To(i) == FirstEnd(s, D, i) + 1
           More(i, q, n) == IF n + 1 = len THEN Last_(i) ELSE Piece(i) \o q[n + 1]
           base == [i \in 0 .. m |-> [n \in Nat |-> Last_(i)]]
           jump == [i \in 0 .. m |-> IF None_(i) THEN i ELSE To(i)]
           step == [i \in 0 .. m |-> [q \in Q |-> IF None_(i) THEN q ELSE [n \in Nat |-> More(i, q, n)]]]
<1>1. m \in Nat
  BY LenProperties
<1>2. \A i \in 0 .. m : ~None_(i) => To(i) \in i + 1 .. m /\ To(i) \in 0 .. m /\ Piece(i) \in P
  <2>1. ASSUME NEW i \in 0 .. m, ~None_(i) PROVE To(i) \in i + 1 .. m /\ To(i) \in 0 .. m /\ Piece(i) \in P
    <3>1. FirstEnd(s, D, i) \in i .. Len(s) /\ To(i) \in i + 1 .. m /\ To(i) \in 0 .. m
      BY <2>1, FirstEndIs
    <3>2. SubSeq(s, i + 1, FirstEnd(s, D, i)) \in Seq(S)
      BY <3>1, PartIs
    <3> QED
      BY <3>1, <3>2, SingleIs
  <2> QED
    BY <2>1
<1>3. \A i \in 0 .. m : Last_(i) \in P
  BY FromIs, SingleIs
<1> HIDE DEF m, None_, Last_, Piece, To
<1>4. jump \in [0 .. m -> 0 .. m] /\ \A i \in 0 .. m : jump[i] = IF None_(i) THEN i ELSE To(i)
  BY <1>1, <1>2
<1>5. base \in [0 .. m -> Q] /\ \A i \in 0 .. m : base[i] = [n \in Nat |-> Last_(i)]
  BY <1>3
<1>6. \A i \in 0 .. m : \A q \in Q : ~None_(i) => [n \in Nat |-> More(i, q, n)] \in Q
  <2>1. ASSUME NEW i \in 0 .. m, NEW q \in Q, ~None_(i), NEW n \in Nat PROVE More(i, q, n) \in P
    <3>1. q[n + 1] \in P /\ Piece(i) \in P /\ Last_(i) \in P
      BY <1>2, <1>3, <2>1
    <3>2. Piece(i) \o q[n + 1] \in P
      BY <3>1, ConcatIn
    <3> QED
      BY <3>1, <3>2
  <2> HIDE DEF More, P
  <2> QED
    BY <2>1
<1> HIDE DEF More, P
<1>7. /\ step \in [0 .. m -> [Q -> Q]]
      /\ \A i \in 0 .. m : \A q \in Q : ~None_(i) => step[i][q] = [n \in Nat |-> More(i, q, n)]
  <2> DEFINE Next_(i, q) == IF None_(i) THEN q ELSE [n \in Nat |-> More(i, q, n)]
  <2>1. \A i \in 0 .. m : \A q \in Q : Next_(i, q) \in Q /\ (~None_(i) => Next_(i, q) = [n \in Nat |-> More(i, q, n)])
    BY <1>6
  <2>2. step = [i \in 0 .. m |-> [q \in Q |-> Next_(i, q)]]
    OBVIOUS
  <2> HIDE DEF Next_, Q, step
  <2> QED
    BY <2>1, <2>2
<1> HIDE DEF base, jump, step, Q
<1>8. PICK f : LeadsBack(f, Q, m, jump, base, step)
  BY <1>1, <1>4, <1>5, <1>7, Backwards
<1>9. /\ f \in [0 .. m -> Q]
      /\ \A i \in 0 .. m : f[i] = IF jump[i] > i THEN step[i][f[jump[i]]] ELSE base[i]
  BY <1>8 DEF LeadsBack
<1> DEFINE Right(i) == [n \in Nat |-> IF n + 1 = len \/ None_(i) THEN Last_(i) ELSE Piece(i) \o f[To(i)][n + 1]]
<1>10. ASSUME NEW i \in 0 .. m PROVE f[i] = Right(i)
  <2>1. CASE None_(i)
    <3>1. f[i] = [n \in Nat |-> Last_(i)]
      BY <1>1, <1>4, <1>5, <1>9, <2>1
    <3> QED
      BY <2>1, <3>1
  <2>2. CASE ~None_(i)
    <3>1. jump[i] = To(i) /\ To(i) > i /\ To(i) \in 0 .. m
      BY <1>1, <1>2, <1>4, <2>2
    <3>2. f[To(i)] \in Q
      BY <1>9, <3>1
    <3>3. f[i] = step[i][f[To(i)]]
      BY <1>9, <3>1
    <3>4. f[i] = [n \in Nat |-> More(i, f[To(i)], n)]
      BY <1>7, <2>2, <3>2, <3>3
    <3> QED
      BY <2>2, <3>4 DEF More
  <2> QED
    BY <2>1, <2>2
<1> HIDE DEF Right
<1>11. f = [i \in 0 .. m |-> Right(i)]
  BY <1>9, <1>10
<1>12. SplitAs(f, s, D, len)
  BY <1>11 DEF SplitAs, Right, None_, Last_, Piece, To, m
<1> QED
  BY <1>12

\* split is what it finds from the start.
LEMMA splitIs ==
  ASSUME NEW S, NEW s \in Seq(S), NEW D, NEW len
  PROVE  \E f : split(s, D, len) = f[0][0] /\ \A i \in 0 .. Len(s) : \A n \in Nat : SplitAt(f, s, D, len, i, n)
<1> DEFINE rest == CHOOSE f : SplitAs(f, s, D, len)
<1>1. split(s, D, len) = rest[0][0]
  BY DEF split, SplitAs, EndsFrom, FirstEnd
<1>2. SplitAs(rest, s, D, len)
  BY SplitExists
<1> HIDE DEF rest
<1>3. \A i \in 0 .. Len(s) : \A n \in Nat : SplitAt(rest, s, D, len, i, n)
  <2> DEFINE e(i, n) == IF n + 1 = len \/ EndsFrom(s, D, i) = {} THEN <<From(s, i)>>
                        ELSE <<SubSeq(s, i + 1, FirstEnd(s, D, i))>> \o rest[FirstEnd(s, D, i) + 1][n + 1]
  <2>1. rest = [i \in 0 .. Len(s) |-> [n \in Nat |-> e(i, n)]]
    BY <1>2 DEF SplitAs
  <2> HIDE DEF e
  <2>2. \A i \in 0 .. Len(s) : \A n \in Nat : rest[i][n] = e(i, n)
    BY <2>1
  <2> QED
    BY <2>2 DEF SplitAt, e
<1> QED
  BY <1>1, <1>3

\* What split has found, as steps.
Rests(f, s, D, i, n) == f[i][n] = <<From(s, i)>>
Ends(f, s, D, i, n, e) ==
  /\ EndsFrom(s, D, i) # {} /\ e = FirstEnd(s, D, i)
  /\ e \in i .. Len(s) - 1 /\ e \in i .. Len(s) /\ e + 1 \in i + 1 .. Len(s) /\ e + 1 \in 0 .. Len(s)
  /\ f[i][n] = <<SubSeq(s, i + 1, e)>> \o f[e + 1][n + 1]

LEMMA SplitStep ==
  ASSUME NEW S, NEW s \in Seq(S), NEW D, NEW len, NEW f, NEW i \in 0 .. Len(s), NEW n \in Nat,
         SplitAt(f, s, D, len, i, n)
  PROVE  \/ n + 1 = len /\ Rests(f, s, D, i, n)
         \/ EndsFrom(s, D, i) = {} /\ Rests(f, s, D, i, n)
         \/ n + 1 # len /\ \E e : Ends(f, s, D, i, n, e)
<1>1. CASE n + 1 = len \/ EndsFrom(s, D, i) = {}
  BY <1>1 DEF SplitAt, Rests
<1>2. CASE ~(n + 1 = len \/ EndsFrom(s, D, i) = {})
  <2> DEFINE e == FirstEnd(s, D, i)
  <2>1. /\ e \in i .. Len(s) - 1 /\ e \in i .. Len(s) /\ e + 1 \in i + 1 .. Len(s) /\ e + 1 \in 0 .. Len(s)
    BY <1>2, FirstEndIs
  <2>2. f[i][n] = <<SubSeq(s, i + 1, e)>> \o f[e + 1][n + 1]
    BY <1>2 DEF SplitAt
  <2>3. Ends(f, s, D, i, n, e)
    BY <1>2, <2>1, <2>2 DEF Ends
  <2> HIDE DEF e
  <2> QED
    BY <1>2, <2>3
<1> QED
  BY <1>1, <1>2

LEMMA SplitTyped ==
  ASSUME NEW S, NEW s \in Seq(S), NEW D, NEW len, NEW f,
         \A i \in 0 .. Len(s) : \A n \in Nat : SplitAt(f, s, D, len, i, n)
  PROVE  \A i \in 0 .. Len(s) : \A n \in Nat : f[i][n] \in Seq(Seq(S)) /\ f[i][n] # <<>>
<1> DEFINE m == Len(s)
           T == {i \in 0 .. m : \A n \in Nat : f[i][n] \in Seq(Seq(S)) /\ f[i][n] # <<>>}
<1>1. m \in Nat
  BY LenProperties
<1>2. ASSUME NEW i \in 0 .. m, \A k \in i + 1 .. m : k \in T PROVE i \in T
  <2>1. ASSUME NEW n \in Nat PROVE f[i][n] \in Seq(Seq(S)) /\ f[i][n] # <<>>
    <3>1. CASE Rests(f, s, D, i, n)
      <4>1. From(s, i) \in Seq(S)
        BY FromIs
      <4> QED
        BY <3>1, <4>1, SingleIs DEF Rests
    <3>2. ASSUME NEW e, Ends(f, s, D, i, n, e) PROVE f[i][n] \in Seq(Seq(S)) /\ f[i][n] # <<>>
      <4>1. e \in i .. Len(s) /\ e + 1 \in i + 1 .. Len(s) /\ f[i][n] = <<SubSeq(s, i + 1, e)>> \o f[e + 1][n + 1]
        BY <3>2 DEF Ends
      <4> DEFINE a == <<SubSeq(s, i + 1, e)>>
                 b == f[e + 1][n + 1]
      <4>2. a \in Seq(Seq(S))
        <5>1. SubSeq(s, i + 1, e) \in Seq(S)
          BY <4>1, PartIs
        <5> QED
          BY <5>1, SingleIs
      <4>3. b \in Seq(Seq(S)) /\ b # <<>>
        <5>1. e + 1 \in T /\ n + 1 \in Nat
          BY <1>2, <4>1
        <5> QED
          BY <5>1
      <4>4. f[i][n] = a \o b
        BY <4>1
      <4> HIDE DEF a, b
      <4>5. a \o b \in Seq(Seq(S)) /\ a \o b # <<>>
        BY <4>2, <4>3, ConcatSome
      <4> QED
        BY <4>4, <4>5
    <3> QED
      BY <3>1, <3>2, SplitStep
  <2> QED
    BY <2>1
<1> HIDE DEF T
<1>3. \A i \in 0 .. m : i \in T
  BY <1>1, <1>2, Downwards
<1> QED
  BY <1>3 DEF T

\* There are no more pieces than were asked for.
LEMMA SplitCounts ==
  ASSUME NEW S, NEW s \in Seq(S), NEW D, NEW len \in Nat, NEW f,
         \A i \in 0 .. Len(s) : \A n \in Nat : SplitAt(f, s, D, len, i, n)
  PROVE  \A i \in 0 .. Len(s) : \A n \in Nat : n < len => Len(f[i][n]) <= len - n
<1> DEFINE m == Len(s)
           T == {i \in 0 .. m : \A n \in Nat : n < len => Len(f[i][n]) <= len - n}
<1>1. m \in Nat
  BY LenProperties
<1>2. ASSUME NEW i \in 0 .. m, \A k \in i + 1 .. m : k \in T PROVE i \in T
  <2>1. ASSUME NEW n \in Nat, n < len PROVE Len(f[i][n]) <= len - n
    <3>1. CASE Rests(f, s, D, i, n)
      <4>1. Len(f[i][n]) = 1
        BY <3>1 DEF Rests
      <4> QED
        BY <2>1, <4>1
    <3>2. ASSUME NEW e, n + 1 # len, Ends(f, s, D, i, n, e) PROVE Len(f[i][n]) <= len - n
      <4>1. e \in i .. Len(s) /\ e + 1 \in i + 1 .. Len(s) /\ e + 1 \in 0 .. Len(s)
            /\ f[i][n] = <<SubSeq(s, i + 1, e)>> \o f[e + 1][n + 1]
        BY <3>2 DEF Ends
      <4> DEFINE a == <<SubSeq(s, i + 1, e)>>
                 b == f[e + 1][n + 1]
      <4>2. a \in Seq(Seq(S)) /\ Len(a) = 1
        <5>1. SubSeq(s, i + 1, e) \in Seq(S)
          BY <4>1, PartIs
        <5> QED
          BY <5>1, SingleIs
      <4>3. b \in Seq(Seq(S)) /\ Len(b) <= len - (n + 1)
        <5>1. e + 1 \in T /\ n + 1 \in Nat /\ n + 1 < len
          BY <1>2, <2>1, <3>2, <4>1
        <5>2. b \in Seq(Seq(S))
          BY <4>1, <5>1, SplitTyped
        <5> QED
          BY <5>1, <5>2
      <4>4. f[i][n] = a \o b
        BY <4>1
      <4> HIDE DEF a, b
      <4>5. Len(a \o b) = Len(a) + Len(b) /\ Len(b) \in Nat
        BY <4>2, <4>3, ConcatAt
      <4>6. Len(f[i][n]) = 1 + Len(b)
        BY <4>2, <4>4, <4>5
      <4> QED
        BY <2>1, <4>3, <4>5, <4>6
    <3> QED
      BY <3>1, <3>2, SplitStep
  <2> QED
    BY <2>1
<1> HIDE DEF T
<1>3. \A i \in 0 .. m : i \in T
  BY <1>1, <1>2, Downwards
<1> QED
  BY <1>3 DEF T

\* A text of one character is found where that character is.
LEMMA OneMatches ==
  ASSUME NEW S, NEW s \in Seq(S), NEW t \in Seq(S), Len(t) = 1, NEW i \in 0 .. Len(s), NEW k \in i .. Len(s)
  PROVE  Matches(s, k, t) <=> k \in EndsFrom(s, ToSet(t), i)
<1> DEFINE n == Len(s)
<1>1. n \in Nat /\ DOMAIN t = 1 .. 1
  BY LenProperties
<1>2. ToSet(t) = {t[1]}
  BY <1>1 DEF ToSet
<1>3. CASE k < n
  <2>1. k + 1 \in k .. n /\ k \in 0 .. n /\ (k + 1) - k = 1 /\ 1 \in 1 .. 1
    BY <1>1, <1>3
  <2> DEFINE p == SubSeq(s, k + 1, k + 1)
  <2>2. p \in Seq(S) /\ Len(p) = 1 /\ p[1] = s[k + 1]
    <3>1. p \in Seq(S) /\ Len(p) = (k + 1) - k /\ \A j \in 1 .. (k + 1) - k : p[j] = s[k + j]
      BY <2>1, PartIs
    <3> HIDE DEF p
    <3> QED
      BY <2>1, <3>1
  <2> HIDE DEF p, n
  <2>3. p = t <=> s[k + 1] = t[1]
    <3>1. ASSUME p[1] = t[1] PROVE p = t
      <4>1. \A j \in 1 .. Len(p) : p[j] = t[j]
        BY <2>2, <3>1
      <4> QED
        BY <2>2, <4>1, SeqEqual
    <3> QED
      BY <2>2, <3>1
  <2>4. Matches(s, k, t) <=> p = t
    BY <1>1, <1>3, <2>1 DEF Matches, p, n
  <2>5. At(s, k) = s[k + 1]
    BY <1>3 DEF At, n
  <2>6. k \in i .. n - 1
    BY <1>1, <1>3 DEF n
  <2>7. k \in EndsFrom(s, ToSet(t), i) <=> s[k + 1] = t[1]
    BY <1>2, <2>5, <2>6 DEF EndsFrom, n
  <2> QED
    BY <2>3, <2>4, <2>7
<1>4. CASE ~(k < n)
  <2>1. k = n
    BY <1>1, <1>4
  <2>2. ~Matches(s, k, t)
    BY <1>1, <2>1 DEF Matches
  <2>3. k \notin EndsFrom(s, ToSet(t), i)
    BY <1>1, <2>1 DEF EndsFrom
  <2> QED
    BY <2>2, <2>3
<1> QED
  BY <1>3, <1>4

\* The pieces split cuts off joined by the character they end at are the text.
Rejoins(S, s, t, len, f) == \A i \in 0 .. Len(s) : \A n \in Nat : join(f[i][n], t) = From(s, i)

LEMMA SplitJoins ==
  ASSUME NEW S, NEW s \in Seq(S), NEW t \in Seq(S), Len(t) = 1, NEW len, NEW f,
         \A i \in 0 .. Len(s) : \A n \in Nat : SplitAt(f, s, ToSet(t), len, i, n)
  PROVE  Rejoins(S, s, t, len, f)
<1> DEFINE m == Len(s)
           D == ToSet(t)
           T == {i \in 0 .. m : \A n \in Nat : join(f[i][n], t) = From(s, i)}
<1>1. m \in Nat
  BY LenProperties
<1>2. ASSUME NEW i \in 0 .. m, \A k \in i + 1 .. m : k \in T PROVE i \in T
  <2>1. ASSUME NEW n \in Nat PROVE join(f[i][n], t) = From(s, i)
    <3>1. CASE Rests(f, s, D, i, n)
      <4>1. From(s, i) \in Seq(S)
        BY FromIs
      <4> QED
        BY <3>1, <4>1, JoinOne DEF Rests
    <3>2. ASSUME NEW e, Ends(f, s, D, i, n, e) PROVE join(f[i][n], t) = From(s, i)
      <4>1. /\ EndsFrom(s, D, i) # {} /\ e = FirstEnd(s, D, i)
            /\ e \in i .. Len(s) /\ e + 1 \in i + 1 .. Len(s) /\ e + 1 \in 0 .. Len(s)
            /\ f[i][n] = <<SubSeq(s, i + 1, e)>> \o f[e + 1][n + 1]
        BY <3>2 DEF Ends
      <4> DEFINE p == SubSeq(s, i + 1, e)
                 q == f[e + 1][n + 1]
      <4>2. p \in Seq(S)
        BY <4>1, PartIs
      <4>3. q \in Seq(Seq(S)) /\ q # <<>> /\ join(q, t) = From(s, e + 1)
        <5>0. e + 1 \in T
          <6> HIDE DEF T
          <6> QED
            BY <1>2, <4>1
        <5>1. e + 1 \in T /\ n + 1 \in Nat
          BY <5>0
        <5>2. q \in Seq(Seq(S)) /\ q # <<>>
          BY <4>1, <5>1, SplitTyped
        <5> QED
          BY <5>1, <5>2
      <4>4. t \o From(s, e + 1) = From(s, e)
        <5>1. e \in EndsFrom(s, D, i)
          BY <4>1, FirstEndIs
        <5>2. Matches(s, e, t)
          BY <4>1, <5>1, OneMatches
        <5>3. SubSeq(s, e + 1, e + 1) = t
          BY <5>2 DEF Matches
        <5>4. e \in 0 .. Len(s) /\ e + 1 \in e .. Len(s)
          BY <1>1, <4>1
        <5>5. SubSeq(s, e + 1, e + 1) \o From(s, e + 1) = From(s, e)
          BY <5>4, Splice
        <5> QED
          BY <5>3, <5>5
      <4>5. p \o From(s, e) = From(s, i)
        BY <4>1, Splice
      <4>6. f[i][n] = <<p>> \o q
        BY <4>1
      <4> HIDE DEF p, q, T
      <4>7. Prefixed(p, q, t)
        BY <4>2, <4>3, JoinMore
      <4> QED
        BY <4>3, <4>4, <4>5, <4>6, <4>7 DEF Prefixed
    <3> QED
      BY <3>1, <3>2, SplitStep
  <2> QED
    BY <2>1
<1> HIDE DEF T
<1>3. \A i \in 0 .. m : i \in T
  BY <1>1, <1>2, Downwards
<1> QED
  BY <1>3 DEF T, Rejoins

\* split at one character cuts what strsplit cuts.
LEMMA SplitIsStrsplit ==
  ASSUME NEW S, NEW s \in Seq(S), NEW t \in Seq(S), Len(t) = 1, t # <<>>,
         NEW head \in [0 .. Len(s) -> Seq(Seq(S))], Heads(head, s, t), NEW f, CutsAs(f, s, t, head), NEW g,
         \A i \in 0 .. Len(s) : \A n \in Nat : SplitAt(g, s, ToSet(t), 0, i, n)
  PROVE  \A i \in 0 .. Len(s) : \A n \in Nat : g[i][n] = f[i]
<1> DEFINE m == Len(s)
           D == ToSet(t)
           T == {i \in 0 .. m : \A n \in Nat : g[i][n] = f[i]}
<1>1. m \in Nat
  BY LenProperties
<1>2. ASSUME NEW i \in 0 .. m, \A k \in i + 1 .. m : k \in T PROVE i \in T
  <2>0. ASSUME NEW n \in Nat
        PROVE  \/ EndsFrom(s, D, i) = {} /\ Rests(g, s, D, i, n)
               \/ \E e : Ends(g, s, D, i, n, e)
    <3>1. n + 1 # 0
      OBVIOUS
    <3> QED
      BY <3>1, SplitStep
  <2>1. CASE Stays(f, s, t, i)
    <3>1. EndsFrom(s, D, i) = {}
      <4>1. ASSUME NEW k \in EndsFrom(s, D, i) PROVE FALSE
        <5>1. k \in i .. Len(s)
          BY <1>1 DEF EndsFrom
        <5>2. Matches(s, k, t)
          BY <5>1, OneMatches
        <5> QED
          BY <2>1, <5>1, <5>2 DEF Stays
      <4> QED
        BY <4>1
    <3>2. ASSUME NEW n \in Nat PROVE g[i][n] = f[i]
      <4>1. Rests(g, s, D, i, n)
        BY <2>0, <3>1 DEF Ends
      <4> QED
        BY <2>1, <4>1 DEF Rests, Stays
    <3> QED
      BY <3>2
  <2>2. ASSUME NEW k, NEW l, Goes(S, f, s, t, head, i, k, l) PROVE i \in T
    <3>1. /\ k \in i .. Len(s) /\ l \in i + 1 .. Len(s) /\ strstr(s, i, t) = k /\ k # None /\ l = k + 1
          /\ Matches(s, k, t) /\ (\A j \in i .. k - 1 : ~Matches(s, j, t))
          /\ f[i] = head[i] \o f[l]
      BY <2>2 DEF Goes
    <3>2. f[i] = <<SubSeq(s, i + 1, k)>> \o f[l]
      BY <3>1 DEF Heads
    <3>3. k \in EndsFrom(s, D, i)
      BY <3>1, OneMatches
    <3> DEFINE e == FirstEnd(s, D, i)
    <3>4. e \in i .. Len(s) /\ e \in EndsFrom(s, D, i) /\ \A j \in i .. e - 1 : j \notin EndsFrom(s, D, i)
      BY <3>3, FirstEndIs
    <3> HIDE DEF e
    <3>5. e = k
      <4>1. Matches(s, e, t)
        BY <3>4, OneMatches
      <4>2. ~(e < k)
        BY <1>1, <3>1, <3>4, <4>1
      <4>3. ~(k < e)
        BY <1>1, <3>1, <3>3, <3>4
      <4> QED
        BY <1>1, <3>1, <3>4, <4>2, <4>3
    <3>6. ASSUME NEW n \in Nat PROVE g[i][n] = f[i]
      <4>1. PICK d : Ends(g, s, D, i, n, d)
        BY <2>0, <3>3
      <4>2. d = k /\ g[i][n] = <<SubSeq(s, i + 1, d)>> \o g[d + 1][n + 1]
        <5>1. d = FirstEnd(s, D, i) /\ g[i][n] = <<SubSeq(s, i + 1, d)>> \o g[d + 1][n + 1]
          <6> HIDE DEF D
          <6> QED
            BY <4>1 DEF Ends
        <5>2. FirstEnd(s, D, i) = k
          BY <3>5 DEF e
        <5>3. d = k
          BY <5>1, <5>2
        <5> QED
          BY <5>1, <5>3
      <4>3. g[l][n + 1] = f[l]
        <5>1. l \in T
          <6> HIDE DEF T
          <6> QED
            BY <1>2, <3>1
        <5>2. n + 1 \in Nat
          OBVIOUS
        <5> QED
          BY <5>1, <5>2
      <4> QED
        BY <3>1, <3>2, <4>2, <4>3
    <3> QED
      BY <3>6
  <2> HIDE DEF T
  <2> QED
    BY <1>1, <2>1, <2>2, CutIs
<1> HIDE DEF T
<1>3. \A i \in 0 .. m : i \in T
  BY <1>1, <1>2, Downwards
<1> QED
  BY <1>3 DEF T

\* Splitting loses nothing, whatever the text and what it is split at
\* (mstring.cc 1143-1221): the pieces of strsplit joined by it are the text, none
\* holds it, replace (1326-1349) is to join them by something else, split at one
\* character cuts the same pieces, and no more of them than asked for.
THEOREM SplitsJoinThm == Spec => []SplitsJoin
<1>1. Typed => SplitsJoin
  <2> SUFFICES ASSUME Typed, AllUsable, NEW s \in Texts, NEW t \in Texts, t # <<>>
      PROVE  LET pieces == strsplit(s, t) IN
             /\ pieces # <<>> /\ join(pieces, t) = s /\ strncmp(s, 0, pieces[1])
             /\ \A i \in DOMAIN pieces : ~contains(pieces[i], t)
             /\ \A by \in Literals : replace(s, t, by) = join(pieces, by)
             /\ (Len(t) = 1 => split(s, ToSet(t), 0) = pieces)
             /\ \A n \in 1 .. Len(s) : LET firsts == split(s, ToSet(t), n) IN
                  Len(firsts) <= n /\ (Len(t) = 1 => join(firsts, t) = s)
    BY DEF SplitsJoin
  <2>1. s \in Seq(Chars) /\ t \in Seq(Chars) /\ Len(s) \in Nat /\ 0 \in 0 .. Len(s) /\ Len(t) \in Nat
    <3>1. s \in Seq(Chars) /\ t \in Seq(Chars)
      BY Short DEF Texts
    <3> QED
      BY <3>1, LenProperties
  <2>2. PICK head \in [0 .. Len(s) -> Seq(Seq(Chars))] : \E f :
          CutsAs(f, s, t, head) /\ strsplit(s, t) = f[0] /\ Heads(head, s, t)
    BY <2>1, strsplitIs DEF Heads
  <2>3. PICK f : CutsAs(f, s, t, head) /\ strsplit(s, t) = f[0] /\ Heads(head, s, t)
    BY <2>2
  <2>4. From(s, 0) = s
    <3>1. 0 + 1 = 1
      OBVIOUS
    <3> QED
      BY <2>1, <3>1, SubSeqFull DEF From
  <2> DEFINE pieces == strsplit(s, t)
  <2>5. pieces \in Seq(Seq(Chars)) /\ pieces # <<>>
    BY <2>1, <2>2, <2>3, CutsAre
  <2>6. join(pieces, t) = s
    BY <2>1, <2>2, <2>3, <2>4, CutsJoin
  <2>7. strncmp(s, 0, pieces[1])
    BY <2>1, <2>2, <2>3, FirstPiece
  <2>8. \A i \in DOMAIN pieces : ~contains(pieces[i], t)
    <3>1. Clean(f[0], t)
      BY <2>1, <2>2, <2>3, CutsClean
    <3> QED
      BY <2>3, <3>1 DEF Clean
  <2>9. ASSUME NEW by \in Literals PROVE replace(s, t, by) = join(pieces, by)
    <3>1. by \in Seq(Chars)
      BY LiteralIs
    <3>2. PICK heads \in [0 .. Len(s) -> Seq(Seq(Chars))] : \E g :
            CutsAs(g, s, t, heads) /\ ReplacePieces(s, t, by) = g[0] /\ HeadsBy(heads, s, t, by)
      BY <2>1, <3>1, ReplacePiecesIs
    <3>3. PICK g : CutsAs(g, s, t, heads) /\ ReplacePieces(s, t, by) = g[0] /\ HeadsBy(heads, s, t, by)
      BY <3>2
    <3>4. FlattenSeq(g[0]) = join(f[0], by)
      <4>1. Swaps(Chars, s, t, by, head, f, heads, g)
        BY <2>1, <2>2, <2>3, <3>1, <3>2, <3>3, CutsReplace
      <4> QED
        BY <2>1, <4>1 DEF Swaps
    <3> QED
      BY <2>3, <3>3, <3>4 DEF replace
  <2>10. ASSUME Len(t) = 1 PROVE split(s, ToSet(t), 0) = pieces
    <3>1. PICK g : split(s, ToSet(t), 0) = g[0][0] /\ \A i \in 0 .. Len(s) : \A n \in Nat : SplitAt(g, s, ToSet(t), 0, i, n)
      BY <2>1, splitIs
    <3>2. g[0][0] = f[0]
      BY <2>1, <2>2, <2>3, <2>10, <3>1, SplitIsStrsplit
    <3> QED
      BY <2>3, <3>1, <3>2
  <2>11. ASSUME NEW n \in 1 .. Len(s)
         PROVE  Len(split(s, ToSet(t), n)) <= n /\ (Len(t) = 1 => join(split(s, ToSet(t), n), t) = s)
    <3>1. PICK g : split(s, ToSet(t), n) = g[0][0] /\ \A i \in 0 .. Len(s) : \A k \in Nat : SplitAt(g, s, ToSet(t), n, i, k)
      BY <2>1, splitIs
    <3>2. n \in Nat /\ 0 < n /\ n - 0 = n
      OBVIOUS
    <3>3. Len(g[0][0]) <= n - 0
      <4>1. \A i \in 0 .. Len(s) : \A k \in Nat : k < n => Len(g[i][k]) <= n - k
        BY <2>1, <3>1, <3>2, SplitCounts
      <4>2. 0 \in Nat
        OBVIOUS
      <4>3. \A k \in Nat : k < n => Len(g[0][k]) <= n - k
        BY <2>1, <4>1
      <4> QED
        BY <3>2, <4>2, <4>3
    <3>4. ASSUME Len(t) = 1 PROVE join(g[0][0], t) = From(s, 0)
      <4>1. Rejoins(Chars, s, t, n, g)
        BY <2>1, <3>1, <3>4, SplitJoins
      <4>2. 0 \in Nat
        OBVIOUS
      <4> QED
        BY <2>1, <4>1, <4>2 DEF Rejoins
    <3> QED
      BY <2>4, <3>1, <3>2, <3>3, <3>4
  <2> QED
    BY <2>5, <2>6, <2>7, <2>8, <2>9, <2>10, <2>11
<1> QED
  BY <1>1, TypedThm, PTL

-----------------------------------------------------------------------------
(* Trimming                                                                  *)

\* What trim cuts to: the first and the last character that is another one.
Runs(s, c, k) == k \in 0 .. Len(s) /\ (\A i \in 0 .. k - 1 : At(s, i) = c) /\ (k = Len(s) \/ At(s, k) # c)
Ebbs(s, c, k) == k \in -1 .. Len(s) - 1 /\ (\A i \in k + 1 .. Len(s) - 1 : At(s, i) = c) /\ (k = -1 \/ At(s, k) # c)

LEMMA FirstOtherIs ==
  ASSUME NEW S, NEW s \in Seq(S), NEW c
  PROVE  Runs(s, c, FirstOther(s, c))
<1> DEFINE n == Len(s)
           B == {k \in 0 .. n : k = n \/ At(s, k) # c}
<1>1. n \in Nat
  BY LenProperties
<1>2. n \in B
  BY <1>1
<1>3. PICK m \in 0 .. n : m \in B /\ \A k \in 0 .. m - 1 : k \notin B
  <2> HIDE DEF B, n
  <2> QED
    BY <1>1, <1>2, FirstUpTo
<1>4. ASSUME NEW k \in 0 .. m - 1 PROVE At(s, k) = c
  BY <1>1, <1>3
<1>5. m \in 0 .. Len(s) /\ (\A i \in 0 .. m - 1 : At(s, i) = c) /\ (m = Len(s) \/ At(s, m) # c)
  BY <1>3, <1>4
<1> QED
  BY <1>5 DEF FirstOther, Runs

LEMMA LastOtherIs ==
  ASSUME NEW S, NEW s \in Seq(S), NEW c
  PROVE  Ebbs(s, c, LastOther(s, c))
<1> DEFINE n == Len(s)
           B == {k \in 0 .. n : \A i \in k .. n - 1 : At(s, i) = c}
<1>1. n \in Nat
  BY LenProperties
<1>2. n \in B
  BY <1>1
<1>3. PICK m \in 0 .. n : m \in B /\ \A k \in 0 .. m - 1 : k \notin B
  <2> HIDE DEF B, n
  <2> QED
    BY <1>1, <1>2, FirstUpTo
<1>4. m - 1 \in -1 .. n - 1 /\ (m - 1) + 1 = m
  BY <1>1
<1>5. \A i \in m .. n - 1 : At(s, i) = c
  BY <1>3
<1>6. ASSUME m # 0, At(s, m - 1) = c PROVE FALSE
  <2>1. m - 1 \in 0 .. n /\ m - 1 \in 0 .. m - 1
    BY <1>1, <1>6
  <2>2. ASSUME NEW i \in m - 1 .. n - 1 PROVE At(s, i) = c
    <3>1. i = m - 1 \/ i \in m .. n - 1
      BY <1>1
    <3> QED
      BY <1>5, <1>6, <3>1
  <2>3. m - 1 \in B
    BY <2>1, <2>2
  <2> QED
    BY <1>3, <2>1, <2>3
<1>7. m - 1 = -1 \/ At(s, m - 1) # c
  BY <1>6
<1>8. m - 1 \in -1 .. Len(s) - 1 /\ (\A i \in (m - 1) + 1 .. Len(s) - 1 : At(s, i) = c) /\ (m - 1 = -1 \/ At(s, m - 1) # c)
  BY <1>4, <1>5, <1>7
<1> DEFINE k == m - 1
<1>9. k \in -1 .. Len(s) - 1 /\ (\A i \in k + 1 .. Len(s) - 1 : At(s, i) = c) /\ (k = -1 \/ At(s, k) # c)
  BY <1>8
<1> HIDE DEF k, B
<1> QED
  BY <1>9 DEF LastOther, Ebbs

\* Cut to where it starts and ends.
LEMMA TrimToIs ==
  ASSUME NEW S, NEW s \in Seq(S), NEW f \in 0 .. Len(s), NEW l \in -1 .. Len(s) - 1
  PROVE  TrimTo(s, f, l) = IF f = Len(s) \/ l = -1 THEN <<>>
                           ELSE IF f <= l THEN SubSeq(s, f + 1, l + 1) ELSE TrimTo(s, f, l)
<1> DEFINE n == Len(s)
<1>1. n \in Nat /\ f \in 0 .. n /\ l \in -1 .. n - 1
  BY LenProperties
<1>2. CASE f = n \/ l = -1
  BY <1>1, <1>2 DEF TrimTo
<1>3. CASE ~(f = n \/ l = -1) /\ f <= l
  <2>1. TrimTo(s, f, l) = SubSeq(From(s, f), 1, l - f + 1)
    <3>1. ~(f > n - 1 \/ l < 0) /\ ~(l < 0) /\ l < n
      BY <1>1, <1>3
    <3> QED
      BY <3>1 DEF TrimTo, cut
  <2> DEFINE u == From(s, f)
             a == SubSeq(s, f + 1, l + 1)
             b == SubSeq(u, 0 + 1, l - f + 1)
  <2>2. u \in Seq(S) /\ Len(u) = n - f /\ \A k \in 1 .. n - f : u[k] = s[f + k]
    BY FromIs
  <2>3. a \in Seq(S) /\ Len(a) = (l + 1) - f /\ \A k \in 1 .. (l + 1) - f : a[k] = s[f + k]
    <3>1. l + 1 \in f .. Len(s)
      BY <1>1, <1>3
    <3> QED
      BY <3>1, PartIs
  <2>4. b \in Seq(S) /\ Len(b) = (l - f + 1) - 0 /\ \A k \in 1 .. (l - f + 1) - 0 : b[k] = u[0 + k]
    <3>1. l - f + 1 \in 0 .. Len(u) /\ 0 \in 0 .. Len(u)
      BY <1>1, <1>3, <2>2
    <3> HIDE DEF u
    <3>2. Part(S, u, 0, l - f + 1)
      BY <2>2, <3>1, PartHolds
    <3> QED
      BY <3>2 DEF Part
  <2>5. b = SubSeq(From(s, f), 1, l - f + 1)
    BY DEF u
  <2> HIDE DEF u, a, b, n
  <2>6. Len(a) = Len(b) /\ Len(a) = l - f + 1
    BY <1>1, <2>3, <2>4
  <2>7. ASSUME NEW k \in 1 .. Len(a) PROVE a[k] = b[k]
    <3>1. k \in 1 .. (l + 1) - f /\ k \in 1 .. (l - f + 1) - 0 /\ 0 + k = k /\ k \in 1 .. n - f
      BY <1>1, <2>6
    <3> QED
      BY <2>2, <2>3, <2>4, <3>1
  <2>8. a = b
    BY <2>3, <2>4, <2>6, <2>7, SeqEqual
  <2> QED
    BY <1>3, <2>1, <2>5, <2>8 DEF a, n
<1>4. CASE ~(f = n \/ l = -1) /\ ~(f <= l)
  BY <1>4
<1> QED
  BY <1>2, <1>3, <1>4

\* The text has another character, and f and l are the first and the last one.
Cores(s, c, f, l) ==
  /\ f \in 0 .. Len(s) - 1 /\ l \in f .. Len(s) - 1 /\ At(s, f) # c /\ At(s, l) # c
  /\ \A i \in 0 .. f - 1 : At(s, i) = c
  /\ \A i \in l + 1 .. Len(s) - 1 : At(s, i) = c

LEMMA CoresAre ==
  ASSUME NEW S, NEW s \in Seq(S), NEW c
  PROVE  \/ FirstOther(s, c) = Len(s) /\ LastOther(s, c) = -1
         \/ Cores(s, c, FirstOther(s, c), LastOther(s, c))
<1> DEFINE n == Len(s)
           f == FirstOther(s, c)
           l == LastOther(s, c)
<1>1. n \in Nat
  BY LenProperties
<1>2. f \in 0 .. n /\ (\A i \in 0 .. f - 1 : At(s, i) = c) /\ (f = n \/ At(s, f) # c)
  BY FirstOtherIs DEF Runs
<1>3. l \in -1 .. n - 1 /\ (\A i \in l + 1 .. n - 1 : At(s, i) = c) /\ (l = -1 \/ At(s, l) # c)
  BY LastOtherIs DEF Ebbs
<1> HIDE DEF f, l
<1>4. CASE f = n
  <2>1. ASSUME l # -1 PROVE FALSE
    <3>1. l \in 0 .. f - 1
      BY <1>1, <1>3, <1>4, <2>1
    <3> QED
      BY <1>2, <1>3, <2>1, <3>1
  <2> QED
    BY <1>4, <2>1 DEF f, l
<1>5. CASE f # n
  <2>1. f \in 0 .. n - 1 /\ At(s, f) # c
    BY <1>1, <1>2, <1>5
  <2>2. l \in f .. n - 1
    <3>1. ASSUME ~(f <= l) PROVE FALSE
      <4>1. f \in l + 1 .. n - 1
        BY <1>1, <1>3, <2>1, <3>1
      <4> QED
        BY <1>3, <2>1, <4>1
    <3> QED
      BY <1>1, <1>3, <2>1, <3>1
  <2>3. At(s, l) # c
    BY <1>1, <1>3, <2>1, <2>2
  <2>4. Cores(s, c, f, l)
    BY <1>2, <1>3, <2>1, <2>2, <2>3 DEF Cores
  <2> QED
    BY <2>4 DEF f, l
<1> QED
  BY <1>4, <1>5

\* Nothing but c, and nothing is left.
LEMMA TrimNothing ==
  ASSUME NEW S, NEW s \in Seq(S), NEW c, FirstOther(s, c) = Len(s), LastOther(s, c) = -1
  PROVE  /\ trim(s, c) = <<>> /\ trimstart(s, c) = <<>>
         /\ \A i \in DOMAIN s : s[i] = c
<1>1. Len(s) \in Nat /\ DOMAIN s = 1 .. Len(s)
  BY LenProperties
<1>2. \A i \in 0 .. Len(s) - 1 : At(s, i) = c
  BY <1>1, FirstOtherIs DEF Runs
<1>3. ASSUME NEW i \in DOMAIN s PROVE s[i] = c
  <2>1. i - 1 \in 0 .. Len(s) - 1 /\ (i - 1) + 1 = i
    BY <1>1
  <2>2. At(s, i - 1) = s[i]
    BY <1>1, <2>1 DEF At
  <2> QED
    BY <1>2, <2>1, <2>2
<1>4. Len(s) > Len(s) - 1
  BY <1>1
<1> QED
  BY <1>3, <1>4 DEF trim, trimstart, TrimTo

\* An empty text has no end to trim.
LEMMA TrimEmpty ==
  ASSUME NEW c
  PROVE  trimend(<<>>, c) = <<>>
<1>1. Len(<<>>) = 0
  BY EmptySeq
<1>2. 0 > 0 - 1
  OBVIOUS
<1> QED
  BY <1>1, <1>2 DEF trimend, TrimTo

\* In the text from f on, which has m of n characters, l is at l - f, and k is
\* before it, behind it or there.
Offsets(n, f, l, m, k) ==
  /\ k < l - f => l - f \in k + 1 .. m - 1 /\ l - f \in 0 .. m - 1 /\ f + (l - f) = l
  /\ k > l - f => k \in 0 .. m - 1 /\ k # -1 /\ f + k \in l + 1 .. n - 1
  /\ ~(k < l - f) /\ ~(k > l - f) => k = l - f
  /\ k = l - f => \A j \in 1 .. l - f + 1 :
       j \in 1 .. (k + 1) - 0 /\ j \in 1 .. (l + 1) - f /\ 0 + j = j /\ j \in 1 .. n - f

LEMMA TrimNumbers ==
  ASSUME NEW n \in Nat, NEW f \in 0 .. n - 1, NEW l \in f .. n - 1, NEW m, m = n - f, NEW k \in -1 .. m - 1
  PROVE  Offsets(n, f, l, m, k)
BY DEF Offsets

LEMMA TrimSome ==
  ASSUME NEW S, NEW s \in Seq(S), NEW c, NEW f, NEW l, Cores(s, c, f, l), f = FirstOther(s, c), l = LastOther(s, c)
  PROVE  /\ trim(s, c) = SubSeq(s, f + 1, l + 1)
         /\ trimstart(s, c) = From(s, f)
         /\ trimend(From(s, f), c) = SubSeq(s, f + 1, l + 1)
<1> DEFINE n == Len(s)
           u == From(s, f)
           k == LastOther(u, c)
<1>1. /\ n \in Nat /\ f \in 0 .. n - 1 /\ l \in f .. n - 1 /\ At(s, f) # c /\ At(s, l) # c
      /\ \A i \in l + 1 .. n - 1 : At(s, i) = c
  BY LenProperties DEF Cores
<1>2. f \in 0 .. n /\ l \in -1 .. n - 1 /\ f # n /\ l # -1 /\ f <= l /\ n - 1 \in -1 .. n - 1 /\ f <= n - 1 /\ n - 1 # -1
      /\ (n - 1) + 1 = n
  BY <1>1
<1>3. trim(s, c) = SubSeq(s, f + 1, l + 1)
  BY <1>2, TrimToIs DEF trim
<1>4. trimstart(s, c) = From(s, f)
  <2>1. TrimTo(s, f, n - 1) = SubSeq(s, f + 1, (n - 1) + 1)
    BY <1>2, TrimToIs
  <2> QED
    BY <1>2, <2>1 DEF trimstart, From
<1>5. u \in Seq(S) /\ Len(u) = n - f /\ \A j \in 1 .. n - f : u[j] = s[f + j]
  BY <1>2, FromIs
<1>6. ASSUME NEW j \in 0 .. Len(u) - 1 PROVE At(u, j) = At(s, f + j)
  <2>1. j + 1 \in 1 .. n - f /\ f + (j + 1) = (f + j) + 1 /\ f + j < n /\ j < Len(u)
    BY <1>1, <1>5
  <2> HIDE DEF u
  <2> QED
    BY <1>5, <2>1 DEF At
<1>7. k \in -1 .. Len(u) - 1 /\ (\A i \in k + 1 .. Len(u) - 1 : At(u, i) = c) /\ (k = -1 \/ At(u, k) # c)
  BY <1>5, LastOtherIs DEF Ebbs
<1> HIDE DEF k, u
<1>8. n \in Nat /\ f \in 0 .. n - 1 /\ l \in f .. n - 1 /\ Len(u) = n - f /\ k \in -1 .. Len(u) - 1
  BY <1>1, <1>5, <1>7
<1>9. Offsets(n, f, l, Len(u), k)
  BY <1>8, TrimNumbers
<1>10. k = l - f
  <2>1. ASSUME k < l - f PROVE FALSE
    <3>1. l - f \in k + 1 .. Len(u) - 1 /\ l - f \in 0 .. Len(u) - 1 /\ f + (l - f) = l
      BY <1>9, <2>1 DEF Offsets
    <3>2. At(u, l - f) = c /\ At(u, l - f) = At(s, l)
      BY <1>6, <1>7, <3>1
    <3> QED
      BY <1>1, <3>2
  <2>2. ASSUME k > l - f PROVE FALSE
    <3>1. k \in 0 .. Len(u) - 1 /\ k # -1 /\ f + k \in l + 1 .. n - 1
      BY <1>9, <2>2 DEF Offsets
    <3>2. At(u, k) # c /\ At(u, k) = At(s, f + k) /\ At(s, f + k) = c
      BY <1>1, <1>6, <1>7, <3>1
    <3> QED
      BY <3>2
  <2> QED
    BY <1>9, <2>1, <2>2 DEF Offsets
<1>11. trimend(u, c) = SubSeq(s, f + 1, l + 1)
  <2>1. 0 \in 0 .. Len(u) /\ k \in -1 .. Len(u) - 1 /\ 0 # Len(u) /\ k # -1 /\ 0 <= k
    <3>1. 0 <= k
      BY <1>8, <1>10
    <3> QED
      BY <1>8, <3>1
  <2>2. trimend(u, c) = SubSeq(u, 0 + 1, k + 1)
    BY <1>5, <2>1, TrimToIs DEF trimend, k
  <2> DEFINE a == SubSeq(u, 0 + 1, k + 1)
             b == SubSeq(s, f + 1, l + 1)
  <2>3. a \in Seq(S) /\ Len(a) = (k + 1) - 0 /\ \A j \in 1 .. (k + 1) - 0 : a[j] = u[0 + j]
    <3>1. k + 1 \in 0 .. Len(u)
      BY <1>5, <2>1
    <3>2. Part(S, u, 0, k + 1)
      BY <1>5, <2>1, <3>1, PartHolds
    <3> QED
      BY <3>2 DEF Part
  <2>4. b \in Seq(S) /\ Len(b) = (l + 1) - f /\ \A j \in 1 .. (l + 1) - f : b[j] = s[f + j]
    <3>1. l + 1 \in f .. Len(s)
      BY <1>1
    <3>2. Part(S, s, f, l + 1)
      BY <1>2, <3>1, PartHolds
    <3> QED
      BY <3>2 DEF Part
  <2> HIDE DEF a, b
  <2>5. Len(a) = Len(b) /\ Len(a) = l - f + 1
    BY <1>1, <1>10, <2>3, <2>4
  <2>6. ASSUME NEW j \in 1 .. Len(a) PROVE a[j] = b[j]
    <3>1. j \in 1 .. (k + 1) - 0 /\ j \in 1 .. (l + 1) - f /\ 0 + j = j /\ j \in 1 .. n - f
      BY <1>10, <1>9, <2>5 DEF Offsets
    <3> QED
      BY <1>5, <2>3, <2>4, <3>1
  <2>7. a = b
    BY <2>3, <2>4, <2>5, <2>6, SeqEqual
  <2> QED
    BY <2>2, <2>7 DEF a, b
<1> QED
  BY <1>3, <1>4, <1>11 DEF u

LEMMA TrimExact ==
  ASSUME NEW S, NEW s \in Seq(S), NEW c
  PROVE  Trims(s, c)
<1> DEFINE n == Len(s)
           f == FirstOther(s, c)
           l == LastOther(s, c)
<1>1. n \in Nat /\ DOMAIN s = 1 .. n
  BY LenProperties
<1>2. CASE f = n /\ l = -1
  <2>1. trim(s, c) = <<>> /\ trimstart(s, c) = <<>> /\ \A i \in DOMAIN s : s[i] = c
    BY <1>2, TrimNothing
  <2>2. SubSeq(s, n + 1, n) = <<>>
    <3>1. n \in 0 .. n /\ n \in n .. n /\ n - n = 0
      BY <1>1
    <3>2. Part(S, s, n, n)
      BY <3>1, PartHolds
    <3>3. Len(SubSeq(s, n + 1, n)) = 0 /\ SubSeq(s, n + 1, n) \in Seq(S)
      BY <3>1, <3>2 DEF Part
    <3> QED
      BY <3>3, EmptySeq
  <2>3. trimend(<<>>, c) = <<>>
    BY TrimEmpty
  <2>4. n \in 0 .. n
    BY <1>1
  <2>5. \E i, k \in 0 .. n : (\A m \in DOMAIN s : m <= i \/ m > k => s[m] = c) /\ trim(s, c) = SubSeq(s, i + 1, k)
    BY <2>1, <2>2, <2>4
  <2> QED
    BY <2>1, <2>3, <2>5 DEF Trims
<1>3. CASE Cores(s, c, f, l)
  <2> HIDE DEF f, l
  <2>1. f = FirstOther(s, c) /\ l = LastOther(s, c)
    BY DEF f, l
  <2> DEFINE core == SubSeq(s, f + 1, l + 1)
  <2>2. trim(s, c) = core /\ trimstart(s, c) = From(s, f) /\ trimend(From(s, f), c) = core
    BY <1>3, <2>1, TrimSome
  <2>3. /\ f \in 0 .. n - 1 /\ l \in f .. n - 1 /\ At(s, f) # c /\ At(s, l) # c
        /\ \A i \in 0 .. f - 1 : At(s, i) = c
        /\ \A i \in l + 1 .. n - 1 : At(s, i) = c
    BY <1>3 DEF Cores
  <2>4. f \in 0 .. n /\ l + 1 \in f .. n /\ l + 1 \in 0 .. n /\ (l + 1) - f = l - f + 1 /\ f < n /\ l < n
    BY <1>1, <2>3
  <2>5. core \in Seq(S) /\ Len(core) = (l + 1) - f /\ \A j \in 1 .. (l + 1) - f : core[j] = s[f + j]
    <3>1. Part(S, s, f, l + 1)
      BY <2>4, PartHolds
    <3> QED
      BY <3>1 DEF Part
  <2> HIDE DEF core
  <2>6. core[1] # c
    <3>1. 1 \in 1 .. (l + 1) - f
      BY <1>1, <2>3
    <3>2. core[1] = s[f + 1]
      BY <2>5, <3>1
    <3> QED
      BY <2>3, <2>4, <3>2 DEF At
  <2>7. core[Len(core)] # c
    <3>1. (l + 1) - f \in 1 .. (l + 1) - f /\ f + ((l + 1) - f) = l + 1
      BY <1>1, <2>3
    <3>2. core[Len(core)] = s[l + 1]
      BY <2>5, <3>1
    <3> QED
      BY <2>3, <2>4, <3>2 DEF At
  <2>8. ASSUME NEW m \in DOMAIN s, m <= f \/ m > l + 1 PROVE s[m] = c
    <3>1. m - 1 \in 0 .. f - 1 \/ m - 1 \in l + 1 .. n - 1
      BY <1>1, <2>3, <2>8
    <3>2. At(s, m - 1) = c
      BY <2>3, <3>1
    <3>3. m - 1 < n /\ (m - 1) + 1 = m
      BY <1>1
    <3> QED
      BY <3>2, <3>3 DEF At
  <2>9. \E i, k \in 0 .. n : (\A m \in DOMAIN s : m <= i \/ m > k => s[m] = c) /\ core = SubSeq(s, i + 1, k)
    <3>1. core = SubSeq(s, f + 1, l + 1)
      BY DEF core
    <3> QED
      BY <2>4, <2>8, <3>1
  <2> QED
    BY <2>2, <2>6, <2>7, <2>9 DEF Trims
<1> QED
  BY <1>2, <1>3, CoresAre

-----------------------------------------------------------------------------
(* What CSVsplit and linesplit leave                                         *)

\* The characters from i on that are picked.
PickedAs(f, s, I) ==
  f = [i \in 0 .. Len(s) |->
        IF i = Len(s) THEN <<>>
        ELSE IF i + 1 \in I THEN <<s[i + 1]>> \o f[i + 1] ELSE f[i + 1]]

Picks(f, S, s, I) ==
  /\ f \in [0 .. Len(s) -> Seq(S)] /\ f[Len(s)] = <<>>
  /\ \A i \in 0 .. Len(s) - 1 : f[i] = IF i + 1 \in I THEN <<s[i + 1]>> \o f[i + 1] ELSE f[i + 1]

LEMMA PickedIs ==
  ASSUME NEW S, NEW s \in Seq(S), NEW I
  PROVE  \E f : Picks(f, S, s, I) /\ Picked(s, I) = f[0]
<1> DEFINE n == Len(s)
           Q == Seq(S)
           base == [i \in 0 .. n |-> <<>>]
           jump == [i \in 0 .. n |-> IF i = n THEN n ELSE i + 1]
           step == [i \in 0 .. n |-> [q \in Q |-> IF i # n /\ i + 1 \in I THEN <<s[i + 1]>> \o q ELSE q]]
           rest == CHOOSE f : PickedAs(f, s, I)
<1>1. n \in Nat
  BY LenProperties
<1>2. jump \in [0 .. n -> 0 .. n] /\ \A i \in 0 .. n : jump[i] = IF i = n THEN n ELSE i + 1
  BY <1>1
<1>3. base \in [0 .. n -> Q] /\ \A i \in 0 .. n : base[i] = <<>>
  BY EmptySeq
<1>4. /\ step \in [0 .. n -> [Q -> Q]]
      /\ \A i \in 0 .. n : \A q \in Q : step[i][q] = IF i # n /\ i + 1 \in I THEN <<s[i + 1]>> \o q ELSE q
  <2>1. ASSUME NEW i \in 0 .. n, NEW q \in Q, i # n PROVE <<s[i + 1]>> \o q \in Q
    <3>1. i + 1 \in 1 .. n
      BY <1>1, <2>1
    <3>2. s[i + 1] \in S
      BY <3>1, ElementOfSeq
    <3>3. <<s[i + 1]>> \in Q
      BY <3>2, SingleIs
    <3> QED
      BY <3>3, ConcatIn
  <2> HIDE DEF Q, n
  <2> QED
    BY <2>1
<1>5. Picked(s, I) = rest[0]
  BY DEF Picked, PickedAs
<1> HIDE DEF n, Q, base, jump, step, rest
<1>6. PICK f : LeadsBack(f, Q, n, jump, base, step)
  BY <1>1, <1>2, <1>3, <1>4, Backwards
<1>7. /\ f \in [0 .. n -> Q]
      /\ \A i \in 0 .. n : f[i] = IF jump[i] > i THEN step[i][f[jump[i]]] ELSE base[i]
  BY <1>6 DEF LeadsBack
<1> DEFINE Value(g, i) == IF i = n THEN <<>> ELSE IF i + 1 \in I THEN <<s[i + 1]>> \o g[i + 1] ELSE g[i + 1]
<1>8. ASSUME NEW i \in 0 .. n PROVE f[i] = Value(f, i)
  <2>1. CASE i = n
    BY <1>1, <1>2, <1>3, <1>7, <2>1
  <2>2. CASE i # n
    <3>1. jump[i] = i + 1 /\ i + 1 > i /\ i + 1 \in 0 .. n
      BY <1>1, <1>2, <2>2
    <3>2. f[i + 1] \in Q /\ f[i] = step[i][f[i + 1]]
      BY <1>7, <3>1
    <3> QED
      BY <1>4, <2>2, <3>2
  <2> QED
    BY <2>1, <2>2
<1>9. PickedAs(f, s, I)
  <2>1. f = [i \in 0 .. n |-> Value(f, i)]
    <3> HIDE DEF Value
    <3> QED
      BY <1>7, <1>8
  <2> QED
    BY <2>1 DEF PickedAs, n
<1>10. PickedAs(rest, s, I)
  BY <1>9 DEF rest
<1>11. rest = [i \in 0 .. n |-> Value(rest, i)]
  BY <1>10 DEF PickedAs, n
<1> DEFINE T == {i \in 0 .. n : rest[i] \in Q}
<1>12. ASSUME NEW i \in 0 .. n PROVE rest[i] = Value(rest, i)
  <2> HIDE DEF Value
  <2> QED
    BY <1>11
<1>13. ASSUME NEW i \in 0 .. n, \A k \in i + 1 .. n : k \in T PROVE i \in T
  <2>1. CASE i = n
    BY <1>12, <2>1, EmptySeq DEF Q
  <2>2. CASE i # n
    <3>1. i + 1 \in i + 1 .. n /\ i + 1 \in 1 .. n
      BY <1>1, <2>2
    <3>2. rest[i + 1] \in Q
      BY <1>13, <3>1
    <3>3. s[i + 1] \in S
      BY <3>1, ElementOfSeq DEF n
    <3>4. <<s[i + 1]>> \o rest[i + 1] \in Q
      BY <3>2, <3>3, SingleIs, ConcatIn DEF Q
    <3> QED
      BY <1>12, <2>2, <3>2, <3>4
  <2> QED
    BY <2>1, <2>2
<1> HIDE DEF T
<1>14. \A i \in 0 .. n : i \in T
  BY <1>1, <1>13, Downwards
<1>15. rest \in [0 .. n -> Q]
  <2>1. \A i \in 0 .. n : rest[i] \in Q
    BY <1>14 DEF T
  <2>2. rest = [i \in 0 .. n |-> rest[i]]
    <3> HIDE DEF Value
    <3> QED
      BY <1>11
  <2> QED
    BY <2>1, <2>2
<1>16. rest[n] = <<>>
  <2>1. n \in 0 .. n
    BY <1>1
  <2>2. rest[n] = Value(rest, n)
    <3> HIDE DEF Value
    <3> QED
      BY <1>12, <2>1
  <2> QED
    BY <2>2
<1>17. ASSUME NEW i \in 0 .. n - 1
       PROVE  rest[i] = IF i + 1 \in I THEN <<s[i + 1]>> \o rest[i + 1] ELSE rest[i + 1]
  <2>1. i \in 0 .. n /\ i # n
    BY <1>1
  <2> QED
    BY <1>12, <2>1
<1>18. Picks(rest, S, s, I)
  BY <1>15, <1>16, <1>17 DEF Picks, n, Q
<1> QED
  BY <1>5, <1>18

\* A stretch of which all is picked is picked as it is.
Stretch(S, s, I, f, i, m) == f[i] = SubSeq(s, i + 1, m) \o f[m]

LEMMA PickedRun ==
  ASSUME NEW S, NEW s \in Seq(S), NEW I, NEW f, Picks(f, S, s, I), NEW m \in 0 .. Len(s), NEW i \in 0 .. m,
         \A k \in i + 1 .. m : k \in I
  PROVE  Stretch(S, s, I, f, i, m)
<1> DEFINE n == Len(s)
           T == {j \in 0 .. m : i <= j => f[j] = SubSeq(s, j + 1, m) \o f[m]}
<1>1. n \in Nat /\ m \in 0 .. n /\ i \in 0 .. m /\ m \in Nat /\ i <= i
  BY LenProperties
<1>2. f[m] \in Seq(S)
  BY <1>1 DEF Picks
<1>3. ASSUME NEW j \in 0 .. m, \A k \in j + 1 .. m : k \in T PROVE j \in T
  <2> SUFFICES ASSUME i <= j PROVE f[j] = SubSeq(s, j + 1, m) \o f[m]
    OBVIOUS
  <2>0. j \in 0 .. n /\ m \in j .. n
    BY <1>1
  <2> DEFINE a == SubSeq(s, j + 1, m)
             b == SubSeq(s, (j + 1) + 1, m)
             one == <<s[j + 1]>>
  <2>1. a \in Seq(S) /\ Len(a) = m - j /\ \A k \in 1 .. m - j : a[k] = s[j + k]
    <3>1. Part(S, s, j, m)
      BY <2>0, PartHolds
    <3> QED
      BY <3>1 DEF Part
  <2>2. CASE j = m
    <3>1. a = <<>>
      <4>1. Len(a) = 0
        BY <1>1, <2>1, <2>2
      <4> HIDE DEF a
      <4> QED
        BY <2>1, <4>1, EmptySeq
    <3>2. <<>> \o f[m] = f[m]
      BY <1>2, ConcatEmptySeq
    <3> QED
      BY <2>2, <3>1, <3>2
  <2>3. CASE j # m
    <3>1. j + 1 \in j + 1 .. m /\ j + 1 \in 0 .. n /\ m \in j + 1 .. n /\ j \in 0 .. n - 1 /\ j + 1 \in i + 1 .. m
          /\ j + 1 \in 1 .. n /\ i <= j + 1
      BY <1>1, <2>0, <2>3
    <3>2. f[j + 1] = b \o f[m]
      BY <1>3, <3>1
    <3>3. f[j] = one \o f[j + 1]
      <4>1. j + 1 \in I
        BY <3>1
      <4> QED
        BY <3>1, <4>1 DEF Picks
    <3>4. b \in Seq(S) /\ Len(b) = m - (j + 1) /\ \A k \in 1 .. m - (j + 1) : b[k] = s[(j + 1) + k]
      <4>1. Part(S, s, j + 1, m)
        BY <3>1, PartHolds
      <4> QED
        BY <4>1 DEF Part
    <3>5. one \in Seq(S) /\ Len(one) = 1 /\ one[1] = s[j + 1]
      <4>1. s[j + 1] \in S
        BY <3>1, ElementOfSeq
      <4> QED
        BY <4>1, SingleIs
    <3> HIDE DEF a, b, one
    <3>6. one \o b = a
      <4>1. Len(a) = Len(one) + Len(b)
        BY <1>1, <2>1, <3>1, <3>4, <3>5
      <4>2. ASSUME NEW k \in 1 .. Len(one) PROVE a[k] = one[k]
        <5>1. k = 1 /\ k \in 1 .. m - j
          BY <1>1, <3>1, <3>5
        <5> QED
          BY <2>1, <3>5, <5>1
      <4>3. ASSUME NEW k \in 1 .. Len(b) PROVE a[Len(one) + k] = b[k]
        <5>1. Len(one) + k \in 1 .. m - j /\ j + (Len(one) + k) = (j + 1) + k /\ k \in 1 .. m - (j + 1)
          BY <1>1, <3>1, <3>4, <3>5
        <5> QED
          BY <2>1, <3>4, <5>1
      <4> QED
        BY <2>1, <3>4, <3>5, <4>1, <4>2, <4>3, ConcatIs
    <3>7. Brackets(one, b, f[m])
      BY <1>2, <3>4, <3>5, Assoc
    <3>8. f[j] = a \o f[m]
      BY <3>2, <3>3, <3>6, <3>7 DEF Brackets
    <3> QED
      BY <3>8 DEF a
  <2> QED
    BY <2>2, <2>3
<1> HIDE DEF T
<1>4. \A j \in 0 .. m : j \in T
  BY <1>1, <1>3, Downwards
<1>5. i \in T
  BY <1>1, <1>4
<1> QED
  BY <1>1, <1>5 DEF T, Stretch

LEMMA FlattenType ==
  ASSUME NEW S, NEW q \in Seq(Seq(S))
  PROVE  FlattenSeq(q) \in Seq(S) /\ (q = <<>> => FlattenSeq(q) = <<>>)
<1>1. <<>> \in Seq(S) /\ Len(<<>>) = 0
  BY EmptySeq
<1>2. CASE q = <<>>
  BY <1>1, <1>2 DEF FlattenSeq
<1>3. CASE q # <<>>
  BY <1>1, <1>3, FlattenIs, JoinType
<1> QED
  BY <1>2, <1>3

\* What stands first, and what stands last, in a flattened sequence.
FlattensFirst(p, q) == FlattenSeq(<<p>> \o q) = p \o FlattenSeq(q)
FlattensLast(p, q) == FlattenSeq(Append(q, p)) = FlattenSeq(q) \o p

LEMMA FlattenFirst ==
  ASSUME NEW S, NEW p \in Seq(S), NEW q \in Seq(Seq(S))
  PROVE  FlattensFirst(p, q)
<1>1. CASE q # <<>>
  BY <1>1, FlattenMore DEF FlattensFirst
<1>2. CASE q = <<>>
  <2> DEFINE one == <<p>>
  <2>1. one \in Seq(Seq(S)) /\ one # <<>> /\ <<>> \in Seq(S)
    BY SingleIs, EmptySeq
  <2>2. one \o <<>> = one /\ p \o <<>> = p
    <3> HIDE DEF one
    <3> QED
      BY <2>1, ConcatEmptySeq
  <2>3. FlattenSeq(one) = p
    BY <2>1, FlattenIs, JoinOne
  <2>4. FlattenSeq(<<>>) = <<>>
    BY <1>2, FlattenType
  <2> QED
    BY <1>2, <2>2, <2>3, <2>4 DEF FlattensFirst
<1> QED
  BY <1>1, <1>2

LEMMA FlattenLast ==
  ASSUME NEW S, NEW p \in Seq(S), NEW q \in Seq(Seq(S))
  PROVE  FlattensLast(p, q)
<1> DEFINE all == Append(q, p)
           n == Len(q)
<1>1. n \in Nat /\ \A i \in 1 .. n : q[i] \in Seq(S)
  BY LenProperties, ElementOfSeq
<1>2. /\ all \in Seq(Seq(S)) /\ Len(all) = n + 1 /\ all[n + 1] = p /\ \A i \in 1 .. n : all[i] = q[i]
  BY AppendProperties
<1> HIDE DEF all
<1>3. <<>> \in Seq(S) /\ all # <<>>
  BY <1>1, <1>2, EmptySeq
<1>4. PICK f : Joins(f, S, all, <<>>) /\ join(all, <<>>) = f[n + 1]
  <2>1. PICK f : Joins(f, S, all, <<>>) /\ join(all, <<>>) = f[Len(all)]
    BY <1>2, <1>3, JoinIs
  <2> QED
    BY <1>2, <2>1
<1>5. /\ f \in [1 .. n + 1 -> Seq(S)] /\ f[1] = all[1]
      /\ \A i \in 2 .. n + 1 : f[i] = f[i - 1] \o <<>> \o all[i]
  BY <1>2, <1>4 DEF Joins
<1>6. FlattenSeq(all) = f[n + 1]
  BY <1>2, <1>3, <1>4, FlattenIs
<1>7. CASE q = <<>>
  <2>1. n = 0
    BY <1>7, EmptySeq
  <2>2. f[n + 1] = p
    BY <1>2, <1>5, <2>1
  <2>3. FlattenSeq(q) = <<>>
    BY <1>7, FlattenType
  <2>4. <<>> \o p = p
    BY ConcatEmptySeq
  <2> QED
    BY <1>6, <2>2, <2>3, <2>4 DEF FlattensLast, all
<1>8. CASE q # <<>>
  <2>1. n # 0
    BY <1>8, EmptySeq
  <2>2. PICK h : Joins(h, S, q, <<>>) /\ join(q, <<>>) = h[n]
    BY <1>3, <1>8, JoinIs
  <2> DEFINE g == [i \in 1 .. n |-> f[i]]
  <2>3. JoinedAs(g, q, <<>>)
    <3>1. ASSUME NEW i \in 1 .. n PROVE g[i] = IF i = 1 THEN q[1] ELSE g[i - 1] \o <<>> \o q[i]
      <4>1. CASE i = 1
        BY <1>2, <1>5, <4>1
      <4>2. CASE i # 1
        <5>1. i - 1 \in 1 .. n /\ i \in 2 .. n + 1
          BY <1>1, <4>2
        <5>2. f[i] = f[i - 1] \o <<>> \o q[i]
          BY <1>2, <1>5, <5>1
        <5> QED
          BY <4>2, <5>1, <5>2
      <4> QED
        BY <4>1, <4>2
    <3>2. DOMAIN q = 1 .. n
      BY LenProperties
    <3> HIDE DEF n
    <3>3. g = [i \in 1 .. n |-> g[i]]
      OBVIOUS
    <3> HIDE DEF g
    <3>4. g = [i \in 1 .. n |-> IF i = 1 THEN q[1] ELSE g[i - 1] \o <<>> \o q[i]]
      BY <3>1, <3>3
    <3> QED
      BY <3>2, <3>4 DEF JoinedAs
  <2>4. g = h
    BY <2>2, <2>3 DEF Joins
  <2>5. FlattenSeq(q) = f[n]
    <3>1. n \in 1 .. n
      BY <1>1, <2>1
    <3>2. g[n] = f[n]
      BY <3>1
    <3>3. FlattenSeq(q) = h[n]
      BY <1>8, <2>2, FlattenIs
    <3> QED
      BY <2>4, <3>2, <3>3
  <2>6. f[n + 1] = f[n] \o <<>> \o p
    <3>1. n + 1 \in 2 .. n + 1 /\ (n + 1) - 1 = n
      BY <1>1, <2>1
    <3> QED
      BY <1>2, <1>5, <3>1
  <2>7. f[n] \o <<>> = f[n]
    <3>1. n \in 1 .. n + 1
      BY <1>1, <2>1
    <3>2. f[n] \in Seq(S)
      BY <1>5, <3>1
    <3> QED
      BY <3>2, ConcatEmptySeq
  <2> QED
    BY <1>6, <2>5, <2>6, <2>7 DEF FlattensLast, all
<1> QED
  BY <1>7, <1>8

-----------------------------------------------------------------------------
(* Lines                                                                     *)

\* How many characters end the line that ends at k.
Width(s, k, nl, cr) == IF {At(s, k), At(s, k + 1)} = {nl, cr} THEN 2 ELSE 1

LinesAs(f, s, nl, cr) ==
  f = [i \in 0 .. Len(s) + 1 |->
        IF i >= Len(s) THEN <<>>
        ELSE IF EndsFrom(s, {nl, cr}, i) = {} THEN <<From(s, i)>>
        ELSE <<SubSeq(s, i + 1, FirstEnd(s, {nl, cr}, i))>>
               \o f[FirstEnd(s, {nl, cr}, i) + Width(s, FirstEnd(s, {nl, cr}, i), nl, cr)]]

\* What linesplit has found, as steps: the end of the text, a line without an
\* end, a line that ends at e with w characters.
LastLine(f, s, C, i) == EndsFrom(s, C, i) = {} /\ f[i] = <<From(s, i)>>
Line(f, s, nl, cr, i, e, w) ==
  /\ e = FirstEnd(s, {nl, cr}, i) /\ EndsFrom(s, {nl, cr}, i) # {} /\ w = Width(s, e, nl, cr)
  /\ f[i] = <<SubSeq(s, i + 1, e)>> \o f[e + w]

LEMMA LinesExist ==
  ASSUME NEW S, NEW s \in Seq(S), NEW nl, NEW cr
  PROVE  \E f : LinesAs(f, s, nl, cr)
<1> DEFINE n == Len(s)
           C == {nl, cr}
           Q == Seq(Seq(S))
           Goes_(i) == i < n /\ EndsFrom(s, C, i) # {}
           End(i) == FirstEnd(s, C, i)
           To(i) == End(i) + Width(s, End(i), nl, cr)
           Piece(i) == <<SubSeq(s, i + 1, End(i))>>
           base == [i \in 0 .. n + 1 |-> IF i >= n THEN <<>> ELSE <<From(s, i)>>]
           jump == [i \in 0 .. n + 1 |-> IF Goes_(i) THEN To(i) ELSE i]
           step == [i \in 0 .. n + 1 |-> [q \in Q |-> IF Goes_(i) THEN Piece(i) \o q ELSE q]]
<1>1. n \in Nat
  BY LenProperties
<1>2. ASSUME NEW i \in 0 .. n + 1, Goes_(i) PROVE To(i) \in i + 1 .. n + 1 /\ Piece(i) \in Q
  <2> DEFINE e == End(i)
             w == Width(s, e, nl, cr)
  <2>1. i \in 0 .. n
    BY <1>1, <1>2
  <2>2. e \in i .. n - 1 /\ e \in i .. n
    BY <1>2, <2>1, FirstEndIs
  <2>3. w \in {1, 2}
    BY DEF Width
  <2>4. SubSeq(s, i + 1, e) \in Seq(S)
    BY <2>1, <2>2, PartIs
  <2> HIDE DEF e, w
  <2>5. e + w \in i + 1 .. n + 1
    BY <1>1, <2>1, <2>2, <2>3
  <2>6. <<SubSeq(s, i + 1, e)>> \in Q
    BY <2>4, SingleIs
  <2> QED
    BY <2>5, <2>6 DEF e, w
<1> HIDE DEF Goes_, To, Piece
<1>3. jump \in [0 .. n + 1 -> 0 .. n + 1] /\ \A i \in 0 .. n + 1 : jump[i] = IF Goes_(i) THEN To(i) ELSE i
  <2>1. ASSUME NEW i \in 0 .. n + 1, Goes_(i) PROVE To(i) \in 0 .. n + 1
    <3>1. To(i) \in i + 1 .. n + 1
      BY <1>2, <2>1
    <3> QED
      BY <1>1, <3>1
  <2> QED
    BY <2>1
<1>4. base \in [0 .. n + 1 -> Q] /\ \A i \in 0 .. n + 1 : base[i] = IF i >= n THEN <<>> ELSE <<From(s, i)>>
  <2>1. ASSUME NEW i \in 0 .. n + 1 PROVE (IF i >= n THEN <<>> ELSE <<From(s, i)>>) \in Q
    <3>1. CASE i >= n
      BY <3>1, EmptySeq
    <3>2. CASE ~(i >= n)
      <4>1. i \in 0 .. n
        BY <1>1, <3>2
      <4>2. From(s, i) \in Seq(S)
        BY <4>1, FromIs
      <4> QED
        BY <3>2, <4>2, SingleIs
    <3> QED
      BY <3>1, <3>2
  <2> HIDE DEF Q, n
  <2> QED
    BY <2>1
<1>5. /\ step \in [0 .. n + 1 -> [Q -> Q]]
      /\ \A i \in 0 .. n + 1 : \A q \in Q : step[i][q] = IF Goes_(i) THEN Piece(i) \o q ELSE q
  <2>1. ASSUME NEW i \in 0 .. n + 1, NEW q \in Q, Goes_(i) PROVE Piece(i) \o q \in Q
    <3>1. Piece(i) \in Q
      BY <1>2, <2>1
    <3> QED
      BY <3>1, ConcatIn
  <2> HIDE DEF Q, n
  <2> QED
    BY <2>1
<1> DEFINE m == n + 1
<1>6. m \in Nat
  BY <1>1
<1> HIDE DEF Q, base, jump, step
<1>7. PICK f : LeadsBack(f, Q, m, jump, base, step)
  <2> HIDE DEF n
  <2> QED
    BY <1>3, <1>4, <1>5, <1>6, Backwards
<1>8. /\ f \in [0 .. n + 1 -> Q]
      /\ \A i \in 0 .. n + 1 : f[i] = IF jump[i] > i THEN step[i][f[jump[i]]] ELSE base[i]
  BY <1>7 DEF LeadsBack
<1> DEFINE Value(i) == IF i >= n THEN <<>> ELSE IF EndsFrom(s, C, i) = {} THEN <<From(s, i)>> ELSE Piece(i) \o f[To(i)]
<1>9. ASSUME NEW i \in 0 .. n + 1 PROVE f[i] = Value(i)
  <2> HIDE DEF C
  <2>1. CASE Goes_(i)
    <3>1. To(i) \in i + 1 .. n + 1
      BY <1>2, <2>1
    <3>2. jump[i] = To(i) /\ To(i) > i /\ To(i) \in 0 .. n + 1
      BY <1>1, <1>3, <2>1, <3>1
    <3>3. f[To(i)] \in Q
      BY <1>8, <3>2
    <3>4. f[i] = step[i][f[To(i)]]
      BY <1>8, <3>2
    <3>5. f[i] = Piece(i) \o f[To(i)]
      BY <1>5, <2>1, <3>3, <3>4
    <3>6. ~(i >= n) /\ EndsFrom(s, C, i) # {}
      BY <1>1, <2>1 DEF Goes_
    <3> QED
      BY <3>5, <3>6
  <2>2. CASE ~Goes_(i)
    <3>1. jump[i] = i /\ ~(i > i)
      BY <1>3, <2>2
    <3>2. f[i] = base[i]
      BY <1>8, <3>1
    <3>3. i >= n \/ EndsFrom(s, C, i) = {}
      BY <1>1, <2>2 DEF Goes_
    <3> QED
      BY <1>4, <3>2, <3>3
  <2> QED
    BY <2>1, <2>2
<1> HIDE DEF Value
<1>10. f = [i \in 0 .. n + 1 |-> Value(i)]
  BY <1>8, <1>9
<1>11. LinesAs(f, s, nl, cr)
  BY <1>10 DEF LinesAs, Value, Piece, To
<1> QED
  BY <1>11

\* linesplit is what it finds from the start.
LEMMA linesplitIs ==
  ASSUME NEW S, NEW s \in Seq(S), NEW nl, NEW cr
  PROVE  \E f : LinesAs(f, s, nl, cr) /\ linesplit(s, nl, cr) = f[0]
<1> DEFINE rest == CHOOSE f : LinesAs(f, s, nl, cr)
<1>1. linesplit(s, nl, cr) = rest[0]
  BY DEF linesplit, LinesAs, EndsFrom, FirstEnd, Width
<1>2. LinesAs(rest, s, nl, cr)
  BY LinesExist
<1> HIDE DEF rest
<1> QED
  BY <1>1, <1>2

LEMMA LineStep ==
  ASSUME NEW S, NEW s \in Seq(S), NEW nl, NEW cr, NEW f, LinesAs(f, s, nl, cr), NEW i \in 0 .. Len(s)
  PROVE  \/ i = Len(s) /\ f[i] = <<>>
         \/ i # Len(s) /\ LastLine(f, s, {nl, cr}, i)
         \/ i # Len(s) /\ \E e, w : Line(f, s, nl, cr, i, e, w)
<1> DEFINE C == {nl, cr}
           e == FirstEnd(s, C, i)
           w == Width(s, e, nl, cr)
           n == Len(s)
<1>1. n \in Nat
  BY LenProperties
<1>2. i \in 0 .. n + 1 /\ (i >= n <=> i = n)
  BY <1>1
<1>3. f[i] = IF i >= n THEN <<>> ELSE IF EndsFrom(s, C, i) = {} THEN <<From(s, i)>>
             ELSE <<SubSeq(s, i + 1, e)>> \o f[e + w]
  <2> DEFINE v(j) == IF j >= n THEN <<>> ELSE IF EndsFrom(s, C, j) = {} THEN <<From(s, j)>>
             ELSE <<SubSeq(s, j + 1, FirstEnd(s, C, j))>> \o f[FirstEnd(s, C, j) + Width(s, FirstEnd(s, C, j), nl, cr)]
  <2>1. f = [j \in 0 .. n + 1 |-> v(j)]
    BY DEF LinesAs
  <2>2. f[i] = v(i)
    <3> HIDE DEF v, n
    <3> QED
      BY <1>2, <2>1
  <2> QED
    BY <2>2
<1> HIDE DEF n, C, e, w
<1>4. CASE i = n
  BY <1>2, <1>3, <1>4 DEF n
<1>5. CASE i # n /\ EndsFrom(s, C, i) = {}
  BY <1>2, <1>3, <1>5 DEF LastLine, n, C
<1>6. CASE i # n /\ EndsFrom(s, C, i) # {}
  <2>1. f[i] = <<SubSeq(s, i + 1, e)>> \o f[e + w]
    BY <1>2, <1>3, <1>6
  <2>2. Line(f, s, nl, cr, i, e, w)
    BY <1>6, <2>1 DEF Line, C, e, w
  <2> QED
    BY <1>6, <2>2 DEF n
<1> QED
  BY <1>4, <1>5, <1>6

\* No sequence of q has a character of C.
Plain(q, C) == \A j \in DOMAIN q : ToSet(q[j]) \cap C = {}

LEMMA PlainMore ==
  ASSUME NEW S, NEW p \in S, NEW q \in Seq(S), NEW C, ToSet(p) \cap C = {}, Plain(q, C)
  PROVE  Plain(<<p>> \o q, C)
<1> DEFINE one == <<p>>
           all == one \o q
<1>1. one \in Seq(S) /\ Len(one) = 1 /\ one[1] = p
  BY SingleIs
<1> HIDE DEF one
<1>2. /\ all \in Seq(S) /\ Len(all) = Len(one) + Len(q) /\ Len(q) \in Nat
      /\ \A j \in 1 .. Len(one) : all[j] = one[j]
      /\ \A j \in 1 .. Len(q) : all[Len(one) + j] = q[j]
  <2>1. one \in Seq(S) /\ q \in Seq(S)
    BY <1>1
  <2> QED
    BY <2>1, ConcatAt
<1> HIDE DEF all
<1>3. DOMAIN all = 1 .. Len(all) /\ DOMAIN q = 1 .. Len(q)
  BY <1>2, LenProperties
<1>4. ASSUME NEW j \in DOMAIN all PROVE ToSet(all[j]) \cap C = {}
  <2>1. CASE j = 1
    BY <1>1, <1>2, <2>1
  <2>2. CASE j # 1
    <3>1. j - 1 \in 1 .. Len(q) /\ Len(one) + (j - 1) = j
      BY <1>1, <1>2, <1>3, <2>2
    <3>2. all[j] = q[j - 1]
      BY <1>2, <3>1
    <3> QED
      BY <1>3, <3>1, <3>2 DEF Plain
  <2> QED
    BY <2>1, <2>2
<1>5. Plain(all, C)
  BY <1>4 DEF Plain
<1> QED
  BY <1>5 DEF all, one

\* The positions of characters that are not in C.
Others(s, C) == {i \in DOMAIN s : s[i] \notin C}

\* A part without an end in it is plain, and all of it is picked.
LEMMA PlainPart ==
  ASSUME NEW S, NEW s \in Seq(S), NEW C, NEW i \in 0 .. Len(s), NEW m \in i .. Len(s),
         \A k \in i .. m - 1 : k \notin EndsFrom(s, C, i)
  PROVE  /\ ToSet(SubSeq(s, i + 1, m)) \cap C = {}
         /\ \A k \in i + 1 .. m : k \in Others(s, C)
<1>1. Len(s) \in Nat /\ DOMAIN s = 1 .. Len(s)
  BY LenProperties
<1>2. ASSUME NEW k \in i + 1 .. m PROVE k \in DOMAIN s /\ s[k] \notin C
  <2>1. k \in 1 .. Len(s) /\ k - 1 \in i .. m - 1 /\ k - 1 \in i .. Len(s) - 1 /\ (k - 1) + 1 = k /\ k - 1 < Len(s)
    BY <1>1
  <2>2. At(s, k - 1) = s[k]
    BY <2>1 DEF At
  <2>3. At(s, k - 1) \notin C
    BY <2>1 DEF EndsFrom
  <2> QED
    BY <1>1, <2>1, <2>2, <2>3
<1>3. ToSet(SubSeq(s, i + 1, m)) \cap C = {}
  <2> DEFINE p == SubSeq(s, i + 1, m)
  <2>1. p \in Seq(S) /\ Len(p) = m - i /\ \A k \in 1 .. m - i : p[k] = s[i + k]
    BY PartIs
  <2> HIDE DEF p
  <2>2. DOMAIN p = 1 .. m - i
    BY <2>1, LenProperties
  <2>3. ASSUME NEW j \in 1 .. m - i PROVE p[j] \notin C
    <3>1. i + j \in i + 1 .. m
      BY <1>1
    <3> QED
      BY <1>2, <2>1, <3>1
  <2>4. ToSet(p) \cap C = {}
    BY <2>2, <2>3 DEF ToSet
  <2> QED
    BY <2>4 DEF p
<1> QED
  BY <1>2, <1>3 DEF Others

\* The end of a line is not picked, and is one or two characters of the text.
Ended(S, s, nl, cr, g, i, e, w) ==
  /\ e \in i .. Len(s) /\ e \in 0 .. Len(s) /\ e + w \in i + 1 .. Len(s)
  /\ g[e] = g[e + w]
  /\ \A k \in i .. e - 1 : k \notin EndsFrom(s, {nl, cr}, i)

LEMMA LineEnds ==
  ASSUME NEW S, NEW s \in Seq(S), NEW nl, NEW cr, nl # 0, cr # 0, NEW i \in 0 .. Len(s),
         EndsFrom(s, {nl, cr}, i) # {}, NEW e, e = FirstEnd(s, {nl, cr}, i),
         NEW w, w = Width(s, e, nl, cr), NEW g, Picks(g, S, s, Others(s, {nl, cr}))
  PROVE  Ended(S, s, nl, cr, g, i, e, w)
<1> DEFINE n == Len(s)
           C == {nl, cr}
           I == Others(s, C)
<1>1. n \in Nat /\ DOMAIN s = 1 .. n
  BY LenProperties
<1>2. e \in i .. n - 1 /\ e \in i .. n /\ e \in EndsFrom(s, C, i) /\ \A k \in i .. e - 1 : k \notin EndsFrom(s, C, i)
  BY FirstEndIs
<1>3. \A k \in 0 .. n - 1 : g[k] = IF k + 1 \in I THEN <<s[k + 1]>> \o g[k + 1] ELSE g[k + 1]
  BY DEF Picks
<1>4. ASSUME NEW k \in 0 .. n - 1, At(s, k) \in C PROVE g[k] = g[k + 1]
  <2>1. k < n
    BY <1>1
  <2>2. At(s, k) = s[k + 1]
    BY <2>1 DEF At
  <2>3. k + 1 \notin I
    BY <1>4, <2>2 DEF Others
  <2> HIDE DEF I, n
  <2> QED
    BY <1>3, <2>3
<1>5. At(s, e) \in C /\ e \in 0 .. n - 1
  <2>1. At(s, e) \in C
    BY <1>2 DEF EndsFrom
  <2> QED
    BY <1>1, <1>2, <2>1
<1>6. g[e] = g[e + 1]
  BY <1>4, <1>5
<1>7. CASE w = 1
  <2>1. e \in 0 .. n /\ e + 1 \in i + 1 .. n /\ e + w = e + 1
    BY <1>1, <1>2, <1>7
  <2> QED
    BY <1>2, <1>6, <2>1 DEF Ended
<1>8. CASE w # 1
  <2>1. w = 2 /\ At(s, e + 1) \in C
    BY <1>8 DEF Width
  <2>2. e + 1 < n
    <3>1. ASSUME ~(e + 1 < n) PROVE FALSE
      <4>1. At(s, e + 1) = 0
        BY <3>1 DEF At
      <4> QED
        BY <2>1, <4>1
    <3> QED
      BY <3>1
  <2>3. e + 1 \in 0 .. n - 1 /\ (e + 1) + 1 = e + 2 /\ e + 2 \in i + 1 .. n /\ e \in 0 .. n
    BY <1>1, <1>2, <2>2
  <2>4. g[e + 1] = g[e + 2]
    <3>1. g[e + 1] = g[(e + 1) + 1]
      BY <1>4, <2>1, <2>3
    <3> QED
      BY <2>3, <3>1
  <2> QED
    BY <1>2, <1>6, <2>1, <2>3, <2>4 DEF Ended
<1> QED
  BY <1>7, <1>8

\* The lines from i on have what is picked from there.
LinesFrom(S, f, g, C, i) == f[i] \in Seq(Seq(S)) /\ FlattenSeq(f[i]) = g[i] /\ Plain(f[i], C)

LEMMA LinesKeep ==
  ASSUME NEW S, NEW s \in Seq(S), NEW nl, NEW cr, nl # 0, cr # 0, NEW f, LinesAs(f, s, nl, cr),
         NEW g, Picks(g, S, s, Others(s, {nl, cr}))
  PROVE  \A i \in 0 .. Len(s) : LinesFrom(S, f, g, {nl, cr}, i)
<1> DEFINE n == Len(s)
           C == {nl, cr}
           I == Others(s, C)
           T == {i \in 0 .. n : LinesFrom(S, f, g, C, i)}
<1>1. n \in Nat /\ n \in 0 .. n
  BY LenProperties
<1>2. g \in [0 .. n -> Seq(S)] /\ g[n] = <<>>
  BY DEF Picks
<1>3. ASSUME NEW i \in 0 .. n, \A k \in i + 1 .. n : k \in T PROVE LinesFrom(S, f, g, C, i)
  <2>1. CASE i = n /\ f[i] = <<>>
    <3>1. <<>> \in Seq(Seq(S)) /\ DOMAIN <<>> = {} /\ FlattenSeq(<<>>) = <<>>
      <4>1. <<>> \in Seq(Seq(S)) /\ Len(<<>>) = 0
        BY EmptySeq
      <4>2. FlattenSeq(<<>>) = <<>>
        BY <4>1, FlattenType
      <4>3. DOMAIN <<>> = {}
        OBVIOUS
      <4> QED
        BY <4>1, <4>2, <4>3
    <3> QED
      BY <1>2, <2>1, <3>1 DEF LinesFrom, Plain
  <2>2. CASE LastLine(f, s, C, i)
    <3> DEFINE p == SubSeq(s, i + 1, n)
    <3>1. f[i] = <<p>> /\ EndsFrom(s, C, i) = {}
      BY <2>2 DEF LastLine, From
    <3>2. n \in i .. n /\ i \in 0 .. n /\ \A k \in i .. n - 1 : k \notin EndsFrom(s, C, i)
      <4>1. n \in i .. n
        BY <1>1
      <4> HIDE DEF C, n
      <4> QED
        BY <3>1, <4>1
    <3>3. ToSet(p) \cap C = {} /\ \A k \in i + 1 .. n : k \in I
      BY <3>2, PlainPart
    <3>4. p \in Seq(S)
      BY <3>2, PartIs
    <3>5. g[i] = p \o g[n]
      <4>1. Stretch(S, s, I, g, i, n)
        BY <1>1, <3>2, <3>3, PickedRun
      <4> QED
        BY <4>1 DEF Stretch
    <3> HIDE DEF p
    <3>6. p \o <<>> = p
      BY <3>4, ConcatEmptySeq
    <3>7. FlattenSeq(<<p>>) = p /\ <<p>> \in Seq(Seq(S))
      <4>1. <<p>> \in Seq(Seq(S)) /\ <<p>> # <<>> /\ <<>> \in Seq(S)
        BY <3>4, SingleIs, EmptySeq
      <4>2. join(<<p>>, <<>>) = p
        BY <3>4, <4>1, JoinOne
      <4>3. FlattenSeq(<<p>>) = join(<<p>>, <<>>)
        BY <4>1, FlattenIs
      <4> QED
        BY <4>1, <4>2, <4>3
    <3>8. Plain(<<p>>, C)
      BY <3>3 DEF Plain
    <3> QED
      BY <1>2, <3>1, <3>5, <3>6, <3>7, <3>8 DEF LinesFrom
  <2>3. ASSUME NEW e, NEW w, Line(f, s, nl, cr, i, e, w) PROVE LinesFrom(S, f, g, C, i)
    <3> DEFINE p == SubSeq(s, i + 1, e)
               q == f[e + w]
    <3>1. e = FirstEnd(s, C, i) /\ EndsFrom(s, C, i) # {} /\ w = Width(s, e, nl, cr) /\ f[i] = <<p>> \o q
      BY <2>3 DEF Line
    <3>2. /\ e \in i .. n /\ e \in 0 .. n /\ e + w \in i + 1 .. n
          /\ g[e] = g[e + w]
          /\ \A k \in i .. e - 1 : k \notin EndsFrom(s, C, i)
      <4>1. Ended(S, s, nl, cr, g, i, e, w)
        BY <3>1, LineEnds
      <4> QED
        BY <4>1 DEF Ended
    <3>3. ToSet(p) \cap C = {} /\ \A k \in i + 1 .. e : k \in I
      BY <3>2, PlainPart
    <3>4. p \in Seq(S)
      BY <3>2, PartIs
    <3>5. g[i] = p \o g[e]
      <4>1. i \in 0 .. e
        BY <1>1, <3>2
      <4>2. Stretch(S, s, I, g, i, e)
        BY <3>2, <3>3, <4>1, PickedRun
      <4> QED
        BY <4>2 DEF Stretch
    <3>6. q \in Seq(Seq(S)) /\ FlattenSeq(q) = g[e + w] /\ Plain(q, C)
      <4>1. e + w \in T
        <5> HIDE DEF T
        <5> QED
          BY <1>3, <3>2
      <4> QED
        BY <4>1 DEF LinesFrom
    <3> HIDE DEF p, q
    <3>7. FlattensFirst(p, q)
      BY <3>4, <3>6, FlattenFirst
    <3>8. FlattenSeq(f[i]) = p \o FlattenSeq(q)
      BY <3>1, <3>7 DEF FlattensFirst
    <3>9. Plain(<<p>> \o q, C)
      BY <3>3, <3>4, <3>6, PlainMore
    <3>10. <<p>> \o q \in Seq(Seq(S))
      BY <3>4, <3>6, SingleIs, ConcatIn
    <3> QED
      BY <3>1, <3>2, <3>5, <3>6, <3>8, <3>9, <3>10 DEF LinesFrom
  <2>4. \/ i = n /\ f[i] = <<>>
        \/ i # n /\ LastLine(f, s, C, i)
        \/ i # n /\ \E e, w : Line(f, s, nl, cr, i, e, w)
    BY LineStep
  <2> QED
    BY <2>1, <2>2, <2>3, <2>4
<1>4. ASSUME NEW i \in 0 .. n, \A k \in i + 1 .. n : k \in T PROVE i \in T
  BY <1>3, <1>4
<1> HIDE DEF T
<1>5. \A i \in 0 .. n : i \in T
  BY <1>1, <1>4, Downwards
<1> QED
  BY <1>5 DEF T

LEMMA LinesExact ==
  ASSUME NEW S, NEW s \in Seq(S), NEW nl, NEW cr, nl # 0, cr # 0
  PROVE  LinesSplit(s, nl, cr)
<1>1. PICK f : LinesAs(f, s, nl, cr) /\ linesplit(s, nl, cr) = f[0]
  BY linesplitIs
<1>2. PICK g : Picks(g, S, s, Others(s, {nl, cr})) /\ Picked(s, Others(s, {nl, cr})) = g[0]
  BY PickedIs
<1>3. 0 \in 0 .. Len(s)
  BY LenProperties
<1>4. \A i \in 0 .. Len(s) : LinesFrom(S, f, g, {nl, cr}, i)
  BY <1>1, <1>2, LinesKeep
<1>5. LinesFrom(S, f, g, {nl, cr}, 0)
  BY <1>3, <1>4
<1> QED
  BY <1>1, <1>2, <1>5 DEF LinesFrom, Others, Plain, LinesSplit

-----------------------------------------------------------------------------
(* Fields                                                                    *)

\* CSVsplit, one character after the other.
CSVStart == [done |-> <<>>, field |-> <<>>, open |-> FALSE]
CSVStates(S) == [done : Seq(Seq(S)), field : Seq(S), open : BOOLEAN]
CSVStep(r, a, quote, sep) ==
  IF a = quote THEN [r EXCEPT !.open = ~@]
  ELSE IF a = sep /\ ~r.open THEN [r EXCEPT !.done = Append(@, r.field), !.field = <<>>]
  ELSE [r EXCEPT !.field = Append(@, a)]

ReadAs(f, s, quote, sep) ==
  f = [i \in 0 .. Len(s) |-> IF i = 0 THEN CSVStart ELSE CSVStep(f[i - 1], s[i], quote, sep)]

Reads(f, S, s, quote, sep) ==
  /\ f \in [0 .. Len(s) -> CSVStates(S)] /\ f[0] = CSVStart
  /\ \A i \in 1 .. Len(s) : f[i] = CSVStep(f[i - 1], s[i], quote, sep)

\* The three things that a character does.
Quoting(r, q) == q.open = ~r.open /\ q.done = r.done /\ q.field = r.field
Ending(r, q) == q.open = r.open /\ q.done = Append(r.done, r.field) /\ q.field = <<>>
Adding(r, a, q) == q.open = r.open /\ q.done = r.done /\ q.field = Append(r.field, a)

LEMMA CSVStepIs ==
  ASSUME NEW S, NEW r \in CSVStates(S), NEW a \in S, NEW quote, NEW sep
  PROVE  LET q == CSVStep(r, a, quote, sep) IN
         /\ q \in CSVStates(S)
         /\ IF a = quote THEN Quoting(r, q)
            ELSE IF a = sep /\ ~r.open THEN Ending(r, q) ELSE Adding(r, a, q)
<1>1. r.done \in Seq(Seq(S)) /\ r.field \in Seq(S) /\ r.open \in BOOLEAN
  BY DEF CSVStates
<1>2. Append(r.done, r.field) \in Seq(Seq(S)) /\ Append(r.field, a) \in Seq(S) /\ <<>> \in Seq(S)
  BY <1>1, AppendProperties, EmptySeq
<1>3. CASE a = quote
  <2>1. CSVStep(r, a, quote, sep) = [r EXCEPT !.open = ~@]
    BY <1>3 DEF CSVStep
  <2> QED
    BY <1>1, <1>3, <2>1 DEF CSVStates, Quoting
<1>4. CASE a # quote /\ a = sep /\ ~r.open
  <2>1. CSVStep(r, a, quote, sep) = [r EXCEPT !.done = Append(@, r.field), !.field = <<>>]
    BY <1>4 DEF CSVStep
  <2> QED
    BY <1>1, <1>2, <1>4, <2>1 DEF CSVStates, Ending
<1>5. CASE a # quote /\ ~(a = sep /\ ~r.open)
  <2>1. CSVStep(r, a, quote, sep) = [r EXCEPT !.field = Append(@, a)]
    BY <1>5 DEF CSVStep
  <2> QED
    BY <1>1, <1>2, <1>5, <2>1 DEF CSVStates, Adding
<1> QED
  BY <1>3, <1>4, <1>5

LEMMA CSVsplitIs ==
  ASSUME NEW S, NEW s \in Seq(S), NEW quote, NEW sep
  PROVE  \E f : /\ Reads(f, S, s, quote, sep)
                /\ CSVsplit(s, quote, sep) = Append(f[Len(s)].done, f[Len(s)].field)
<1> DEFINE n == Len(s)
           R == CSVStates(S)
           More(i, r) == CSVStep(r, s[i], quote, sep)
           step == [i \in 1 .. n |-> [r \in R |-> More(i, r)]]
           start == CSVStart
<1>1. n \in Nat /\ \A i \in 1 .. n : s[i] \in S
  BY LenProperties, ElementOfSeq
<1>2. \A i \in 1 .. n : \A r \in R : More(i, r) \in R
  BY <1>1, CSVStepIs
<1>3. start \in R
  <2>1. <<>> \in Seq(Seq(S)) /\ <<>> \in Seq(S)
    BY EmptySeq
  <2> QED
    BY <2>1 DEF CSVStart, CSVStates
<1> HIDE DEF n, More, R, start
<1>4. step \in [1 .. n -> [R -> R]] /\ \A i \in 1 .. n : \A r \in R : step[i][r] = More(i, r)
  BY <1>2
<1> HIDE DEF step
<1>5. PICK f : Leads(f, R, start, n, step)
  BY <1>1, <1>4, <1>3, Recursion
<1>6. f \in [0 .. n -> R] /\ f[0] = start /\ \A i \in 1 .. n : f[i] = step[i][f[i - 1]]
  BY <1>5 DEF Leads
<1>7. ASSUME NEW i \in 1 .. n PROVE f[i] = More(i, f[i - 1]) /\ i \in 0 .. n /\ i - 1 \in 0 .. n
  <2>1. i \in 0 .. n /\ i - 1 \in 0 .. n
    BY <1>1
  <2>2. f[i - 1] \in R
    BY <1>6, <2>1
  <2> QED
    BY <1>4, <1>6, <2>1, <2>2
<1>8. ReadAs(f, s, quote, sep)
  <2>1. ASSUME NEW i \in 0 .. n PROVE f[i] = IF i = 0 THEN start ELSE More(i, f[i - 1])
    <3>1. CASE i = 0
      BY <1>6, <3>1
    <3>2. CASE i # 0
      <4>1. i \in 1 .. n
        BY <1>1, <3>2
      <4> QED
        BY <1>7, <3>2, <4>1
    <3> QED
      BY <3>1, <3>2
  <2>2. f = [i \in 0 .. n |-> IF i = 0 THEN start ELSE More(i, f[i - 1])]
    BY <1>6, <2>1
  <2> QED
    BY <2>2 DEF ReadAs, n, More, start
<1> DEFINE read == CHOOSE g : ReadAs(g, s, quote, sep)
<1>9. ReadAs(read, s, quote, sep)
  BY <1>8
<1>10. CSVsplit(s, quote, sep) = Append(read[n].done, read[n].field)
  BY DEF CSVsplit, ReadAs, CSVStart, CSVStep, n
<1> HIDE DEF read
<1>11. read = [i \in 0 .. n |-> IF i = 0 THEN start ELSE More(i, read[i - 1])]
  BY <1>9 DEF ReadAs, n, More, start
<1>12. read[0] = start /\ \A i \in 1 .. n : read[i] = More(i, read[i - 1])
  BY <1>1, <1>11
<1>13. \A i \in 0 .. n : read[i] = f[i]
  <2>1. \A i \in 1 .. n : read[i - 1] \in R => read[i] = step[i][read[i - 1]]
    BY <1>4, <1>12
  <2> QED
    BY <1>5, <1>12, <2>1 DEF Leads
<1>14. read = f
  BY <1>6, <1>11, <1>13
<1>15. Reads(read, S, s, quote, sep)
  BY <1>6, <1>7, <1>14 DEF Reads, n, R, start, More
<1> QED
  BY <1>10, <1>15 DEF n

\* The quotes up to i, and the separators up to i that stand outside of them.
QuotesTo(s, c, i) == {k \in 1 .. i : s[k] = c}
Even(s, c, i) == Cardinality(QuotesTo(s, c, i)) % 2 = 0
EndsTo(s, c, d, i) == {k \in 1 .. i : s[k] = d /\ Even(s, c, k)}

\* One more position counts if it is one of them.
Counts(A, B, i, yes) ==
  /\ Cardinality(A) \in Nat /\ Cardinality(B) \in Nat
  /\ Cardinality(B) = IF yes THEN Cardinality(A) + 1 ELSE Cardinality(A)

LEMMA CountOne ==
  ASSUME NEW i \in Nat \ {0}, NEW A, NEW B, A \subseteq 1 .. i - 1, NEW yes \in BOOLEAN,
         B = IF yes THEN A \cup {i} ELSE A
  PROVE  Counts(A, B, i, yes)
<1>1. IsFiniteSet(A)
  <2>1. IsFiniteSet(1 .. i - 1)
    BY FS_Interval
  <2> QED
    BY <2>1, FS_Subset
<1>2. i \notin A
  OBVIOUS
<1>3. Cardinality(A) \in Nat
  BY <1>1, FS_CardinalityType
<1>4. Cardinality(A \cup {i}) = Cardinality(A) + 1
  BY <1>1, <1>2, FS_AddElement
<1> QED
  BY <1>3, <1>4 DEF Counts

LEMMA QuotesMore ==
  ASSUME NEW s, NEW c, NEW i \in Nat \ {0}
  PROVE  Counts(QuotesTo(s, c, i - 1), QuotesTo(s, c, i), i, s[i] = c)
<1>1. QuotesTo(s, c, i) = IF s[i] = c THEN QuotesTo(s, c, i - 1) \cup {i} ELSE QuotesTo(s, c, i - 1)
  BY DEF QuotesTo
<1>2. QuotesTo(s, c, i - 1) \subseteq 1 .. i - 1
  BY DEF QuotesTo
<1>3. (s[i] = c) \in BOOLEAN
  OBVIOUS
<1> QED
  BY <1>1, <1>2, <1>3, CountOne

LEMMA EndsMore ==
  ASSUME NEW s, NEW c, NEW d, NEW i \in Nat \ {0}
  PROVE  Counts(EndsTo(s, c, d, i - 1), EndsTo(s, c, d, i), i, s[i] = d /\ Even(s, c, i))
<1> DEFINE yes == s[i] = d /\ Even(s, c, i)
<1>1. EndsTo(s, c, d, i) = IF yes THEN EndsTo(s, c, d, i - 1) \cup {i} ELSE EndsTo(s, c, d, i - 1)
  <2>1. 1 .. i = (1 .. i - 1) \cup {i}
    OBVIOUS
  <2> QED
    BY <2>1 DEF EndsTo
<1>2. EndsTo(s, c, d, i - 1) \subseteq 1 .. i - 1
  BY DEF EndsTo
<1>3. yes \in BOOLEAN
  OBVIOUS
<1> HIDE DEF yes
<1>4. Counts(EndsTo(s, c, d, i - 1), EndsTo(s, c, d, i), i, yes)
  BY <1>1, <1>2, <1>3, CountOne
<1> QED
  BY <1>4 DEF yes

\* What CSVsplit has read of the first i characters.
CSVRead(s, c, d, r, w, i) ==
  /\ r.open <=> ~Even(s, c, i)
  /\ Len(r.done) = Cardinality(EndsTo(s, c, d, i))
  /\ FlattenSeq(r.done) \o (r.field \o w[i]) = w[0]

\* One character more.
LEMMA CSVReadMore ==
  ASSUME NEW S, NEW s \in Seq(S), NEW c, NEW d, c # d, NEW f, Reads(f, S, s, c, d),
         NEW w, NEW I, I = {i \in DOMAIN s : s[i] # c} \ EndsTo(s, c, d, Len(s)), Picks(w, S, s, I),
         NEW i \in 1 .. Len(s), CSVRead(s, c, d, f[i - 1], w, i - 1)
  PROVE  CSVRead(s, c, d, f[i], w, i)
<1> DEFINE n == Len(s)
           r == f[i - 1]
           q == f[i]
           a == s[i]
           A == Cardinality(QuotesTo(s, c, i - 1))
           B == Cardinality(QuotesTo(s, c, i))
           D == Cardinality(EndsTo(s, c, d, i - 1))
           E == Cardinality(EndsTo(s, c, d, i))
<1>1. n \in Nat /\ DOMAIN s = 1 .. n /\ a \in S /\ i \in Nat \ {0} /\ i \in 1 .. n /\ i - 1 \in 0 .. n - 1 /\ (i - 1) + 1 = i
      /\ i \in 0 .. n /\ i - 1 \in 0 .. n
  BY LenProperties, ElementOfSeq
<1>2. r \in CSVStates(S) /\ q = CSVStep(r, a, c, d)
  BY <1>1 DEF Reads
<1>3. r.done \in Seq(Seq(S)) /\ r.field \in Seq(S) /\ r.open \in BOOLEAN
  BY <1>2 DEF CSVStates
<1>4. IF a = c THEN Quoting(r, q) ELSE IF a = d /\ ~r.open THEN Ending(r, q) ELSE Adding(r, a, q)
  BY <1>1, <1>2, CSVStepIs
<1>5. A \in Nat /\ B = IF a = c THEN A + 1 ELSE A
  BY <1>1, QuotesMore DEF Counts
<1>6. D \in Nat /\ E = IF a = d /\ Even(s, c, i) THEN D + 1 ELSE D
  BY <1>1, EndsMore DEF Counts
<1>7. (Even(s, c, i - 1) <=> A % 2 = 0) /\ (Even(s, c, i) <=> B % 2 = 0)
  BY DEF Even
<1>8. /\ r.open <=> ~Even(s, c, i - 1)
      /\ Len(r.done) = D
      /\ FlattenSeq(r.done) \o (r.field \o w[i - 1]) = w[0]
  BY DEF CSVRead
<1>9. w[i - 1] = (IF i \in I THEN <<a>> \o w[i] ELSE w[i]) /\ w[i] \in Seq(S)
  BY <1>1 DEF Picks
<1>10. i \in I <=> a # c /\ ~(a = d /\ Even(s, c, i))
  BY <1>1 DEF EndsTo
<1> HIDE DEF n, r, q, a, A, B, D, E
<1>11. CASE a = c
  <2>1. B = A + 1 /\ E = D /\ w[i - 1] = w[i] /\ q.open = ~r.open /\ q.done = r.done /\ q.field = r.field
    BY <1>4, <1>5, <1>6, <1>9, <1>10, <1>11 DEF Quoting
  <2>2. A % 2 = 0 <=> ~(B % 2 = 0)
    BY <1>5, <2>1
  <2>3. q.open <=> ~Even(s, c, i)
    BY <1>3, <1>7, <1>8, <2>1, <2>2
  <2> QED
    BY <1>8, <2>1, <2>3 DEF CSVRead, q, E
<1>12. CASE a # c /\ a = d /\ ~r.open
  <2>1. B = A /\ Even(s, c, i) /\ E = D + 1 /\ w[i - 1] = w[i]
    BY <1>5, <1>6, <1>7, <1>8, <1>9, <1>10, <1>12
  <2>2. q.open = r.open /\ q.done = Append(r.done, r.field) /\ q.field = <<>>
    BY <1>4, <1>12 DEF Ending
  <2>3. Len(q.done) = Len(r.done) + 1
    BY <1>3, <2>2, AppendProperties
  <2>4. FlattenSeq(q.done) = FlattenSeq(r.done) \o r.field
    <3>1. FlattensLast(r.field, r.done)
      BY <1>3, FlattenLast
    <3> QED
      BY <2>2, <3>1 DEF FlattensLast
  <2>5. <<>> \o w[i] = w[i]
    BY <1>9, ConcatEmptySeq
  <2>6. (FlattenSeq(r.done) \o r.field) \o w[i] = FlattenSeq(r.done) \o (r.field \o w[i])
    <3>1. FlattenSeq(r.done) \in Seq(S)
      BY <1>3, FlattenType
    <3>2. Brackets(FlattenSeq(r.done), r.field, w[i])
      BY <1>3, <1>9, <3>1, Assoc
    <3> QED
      BY <3>2 DEF Brackets
  <2>7. FlattenSeq(q.done) \o (q.field \o w[i]) = w[0]
    BY <1>8, <2>1, <2>2, <2>4, <2>5, <2>6
  <2>8. q.open <=> ~Even(s, c, i)
    BY <1>7, <1>8, <1>12, <2>1, <2>2
  <2>9. Len(q.done) = E
    BY <1>8, <2>1, <2>3
  <2> QED
    BY <2>7, <2>8, <2>9 DEF CSVRead, q, E
<1>13. CASE a # c /\ ~(a = d /\ ~r.open)
  <2>1. B = A /\ ~(a = d /\ Even(s, c, i)) /\ E = D /\ w[i - 1] = <<a>> \o w[i]
    BY <1>5, <1>6, <1>7, <1>8, <1>9, <1>10, <1>13
  <2>2. q.open = r.open /\ q.done = r.done /\ q.field = Append(r.field, a)
    BY <1>4, <1>13 DEF Adding
  <2>3. q.field = r.field \o <<a>> /\ <<a>> \in Seq(S)
    BY <1>1, <1>3, <2>2, AppendIsConcat, SingleIs DEF a
  <2>4. (r.field \o <<a>>) \o w[i] = r.field \o (<<a>> \o w[i])
    <3> DEFINE one == <<a>>
    <3>1. one \in Seq(S)
      BY <2>3
    <3> HIDE DEF one
    <3>2. Brackets(r.field, one, w[i])
      BY <1>3, <1>9, <3>1, Assoc
    <3> QED
      BY <3>2 DEF Brackets, one
  <2>5. q.open <=> ~Even(s, c, i)
    BY <1>7, <1>8, <2>1, <2>2
  <2>6. FlattenSeq(q.done) \o (q.field \o w[i]) = w[0]
    BY <1>8, <2>1, <2>2, <2>3, <2>4
  <2> QED
    BY <1>8, <2>1, <2>2, <2>5, <2>6 DEF CSVRead, q, E
<1> QED
  BY <1>11, <1>12, <1>13

LEMMA CSVReadAll ==
  ASSUME NEW S, NEW s \in Seq(S), NEW c, NEW d, c # d, NEW f, Reads(f, S, s, c, d),
         NEW w, NEW I, I = {i \in DOMAIN s : s[i] # c} \ EndsTo(s, c, d, Len(s)), Picks(w, S, s, I)
  PROVE  CSVRead(s, c, d, f[Len(s)], w, Len(s))
<1> DEFINE n == Len(s)
           T == {i \in Nat : i <= n => CSVRead(s, c, d, f[i], w, i)}
<1>1. n \in Nat
  BY LenProperties
<1>2. 0 \in T
  <2>1. QuotesTo(s, c, 0) = {} /\ EndsTo(s, c, d, 0) = {}
    BY DEF QuotesTo, EndsTo
  <2>2. Even(s, c, 0) /\ Cardinality(EndsTo(s, c, d, 0)) = 0
    <3>1. Cardinality({}) = 0 /\ 0 % 2 = 0
      BY FS_EmptySet
    <3> QED
      BY <2>1, <3>1 DEF Even
  <2>3. f[0].done = <<>> /\ f[0].field = <<>> /\ f[0].open = FALSE
    BY DEF Reads, CSVStart
  <2>4. FlattenSeq(<<>>) = <<>> /\ Len(<<>>) = 0
    <3>1. <<>> \in Seq(Seq(S)) /\ Len(<<>>) = 0
      BY EmptySeq
    <3> QED
      BY <3>1, FlattenType
  <2>5. w[0] \in Seq(S)
    BY <1>1 DEF Picks
  <2>6. <<>> \o w[0] = w[0]
    BY <2>5, ConcatEmptySeq
  <2>7. CSVRead(s, c, d, f[0], w, 0)
    BY <2>2, <2>3, <2>4, <2>6 DEF CSVRead
  <2> QED
    BY <2>7
<1>3. ASSUME NEW i \in Nat, i \in T PROVE i + 1 \in T
  <2> SUFFICES ASSUME i + 1 <= n PROVE CSVRead(s, c, d, f[i + 1], w, i + 1)
    OBVIOUS
  <2> DEFINE j == i + 1
  <2>1. j \in 1 .. n /\ j - 1 = i /\ i <= n
    BY <1>1
  <2>2. CSVRead(s, c, d, f[i], w, i)
    BY <1>3, <2>1
  <2> HIDE DEF j
  <2>3. CSVRead(s, c, d, f[j], w, j)
    BY <2>1, <2>2, CSVReadMore
  <2> QED
    BY <2>3 DEF j
<1> HIDE DEF T
<1>4. n \in T
  BY <1>1, <1>2, <1>3, NatSet
<1> QED
  BY <1>1, <1>4 DEF T

LEMMA CSVsplitExact ==
  ASSUME NEW S, NEW s \in Seq(S), NEW c, NEW d, c # d
  PROVE  CSVExact(s, c, d)
<1> DEFINE n == Len(s)
           ends == EndsTo(s, c, d, n)
           I == {i \in DOMAIN s : s[i] # c} \ ends
<1>1. n \in Nat /\ DOMAIN s = 1 .. n /\ n \in 0 .. n
  BY LenProperties
<1>2. PICK f : Reads(f, S, s, c, d) /\ CSVsplit(s, c, d) = Append(f[n].done, f[n].field)
  BY CSVsplitIs
<1>3. PICK w : Picks(w, S, s, I) /\ Picked(s, I) = w[0]
  BY PickedIs
<1>4. CSVRead(s, c, d, f[n], w, n)
  BY <1>2, <1>3, CSVReadAll
<1> DEFINE r == f[n]
<1>5. r \in CSVStates(S)
  BY <1>1, <1>2 DEF Reads
<1>6. r.done \in Seq(Seq(S)) /\ r.field \in Seq(S)
  BY <1>5 DEF CSVStates
<1>7. w[n] = <<>>
  BY <1>3 DEF Picks
<1>8. Len(r.done) = Cardinality(ends) /\ FlattenSeq(r.done) \o (r.field \o w[n]) = w[0]
  BY <1>4 DEF CSVRead
<1> DEFINE fields == CSVsplit(s, c, d)
<1>9. fields = Append(r.done, r.field)
  BY <1>2
<1> HIDE DEF n, ends, I, r, fields
<1>10. r.field \o <<>> = r.field
  BY <1>6, ConcatEmptySeq
<1>11. Len(fields) = Cardinality(ends) + 1
  BY <1>6, <1>8, <1>9, AppendProperties
<1>12. FlattensLast(r.field, r.done)
  BY <1>6, FlattenLast
<1>13. FlattenSeq(fields) = Picked(s, I)
  BY <1>3, <1>7, <1>8, <1>9, <1>10, <1>12 DEF FlattensLast
<1>14. ends = {i \in DOMAIN s : s[i] = d /\ Cardinality({k \in 1 .. i : s[k] = c}) % 2 = 0}
  BY <1>1 DEF ends, EndsTo, Even, QuotesTo
<1> QED
  BY <1>11, <1>13, <1>14 DEF CSVExact, I, fields

\* trim, CSVsplit and linesplit do what FieldsExact says (mstring.cc 1072-1141,
\* 1232-1306).
THEOREM FieldsThm == Spec => []FieldsExact
<1>1. Typed => FieldsExact
  <2> SUFFICES ASSUME Typed, NEW s \in Texts, NEW c \in Chars, NEW d \in Chars, AllUsable, c # d
      PROVE  Trims(s, c) /\ CSVExact(s, c, d) /\ LinesSplit(s, c, d)
    BY DEF FieldsExact
  <2>1. s \in Seq(Chars)
    BY Short DEF Texts
  <2>2. c # 0 /\ d # 0
    BY CharsAssumption
  <2>3. LinesSplit(s, c, d)
    BY <2>1, <2>2, LinesExact
  <2> QED
    BY <2>1, <2>3, TrimExact, CSVsplitExact
<1> QED
  BY <1>1, TypedThm, PTL

-----------------------------------------------------------------------------
(* Characters of one to four bytes                                           *)

Octets == 0 .. 255
Points == {p \in Nat : p < 2097152}

\* n bytes follow a byte d.
LeadByte(d, n) ==
  \/ n = 0 /\ d \in 0 .. 127
  \/ n = 1 /\ d \in 192 .. 223
  \/ n = 2 /\ d \in 224 .. 239
  \/ n = 3 /\ d \in 240 .. 247

LEMMA ContinuationIs ==
  ASSUME NEW d \in Octets
  PROVE  /\ Continuation(d) \in {None, 0, 1, 2, 3}
         /\ \A n \in 0 .. 3 : Continuation(d) = n <=> LeadByte(d, n)
<1>1. /\ d \div 128 = 0 <=> d \in 0 .. 127
      /\ d \div 32 = 6 <=> d \in 192 .. 223
      /\ d \div 16 = 14 <=> d \in 224 .. 239
      /\ d \div 8 = 30 <=> d \in 240 .. 247
  BY DEF Octets
<1>2. CASE d \in 0 .. 127
  <2>1. Continuation(d) = 0
    BY <1>1, <1>2 DEF Continuation
  <2> QED
    BY <1>2, <2>1 DEF LeadByte
<1>3. CASE d \in 192 .. 223
  <2>1. Continuation(d) = 1
    BY <1>1, <1>3 DEF Continuation
  <2> QED
    BY <1>3, <2>1 DEF LeadByte
<1>4. CASE d \in 224 .. 239
  <2>1. Continuation(d) = 2
    BY <1>1, <1>4 DEF Continuation
  <2> QED
    BY <1>4, <2>1 DEF LeadByte
<1>5. CASE d \in 240 .. 247
  <2>1. Continuation(d) = 3
    BY <1>1, <1>5 DEF Continuation
  <2> QED
    BY <1>5, <2>1 DEF LeadByte
<1>6. CASE d \notin 0 .. 127 /\ d \notin 192 .. 223 /\ d \notin 224 .. 239 /\ d \notin 240 .. 247
  <2>1. Continuation(d) = None
    BY <1>1, <1>6 DEF Continuation
  <2> QED
    BY <1>6, <2>1 DEF LeadByte, None
<1> QED
  BY <1>2, <1>3, <1>4, <1>5, <1>6

LEMMA IsContIs ==
  ASSUME NEW d \in Octets
  PROVE  IsCont(d) <=> d \in 128 .. 191
BY DEF IsCont, Octets

\* No byte that follows is broken.
LEMMA UnbrokenIs ==
  ASSUME NEW s, NEW i \in Nat, NEW n \in 0 .. 3
  PROVE  /\ FirstBroken(s, i, n) = None <=> \A k \in 1 .. n : IsCont(At(s, i + k))
         /\ FirstBroken(s, i, n) # None => FirstBroken(s, i, n) \in 1 .. n
<1> DEFINE bad == {k \in 1 .. n : ~IsCont(At(s, i + k))}
<1>1. CASE bad = {}
  BY <1>1 DEF FirstBroken
<1>2. CASE bad # {}
  <2>1. bad \in SUBSET Nat
    OBVIOUS
  <2>2. \E k \in bad : \A l \in bad : k <= l
    BY <1>2, <2>1, Least
  <2>3. FirstBroken(s, i, n) = CHOOSE k \in bad : \A l \in bad : k <= l
    BY <1>2 DEF FirstBroken
  <2> HIDE DEF bad
  <2>4. FirstBroken(s, i, n) \in bad
    BY <2>2, <2>3
  <2>5. FirstBroken(s, i, n) \in 1 .. n
    BY <2>4 DEF bad
  <2>6. FirstBroken(s, i, n) # None
    BY <2>5 DEF None
  <2> QED
    BY <1>2, <2>5, <2>6 DEF bad
<1> QED
  BY <1>1, <1>2

\* A code point as the bytes give it.
PointAs(f, s, i, n) ==
  f = [k \in 0 .. n |-> IF k = 0 THEN At(s, i) % Room[n + 1] ELSE 64 * f[k - 1] + (At(s, i + k) % 64)]

LEMMA RoomIs == Room[1] = 128 /\ Room[2] = 32 /\ Room[3] = 16 /\ Room[4] = 8
BY DEF Room

LEMMA PointFrom ==
  ASSUME NEW s, NEW i \in Nat, NEW n \in 0 .. 3, \A k \in 0 .. n : At(s, i + k) \in Octets
  PROVE  \E f : /\ Point(s, i, n) = f[n]
                /\ f[0] = At(s, i) % Room[n + 1]
                /\ \A k \in 1 .. n : f[k] = 64 * f[k - 1] + (At(s, i + k) % 64)
<1> DEFINE start == At(s, i) % Room[n + 1]
           NextPoint(k, c) == 64 * c + (At(s, i + k) % 64)
           step == [k \in 1 .. n |-> [c \in Nat |-> NextPoint(k, c)]]
<1>1. start \in Nat
  <2>1. At(s, i) \in Octets
    <3>1. 0 \in 0 .. n /\ i + 0 = i
      OBVIOUS
    <3> QED
      BY <3>1
  <2>2. Room[n + 1] \in {128, 32, 16, 8}
    BY RoomIs
  <2> QED
    BY <2>1, <2>2 DEF Octets
<1>2. \A k \in 1 .. n : \A c \in Nat : NextPoint(k, c) \in Nat
  BY DEF Octets
<1> HIDE DEF start, NextPoint
<1>3. step \in [1 .. n -> [Nat -> Nat]] /\ \A k \in 1 .. n : \A c \in Nat : step[k][c] = NextPoint(k, c)
  BY <1>2
<1> HIDE DEF step
<1>4. PICK f : Leads(f, Nat, start, n, step)
  <2>1. n \in Nat
    OBVIOUS
  <2> QED
    BY <1>1, <1>3, <2>1, Recursion
<1>5. f \in [0 .. n -> Nat] /\ f[0] = start /\ \A k \in 1 .. n : f[k] = step[k][f[k - 1]]
  BY <1>4 DEF Leads
<1>6. ASSUME NEW k \in 1 .. n PROVE f[k] = NextPoint(k, f[k - 1])
  <2>1. k - 1 \in 0 .. n
    OBVIOUS
  <2> QED
    BY <1>3, <1>5, <2>1
<1>7. f = [k \in 0 .. n |-> IF k = 0 THEN start ELSE NextPoint(k, f[k - 1])]
  <2>1. ASSUME NEW k \in 0 .. n PROVE f[k] = IF k = 0 THEN start ELSE NextPoint(k, f[k - 1])
    <3>1. CASE k = 0
      BY <1>5, <3>1
    <3>2. CASE k # 0
      <4>1. k \in 1 .. n
        BY <3>2
      <4> QED
        BY <1>6, <3>2, <4>1
    <3> QED
      BY <3>1, <3>2
  <2> QED
    BY <1>5, <2>1
<1>8. PointAs(f, s, i, n)
  BY <1>7 DEF PointAs, start, NextPoint
<1> DEFINE point == CHOOSE g : PointAs(g, s, i, n)
<1>9. PointAs(point, s, i, n)
  BY <1>8
<1>10. Point(s, i, n) = point[n]
  BY DEF Point, PointAs
<1> HIDE DEF point
<1>11. point = [k \in 0 .. n |-> IF k = 0 THEN start ELSE NextPoint(k, point[k - 1])]
  BY <1>9 DEF PointAs, start, NextPoint
<1>12. point[0] = start
  BY <1>11
<1>13. \A k \in 1 .. n : point[k] = NextPoint(k, point[k - 1])
  BY <1>11
<1> QED
  BY <1>10, <1>12, <1>13 DEF start, NextPoint

\* The digits of a number to the base of 64.
Digits(p) ==
  /\ p \div 64 \in Nat /\ p \div 4096 \in Nat /\ p \div 262144 \in Nat
  /\ p % 64 \in 0 .. 63 /\ (p \div 64) % 64 \in 0 .. 63 /\ (p \div 4096) % 64 \in 0 .. 63
  /\ p = 64 * (p \div 64) + (p % 64)
  /\ p \div 64 = 64 * (p \div 4096) + ((p \div 64) % 64)
  /\ p \div 4096 = 64 * (p \div 262144) + ((p \div 4096) % 64)

LEMMA SixtyFourths ==
  ASSUME NEW p \in Nat
  PROVE  Digits(p)
<1> DEFINE q == p \div 64
           r == q \div 64
           x == r \div 64
<1>1. q \in Nat /\ p % 64 \in 0 .. 63 /\ p = 64 * q + (p % 64)
  OBVIOUS
<1> HIDE DEF q
<1>2. r \in Nat /\ q % 64 \in 0 .. 63 /\ q = 64 * r + (q % 64)
  BY <1>1
<1> HIDE DEF r
<1>3. x \in Nat /\ r % 64 \in 0 .. 63 /\ r = 64 * x + (r % 64)
  BY <1>2
<1> HIDE DEF x
<1>4. p \div 4096 = r
  <2> DEFINE low == 64 * (q % 64) + (p % 64)
  <2>1. low \in Nat /\ low < 4096
    BY <1>1, <1>2, SMT
  <2>2. p = 4096 * r + low
    BY <1>1, <1>2, SMT
  <2> HIDE DEF low
  <2> QED
    BY <1>2, <2>1, <2>2, SMT
<1>5. p \div 262144 = x
  <2> DEFINE low == 4096 * (r % 64) + (64 * (q % 64) + (p % 64))
  <2>1. low \in Nat /\ low < 262144
    BY <1>1, <1>2, <1>3, SMT
  <2>2. p = 262144 * x + low
    BY <1>1, <1>2, <1>3, SMT
  <2> HIDE DEF low
  <2> QED
    BY <1>3, <2>1, <2>2, SMT
<1> QED
  BY <1>1, <1>2, <1>3, <1>4, <1>5, SMT DEF q, Digits

\* The number of given digits.
FromSextets(x, y, z, w) == w + 64 * z + 4096 * y + 262144 * x

Sextets(p, x, y, z, w) ==
  /\ p \in Nat /\ p % 64 = w
  /\ p \div 64 = z + 64 * y + 4096 * x /\ (p \div 64) % 64 = z
  /\ p \div 4096 = y + 64 * x /\ (p \div 4096) % 64 = y /\ p \div 262144 = x

LEMMA SextetsAre ==
  ASSUME NEW x \in 0 .. 7, NEW y \in 0 .. 63, NEW z \in 0 .. 63, NEW w \in 0 .. 63
  PROVE  Sextets(FromSextets(x, y, z, w), x, y, z, w)
<1> DEFINE p == w + 64 * z + 4096 * y + 262144 * x
           q == z + 64 * y + 4096 * x
           r == y + 64 * x
<1>1. p \in Nat /\ q \in Nat /\ r \in Nat /\ p = 64 * q + w /\ q = 64 * r + z
  BY SMT
<1> HIDE DEF p, q
<1>2. p \div 64 = q /\ p % 64 = w
  BY <1>1
<1>3. q \div 64 = r /\ q % 64 = z
  BY <1>1
<1>4. r \div 64 = x /\ r % 64 = y
  OBVIOUS
<1> HIDE DEF r
<1>5. p \div 4096 = r /\ p \div 262144 = x
  <2>1. /\ p = 64 * (p \div 64) + (p % 64)
        /\ p \div 64 = 64 * (p \div 4096) + ((p \div 64) % 64)
        /\ p \div 4096 = 64 * (p \div 262144) + ((p \div 4096) % 64)
        /\ p \div 4096 \in Nat /\ p \div 262144 \in Nat /\ (p \div 4096) % 64 \in 0 .. 63
    <3>1. Digits(p)
      BY <1>1, SixtyFourths
    <3> QED
      BY <3>1 DEF Digits
  <2>2. p \div 4096 = r
    BY <1>1, <1>2, <1>3, <2>1, SMT
  <2> QED
    BY <1>1, <1>4, <2>1, <2>2, SMT
<1> QED
  BY <1>1, <1>2, <1>3, <1>4, <1>5, SMT DEF Sextets, FromSextets, p, q, r

\* The bytes b, of which n follow the first, are how the code point p is written:
\* as long as it need be or longer.
Spelt0(p, b) == p < 128 /\ b[1] = p
Spelt1(p, b) == p < 2048 /\ b[1] = 192 + (p \div 64) /\ b[2] = 128 + (p % 64)
Spelt2(p, b) ==
  /\ p < 65536 /\ b[1] = 224 + (p \div 4096)
  /\ b[2] = 128 + ((p \div 64) % 64) /\ b[3] = 128 + (p % 64)
Spelt3(p, b) ==
  /\ p < 2097152 /\ b[1] = 240 + (p \div 262144)
  /\ b[2] = 128 + ((p \div 4096) % 64) /\ b[3] = 128 + ((p \div 64) % 64) /\ b[4] = 128 + (p % 64)

Spelt(p, n, b) ==
  \/ n = 0 /\ Spelt0(p, b)
  \/ n = 1 /\ Spelt1(p, b)
  \/ n = 2 /\ Spelt2(p, b)
  \/ n = 3 /\ Spelt3(p, b)

\* p takes n bytes after the first.
Takes(p, n) ==
  \/ n = 0 /\ p < 128
  \/ n = 1 /\ 128 <= p /\ p < 2048
  \/ n = 2 /\ 2048 <= p /\ p < 65536
  \/ n = 3 /\ 65536 <= p /\ p < 2097152

LEMMA TakesOne ==
  ASSUME NEW p \in Points
  PROVE  \E n \in 0 .. 3 : Takes(p, n)
BY SMT DEF Takes, Points

LEMMA TooLargeIs == TooLarge[1] = 128 /\ TooLarge[2] = 2048 /\ TooLarge[3] = 65536 /\ TooLarge[4] = 2097152
BY SMT DEF TooLarge

LEMMA MarkIs == Mark[1] = 0 /\ Mark[2] = 192 /\ Mark[3] = 224 /\ Mark[4] = 240
BY SMT DEF Mark

LEMMA PlaceIs == Place[1] = 1 /\ Place[2] = 64 /\ Place[3] = 4096 /\ Place[4] = 262144
BY SMT DEF Place

LEMMA EncodedFrom ==
  ASSUME NEW p \in Points, NEW n \in 0 .. 3, Takes(p, n)
  PROVE  Encoded(p) = <<Mark[n + 1] + (p \div Place[n + 1])>>
                      \o [k \in 1 .. n |-> 128 + ((p \div Place[n - k + 1]) % 64)]
<1> DEFINE Fits(m) == p < TooLarge[m + 1] /\ (m > 0 => p >= TooLarge[m])
<1>1. \A m \in 0 .. 3 : Fits(m) <=> Takes(p, m)
  <2>1. Fits(0) <=> Takes(p, 0)
    BY TooLargeIs, SMT DEF Points, Takes
  <2>2. Fits(1) <=> Takes(p, 1)
    BY TooLargeIs, SMT DEF Points, Takes
  <2>3. Fits(2) <=> Takes(p, 2)
    BY TooLargeIs, SMT DEF Points, Takes
  <2>4. Fits(3) <=> Takes(p, 3)
    BY TooLargeIs, SMT DEF Points, Takes
  <2> HIDE DEF Fits
  <2>5. \A m \in 0 .. 3 : m = 0 \/ m = 1 \/ m = 2 \/ m = 3
    OBVIOUS
  <2> QED
    BY <2>1, <2>2, <2>3, <2>4, <2>5
<1>2. \A m \in 0 .. 3 : Takes(p, m) => m = n
  BY SMT DEF Takes, Points
<1> DEFINE c == CHOOSE m \in 0 .. 3 : Fits(m)
<1>3. c = n
  <2> HIDE DEF Fits
  <2> QED
    BY <1>1, <1>2
<1>4. Encoded(p) = <<Mark[c + 1] + (p \div Place[c + 1])>>
                      \o [k \in 1 .. c |-> 128 + ((p \div Place[c - k + 1]) % 64)]
  BY Zenon DEF Encoded
<1> HIDE DEF c
<1> QED
  BY <1>3, <1>4

LEMMA FirstAndRest ==
  ASSUME NEW S, NEW x \in S, NEW n \in Nat, NEW r \in [1 .. n -> S]
  PROVE  /\ <<x>> \o r \in Seq(S) /\ Len(<<x>> \o r) = n + 1 /\ (<<x>> \o r)[1] = x
         /\ \A k \in 1 .. n : (<<x>> \o r)[k + 1] = r[k]
<1>1. r \in Seq(S) /\ Len(r) = n
  OBVIOUS
<1>2. <<x>> \in Seq(S) /\ Len(<<x>>) = 1 /\ <<x>>[1] = x
  OBVIOUS
<1> DEFINE o == <<x>>
<1> HIDE DEF o
<1>3. o \in Seq(S) /\ Len(o) = 1 /\ o[1] = x
  BY <1>2 DEF o
<1>4. o \o r \in Seq(S) /\ Len(o \o r) = n + 1 /\ (o \o r)[1] = x
      /\ \A k \in 1 .. n : (o \o r)[k + 1] = r[k]
  <2>1. /\ o \o r \in Seq(S) /\ Len(o \o r) = Len(o) + Len(r)
        /\ \A k \in 1 .. Len(o) : (o \o r)[k] = o[k]
        /\ \A k \in 1 .. Len(r) : (o \o r)[Len(o) + k] = r[k]
    BY <1>1, <1>3, ConcatAt
  <2>2. 1 \in 1 .. Len(o)
    BY <1>3
  <2>3. \A k \in 1 .. n : 1 + k = k + 1
    OBVIOUS
  <2> QED
    BY <1>1, <1>3, <2>1, <2>2, <2>3
<1> QED
  BY <1>4 DEF o

\* Encoded(p) is how p is written, no longer than need be.
Writes(p, n, b) == b \in Seq(Octets) /\ Len(b) = n + 1 /\ Spelt(p, n, b)

LEMMA EncodedIs ==
  ASSUME NEW p \in Points, NEW n \in 0 .. 3, Takes(p, n)
  PROVE  Writes(p, n, Encoded(p))
<1> DEFINE first == Mark[n + 1] + (p \div Place[n + 1])
           rest == [k \in 1 .. n |-> 128 + ((p \div Place[n - k + 1]) % 64)]
           b == Encoded(p)
<1>1. b = <<first>> \o rest
  BY EncodedFrom
<1>2. p \in Nat /\ p \div 1 = p
  BY DEF Points
<1>3. /\ p \div 64 \in Nat /\ p \div 4096 \in Nat /\ p \div 262144 \in Nat
      /\ p % 64 \in 0 .. 63 /\ (p \div 64) % 64 \in 0 .. 63 /\ (p \div 4096) % 64 \in 0 .. 63
  BY <1>2, SixtyFourths DEF Digits
<1>4. /\ n = 0 => first = p
      /\ n = 1 => first = 192 + (p \div 64)
      /\ n = 2 => first = 224 + (p \div 4096)
      /\ n = 3 => first = 240 + (p \div 262144)
  <2>1. n = 0 => first = Mark[1] + (p \div Place[1])
    OBVIOUS
  <2>2. n = 1 => first = Mark[2] + (p \div Place[2])
    OBVIOUS
  <2>3. n = 2 => first = Mark[3] + (p \div Place[3])
    OBVIOUS
  <2>4. n = 3 => first = Mark[4] + (p \div Place[4])
    OBVIOUS
  <2> HIDE DEF first
  <2> QED
    BY <1>2, <2>1, <2>2, <2>3, <2>4, MarkIs, PlaceIs, SMT
<1>5. \A k \in 1 .. n : rest[k] = 128 + (IF n - k = 0 THEN p % 64
                                         ELSE IF n - k = 1 THEN (p \div 64) % 64 ELSE (p \div 4096) % 64)
  <2> SUFFICES ASSUME NEW k \in 1 .. n
               PROVE  rest[k] = 128 + (IF n - k = 0 THEN p % 64
                                       ELSE IF n - k = 1 THEN (p \div 64) % 64 ELSE (p \div 4096) % 64)
    OBVIOUS
  <2>1. rest[k] = 128 + ((p \div Place[n - k + 1]) % 64)
    OBVIOUS
  <2> HIDE DEF rest
  <2>2. CASE n - k = 0
    <3>1. n - k + 1 = 1
      BY <2>2
    <3> QED
      BY <1>2, <2>1, <2>2, <3>1, PlaceIs, SMT
  <2>3. CASE n - k = 1
    <3>1. n - k + 1 = 2
      BY <2>3
    <3> QED
      BY <2>1, <2>3, <3>1, PlaceIs, SMT
  <2>4. CASE n - k = 2
    <3>1. n - k + 1 = 3
      BY <2>4
    <3> QED
      BY <2>1, <2>4, <3>1, PlaceIs, SMT
  <2>5. n - k \in {0, 1, 2}
    OBVIOUS
  <2> QED
    BY <2>2, <2>3, <2>4, <2>5
<1>6. first \in Octets
  <2>1. (n = 0 /\ p < 128) \/ (n = 1 /\ p < 2048) \/ (n = 2 /\ p < 65536) \/ (n = 3 /\ p < 2097152)
    BY SMT DEF Takes
  <2> HIDE DEF first
  <2> QED
    BY <1>2, <1>3, <1>4, <2>1, SMT DEF Octets
<1>7. rest \in [1 .. n -> Octets]
  <2>1. \A k \in 1 .. n : rest[k] \in Octets
    <3> HIDE DEF rest
    <3> QED
      BY <1>3, <1>5, SMT DEF Octets
  <2> QED
    BY <2>1
<1> HIDE DEF first, rest
<1>8. b \in Seq(Octets) /\ Len(b) = n + 1 /\ b[1] = first /\ \A k \in 1 .. n : b[k + 1] = rest[k]
  BY <1>1, <1>6, <1>7, FirstAndRest
<1> HIDE DEF b
<1>9. Spelt(p, n, b)
  <2>1. CASE n = 0
    BY <1>4, <1>8, <2>1, SMT DEF Spelt, Spelt0, Spelt1, Spelt2, Spelt3, Takes
  <2>2. CASE n = 1
    <3>1. rest[1] = 128 + (p % 64) /\ b[1 + 1] = rest[1]
      BY <1>5, <1>8, <2>2
    <3> QED
      BY <1>4, <1>8, <2>2, <3>1, SMT DEF Spelt, Spelt0, Spelt1, Spelt2, Spelt3, Takes
  <2>3. CASE n = 2
    <3>1. rest[1] = 128 + ((p \div 64) % 64) /\ b[1 + 1] = rest[1]
      BY <1>5, <1>8, <2>3
    <3>2. rest[2] = 128 + (p % 64) /\ b[2 + 1] = rest[2]
      BY <1>5, <1>8, <2>3
    <3> QED
      BY <1>4, <1>8, <2>3, <3>1, <3>2, SMT DEF Spelt, Spelt0, Spelt1, Spelt2, Spelt3, Takes
  <2>4. CASE n = 3
    <3>1. rest[1] = 128 + ((p \div 4096) % 64) /\ b[1 + 1] = rest[1]
      BY <1>5, <1>8, <2>4
    <3>2. rest[2] = 128 + ((p \div 64) % 64) /\ b[2 + 1] = rest[2]
      BY <1>5, <1>8, <2>4
    <3>3. rest[3] = 128 + (p % 64) /\ b[3 + 1] = rest[3]
      BY <1>5, <1>8, <2>4
    <3> QED
      BY <1>4, <1>8, <2>4, <3>1, <3>2, <3>3, SMT DEF Spelt, Spelt0, Spelt1, Spelt2, Spelt3, Takes
  <2> QED
    BY <2>1, <2>2, <2>3, <2>4
<1> QED
  BY <1>8, <1>9 DEF Writes, b

\* The bytes of s from i are b, of which n follow the first.
Has(s, i, n, b) == \A k \in 0 .. n : At(s, i + k) = b[k + 1] /\ b[k + 1] \in Octets

LEMMA HasEach ==
  ASSUME NEW s, NEW i \in Nat, NEW n \in 0 .. 3, NEW b, Has(s, i, n, b)
  PROVE  /\ At(s, i) = b[1] /\ b[1] \in Octets
         /\ n >= 1 => At(s, i + 1) = b[2] /\ b[2] \in Octets
         /\ n >= 2 => At(s, i + 2) = b[3] /\ b[3] \in Octets
         /\ n = 3 => At(s, i + 3) = b[4] /\ b[4] \in Octets
<1>1. At(s, i + 0) = b[0 + 1] /\ b[0 + 1] \in Octets
  BY DEF Has
<1>2. n >= 1 => At(s, i + 1) = b[1 + 1] /\ b[1 + 1] \in Octets
  BY DEF Has
<1>3. n >= 2 => At(s, i + 2) = b[2 + 1] /\ b[2 + 1] \in Octets
  BY DEF Has
<1>4. n = 3 => At(s, i + 3) = b[3 + 1] /\ b[3 + 1] \in Octets
  BY DEF Has
<1>5. i + 0 = i
  OBVIOUS
<1> QED
  BY <1>1, <1>2, <1>3, <1>4, <1>5

PointOf(s, i, n, b) ==
  /\ n = 0 => Point(s, i, n) = b[1] % 128
  /\ n = 1 => Point(s, i, n) = 64 * (b[1] % 32) + (b[2] % 64)
  /\ n = 2 => Point(s, i, n) = 64 * (64 * (b[1] % 16) + (b[2] % 64)) + (b[3] % 64)
  /\ n = 3 => Point(s, i, n) = 64 * (64 * (64 * (b[1] % 8) + (b[2] % 64)) + (b[3] % 64)) + (b[4] % 64)

LEMMA PointIs ==
  ASSUME NEW s, NEW i \in Nat, NEW n \in 0 .. 3, NEW b, Has(s, i, n, b)
  PROVE  PointOf(s, i, n, b)
<1>1. \A k \in 0 .. n : At(s, i + k) \in Octets
  BY DEF Has
<1>2. PICK f : /\ Point(s, i, n) = f[n]
               /\ f[0] = At(s, i) % Room[n + 1]
               /\ \A k \in 1 .. n : f[k] = 64 * f[k - 1] + (At(s, i + k) % 64)
  BY <1>1, PointFrom
<1>3. n >= 1 => f[1] = 64 * f[0] + (b[2] % 64)
  <2>1. n >= 1 => f[1] = 64 * f[1 - 1] + (At(s, i + 1) % 64)
    BY <1>2
  <2>2. n >= 1 => At(s, i + 1) = b[2]
    BY HasEach
  <2>3. 1 - 1 = 0
    OBVIOUS
  <2> QED
    BY <2>1, <2>2, <2>3
<1>4. n >= 2 => f[2] = 64 * f[1] + (b[3] % 64)
  <2>1. n >= 2 => f[2] = 64 * f[2 - 1] + (At(s, i + 2) % 64)
    BY <1>2
  <2>2. n >= 2 => At(s, i + 2) = b[3]
    BY HasEach
  <2>3. 2 - 1 = 1
    OBVIOUS
  <2> QED
    BY <2>1, <2>2, <2>3
<1>5. n = 3 => f[3] = 64 * f[2] + (b[4] % 64)
  <2>1. n = 3 => f[3] = 64 * f[3 - 1] + (At(s, i + 3) % 64)
    BY <1>2
  <2>2. n = 3 => At(s, i + 3) = b[4]
    BY HasEach
  <2>3. 3 - 1 = 2
    OBVIOUS
  <2> QED
    BY <2>1, <2>2, <2>3
<1>6. f[0] = b[1] % Room[n + 1]
  BY <1>2, HasEach
<1>7. Point(s, i, n) = f[n]
  BY <1>2
<1>8. CASE n = 0
  BY <1>6, <1>7, <1>8, RoomIs DEF PointOf
<1>9. CASE n = 1
  BY <1>3, <1>6, <1>7, <1>9, RoomIs DEF PointOf
<1>10. CASE n = 2
  BY <1>3, <1>4, <1>6, <1>7, <1>10, RoomIs DEF PointOf
<1>11. CASE n = 3
  BY <1>3, <1>4, <1>5, <1>6, <1>7, <1>11, RoomIs DEF PointOf
<1> QED
  BY <1>8, <1>9, <1>10, <1>11

\* s has a character of n + 1 bytes at i.
CharacterAt(s, i, n) == LeadByte(At(s, i), n) /\ \A k \in 1 .. n : IsCont(At(s, i + k))

LEMMA LowBits ==
  ASSUME NEW d \in Octets
  PROVE  /\ d \in 0 .. 127 => d % 128 = d
         /\ d \in 192 .. 223 => d % 32 = d - 192
         /\ d \in 224 .. 239 => d % 16 = d - 224
         /\ d \in 240 .. 247 => d % 8 = d - 240
         /\ d \in 128 .. 191 => d % 64 = d - 128
<1>1. d \in 0 .. 127 => d % 128 = d
  OBVIOUS
<1>2. d \in 192 .. 223 => d % 32 = d - 192
  OBVIOUS
<1>3. d \in 224 .. 239 => d % 16 = d - 224
  OBVIOUS
<1>4. d \in 240 .. 247 => d % 8 = d - 240
  OBVIOUS
<1>5. d \in 128 .. 191 => d % 64 = d - 128
  OBVIOUS
<1> QED
  BY <1>1, <1>2, <1>3, <1>4, <1>5

Follower(d, z) == d \in Octets /\ z \in 0 .. 63 /\ d = 128 + z /\ d % 64 = z

LEMMA FollowerIs ==
  ASSUME NEW d \in Octets, IsCont(d)
  PROVE  \E z \in 0 .. 63 : Follower(d, z)
<1>1. d \in 128 .. 191
  BY IsContIs
<1>2. d - 128 \in 0 .. 63 /\ d = 128 + (d - 128) /\ d % 64 = d - 128
  BY <1>1, LowBits
<1> QED
  BY <1>2 DEF Follower

\* What a character is read as is spelt that way.
LEMMA ReadPoint ==
  ASSUME NEW s, NEW i \in Nat, NEW n \in 0 .. 3, NEW b, Has(s, i, n, b), CharacterAt(s, i, n)
  PROVE  Point(s, i, n) \in Points /\ Spelt(Point(s, i, n), n, b)
<1>1. PointOf(s, i, n, b)
  BY PointIs
<1>2. LeadByte(b[1], n) /\ b[1] \in Octets
  BY HasEach DEF CharacterAt
<1>3. n >= 1 => \E z \in 0 .. 63 : Follower(b[2], z)
  <2>1. n >= 1 => IsCont(At(s, i + 1))
    BY DEF CharacterAt
  <2>2. n >= 1 => At(s, i + 1) = b[2] /\ b[2] \in Octets
    BY HasEach
  <2> QED
    BY <2>1, <2>2, FollowerIs
<1>4. n >= 2 => \E z \in 0 .. 63 : Follower(b[3], z)
  <2>1. n >= 2 => IsCont(At(s, i + 2))
    BY DEF CharacterAt
  <2>2. n >= 2 => At(s, i + 2) = b[3] /\ b[3] \in Octets
    BY HasEach
  <2> QED
    BY <2>1, <2>2, FollowerIs
<1>5. n = 3 => \E z \in 0 .. 63 : Follower(b[4], z)
  <2>1. n = 3 => IsCont(At(s, i + 3))
    BY DEF CharacterAt
  <2>2. n = 3 => At(s, i + 3) = b[4] /\ b[4] \in Octets
    BY HasEach
  <2> QED
    BY <2>1, <2>2, FollowerIs
<1> DEFINE p == Point(s, i, n)
<1>6. CASE n = 0
  <2>1. b[1] \in 0 .. 127
    BY <1>2, <1>6 DEF LeadByte
  <2>2. p = b[1]
    <3>1. p = b[1] % 128
      BY <1>1, <1>6 DEF PointOf
    <3> QED
      BY <1>2, <2>1, <3>1, LowBits
  <2> HIDE DEF p
  <2>3. p \in Points /\ Spelt0(p, b)
    BY <2>1, <2>2, SMT DEF Points, Spelt0
  <2> QED
    BY <1>6, <2>3 DEF Spelt, p
<1>7. CASE n = 1
  <2>1. b[1] \in 192 .. 223
    BY <1>2, <1>7 DEF LeadByte
  <2>2. PICK w \in 0 .. 63 : Follower(b[2], w)
    BY <1>3, <1>7
  <2> DEFINE z == b[1] - 192
  <2>3. z \in 0 .. 31 /\ z \in 0 .. 63 /\ b[1] = 192 + z /\ b[1] % 32 = z
    BY <1>2, <2>1, LowBits
  <2> HIDE DEF z
  <2>4. p = 64 * z + w
    <3>1. p = 64 * (b[1] % 32) + (b[2] % 64)
      BY <1>1, <1>7 DEF PointOf
    <3> QED
      BY <2>2, <2>3, <3>1 DEF Follower
  <2> HIDE DEF p
  <2>5. Sextets(FromSextets(0, 0, z, w), 0, 0, z, w)
    <3>1. 0 \in 0 .. 7 /\ 0 \in 0 .. 63
      OBVIOUS
    <3> QED
      BY <2>2, <2>3, <3>1, SextetsAre, Zenon
  <2>6. p = FromSextets(0, 0, z, w)
    BY <2>2, <2>3, <2>4, SMT DEF FromSextets
  <2>7. Sextets(p, 0, 0, z, w)
    BY <2>5, <2>6, SMT
  <2>8. p \in Nat /\ p \div 64 = z /\ p % 64 = w /\ p < 2048
    BY <2>2, <2>3, <2>4, <2>7, SMT DEF Sextets
  <2>9. Spelt1(p, b)
    BY <2>2, <2>3, <2>8, SMT DEF Spelt1, Follower
  <2>10. p \in Points
    BY <2>8, SMT DEF Points
  <2> QED
    BY <1>7, <2>9, <2>10, Zenon DEF Spelt, p
<1>8. CASE n = 2
  <2>1. b[1] \in 224 .. 239
    BY <1>2, <1>8 DEF LeadByte
  <2>2. PICK z \in 0 .. 63 : Follower(b[2], z)
    BY <1>3, <1>8
  <2>3. PICK w \in 0 .. 63 : Follower(b[3], w)
    BY <1>4, <1>8
  <2> DEFINE y == b[1] - 224
  <2>4. y \in 0 .. 15 /\ y \in 0 .. 63 /\ b[1] = 224 + y /\ b[1] % 16 = y
    BY <1>2, <2>1, LowBits
  <2> HIDE DEF y
  <2>5. p = 64 * (64 * y + z) + w
    <3>1. p = 64 * (64 * (b[1] % 16) + (b[2] % 64)) + (b[3] % 64)
      BY <1>1, <1>8 DEF PointOf
    <3> QED
      BY <2>2, <2>3, <2>4, <3>1 DEF Follower
  <2> HIDE DEF p
  <2>6. Sextets(FromSextets(0, y, z, w), 0, y, z, w)
    <3>1. 0 \in 0 .. 7 /\ 0 \in 0 .. 63
      OBVIOUS
    <3> QED
      BY <2>2, <2>3, <2>4, <3>1, SextetsAre, Zenon
  <2>7. p = FromSextets(0, y, z, w)
    BY <2>2, <2>3, <2>4, <2>5, SMT DEF FromSextets
  <2>8. Sextets(p, 0, y, z, w)
    BY <2>6, <2>7, SMT
  <2>9. p \in Nat /\ p \div 4096 = y /\ (p \div 64) % 64 = z /\ p % 64 = w
    BY <2>2, <2>3, <2>4, <2>8, SMT DEF Sextets
  <2>10. p < 65536
    BY <2>2, <2>3, <2>4, <2>5, SMT
  <2>11. Spelt2(p, b)
    BY <2>2, <2>3, <2>4, <2>9, <2>10, SMT DEF Spelt2, Follower
  <2>12. p \in Points
    BY <2>9, <2>10, SMT DEF Points
  <2> QED
    BY <1>8, <2>11, <2>12, Zenon DEF Spelt, p
<1>9. CASE n = 3
  <2>1. b[1] \in 240 .. 247
    BY <1>2, <1>9 DEF LeadByte
  <2>2. PICK y \in 0 .. 63 : Follower(b[2], y)
    BY <1>3, <1>9
  <2>3. PICK z \in 0 .. 63 : Follower(b[3], z)
    BY <1>4, <1>9
  <2>4. PICK w \in 0 .. 63 : Follower(b[4], w)
    BY <1>5, <1>9
  <2> DEFINE x == b[1] - 240
  <2>5. x \in 0 .. 7 /\ b[1] = 240 + x /\ b[1] % 8 = x
    BY <1>2, <2>1, LowBits
  <2> HIDE DEF x
  <2>6. p = 64 * (64 * (64 * x + y) + z) + w
    <3>1. p = 64 * (64 * (64 * (b[1] % 8) + (b[2] % 64)) + (b[3] % 64)) + (b[4] % 64)
      BY <1>1, <1>9 DEF PointOf
    <3> QED
      BY <2>2, <2>3, <2>4, <2>5, <3>1 DEF Follower
  <2> HIDE DEF p
  <2>7. Sextets(FromSextets(x, y, z, w), x, y, z, w)
    <3>1. 0 \in 0 .. 7 /\ 0 \in 0 .. 63
      OBVIOUS
    <3> QED
      BY <2>2, <2>3, <2>4, <2>5, <3>1, SextetsAre, Zenon
  <2>8. p = FromSextets(x, y, z, w)
    BY <2>2, <2>3, <2>4, <2>5, <2>6, SMT DEF FromSextets
  <2>9. Sextets(p, x, y, z, w)
    BY <2>7, <2>8, SMT
  <2>10. p \in Nat /\ p \div 262144 = x /\ (p \div 4096) % 64 = y /\ (p \div 64) % 64 = z /\ p % 64 = w
    BY <2>2, <2>3, <2>4, <2>5, <2>9, SMT DEF Sextets
  <2>11. p < 2097152
    BY <2>2, <2>3, <2>4, <2>5, <2>6, SMT
  <2>12. Spelt3(p, b)
    BY <2>2, <2>3, <2>4, <2>5, <2>10, <2>11, SMT DEF Spelt3, Follower
  <2>13. p \in Points
    BY <2>10, <2>11, SMT DEF Points
  <2> QED
    BY <1>9, <2>12, <2>13, Zenon DEF Spelt, p
<1> QED
  BY <1>6, <1>7, <1>8, <1>9

LEMMA FollowerOf ==
  ASSUME NEW z \in 0 .. 63, NEW d, d = 128 + z
  PROVE  Follower(d, z) /\ IsCont(d)
<1>1. d \in 128 .. 191 /\ d \in Octets /\ d - 128 = z
  BY DEF Octets
<1>2. d % 64 = z
  BY <1>1, LowBits
<1> QED
  BY <1>1, <1>2, IsContIs DEF Follower

\* What spells a code point is a character that is read as it.
LEMMA SpeltPoint ==
  ASSUME NEW s, NEW i \in Nat, NEW n \in 0 .. 3, NEW b, Has(s, i, n, b), NEW p \in Points, Spelt(p, n, b)
  PROVE  CharacterAt(s, i, n) /\ Point(s, i, n) = p
<1>1. PointOf(s, i, n, b)
  BY PointIs
<1>2. p \in Nat /\ Digits(p)
  BY SixtyFourths DEF Points
<1>3. At(s, i) = b[1] /\ b[1] \in Octets
  BY HasEach
<1>4. n >= 1 => At(s, i + 1) = b[2]
  BY HasEach
<1>5. n >= 2 => At(s, i + 2) = b[3]
  BY HasEach
<1>6. n = 3 => At(s, i + 3) = b[4]
  BY HasEach
<1>7. CASE n = 0
  <2>1. Spelt0(p, b)
    BY <1>7 DEF Spelt
  <2>2. b[1] \in 0 .. 127 /\ b[1] = p
    BY <1>3, <2>1, SMT DEF Spelt0, Octets
  <2>3. LeadByte(b[1], 0)
    BY <2>2 DEF LeadByte
  <2>4. b[1] % 128 = p
    BY <1>3, <2>2, LowBits
  <2>5. Point(s, i, n) = p
    BY <1>1, <1>7, <2>4 DEF PointOf
  <2> QED
    BY <1>3, <1>7, <2>3, <2>5 DEF CharacterAt
<1>8. CASE n = 1
  <2>1. Spelt1(p, b)
    BY <1>8 DEF Spelt
  <2> DEFINE z == p \div 64
             w == p % 64
  <2>2. z \in 0 .. 31 /\ w \in 0 .. 63 /\ p = 64 * z + w
    BY <1>2, <2>1, SMT DEF Digits, Spelt1
  <2>3. b[1] = 192 + z /\ b[2] = 128 + w
    BY <2>1, SMT DEF Spelt1
  <2> HIDE DEF z, w
  <2>4. b[1] \in 192 .. 223 /\ LeadByte(b[1], 1)
    BY <2>2, <2>3 DEF LeadByte
  <2>5. b[1] % 32 = z
    BY <1>3, <2>2, <2>3, <2>4, LowBits
  <2>6. Follower(b[2], w) /\ IsCont(b[2])
    BY <2>2, <2>3, FollowerOf
  <2>7. Point(s, i, n) = 64 * (b[1] % 32) + (b[2] % 64)
    BY <1>1, <1>8 DEF PointOf
  <2>8. Point(s, i, n) = p
    BY <2>2, <2>5, <2>6, <2>7 DEF Follower
  <2>9. \A k \in 1 .. n : IsCont(At(s, i + k))
    BY <1>4, <1>8, <2>6
  <2> QED
    BY <1>3, <1>8, <2>4, <2>8, <2>9 DEF CharacterAt
<1>9. CASE n = 2
  <2>1. Spelt2(p, b)
    BY <1>9 DEF Spelt
  <2> DEFINE y == p \div 4096
             z == (p \div 64) % 64
             w == p % 64
  <2>2. y \in 0 .. 15 /\ z \in 0 .. 63 /\ w \in 0 .. 63 /\ p = 64 * (64 * y + z) + w
    BY <1>2, <2>1, SMT DEF Digits, Spelt2
  <2>3. b[1] = 224 + y /\ b[2] = 128 + z /\ b[3] = 128 + w
    BY <2>1, SMT DEF Spelt2
  <2> HIDE DEF y, z, w
  <2>4. b[1] \in 224 .. 239 /\ LeadByte(b[1], 2)
    BY <2>2, <2>3 DEF LeadByte
  <2>5. b[1] % 16 = y
    BY <1>3, <2>2, <2>3, <2>4, LowBits
  <2>6. Follower(b[2], z) /\ IsCont(b[2])
    BY <2>2, <2>3, FollowerOf
  <2>7. Follower(b[3], w) /\ IsCont(b[3])
    BY <2>2, <2>3, FollowerOf
  <2>8. Point(s, i, n) = 64 * (64 * (b[1] % 16) + (b[2] % 64)) + (b[3] % 64)
    BY <1>1, <1>9 DEF PointOf
  <2>9. Point(s, i, n) = p
    BY <2>2, <2>5, <2>6, <2>7, <2>8 DEF Follower
  <2>10. \A k \in 1 .. n : IsCont(At(s, i + k))
    <3>1. IsCont(At(s, i + 1)) /\ IsCont(At(s, i + 2))
      BY <1>4, <1>5, <1>9, <2>6, <2>7
    <3>2. \A k \in 1 .. n : k = 1 \/ k = 2
      BY <1>9
    <3> QED
      BY <3>1, <3>2
  <2> QED
    BY <1>3, <1>9, <2>4, <2>9, <2>10 DEF CharacterAt
<1>10. CASE n = 3
  <2>1. Spelt3(p, b)
    BY <1>10 DEF Spelt
  <2> DEFINE x == p \div 262144
             y == (p \div 4096) % 64
             z == (p \div 64) % 64
             w == p % 64
  <2>2. /\ x \in 0 .. 7 /\ y \in 0 .. 63 /\ z \in 0 .. 63 /\ w \in 0 .. 63
        /\ p = 64 * (64 * (64 * x + y) + z) + w
    BY <1>2, <2>1, SMT DEF Digits, Spelt3
  <2>3. b[1] = 240 + x /\ b[2] = 128 + y /\ b[3] = 128 + z /\ b[4] = 128 + w
    BY <2>1, SMT DEF Spelt3
  <2> HIDE DEF x, y, z, w
  <2>4. b[1] \in 240 .. 247 /\ LeadByte(b[1], 3)
    BY <2>2, <2>3 DEF LeadByte
  <2>5. b[1] % 8 = x
    BY <1>3, <2>2, <2>3, <2>4, LowBits
  <2>6. Follower(b[2], y) /\ IsCont(b[2])
    BY <2>2, <2>3, FollowerOf
  <2>7. Follower(b[3], z) /\ IsCont(b[3])
    BY <2>2, <2>3, FollowerOf
  <2>8. Follower(b[4], w) /\ IsCont(b[4])
    BY <2>2, <2>3, FollowerOf
  <2>9. Point(s, i, n) = 64 * (64 * (64 * (b[1] % 8) + (b[2] % 64)) + (b[3] % 64)) + (b[4] % 64)
    BY <1>1, <1>10 DEF PointOf
  <2>10. Point(s, i, n) = p
    BY <2>2, <2>5, <2>6, <2>7, <2>8, <2>9 DEF Follower
  <2>11. \A k \in 1 .. n : IsCont(At(s, i + k))
    <3>1. IsCont(At(s, i + 1)) /\ IsCont(At(s, i + 2)) /\ IsCont(At(s, i + 3))
      BY <1>4, <1>5, <1>6, <1>10, <2>6, <2>7, <2>8
    <3>2. \A k \in 1 .. n : k = 1 \/ k = 2 \/ k = 3
      BY <1>10
    <3> QED
      BY <3>1, <3>2
  <2> QED
    BY <1>3, <1>10, <2>4, <2>10, <2>11 DEF CharacterAt
<1> QED
  BY <1>7, <1>8, <1>9, <1>10

\* A code point is spelt in one way with a given number of bytes.
LEMMA SpeltOnce ==
  ASSUME NEW p \in Points, NEW n \in 0 .. 3, NEW a, NEW b, Writes(p, n, a), Writes(p, n, b)
  PROVE  a = b
<1>1. a \in Seq(Octets) /\ b \in Seq(Octets) /\ Len(a) = n + 1 /\ Len(b) = n + 1
  BY DEF Writes
<1>2. \A k \in 1 .. n + 1 : a[k] = b[k]
  <2>1. CASE n = 0
    <3>1. Spelt0(p, a) /\ Spelt0(p, b)
      BY <2>1 DEF Spelt, Writes
    <3>2. a[1] = b[1]
      BY <3>1, SMT DEF Spelt0
    <3> QED
      BY <2>1, <3>2
  <2>2. CASE n = 1
    <3>1. Spelt1(p, a) /\ Spelt1(p, b)
      BY <2>2 DEF Spelt, Writes
    <3>2. a[1] = b[1] /\ a[2] = b[2]
      BY <3>1, SMT DEF Spelt1
    <3>3. \A k \in 1 .. n + 1 : k = 1 \/ k = 2
      BY <2>2
    <3> QED
      BY <3>2, <3>3
  <2>3. CASE n = 2
    <3>1. Spelt2(p, a) /\ Spelt2(p, b)
      BY <2>3 DEF Spelt, Writes
    <3>2. a[1] = b[1] /\ a[2] = b[2] /\ a[3] = b[3]
      BY <3>1, SMT DEF Spelt2
    <3>3. \A k \in 1 .. n + 1 : k = 1 \/ k = 2 \/ k = 3
      BY <2>3
    <3> QED
      BY <3>2, <3>3
  <2>4. CASE n = 3
    <3>1. Spelt3(p, a) /\ Spelt3(p, b)
      BY <2>4 DEF Spelt, Writes
    <3>2. a[1] = b[1] /\ a[2] = b[2] /\ a[3] = b[3] /\ a[4] = b[4]
      BY <3>1, SMT DEF Spelt3
    <3>3. \A k \in 1 .. n + 1 : k = 1 \/ k = 2 \/ k = 3 \/ k = 4
      BY <2>4
    <3> QED
      BY <3>2, <3>3
  <2> QED
    BY <2>1, <2>2, <2>3, <2>4
<1> QED
  BY <1>1, <1>2

-----------------------------------------------------------------------------
(* Reading a text                                                            *)

LEMMA AtByte ==
  ASSUME NEW s \in Seq(Octets), NEW i \in Nat
  PROVE  At(s, i) \in Octets /\ (~(i < Len(s)) => At(s, i) = 0)
<1>1. Len(s) \in Nat
  BY LenProperties
<1>2. CASE i < Len(s)
  <2>1. i + 1 \in 1 .. Len(s)
    BY <1>1, <1>2
  <2>2. s[i + 1] \in Octets
    BY <2>1, ElementOfSeq
  <2> QED
    BY <1>2, <2>2 DEF At
<1>3. CASE ~(i < Len(s))
  BY <1>3 DEF At, Octets
<1> QED
  BY <1>2, <1>3

Follows(s, i) == Continuation(At(s, i))
BrokenBy(s, i) == FirstBroken(s, i, Follows(s, i))

\* The character at i is all there.
Readable(s, i) == Follows(s, i) # None /\ i + Follows(s, i) < Len(s) /\ BrokenBy(s, i) = None

\* Where reading goes on after i.
Ahead(s, i) ==
  IF i = Len(s) THEN i
  ELSE IF Follows(s, i) = None \/ i + Follows(s, i) >= Len(s) THEN i + 1
  ELSE IF BrokenBy(s, i) # None THEN i + BrokenBy(s, i) + 1
  ELSE i + Follows(s, i) + 1

LEMMA FollowsIs ==
  ASSUME NEW s \in Seq(Octets), NEW i \in Nat
  PROVE  /\ Follows(s, i) = None \/ Follows(s, i) \in 0 .. 3
         /\ Follows(s, i) # None => LeadByte(At(s, i), Follows(s, i))
<1>1. At(s, i) \in Octets
  BY AtByte
<1>2. Continuation(At(s, i)) \in {None, 0, 1, 2, 3}
      /\ \A n \in 0 .. 3 : Continuation(At(s, i)) = n <=> LeadByte(At(s, i), n)
  BY <1>1, ContinuationIs
<1> QED
  BY <1>2 DEF Follows

LEMMA AheadIs ==
  ASSUME NEW s \in Seq(Octets), NEW i \in 0 .. Len(s)
  PROVE  /\ Ahead(s, i) \in 0 .. Len(s)
         /\ i < Len(s) => Ahead(s, i) \in i + 1 .. Len(s)
         /\ i = Len(s) => Ahead(s, i) = i
         /\ i < Len(s) /\ Readable(s, i) => Ahead(s, i) = i + Follows(s, i) + 1
<1>1. Len(s) \in Nat
  BY LenProperties
<1>2. Follows(s, i) = None \/ Follows(s, i) \in 0 .. 3
  BY <1>1, FollowsIs
<1>3. i = Len(s) => Ahead(s, i) = i
  BY DEF Ahead
<1>4. ASSUME i < Len(s) PROVE Ahead(s, i) \in i + 1 .. Len(s)
  <2>1. i # Len(s)
    BY <1>1, <1>4
  <2>2. CASE Follows(s, i) = None \/ i + Follows(s, i) >= Len(s)
    <3>1. Ahead(s, i) = i + 1
      BY <2>1, <2>2 DEF Ahead
    <3> QED
      BY <1>1, <1>4, <3>1
  <2>3. CASE ~(Follows(s, i) = None \/ i + Follows(s, i) >= Len(s)) /\ BrokenBy(s, i) # None
    <3>1. Ahead(s, i) = i + BrokenBy(s, i) + 1
      BY <2>1, <2>3 DEF Ahead
    <3>2. Follows(s, i) \in 0 .. 3
      BY <1>2, <2>3
    <3>3. BrokenBy(s, i) \in 1 .. Follows(s, i)
      <4>1. i \in Nat
        BY <1>1
      <4> QED
        BY <2>3, <3>2, <4>1, UnbrokenIs DEF BrokenBy
    <3> QED
      BY <1>1, <1>4, <2>3, <3>1, <3>2, <3>3
  <2>4. CASE ~(Follows(s, i) = None \/ i + Follows(s, i) >= Len(s)) /\ BrokenBy(s, i) = None
    <3>1. Ahead(s, i) = i + Follows(s, i) + 1
      BY <2>1, <2>4 DEF Ahead
    <3>2. Follows(s, i) \in 0 .. 3
      BY <1>2, <2>4
    <3> QED
      BY <1>1, <1>4, <2>4, <3>1, <3>2
  <2> QED
    BY <2>2, <2>3, <2>4
<1>5. ASSUME i < Len(s), Readable(s, i) PROVE Ahead(s, i) = i + Follows(s, i) + 1
  <2>1. i # Len(s) /\ Follows(s, i) # None /\ BrokenBy(s, i) = None
    BY <1>1, <1>5 DEF Readable
  <2>2. ~(i + Follows(s, i) >= Len(s))
    BY <1>1, <1>2, <1>5, <2>1 DEF Readable
  <2> QED
    BY <2>1, <2>2 DEF Ahead
<1> QED
  BY <1>1, <1>3, <1>4, <1>5

\* A readable character is one with all its bytes.
LEMMA ReadableIs ==
  ASSUME NEW s \in Seq(Octets), NEW i \in 0 .. Len(s)
  PROVE  /\ Readable(s, i) => Follows(s, i) \in 0 .. 3 /\ CharacterAt(s, i, Follows(s, i))
         /\ \A n \in 0 .. 3 : CharacterAt(s, i, n) /\ i + n < Len(s) => Readable(s, i) /\ Follows(s, i) = n
<1>1. Len(s) \in Nat /\ i \in Nat
  BY LenProperties
<1>2. ASSUME Readable(s, i) PROVE Follows(s, i) \in 0 .. 3 /\ CharacterAt(s, i, Follows(s, i))
  <2>1. Follows(s, i) \in 0 .. 3 /\ LeadByte(At(s, i), Follows(s, i))
    BY <1>1, <1>2, FollowsIs DEF Readable
  <2>2. FirstBroken(s, i, Follows(s, i)) = None
    BY <1>2 DEF Readable, BrokenBy
  <2>3. \A k \in 1 .. Follows(s, i) : IsCont(At(s, i + k))
    BY <1>1, <2>1, <2>2, UnbrokenIs
  <2> QED
    BY <2>1, <2>3 DEF CharacterAt
<1>3. ASSUME NEW n \in 0 .. 3, CharacterAt(s, i, n), i + n < Len(s) PROVE Readable(s, i) /\ Follows(s, i) = n
  <2>1. Follows(s, i) = n
    <3>1. At(s, i) \in Octets
      BY <1>1, AtByte
    <3> QED
      BY <1>3, <3>1, ContinuationIs DEF Follows, CharacterAt
  <2>2. FirstBroken(s, i, n) = None
    BY <1>1, <1>3, UnbrokenIs DEF CharacterAt
  <2>3. n # None
    BY DEF None
  <2> QED
    BY <1>3, <2>1, <2>2, <2>3 DEF Readable, BrokenBy
<1> QED
  BY <1>2, <1>3

\* The bytes of a readable character.
LEMMA ReadableHas ==
  ASSUME NEW s \in Seq(Octets), NEW i \in 0 .. Len(s), NEW n \in 0 .. 3, i + n < Len(s)
  PROVE  /\ SubSeq(s, i + 1, i + n + 1) \in Seq(Octets) /\ Len(SubSeq(s, i + 1, i + n + 1)) = n + 1
         /\ Has(s, i, n, SubSeq(s, i + 1, i + n + 1))
<1>1. Len(s) \in Nat /\ i \in Nat
  BY LenProperties
<1> DEFINE m == i + n + 1
           b == SubSeq(s, i + 1, m)
<1>2. m \in i .. Len(s) /\ m - i = n + 1
  BY <1>1
<1> HIDE DEF m
<1>3. b \in Seq(Octets) /\ Len(b) = m - i /\ \A k \in 1 .. m - i : b[k] = s[i + k]
  BY <1>2, PartIs
<1> HIDE DEF b
<1>4. ASSUME NEW k \in 0 .. n PROVE At(s, i + k) = b[k + 1] /\ b[k + 1] \in Octets
  <2>1. k + 1 \in 1 .. m - i /\ i + (k + 1) = i + k + 1 /\ i + k < Len(s) /\ i + k \in Nat
    BY <1>1, <1>2
  <2>2. b[k + 1] = s[i + k + 1]
    BY <1>3, <2>1
  <2>3. At(s, i + k) = s[i + k + 1]
    BY <2>1 DEF At
  <2>4. At(s, i + k) \in Octets
    BY <2>1, AtByte
  <2> QED
    BY <2>2, <2>3, <2>4
<1>5. Has(s, i, n, b)
  BY <1>4 DEF Has
<1> QED
  BY <1>2, <1>3, <1>5 DEF b, m

LEMMA ReadsPoint ==
  ASSUME NEW s \in Seq(Octets), NEW i \in 0 .. Len(s), Readable(s, i)
  PROVE  Point(s, i, Follows(s, i)) \in Points
<1> DEFINE n == Follows(s, i)
<1>1. n \in 0 .. 3 /\ CharacterAt(s, i, n)
  BY ReadableIs
<1>2. i + n < Len(s) /\ i \in Nat
  BY DEF Readable
<1> HIDE DEF n
<1>3. Has(s, i, n, SubSeq(s, i + 1, i + n + 1))
  BY <1>1, <1>2, ReadableHas
<1> QED
  BY <1>1, <1>2, <1>3, ReadPoint DEF n

\* The code points of s from a position on.
PointsAs(f, s) ==
  f = [i \in 0 .. Len(s) |->
        IF i = Len(s) THEN <<>>
        ELSE IF Follows(s, i) = None \/ i + Follows(s, i) >= Len(s) THEN f[i + 1]
        ELSE IF BrokenBy(s, i) # None THEN f[i + BrokenBy(s, i) + 1]
        ELSE <<Point(s, i, Follows(s, i))>> \o f[i + Follows(s, i) + 1]]

ReadsAs(f, s) ==
  /\ f \in [0 .. Len(s) -> Seq(Points)] /\ f[Len(s)] = <<>>
  /\ \A i \in 0 .. Len(s) - 1 :
       f[i] = IF Readable(s, i) THEN <<Point(s, i, Follows(s, i))>> \o f[Ahead(s, i)] ELSE f[Ahead(s, i)]

LEMMA PointsReadAt ==
  ASSUME NEW s \in Seq(Octets), NEW f, PointsAs(f, s), NEW i \in 0 .. Len(s)
  PROVE  /\ i = Len(s) => f[i] = <<>>
         /\ i < Len(s) => f[i] = IF Readable(s, i) THEN <<Point(s, i, Follows(s, i))>> \o f[Ahead(s, i)]
                                 ELSE f[Ahead(s, i)]
<1>1. Len(s) \in Nat
  BY LenProperties
<1>2. f[i] = IF i = Len(s) THEN <<>>
             ELSE IF Follows(s, i) = None \/ i + Follows(s, i) >= Len(s) THEN f[i + 1]
             ELSE IF BrokenBy(s, i) # None THEN f[i + BrokenBy(s, i) + 1]
             ELSE <<Point(s, i, Follows(s, i))>> \o f[i + Follows(s, i) + 1]
  BY DEF PointsAs
<1>3. Follows(s, i) = None \/ Follows(s, i) \in 0 .. 3
  BY <1>1, FollowsIs
<1>4. ASSUME i < Len(s)
      PROVE  f[i] = IF Readable(s, i) THEN <<Point(s, i, Follows(s, i))>> \o f[Ahead(s, i)] ELSE f[Ahead(s, i)]
  <2>1. i # Len(s)
    BY <1>1, <1>4
  <2>2. CASE Follows(s, i) = None \/ i + Follows(s, i) >= Len(s)
    <3>1. ~Readable(s, i)
      BY <1>1, <1>3, <2>2 DEF Readable
    <3>2. Ahead(s, i) = i + 1
      BY <2>1, <2>2 DEF Ahead
    <3> QED
      BY <1>2, <2>1, <2>2, <3>1, <3>2
  <2>3. CASE ~(Follows(s, i) = None \/ i + Follows(s, i) >= Len(s)) /\ BrokenBy(s, i) # None
    <3>1. ~Readable(s, i)
      BY <2>3 DEF Readable
    <3>2. Ahead(s, i) = i + BrokenBy(s, i) + 1
      BY <2>1, <2>3 DEF Ahead
    <3> QED
      BY <1>2, <2>1, <2>3, <3>1, <3>2
  <2>4. CASE ~(Follows(s, i) = None \/ i + Follows(s, i) >= Len(s)) /\ BrokenBy(s, i) = None
    <3>1. Readable(s, i)
      BY <1>1, <1>3, <2>4 DEF Readable
    <3>2. Ahead(s, i) = i + Follows(s, i) + 1
      BY <2>1, <2>4 DEF Ahead
    <3> QED
      BY <1>2, <2>1, <2>4, <3>1, <3>2
  <2> QED
    BY <2>2, <2>3, <2>4
<1> QED
  BY <1>2, <1>4

LEMMA PointsExist ==
  ASSUME NEW s \in Seq(Octets)
  PROVE  \E f : PointsAs(f, s)
<1> DEFINE n == Len(s)
           Q == Seq(Points)
           HeadAt(i) == IF Readable(s, i) THEN <<Point(s, i, Follows(s, i))>> ELSE <<>>
           base == [i \in 0 .. n |-> <<>>]
           jump == [i \in 0 .. n |-> Ahead(s, i)]
           step == [i \in 0 .. n |-> [q \in Q |-> HeadAt(i) \o q]]
<1>1. n \in Nat
  BY LenProperties
<1>2. jump \in [0 .. n -> 0 .. n] /\ \A i \in 0 .. n : jump[i] = Ahead(s, i)
  BY AheadIs
<1>3. <<>> \in Q
  OBVIOUS
<1>4. base \in [0 .. n -> Q] /\ \A i \in 0 .. n : base[i] = <<>>
  <2> HIDE DEF Q, n
  <2> QED
    BY <1>3
<1>5. \A i \in 0 .. n : HeadAt(i) \in Q
  <2>1. ASSUME NEW i \in 0 .. n, Readable(s, i) PROVE <<Point(s, i, Follows(s, i))>> \in Q
    <3>1. Point(s, i, Follows(s, i)) \in Points
      BY <2>1, ReadsPoint
    <3> QED
      BY <3>1, SingleIs
  <2> QED
    BY <1>3, <2>1
<1> HIDE DEF HeadAt
<1>6. step \in [0 .. n -> [Q -> Q]] /\ \A i \in 0 .. n : \A q \in Q : step[i][q] = HeadAt(i) \o q
  <2>1. \A i \in 0 .. n : \A q \in Q : HeadAt(i) \o q \in Q
    BY <1>5, ConcatIn
  <2> HIDE DEF Q, n
  <2> QED
    BY <2>1
<1> HIDE DEF n, Q, base, jump, step
<1>7. PICK f : LeadsBack(f, Q, n, jump, base, step)
  BY <1>1, <1>2, <1>4, <1>6, Backwards
<1>8. /\ f \in [0 .. n -> Q]
      /\ \A i \in 0 .. n : f[i] = IF jump[i] > i THEN step[i][f[jump[i]]] ELSE base[i]
  BY <1>7 DEF LeadsBack
<1>9. ASSUME NEW i \in 0 .. n
      PROVE  f[i] = IF i = n THEN <<>>
                    ELSE IF Follows(s, i) = None \/ i + Follows(s, i) >= n THEN f[i + 1]
                    ELSE IF BrokenBy(s, i) # None THEN f[i + BrokenBy(s, i) + 1]
                    ELSE <<Point(s, i, Follows(s, i))>> \o f[i + Follows(s, i) + 1]
  <2>1. CASE i = n
    <3>1. ~(jump[i] > i)
      BY <1>1, <1>2, <2>1, AheadIs DEF n
    <3> QED
      BY <1>4, <1>8, <2>1, <3>1
  <2>2. CASE i # n
    <3>1. i < n
      BY <1>1, <2>2
    <3>2. Ahead(s, i) \in i + 1 .. n /\ Ahead(s, i) \in 0 .. n
      BY <3>1, AheadIs DEF n
    <3>3. f[i] = HeadAt(i) \o f[Ahead(s, i)]
      <4>1. jump[i] = Ahead(s, i) /\ jump[i] > i
        BY <1>1, <1>2, <3>2
      <4>2. f[Ahead(s, i)] \in Q
        BY <1>8, <3>2
      <4> QED
        BY <1>6, <1>8, <4>1, <4>2
    <3>4. f[Ahead(s, i)] \in Seq(Points)
      BY <1>8, <3>2 DEF Q
    <3>5. <<>> \o f[Ahead(s, i)] = f[Ahead(s, i)]
      BY <3>4
    <3>6. Follows(s, i) = None \/ Follows(s, i) \in 0 .. 3
      BY <1>1, FollowsIs
    <3>7. CASE Follows(s, i) = None \/ i + Follows(s, i) >= n
      <4>1. ~Readable(s, i)
        BY <1>1, <3>6, <3>7 DEF Readable, n
      <4>2. Ahead(s, i) = i + 1
        BY <2>2, <3>7 DEF Ahead, n
      <4> QED
        BY <2>2, <3>3, <3>5, <3>7, <4>1, <4>2 DEF HeadAt
    <3>8. CASE ~(Follows(s, i) = None \/ i + Follows(s, i) >= n) /\ BrokenBy(s, i) # None
      <4>1. ~Readable(s, i)
        BY <3>8 DEF Readable
      <4>2. Ahead(s, i) = i + BrokenBy(s, i) + 1
        BY <2>2, <3>8 DEF Ahead, n
      <4> QED
        BY <2>2, <3>3, <3>5, <3>8, <4>1, <4>2 DEF HeadAt
    <3>9. CASE ~(Follows(s, i) = None \/ i + Follows(s, i) >= n) /\ BrokenBy(s, i) = None
      <4>1. Readable(s, i)
        BY <1>1, <3>6, <3>9 DEF Readable, n
      <4>2. Ahead(s, i) = i + Follows(s, i) + 1
        BY <2>2, <3>9 DEF Ahead, n
      <4> QED
        BY <2>2, <3>3, <3>9, <4>1, <4>2 DEF HeadAt
    <3> QED
      BY <3>7, <3>8, <3>9
  <2> QED
    BY <2>1, <2>2
<1>10. f = [i \in 0 .. n |->
            IF i = n THEN <<>>
            ELSE IF Follows(s, i) = None \/ i + Follows(s, i) >= n THEN f[i + 1]
            ELSE IF BrokenBy(s, i) # None THEN f[i + BrokenBy(s, i) + 1]
            ELSE <<Point(s, i, Follows(s, i))>> \o f[i + Follows(s, i) + 1]]
  BY <1>8, <1>9
<1>11. PointsAs(f, s)
  BY <1>10 DEF PointsAs, n
<1> QED
  BY <1>11

LEMMA PointsRead ==
  ASSUME NEW s \in Seq(Octets), NEW f, PointsAs(f, s)
  PROVE  ReadsAs(f, s)
<1> DEFINE n == Len(s)
           T == {i \in 0 .. n : f[i] \in Seq(Points)}
<1>1. n \in Nat
  BY LenProperties
<1>2. ASSUME NEW i \in 0 .. n, \A k \in i + 1 .. n : k \in T PROVE i \in T
  <2>1. CASE i = n
    <3>1. f[i] = <<>>
      BY <2>1, PointsReadAt
    <3>2. <<>> \in Seq(Points)
      OBVIOUS
    <3> QED
      BY <3>1, <3>2
  <2>2. CASE i # n
    <3>1. i < n
      BY <1>1, <2>2
    <3>2. Ahead(s, i) \in i + 1 .. n
      BY <3>1, AheadIs
    <3>3. f[Ahead(s, i)] \in Seq(Points)
      BY <1>2, <3>2
    <3>4. f[i] = IF Readable(s, i) THEN <<Point(s, i, Follows(s, i))>> \o f[Ahead(s, i)] ELSE f[Ahead(s, i)]
      BY <3>1, PointsReadAt
    <3>5. ASSUME Readable(s, i) PROVE <<Point(s, i, Follows(s, i))>> \o f[Ahead(s, i)] \in Seq(Points)
      <4>1. Point(s, i, Follows(s, i)) \in Points
        BY <3>5, ReadsPoint
      <4>2. <<Point(s, i, Follows(s, i))>> \in Seq(Points)
        BY <4>1, SingleIs
      <4> QED
        BY <3>3, <4>2, ConcatIn
    <3> QED
      BY <3>3, <3>4, <3>5
  <2> QED
    BY <2>1, <2>2
<1> HIDE DEF T
<1>3. \A i \in 0 .. n : i \in T
  BY <1>1, <1>2, Downwards
<1>4. \A i \in 0 .. n : f[i] \in Seq(Points)
  BY <1>3 DEF T
<1>5. f \in [0 .. n -> Seq(Points)]
  <2>1. \E g : f = [i \in 0 .. n |-> g[i]]
    <3> DEFINE E(i) == IF i = Len(s) THEN <<>>
        ELSE IF Follows(s, i) = None \/ i + Follows(s, i) >= Len(s) THEN f[i + 1]
        ELSE IF BrokenBy(s, i) # None THEN f[i + BrokenBy(s, i) + 1]
        ELSE <<Point(s, i, Follows(s, i))>> \o f[i + Follows(s, i) + 1]
    <3>1. f = [i \in 0 .. n |-> E(i)]
      BY DEF PointsAs
    <3> HIDE DEF E
    <3>2. f = [i \in 0 .. n |-> f[i]]
      BY <3>1
    <3> QED
      BY <3>2
  <2>2. f = [i \in 0 .. n |-> f[i]]
    BY <2>1
  <2> QED
    BY <1>4, <2>2
<1>6. f[n] = <<>>
  <2>1. n \in 0 .. n
    BY <1>1
  <2> QED
    BY <2>1, PointsReadAt
<1>7. ASSUME NEW i \in 0 .. n - 1
      PROVE f[i] = IF Readable(s, i) THEN <<Point(s, i, Follows(s, i))>> \o f[Ahead(s, i)] ELSE f[Ahead(s, i)]
  <2>1. i \in 0 .. n /\ i < n
    BY <1>1
  <2> QED
    BY <2>1, PointsReadAt
<1> QED
  BY <1>5, <1>6, <1>7 DEF ReadsAs

\* The code points up to the first that is zero.
NonZero(all) ==
  SubSeq(all, 1, CHOOSE n \in 0 .. Len(all) : (\A i \in 1 .. n : all[i] # 0) /\ (n = Len(all) \/ all[n + 1] = 0))

LEMMA u_strReads ==
  ASSUME NEW s \in Seq(Octets)
  PROVE  \E f : ReadsAs(f, s) /\ u_str(s) = NonZero(f[0])
<1> DEFINE f == CHOOSE g : PointsAs(g, s)
<1>1. PointsAs(f, s)
  BY PointsExist
<1>2. u_str(s) = NonZero(f[0])
  BY DEF u_str, PointsAs, NonZero, Follows, BrokenBy
<1> HIDE DEF f
<1>3. ReadsAs(f, s)
  BY <1>1, PointsRead
<1> QED
  BY <1>2, <1>3

LEMMA NonZeroIs ==
  ASSUME NEW d \in Seq(Points)
  PROVE  /\ NonZero(d) \in Seq(Points) /\ 0 \notin ToSet(NonZero(d))
         /\ 0 \notin ToSet(d) => NonZero(d) = d
<1> DEFINE n == Len(d)
           B == {k \in Nat : k = n \/ d[k + 1] = 0}
           StopsAt(k) == (\A i \in 1 .. k : d[i] # 0) /\ (k = n \/ d[k + 1] = 0)
           z == CHOOSE k \in 0 .. n : StopsAt(k)
           q == NonZero(d)
<1>0. n \in Nat /\ DOMAIN d = 1 .. n
  BY LenProperties
<1>1. q = SubSeq(d, 1, z)
  BY DEF NonZero
<1>2. n \in B
  BY <1>0
<1> HIDE DEF B, z, n
<1>3. PICK m \in 0 .. n : m \in B /\ \A k \in 0 .. m - 1 : k \notin B
  BY <1>0, <1>2, FirstUpTo
<1>4. StopsAt(m)
  <2>1. m = n \/ d[m + 1] = 0
    BY <1>3 DEF B
  <2>2. ASSUME NEW i \in 1 .. m PROVE d[i] # 0
    <3>1. i - 1 \in 0 .. m - 1 /\ i - 1 \in Nat /\ (i - 1) + 1 = i
      BY <1>0, <1>3
    <3>2. i - 1 \notin B
      BY <1>3, <3>1
    <3> QED
      BY <3>1, <3>2 DEF B
  <2> QED
    BY <2>1, <2>2
<1>5. z \in 0 .. n /\ StopsAt(z)
  <2> HIDE DEF StopsAt
  <2> QED
    BY <1>3, <1>4 DEF z
<1>6. q \in Seq(Points) /\ Len(q) = z /\ \A i \in 1 .. z : q[i] = d[i]
  <2>1. 0 \in 0 .. Len(d) /\ z \in 0 .. Len(d) /\ z - 0 = z /\ 0 + 1 = 1
    <3> HIDE DEF StopsAt, q
    <3> QED
      BY <1>0, <1>5 DEF n
  <2> DEFINE c == SubSeq(d, 0 + 1, z)
  <2>2. Part(Points, d, 0, z)
    <3> HIDE DEF c, q, StopsAt
    <3>1. 0 \in 0 .. Len(d) /\ z \in 0 .. Len(d)
      BY <2>1
    <3> QED
      BY <3>1, PartHolds, Zenon
  <2>3. c \in Seq(Points) /\ Len(c) = z - 0 /\ \A k \in 1 .. z - 0 : c[k] = d[0 + k]
    BY <2>2, Zenon DEF Part
  <2>4. \A k \in 1 .. z : 0 + k = k
    BY <1>5
  <2> HIDE DEF q, StopsAt
  <2>5. q = c
    BY <1>1, <2>1
  <2> HIDE DEF c
  <2> QED
    BY <2>1, <2>3, <2>4, <2>5
<1> HIDE DEF q
<1>7. 0 \notin ToSet(q)
  <2>1. DOMAIN q = 1 .. z
    BY <1>6, LenProperties
  <2>2. \A i \in 1 .. z : q[i] # 0
    BY <1>5, <1>6
  <2> QED
    BY <2>1, <2>2 DEF ToSet
<1>8. ASSUME 0 \notin ToSet(d) PROVE q = d
  <2>1. ASSUME z # n PROVE FALSE
    <3>1. z + 1 \in DOMAIN d
      <4> HIDE DEF StopsAt
      <4> QED
        BY <1>0, <1>5, <2>1
    <3>2. d[z + 1] = 0
      BY <1>5, <2>1
    <3> QED
      BY <1>8, <3>1, <3>2 DEF ToSet
  <2> QED
    BY <1>1, <2>1, SubSeqFull DEF n
<1> QED
  BY <1>6, <1>7, <1>8 DEF q

-----------------------------------------------------------------------------
(* What test_utf takes                                                       *)

ValidAs(v, s) ==
  v = [i \in 0 .. Len(s) + 1 |->
        IF i > Len(s) THEN TRUE
        ELSE /\ Follows(s, i) # None /\ i + Follows(s, i) <= Len(s)
             /\ BrokenBy(s, i) = None
             /\ v[i + Follows(s, i) + 1]]

\* Every character from i on is all there.
Validates(v, s) ==
  /\ v[Len(s)] = TRUE
  /\ \A i \in 0 .. Len(s) - 1 : v[i] <=> Readable(s, i) /\ v[Ahead(s, i)]

\* The character at i, the zero at the end included.
There(s, i) == Follows(s, i) # None /\ i + Follows(s, i) <= Len(s) /\ BrokenBy(s, i) = None

LEMMA ThereIs ==
  ASSUME NEW s \in Seq(Octets), NEW i \in 0 .. Len(s)
  PROVE  /\ There(s, i) => i + Follows(s, i) + 1 \in i + 1 .. Len(s) + 1
         /\ i < Len(s) => (There(s, i) <=> Readable(s, i))
         /\ i = Len(s) => There(s, i) /\ Follows(s, i) = 0
<1>1. Len(s) \in Nat /\ i \in Nat
  BY LenProperties
<1>2. Follows(s, i) = None \/ Follows(s, i) \in 0 .. 3
  BY <1>1, FollowsIs
<1>3. There(s, i) => i + Follows(s, i) + 1 \in i + 1 .. Len(s) + 1
  BY <1>1, <1>2 DEF There
<1>4. ASSUME i < Len(s) PROVE There(s, i) <=> Readable(s, i)
  <2>1. Readable(s, i) => There(s, i)
    BY <1>1, <1>2 DEF Readable, There
  <2>2. ASSUME There(s, i) PROVE Readable(s, i)
    <3> DEFINE n == Follows(s, i)
    <3>1. n \in 0 .. 3 /\ i + n <= Len(s) /\ BrokenBy(s, i) = None /\ n # None
      BY <1>2, <2>2 DEF There
    <3>2. ASSUME i + n = Len(s) PROVE FALSE
      <4>1. n \in 1 .. n
        BY <1>1, <1>4, <3>1, <3>2
      <4>2. IsCont(At(s, i + n))
        BY <1>1, <3>1, <4>1, UnbrokenIs DEF BrokenBy
      <4>3. At(s, i + n) = 0
        <5>1. i + n \in Nat /\ ~(i + n < Len(s))
          BY <1>1, <3>2
        <5> QED
          BY <5>1, AtByte
      <4>4. ~IsCont(0)
        BY DEF IsCont
      <4> QED
        BY <4>2, <4>3, <4>4
    <3>3. i + n < Len(s)
      BY <1>1, <3>1, <3>2
    <3> QED
      BY <3>1, <3>3 DEF Readable
  <2> QED
    BY <2>1, <2>2
<1>5. ASSUME i = Len(s) PROVE There(s, i) /\ Follows(s, i) = 0
  <2>1. At(s, i) = 0 /\ 0 \in Octets
    <3>1. ~(i < Len(s))
      BY <1>1, <1>5
    <3> QED
      BY <1>1, <3>1, AtByte DEF Octets
  <2>2. Follows(s, i) = 0
    <3>1. LeadByte(0, 0)
      BY DEF LeadByte
    <3> QED
      BY <2>1, <3>1, ContinuationIs DEF Follows
  <2>3. BrokenBy(s, i) = None
    <3>1. \A k \in 1 .. 0 : IsCont(At(s, i + k))
      OBVIOUS
    <3> QED
      BY <1>1, <2>2, <3>1, UnbrokenIs DEF BrokenBy
  <2>4. Follows(s, i) # None
    BY <2>2 DEF None
  <2> QED
    BY <1>1, <1>5, <2>2, <2>3, <2>4 DEF There
<1> QED
  BY <1>3, <1>4, <1>5

LEMMA ValidExists ==
  ASSUME NEW s \in Seq(Octets)
  PROVE  \E v : ValidAs(v, s)
<1> DEFINE n == Len(s) + 1
           Jump(i) == IF i <= Len(s) /\ There(s, i) THEN i + Follows(s, i) + 1 ELSE i
           base == [i \in 0 .. n |-> i > Len(s)]
           jump == [i \in 0 .. n |-> Jump(i)]
           step == [i \in 0 .. n |-> [q \in BOOLEAN |-> q]]
<1>1. Len(s) \in Nat /\ n \in Nat
  BY LenProperties
<1>2. jump \in [0 .. n -> 0 .. n] /\ \A i \in 0 .. n : jump[i] = Jump(i)
  <2>1. ASSUME NEW i \in 0 .. n PROVE Jump(i) \in 0 .. n
    <3>1. CASE i <= Len(s) /\ There(s, i)
      <4>1. i \in 0 .. Len(s)
        BY <1>1, <3>1
      <4>2. i + Follows(s, i) + 1 \in i + 1 .. n
        BY <3>1, <4>1, ThereIs
      <4> QED
        BY <1>1, <3>1, <4>2
    <3>2. CASE ~(i <= Len(s) /\ There(s, i))
      BY <3>2
    <3> QED
      BY <3>1, <3>2
  <2> HIDE DEF Jump, n
  <2> QED
    BY <2>1
<1>3. base \in [0 .. n -> BOOLEAN] /\ \A i \in 0 .. n : base[i] = (i > Len(s))
  OBVIOUS
<1>4. step \in [0 .. n -> [BOOLEAN -> BOOLEAN]] /\ \A i \in 0 .. n : \A q \in BOOLEAN : step[i][q] = q
  OBVIOUS
<1> HIDE DEF base, jump, step
<1>5. PICK v : LeadsBack(v, BOOLEAN, n, jump, base, step)
  <2> HIDE DEF n, Jump
  <2> QED
    BY <1>1, <1>2, <1>3, <1>4, Backwards
<1>6. v \in [0 .. n -> BOOLEAN] /\ \A i \in 0 .. n : v[i] = IF jump[i] > i THEN step[i][v[jump[i]]] ELSE base[i]
  BY <1>5 DEF LeadsBack
<1>7. ASSUME NEW i \in 0 .. n
      PROVE  v[i] = IF i > Len(s) THEN TRUE
                    ELSE /\ Follows(s, i) # None /\ i + Follows(s, i) <= Len(s)
                         /\ BrokenBy(s, i) = None
                         /\ v[i + Follows(s, i) + 1]
  <2>1. CASE i > Len(s)
    <3>1. Jump(i) = i
      BY <1>1, <2>1
    <3>2. v[i] = base[i]
      BY <1>2, <1>6, <3>1
    <3>3. base[i] = TRUE
      BY <1>3, <2>1
    <3> QED
      BY <2>1, <3>2, <3>3
  <2>2. CASE ~(i > Len(s)) /\ ~There(s, i)
    <3>1. Jump(i) = i
      BY <1>1, <2>2
    <3>2. v[i] = base[i]
      BY <1>2, <1>6, <3>1
    <3>3. base[i] = FALSE
      BY <1>3, <2>2
    <3> QED
      BY <2>2, <3>2, <3>3 DEF There
  <2>3. CASE ~(i > Len(s)) /\ There(s, i)
    <3>1. i \in 0 .. Len(s) /\ i <= Len(s)
      BY <1>1, <2>3
    <3> DEFINE k == i + Follows(s, i) + 1
    <3>2. k \in i + 1 .. n
      BY <2>3, <3>1, ThereIs
    <3>3. Jump(i) = k
      BY <2>3, <3>1
    <3>4. jump[i] > i /\ jump[i] = k /\ k \in 0 .. n
      <4> HIDE DEF k, Jump
      <4> QED
        BY <1>1, <1>2, <3>2, <3>3
    <3>5. v[i] = v[k]
      <4> HIDE DEF k, Jump, n
      <4>1. v[k] \in BOOLEAN
        BY <1>6, <3>4
      <4>2. v[i] = step[i][v[k]]
        BY <1>6, <3>4
      <4> QED
        BY <1>4, <4>1, <4>2
    <3>6. v[i] \in BOOLEAN
      BY <1>6
    <3> HIDE DEF k
    <3>7. Follows(s, i) # None /\ i + Follows(s, i) <= Len(s) /\ BrokenBy(s, i) = None
      BY <2>3 DEF There
    <3> QED
      BY <2>3, <3>5, <3>6, <3>7, Zenon DEF k
  <2> QED
    BY <2>1, <2>2, <2>3
<1>8. v = [i \in 0 .. n |->
            IF i > Len(s) THEN TRUE
            ELSE /\ Follows(s, i) # None /\ i + Follows(s, i) <= Len(s)
                 /\ BrokenBy(s, i) = None
                 /\ v[i + Follows(s, i) + 1]]
  <2> HIDE DEF n
  <2> QED
    BY <1>6, <1>7, Zenon
<1> QED
  BY <1>8 DEF ValidAs

LEMMA ValidIs ==
  ASSUME NEW s \in Seq(Octets), NEW v, ValidAs(v, s)
  PROVE  Validates(v, s)
<1>1. Len(s) \in Nat
  BY LenProperties
<1>2. \A i \in 0 .. Len(s) + 1 :
        v[i] = IF i > Len(s) THEN TRUE
               ELSE /\ Follows(s, i) # None /\ i + Follows(s, i) <= Len(s)
                    /\ BrokenBy(s, i) = None
                    /\ v[i + Follows(s, i) + 1]
  BY Zenon DEF ValidAs
<1>3. v[Len(s) + 1] = TRUE
  <2>1. Len(s) + 1 \in 0 .. Len(s) + 1 /\ Len(s) + 1 > Len(s)
    BY <1>1
  <2> QED
    BY <1>2, <2>1, Zenon
<1>4. ASSUME NEW i \in 0 .. Len(s) PROVE v[i] = (There(s, i) /\ v[i + Follows(s, i) + 1])
  <2>1. i \in 0 .. Len(s) + 1 /\ ~(i > Len(s))
    BY <1>1
  <2>2. v[i] = (/\ Follows(s, i) # None /\ i + Follows(s, i) <= Len(s)
                /\ BrokenBy(s, i) = None
                /\ v[i + Follows(s, i) + 1])
    BY <1>2, <2>1, Zenon
  <2> QED
    BY <2>2, Zenon DEF There
<1>5. v[Len(s)] = TRUE
  <2> DEFINE n == Len(s)
  <2>1. n \in 0 .. Len(s)
    BY <1>1
  <2>2. There(s, n) /\ Follows(s, n) = 0
    BY <2>1, ThereIs
  <2>3. n + Follows(s, n) + 1 = Len(s) + 1
    BY <1>1, <2>2
  <2>4. v[n] = (There(s, n) /\ v[n + Follows(s, n) + 1])
    BY <1>4, <2>1
  <2> QED
    BY <1>3, <2>2, <2>3, <2>4
<1>6. ASSUME NEW i \in 0 .. Len(s) - 1 PROVE v[i] <=> Readable(s, i) /\ v[Ahead(s, i)]
  <2>1. i \in 0 .. Len(s) /\ i < Len(s)
    BY <1>1
  <2>2. v[i] = (There(s, i) /\ v[i + Follows(s, i) + 1])
    BY <1>4, <2>1
  <2>3. There(s, i) <=> Readable(s, i)
    BY <2>1, ThereIs
  <2>4. Readable(s, i) => Ahead(s, i) = i + Follows(s, i) + 1
    BY <2>1, AheadIs
  <2> QED
    BY <2>2, <2>3, <2>4, Zenon
<1> QED
  BY <1>5, <1>6 DEF Validates

LEMMA test_utfIs ==
  ASSUME NEW s \in Seq(Octets)
  PROVE  \E v : Validates(v, s) /\ (test_utf(s) <=> (s # <<>> => v[0]))
<1> DEFINE v == CHOOSE g : ValidAs(g, s)
<1>1. ValidAs(v, s)
  BY ValidExists
<1>2. test_utf(s) <=> (s # <<>> => v[0])
  BY Zenon DEF test_utf, ValidAs, Follows, BrokenBy
<1> HIDE DEF v
<1>3. Validates(v, s)
  BY <1>1, ValidIs
<1> QED
  BY <1>2, <1>3

-----------------------------------------------------------------------------
(* Writing code points                                                       *)

LEMMA EncodedType ==
  ASSUME NEW p \in Points
  PROVE  Encoded(p) \in Seq(Octets)
<1>1. PICK n \in 0 .. 3 : Takes(p, n)
  BY TakesOne
<1> QED
  BY <1>1, EncodedIs DEF Writes

\* What the code points u up to k are written as, and what those after k are.
WrittenTo(u, k) == FlattenSeq([j \in 1 .. k |-> Encoded(u[j])])
WrittenFrom(u, k) == FlattenSeq([j \in 1 .. Len(u) - k |-> Encoded(u[k + j])])

LEMMA AsPieces ==
  ASSUME NEW u \in Seq(Points), NEW k \in 0 .. Len(u)
  PROVE  /\ [j \in 1 .. k |-> Encoded(u[j])] \in Seq(Seq(Octets))
         /\ [j \in 1 .. Len(u) - k |-> Encoded(u[k + j])] \in Seq(Seq(Octets))
         /\ WrittenTo(u, k) \in Seq(Octets) /\ WrittenFrom(u, k) \in Seq(Octets)
<1>1. Len(u) \in Nat /\ k \in Nat /\ Len(u) - k \in Nat
  BY LenProperties
<1>2. \A j \in 1 .. Len(u) : Encoded(u[j]) \in Seq(Octets)
  <2>1. \A j \in 1 .. Len(u) : u[j] \in Points
    BY ElementOfSeq
  <2> QED
    BY <2>1, EncodedType
<1>3. [j \in 1 .. k |-> Encoded(u[j])] \in Seq(Seq(Octets))
  <2>1. \A j \in 1 .. k : Encoded(u[j]) \in Seq(Octets)
    BY <1>1, <1>2
  <2> QED
    BY <1>1, <2>1
<1>4. [j \in 1 .. Len(u) - k |-> Encoded(u[k + j])] \in Seq(Seq(Octets))
  <2>1. \A j \in 1 .. Len(u) - k : Encoded(u[k + j]) \in Seq(Octets)
    <3>1. \A j \in 1 .. Len(u) - k : k + j \in 1 .. Len(u)
      BY <1>1
    <3> QED
      BY <1>2, <3>1
  <2> QED
    BY <1>1, <2>1
<1> QED
  BY <1>3, <1>4, FlattenType DEF WrittenTo, WrittenFrom

LEMMA RestNone ==
  ASSUME NEW u \in Seq(Points)
  PROVE  WrittenFrom(u, Len(u)) = <<>> /\ WrittenTo(u, 0) = <<>>
<1>1. Len(u) \in Nat
  BY LenProperties
<1> DEFINE a == [j \in 1 .. Len(u) - Len(u) |-> Encoded(u[Len(u) + j])]
           b == [j \in 1 .. 0 |-> Encoded(u[j])]
<1>2. a = <<>> /\ b = <<>>
  BY <1>1
<1>3. a \in Seq(Seq(Octets)) /\ b \in Seq(Seq(Octets))
  BY <1>2
<1> HIDE DEF a, b
<1>4. FlattenSeq(a) = <<>> /\ FlattenSeq(b) = <<>>
  BY <1>2, <1>3, FlattenType
<1> QED
  BY <1>4 DEF WrittenFrom, WrittenTo, a, b

FromGoes(u, k) == WrittenFrom(u, k) = Encoded(u[k + 1]) \o WrittenFrom(u, k + 1)
ToGoes(u, k) == WrittenTo(u, k + 1) = WrittenTo(u, k) \o Encoded(u[k + 1])

LEMMA RestStep ==
  ASSUME NEW u \in Seq(Points), NEW k \in 0 .. Len(u) - 1
  PROVE  FromGoes(u, k) /\ ToGoes(u, k)
<1>1. Len(u) \in Nat /\ k \in 0 .. Len(u) /\ k + 1 \in 0 .. Len(u) /\ k + 1 \in 1 .. Len(u) /\ k \in Nat
  BY LenProperties
<1>2. u[k + 1] \in Points
  BY <1>1, ElementOfSeq
<1> DEFINE e == Encoded(u[k + 1])
           one == <<e>>
           a == [j \in 1 .. Len(u) - k |-> Encoded(u[k + j])]
           b == [j \in 1 .. Len(u) - (k + 1) |-> Encoded(u[k + 1 + j])]
           c == [j \in 1 .. k + 1 |-> Encoded(u[j])]
           d == [j \in 1 .. k |-> Encoded(u[j])]
<1>3. e \in Seq(Octets)
  BY <1>2, EncodedType
<1>4. a \in Seq(Seq(Octets)) /\ b \in Seq(Seq(Octets)) /\ c \in Seq(Seq(Octets)) /\ d \in Seq(Seq(Octets))
  BY <1>1, AsPieces
<1>5. one \in Seq(Seq(Octets)) /\ Len(one) = 1 /\ one[1] = e
  <2> HIDE DEF e
  <2> QED
    BY <1>3, SingleIs
<1>6. one \o b = a
  <2>1. Len(a) = Len(one) + Len(b)
    <3>1. Len(a) = Len(u) - k /\ Len(b) = Len(u) - (k + 1)
      BY <1>1
    <3> HIDE DEF a, b, one
    <3> QED
      BY <1>1, <1>5, <3>1
  <2>2. \A j \in 1 .. Len(one) : a[j] = one[j]
    <3>1. 1 \in 1 .. Len(u) - k
      BY <1>1
    <3>2. a[1] = e
      BY <3>1
    <3> HIDE DEF a, one, e
    <3> QED
      BY <1>5, <3>2
  <2>3. \A j \in 1 .. Len(b) : a[Len(one) + j] = b[j]
    <3>1. Len(b) = Len(u) - (k + 1)
      BY <1>1
    <3>2. ASSUME NEW j \in 1 .. Len(u) - (k + 1) PROVE a[1 + j] = b[j]
      <4>1. 1 + j \in 1 .. Len(u) - k /\ k + (1 + j) = k + 1 + j
        BY <1>1
      <4>2. a[1 + j] = Encoded(u[k + (1 + j)])
        BY <4>1
      <4>3. b[j] = Encoded(u[k + 1 + j])
        OBVIOUS
      <4> QED
        BY <4>1, <4>2, <4>3
    <3> HIDE DEF a, b, one
    <3> QED
      BY <1>5, <3>1, <3>2
  <2> HIDE DEF a, b, one
  <2> QED
    BY <1>4, <1>5, <2>1, <2>2, <2>3, ConcatIs
<1>7. Append(d, e) = c
  <2>1. Len(d) = k /\ Len(c) = k + 1 /\ c[k + 1] = e
    BY <1>1
  <2>2. \A j \in 1 .. k : c[j] = d[j]
    BY <1>1
  <2> HIDE DEF c, d, e
  <2>3. Append(d, e) \in Seq(Seq(Octets)) /\ Len(Append(d, e)) = k + 1 /\ Append(d, e)[k + 1] = e
        /\ \A j \in 1 .. k : Append(d, e)[j] = d[j]
    BY <1>1, <1>3, <1>4, <2>1, AppendProperties
  <2>4. \A j \in 1 .. k + 1 : j \in 1 .. k \/ j = k + 1
    BY <1>1
  <2>5. \A j \in 1 .. k + 1 : Append(d, e)[j] = c[j]
    BY <2>1, <2>2, <2>3, <2>4
  <2> QED
    BY <1>4, <2>1, <2>3, <2>5, SeqEqual
<1> HIDE DEF a, b, c, d, e
<1>8. FlattenSeq(a) = e \o FlattenSeq(b)
  BY <1>3, <1>4, <1>6, FlattenFirst DEF FlattensFirst
<1>9. FlattenSeq(c) = FlattenSeq(d) \o e
  BY <1>3, <1>4, <1>7, FlattenLast DEF FlattensLast
<1> QED
  BY <1>8, <1>9 DEF FromGoes, ToGoes, WrittenFrom, WrittenTo, a, b, c, d, e

LEMMA u_cutIs ==
  ASSUME NEW s, u_str(s) \in Seq(Points), NEW k \in 0 .. Len(u_str(s))
  PROVE  /\ u_cut(s, 0, None) = WrittenFrom(u_str(s), 0)
         /\ u_cut(s, 0, k) = WrittenTo(u_str(s), k)
         /\ u_cut(s, k, None) = WrittenFrom(u_str(s), k)
<1> DEFINE u == u_str(s)
<1>1. Len(u) \in Nat /\ k \in Nat
  BY LenProperties
<1>2. None < 0 /\ ~(k < 0)
  BY <1>1 DEF None
<1>3. u_cut(s, 0, None) = FlattenSeq([j \in 1 .. Len(u) - 0 |-> Encoded(u[0 + j])])
  BY <1>2 DEF u_cut, u_length
<1>4. u_cut(s, k, None) = FlattenSeq([j \in 1 .. Len(u) - k |-> Encoded(u[k + j])])
  BY <1>2 DEF u_cut, u_length
<1>5. u_cut(s, 0, k) = FlattenSeq([j \in 1 .. k - 0 |-> Encoded(u[0 + j])])
  BY <1>2 DEF u_cut
<1> HIDE DEF u
<1>6. [j \in 1 .. k - 0 |-> Encoded(u[0 + j])] = [j \in 1 .. k |-> Encoded(u[j])]
  BY <1>1
<1> QED
  BY <1>3, <1>4, <1>5, <1>6 DEF WrittenTo, WrittenFrom, u

\* In two pieces.
LEMMA CutInTwo ==
  ASSUME NEW u \in Seq(Points), NEW k \in 0 .. Len(u)
  PROVE  WrittenTo(u, k) \o WrittenFrom(u, k) = WrittenFrom(u, 0)
<1> DEFINE T == {j \in Nat : j <= Len(u) => WrittenTo(u, j) \o WrittenFrom(u, j) = WrittenFrom(u, 0)}
<1>1. Len(u) \in Nat
  BY LenProperties
<1>2. 0 \in T
  <2>1. WrittenFrom(u, 0) \in Seq(Octets)
    <3>1. 0 \in 0 .. Len(u)
      BY <1>1
    <3> QED
      BY <3>1, AsPieces
  <2>2. <<>> \o WrittenFrom(u, 0) = WrittenFrom(u, 0)
    BY <2>1
  <2> QED
    BY <2>2, RestNone
<1>3. ASSUME NEW j \in Nat, j \in T PROVE j + 1 \in T
  <2>1. SUFFICES ASSUME j + 1 <= Len(u) PROVE WrittenTo(u, j + 1) \o WrittenFrom(u, j + 1) = WrittenFrom(u, 0)
    OBVIOUS
  <2> DEFINE a == WrittenTo(u, j)
             e == Encoded(u[j + 1])
             b == WrittenFrom(u, j + 1)
  <2>2. j \in 0 .. Len(u) /\ j + 1 \in 0 .. Len(u) /\ j \in 0 .. Len(u) - 1 /\ j + 1 \in 1 .. Len(u)
    BY <1>1, <2>1
  <2>3. a \in Seq(Octets) /\ b \in Seq(Octets)
    BY <2>2, AsPieces
  <2>4. e \in Seq(Octets)
    <3>1. u[j + 1] \in Points
      BY <2>2, ElementOfSeq
    <3> QED
      BY <3>1, EncodedType
  <2>5. WrittenTo(u, j + 1) = a \o e /\ WrittenFrom(u, j) = e \o b
    BY <2>2, RestStep DEF FromGoes, ToGoes
  <2>6. a \o WrittenFrom(u, j) = WrittenFrom(u, 0)
    BY <1>3, <2>2
  <2> HIDE DEF a, b, e
  <2>7. (a \o e) \o b = a \o (e \o b)
    <3>1. Brackets(a, e, b)
      BY <2>3, <2>4, Assoc
    <3> QED
      BY <3>1 DEF Brackets
  <2> QED
    BY <2>5, <2>6, <2>7 DEF b
<1> HIDE DEF T
<1>4. Nat \subseteq T
  BY <1>2, <1>3, NatSet
<1>5. k \in T /\ k <= Len(u)
  BY <1>1, <1>4
<1> QED
  BY <1>5 DEF T

\* One code point more.
RestMore(p, w) == WrittenFrom(<<p>> \o w, 0) = Encoded(p) \o WrittenFrom(w, 0)

LEMMA RestFirst ==
  ASSUME NEW p \in Points, NEW w \in Seq(Points)
  PROVE  RestMore(p, w)
<1> DEFINE o == <<p>>
           u == o \o w
<1>1. o \in Seq(Points) /\ Len(o) = 1 /\ o[1] = p
  BY SingleIs
<1> HIDE DEF o
<1>2. u \in Seq(Points) /\ Len(u) = 1 + Len(w) /\ Len(w) \in Nat /\ u[1] = p
      /\ \A j \in 1 .. Len(w) : u[1 + j] = w[j]
  <2>1. /\ u \in Seq(Points) /\ Len(u) = Len(o) + Len(w) /\ Len(w) \in Nat
        /\ \A j \in 1 .. Len(o) : u[j] = o[j]
        /\ \A j \in 1 .. Len(w) : u[Len(o) + j] = w[j]
    BY <1>1, ConcatAt
  <2>2. 1 \in 1 .. Len(o)
    BY <1>1
  <2> HIDE DEF u
  <2> QED
    BY <1>1, <2>1, <2>2
<1> HIDE DEF u
<1>3. 0 \in 0 .. Len(u) - 1 /\ 0 + 1 = 1
  BY <1>2
<1>4. WrittenFrom(u, 0) = Encoded(u[0 + 1]) \o WrittenFrom(u, 0 + 1)
  BY <1>2, <1>3, RestStep DEF FromGoes
<1>5. WrittenFrom(u, 1) = WrittenFrom(w, 0)
  <2>1. Len(u) - 1 = Len(w) - 0
    BY <1>2
  <2>2. \A j \in 1 .. Len(w) - 0 : u[1 + j] = w[0 + j]
    BY <1>2
  <2>3. [j \in 1 .. Len(u) - 1 |-> Encoded(u[1 + j])] = [j \in 1 .. Len(w) - 0 |-> Encoded(w[0 + j])]
    BY <2>1, <2>2
  <2> QED
    BY <2>3, Zenon DEF WrittenFrom
<1>6. WrittenFrom(u, 0) = Encoded(p) \o WrittenFrom(w, 0)
  BY <1>2, <1>3, <1>4, <1>5
<1> QED
  BY <1>6 DEF RestMore, u, o

-----------------------------------------------------------------------------
(* There and back                                                            *)

\* A character that is no longer than need be is one of the bytes it takes.
LEMMA NotLonger ==
  ASSUME NEW s \in Seq(Octets), NEW i \in 0 .. Len(s), Readable(s, i), ~Longer(s, i)
  PROVE  Takes(Point(s, i, Follows(s, i)), Follows(s, i))
<1> DEFINE n == Follows(s, i)
           b == SubSeq(s, i + 1, i + n + 1)
           p == Point(s, i, n)
<1>1. n \in 0 .. 3 /\ CharacterAt(s, i, n)
  BY ReadableIs
<1>2. i + n < Len(s) /\ i \in Nat
  BY DEF Readable
<1> HIDE DEF n
<1>3. Has(s, i, n, b)
  BY <1>1, <1>2, ReadableHas
<1> HIDE DEF b
<1>4. p \in Points /\ Spelt(p, n, b)
  BY <1>1, <1>2, <1>3, ReadPoint
<1> HIDE DEF p
<1>5. p \in Nat /\ Digits(p)
  BY <1>4, SixtyFourths DEF Points
<1>6. At(s, i) = b[1]
  BY <1>1, <1>2, <1>3, HasEach
<1>7. n >= 1 => At(s, i + 1) = b[2]
  BY <1>1, <1>2, <1>3, HasEach
<1>8. CASE n = 0
  <2>1. Spelt0(p, b)
    BY <1>4, <1>8 DEF Spelt
  <2>2. Takes(p, n)
    BY <1>8, <2>1, SMT DEF Spelt0, Takes
  <2> QED
    BY <2>2 DEF n, p
<1>9. CASE n = 1
  <2>1. Spelt1(p, b)
    BY <1>4, <1>9 DEF Spelt
  <2>2. ASSUME p < 128 PROVE FALSE
    <3>1. b[1] \in {192, 193}
      BY <1>5, <2>1, <2>2, SMT DEF Spelt1, Digits
    <3> QED
      BY <1>6, <3>1 DEF Longer
  <2>3. Takes(p, n)
    BY <1>5, <1>9, <2>1, <2>2, SMT DEF Spelt1, Takes
  <2> QED
    BY <2>3 DEF n, p
<1>10. CASE n = 2
  <2>1. Spelt2(p, b)
    BY <1>4, <1>10 DEF Spelt
  <2>2. ASSUME p < 2048 PROVE FALSE
    <3>1. b[1] = 224 /\ b[2] < 160
      BY <1>5, <2>1, <2>2, SMT DEF Spelt2, Digits
    <3> QED
      BY <1>6, <1>7, <1>10, <3>1 DEF Longer
  <2>3. Takes(p, n)
    BY <1>5, <1>10, <2>1, <2>2, SMT DEF Spelt2, Takes
  <2> QED
    BY <2>3 DEF n, p
<1>11. CASE n = 3
  <2>1. Spelt3(p, b)
    BY <1>4, <1>11 DEF Spelt
  <2>2. ASSUME p < 65536 PROVE FALSE
    <3>1. b[1] = 240 /\ b[2] < 144
      BY <1>5, <2>1, <2>2, SMT DEF Spelt3, Digits
    <3> QED
      BY <1>6, <1>7, <1>11, <3>1 DEF Longer
  <2>3. Takes(p, n)
    BY <1>5, <1>11, <2>1, <2>2, SMT DEF Spelt3, Takes
  <2> QED
    BY <2>3 DEF n, p
<1> QED
  BY <1>1, <1>8, <1>9, <1>10, <1>11

\* Such a character is written as it was read.
LEMMA WritesBack ==
  ASSUME NEW s \in Seq(Octets), NEW i \in 0 .. Len(s), Readable(s, i), ~Longer(s, i)
  PROVE  Encoded(Point(s, i, Follows(s, i))) = SubSeq(s, i + 1, i + Follows(s, i) + 1)
<1> DEFINE n == Follows(s, i)
           b == SubSeq(s, i + 1, i + n + 1)
           p == Point(s, i, n)
<1>1. n \in 0 .. 3 /\ CharacterAt(s, i, n)
  BY ReadableIs
<1>2. i + n < Len(s) /\ i \in Nat
  BY DEF Readable
<1>3. Takes(p, n)
  BY NotLonger
<1> HIDE DEF n
<1>4. Has(s, i, n, b) /\ b \in Seq(Octets) /\ Len(b) = n + 1
  BY <1>1, <1>2, ReadableHas
<1> HIDE DEF b
<1>5. p \in Points /\ Spelt(p, n, b)
  BY <1>1, <1>2, <1>4, ReadPoint
<1> HIDE DEF p
<1>6. Writes(p, n, b)
  BY <1>4, <1>5 DEF Writes
<1>7. Writes(p, n, Encoded(p))
  BY <1>1, <1>3, <1>5, EncodedIs
<1>8. Encoded(p) = b
  BY <1>1, <1>5, <1>6, <1>7, SpeltOnce
<1> QED
  BY <1>8 DEF n, b, p

LEMMA NoZeroFirst ==
  ASSUME NEW p \in Points, NEW w \in Seq(Points), p # 0, 0 \notin ToSet(w)
  PROVE  0 \notin ToSet(<<p>> \o w)
<1> DEFINE o == <<p>>
<1>1. o \in Seq(Points) /\ Len(o) = 1 /\ o[1] = p
  BY SingleIs
<1> HIDE DEF o
<1>2. /\ o \o w \in Seq(Points) /\ Len(w) \in Nat
      /\ Len(o \o w) = Len(o) + Len(w)
      /\ \A j \in 1 .. Len(o) : (o \o w)[j] = o[j]
      /\ \A j \in 1 .. Len(w) : (o \o w)[Len(o) + j] = w[j]
  <2>1. o \in Seq(Points)
    BY <1>1
  <2> QED
    BY <2>1, ConcatAt
<1>3. DOMAIN (o \o w) = 1 .. 1 + Len(w)
  BY <1>1, <1>2, LenProperties
<1>4. \A j \in 1 .. 1 + Len(w) : j = 1 \/ j - 1 \in 1 .. Len(w)
  BY <1>2
<1>5. ASSUME NEW j \in 1 .. 1 + Len(w) PROVE (o \o w)[j] # 0
  <2>1. CASE j = 1
    <3>1. 1 \in 1 .. Len(o)
      BY <1>1
    <3>2. (o \o w)[1] = o[1]
      BY <1>2, <3>1
    <3> QED
      BY <1>1, <2>1, <3>2
  <2>2. CASE j - 1 \in 1 .. Len(w)
    <3>1. (o \o w)[Len(o) + (j - 1)] = w[j - 1] /\ Len(o) + (j - 1) = j
      BY <1>1, <1>2, <2>2
    <3>2. j - 1 \in DOMAIN w
      BY <2>2, LenProperties
    <3> QED
      BY <3>1, <3>2 DEF ToSet
  <2> QED
    BY <1>4, <2>1, <2>2
<1>6. 0 \notin ToSet(o \o w)
  BY <1>3, <1>5 DEF ToSet
<1> QED
  BY <1>6 DEF o

\* Text that test_utf takes and that has no character longer than need be comes
\* back.
LEMMA TakenSurvives ==
  ASSUME NEW s \in Seq(Octets), test_utf(s), 0 \notin ToSet(s), \A i \in 0 .. Len(s) - 1 : ~Longer(s, i)
  PROVE  Survives(s)
<1>1. Len(s) \in Nat
  BY LenProperties
<1>2. PICK f : ReadsAs(f, s) /\ u_str(s) = NonZero(f[0])
  BY u_strReads
<1>3. PICK v : Validates(v, s) /\ (test_utf(s) <=> (s # <<>> => v[0]))
  BY test_utfIs
<1>4. v[0]
  <2>1. CASE s = <<>>
    <3>1. Len(s) = 0
      BY <2>1
    <3> QED
      BY <1>3, <3>1 DEF Validates
  <2> QED
    BY <1>3, <2>1
<1> DEFINE Comes(i) == 0 \notin ToSet(f[i]) /\ WrittenFrom(f[i], 0) = From(s, i)
           T == {i \in 0 .. Len(s) : v[i] => Comes(i)}
<1>5. \A i \in 0 .. Len(s) : f[i] \in Seq(Points)
  BY <1>2 DEF ReadsAs
<1>6. ASSUME NEW i \in 0 .. Len(s), \A k \in i + 1 .. Len(s) : k \in T PROVE i \in T
  <2>1. CASE i = Len(s)
    <3>1. f[i] = <<>> /\ Len(f[i]) = 0
      BY <1>2, <2>1 DEF ReadsAs
    <3>2. WrittenFrom(f[i], 0) = <<>>
      BY <1>5, <3>1, RestNone
    <3>3. From(s, i) \in Seq(Octets) /\ Len(From(s, i)) = 0
      BY <1>1, <2>1, FromIs
    <3>4. From(s, i) = <<>>
      BY <3>3, EmptySeq
    <3>5. 0 \notin ToSet(f[i])
      BY <3>1 DEF ToSet
    <3> QED
      BY <3>2, <3>4, <3>5
  <2>2. CASE i # Len(s)
    <3>1. SUFFICES ASSUME v[i] PROVE Comes(i)
      OBVIOUS
    <3>2. i \in 0 .. Len(s) - 1 /\ i < Len(s)
      BY <1>1, <2>2
    <3> DEFINE k == Ahead(s, i)
               n == Follows(s, i)
               p == Point(s, i, n)
               w == f[k]
               b == SubSeq(s, i + 1, k)
    <3>3. Readable(s, i) /\ v[k]
      BY <1>3, <3>1, <3>2, Zenon DEF Validates
    <3>4. k \in i + 1 .. Len(s) /\ k = i + n + 1
      BY <3>2, <3>3, AheadIs
    <3>5. k \in i .. Len(s) /\ k \in 0 .. Len(s)
      BY <1>1, <3>4
    <3>6. p \in Points
      BY <3>3, ReadsPoint
    <3>7. f[i] = <<p>> \o w
      BY <1>2, <3>2, <3>3 DEF ReadsAs
    <3>8. w \in Seq(Points)
      BY <1>5, <3>5
    <3>9. 0 \notin ToSet(w) /\ WrittenFrom(w, 0) = From(s, k)
      BY <1>6, <3>3, <3>4
    <3>10. Encoded(p) = b
      BY <3>2, <3>3, <3>4, WritesBack
    <3>11. p # 0
      <4>1. SUFFICES ASSUME p = 0 PROVE FALSE
        OBVIOUS
      <4>2. Takes(p, n) /\ n \in 0 .. 3
        BY <3>2, <3>3, NotLonger, ReadableIs
      <4>3. Writes(p, n, b)
        BY <3>6, <3>10, <4>2, EncodedIs
      <4>4. n = 0
        BY <4>1, <4>2, SMT DEF Takes
      <4>5. b[1] = 0
        <5> HIDE DEF b, p, n
        <5>1. Spelt0(p, b)
          BY <4>3, <4>4 DEF Writes, Spelt
        <5> QED
          BY <4>1, <5>1, SMT DEF Spelt0
      <4>6. Has(s, i, n, SubSeq(s, i + 1, i + n + 1))
        BY <3>2, <3>3, <4>2, ReadableHas DEF Readable
      <4>7. At(s, i) = b[1]
        <5>1. Has(s, i, n, b)
          BY <3>4, <4>6
        <5>2. i \in Nat
          OBVIOUS
        <5> HIDE DEF n, b, p, k
        <5> QED
          BY <4>2, <5>1, <5>2, HasEach
      <4>8. At(s, i) = s[i + 1] /\ i + 1 \in DOMAIN s
        BY <1>1, <3>2, LenProperties DEF At
      <4> HIDE DEF n, b, p, k
      <4> QED
        BY <4>5, <4>7, <4>8 DEF ToSet
    <3> HIDE DEF p, w, b, k, n
    <3>12. 0 \notin ToSet(<<p>> \o w)
      BY <3>6, <3>8, <3>9, <3>11, NoZeroFirst
    <3>13. WrittenFrom(<<p>> \o w, 0) = Encoded(p) \o WrittenFrom(w, 0)
      BY <3>6, <3>8, RestFirst DEF RestMore
    <3>14. b \o From(s, k) = From(s, i)
      BY <3>5, Splice DEF b
    <3> QED
      BY <3>7, <3>9, <3>10, <3>12, <3>13, <3>14
  <2> QED
    BY <2>1, <2>2
<1> HIDE DEF T, Comes
<1>7. \A i \in 0 .. Len(s) : i \in T
  BY <1>1, <1>6, Downwards
<1>8. 0 \notin ToSet(f[0]) /\ WrittenFrom(f[0], 0) = From(s, 0) /\ f[0] \in Seq(Points)
  <2>1. 0 \in 0 .. Len(s)
    BY <1>1
  <2> QED
    BY <1>4, <1>5, <1>7, <2>1 DEF T, Comes
<1>9. u_str(s) = f[0]
  BY <1>2, <1>8, NonZeroIs
<1>10. u_cut(s, 0, None) = WrittenFrom(u_str(s), 0)
  <2>1. u_str(s) \in Seq(Points) /\ 0 \in 0 .. Len(u_str(s))
    BY <1>8, <1>9, LenProperties
  <2> QED
    BY <2>1, u_cutIs
<1>11. From(s, 0) = s
  BY SubSeqFull DEF From
<1> QED
  BY <1>8, <1>9, <1>10, <1>11 DEF Survives

Halves(a, i, e, r) ==
  /\ Len(a) = i + Len(e) + Len(r)
  /\ \A j \in 1 .. Len(e) : a[i + j] = e[j]
  /\ From(a, i + Len(e)) = r

LEMMA FromTwo ==
  ASSUME NEW S, NEW a \in Seq(S), NEW i \in 0 .. Len(a), NEW e \in Seq(S), NEW r \in Seq(S), From(a, i) = e \o r
  PROVE  Halves(a, i, e, r)
<1>1. Len(a) \in Nat /\ i \in Nat
  BY LenProperties
<1> DEFINE c == From(a, i)
           m == i + Len(e)
           d == From(a, m)
<1>2. /\ c \in Seq(S)
      /\ Len(c) = Len(a) - i
      /\ \A k \in 1 .. Len(a) - i : c[k] = a[i + k]
  BY FromIs
<1> HIDE DEF c
<1>3. c = e \o r
  BY DEF c
<1>4. /\ Len(e) \in Nat /\ Len(r) \in Nat
      /\ Len(e \o r) = Len(e) + Len(r)
      /\ \A k \in 1 .. Len(e) : (e \o r)[k] = e[k]
      /\ \A k \in 1 .. Len(r) : (e \o r)[Len(e) + k] = r[k]
  BY ConcatAt
<1>5. Len(a) = i + Len(e) + Len(r)
  BY <1>1, <1>2, <1>3, <1>4
<1>6. ASSUME NEW j \in 1 .. Len(e) PROVE a[i + j] = e[j]
  <2>1. j \in 1 .. Len(a) - i
    BY <1>1, <1>4, <1>5
  <2> QED
    BY <1>2, <1>3, <1>4, <2>1
<1>7. m \in 0 .. Len(a) /\ Len(a) - m = Len(r)
  BY <1>1, <1>4, <1>5
<1> HIDE DEF m
<1>8. /\ d \in Seq(S)
      /\ Len(d) = Len(a) - m
      /\ \A k \in 1 .. Len(a) - m : d[k] = a[m + k]
  BY <1>7, FromIs
<1> HIDE DEF d
<1>9. \A k \in 1 .. Len(r) : d[k] = r[k]
  <2> SUFFICES ASSUME NEW k \in 1 .. Len(r) PROVE d[k] = r[k]
    OBVIOUS
  <2>1. Len(e) + k \in 1 .. Len(a) - i /\ i + (Len(e) + k) = m + k
    BY <1>1, <1>4, <1>5 DEF m
  <2>2. c[Len(e) + k] = a[m + k]
    BY <1>2, <2>1
  <2>3. c[Len(e) + k] = r[k]
    BY <1>3, <1>4
  <2>4. d[k] = a[m + k]
    BY <1>7, <1>8
  <2> QED
    BY <2>2, <2>3, <2>4
<1>10. d = r
  BY <1>7, <1>8, <1>9, SeqEqual
<1> QED
  BY <1>5, <1>6, <1>10 DEF Halves, d, m

\* A code point is read where it is written.
ReadsOff(a, i, c, r) ==
  /\ i < Len(a) /\ Readable(a, i) /\ Point(a, i, Follows(a, i)) = c
  /\ From(a, Ahead(a, i)) = r

LEMMA ReadWritten ==
  ASSUME NEW a \in Seq(Octets), NEW i \in 0 .. Len(a), NEW c \in Points, NEW r \in Seq(Octets),
         From(a, i) = Encoded(c) \o r
  PROVE  ReadsOff(a, i, c, r)
<1> DEFINE e == Encoded(c)
<1>1. PICK n \in 0 .. 3 : Takes(c, n)
  BY TakesOne
<1>2. Writes(c, n, e)
  BY <1>1, EncodedIs
<1> HIDE DEF e
<1>3. e \in Seq(Octets) /\ Len(e) = n + 1 /\ Spelt(c, n, e)
  BY <1>2 DEF Writes
<1>4. Halves(a, i, e, r)
  BY <1>3, FromTwo DEF e
<1>5. Len(a) \in Nat /\ i \in Nat /\ Len(r) \in Nat
  BY LenProperties
<1>6. i + n < Len(a) /\ i < Len(a)
  BY <1>3, <1>4, <1>5 DEF Halves
<1>7. Has(a, i, n, e)
  <2> SUFFICES ASSUME NEW k \in 0 .. n PROVE At(a, i + k) = e[k + 1] /\ e[k + 1] \in Octets
    BY DEF Has
  <2>1. k + 1 \in 1 .. Len(e) /\ i + (k + 1) = i + k + 1 /\ i + k < Len(a)
    BY <1>3, <1>5, <1>6
  <2>2. a[i + (k + 1)] = e[k + 1]
    BY <1>4, <2>1 DEF Halves
  <2>3. e[k + 1] \in Octets
    BY <1>3, <2>1, ElementOfSeq
  <2> QED
    BY <2>1, <2>2, <2>3 DEF At
<1>8. CharacterAt(a, i, n) /\ Point(a, i, n) = c
  BY <1>3, <1>5, <1>7, SpeltPoint
<1>9. Readable(a, i) /\ Follows(a, i) = n
  BY <1>6, <1>8, ReadableIs
<1>10. Ahead(a, i) = i + Len(e)
  <2>1. Ahead(a, i) = i + n + 1
    BY <1>6, <1>9, AheadIs
  <2> QED
    BY <1>3, <1>5, <2>1
<1>11. From(a, Ahead(a, i)) = r
  BY <1>4, <1>10 DEF Halves
<1> QED
  BY <1>6, <1>8, <1>9, <1>11 DEF ReadsOff

FromNext(u, k) == From(u, k) = <<u[k + 1]>> \o From(u, k + 1)

LEMMA FromOne ==
  ASSUME NEW S, NEW u \in Seq(S), NEW k \in 0 .. Len(u) - 1
  PROVE  FromNext(u, k)
<1> DEFINE m == k + 1
           b == SubSeq(u, k + 1, m)
<1>1. Len(u) \in Nat /\ k \in 0 .. Len(u) /\ m \in k .. Len(u) /\ m - k = 1 /\ m \in 1 .. Len(u)
  BY LenProperties
<1>2. u[m] \in S
  BY <1>1, ElementOfSeq
<1> HIDE DEF m
<1>3. b \o From(u, m) = From(u, k)
  BY <1>1, Splice
<1>4. Part(S, u, k, m)
  BY <1>1, PartHolds
<1>5. b \in Seq(S) /\ Len(b) = 1 /\ \A j \in 1 .. 1 : b[j] = u[k + j]
  BY <1>1, <1>4 DEF Part
<1> HIDE DEF b
<1>6. b = <<u[m]>>
  <2>1. b[1] = u[m]
    BY <1>5 DEF m
  <2> DEFINE x == u[m]
             o == <<x>>
  <2>2. o \in Seq(S) /\ Len(o) = 1 /\ o[1] = x
    BY <1>2, SingleIs
  <2> HIDE DEF o
  <2>3. b = o
    BY <1>5, <2>1, <2>2, SeqEqual
  <2> QED
    BY <2>3 DEF o
<1> QED
  BY <1>3, <1>6 DEF FromNext, m

\* What code points are written as is taken by test_utf and read as them.
LEMMA ReadsBack ==
  ASSUME NEW u \in Seq(Points), 0 \notin ToSet(u)
  PROVE  test_utf(WrittenFrom(u, 0)) /\ u_str(WrittenFrom(u, 0)) = u
<1> DEFINE a == WrittenFrom(u, 0)
<1>1. Len(u) \in Nat /\ 0 \in 0 .. Len(u)
  BY LenProperties
<1>2. a \in Seq(Octets) /\ Len(a) \in Nat
  BY <1>1, AsPieces, LenProperties
<1> HIDE DEF a
<1>3. PICK f : ReadsAs(f, a) /\ u_str(a) = NonZero(f[0])
  BY <1>2, u_strReads
<1>4. PICK v : Validates(v, a) /\ (test_utf(a) <=> (a # <<>> => v[0]))
  BY <1>2, test_utfIs
<1> DEFINE Comes(i, k) == v[i] /\ f[i] = From(u, k)
           T == {k \in 0 .. Len(u) : \A i \in 0 .. Len(a) : From(a, i) = WrittenFrom(u, k) => Comes(i, k)}
<1>5. ASSUME NEW k \in 0 .. Len(u), \A j \in k + 1 .. Len(u) : j \in T PROVE k \in T
  <2> SUFFICES ASSUME NEW i \in 0 .. Len(a), From(a, i) = WrittenFrom(u, k) PROVE Comes(i, k)
    OBVIOUS
  <2>1. CASE k = Len(u)
    <3>1. From(a, i) = <<>>
      BY <2>1, RestNone
    <3>2. Len(From(a, i)) = Len(a) - i
      BY <1>2, FromIs
    <3>3. i = Len(a)
      BY <1>2, <3>1, <3>2
    <3>4. v[i] /\ f[i] = <<>>
      BY <1>3, <1>4, <3>3 DEF ReadsAs, Validates
    <3>5. From(u, k) \in Seq(Points) /\ Len(From(u, k)) = 0
      BY <1>1, <2>1, FromIs
    <3>6. From(u, k) = <<>>
      BY <3>5, EmptySeq
    <3> QED
      BY <3>4, <3>6
  <2>2. CASE k # Len(u)
    <3>1. k \in 0 .. Len(u) - 1 /\ k + 1 \in k + 1 .. Len(u) /\ k + 1 \in 1 .. Len(u) /\ k + 1 \in 0 .. Len(u)
      BY <1>1, <2>2
    <3> DEFINE c == u[k + 1]
               r == WrittenFrom(u, k + 1)
               m == Ahead(a, i)
    <3>2. c \in Points /\ r \in Seq(Octets)
      BY <3>1, ElementOfSeq, AsPieces
    <3>3. From(a, i) = Encoded(c) \o r
      BY <3>1, RestStep DEF FromGoes
    <3> HIDE DEF c, r
    <3>4. i < Len(a) /\ Readable(a, i) /\ Point(a, i, Follows(a, i)) = c /\ From(a, m) = r
      <4> HIDE DEF T, Comes, m
      <4>1. ReadsOff(a, i, c, r)
        BY <1>2, <3>2, <3>3, ReadWritten
      <4> QED
        BY <4>1 DEF ReadsOff, m
    <3>5. m \in 0 .. Len(a) /\ i \in 0 .. Len(a) - 1
      BY <1>2, <3>4, AheadIs
    <3>6. f[i] = <<c>> \o f[m]
      BY <1>3, <3>4, <3>5 DEF ReadsAs
    <3>7. v[i] <=> v[m]
      BY <1>4, <3>4, <3>5, Zenon DEF Validates
    <3> HIDE DEF m
    <3>8. v[m] /\ f[m] = From(u, k + 1)
      BY <1>5, <3>1, <3>4, <3>5 DEF r
    <3>9. From(u, k) = <<c>> \o From(u, k + 1)
      BY <3>1, FromOne DEF FromNext, c
    <3> QED
      BY <3>6, <3>7, <3>8, <3>9
  <2> QED
    BY <2>1, <2>2
<1> HIDE DEF T, Comes
<1>6. \A k \in 0 .. Len(u) : k \in T
  BY <1>1, <1>5, Downwards
<1>7. From(a, 0) = a /\ From(u, 0) = u
  BY <1>2, SubSeqFull DEF From
<1>8. v[0] /\ f[0] = u
  <2>1. 0 \in 0 .. Len(a) /\ From(a, 0) = WrittenFrom(u, 0)
    BY <1>2, <1>7 DEF a
  <2>2. Comes(0, 0)
    BY <1>1, <1>6, <2>1 DEF T
  <2> QED
    BY <1>7, <2>2 DEF Comes
<1>9. test_utf(a) /\ u_str(a) = u
  <2>1. NonZero(u) = u
    BY NonZeroIs
  <2> QED
    BY <1>3, <1>4, <1>8, <2>1
<1> QED
  BY <1>9 DEF a

LEMMA TextKept ==
  ASSUME Given \in Seq(Octets)
  PROVE  UnicodeKept
<1> DEFINE s == Given
           u == u_str(s)
           again == u_cut(s, 0, None)
<1>1. s \in Seq(Octets)
  OBVIOUS
<1> HIDE DEF s
<1>2. u \in Seq(Points) /\ 0 \notin ToSet(u) /\ Len(u) \in Nat /\ 0 \in 0 .. Len(u)
  <2>1. PICK f : ReadsAs(f, s) /\ u = NonZero(f[0])
    BY <1>1, u_strReads
  <2>2. f[0] \in Seq(Points)
    <3>1. 0 \in 0 .. Len(s)
      BY <1>1, LenProperties
    <3> QED
      BY <2>1, <3>1 DEF ReadsAs
  <2>3. u \in Seq(Points) /\ 0 \notin ToSet(u)
    BY <2>1, <2>2, NonZeroIs
  <2> HIDE DEF u
  <2> QED
    BY <2>3, LenProperties
<1>3. again = WrittenFrom(u, 0)
  BY <1>2, u_cutIs
<1>4. test_utf(again) /\ u_str(again) = u
  BY <1>2, <1>3, ReadsBack
<1>5. Survives(again)
  <2> HIDE DEF again
  <2>1. u_str(again) \in Seq(Points) /\ 0 \in 0 .. Len(u_str(again))
    BY <1>2, <1>4
  <2>2. u_cut(again, 0, None) = WrittenFrom(u_str(again), 0)
    BY <2>1, u_cutIs
  <2> QED
    BY <1>3, <1>4, <2>2 DEF Survives
<1>6. ASSUME NEW k \in 0 .. u_length(s) PROVE u_cut(s, 0, k) \o u_cut(s, k, None) = again
  <2>1. k \in 0 .. Len(u)
    BY DEF u_length
  <2>2. u_cut(s, 0, k) = WrittenTo(u, k) /\ u_cut(s, k, None) = WrittenFrom(u, k)
    BY <1>2, <2>1, u_cutIs
  <2> HIDE DEF u, again
  <2> QED
    BY <1>2, <1>3, <2>1, <2>2, CutInTwo
<1>7. test_utf(s) /\ 0 \notin ToSet(s) /\ (\A i \in 0 .. Len(s) - 1 : ~Longer(s, i)) => Survives(s)
  BY <1>1, TakenSurvives
<1> HIDE DEF u, again
<1> QED
  BY <1>4, <1>5, <1>6, <1>7 DEF UnicodeKept, u, again, s

\* What has been given are bytes.
GivenBytes == input \in Seq(Seq(Octets))

LEMMA PiecesRead == Reading => []GivenBytes
<1>1. UNION Alphabets \subseteq Seq(Octets)
  BY PiecesAssumption DEF Octets
<1>2. input = <<>> => GivenBytes
  BY DEF GivenBytes
<1>3. GivenBytes /\ [Receive]_input => GivenBytes'
  <2> SUFFICES ASSUME GivenBytes, [Receive]_input PROVE GivenBytes'
    OBVIOUS
  <2>1. ASSUME NEW piece \in UNION Alphabets, Give(piece) PROVE GivenBytes'
    <3>1. piece \in Seq(Octets) /\ input' = Append(input, piece)
      BY <1>1, <2>1 DEF Give
    <3> QED
      BY <3>1, AppendProperties DEF GivenBytes
  <2>2. ASSUME input' = input PROVE GivenBytes'
    BY <2>2 DEF GivenBytes
  <2> QED
    BY <2>1, <2>2 DEF Receive
<1> QED
  BY <1>2, <1>3, PTL DEF Reading

\* Whatever pieces of bytes a program puts together: text that test_utf takes and
\* that has no character longer than need be comes back from its code points, in
\* one piece or in two, and what the code points of any other text, broken or cut
\* off, are written as is such text.
THEOREM UnicodeThm == Reading => []UnicodeKept
<1>1. GivenBytes => UnicodeKept
  <2>1. ASSUME GivenBytes PROVE Given \in Seq(Octets)
    BY <2>1, FlattenType DEF Given, GivenBytes
  <2> QED
    BY <2>1, TextKept
<1> QED
  BY <1>1, PiecesRead, PTL
==============================================================================
