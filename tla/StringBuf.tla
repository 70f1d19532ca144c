------------------------------ MODULE StringBuf ------------------------------
(***************************************************************************)
(* bwct::String (mstring.h, mstring.cc): a text, its length and the buffer *)
(* it is in, which is the object itself up to directsize and on the heap   *)
(* beyond.  Module Text says what the members that search and split do.    *)
(*                                                                         *)
(* text is what stands before the first zero and room the memory behind    *)
(* get_data(), 0 when that is NULL; nothing behind the zero is looked at.  *)
(* Constructors are the assignments they share their body with.            *)
(*                                                                         *)
(* The caller writes no zero into a text, nor anything over the one that   *)
(* ends it, hands no member a pointer into the string's own buffer, joins, *)
(* adds up and replaces no string by means of itself, replaces no empty    *)
(* text, and does not compare, search or split a string that a constructor *)
(* has moved from.  Numbers, addresses and JSON strings come in as the     *)
(* texts they are printed as.                                              *)
(***************************************************************************)
EXTENDS Text

CONSTANTS
  Strings,     \* the objects
  Chars,
  Literals,    \* the texts a program assigns and appends
  Bytes,       \* what it reads from files and memory, zeros included
  directsize,  \* the size of a pointer
  Small,       \* 8 in the code
  Large,       \* 1024 in the code
  NumberRoom,  \* 4 to 1024 in the code: the buffer for a number
  SizeMax,     \* the largest size_t
  MaxLen       \* bound: the longest text

ASSUME SizeAssumption ==
  /\ directsize \in Nat \ {0} /\ Small \in Nat \ {0} /\ Large \in Nat \ {0}
  /\ NumberRoom \in Nat /\ SizeMax \in Nat /\ MaxLen \in Nat /\ MaxLen < SizeMax
ASSUME CharsAssumption == Chars \subseteq Int \ {0}
ASSUME TextsAssumption == Literals \subseteq Seq(Chars) /\ Bytes \subseteq Seq(Chars \cup {0})

VARIABLE str

vars == str

\* bufsize and rebufsize round up alike.
NewSize(len) ==
  LET sizes == {Small * 2 ^ k : k \in 0 .. len}
  IN  IF len >= Large THEN ((len + Large) \div Large) * Large
      ELSE 2 * (CHOOSE n \in sizes : n >= len /\ \A m \in sizes : m >= len => n <= m)

\* free_data, and the string without an argument
Empty == [text |-> <<>>, ln |-> 0, buflen |-> directsize, room |-> directsize]

bufsize(len) ==
  IF len <= directsize THEN Empty
  ELSE [Empty EXCEPT !.buflen = NewSize(len), !.room = NewSize(len)]

rebufsize(r, len) ==
  IF len <= r.buflen THEN r
  ELSE [r EXCEPT !.buflen = NewSize(len), !.room = NewSize(len)]

\* strcpy(get_data() + at, t)
strcpy(r, at, t) == [r EXCEPT !.text = SubSeq(@, 1, at) \o t]
Put(r, t) == [strcpy(r, 0, t) EXCEPT !.ln = Len(t)]

\* A string without memory, or with memory nobody has written: what became of
\* one that was used through NULL.
Dead == [Empty EXCEPT !.room = 0]

\* t written behind the text in r, and n counted; a zero is written even if t is
\* empty.
Added(r, t, n) == IF r.room = 0 THEN Dead ELSE [strcpy(r, r.ln, t) EXCEPT !.ln = @ + n]

\* Mutant: no room for the zero.
AppendedTight(r, t) == Added(rebufsize(r, r.ln + Len(t)), t, Len(t))

Appended(r, t) == Added(rebufsize(r, r.ln + Len(t) + 1), t, Len(t))

\* The text before the first zero of some bytes.
UpToZero(d) == SubSeq(d, 1, CHOOSE n \in 0 .. Len(d) :
  (\A i \in 1 .. n : d[i] # 0) /\ (n = Len(d) \/ d[n + 1] = 0))

Init == str = [x \in Strings |-> Empty]

Set(x, r) == Len(r.text) <= MaxLen + 1 /\ str' = [str EXCEPT ![x] = r]

\* What std::move left: buflen says heap, data is NULL.
MovedFrom(r) == [Empty EXCEPT !.buflen = r.buflen, !.room = IF r.buflen <= directsize THEN directsize ELSE 0]
Moved(x) == str[x] = [Empty EXCEPT !.buflen = str[x].buflen, !.room = 0] /\ str[x].buflen > directsize

FromText(t) == Put(bufsize(Len(t) + 1), t)

\* All bytes count, zeros as well.
FromBytes(d) == [strcpy(bufsize(Len(d) + 1), 0, UpToZero(d)) EXCEPT !.ln = Len(d)]

\* A number gets a buffer of a size that depends on its type only, and which all
\* numbers of the type fit into.
Numbers == {t \in Literals : t # <<>> /\ Len(t) < NumberRoom}
FromNumber(t) == Put(bufsize(NumberRoom), t)

-----------------------------------------------------------------------------
(* Assignment                                                               *)

clear(x) == Set(x, Empty)

AssignText(x, t) == Set(x, FromText(t))
AssignNumber(x, t) == Set(x, FromNumber(t))

AssignFile(x, d) == Set(x, FromBytes(d))

\* operator=(const std::string&)
AssignString(x, d) == Set(x, FromBytes(d))

\* operator=(const String&).  Assigned to itself a string ends empty.
CopyAssign(x, y) ==
  Set(x, IF x = y \/ str[y].ln = 0 THEN Empty ELSE FromText(str[y].text))

\* The constructor does not ask for the length first.
Copied(y) == IF Moved(y) THEN Dead ELSE FromText(str[y].text)
CopyConstruct(x, y) == x # y /\ Set(x, Copied(y))

\* buflen stays where the buffer was.
MoveConstruct(x, y) ==
  /\ x # y
  /\ str' = [str EXCEPT ![x] = str[y], ![y] = MovedFrom(str[y])]

\* A short text is copied and stays, a long one is exchanged.
MoveAssign(x, y) ==
  IF str[y].ln <= directsize THEN CopyAssign(x, y)
  ELSE str' = [str EXCEPT ![x] = str[y], ![y] = str[x]]

MovedIn(r, tmp) == IF tmp.ln = 0 THEN Empty
                   ELSE IF tmp.ln <= directsize THEN FromText(tmp.text)
                   ELSE tmp

\* join(texts, bind); operator= of an array is join with nothing between.
AssignJoined(x, texts, bind) ==
  Set(x, IF texts = <<>> THEN Empty
         ELSE Put(bufsize(Len(FlattenSeq(texts)) + Len(bind) * (Len(texts) - 1) + 1), join(texts, bind)))

\* printf: a buffer of exactly the length vasprintf found.
Printf(x, t) ==
  Set(x, IF Len(t) + 1 <= directsize THEN Put(Empty, t)
         ELSE Put([Empty EXCEPT !.buflen = Len(t) + 1, !.room = Len(t) + 1], t))

-----------------------------------------------------------------------------
(* Change                                                                   *)

push_back(x, c) == Set(x, Appended(str[x], <<c>>))

\* ln is not increased.
push_front(x, c) == Set(x, [rebufsize(str[x], str[x].ln + 2) EXCEPT !.text = <<c>> \o @])

Decreased(n) == (n + SizeMax) % (SizeMax + 1)

pop_front(x) ==
  Set(x, [str[x] EXCEPT !.text = IF str[x].ln = 0 THEN @ ELSE Tail(@), !.ln = Decreased(@)])

\* The zero is written over the zero.
pop_back(x) == Set(x, [str[x] EXCEPT !.text = SubSeq(@, 1, str[x].ln), !.ln = Decreased(@)])

\* A string copied behind itself writes over the zero that ends the copy.
Overrun(x) ==
  LET r == rebufsize(str[x], str[x].ln + str[x].ln + 1)
  IN  str' = [str EXCEPT ![x] = [r EXCEPT !.text = [i \in 1 .. r.room |-> @[1 + ((i - 1) % r.ln)]]]]

AppendString(x, y) ==
  IF str[y].ln = 0 THEN UNCHANGED str
  ELSE IF x = y THEN Overrun(x)
  ELSE Set(x, Appended(str[x], str[y].text))

\* A const char*
AppendText(x, t) == Set(x, Appended(str[x], t))

\* operator+=(String&&): an empty string takes the buffer.
Taking(r) == r.ln = 0 /\ r.buflen = directsize
AppendMoved(x, y) ==
  IF str[y].ln = 0 THEN UNCHANGED str
  ELSE IF Taking(str[x]) THEN str' = [str EXCEPT ![x] = str[y], ![y] = str[x]]
  ELSE IF x = y THEN Overrun(x)
  ELSE Set(x, Appended(str[x], str[y].text))

\* A number, a boolean, an array: a temporary string is moved in.
AppendTemporary(x, r) == r.ln > 0 /\ Set(x, IF Taking(str[x]) THEN r ELSE Appended(str[x], r.text))

\* operator+
Plus(x, y, z) ==
  /\ x # y /\ x # z
  /\ Set(x, IF Moved(y) THEN Dead
            ELSE IF str[z].ln = 0 THEN Copied(y) ELSE Appended(Copied(y), str[z].text))

\* Only the first byte is looked at for a zero.
add_memory(x, d) ==
  /\ d # <<>>
  /\ Set(x, IF d[1] = 0 THEN Appended(str[x], <<>>)
            ELSE Added(rebufsize(str[x], str[x].ln + Len(d) + 1), UpToZero(d), Len(d)))

\* Room without a text: for a string that was moved from it is new memory.
set_size(x, n) ==
  Set(x, IF Moved(x) /\ n + 1 > str[x].buflen THEN Dead ELSE rebufsize(str[x], n + 1))

resize(x, n) ==
  /\ n < str[x].ln
  /\ Set(x, [str[x] EXCEPT !.text = SubSeq(@, 1, n), !.ln = n])

\* Through operator[] and at; lower and upper are several of them.
Overwrite(x, i, c) ==
  /\ i < str[x].ln
  /\ Set(x, [str[x] EXCEPT !.text[i + 1] = c])

\* A temporary made of pieces that are appended one by one, then moved in.
Built(pieces) ==
  LET built[i \in 0 .. Len(pieces)] ==
        IF i = 0 THEN Empty
        ELSE IF pieces[i] = <<>> THEN built[i - 1] ELSE Appended(built[i - 1], pieces[i])
  IN  built[Len(pieces)]
MoveIn(x, pieces) == Set(x, MovedIn(str[x], Built(pieces)))

Replace(x, y, by) ==
  /\ x # y /\ ~Moved(y) /\ str[y].ln > 0
  /\ IF Moved(x) THEN Set(x, Dead)
     ELSE /\ contains(str[x].text, str[y].text)
          /\ \/ MoveIn(x, ReplacePieces(str[x].text, str[y].text, by))
             \/ MoveIn(x, ReplaceFirstPieces(str[x].text, str[y].text, by))

reverse(x) == MoveIn(x, [i \in 1 .. str[x].ln |-> <<str[x].text[str[x].ln + 1 - i]>>])

-----------------------------------------------------------------------------
(* Next                                                                     *)

\* The length is that of the text, and the text with its zero is in the buffer.
Sound(x) == LET r == str[x] IN
  /\ r.ln = Len(r.text)
  /\ Len(r.text) < r.room
  /\ r.room = IF r.buflen <= directsize THEN directsize ELSE r.buflen
Usable(x) == Sound(x) \/ Moved(x)
AllUsable == \A x \in Strings : Usable(x)

\* Bound: a program is followed as far as the first string that is not usable.
Unsound ==
  /\ ~AllUsable
  /\ UNCHANGED vars

Change == \E x \in Strings :
  \/ clear(x) \/ pop_front(x) \/ pop_back(x) \/ reverse(x)
  \/ \E t \in Literals : AssignText(x, t) \/ Printf(x, t) \/ AppendText(x, t) \/ AppendTemporary(x, FromText(t))
  \/ \E t \in Numbers : AssignNumber(x, t) \/ AppendTemporary(x, FromNumber(t))
  \/ \E d \in Bytes : AssignFile(x, d) \/ AssignString(x, d) \/ add_memory(x, d)
  \/ \E c \in Chars : push_back(x, c) \/ push_front(x, c) \/ \E i \in 0 .. MaxLen - 1 : Overwrite(x, i, c)
  \/ \E n \in 0 .. MaxLen - 1 : resize(x, n)
  \/ \E n \in 0 .. 2 * MaxLen : set_size(x, n)
  \/ \E y \in Strings :
       \/ CopyAssign(x, y) \/ CopyConstruct(x, y) \/ MoveConstruct(x, y) \/ MoveAssign(x, y)
       \/ AppendString(x, y) \/ AppendMoved(x, y)
       \/ \E z \in Strings : Plus(x, y, z)
       \/ \E t \in Literals : Replace(x, y, t)
  \/ \E t, u, bind \in Literals : AssignJoined(x, <<t, u>>, bind)

Next == (AllUsable /\ Change) \/ Unsound

Spec == Init /\ [][Next]_vars

-----------------------------------------------------------------------------
(* Properties                                                               *)

\* Every string keeps its length and its buffer right, and a string that was
\* moved from can be assigned to (mstring.cc 95-118), but for the members named
\* here: push_front leaves ln (594), pop_back cuts behind the last character
\* (611), pop_front of an empty string wraps round (607), bytes with a zero
\* inside count as text (312, 514, 764), a string appended to itself, by copy or
\* by move, never ends (783, 801), and one that a constructor moved from says it
\* has a buffer it has not (165), so that adding to it, even an empty text (773,
\* 825), making room in it (91) or copying it goes through NULL.
Breaks == \E x \in Strings :
  \/ \E c \in Chars : push_front(x, c)
  \/ pop_back(x)
  \/ str[x].ln = 0 /\ pop_front(x)
  \/ \E d \in Bytes : 0 \in ToSet(d) /\ (AssignFile(x, d) \/ AssignString(x, d))
  \/ \E d \in Bytes : 0 \in ToSet(d) /\ d[1] # 0 /\ add_memory(x, d)
  \/ AppendString(x, x) \/ AppendMoved(x, x)
  \/ Moved(x) /\ (~Usable(x)' \/ \E z \in Strings : str'[z] = Dead)
SoundKept == [][AllUsable => AllUsable' \/ Breaks]_vars

Texts == {str[x].text : x \in Strings}

\* Splitting loses nothing: the pieces joined by what they were split at are
\* the text again (mstring.cc 1143-1221), none of them holds it any more, and
\* replace (1326-1349) is to join them by something else.
SplitsJoin == AllUsable => \A s, t \in Texts : t # <<>> =>
  LET pieces == strsplit(s, t) IN
  /\ pieces # <<>> /\ join(pieces, t) = s /\ strncmp(s, 0, pieces[1])
  /\ \A i \in DOMAIN pieces : ~contains(pieces[i], t)
  /\ \A by \in Literals : replace(s, t, by) = join(pieces, by)
  /\ (Len(t) = 1 => split(s, ToSet(t), 0) = pieces)
  /\ \A n \in 1 .. Len(s) : LET firsts == split(s, ToSet(t), n) IN
       Len(firsts) <= n /\ (Len(t) = 1 => join(firsts, t) = s)

\* The characters of s at the positions I, in order.
Picked(s, I) ==
  LET rest[i \in 0 .. Len(s)] ==
        IF i = Len(s) THEN <<>>
        ELSE IF i + 1 \in I THEN <<s[i + 1]>> \o rest[i + 1] ELSE rest[i + 1]
  IN  rest[0]

\* The whole run at each end goes, and nothing else (mstring.cc 1232-1306).
Trims(s, c) ==
  LET core == trim(s, c) IN
  /\ core = <<>> \/ (core[1] # c /\ core[Len(core)] # c)
  /\ \E i, k \in 0 .. Len(s) : /\ \A n \in DOMAIN s : n <= i \/ n > k => s[n] = c
                               /\ core = SubSeq(s, i + 1, k)
  /\ core = trimend(trimstart(s, c), c)

\* One field more than separators outside of quotes, and in them all other
\* characters in order, but the quotes (1072-1099).
CSVExact(s, c, d) ==
  LET fields == CSVsplit(s, c, d)
      ends == {i \in DOMAIN s : s[i] = d /\ Cardinality({k \in 1 .. i : s[k] = c}) % 2 = 0}
  IN  /\ Len(fields) = Cardinality(ends) + 1
      /\ FlattenSeq(fields) = Picked(s, {i \in DOMAIN s : s[i] # c} \ ends)

\* All characters but the ends of lines, and none of those (1101-1141).
LinesSplit(s, c, d) ==
  LET lines == linesplit(s, c, d) IN
  /\ FlattenSeq(lines) = Picked(s, {i \in DOMAIN s : s[i] \notin {c, d}})
  /\ \A i \in DOMAIN lines : ToSet(lines[i]) \cap {c, d} = {}

\* trim, CSVsplit and linesplit take from a text what they are to take and keep
\* everything else.
FieldsExact == AllUsable => \A s \in Texts : \A c, d \in Chars : c # d =>
  Trims(s, c) /\ CSVExact(s, c, d) /\ LinesSplit(s, c, d)

\* operator< (518-530) orders all strings, so that sort and a tree of them can
\* rely on it; equal are those operator== takes for equal.
Ordered == AllUsable => \A s, t \in Texts :
  /\ Less(s, t) <=> Greater(t, s)
  /\ Equal(s, t) <=> ~Less(s, t) /\ ~Less(t, s)
  /\ \A u \in Literals : Less(s, t) /\ Less(t, u) => Less(s, u)
=============================================================================
