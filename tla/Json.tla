--------------------------------- MODULE Json --------------------------------
(***************************************************************************)
(* bwct::JSON (json.h, json.cc, with std::variant): the tree, the parser   *)
(* that builds it in place, the generator and create_table.                *)
(*                                                                         *)
(* Texts are sequences of the character codes the code compares with.  The *)
(* members of an object come in one order, though the table they are in    *)
(* has its own; a number is the text it was read from.                     *)
(*                                                                         *)
(* The caller does not assign a part of an array or object to the whole    *)
(* when both are arrays or both objects: the assignment would clear what   *)
(* it reads (array.h 552, aarray.h 326).                                   *)
(***************************************************************************)
EXTENDS Unicode

CONSTANTS
  Documents,   \* texts that are parsed into a tree that exists
  Scalars,     \* what is assigned to a part of a tree
  Keys,        \* what a program looks up
  MaxItems     \* bound: the longest array a program makes

VARIABLE doc   \* the tree

vars == <<input, doc>>

Quote == 34
Backslash == 92
Comma == 44
Colon == 58
Dot == 46
Tab == 9
Newline == 10
Blank == {9, 10, 13, 32}
Digits == 48 .. 57
Sign == {43, 45}
Exponent == {69, 101}
true == <<116, 114, 117, 101>>
false == <<102, 97, 108, 115, 101>>
null == <<110, 117, 108, 108>>

\* What follows a backslash, and what it stands for.
Escapes == <<<<92, 92>>, <<34, 34>>, <<47, 47>>, <<98, 8>>, <<102, 12>>, <<110, 10>>, <<114, 13>>, <<116, 9>>>>

HexDigits == Digits \cup 97 .. 102 \cup 65 .. 70
HexValue(c) == IF c \in Digits THEN c - 48 ELSE IF c >= 97 THEN c - 87 ELSE c - 55

Null == [type |-> "null"]
Bool(b) == [type |-> "boolean", state |-> b]
Str(t) == [type |-> "string", text |-> t]
Num(t) == [type |-> "number", digits |-> t]
Arr(s) == [type |-> "array", items |-> s]
Obj(f) == [type |-> "object", members |-> f]

-----------------------------------------------------------------------------
(* Parsing.  A result has the tree as far as it was built, since the parser *)
(* fills the object it is called on, how it ended and where.                *)

Result(out, v, at) == [out |-> out, v |-> v, at |-> at]

parsewhitespace(s, p) == CHOOSE q \in p .. p + Len(s) :
  At(s, q) \notin Blank /\ \A k \in p .. q - 1 : At(s, k) \in Blank

\* From behind the quote.  The zero at the end of the text is not looked for.
parsestring(s, p) ==
  LET Then(c, r) == [r EXCEPT !.v = c \o @]
      Hex(q) == FoldLeft(LAMBDA h, k : 16 * h + HexValue(At(s, q + k)), 0, <<0, 1, 2, 3>>)
      rest[q \in p .. Len(s) + 6] ==
        LET c == At(s, q)
            meant == {n \in DOMAIN Escapes : Escapes[n][1] = At(s, q + 1)}
        IN  IF q >= Len(s) THEN Result("beyond", <<>>, q)
            ELSE IF c = Quote THEN Result("done", <<>>, q + 1)
            ELSE IF c # Backslash THEN Then(<<c>>, rest[q + 1])
            ELSE IF meant # {} THEN Then(<<Escapes[CHOOSE n \in meant : TRUE][2]>>, rest[q + 2])
            ELSE IF At(s, q + 1) = 117 /\ \A k \in 2 .. 5 : At(s, q + k) \in HexDigits
                 THEN Then(Encoded(Hex(q + 2)), rest[q + 6])
            ELSE Result("thrown", <<>>, q)
  IN  rest[p]

\* strtod takes the whole of it, or it is empty.
Float(t) ==
  LET Unsigned(d) == IF d # <<>> /\ d[1] \in Sign THEN Tail(d) ELSE d
      Natural(d) == d # <<>> /\ ToSet(d) \subseteq Digits
      Decimal(d) == Natural(SelectSeq(d, LAMBDA c : c # Dot)) /\ Cardinality({k \in DOMAIN d : d[k] = Dot}) <= 1
      u == Unsigned(t)
  IN  \/ t = <<>> \/ Decimal(u)
      \/ \E k \in DOMAIN u : /\ u[k] \in Exponent
                             /\ Decimal(SubSeq(u, 1, k - 1)) /\ Natural(Unsigned(From(u, k)))

\* Mutant: a number with zeros before it is let through.
NumberLoose(t) == Float(t) /\ (t # <<>> => t[1] # Dot)

\* What is refused while the characters are collected, and by strtod.
Number(t) ==
  /\ Float(t)
  /\ t # <<>> => t[1] # Dot
  /\ \A k \in 1 .. 2 : k < Len(t) /\ t[k] = 48 /\ (k = 2 => t[1] \in Sign)
       => t[k + 1] \in {Dot} \cup Exponent

NumberEnd(s, p) == CHOOSE q \in p .. Len(s) :
  LET In(k) == At(s, k) \in Digits \cup Sign \cup Exponent \cup {Dot}
  IN  ~In(q) /\ \A k \in p .. q - 1 : In(k)

RECURSIVE iparse(_, _, _), Items(_, _, _), Members(_, _, _)

\* old is what the node held: a text or number that fails leaves it.
iparse(s, from, old) ==
  LET p == parsewhitespace(s, from)
      Done(v, at) == Result("done", v, parsewhitespace(s, at))
      Spaced(r) == IF r.out = "done" THEN Done(r.v, r.at) ELSE r
      text == parsestring(s, p + 1)
      inside == parsewhitespace(s, p + 1)
      number == SubSeq(s, p + 1, NumberEnd(s, p))
  IN  CASE Matches(s, p, <<Quote>>) -> IF text.out = "done" THEN Done(Str(text.v), text.at) ELSE [text EXCEPT !.v = old]
        [] Matches(s, p, <<91>>) -> IF At(s, inside) = 93 THEN Done(Arr(<<>>), inside + 1) ELSE Spaced(Items(s, inside, <<>>))
        [] Matches(s, p, <<123>>) -> IF At(s, inside) = 125 THEN Done(Obj(<<>>), inside + 1) ELSE Spaced(Members(s, inside, <<>>))
        [] Matches(s, p, true) -> Done(Bool(TRUE), p + 4)
        [] Matches(s, p, false) -> Done(Bool(FALSE), p + 5)
        [] Matches(s, p, null) -> Done(Null, p + 4)
        [] OTHER -> IF Number(number) THEN Done(Num(number), p + Len(number)) ELSE Result("thrown", old, p)

Items(s, p, sofar) ==
  LET r == iparse(s, p, Null)
      items == Append(sofar, r.v)
  IN  IF r.out # "done" THEN [r EXCEPT !.v = Arr(items)]
      ELSE IF At(s, r.at) = Comma THEN Items(s, parsewhitespace(s, r.at + 1), items)
      ELSE Result(IF At(s, r.at) = 93 THEN "done" ELSE "thrown", Arr(items), r.at + 1)

Members(s, p, sofar) ==
  LET key == parsestring(s, p + 1)
      q == parsewhitespace(s, key.at)
      r == iparse(s, parsewhitespace(s, q + 1), IF key.v \in DOMAIN sofar THEN sofar[key.v] ELSE Null)
      members == (key.v :> r.v) @@ sofar
  IN  IF At(s, p) # Quote THEN Result("thrown", Obj(sofar), p)
      ELSE IF key.out # "done" THEN [key EXCEPT !.v = Obj(sofar)]
      ELSE IF At(s, q) # Colon THEN Result("thrown", Obj(sofar), q)
      ELSE IF r.out # "done" THEN [r EXCEPT !.v = Obj(members)]
      ELSE IF At(s, r.at) = Comma THEN Members(s, parsewhitespace(s, r.at + 1), members)
      ELSE Result(IF At(s, r.at) = 125 THEN "done" ELSE "thrown", Obj(members), r.at + 1)

parse(s, old) ==
  LET r == iparse(s, 0, old) IN IF r.out = "done" /\ r.at # Len(s) THEN [r EXCEPT !.out = "thrown"] ELSE r

-----------------------------------------------------------------------------
(* Generating                                                               *)

\* Mutant: a backslash is written as it is.
ESCPlain(t) == FlattenSeq([k \in DOMAIN t |-> IF t[k] = Quote THEN <<Backslash, Quote>> ELSE <<t[k]>>])

ESC(t) ==
  LET Hex(n) == IF n > 9 THEN 97 + n - 10 ELSE 48 + n
      One(c) == LET short == {n \in DOMAIN Escapes : Escapes[n][2] = c}
                IN  IF short # {} THEN <<Backslash, Escapes[CHOOSE n \in short : TRUE][1]>>
                    ELSE IF c < 32 THEN <<Backslash, 117, 48, 48, Hex(c \div 16), Hex(c % 16)>>
                    ELSE <<c>>
  IN  FlattenSeq([k \in DOMAIN t |-> One(t[k])])

Quoted(t) == <<Quote>> \o t \o <<Quote>>

RECURSIVE int_generate(_, _, _)

\* The loop that indents starts at whatever i held: tabs is how often it runs.
int_generate(v, formated, tabs) ==
  LET indent == [k \in 1 .. tabs |-> Tab]
      List(open, close, texts) ==
        IF formated
        THEN <<open, Newline>> \o join([k \in DOMAIN texts |-> indent \o <<Tab>> \o texts[k]], <<Comma, Newline>>)
             \o (IF texts = <<>> THEN <<>> ELSE <<Newline>>) \o indent \o <<close>>
        ELSE <<open>> \o join(texts, <<Comma>>) \o <<close>>
      Member(k) == Quoted(ESC(k)) \o (IF formated THEN <<32, Colon, 32>> ELSE <<Colon>>)
                   \o int_generate(v.members[k], formated, tabs)
      keys == SetToSortSeq(DOMAIN v.members, Less)
  IN  CASE v.type = "null" -> null
        [] v.type = "boolean" -> IF v.state THEN true ELSE false
        [] v.type = "string" -> Quoted(ESC(v.text))
        [] v.type = "number" -> v.digits
        [] v.type = "array" -> List(91, 93, [k \in DOMAIN v.items |-> int_generate(v.items[k], formated, tabs)])
        [] v.type = "object" -> List(123, 125, [k \in DOMAIN keys |-> Member(keys[k])])

generate(v, formated, tabs) == int_generate(v, formated, tabs) \o (IF formated THEN <<Newline>> ELSE <<>>)

\* Mutant: the path to the parent is forgotten.
StepAlone(path, t) == <<91>> \o t \o <<93>>

Step(path, t) == path \o <<91>> \o t \o <<93>>

RECURSIVE create_table(_, _)

\* The entries in the order they are made.  The index is written in decimal.
create_table(v, path) ==
  LET keys == SetToSortSeq(DOMAIN v.members, Less)
  IN  CASE v.type = "array" -> FlattenSeq([k \in DOMAIN v.items |-> create_table(v.items[k], Step(path, <<47 + k>>))])
        [] v.type = "object" -> FlattenSeq([k \in DOMAIN keys |-> create_table(v.members[keys[k]], Step(path, Quoted(keys[k])))])
        [] OTHER -> <<<<path, v>>>>

-----------------------------------------------------------------------------
(* A program that reads texts, or changes a tree                            *)

Init == input = <<>> /\ doc = Null

Type(piece) == doc = Null /\ Give(piece) /\ UNCHANGED doc

Change(v) ==
  /\ input = <<>>
  /\ doc' = v
  /\ UNCHANGED input

Parse(t) == Change(parse(t, doc).v)

\* operator= and set_null
Assign(v) == Change(v)

\* The node operator[] finds, null if it had to be made, and doc with v there.
Put(key, v) == Obj((key :> v) @@ doc.members)
PutAt(k, v) == Arr([n \in 1 .. (IF k > Len(doc.items) THEN k ELSE Len(doc.items)) |->
                 IF n = k THEN v ELSE IF n <= Len(doc.items) THEN doc.items[n] ELSE Null])

AssignMember(key, v) == doc.type = "object" /\ Change(Put(key, v))
AssignItem(k, v) == doc.type = "array" /\ Change(PutAt(k, v))

\* Through operator[], what is not there comes to be.
Look(key) == doc.type = "object" /\ key \notin DOMAIN doc.members /\ AssignMember(key, Null)
LookAt(k) == doc.type = "array" /\ k > Len(doc.items) /\ AssignItem(k, Null)

\* What a node becomes that is assigned a part v of itself (variant): a text,
\* number, array or object is copied before the node lets go of what it holds, a
\* bool is read afterwards, from what was freed with it.
Risen(v) == IF v.type = "boolean" THEN {Bool(b) : b \in BOOLEAN} ELSE {v}

\* j = j[key] and j = j[k]
Rise(key) ==
  /\ doc.type = "object" /\ key \in DOMAIN doc.members /\ doc.members[key].type # "object"
  /\ \E v \in Risen(doc.members[key]) : Change(v)
RiseFrom(k) ==
  /\ doc.type = "array" /\ k <= Len(doc.items) /\ doc.items[k].type # "array"
  /\ \E v \in Risen(doc.items[k]) : Change(v)

Next ==
  \/ \E piece \in UNION Alphabets : Type(piece)
  \/ \E t \in Documents : Parse(t)
  \/ \E v \in Scalars : Assign(v) \/ (\E key \in Keys : AssignMember(key, v)) \/ \E k \in 1 .. MaxItems : AssignItem(k, v)
  \/ \E key \in Keys : Look(key) \/ Rise(key)
  \/ \E k \in 1 .. MaxItems : LookAt(k) \/ RiseFrom(k)

Spec == Init /\ [][Next]_vars

-----------------------------------------------------------------------------
(* Properties                                                               *)

\* The trees to look at: the one that was built and what the text leaves.
Trees == {doc, parse(Given, Null).v}

RECURSIVE Nodes(_)
Nodes(v) == {v} \cup UNION CASE v.type = "array" -> {Nodes(v.items[k]) : k \in DOMAIN v.items}
                             [] v.type = "object" -> {Nodes(v.members[k]) : k \in DOMAIN v.members}
                             [] OTHER -> {}

\* What generate writes (json.cc 570-689), with any indentation its
\* uninitialised counter (587) gives, parse reads as the same tree, be it one
\* that a failed parse left half built; but an array of one number without
\* digits, which parse makes of "[x" (289), is written as an empty one.
RoundTrip == \A v \in Trees :
  (\A w \in Nodes(v) : w # Arr(<<Num(<<>>)>>)) =>
    \A tabs \in 0 .. 2 : \A formated \in BOOLEAN :
      LET r == parse(generate(v, formated, tabs), Null) IN r.out = "done" /\ r.v = v

\* Paths tell the leaves of a tree apart (458-494), except where a key has a
\* quote in it, which is not escaped in a path (479).
TableExact == \A v \in Trees :
  (\A w \in Nodes(v) : w.type = "object" => \A key \in DOMAIN w.members : Quote \notin ToSet(key)) =>
    LET table == create_table(v, <<>>)
    IN  \A i, k \in DOMAIN table : table[i][1] = table[k][1] => i = k

-----------------------------------------------------------------------------
(* The language, from the outside in: brackets, then commas, then parts     *)

Strip(t) == LET Edge(k) == t[k] \notin Blank
                inner == {k \in DOMAIN t : \E i \in 1 .. k, l \in k .. Len(t) : Edge(i) /\ Edge(l)}
            IN  IF inner = {} THEN <<>>
                ELSE SubSeq(t, CHOOSE i \in inner : \A k \in inner : i <= k, CHOOSE l \in inner : \A k \in inner : k <= l)

RECURSIVE Plain(_)
Plain(t) ==
  \/ t = <<>>
  \/ t[1] \notin {Quote, Backslash} /\ Plain(Tail(t))
  \/ Len(t) > 1 /\ t[1] = Backslash /\ t[2] \in {34, 47, 92, 98, 102, 110, 114, 116} /\ Plain(From(t, 2))
  \/ /\ Len(t) > 5 /\ t[1] = Backslash /\ t[2] = 117
     /\ \A k \in 3 .. 6 : t[k] \in HexDigits
     /\ Plain(From(t, 6))

Inside(t) == SubSeq(t, 2, Len(t) - 1)
Between(t, open, close) == Len(t) > 1 /\ t[1] = open /\ t[Len(t)] = close

IsString(t) == Between(t, Quote, Quote) /\ Plain(Inside(t))

\* No number need have a digit before or after its point, and it may have a plus.
IsNumber(t) == \E i \in 0 .. 1, k, l \in 0 .. Len(t) :
  LET whole == SubSeq(t, i + 1, k)  fraction == SubSeq(t, k + 1, l)  power == From(t, l)
      Natural(d) == d # <<>> /\ ToSet(d) \subseteq Digits
  IN  /\ i <= k /\ k <= l /\ (i = 1 => t # <<>> /\ t[1] \in Sign)
      /\ whole = <<>> \/ whole = <<48>> \/ (Natural(whole) /\ whole[1] # 48)
      /\ fraction = <<>> \/ (fraction[1] = Dot /\ (Natural(Tail(fraction)) \/ (Tail(fraction) = <<>> /\ whole # <<>>)))
      /\ whole = <<>> => i = 1 /\ fraction # <<>>
      /\ \/ power = <<>>
         \/ /\ power[1] \in Exponent
            /\ Natural(Tail(power)) \/ (Len(power) > 1 /\ power[2] \in Sign /\ Natural(From(power, 2)))

RECURSIVE IsValue(_), IsList(_), IsMembers(_)
IsValue(s) == LET t == Strip(s) IN
  \/ t \in {<<>>, true, false, null} \/ IsNumber(t) \/ IsString(t)
  \/ Between(t, 91, 93) /\ IsList(Inside(t))
  \/ Between(t, 123, 125) /\ (Strip(Inside(t)) = <<>> \/ IsMembers(Inside(t)))
IsList(t) == IsValue(t) \/ \E k \in DOMAIN t : t[k] = Comma /\ IsValue(SubSeq(t, 1, k - 1)) /\ IsList(From(t, k))
IsMembers(t) ==
  \/ \E k \in DOMAIN t : t[k] = Colon /\ IsString(Strip(SubSeq(t, 1, k - 1))) /\ IsValue(From(t, k))
  \/ \E k \in DOMAIN t : t[k] = Comma /\ IsMembers(SubSeq(t, 1, k - 1)) /\ IsMembers(From(t, k))

\* parse (107-456) takes exactly the texts of JSON, with two extensions: a
\* number may be nothing at all, since strtod takes all of an empty text (442),
\* and needs no digits on one side of its point.  It reads behind the end of
\* the text only while a quote is open (153).
AcceptsGrammar ==
  LET out == parse(Given, Null).out
      open == FoldLeft(LAMBDA q, c : CASE c = Quote -> IF q = "in" THEN "out" ELSE "in"
                                       [] c = Backslash /\ q = "in" -> "escaped"
                                       [] OTHER -> IF q = "escaped" THEN "in" ELSE q, "out", Given)
  IN  /\ out = "done" <=> IsValue(Given)
      /\ out = "beyond" => open = "in"
=============================================================================
