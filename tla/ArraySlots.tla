----------------------------- MODULE ArraySlots ------------------------------
(***************************************************************************)
(* bwct::Array (array.h): a block of slots, each NULL or the one pointer to *)
(* an object of the array's own.  Objects are known by their identity; what *)
(* they contain, and the members that change nothing, are left out.         *)
(*                                                                         *)
(* getlast and merge are operator[] of one and of every index, and have no  *)
(* action of their own.                                                     *)
(*                                                                         *)
(* The caller does not erase an empty range at the end, insert no copies,   *)
(* take the last element of an empty array, sort with empty slots, or       *)
(* append an array to itself or an empty array to an empty one.             *)
(***************************************************************************)
EXTENDS Integers, FiniteSets, Functions

CONSTANTS
  Arrays, Objects,
  NULL,
  Wild,     \* what the memory behind a block holds
  Step,     \* 8 in the code
  Large,    \* 1024 in the code
  MaxLen    \* bound: the longest array

ASSUME StepAssumption == Step \in Nat \ {0} /\ Large \in Nat \ {0} /\ MaxLen \in Nat
ASSUME PointersAssumption == NULL \notin Objects /\ Wild \notin Objects /\ NULL # Wild

VARIABLES
  array,   \* array[a]: the members elements, num_elem and max
  live,    \* the objects that exist
  cut      \* the objects callers got from cutptr and have not pasted

vars == <<array, live, cut>>

Pointers == Objects \cup {NULL, Wild}

TypeOK ==
  /\ \A a \in Arrays :
       /\ DOMAIN array[a] = {"elements", "num_elem", "max"}
       /\ array[a].num_elem \in Nat
       /\ \A k \in DOMAIN array[a].elements : array[a].elements[k] \in Pointers
       /\ array[a].max \in -1 .. MaxLen - 1
  /\ live \subseteq Objects
  /\ cut \subseteq Objects

Nothing == [elements |-> <<>>, num_elem |-> 0, max |-> -1]

Init ==
  /\ array = [a \in Arrays |-> Nothing]
  /\ live = {}
  /\ cut = {}

-----------------------------------------------------------------------------
(* The block of an array r                                                  *)

\* new_num of setsize
NewNum(r, i) ==
  LET start == IF r.num_elem > 0 THEN r.num_elem ELSE Step
      sizes == {start * 2 ^ k : k \in 0 .. i}
  IN  IF i >= Large THEN i + Large
      ELSE CHOOSE s \in sizes : s > i /\ \A u \in sizes : u > i => s <= u

setsize(r, i) ==
  IF i < r.num_elem THEN r
  ELSE [r EXCEPT !.num_elem = NewNum(r, i),
                 !.elements = [k \in 0 .. NewNum(r, i) - 1 |->
                                 IF k < r.num_elem THEN @[k] ELSE NULL]]

\* A write behind the block would make it longer than num_elem.
store(r, i, p) ==
  [r EXCEPT !.elements = [k \in DOMAIN @ \cup {i} |-> IF k = i THEN p ELSE @[k]]]

memmove(r, to, from, n) ==
  [r EXCEPT !.elements =
     [k \in DOMAIN @ \cup to .. to + n - 1 |->
        IF k \notin to .. to + n - 1 THEN @[k]
        ELSE IF k - to + from \in DOMAIN @ THEN @[k - to + from] ELSE Wild]]

grow(r, n) == [r EXCEPT !.max = @ + n]

Slots(r) == 0 .. r.max
Held(r) == {r.elements[k] : k \in Slots(r)} \ {NULL}
Fresh == Objects \ live

Set(a, r) == array' = [array EXCEPT ![a] = r]
New(S) == live' = live \cup S
Delete(S) == live' = live \ S

-----------------------------------------------------------------------------
(* Adding                                                                   *)

\* Mutant: the block is not made larger.
PushBackTight(a) == \E o \in Fresh :
  LET r == array[a] IN
  /\ r.max + 1 < MaxLen
  /\ Set(a, store(grow(setsize(r, r.max), 1), r.max + 1, o))
  /\ New({o})
  /\ UNCHANGED cut

\* push_back, emplace_back, operator<< of one element, and each element of an
\* initializer list.
PushBack(a) == \E o \in Fresh :
  LET r == array[a] IN
  /\ r.max + 1 < MaxLen
  /\ Set(a, store(grow(setsize(r, r.max + 1), 1), r.max + 1, o))
  /\ New({o})
  /\ UNCHANGED cut

\* The constructor of the element throws after max++.
PushBackThrows(a) ==
  LET r == array[a] IN
  /\ r.max + 1 < MaxLen
  /\ Set(a, grow(setsize(r, r.max + 1), 1))
  /\ UNCHANGED <<live, cut>>

Shifted(r) == grow(memmove(setsize(r, r.max + 1), 1, 0, r.max + 1), 1)

\* push_front, emplace_front
PushFront(a) == \E o \in Fresh :
  LET r == array[a] IN
  /\ r.max + 1 < MaxLen
  /\ Set(a, store(Shifted(r), 0, o))
  /\ New({o})
  /\ UNCHANGED cut

\* The same in push_front: elements[0] is still the pointer now in elements[1].
PushFrontThrows(a) ==
  LET r == array[a] IN
  /\ r.max + 1 < MaxLen
  /\ Set(a, Shifted(r))
  /\ UNCHANGED <<live, cut>>

\* Room for n elements at i, as insert makes it.
Parted(r, i, n) ==
  LET g == setsize(r, r.max + n)
  IN  IF i <= r.max THEN grow(memmove(g, i + n, i, r.max - i + 1), 1) ELSE g

\* insert(i); also insert at i of an element whose constructor throws.
InsertHole(a, i) ==
  LET r == array[a] IN
  /\ i <= r.max + 1 /\ r.max + 1 < MaxLen
  /\ Set(a, IF i <= r.max THEN store(Parted(r, i, 1), i, NULL) ELSE Parted(r, i, 1))
  /\ UNCHANGED <<live, cut>>

\* insert of one element.  At the end max is not increased.
InsertOne(a, i) == \E o \in Fresh :
  LET r == array[a] IN
  /\ i <= r.max + 1 /\ r.max + 1 < MaxLen
  /\ Set(a, store(Parted(r, i, 1), i, o))
  /\ New({o})
  /\ UNCHANGED cut

\* insert of count copies: both loops run from i to count, the second stores
\* every object in the same slot.
InsertCount(a, i, count) == \E S \in SUBSET Fresh :
  LET r == array[a]
      g == Parted(r, i, count)
      turns == i .. count - 1
      emptied == [g EXCEPT !.elements = [k \in DOMAIN @ |->
                    IF i <= r.max /\ k - i \in turns THEN NULL ELSE @[k]]]
  IN  /\ i <= r.max + 1 /\ r.max + count < MaxLen
      /\ count > 0
      /\ Cardinality(S) = Cardinality(turns)
      /\ IF S = {} THEN Set(a, g) ELSE \E o \in S : Set(a, store(emptied, i, o))
      /\ New(S)
      /\ UNCHANGED cut

\* at(i) beyond the end, and operator[] whose default constructor throws.
Stretched(r, i) == IF i > r.max THEN [setsize(r, i) EXCEPT !.max = i] ELSE r
Stretch(a, i) ==
  /\ i < MaxLen
  /\ Set(a, Stretched(array[a], i))
  /\ UNCHANGED <<live, cut>>

\* operator[](i)
Reach(a, i) ==
  LET r == Stretched(array[a], i) IN
  /\ i < MaxLen
  /\ IF r.elements[i] = NULL
     THEN \E o \in Fresh : Set(a, store(r, i, o)) /\ New({o})
     ELSE Set(a, r) /\ UNCHANGED live
  /\ UNCHANGED cut

-----------------------------------------------------------------------------
(* Taking away                                                              *)

\* clear(), the destructor
Clear(a) ==
  /\ Set(a, Nothing)
  /\ Delete(Held(array[a]))
  /\ UNCHANGED cut

\* clear(i)
ClearSlot(a, i) ==
  /\ i \in Slots(array[a])
  /\ Set(a, store(array[a], i, NULL))
  /\ Delete({array[a].elements[i]})
  /\ UNCHANGED cut

\* Mutant: the last object takes the place of the erased one.
EraseFilling(a, i) ==
  LET r == array[a] IN
  /\ i \in Slots(r)
  /\ Set(a, grow(store(store(r, i, r.elements[r.max]), r.max, NULL), -1))
  /\ Delete({r.elements[i]})
  /\ UNCHANGED cut

\* erase(i), pop_front, pop_back
Erase(a, i) ==
  LET r == array[a] IN
  /\ i \in Slots(r)
  /\ Set(a, grow(store(memmove(r, i, i + 1, r.max - i), r.max, NULL), -1))
  /\ Delete({r.elements[i]})
  /\ UNCHANGED cut

\* erase(first, last): the slots behind the new end keep what they had.
EraseRange(a, i, j) ==
  LET r == array[a] IN
  /\ i \in Slots(r) /\ j \in i .. r.max + 1
  /\ Set(a, grow(IF i # r.max THEN memmove(r, i, j, r.max - i) ELSE r, i - j))
  /\ Delete({r.elements[k] : k \in i .. j - 1})
  /\ UNCHANGED cut

\* cutptr(i): nothing keeps i below max.  What the caller gets from behind the
\* block is no object.
cutptr(a, i) ==
  LET r == array[a] IN
  /\ Set(a, store(r, i, NULL))
  /\ cut' = cut \cup ({r.elements[k] : k \in {i} \cap (0 .. r.num_elem - 1)} \ {NULL})
  /\ UNCHANGED live

\* pasteptr: what was in the slot is deleted.
pasteptr(a, i, p) ==
  LET r == Stretched(array[a], i) IN
  /\ p \in cut \cup {NULL}
  /\ i < MaxLen
  /\ Set(a, store(r, i, p))
  /\ Delete({r.elements[i]})
  /\ cut' = cut \ {p}

-----------------------------------------------------------------------------
(* Whole arrays                                                             *)

\* All objects are deleted and the block is kept.
Emptied(r) ==
  [r EXCEPT !.max = -1, !.elements = [k \in DOMAIN @ |-> IF k \in Slots(r) THEN NULL ELSE @[k]]]

\* Objects of a's own for those of c, behind the end of r: element by element,
\* until there is an empty slot in c or a copy throws.
CopyInto(a, r, c, gone) == \E n \in 0 .. array[c].max + 1 :
  LET new == {k \in r.max + 1 .. r.max + n : r.elements[k] = NULL} IN
  /\ \A k \in 0 .. n - 1 : array[c].elements[k] # NULL
  /\ r.max + n < MaxLen
  /\ \E f \in Injection(new, Fresh) :
       /\ Set(a, [r EXCEPT !.max = @ + n, !.elements = [k \in DOMAIN @ |->
                    IF k \in new THEN f[k] ELSE @[k]]])
       /\ live' = (live \ gone) \cup Range(f)
  /\ UNCHANGED cut

\* operator=(const Array&).  An array assigned to itself ends empty.
Copy(a, c) ==
  LET r == Emptied(array[a]) IN
  IF a = c
  THEN /\ Set(a, r)
       /\ Delete(Held(array[a]))
       /\ UNCHANGED cut
  ELSE CopyInto(a, setsize(r, array[c].max), c, Held(array[a]))

\* operator<<(const Array&)
AppendCopy(a, c) ==
  /\ a # c
  /\ array[a].max + array[c].max + 1 >= 0
  /\ CopyInto(a, setsize(array[a], array[a].max + array[c].max + 1), c, {})

\* operator=(Array&&), the move constructor
Swap(a, c) ==
  /\ a # c
  /\ array' = [array EXCEPT ![a] = array[c], ![c] = array[a]]
  /\ UNCHANGED <<live, cut>>

\* Mutant: the source keeps its pointers.
AppendShared(a, c) ==
  LET r == array[a]
      s == array[c]
      g == setsize(r, r.max + s.max + 1)
  IN  /\ a # c
      /\ r.max + s.max + 1 \in 0 .. MaxLen - 1
      /\ array' = [array EXCEPT ![a] = [g EXCEPT !.max = r.max + s.max + 1,
           !.elements = [k \in DOMAIN @ |->
              IF k \in r.max + 1 .. r.max + s.max + 1 THEN s.elements[k - r.max - 1] ELSE @[k]]]]
      /\ UNCHANGED <<live, cut>>

\* operator<<(Array&&): the pointers move, empty slots as well; the source
\* keeps its length.
AppendMoved(a, c) ==
  LET r == array[a]
      s == array[c]
      g == setsize(r, r.max + s.max + 1)
  IN  /\ a # c
      /\ r.max + s.max + 1 \in 0 .. MaxLen - 1
      /\ array' = [array EXCEPT
           ![a] = [g EXCEPT !.max = r.max + s.max + 1,
             !.elements = [k \in DOMAIN @ |->
                IF k \in r.max + 1 .. r.max + s.max + 1 THEN s.elements[k - r.max - 1] ELSE @[k]]],
           ![c].elements = [k \in DOMAIN @ |-> IF k \in Slots(s) THEN NULL ELSE @[k]]]
      /\ UNCHANGED <<live, cut>>

sort(a) ==
  LET r == array[a] IN
  /\ NULL \notin {r.elements[k] : k \in Slots(r)}
  /\ \E f \in Injection(Slots(r), Slots(r)) :
       Set(a, [r EXCEPT !.elements =
         [k \in DOMAIN @ |-> IF k \in Slots(r) THEN @[f[k]] ELSE @[k]]])
  /\ UNCHANGED <<live, cut>>

\* A new block, to which room has been added for one slot after the other.
NewBlock(n) ==
  LET block[k \in -1 .. n] == IF k = -1 THEN Nothing ELSE setsize(block[k - 1], k)
  IN  block[n]

\* shuffle: into a new block; what is moved keeps its identity here, and an
\* empty slot gets an object.
shuffle(a) ==
  LET r == array[a]
      empty == {k \in Slots(r) : r.elements[k] = NULL}
  IN  /\ \E f \in Injection(Slots(r), Slots(r)), g \in Injection(empty, Fresh) :
           /\ Set(a, [NewBlock(r.max) EXCEPT !.max = r.max, !.elements = [k \in DOMAIN @ |->
                IF k \notin Slots(r) THEN NULL
                ELSE IF f[k] \in empty THEN g[f[k]] ELSE r.elements[f[k]]]])
           /\ New(Range(g))
      /\ UNCHANGED cut

-----------------------------------------------------------------------------
(* Next                                                                     *)

\* Every slot up to max is NULL or points to a live object of its own.
Places == {p \in Arrays \X (0 .. MaxLen - 1) :
  p[2] <= array[p[1]].max /\ array[p[1]].elements[p[2]] # NULL}
At(p) == array[p[1]].elements[p[2]]
OneOwner ==
  /\ \A p \in Places : At(p) \in live \ cut
  /\ \A p, q \in Places : At(p) = At(q) => p = q

\* Nothing lies behind the end for operator[] or at to find when they move it
\* (array.h 648-656), and every object can still be reached.
ClearEnd == \A a \in Arrays : \A k \in DOMAIN array[a].elements :
  k > array[a].max => array[a].elements[k] = NULL
NoLeak == live = {At(p) : p \in Places} \cup cut

\* The slots are those setsize has made room for, and max is one of them.
InBounds == \A a \in Arrays :
  /\ DOMAIN array[a].elements = 0 .. array[a].num_elem - 1
  /\ array[a].max < array[a].num_elem

Sound == InBounds /\ OneOwner /\ ClearEnd /\ NoLeak

\* Bound: a program is followed as far as the first state that is not Sound.
Unsound ==
  /\ ~Sound
  /\ UNCHANGED vars

Change ==
  \/ \E a \in Arrays :
       \/ PushBack(a) \/ PushBackThrows(a) \/ PushFront(a) \/ PushFrontThrows(a)
       \/ Clear(a) \/ sort(a) \/ shuffle(a)
       \/ \E i \in 0 .. MaxLen - 1 :
            \/ InsertHole(a, i) \/ InsertOne(a, i) \/ Stretch(a, i) \/ Reach(a, i)
            \/ ClearSlot(a, i) \/ Erase(a, i) \/ cutptr(a, i)
            \/ \E j \in 0 .. MaxLen : InsertCount(a, i, j) \/ EraseRange(a, i, j)
            \/ \E p \in cut \cup {NULL} : pasteptr(a, i, p)
  \/ \E a, c \in Arrays : Copy(a, c) \/ AppendCopy(a, c) \/ Swap(a, c) \/ AppendMoved(a, c)

Next == (Sound /\ Change) \/ Unsound

Spec == Init /\ [][Next]_vars

-----------------------------------------------------------------------------
(* Properties                                                               *)

\* No member writes behind the block it has, whatever setsize has made of it
\* (array.h 494-514): but for cutptr of an index that is not in the block
\* (586-589 assert only that it is not negative).
BreaksBounds == \E a \in Arrays, i \in 0 .. MaxLen : i >= array[a].num_elem /\ cutptr(a, i)
BoundsKept == [][Sound => InBounds' \/ BreaksBounds]_vars

\* The array owns each of its objects once, whatever members are called and
\* whatever constructors throw: but for a range erase (array.h 471), an insert
\* at the end (324), an insert of several copies (353-363), and a push_front
\* whose element throws (688-690).  The first two leave each object its one
\* owner, as does a cutptr behind the block.
BreaksEnd == \E a \in Arrays, i \in 0 .. MaxLen :
  \/ i > array[a].max /\ InsertOne(a, i)
  \/ \E j \in 0 .. MaxLen : EraseRange(a, i, j)
BreaksOwner == \E a \in Arrays :
  PushFrontThrows(a) \/ \E i, j \in 0 .. MaxLen : InsertCount(a, i, j)
OwnershipKept ==
  [][Sound => /\ OneOwner' \/ BreaksOwner
              /\ Sound' \/ BreaksOwner \/ BreaksEnd \/ BreaksBounds]_vars

\* Objects that stay keep their order, within an array and when they move to
\* another, in every member but sort and shuffle.
Before(o, p) == \E a \in Arrays : \E k, l \in Slots(array[a]) :
  k < l /\ array[a].elements[k] = o /\ array[a].elements[l] = p
OrderKept ==
  [][Sound /\ Sound' =>
       \/ \A o, p \in live \ cut : Before(o, p) => ~Before(p, o)'
       \/ \E a \in Arrays : sort(a) \/ shuffle(a)]_vars
=============================================================================
