-------------------------------- MODULE SArray -------------------------------
(***************************************************************************)
(* bwct::SArray<T> (sarray.h), the array of numbers or pointers: a block   *)
(* that realloc makes longer and the index of the last element in use.     *)
(* Beside it, list has what the members of the same names of a vector      *)
(* would leave, so that the two can be compared.                           *)
(*                                                                         *)
(* A call that reads or writes outside of the block, or reads one that was *)
(* freed, or never returns, leaves the array Broken.  Constructors are the *)
(* assignments they share their body with.  The caller erases and inserts  *)
(* at positions of the array, pops only what is there, as the assertions   *)
(* ask, and inserts of an array's own elements only one, and once.         *)
(***************************************************************************)
EXTENDS Integers, Sequences

CONSTANTS
  Arrays,
  Values,      \* what is stored; 0 stands for what calloc and bzero leave
  First,       \* 8 in the code
  Large,       \* 1024 in the code
  Wide,        \* sizeof(T*) in elements
  MaxMax       \* bound: the largest index

ASSUME SizesAssumption == First \in Nat \ {0} /\ Large \in Nat \ {0} /\ Wide \in Nat \ {0} /\ MaxMax \in Nat
ASSUME ValuesAssumption == Values \subseteq Nat

VARIABLES arr, list

vars == <<arr, list>>

\* elements[i] is mem[i + 1]; num_elem is the length of mem.
Nothing == [mem |-> <<>>, max |-> -1]
Broken == [mem |-> <<>>, max |-> 0]

num_elem(r) == Len(r.mem)
Content(r) == SubSeq(r.mem, 1, r.max + 1)
Sound(x) == arr[x].max < num_elem(arr[x]) /\ Content(arr[x]) = list[x]

Init == arr = [x \in Arrays |-> Nothing] /\ list = [x \in Arrays |-> <<>>]

\* new_num of setsize
NewNum(num, i) ==
  LET start == IF num > 0 THEN num ELSE First
      sizes == {start * 2 ^ k : k \in 0 .. i}
  IN  IF i >= Large THEN i + Large
      ELSE CHOOSE s \in sizes : s > i /\ \A u \in sizes : u > i => s <= u

\* Mutant: the last slot is taken for one more than it is.
setsizeTight(r, i) ==
  IF i > num_elem(r)
  THEN [r EXCEPT !.mem = @ \o [k \in 1 .. NewNum(num_elem(r), i) - num_elem(r) |-> 0]]
  ELSE r

setsize(r, i) ==
  IF i >= num_elem(r)
  THEN [r EXCEPT !.mem = @ \o [k \in 1 .. NewNum(num_elem(r), i) - num_elem(r) |-> 0]]
  ELSE r

\* memmove(&elements[to], &elements[from], n); a negative n is a huge one.
memmove(r, to, from, n) ==
  IF n < 0 \/ to + n > num_elem(r) \/ from + n > num_elem(r) THEN Broken
  ELSE [r EXCEPT !.mem = [k \in DOMAIN r.mem |->
         IF k \in to + 1 .. to + n THEN r.mem[k - to + from] ELSE r.mem[k]]]

store(r, i, v) == IF i \in 0 .. num_elem(r) - 1 THEN [r EXCEPT !.mem[i + 1] = v] ELSE Broken

Grown(r, by) == IF r = Broken THEN r ELSE [r EXCEPT !.max = @ + by]

\* What becomes of x, and what a vector would have.
Set(x, r, l) ==
  /\ Len(l) <= MaxMax + 1
  /\ arr' = [arr EXCEPT ![x] = r]
  /\ list' = [list EXCEPT ![x] = l]

max(x) == arr[x].max
InsertedAt(l, i, new) == SubSeq(l, 1, i) \o new \o SubSeq(l, i + 1, Len(l))
Without(l, i, j) == SubSeq(l, 1, i) \o SubSeq(l, j + 1, Len(l))

-----------------------------------------------------------------------------
(* One array                                                                *)

clear(x) == Set(x, [arr[x] EXCEPT !.max = -1], <<>>)

pop_front(x) ==
  /\ max(x) >= 0
  /\ Set(x, Grown(memmove(arr[x], 0, 1, max(x)), -1), Tail(list[x]))

pop_back(x) ==
  /\ max(x) >= 0
  /\ Set(x, Grown(arr[x], -1), Without(list[x], max(x), max(x) + 1))

erase(x, i) ==
  /\ i \in 0 .. max(x)
  /\ Set(x, Grown(memmove(arr[x], i, i + 1, max(x) - i), -1), Without(list[x], i, i + 1))

\* Counted in pointers, from the first element and not from the last.
EraseRange(x, i, j) ==
  /\ i <= j /\ j <= max(x) + 1
  /\ Set(x, Grown(IF i = max(x) THEN arr[x] ELSE memmove(arr[x], i, j, Wide * (max(x) - i)), i - j),
         Without(list[x], i, j))

\* push_back, emplace_back, operator<<, and each element of a list assigned
PushBack(r, v) == LET s == setsize(r, r.max + 1) IN store(Grown(s, 1), s.max + 1, v)
push_back(x, v) == Set(x, PushBack(arr[x], v), Append(list[x], v))

\* The elements of l one after the other.
PushAll(r, l) ==
  LET left[k \in 0 .. Len(l)] == IF k = 0 THEN r ELSE PushBack(left[k - 1], l[k])
  IN  left[Len(l)]

AssignList(x, l) == Set(x, PushAll([arr[x] EXCEPT !.max = -1], l), l)

\* The value is taken for an index.
push_front(x, v) ==
  LET moved == memmove(setsize(arr[x], max(x) + 1), v + 1, v, max(x) - v + 1)
  IN  Set(x, IF moved = Broken THEN Broken ELSE store(Grown(moved, 1), 0, v), <<v>> \o list[x])

\* A gap is only made in front of an element.
Gap(r, i, n) ==
  IF i > r.max THEN r ELSE Grown(memmove(r, i + n, i, r.max - i + 1), 1)

\* insert(i): a zero, but not behind the end.
InsertZero(x, i) ==
  LET r == setsize(arr[x], max(x) + 1) IN
  Set(x, IF i > max(x) + 1 THEN arr[x] ELSE IF i > max(x) THEN r ELSE store(Gap(r, i, 1), i, 0),
      IF i > max(x) + 1 THEN list[x] ELSE InsertedAt(list[x], i, <<0>>))

InsertedValue(r, i, v) == store(Gap(setsize(r, r.max + 1), i, 1), i, v)
InsertValue(x, i, v) ==
  /\ i <= max(x) + 1
  /\ Set(x, InsertedValue(arr[x], i, v), InsertedAt(list[x], i, <<v>>))

\* The value is element k of the array itself, and read through its reference
\* after the block has moved, in itself or to where realloc has put it.
InsertOwn(x, i, k) ==
  LET s == setsize(arr[x], max(x) + 1)
      g == Gap(s, i, 1)
      own == store(g, i, g.mem[k + 1])
  IN  /\ i <= max(x) + 1 /\ k <= max(x)
      /\ \E r \in IF s = arr[x] THEN {own} ELSE {own, Broken} :
           Set(x, r, InsertedAt(list[x], i, <<list[x][k + 1]>>))

\* From i up to the count every copy goes to i.
InsertCount(x, i, count, v) ==
  /\ i <= max(x) + 1
  /\ LET r == Gap(setsize(arr[x], max(x) + count), i, count) IN
     Set(x, IF r # Broken /\ i < count THEN store(r, i, v) ELSE r,
         InsertedAt(list[x], i, [k \in 1 .. count |-> v]))

\* The position is that of the element inserted before, and one further.
InsertedAll(r, i, l) ==
  LET left[k \in 0 .. Len(l)] ==
        IF k = 0 THEN r ELSE IF left[k - 1] = Broken THEN Broken ELSE InsertedValue(left[k - 1], i + k - 1, l[k])
  IN  left[Len(l)]
InsertList(x, i, l) == i <= max(x) + 1 /\ Set(x, InsertedAll(arr[x], i, l), InsertedAt(list[x], i, l))

\* operator[] for writing; at asserts that i is there.
Reach(x, i) == IF i > max(x) THEN [setsize(arr[x], i) EXCEPT !.max = i] ELSE arr[x]
Write(x, i, v) ==
  Set(x, store(Reach(x, i), i, v),
      [k \in 1 .. (IF i >= Len(list[x]) THEN i + 1 ELSE Len(list[x])) |->
         IF k = i + 1 THEN v ELSE IF k <= Len(list[x]) THEN list[x][k] ELSE 0])

-----------------------------------------------------------------------------
(* Two arrays                                                               *)

\* operator= frees the block before it copies, and has no test for itself.
Copy(x, y) == Set(x, IF x = y THEN Broken ELSE arr[y], list[y])

\* The constructor leaves the source empty, the assignment exchanges.
MoveConstruct(x, y) ==
  /\ x # y
  /\ arr' = [arr EXCEPT ![x] = arr[y], ![y] = Nothing]
  /\ list' = [list EXCEPT ![x] = list[y], ![y] = <<>>]

Swap(x, y) ==
  /\ arr' = [arr EXCEPT ![x] = arr[y], ![y] = arr[x]]
  /\ list' = [list EXCEPT ![x] = list[y], ![y] = list[x]]

\* Appended to itself an array never reaches the end of what it appends.
AppendArray(x, y) ==
  Set(x, IF x = y /\ max(x) >= 0 THEN Broken
         ELSE PushAll(setsize(arr[x], max(x) + max(y) + 1), Content(arr[y])),
      list[x] \o list[y])

AllSound == \A x \in Arrays : Sound(x)

\* Bound: a program is followed as far as the first array that went wrong.
Unsound == ~AllSound /\ UNCHANGED vars

Change == \E x \in Arrays :
  \/ clear(x) \/ pop_front(x) \/ pop_back(x)
  \/ \E i \in 0 .. MaxMax :
       \/ erase(x, i) \/ InsertZero(x, i)
       \/ \E j \in 0 .. MaxMax + 1 : EraseRange(x, i, j)
       \/ \E k \in 0 .. MaxMax : InsertOwn(x, i, k)
  \/ \E v \in Values :
       \/ push_back(x, v) \/ push_front(x, v)
       \/ \E i \in 0 .. MaxMax : InsertValue(x, i, v) \/ InsertCount(x, i, 2, v) \/ InsertList(x, i, <<v, 0>>) \/ Write(x, i, v)
  \/ \E v, w \in Values : AssignList(x, <<v, w>>)
  \/ \E y \in Arrays : Copy(x, y) \/ MoveConstruct(x, y) \/ Swap(x, y) \/ AppendArray(x, y)

Next == (AllSound /\ Change) \/ Unsound

Spec == Init /\ [][Next]_vars

\* Every member leaves what the vector has and stays within the block, but for
\* these: push_front of anything but 0 (401), an insert at the end, which is not
\* counted (427, 442), of several copies (456-462), or of an element of the
\* array that the insert moves (446), an erase of a range that moves more than is
\* left in the block, or, of the empty one at the end, less than nothing (356,
\* 369), an array made longer over slots that were in use before (524), and one
\* that is copied from itself (271) or appended to itself (541).
Breaks == \E x \in Arrays :
  \/ \E v \in Values \ {0} : push_front(x, v)
  \/ \E v \in Values : \/ InsertValue(x, max(x) + 1, v) \/ InsertList(x, max(x) + 1, <<v, 0>>)
                       \/ \E i \in 0 .. MaxMax : InsertCount(x, i, 2, v)
  \/ InsertZero(x, max(x) + 1)
  \/ \E i, k \in 0 .. MaxMax :
       (i > max(x) \/ k > i \/ max(x) + 1 >= num_elem(arr[x])) /\ InsertOwn(x, i, k)
  \/ \E i \in 0 .. MaxMax, j \in 0 .. MaxMax + 1 :
       (i > max(x) \/ j + Wide * (max(x) - i) > num_elem(arr[x])) /\ EraseRange(x, i, j)
  \/ \E i \in 0 .. MaxMax, v \in Values :
       /\ \E k \in max(x) + 1 .. i - 1 : k < num_elem(arr[x]) /\ arr[x].mem[k + 1] # 0
       /\ Write(x, i, v)
  \/ Copy(x, x) \/ AppendArray(x, x)
ListKept == [][AllSound => AllSound' \/ Breaks]_vars
=============================================================================
