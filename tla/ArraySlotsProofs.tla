--------------------------- MODULE ArraySlotsProofs ---------------------------
(***************************************************************************)
(* Theorems about ArraySlots and, in the last part, about SArray, whose    *)
(* blocks are sized by the same steps (Step here is its First).            *)
(*                                                                         *)
(* Bounded holds of every state InBounds holds of.  Ownership is said of places, a slot of an array, *)
(* so that each member can be shown to move pointers between places and    *)
(* nothing else; Forward says where the places of a step were before it.   *)
(***************************************************************************)
EXTENDS ArraySlots, SequenceLemmas

\* What the members of an array may be.
Blocks == UNION {[0 .. n - 1 -> Pointers] : n \in Nat}
Arrs == {r \in [elements : Blocks, num_elem : Nat, max : Int] :
           /\ DOMAIN r.elements = 0 .. r.num_elem - 1
           /\ -1 <= r.max /\ r.max < r.num_elem}

\* What holds of every state, but for those cutptr leaves behind the block.
Bounded ==
  /\ array \in [Arrays -> Arrs]
  /\ \A a \in Arrays : array[a].max < MaxLen
  /\ live \subseteq Objects /\ cut \subseteq Objects

-----------------------------------------------------------------------------
(* The operators on a block                                                  *)

LEMMA ConstantsAre ==
  /\ Step \in Nat \ {0} /\ Large \in Nat \ {0} /\ MaxLen \in Nat
  /\ NULL \notin Objects /\ Wild \notin Objects /\ NULL # Wild
  /\ Objects \subseteq Pointers /\ NULL \in Pointers /\ Wild \in Pointers
BY StepAssumption, PointersAssumption DEF Pointers

LEMMA NewNumIs ==
  ASSUME NEW r \in Arrs, NEW i \in Nat
  PROVE  NewNum(r, i) \in Nat /\ NewNum(r, i) > i
<1> DEFINE start == IF r.num_elem > 0 THEN r.num_elem ELSE Step
           sizes == {start * 2 ^ k : k \in 0 .. i}
           larger == {s \in sizes : s > i}
<1>1. start \in Nat \ {0}
  BY ConstantsAre DEF Arrs
<1>2. CASE i >= Large
  BY <1>2, ConstantsAre DEF NewNum
<1>3. CASE ~(i >= Large)
  <2>0. NewNum(r, i) = CHOOSE s \in sizes : s > i /\ \A u \in sizes : u > i => s <= u
    BY <1>3 DEF NewNum
  <2>1. \A k \in 0 .. i : start * 2 ^ k \in Nat
    <3>1. \A k \in 0 .. i : 2 ^ k \in Nat
      BY PowerAbove
    <3> HIDE DEF start
    <3> QED
      BY <1>1, <3>1
  <2>2. start * 2 ^ i \in sizes /\ start * 2 ^ i > i
    <3>1. 2 ^ i \in Nat /\ i < 2 ^ i /\ i \in 0 .. i
      BY PowerAbove
    <3> HIDE DEF start
    <3>2. \A x \in Nat : start * x >= x
      BY <1>1
    <3>3. start * 2 ^ i >= 2 ^ i /\ start * 2 ^ i \in Nat
      BY <2>1, <3>1, <3>2
    <3> QED
      BY <3>1, <3>3
  <2>3. sizes \subseteq Nat
    BY <2>1
  <2> HIDE DEF sizes, start
  <2>4. larger \in SUBSET Nat /\ larger # {}
    BY <2>2, <2>3
  <2>5. PICK s \in larger : \A u \in larger : s <= u
    BY <2>4, Least
  <2>6. \E t \in sizes : t > i /\ \A u \in sizes : u > i => t <= u
    BY <2>5
  <2>7. NewNum(r, i) \in sizes /\ NewNum(r, i) > i
    BY <2>0, <2>6
  <2> QED
    BY <2>3, <2>7
<1> QED
  BY <1>2, <1>3

LEMMA ArrIs ==
  ASSUME NEW r \in Arrs
  PROVE  /\ r.num_elem \in Nat /\ r.max \in Int /\ -1 <= r.max /\ r.max < r.num_elem
         /\ DOMAIN r.elements = 0 .. r.num_elem - 1
         /\ r.elements \in [0 .. r.num_elem - 1 -> Pointers]
         /\ r = [elements |-> r.elements, num_elem |-> r.num_elem, max |-> r.max]
<1>1. r \in [elements : Blocks, num_elem : Nat, max : Int]
  BY DEF Arrs
<1>2. r.elements \in Blocks
  BY <1>1
<1>3. PICK n \in Nat : r.elements \in [0 .. n - 1 -> Pointers]
  BY <1>2 DEF Blocks
<1> QED
  BY <1>1, <1>3 DEF Arrs

LEMMA ArrMade ==
  ASSUME NEW n \in Nat, NEW m \in Int, NEW f \in [0 .. n - 1 -> Pointers], -1 <= m, m < n
  PROVE  [elements |-> f, num_elem |-> n, max |-> m] \in Arrs
<1>1. f \in Blocks
  BY DEF Blocks
<1> QED
  BY <1>1 DEF Arrs

LEMMA NothingIs == Nothing \in Arrs /\ Nothing.max = -1 /\ Nothing.num_elem = 0
<1>1. <<>> \in [0 .. 0 - 1 -> Pointers]
  OBVIOUS
<1>2. <<>> \in Blocks /\ DOMAIN <<>> = 0 .. 0 - 1
  BY <1>1 DEF Blocks
<1> QED
  BY <1>2 DEF Nothing, Arrs

\* setsize makes room and keeps what is there.
LEMMA SetsizeIs ==
  ASSUME NEW r \in Arrs, NEW i \in Int, -1 <= i
  PROVE  LET g == setsize(r, i) IN
         /\ g \in Arrs /\ g.max = r.max /\ g.num_elem > i /\ g.num_elem >= r.num_elem
         /\ \A k \in 0 .. g.num_elem - 1 :
              g.elements[k] = IF k < r.num_elem THEN r.elements[k] ELSE NULL
<1> DEFINE n == NewNum(r, i)
           f == [k \in 0 .. n - 1 |-> IF k < r.num_elem THEN r.elements[k] ELSE NULL]
<1>0. /\ r.num_elem \in Nat /\ r.max \in Int /\ -1 <= r.max /\ r.max < r.num_elem
      /\ r.elements \in [0 .. r.num_elem - 1 -> Pointers]
      /\ r = [elements |-> r.elements, num_elem |-> r.num_elem, max |-> r.max]
  BY ArrIs
<1>1. CASE i < r.num_elem
  BY <1>0, <1>1 DEF setsize
<1>2. CASE ~(i < r.num_elem)
  <2>1. n \in Nat /\ n > i
    BY <1>0, <1>2, NewNumIs
  <2>2. f \in [0 .. n - 1 -> Pointers]
    BY <1>0, <2>1, ConstantsAre
  <2>3. setsize(r, i) = [r EXCEPT !.num_elem = n, !.elements = f]
    BY <1>2 DEF setsize
  <2> HIDE DEF n, f
  <2>4. setsize(r, i) = [elements |-> f, num_elem |-> n, max |-> r.max]
    BY <1>0, <2>3
  <2>5. [elements |-> f, num_elem |-> n, max |-> r.max] \in Arrs
    BY <1>0, <1>2, <2>1, <2>2, ArrMade
  <2>6. \A k \in 0 .. n - 1 : f[k] = IF k < r.num_elem THEN r.elements[k] ELSE NULL
    BY DEF f
  <2> QED
    BY <1>0, <1>2, <2>1, <2>4, <2>5, <2>6
<1> QED
  BY <1>1, <1>2

LEMMA StoreIs ==
  ASSUME NEW r \in Arrs, NEW i \in 0 .. r.num_elem - 1, NEW p \in Pointers
  PROVE  LET g == store(r, i, p) IN
         /\ g \in Arrs /\ g.max = r.max /\ g.num_elem = r.num_elem
         /\ \A k \in 0 .. r.num_elem - 1 : g.elements[k] = IF k = i THEN p ELSE r.elements[k]
<1> DEFINE f == [k \in DOMAIN r.elements \cup {i} |-> IF k = i THEN p ELSE r.elements[k]]
<1>0. /\ r.num_elem \in Nat /\ r.max \in Int /\ -1 <= r.max /\ r.max < r.num_elem
      /\ r.elements \in [0 .. r.num_elem - 1 -> Pointers]
      /\ r = [elements |-> r.elements, num_elem |-> r.num_elem, max |-> r.max]
  BY ArrIs
<1>1. f \in [0 .. r.num_elem - 1 -> Pointers] /\ \A k \in 0 .. r.num_elem - 1 : f[k] = IF k = i THEN p ELSE r.elements[k]
  BY <1>0
<1>2. store(r, i, p) = [r EXCEPT !.elements = f]
  BY DEF store
<1> HIDE DEF f
<1>3. store(r, i, p) = [elements |-> f, num_elem |-> r.num_elem, max |-> r.max]
  BY <1>0, <1>2
<1> QED
  BY <1>0, <1>1, <1>3, ArrMade

LEMMA MemmoveIs ==
  ASSUME NEW r \in Arrs, NEW to \in Nat, NEW from \in Nat, NEW n \in Int, to + n <= r.num_elem
  PROVE  LET g == memmove(r, to, from, n) IN
         /\ g \in Arrs /\ g.max = r.max /\ g.num_elem = r.num_elem
         /\ \A k \in 0 .. r.num_elem - 1 : g.elements[k] =
              IF k \notin to .. to + n - 1 THEN r.elements[k]
              ELSE IF k - to + from < r.num_elem THEN r.elements[k - to + from] ELSE Wild
<1> DEFINE f == [k \in DOMAIN r.elements \cup to .. to + n - 1 |->
                   IF k \notin to .. to + n - 1 THEN r.elements[k]
                   ELSE IF k - to + from \in DOMAIN r.elements THEN r.elements[k - to + from] ELSE Wild]
<1>0. /\ r.num_elem \in Nat /\ r.max \in Int /\ -1 <= r.max /\ r.max < r.num_elem
      /\ r.elements \in [0 .. r.num_elem - 1 -> Pointers]
      /\ r = [elements |-> r.elements, num_elem |-> r.num_elem, max |-> r.max]
  BY ArrIs
<1>1. DOMAIN r.elements \cup to .. to + n - 1 = 0 .. r.num_elem - 1
  BY <1>0
<1>2. \A k \in 0 .. r.num_elem - 1 : f[k] =
        IF k \notin to .. to + n - 1 THEN r.elements[k]
        ELSE IF k - to + from < r.num_elem THEN r.elements[k - to + from] ELSE Wild
  BY SMTT(40), <1>0, <1>1
<1>3. f \in [0 .. r.num_elem - 1 -> Pointers]
  <2>1. ASSUME NEW k \in 0 .. r.num_elem - 1 PROVE f[k] \in Pointers
    BY <1>0, <1>2, ConstantsAre
  <2>2. f = [k \in 0 .. r.num_elem - 1 |-> f[k]]
    BY <1>1
  <2> QED
    BY <2>1, <2>2
<1>4. memmove(r, to, from, n) = [r EXCEPT !.elements = f]
  BY DEF memmove
<1> HIDE DEF f
<1>5. memmove(r, to, from, n) = [elements |-> f, num_elem |-> r.num_elem, max |-> r.max]
  BY <1>0, <1>4
<1> QED
  BY <1>0, <1>2, <1>3, <1>5, ArrMade

LEMMA MaxIs ==
  ASSUME NEW r \in Arrs, NEW m \in -1 .. r.num_elem - 1
  PROVE  /\ [r EXCEPT !.max = m] \in Arrs
         /\ [r EXCEPT !.max = m].max = m /\ [r EXCEPT !.max = m].num_elem = r.num_elem
         /\ [r EXCEPT !.max = m].elements = r.elements
<1>1. [r EXCEPT !.max = m] = [elements |-> r.elements, num_elem |-> r.num_elem, max |-> m]
  BY SMTT(40), ArrIs
<1> QED
  BY <1>1, ArrIs, ArrMade

LEMMA GrowIs ==
  ASSUME NEW r \in Arrs, NEW n \in Int, -1 <= r.max + n, r.max + n < r.num_elem
  PROVE  LET g == grow(r, n) IN
         g \in Arrs /\ g.max = r.max + n /\ g.num_elem = r.num_elem /\ g.elements = r.elements
<1>1. r.max + n \in -1 .. r.num_elem - 1 /\ grow(r, n) = [r EXCEPT !.max = r.max + n]
  BY ArrIs DEF grow
<1> QED
  BY <1>1, MaxIs

-----------------------------------------------------------------------------
(* Sound, said of one array after the other                                  *)

\* The objects in the slots of r are its own, each once, and nothing is behind.
Own(r) ==
  /\ r \in Arrs
  /\ \A k \in Slots(r) : r.elements[k] \in Objects \cup {NULL}
  /\ \A k, l \in Slots(r) : r.elements[k] # NULL /\ r.elements[k] = r.elements[l] => k = l
End(r) == \A k \in 0 .. r.num_elem - 1 : k > r.max => r.elements[k] = NULL

Owned(A, L) ==
  /\ \A a \in Arrays : Own(A[a]) /\ Held(A[a]) \subseteq L
  /\ \A a, c \in Arrays : a # c => Held(A[a]) \cap Held(A[c]) = {}

Reached(A) == UNION {Held(A[a]) : a \in Arrays}

LEMMA HeldIs ==
  ASSUME NEW r
  PROVE  /\ \A k \in Slots(r) : r.elements[k] # NULL => r.elements[k] \in Held(r)
         /\ \A o \in Held(r) : o # NULL /\ \E k \in Slots(r) : r.elements[k] = o
BY DEF Held

LEMMA SlotsIs == ASSUME NEW r \in Arrs PROVE Slots(r) \subseteq 0 .. r.num_elem - 1
BY ArrIs DEF Slots

LEMMA PlacesIs ==
  Bounded => /\ \A a \in Arrays : \A k \in Slots(array[a]) : array[a].elements[k] # NULL =>
                  <<a, k>> \in Places /\ At(<<a, k>>) = array[a].elements[k]
             /\ \A p \in Places : /\ p[1] \in Arrays /\ p[2] \in Slots(array[p[1]]) /\ p = <<p[1], p[2]>>
                                  /\ At(p) = array[p[1]].elements[p[2]] /\ At(p) # NULL
<1> SUFFICES ASSUME Bounded
             PROVE  /\ \A a \in Arrays : \A k \in Slots(array[a]) : array[a].elements[k] # NULL =>
                         <<a, k>> \in Places /\ At(<<a, k>>) = array[a].elements[k]
                    /\ \A p \in Places : /\ p[1] \in Arrays /\ p[2] \in Slots(array[p[1]]) /\ p = <<p[1], p[2]>>
                                         /\ At(p) = array[p[1]].elements[p[2]] /\ At(p) # NULL
  OBVIOUS
<1>1. \A a \in Arrays : array[a].max \in Int /\ array[a].max < MaxLen /\ MaxLen \in Nat
  BY ArrIs, ConstantsAre DEF Bounded
<1>2. ASSUME NEW a \in Arrays, NEW k \in Slots(array[a]), array[a].elements[k] # NULL
      PROVE  <<a, k>> \in Places /\ At(<<a, k>>) = array[a].elements[k]
  <2>1. k \in 0 .. MaxLen - 1 /\ k <= array[a].max
    BY <1>1, <1>2 DEF Slots
  <2> QED
    BY <1>2, <2>1 DEF Places, At
<1>3. ASSUME NEW p \in Places
      PROVE  /\ p[1] \in Arrays /\ p[2] \in Slots(array[p[1]]) /\ p = <<p[1], p[2]>>
             /\ At(p) = array[p[1]].elements[p[2]] /\ At(p) # NULL
  <2>1. p \in Arrays \X (0 .. MaxLen - 1) /\ p[2] <= array[p[1]].max /\ array[p[1]].elements[p[2]] # NULL
    BY DEF Places
  <2>2. p[1] \in Arrays /\ p[2] \in 0 .. MaxLen - 1 /\ p = <<p[1], p[2]>>
    BY <2>1
  <2>3. array[p[1]].max \in Int
    BY <1>1, <2>2
  <2> QED
    BY <2>1, <2>2, <2>3 DEF Slots, At
<1> QED
  BY <1>2, <1>3

LEMMA OwnerIs == Bounded => (OneOwner <=> Owned(array, live \ cut))
<1> SUFFICES ASSUME Bounded PROVE OneOwner <=> Owned(array, live \ cut)
  OBVIOUS
<1>0. /\ \A a \in Arrays : array[a] \in Arrs
      /\ live \ cut \subseteq Objects
  BY DEF Bounded
<1>1. /\ \A a \in Arrays : \A k \in Slots(array[a]) : array[a].elements[k] # NULL =>
           <<a, k>> \in Places /\ At(<<a, k>>) = array[a].elements[k]
      /\ \A p \in Places : /\ p[1] \in Arrays /\ p[2] \in Slots(array[p[1]]) /\ p = <<p[1], p[2]>>
                           /\ At(p) = array[p[1]].elements[p[2]] /\ At(p) # NULL
  BY PlacesIs
<1>2. ASSUME OneOwner PROVE Owned(array, live \ cut)
  <2>0. \A p, q \in Places : At(p) = At(q) => p = q
    BY <1>2 DEF OneOwner
  <2>1. \A a \in Arrays : \A k \in Slots(array[a]) : array[a].elements[k] # NULL => array[a].elements[k] \in live \ cut
    BY <1>1, <1>2 DEF OneOwner
  <2>2. ASSUME NEW a \in Arrays, NEW c \in Arrays, NEW k \in Slots(array[a]), NEW l \in Slots(array[c]),
               array[a].elements[k] # NULL, array[a].elements[k] = array[c].elements[l]
        PROVE  a = c /\ k = l
    <3>1. <<a, k>> \in Places /\ <<c, l>> \in Places /\ At(<<a, k>>) = At(<<c, l>>)
      BY <1>1, <2>2
    <3>2. <<a, k>> = <<c, l>>
      BY <2>0, <3>1
    <3> QED
      BY <3>2
  <2>3. ASSUME NEW a \in Arrays PROVE Own(array[a]) /\ Held(array[a]) \subseteq live \ cut
    BY <1>0, <2>1, <2>2, HeldIs DEF Own
  <2>4. ASSUME NEW a \in Arrays, NEW c \in Arrays, a # c, NEW o \in Held(array[a]) \cap Held(array[c]) PROVE FALSE
    <3>1. PICK k \in Slots(array[a]) : array[a].elements[k] = o
      BY <2>4, HeldIs
    <3>2. PICK l \in Slots(array[c]) : array[c].elements[l] = o
      BY <2>4, HeldIs
    <3>3. o # NULL
      BY <2>4, HeldIs
    <3> QED
      BY <2>2, <2>4, <3>1, <3>2, <3>3
  <2> QED
    BY <2>3, <2>4 DEF Owned
<1>3. ASSUME Owned(array, live \ cut) PROVE OneOwner
  <2>1. \A p \in Places : At(p) \in Held(array[p[1]]) /\ At(p) \in live \ cut
    BY <1>1, <1>3, HeldIs DEF Owned
  <2>2. ASSUME NEW p \in Places, NEW q \in Places, At(p) = At(q) PROVE p = q
    <3>1. p[1] = q[1]
      BY <1>1, <1>3, <2>1, <2>2 DEF Owned
    <3>2. Own(array[p[1]])
      BY <1>1, <1>3 DEF Owned
    <3>3. p[2] = q[2]
      BY <1>1, <2>2, <3>1, <3>2 DEF Own
    <3> QED
      BY <1>1, <3>1, <3>3
  <2> QED
    BY <2>1, <2>2 DEF OneOwner
<1> QED
  BY <1>2, <1>3

LEMMA LeakIs == Bounded => (NoLeak <=> live = Reached(array) \cup cut)
<1> SUFFICES ASSUME Bounded PROVE NoLeak <=> live = Reached(array) \cup cut
  OBVIOUS
<1>1. {At(p) : p \in Places} = Reached(array)
  <2>1. ASSUME NEW p \in Places PROVE At(p) \in Reached(array)
    BY <2>1, PlacesIs, HeldIs DEF Reached
  <2>2. ASSUME NEW a \in Arrays, NEW o \in Held(array[a]) PROVE \E p \in Places : o = At(p)
    <3>1. PICK k \in Slots(array[a]) : array[a].elements[k] = o /\ o # NULL
      BY <2>2, HeldIs
    <3>2. <<a, k>> \in Places /\ At(<<a, k>>) = o
      BY <3>1, PlacesIs
    <3> QED
      BY <3>2
  <2> QED
    BY <2>1, <2>2 DEF Reached
<1> QED
  BY <1>1 DEF NoLeak

LEMMA EndIs == Bounded => (ClearEnd <=> \A a \in Arrays : End(array[a]))
<1> SUFFICES ASSUME Bounded PROVE ClearEnd <=> \A a \in Arrays : End(array[a])
  OBVIOUS
<1>1. \A a \in Arrays : DOMAIN array[a].elements = 0 .. array[a].num_elem - 1
  BY ArrIs DEF Bounded
<1> QED
  BY <1>1 DEF ClearEnd, End

LEMMA BoundsIs == Bounded => InBounds
BY ArrIs DEF Bounded, InBounds

LEMMA BoundsNext == Bounded' => InBounds'
<1>1. (Bounded => InBounds)'
  BY BoundsIs, PTL
<1> QED
  BY <1>1

LEMMA SoundIs ==
  Bounded => (Sound <=> /\ Owned(array, live \ cut) /\ live = Reached(array) \cup cut
                        /\ \A a \in Arrays : End(array[a]))
BY OwnerIs, LeakIs, EndIs, BoundsIs DEF Sound

LEMMA NextIs ==
  Bounded' => /\ OneOwner' <=> Owned(array', live' \ cut')
              /\ Sound' <=> /\ Owned(array', live' \ cut') /\ live' = Reached(array') \cup cut'
                            /\ \A a \in Arrays : End(array'[a])
<1>1. (Bounded => (OneOwner <=> Owned(array, live \ cut)))'
  BY OwnerIs, PTL
<1>2. (Bounded => (Sound <=> /\ Owned(array, live \ cut) /\ live = Reached(array) \cup cut
                             /\ \A a \in Arrays : End(array[a])))'
  BY SoundIs, PTL
<1> QED
  BY <1>1, <1>2 DEF Owned, Reached, End, Own, Held, Slots

-----------------------------------------------------------------------------
(* One array changes                                                         *)

\* Of what was in r and is in g the order is the same.
Fwd(r, g, N) == \A k, l \in Slots(g) :
  k < l /\ g.elements[k] \notin N \cup {NULL} /\ g.elements[l] \notin N \cup {NULL} =>
    \E i, j \in Slots(r) : i <= j /\ r.elements[i] = g.elements[k] /\ r.elements[j] = g.elements[l]

\* g is r with the objects N new and the objects D gone; what r had from slot
\* i + d on is now from i on.
Moved(r, g, N, D, i, d) ==
  /\ Own(r) /\ g \in Arrs /\ N \in SUBSET Objects /\ i \in Int /\ d \in Int
  /\ \A k \in Slots(g) :
       \/ g.elements[k] \in N \cup {NULL}
       \/ k < i /\ k \in Slots(r) /\ g.elements[k] = r.elements[k]
       \/ k >= i /\ k + d >= i /\ k + d \in Slots(r) /\ g.elements[k] = r.elements[k + d]
  /\ N \cap Held(r) = {}
  /\ \A k, l \in Slots(g) : g.elements[k] \in N /\ g.elements[k] = g.elements[l] => k = l
  /\ \A k \in Slots(r) : r.elements[k] \in D \cup {NULL} \/ \E l \in Slots(g) : g.elements[l] = r.elements[k]
  /\ \A o \in N : \E k \in Slots(g) : g.elements[k] = o
  /\ \A k \in Slots(g) : g.elements[k] \notin D \ {NULL}

LEMMA Arranged ==
  ASSUME NEW r, NEW g, NEW N, NEW D, NEW i, NEW d, Moved(r, g, N, D, i, d)
  PROVE  Own(g) /\ Held(g) = (Held(r) \ D) \cup N /\ Fwd(r, g, N)
<1>0. /\ Own(r) /\ g \in Arrs /\ N \in SUBSET Objects /\ i \in Int /\ d \in Int
      /\ \A k \in Slots(g) :
           \/ g.elements[k] \in N \cup {NULL}
           \/ k < i /\ k \in Slots(r) /\ g.elements[k] = r.elements[k]
           \/ k >= i /\ k + d >= i /\ k + d \in Slots(r) /\ g.elements[k] = r.elements[k + d]
      /\ N \cap Held(r) = {}
      /\ \A k, l \in Slots(g) : g.elements[k] \in N /\ g.elements[k] = g.elements[l] => k = l
      /\ \A k \in Slots(r) : r.elements[k] \in D \cup {NULL} \/ \E l \in Slots(g) : g.elements[l] = r.elements[k]
      /\ \A o \in N : \E k \in Slots(g) : g.elements[k] = o
      /\ \A k \in Slots(g) : g.elements[k] \notin D \ {NULL}
  BY DEF Moved
<1> DEFINE Src(k) == IF k < i THEN k ELSE k + d
<1>1. /\ \A k \in Slots(r) : r.elements[k] \in Objects \cup {NULL}
      /\ \A k, l \in Slots(r) : r.elements[k] # NULL /\ r.elements[k] = r.elements[l] => k = l
      /\ \A k \in Slots(g) : k \in Int
  BY <1>0 DEF Own, Slots
<1>2. \A k \in Slots(g) : g.elements[k] \in N \cup {NULL} \/ (Src(k) \in Slots(r) /\ g.elements[k] = r.elements[Src(k)])
  BY <1>0, <1>1
<1>3. \A k, l \in Slots(g) :
        g.elements[k] \notin N \cup {NULL} /\ g.elements[l] \notin N \cup {NULL} =>
          (k < l => Src(k) < Src(l))
  BY <1>0, <1>1
<1>4. \A k, l \in Slots(g) :
        g.elements[k] \notin N \cup {NULL} /\ g.elements[k] = g.elements[l] => k = l
  <2> SUFFICES ASSUME NEW k \in Slots(g), NEW l \in Slots(g), g.elements[k] \notin N \cup {NULL},
                      g.elements[k] = g.elements[l]
               PROVE  k = l
    OBVIOUS
  <2>1. Src(k) = Src(l)
    BY <1>1, <1>2
  <2>2. k < l => Src(k) < Src(l)
    BY <1>3
  <2>3. l < k => Src(l) < Src(k)
    BY <1>3
  <2>4. k \in Int /\ l \in Int
    BY <1>1
  <2> QED
    BY <1>0, <2>1, <2>2, <2>3, <2>4
<1>5. Own(g)
  <2>1. \A k \in Slots(g) : g.elements[k] \in Objects \cup {NULL}
    BY <1>0, <1>1, <1>2
  <2>2. \A k, l \in Slots(g) : g.elements[k] # NULL /\ g.elements[k] = g.elements[l] => k = l
    BY <1>0, <1>4
  <2> QED
    BY <1>0, <2>1, <2>2 DEF Own
<1>6. ASSUME NEW k \in Slots(g), NEW l \in Slots(g), k < l,
             g.elements[k] \notin N \cup {NULL}, g.elements[l] \notin N \cup {NULL}
      PROVE  \E a, c \in Slots(r) : a <= c /\ r.elements[a] = g.elements[k] /\ r.elements[c] = g.elements[l]
  <2>1. Src(k) \in Slots(r) /\ Src(l) \in Slots(r) /\ r.elements[Src(k)] = g.elements[k] /\ r.elements[Src(l)] = g.elements[l]
    BY <1>2, <1>6
  <2>2. Src(k) <= Src(l)
    BY <1>0, <1>1, <1>3, <1>6
  <2> HIDE DEF Src
  <2> QED
    BY <2>1, <2>2
<1>7. Fwd(r, g, N)
  BY <1>6 DEF Fwd
<1>8. NULL \notin N
  BY <1>0, ConstantsAre
<1>9. ASSUME NEW o \in Held(g) PROVE o \in (Held(r) \ D) \cup N
  <2>1. PICK k \in Slots(g) : g.elements[k] = o /\ o # NULL
    BY HeldIs
  <2> QED
    BY <1>0, <1>2, <2>1, HeldIs
<1>10. ASSUME NEW o \in (Held(r) \ D) \cup N PROVE o \in Held(g)
  <2>1. CASE o \in N
    <3>1. PICK k \in Slots(g) : g.elements[k] = o
      BY <1>0, <2>1
    <3> QED
      BY <1>8, <2>1, <3>1, HeldIs
  <2>2. CASE o \in Held(r) \ D
    <3>1. PICK k \in Slots(r) : r.elements[k] = o /\ o # NULL
      BY <2>2, HeldIs
    <3>2. PICK l \in Slots(g) : g.elements[l] = r.elements[k]
      BY <1>0, <2>2, <3>1
    <3> QED
      BY <3>1, <3>2, HeldIs
  <2> QED
    BY <1>10, <2>1, <2>2
<1> QED
  BY <1>5, <1>7, <1>9, <1>10

\* Objects that stay come from two arrays, or from one in the same order.
Forward == \A a \in Arrays : \A k, l \in Slots(array'[a]) :
  k < l /\ array'[a].elements[k] \in live \ cut /\ array'[a].elements[l] \in live \ cut =>
    \E c, d \in Arrays : \E i \in Slots(array[c]), j \in Slots(array[d]) :
      /\ array[c].elements[i] = array'[a].elements[k]
      /\ array[d].elements[j] = array'[a].elements[l]
      /\ c # d \/ i <= j

Ordering == \A o, p \in live \ cut : Before(o, p) => ~Before(p, o)'

LEMMA ForwardKeeps == ASSUME Bounded, OneOwner, Forward PROVE Ordering
<1> SUFFICES ASSUME NEW o \in live \ cut, NEW p \in live \ cut, Before(o, p), Before(p, o)' PROVE FALSE
  BY DEF Ordering
<1>1. PICK a \in Arrays : \E k, l \in Slots(array[a]) : k < l /\ array[a].elements[k] = o /\ array[a].elements[l] = p
  BY DEF Before
<1>2. PICK k \in Slots(array[a]), l \in Slots(array[a]) : k < l /\ array[a].elements[k] = o /\ array[a].elements[l] = p
  BY <1>1
<1>3. PICK b \in Arrays : \E m, n \in Slots(array'[b]) : m < n /\ array'[b].elements[m] = p /\ array'[b].elements[n] = o
  BY DEF Before, Slots
<1>4. PICK m \in Slots(array'[b]), n \in Slots(array'[b]) : m < n /\ array'[b].elements[m] = p /\ array'[b].elements[n] = o
  BY <1>3
<1>5. \E c, d \in Arrays : \E i \in Slots(array[c]), j \in Slots(array[d]) :
        array[c].elements[i] = p /\ array[d].elements[j] = o /\ (c # d \/ i <= j)
  BY <1>4 DEF Forward
<1>6. PICK c \in Arrays, d \in Arrays : \E i \in Slots(array[c]), j \in Slots(array[d]) :
        array[c].elements[i] = p /\ array[d].elements[j] = o /\ (c # d \/ i <= j)
  BY <1>5
<1>7. PICK i \in Slots(array[c]), j \in Slots(array[d]) :
        array[c].elements[i] = p /\ array[d].elements[j] = o /\ (c # d \/ i <= j)
  BY <1>6
<1>8. o # NULL /\ p # NULL
  BY ConstantsAre DEF Bounded
<1>9. Owned(array, live \ cut)
  BY OwnerIs
<1>10. o \in Held(array[a]) /\ p \in Held(array[a]) /\ p \in Held(array[c]) /\ o \in Held(array[d])
  BY <1>2, <1>7, <1>8, HeldIs
<1>11. c = a /\ d = a
  BY <1>9, <1>10 DEF Owned
<1>12. i = l /\ j = k
  BY <1>2, <1>7, <1>8, <1>9, <1>11 DEF Owned, Own
<1>13. k \in Int /\ l \in Int
  BY <1>2 DEF Slots
<1> QED
  BY <1>2, <1>7, <1>11, <1>12, <1>13

\* a is g from now on, with the objects N new to the arrays and D gone.
LEMMA OneRow ==
  ASSUME Bounded, OneOwner, NEW a \in Arrays, NEW g, Own(g), g.max < MaxLen, Set(a, g),
         NEW N, NEW D, Held(g) = (Held(array[a]) \ D) \cup N, N \cap (live \ cut) = {},
         D \cap (live \ cut) \subseteq Held(array[a]),
         ((live \ cut) \ D) \cup N \subseteq live' \ cut', live' \subseteq Objects, cut' \subseteq Objects
  PROVE  /\ Bounded' /\ OneOwner'
         /\ Sound /\ End(g) /\ cut' \subseteq live' /\ live' \ cut' \subseteq ((live \ cut) \ D) \cup N => Sound'
<1>1. array' = [array EXCEPT ![a] = g] /\ array \in [Arrays -> Arrs] /\ g \in Arrs
  BY DEF Set, Bounded, Own
<1>2. array' \in [Arrays -> Arrs] /\ \A c \in Arrays : array'[c] = IF c = a THEN g ELSE array[c]
  BY <1>1
<1>3. Bounded'
  BY <1>2 DEF Bounded
<1>4. Owned(array, live \ cut)
  BY OwnerIs
<1>5. Owned(array', live' \ cut')
  <2>1. \A c \in Arrays : Own(array'[c])
    BY <1>2, <1>4 DEF Owned
  <2>2. \A c \in Arrays \ {a} : Held(array[c]) \subseteq (live \ cut) \ Held(array[a])
    BY <1>4 DEF Owned
  <2>3. \A c \in Arrays \ {a} : Held(array'[c]) = Held(array[c])
    BY <1>2
  <2>4. Held(array'[a]) = (Held(array[a]) \ D) \cup N /\ Held(array[a]) \subseteq live \ cut
    BY <1>2, <1>4 DEF Owned
  <2>5. ASSUME NEW c \in Arrays PROVE Held(array'[c]) \subseteq live' \ cut'
    BY <2>2, <2>3, <2>4
  <2>6. ASSUME NEW c \in Arrays, NEW d \in Arrays, c # d PROVE Held(array'[c]) \cap Held(array'[d]) = {}
    <3>1. CASE c # a /\ d # a
      BY <1>4, <2>3, <2>6, <3>1 DEF Owned
    <3>2. CASE c = a
      BY <2>2, <2>3, <2>4, <2>6, <3>2
    <3>3. CASE d = a
      BY <2>2, <2>3, <2>4, <2>6, <3>3
    <3> QED
      BY <3>1, <3>2, <3>3
  <2> QED
    BY <2>1, <2>5, <2>6 DEF Owned
<1>6. OneOwner'
  BY <1>3, <1>5, NextIs
<1>7. ASSUME Sound, End(g), cut' \subseteq live', live' \ cut' \subseteq ((live \ cut) \ D) \cup N PROVE Sound'
  <2>1. live = Reached(array) \cup cut /\ \A c \in Arrays : End(array[c])
    BY <1>7, SoundIs
  <2>2. \A c \in Arrays : End(array'[c])
    BY <1>2, <1>7, <2>1
  <2>3. live' \ cut' \subseteq Reached(array')
    <3> SUFFICES ASSUME NEW o \in live' \ cut' PROVE \E c \in Arrays : o \in Held(array'[c])
      BY DEF Reached
    <3>0. o \in N \/ o \in (live \ cut) \ D
      BY <1>7
    <3>1. CASE o \in N
      BY <1>2, <3>1
    <3>2. CASE o \in (live \ cut) \ D
      <4>1. PICK c \in Arrays : o \in Held(array[c])
        BY <2>1, <3>2 DEF Reached
      <4> QED
        BY <1>2, <3>2, <4>1
    <3> QED
      BY <3>0, <3>1, <3>2
  <2>4. Reached(array') \subseteq live' \ cut'
    BY <1>5 DEF Owned, Reached
  <2>5. live' = Reached(array') \cup cut'
    BY <1>7, <2>3, <2>4
  <2> QED
    BY <1>3, <1>5, <2>2, <2>5, NextIs
<1> QED
  BY <1>3, <1>6, <1>7

\* What is in order in g is in order everywhere.
LEMMA ForwardRow ==
  ASSUME Bounded, NEW a \in Arrays, NEW g, NEW N, Set(a, g), N \cap (live \ cut) = {}, Fwd(array[a], g, N)
  PROVE  Forward
<1>0. \A c \in Arrays : array'[c] = IF c = a THEN g ELSE array[c]
  BY DEF Set, Bounded
<1> SUFFICES ASSUME NEW c \in Arrays, NEW k \in Slots(array'[c]), NEW l \in Slots(array'[c]), k < l,
                    array'[c].elements[k] \in live \ cut, array'[c].elements[l] \in live \ cut
             PROVE  \E d, f \in Arrays : \E i \in Slots(array[d]), j \in Slots(array[f]) :
                      /\ array[d].elements[i] = array'[c].elements[k]
                      /\ array[f].elements[j] = array'[c].elements[l]
                      /\ d # f \/ i <= j
  BY DEF Forward
<1>1. CASE c = a
  <2>1. k \in Slots(g) /\ l \in Slots(g) /\ g.elements[k] \in live \ cut /\ g.elements[l] \in live \ cut
    BY <1>0, <1>1
  <2>2. g.elements[k] \notin N \cup {NULL} /\ g.elements[l] \notin N \cup {NULL}
    BY <2>1, ConstantsAre DEF Bounded
  <2>3. \E i, j \in Slots(array[a]) : i <= j /\ array[a].elements[i] = g.elements[k] /\ array[a].elements[j] = g.elements[l]
    BY <2>1, <2>2 DEF Fwd
  <2> QED
    BY <1>0, <1>1, <2>3
<1>2. CASE c # a
  <2>1. array'[c] = array[c]
    BY <1>0, <1>2
  <2>2. k <= l
    BY <2>1 DEF Slots
  <2> QED
    BY <2>1, <2>2
<1> QED
  BY <1>1, <1>2
-----------------------------------------------------------------------------
(* What the members do to a block                                            *)

LEMMA OwnIs ==
  ASSUME NEW r, Own(r)
  PROVE  /\ r \in Arrs /\ r.num_elem \in Nat /\ r.max \in Int /\ -1 <= r.max /\ r.max < r.num_elem
         /\ \A k \in Slots(r) : r.elements[k] \in Objects \cup {NULL}
         /\ \A k, l \in Slots(r) : r.elements[k] # NULL /\ r.elements[k] = r.elements[l] => k = l
BY ArrIs DEF Own

\* In g p is in slot q, which may be behind the end of r, or in none if q is -1;
\* and all else is as it was.
Put(r, g, p, q) ==
  /\ g \in Arrs /\ p \in Objects \cup {NULL} /\ q \in -1 .. g.max /\ r.max <= g.max
  /\ q = -1 => p = NULL
  /\ \A k \in 0 .. g.num_elem - 1 :
       g.elements[k] = IF k = q THEN p ELSE IF k <= r.max THEN r.elements[k] ELSE NULL
There(r, q) == {r.elements[k] : k \in {q} \cap Slots(r)}

LEMMA PutRow ==
  ASSUME NEW r, Own(r), NEW g, NEW p, NEW q, Put(r, g, p, q), p \notin Held(r)
  PROVE  Own(g) /\ End(g) /\ Held(g) = (Held(r) \ There(r, q)) \cup ({p} \ {NULL}) /\ Fwd(r, g, {p} \ {NULL})
<1> DEFINE N == {p} \ {NULL}
           D == There(r, q)
           i == r.max + 1
<1>1. /\ r \in Arrs /\ r.num_elem \in Nat /\ r.max \in Int /\ -1 <= r.max /\ r.max < r.num_elem
      /\ \A k \in Slots(r) : r.elements[k] \in Objects \cup {NULL}
      /\ \A k, l \in Slots(r) : r.elements[k] # NULL /\ r.elements[k] = r.elements[l] => k = l
  BY OwnIs
<1>14. /\ g \in Arrs /\ p \in Objects \cup {NULL} /\ q \in -1 .. g.max /\ r.max <= g.max
       /\ q = -1 => p = NULL
       /\ \A k \in 0 .. g.num_elem - 1 :
            g.elements[k] = IF k = q THEN p ELSE IF k <= r.max THEN r.elements[k] ELSE NULL
  BY DEF Put
<1>2. g.num_elem \in Nat /\ g.max \in Int /\ g.max < g.num_elem
  BY <1>14, ArrIs
<1>15. D = {r.elements[k] : k \in {q} \cap Slots(r)}
  BY DEF There
<1>3. Slots(r) = 0 .. r.max /\ Slots(g) = 0 .. g.max
  BY DEF Slots
<1>4. \A k \in Slots(g) : \/ k = q /\ g.elements[k] = p
                          \/ k # q /\ k > r.max /\ g.elements[k] = NULL
                          \/ k # q /\ k \in Slots(r) /\ g.elements[k] = r.elements[k]
  BY <1>1, <1>2, <1>3, <1>14
<1>5. End(g)
  BY <1>1, <1>2, <1>14 DEF End
<1>6. N \in SUBSET Objects /\ N \cap Held(r) = {} /\ i \in Int
  BY <1>1, <1>14
<1>0. PICK d \in Int : d = 0
  OBVIOUS
<1>7. \A k \in Slots(g) : \/ g.elements[k] \in N \cup {NULL}
                          \/ k < i /\ k \in Slots(r) /\ g.elements[k] = r.elements[k]
                          \/ k >= i /\ k + d >= i /\ k + d \in Slots(r) /\ g.elements[k] = r.elements[k + d]
  BY <1>0, <1>1, <1>3, <1>4
<1>8. \A k, l \in Slots(g) : g.elements[k] \in N /\ g.elements[k] = g.elements[l] => k = l
  BY <1>4, HeldIs
<1>9. \A k \in Slots(r) : r.elements[k] \in D \cup {NULL} \/ \E l \in Slots(g) : g.elements[l] = r.elements[k]
  BY <1>1, <1>2, <1>3, <1>14, <1>15
<1>10. \A o \in N : \E k \in Slots(g) : g.elements[k] = o
  BY <1>2, <1>3, <1>4, <1>14
<1>11. \A k \in Slots(g) : g.elements[k] \notin D \ {NULL}
  BY <1>1, <1>3, <1>4, <1>14, <1>15, HeldIs
<1> HIDE DEF N, D, i
<1>12. Moved(r, g, N, D, i, d)
  BY <1>6, <1>7, <1>8, <1>9, <1>10, <1>11, <1>14 DEF Moved
<1>13. Own(g) /\ Held(g) = (Held(r) \ D) \cup N /\ Fwd(r, g, N)
  BY <1>12, Arranged
<1> QED
  BY <1>5, <1>13 DEF N, D

\* In g p is in slot q, and what was there and behind is one slot further.
Shift(r, g, p, q) ==
  /\ g \in Arrs /\ p \in Objects \cup {NULL} /\ q \in 0 .. g.max /\ g.max = r.max + 1
  /\ \A k \in 0 .. g.num_elem - 1 :
       g.elements[k] = IF k = q THEN p ELSE IF k < q THEN r.elements[k]
                       ELSE IF k <= g.max THEN r.elements[k - 1] ELSE NULL

LEMMA ShiftRow ==
  ASSUME NEW r, Own(r), NEW g, NEW p, NEW q, Shift(r, g, p, q), p \notin Held(r)
  PROVE  Own(g) /\ End(g) /\ Held(g) = Held(r) \cup ({p} \ {NULL}) /\ Fwd(r, g, {p} \ {NULL})
<1> DEFINE N == {p} \ {NULL}
<1>1. /\ r \in Arrs /\ r.num_elem \in Nat /\ r.max \in Int /\ -1 <= r.max /\ r.max < r.num_elem
      /\ \A k \in Slots(r) : r.elements[k] \in Objects \cup {NULL}
      /\ \A k, l \in Slots(r) : r.elements[k] # NULL /\ r.elements[k] = r.elements[l] => k = l
  BY OwnIs
<1>16. /\ g \in Arrs /\ p \in Objects \cup {NULL} /\ q \in 0 .. g.max /\ g.max = r.max + 1
       /\ \A k \in 0 .. g.num_elem - 1 :
            g.elements[k] = IF k = q THEN p ELSE IF k < q THEN r.elements[k]
                            ELSE IF k <= g.max THEN r.elements[k - 1] ELSE NULL
  BY DEF Shift
<1>2. g.num_elem \in Nat /\ g.max \in Int /\ g.max < g.num_elem
  BY <1>16, ArrIs
<1>3. Slots(r) = 0 .. r.max /\ Slots(g) = 0 .. r.max + 1 /\ q \in Int
  BY <1>16 DEF Slots
<1>4. \A k \in Slots(g) : \/ k = q /\ g.elements[k] = p
                          \/ k < q /\ k \in Slots(r) /\ g.elements[k] = r.elements[k]
                          \/ k > q /\ k - 1 \in Slots(r) /\ g.elements[k] = r.elements[k - 1]
  BY SMTT(40), <1>1, <1>2, <1>3, <1>16
<1>5. End(g)
  BY <1>1, <1>2, <1>16 DEF End
<1>6. N \in SUBSET Objects /\ N \cap Held(r) = {}
  BY <1>16
<1>0. PICK d \in Int : d = -1
  OBVIOUS
<1>11. PICK D : D = {}
  OBVIOUS
<1>7. \A k \in Slots(g) : \/ g.elements[k] \in N \cup {NULL}
                          \/ k < q /\ k \in Slots(r) /\ g.elements[k] = r.elements[k]
                          \/ k >= q /\ k + d >= q /\ k + d \in Slots(r) /\ g.elements[k] = r.elements[k + d]
  BY <1>0, <1>1, <1>3, <1>4
<1>8. \A k, l \in Slots(g) : g.elements[k] \in N /\ g.elements[k] = g.elements[l] => k = l
  BY <1>4, HeldIs
<1>9. \A k \in Slots(r) : \E l \in Slots(g) : g.elements[l] = r.elements[k]
  <2> SUFFICES ASSUME NEW k \in Slots(r) PROVE \E l \in Slots(g) : g.elements[l] = r.elements[k]
    OBVIOUS
  <2>1. CASE k < q
    <3>1. k \in Slots(g) /\ g.elements[k] = r.elements[k]
      BY <1>1, <1>2, <1>3, <1>16, <2>1
    <3> QED
      BY <3>1
  <2>2. CASE ~(k < q)
    <3>1. k + 1 \in Slots(g) /\ k + 1 \in 0 .. g.num_elem - 1 /\ ~(k + 1 = q) /\ ~(k + 1 < q) /\ k + 1 <= g.max /\ (k + 1) - 1 = k
      BY <1>1, <1>2, <1>3, <1>16, <2>2
    <3>2. g.elements[k + 1] = r.elements[(k + 1) - 1]
      BY <1>16, <3>1
    <3> QED
      BY <3>1, <3>2
  <2> QED
    BY <2>1, <2>2
<1>10. \A o \in N : \E k \in Slots(g) : g.elements[k] = o
  BY <1>3, <1>4, <1>16
<1> HIDE DEF N
<1>12. \A k \in Slots(r) : r.elements[k] \in D \cup {NULL} \/ \E l \in Slots(g) : g.elements[l] = r.elements[k]
  BY <1>9
<1>13. \A k \in Slots(g) : g.elements[k] \notin D \ {NULL}
  BY <1>11
<1>14. Moved(r, g, N, D, q, d)
  BY <1>3, <1>6, <1>7, <1>8, <1>10, <1>12, <1>13, <1>16 DEF Moved
<1>15. Own(g) /\ Held(g) = (Held(r) \ D) \cup N /\ Fwd(r, g, N)
  BY <1>14, Arranged
<1> QED
  BY <1>5, <1>11, <1>15 DEF N

\* An array and what setsize makes of it.
LEMMA RowIs ==
  ASSUME Bounded, Sound, NEW a \in Arrays
  PROVE  /\ Own(array[a]) /\ End(array[a]) /\ array[a] \in Arrs /\ Held(array[a]) \subseteq live \ cut
         /\ array[a].num_elem \in Nat /\ array[a].max \in Int /\ -1 <= array[a].max
         /\ array[a].max < array[a].num_elem /\ array[a].max < MaxLen
         /\ live \ cut \subseteq Objects /\ live \subseteq Objects /\ cut \subseteq Objects /\ cut \subseteq live
         /\ OneOwner
<1>1. Owned(array, live \ cut) /\ live = Reached(array) \cup cut /\ \A c \in Arrays : End(array[c])
  BY SoundIs
<1>2. array[a] \in Arrs /\ array[a].max < MaxLen
  BY DEF Bounded
<1> QED
  BY <1>1, <1>2, ArrIs DEF Owned, Bounded, Sound

LEMMA SetsizeRow ==
  ASSUME NEW r, Own(r), End(r), NEW i \in Int, -1 <= i
  PROVE  LET g == setsize(r, i) IN
         /\ g \in Arrs /\ g.max = r.max /\ g.num_elem > i /\ g.num_elem \in Nat /\ g.max < g.num_elem
         /\ \A k \in 0 .. g.num_elem - 1 : g.elements[k] = IF k <= r.max THEN r.elements[k] ELSE NULL
<1> DEFINE g == setsize(r, i)
<1>1. /\ r \in Arrs /\ r.num_elem \in Nat /\ r.max \in Int /\ -1 <= r.max /\ r.max < r.num_elem
  BY OwnIs
<1>2. /\ g \in Arrs /\ g.max = r.max /\ g.num_elem > i /\ g.num_elem >= r.num_elem
      /\ \A k \in 0 .. g.num_elem - 1 : g.elements[k] = IF k < r.num_elem THEN r.elements[k] ELSE NULL
  BY <1>1, SetsizeIs
<1> HIDE DEF g
<1>3. g.num_elem \in Nat /\ g.max < g.num_elem
  BY <1>2, ArrIs
<1>4. \A k \in 0 .. g.num_elem - 1 : g.elements[k] = IF k <= r.max THEN r.elements[k] ELSE NULL
  BY <1>1, <1>2, <1>3 DEF End
<1> QED
  BY <1>2, <1>3, <1>4 DEF g

-----------------------------------------------------------------------------
(* The members that change one slot                                          *)

\* What every member keeps, but for the few OwnershipKept and OrderKept name.
Kept == Bounded' /\ OneOwner' /\ Sound' /\ Forward

LEMMA PutKeeps ==
  ASSUME Bounded, Sound, NEW a \in Arrays, NEW g, NEW p, NEW q, Put(array[a], g, p, q), Set(a, g),
         g.max < MaxLen, p \notin live \ cut,
         live' \ cut' = ((live \ cut) \ There(array[a], q)) \cup ({p} \ {NULL}),
         live' \subseteq Objects, cut' \subseteq live'
  PROVE  Kept
<1> DEFINE r == array[a]
           N == {p} \ {NULL}
           D == There(r, q)
<1>1. Own(r) /\ Held(r) \subseteq live \ cut /\ OneOwner
  BY RowIs
<1>2. Own(g) /\ End(g) /\ Held(g) = (Held(r) \ D) \cup N /\ Fwd(r, g, N)
  BY <1>1, PutRow
<1>3. N \cap (live \ cut) = {} /\ cut' \subseteq Objects
  OBVIOUS
<1>4. live' \ cut' = ((live \ cut) \ D) \cup N
  OBVIOUS
<1>7. D \cap (live \ cut) \subseteq Held(r)
  BY <1>1, ConstantsAre, HeldIs DEF There, Bounded
<1> HIDE DEF N, D
<1>5. Bounded' /\ OneOwner' /\ Sound'
  BY <1>1, <1>2, <1>3, <1>4, <1>7, OneRow
<1>6. Forward
  BY <1>2, <1>3, ForwardRow
<1> QED
  BY <1>5, <1>6 DEF Kept

LEMMA ShiftKeeps ==
  ASSUME Bounded, Sound, NEW a \in Arrays, NEW g, NEW p, NEW q, Shift(array[a], g, p, q), Set(a, g),
         g.max < MaxLen, p \notin live \ cut,
         live' \ cut' = (live \ cut) \cup ({p} \ {NULL}),
         live' \subseteq Objects, cut' \subseteq live'
  PROVE  Kept
<1> DEFINE r == array[a]
           N == {p} \ {NULL}
<1>1. Own(r) /\ Held(r) \subseteq live \ cut /\ OneOwner
  BY RowIs
<1>7. PICK D : D = {}
  OBVIOUS
<1>2. Own(g) /\ End(g) /\ Held(g) = (Held(r) \ D) \cup N /\ Fwd(r, g, N)
  <2>1. Own(g) /\ End(g) /\ Held(g) = Held(r) \cup N /\ Fwd(r, g, N)
    BY <1>1, ShiftRow
  <2> QED
    BY <1>7, <2>1
<1>3. N \cap (live \ cut) = {} /\ cut' \subseteq Objects
  OBVIOUS
<1>4. live' \ cut' = ((live \ cut) \ D) \cup N /\ D \cap (live \ cut) \subseteq Held(r)
  BY <1>7
<1> HIDE DEF N
<1>5. Bounded' /\ OneOwner' /\ Sound'
  BY <1>1, <1>2, <1>3, <1>4, OneRow
<1>6. Forward
  BY <1>2, <1>3, ForwardRow
<1> QED
  BY <1>5, <1>6 DEF Kept

\* setsize with n more elements, all NULL.
LEMMA RoomIs ==
  ASSUME Bounded, Sound, NEW a \in Arrays, NEW n \in Int, 0 <= n, -1 <= array[a].max + n
  PROVE  LET r == array[a]
             g == setsize(r, r.max + n)
             h == grow(g, n)
         IN  /\ g \in Arrs /\ g.max = r.max /\ g.num_elem \in Nat /\ r.max + n < g.num_elem
             /\ \A k \in 0 .. g.num_elem - 1 : g.elements[k] = IF k <= r.max THEN r.elements[k] ELSE NULL
             /\ h \in Arrs /\ h.max = r.max + n /\ h.num_elem = g.num_elem /\ h.elements = g.elements
<1> DEFINE r == array[a]
           g == setsize(r, r.max + n)
<1>1. Own(r) /\ End(r) /\ r.max \in Int /\ -1 <= r.max
  BY RowIs
<1>2. r.max + n \in Int /\ -1 <= r.max + n
  BY <1>1
<1>3. /\ g \in Arrs /\ g.max = r.max /\ g.num_elem > r.max + n /\ g.num_elem \in Nat /\ g.max < g.num_elem
      /\ \A k \in 0 .. g.num_elem - 1 : g.elements[k] = IF k <= r.max THEN r.elements[k] ELSE NULL
  BY <1>1, <1>2, SetsizeRow
<1> HIDE DEF g, r
<1>4. LET h == grow(g, n) IN h \in Arrs /\ h.max = r.max + n /\ h.num_elem = g.num_elem /\ h.elements = g.elements
  BY <1>1, <1>2, <1>3, GrowIs
<1> QED
  BY <1>1, <1>2, <1>3, <1>4 DEF g, r

LEMMA StoredIs ==
  ASSUME NEW r, Own(r), NEW h, Put(r, h, NULL, -1), NEW q \in 0 .. h.max, NEW p \in Objects \cup {NULL}
  PROVE  /\ Put(r, store(h, q, p), p, q) /\ store(h, q, p).max = h.max
         /\ h.elements[q] = IF q <= r.max THEN r.elements[q] ELSE NULL
<1>1. /\ h \in Arrs /\ r.max <= h.max
      /\ \A k \in 0 .. h.num_elem - 1 :
           h.elements[k] = IF k = -1 THEN NULL ELSE IF k <= r.max THEN r.elements[k] ELSE NULL
  BY DEF Put
<1>2. h.num_elem \in Nat /\ h.max \in Int /\ h.max < h.num_elem
  BY <1>1, ArrIs
<1>3. q \in 0 .. h.num_elem - 1 /\ p \in Pointers
  BY <1>2, ConstantsAre
<1> DEFINE g == store(h, q, p)
<1>4. /\ g \in Arrs /\ g.max = h.max /\ g.num_elem = h.num_elem
      /\ \A k \in 0 .. h.num_elem - 1 : g.elements[k] = IF k = q THEN p ELSE h.elements[k]
  BY <1>1, <1>3, StoreIs
<1> HIDE DEF g
<1>5. Put(r, g, p, q)
  BY <1>1, <1>2, <1>3, <1>4 DEF Put
<1>6. h.elements[q] = IF q <= r.max THEN r.elements[q] ELSE NULL
  BY <1>1, <1>3
<1> QED
  BY <1>4, <1>5, <1>6 DEF g

LEMMA GrownIs ==
  ASSUME Bounded, Sound, NEW a \in Arrays, NEW n \in Int, 0 <= n, -1 <= array[a].max + n
  PROVE  LET h == grow(setsize(array[a], array[a].max + n), n) IN
         Put(array[a], h, NULL, -1) /\ h.max = array[a].max + n
<1> DEFINE h == grow(setsize(array[a], array[a].max + n), n)
<1>1. array[a].max \in Int /\ -1 <= array[a].max
  BY RowIs
<1>2. /\ h \in Arrs /\ h.max = array[a].max + n /\ array[a].max + n < h.num_elem /\ h.num_elem \in Nat
      /\ \A k \in 0 .. h.num_elem - 1 : h.elements[k] = IF k <= array[a].max THEN array[a].elements[k] ELSE NULL
  BY RoomIs
<1> HIDE DEF h
<1>3. Put(array[a], h, NULL, -1)
  BY <1>1, <1>2 DEF Put
<1> QED
  BY <1>2, <1>3 DEF h

LEMMA StretchedIs ==
  ASSUME Bounded, Sound, NEW a \in Arrays, NEW i \in Nat, i < MaxLen
  PROVE  LET h == Stretched(array[a], i) IN
         Put(array[a], h, NULL, -1) /\ i \in 0 .. h.max /\ h.max < MaxLen
<1> DEFINE r == array[a]
           s == setsize(r, i)
<1>1. /\ Own(r) /\ End(r) /\ r \in Arrs /\ r.num_elem \in Nat /\ r.max \in Int /\ -1 <= r.max
      /\ r.max < r.num_elem /\ r.max < MaxLen
  BY RowIs
<1>2. CASE i > r.max
  <2>1. /\ s \in Arrs /\ s.max = r.max /\ s.num_elem > i /\ s.num_elem \in Nat
        /\ \A k \in 0 .. s.num_elem - 1 : s.elements[k] = IF k <= r.max THEN r.elements[k] ELSE NULL
    BY <1>1, SetsizeRow
  <2>2. Stretched(r, i) = [s EXCEPT !.max = i]
    BY <1>2 DEF Stretched
  <2> HIDE DEF s
  <2> DEFINE h == [s EXCEPT !.max = i]
  <2>3. i \in -1 .. s.num_elem - 1
    BY <2>1
  <2>4. h \in Arrs /\ h.max = i /\ h.num_elem = s.num_elem /\ h.elements = s.elements
    BY <2>1, <2>3, MaxIs
  <2> HIDE DEF h
  <2>5. Put(r, h, NULL, -1)
    BY <1>1, <1>2, <2>1, <2>4 DEF Put
  <2>6. i \in 0 .. h.max /\ h.max < MaxLen
    BY <2>4
  <2> QED
    BY <2>2, <2>5, <2>6 DEF h
<1>3. CASE ~(i > r.max)
  <2>1. Stretched(r, i) = r
    BY <1>3 DEF Stretched
  <2>2. \A k \in 0 .. r.num_elem - 1 : r.elements[k] = IF k <= r.max THEN r.elements[k] ELSE NULL
    BY <1>1 DEF End
  <2>3. Put(r, r, NULL, -1)
    BY <1>1, <2>2 DEF Put
  <2> QED
    BY <1>1, <1>3, <2>1, <2>3
<1> QED
  BY <1>2, <1>3

LEMMA ThereIs ==
  ASSUME NEW r, NEW q
  PROVE  /\ q \in Slots(r) => There(r, q) = {r.elements[q]}
         /\ q \notin Slots(r) => There(r, q) = {}
BY DEF There

LEMMA PushBackKeeps == ASSUME Bounded, Sound, NEW a \in Arrays, PushBack(a) PROVE Kept
<1> DEFINE r == array[a]
           q == r.max + 1
           h == grow(setsize(r, r.max + 1), 1)
<1>1. PICK o \in Fresh : q < MaxLen /\ Set(a, store(h, q, o)) /\ New({o}) /\ UNCHANGED cut
  BY DEF PushBack
<1>2. /\ Own(r) /\ r.max \in Int /\ -1 <= r.max /\ live \subseteq Objects /\ cut \subseteq live
  BY RowIs
<1>3. Put(r, h, NULL, -1) /\ h.max = q
  BY <1>2, GrownIs
<1>4. o \in Objects /\ o \notin live /\ o # NULL
  BY ConstantsAre DEF Fresh
<1> HIDE DEF h
<1>5. q \in 0 .. h.max /\ q \notin Slots(r)
  BY <1>2, <1>3 DEF Slots
<1> DEFINE g == store(h, q, o)
<1> HIDE DEF q
<1>6. Put(r, g, o, q) /\ g.max = h.max
  BY <1>2, <1>3, <1>4, <1>5, StoredIs
<1>7. live' = live \cup {o} /\ cut' = cut /\ Set(a, g)
  BY <1>1 DEF New
<1> HIDE DEF g
<1>8. There(r, q) = {}
  BY <1>5, ThereIs
<1>9. live' \ cut' = ((live \ cut) \ There(r, q)) \cup ({o} \ {NULL})
  BY <1>2, <1>4, <1>7, <1>8
<1> QED
  BY <1>1, <1>2, <1>3, <1>4, <1>6, <1>7, <1>9, PutKeeps

\* Room is made, no slot that was in use changes.
LEMMA RoomKeeps ==
  ASSUME Bounded, Sound, NEW a \in Arrays, NEW g, Put(array[a], g, NULL, -1), Set(a, g),
         g.max < MaxLen, live' = live, cut' = cut
  PROVE  Kept
<1>1. live \subseteq Objects /\ cut \subseteq live
  BY RowIs
<1>2. PICK q : q = -1
  OBVIOUS
<1>3. There(array[a], q) = {}
  BY <1>2, ThereIs DEF Slots
<1>4. live' \ cut' = ((live \ cut) \ There(array[a], q)) \cup ({NULL} \ {NULL}) /\ NULL \notin live \ cut
  BY <1>1, <1>3, ConstantsAre
<1>5. Put(array[a], g, NULL, q)
  BY <1>2
<1> QED
  BY <1>1, <1>4, <1>5, PutKeeps

LEMMA PushBackThrowsKeeps == ASSUME Bounded, Sound, NEW a \in Arrays, PushBackThrows(a) PROVE Kept
<1> DEFINE r == array[a]
           g == grow(setsize(r, r.max + 1), 1)
<1>1. r.max + 1 < MaxLen /\ Set(a, g) /\ live' = live /\ cut' = cut
  BY DEF PushBackThrows
<1>2. r.max \in Int /\ -1 <= r.max
  BY RowIs
<1>3. Put(r, g, NULL, -1) /\ g.max = r.max + 1
  BY <1>2, GrownIs
<1> QED
  BY <1>1, <1>3, RoomKeeps

LEMMA StretchKeeps == ASSUME Bounded, Sound, NEW a \in Arrays, NEW i \in 0 .. MaxLen - 1, Stretch(a, i) PROVE Kept
<1>1. /\ Set(a, Stretched(array[a], i)) /\ live' = live /\ cut' = cut
  BY DEF Stretch
<1>2. LET g == Stretched(array[a], i) IN Put(array[a], g, NULL, -1) /\ g.max < MaxLen
  BY StretchedIs, ConstantsAre
<1> QED
  BY <1>1, <1>2, RoomKeeps

LEMMA ReachKeeps == ASSUME Bounded, Sound, NEW a \in Arrays, NEW i \in 0 .. MaxLen - 1, Reach(a, i) PROVE Kept
<1> DEFINE r == array[a]
           h == Stretched(r, i)
<1>1. /\ cut' = cut
      /\ IF h.elements[i] = NULL THEN \E o \in Fresh : Set(a, store(h, i, o)) /\ New({o})
         ELSE Set(a, h) /\ live' = live
  BY DEF Reach
<1>2. Own(r) /\ live \subseteq Objects /\ cut \subseteq live /\ r.max \in Int
  BY RowIs
<1>3. Put(r, h, NULL, -1) /\ i \in 0 .. h.max /\ h.max < MaxLen
  BY StretchedIs, ConstantsAre
<1> HIDE DEF h
<1>4. CASE h.elements[i] = NULL
  <2>1. PICK o \in Fresh : Set(a, store(h, i, o)) /\ New({o})
    BY <1>1, <1>4
  <2>2. o \in Objects /\ o \notin live /\ o # NULL
    BY ConstantsAre DEF Fresh
  <2> DEFINE g == store(h, i, o)
  <2>3. Put(r, g, o, i) /\ g.max = h.max /\ (i <= r.max => r.elements[i] = NULL)
    BY <1>2, <1>3, <1>4, <2>2, StoredIs
  <2>4. live' = live \cup {o} /\ Set(a, g)
    BY <2>1 DEF New
  <2> HIDE DEF g
  <2>5. There(r, i) \subseteq {NULL}
    BY <1>2, <2>3, ThereIs DEF Slots
  <2>6. live' \ cut' = ((live \ cut) \ There(r, i)) \cup ({o} \ {NULL})
    BY <1>1, <1>2, <2>2, <2>4, <2>5, ConstantsAre
  <2> QED
    BY <1>1, <1>2, <1>3, <2>2, <2>3, <2>4, <2>6, PutKeeps
<1>5. CASE h.elements[i] # NULL
  BY <1>1, <1>3, <1>5, RoomKeeps
<1> QED
  BY <1>4, <1>5

\* A slot in use gets p.
LEMMA ReplaceIs ==
  ASSUME Bounded, Sound, NEW a \in Arrays, NEW i \in Slots(array[a]), NEW p \in Objects \cup {NULL}
  PROVE  /\ Put(array[a], store(array[a], i, p), p, i) /\ store(array[a], i, p).max = array[a].max
         /\ There(array[a], i) = {array[a].elements[i]}
         /\ array[a].elements[i] \in (live \ cut) \cup {NULL}
<1> DEFINE r == array[a]
<1>1. /\ Own(r) /\ End(r) /\ r \in Arrs /\ r.num_elem \in Nat /\ r.max \in Int /\ -1 <= r.max
      /\ r.max < r.num_elem /\ Held(r) \subseteq live \ cut
  BY RowIs
<1>2. \A k \in 0 .. r.num_elem - 1 : r.elements[k] = IF k <= r.max THEN r.elements[k] ELSE NULL
  BY <1>1 DEF End
<1>3. Put(r, r, NULL, -1)
  BY <1>1, <1>2 DEF Put
<1>4. i \in 0 .. r.max
  BY DEF Slots
<1> HIDE DEF r
<1>5. Put(r, store(r, i, p), p, i) /\ store(r, i, p).max = r.max
  BY <1>1, <1>3, <1>4, StoredIs
<1>6. There(r, i) = {r.elements[i]}
  BY ThereIs DEF r
<1>7. r.elements[i] \in (live \ cut) \cup {NULL}
  BY <1>1, HeldIs DEF r
<1> QED
  BY <1>5, <1>6, <1>7 DEF r

LEMMA ClearSlotKeeps == ASSUME Bounded, Sound, NEW a \in Arrays, NEW i, ClearSlot(a, i) PROVE Kept
<1> DEFINE r == array[a]
           g == store(r, i, NULL)
           D == There(r, i)
<1>1. i \in Slots(r) /\ Set(a, g) /\ live' = live \ {r.elements[i]} /\ cut' = cut
  BY DEF ClearSlot, Delete
<1>2. live \subseteq Objects /\ cut \subseteq live /\ r.max < MaxLen
  BY RowIs
<1>3. Put(r, g, NULL, i) /\ g.max = r.max /\ D = {r.elements[i]} /\ r.elements[i] \in (live \ cut) \cup {NULL}
  BY <1>1, ReplaceIs
<1>4. NULL \notin live
  BY <1>2, ConstantsAre
<1> HIDE DEF g, D
<1>5. live' \ cut' = ((live \ cut) \ D) \cup ({NULL} \ {NULL}) /\ cut' \subseteq live'
  BY <1>1, <1>2, <1>3, <1>4
<1> QED
  BY <1>1, <1>2, <1>3, <1>4, <1>5, PutKeeps DEF D

LEMMA CutptrKeeps ==
  ASSUME Bounded, Sound, NEW a \in Arrays, NEW i \in Nat, i < array[a].num_elem, cutptr(a, i)
  PROVE  Kept
<1> DEFINE r == array[a]
           g == store(r, i, NULL)
           D == There(r, i)
<1>1. Set(a, g) /\ live' = live /\ cut' = cut \cup ({r.elements[i]} \ {NULL})
  <2>1. {i} \cap (0 .. r.num_elem - 1) = {i}
    BY RowIs
  <2>2. {r.elements[k] : k \in {i} \cap (0 .. r.num_elem - 1)} = {r.elements[i]}
    BY <2>1
  <2> QED
    BY <2>2 DEF cutptr
<1>2. live \subseteq Objects /\ cut \subseteq live /\ r.max < MaxLen
  BY RowIs
<1>4. NULL \notin live
  BY <1>2, ConstantsAre
<1>5. CASE i \in Slots(r)
  <2>1. Put(r, g, NULL, i) /\ g.max = r.max /\ D = {r.elements[i]} /\ r.elements[i] \in (live \ cut) \cup {NULL}
    BY <1>5, ReplaceIs
  <2> HIDE DEF g, D
  <2>2. live' \ cut' = ((live \ cut) \ D) \cup ({NULL} \ {NULL}) /\ cut' \subseteq live'
    BY <1>1, <1>2, <1>4, <2>1
  <2> QED
    BY <1>1, <1>2, <1>4, <2>1, <2>2, PutKeeps DEF D
<1>6. CASE i \notin Slots(r)
  <2>1. /\ End(r) /\ r \in Arrs /\ r.num_elem \in Nat /\ r.max \in Int /\ -1 <= r.max /\ r.max < r.num_elem
    BY RowIs
  <2>2. i \in 0 .. r.num_elem - 1 /\ i > r.max
    BY <1>6, <2>1 DEF Slots
  <2>3. r.elements[i] = NULL
    BY <2>1, <2>2 DEF End
  <2>4. /\ g \in Arrs /\ g.max = r.max /\ g.num_elem = r.num_elem
        /\ \A k \in 0 .. r.num_elem - 1 : g.elements[k] = IF k = i THEN NULL ELSE r.elements[k]
    BY <2>1, <2>2, StoreIs, ConstantsAre
  <2>5. \A k \in 0 .. r.num_elem - 1 : g.elements[k] = IF k <= r.max THEN r.elements[k] ELSE NULL
    BY <2>1, <2>3, <2>4 DEF End
  <2>6. Put(r, g, NULL, -1)
    BY <2>1, <2>4, <2>5 DEF Put
  <2> QED
    BY <1>1, <1>2, <2>3, <2>4, <2>6, RoomKeeps
<1> QED
  BY <1>5, <1>6

\* Behind the block cutptr changes no slot in use, and leaves the bounds.
LEMMA CutptrBehind ==
  ASSUME Bounded, Sound, NEW a \in Arrays, NEW i \in Nat, ~(i < array[a].num_elem), cutptr(a, i)
  PROVE  ~InBounds' /\ OneOwner'
<1> DEFINE r == array[a]
           g == store(r, i, NULL)
<1>1. array' = [array EXCEPT ![a] = g] /\ live' = live /\ cut' = cut \cup ({r.elements[k] : k \in {i} \cap (0 .. r.num_elem - 1)} \ {NULL})
  BY DEF cutptr, Set
<1>2. /\ r.num_elem \in Nat /\ r.max \in Int /\ -1 <= r.max /\ r.max < r.num_elem
      /\ r.elements \in [0 .. r.num_elem - 1 -> Pointers]
      /\ r = [elements |-> r.elements, num_elem |-> r.num_elem, max |-> r.max]
  BY ArrIs DEF Bounded
<1>3. {i} \cap (0 .. r.num_elem - 1) = {}
  BY <1>2
<1>4. cut' = cut
  BY <1>1, <1>3
<1> DEFINE f == [k \in DOMAIN r.elements \cup {i} |-> IF k = i THEN NULL ELSE r.elements[k]]
<1>5. /\ DOMAIN f = (0 .. r.num_elem - 1) \cup {i}
      /\ \A k \in 0 .. r.num_elem - 1 : f[k] = r.elements[k]
  BY <1>2
<1>6. g = [r EXCEPT !.elements = f]
  BY DEF store
<1> HIDE DEF f
<1>7. g.elements = f /\ g.num_elem = r.num_elem /\ g.max = r.max
  BY <1>2, <1>6
<1> HIDE DEF g
<1>8. array'[a] = g /\ \A c \in Arrays : c # a => array'[c] = array[c]
  BY <1>1 DEF Bounded
<1>9. ~InBounds'
  <2>1. DOMAIN g.elements # 0 .. g.num_elem - 1
    BY <1>2, <1>5, <1>7
  <2> QED
    BY <1>8, <2>1 DEF InBounds
<1>10. ASSUME NEW c \in Arrays, NEW k \in 0 .. MaxLen - 1
       PROVE  /\ array'[c].max = array[c].max
              /\ k <= array[c].max => array'[c].elements[k] = array[c].elements[k]
  <2>1. CASE c = a
    <3>1. k <= r.max => k \in 0 .. r.num_elem - 1
      BY <1>2, ConstantsAre
    <3> QED
      BY <1>5, <1>7, <1>8, <2>1, <3>1
  <2>2. CASE c # a
    BY <1>8, <2>2
  <2> QED
    BY <2>1, <2>2
<1>11. \A p \in Arrays \X (0 .. MaxLen - 1) :
         /\ array'[p[1]].max = array[p[1]].max
         /\ p[2] <= array[p[1]].max => array'[p[1]].elements[p[2]] = array[p[1]].elements[p[2]]
  BY <1>10
<1>12. Places' = Places /\ \A p \in Places : At(p)' = At(p)
  BY <1>11 DEF Places, At
<1>13. OneOwner
  BY DEF Sound
<1> QED
  BY <1>1, <1>4, <1>9, <1>12, <1>13 DEF OneOwner

LEMMA PasteptrKeeps ==
  ASSUME Bounded, Sound, NEW a \in Arrays, NEW i \in 0 .. MaxLen - 1, NEW p, pasteptr(a, i, p)
  PROVE  Kept
<1> DEFINE r == array[a]
           h == Stretched(r, i)
           g == store(h, i, p)
           D == There(r, i)
<1>1. p \in cut \cup {NULL} /\ Set(a, g) /\ live' = live \ {h.elements[i]} /\ cut' = cut \ {p}
  BY DEF pasteptr, Delete
<1>2. /\ Own(r) /\ live \subseteq Objects /\ cut \subseteq live /\ r.max \in Int
      /\ Held(r) \subseteq live \ cut
  BY RowIs
<1>3. Put(r, h, NULL, -1) /\ i \in 0 .. h.max /\ h.max < MaxLen
  BY StretchedIs, ConstantsAre
<1>4. NULL \notin live /\ p \in Objects \cup {NULL}
  BY <1>1, <1>2, ConstantsAre
<1> HIDE DEF h
<1>5. Put(r, g, p, i) /\ g.max = h.max /\ h.elements[i] = IF i <= r.max THEN r.elements[i] ELSE NULL
  BY <1>2, <1>3, <1>4, StoredIs
<1>6. D \cup {NULL} = {h.elements[i], NULL} /\ h.elements[i] \in (live \ cut) \cup {NULL}
  <2>1. CASE i <= r.max
    <3>1. i \in Slots(r) /\ h.elements[i] = r.elements[i]
      BY <1>2, <1>5, <2>1 DEF Slots
    <3> QED
      BY <1>2, <3>1, HeldIs, ThereIs
  <2>2. CASE ~(i <= r.max)
    <3>1. i \notin Slots(r) /\ h.elements[i] = NULL
      BY <1>2, <1>5, <2>2 DEF Slots
    <3> QED
      BY <3>1, ThereIs
  <2> QED
    BY <2>1, <2>2
<1> HIDE DEF g, D
<1>7. live' \ cut' = ((live \ cut) \ D) \cup ({p} \ {NULL})
  BY <1>1, <1>2, <1>4, <1>6
<1>8. cut' \subseteq live' /\ live' \subseteq Objects /\ p \notin live \ cut
  BY <1>1, <1>2, <1>4, <1>6
<1> QED
  BY <1>1, <1>3, <1>5, <1>7, <1>8, PutKeeps DEF D

-----------------------------------------------------------------------------
(* The members that shift what is behind a slot                              *)

\* From slot i on all is n slots further; the slots it came from are as they
\* were.
MovedUp(r, h, i, n) ==
  /\ h \in Arrs /\ h.max = r.max + 1 /\ r.max + n < h.num_elem /\ h.num_elem \in Nat
  /\ \A k \in 0 .. h.num_elem - 1 : h.elements[k] =
       IF i + n <= k /\ k <= r.max + n THEN r.elements[k - n]
       ELSE IF k <= r.max THEN r.elements[k] ELSE NULL

LEMMA MovedUpIs ==
  ASSUME Bounded, Sound, NEW a \in Arrays, NEW n \in Nat \ {0}, NEW i \in 0 .. array[a].max + 1
  PROVE  LET r == array[a]
         IN  MovedUp(r, grow(memmove(setsize(r, r.max + n), i + n, i, r.max - i + 1), 1), i, n)
<1> DEFINE r == array[a]
           g == setsize(r, r.max + n)
           to == i + n
           z == r.max - i + 1
           m == memmove(g, to, i, z)
<1>1. r.max \in Int /\ -1 <= r.max
  BY RowIs
<1>2. /\ g \in Arrs /\ g.max = r.max /\ g.num_elem \in Nat /\ r.max + n < g.num_elem
      /\ \A k \in 0 .. g.num_elem - 1 : g.elements[k] = IF k <= r.max THEN r.elements[k] ELSE NULL
  BY <1>1, RoomIs
<1> HIDE DEF g
<1>3. to \in Nat /\ i \in Nat /\ z \in Int /\ to + z <= g.num_elem
  BY <1>1, <1>2
<1>7. to = i + n /\ z = r.max - i + 1
  OBVIOUS
<1> HIDE DEF to, z
<1>4. /\ m \in Arrs /\ m.max = g.max /\ m.num_elem = g.num_elem
      /\ \A k \in 0 .. g.num_elem - 1 : m.elements[k] =
           IF k \notin to .. to + z - 1 THEN g.elements[k]
           ELSE IF k - to + i < g.num_elem THEN g.elements[k - to + i] ELSE Wild
  BY SMTT(40), <1>2, <1>3, MemmoveIs
<1> HIDE DEF m
<1>5. LET h == grow(m, 1) IN h \in Arrs /\ h.max = r.max + 1 /\ h.num_elem = g.num_elem /\ h.elements = m.elements
  <2>1. -1 <= m.max + 1 /\ m.max + 1 < m.num_elem /\ m.max = r.max /\ 1 \in Int
    BY <1>1, <1>2, <1>4
  <2>2. m \in Arrs
    BY <1>4
  <2>3. LET h == grow(m, 1) IN h \in Arrs /\ h.max = m.max + 1 /\ h.num_elem = m.num_elem /\ h.elements = m.elements
    BY <2>1, <2>2, GrowIs
  <2> QED
    BY <1>4, <2>1, <2>3
<1>6. ASSUME NEW k \in 0 .. g.num_elem - 1
      PROVE  m.elements[k] = IF i + n <= k /\ k <= r.max + n THEN r.elements[k - n]
                             ELSE IF k <= r.max THEN r.elements[k] ELSE NULL
  <2>1. CASE i + n <= k /\ k <= r.max + n
    <3>1. /\ k \in to .. to + z - 1 /\ k - to + i = k - n /\ k - n < g.num_elem
          /\ k - n \in 0 .. g.num_elem - 1 /\ k - n <= r.max
      BY <1>1, <1>2, <1>7, <2>1
    <3>2. m.elements[k] = g.elements[k - n]
      BY <1>4, <3>1
    <3> QED
      BY <1>2, <2>1, <3>1, <3>2
  <2>2. CASE ~(i + n <= k /\ k <= r.max + n)
    <3>1. k \notin to .. to + z - 1
      BY <1>1, <1>2, <1>7, <2>2
    <3>2. m.elements[k] = g.elements[k]
      BY <1>4, <3>1
    <3> QED
      BY <1>2, <2>2, <3>2
  <2> QED
    BY <2>1, <2>2
<1> QED
  BY SMTT(40), <1>2, <1>5, <1>6 DEF MovedUp, m, g, to, z

\* What stays in a slot after a shift by one is stored over.
LEMMA ShiftedIs ==
  ASSUME NEW r \in Arrs, NEW h, NEW i \in 0 .. r.max + 1, MovedUp(r, h, i, 1), NEW p \in Objects \cup {NULL}
  PROVE  Shift(r, store(h, i, p), p, i) /\ store(h, i, p).max = r.max + 1
<1>1. r.max \in Int /\ -1 <= r.max
  BY ArrIs
<1>2. /\ h \in Arrs /\ h.max = r.max + 1 /\ r.max + 1 < h.num_elem /\ h.num_elem \in Nat
      /\ \A k \in 0 .. h.num_elem - 1 : h.elements[k] =
           IF i + 1 <= k /\ k <= r.max + 1 THEN r.elements[k - 1]
           ELSE IF k <= r.max THEN r.elements[k] ELSE NULL
  BY DEF MovedUp
<1>3. i \in 0 .. h.num_elem - 1 /\ p \in Pointers
  BY <1>1, <1>2, ConstantsAre
<1> DEFINE g == store(h, i, p)
<1>4. /\ g \in Arrs /\ g.max = h.max /\ g.num_elem = h.num_elem
      /\ \A k \in 0 .. h.num_elem - 1 : g.elements[k] = IF k = i THEN p ELSE h.elements[k]
  BY <1>2, <1>3, StoreIs
<1> HIDE DEF g
<1>5. \A k \in 0 .. g.num_elem - 1 :
        g.elements[k] = IF k = i THEN p ELSE IF k < i THEN r.elements[k]
                        ELSE IF k <= g.max THEN r.elements[k - 1] ELSE NULL
  BY <1>1, <1>2, <1>3, <1>4
<1>6. Shift(r, g, p, i)
  BY <1>1, <1>2, <1>4, <1>5 DEF Shift
<1> QED
  BY <1>2, <1>4, <1>6 DEF g

LEMMA ShiftedUp ==
  ASSUME Bounded, Sound, NEW a \in Arrays
  PROVE  MovedUp(array[a], Shifted(array[a]), 0, 1)
<1> DEFINE r == array[a]
<1>1. r.max \in Int /\ -1 <= r.max
  BY RowIs
<1>2. PICK i \in 0 .. r.max + 1 : i = 0
  BY <1>1
<1>3. MovedUp(r, grow(memmove(setsize(r, r.max + 1), i + 1, i, r.max - i + 1), 1), i, 1)
  BY MovedUpIs
<1>4. i + 1 = 1 /\ r.max - i + 1 = r.max + 1
  BY <1>1, <1>2
<1> QED
  BY <1>2, <1>3, <1>4 DEF Shifted

LEMMA PartedUp ==
  ASSUME Bounded, Sound, NEW a \in Arrays, NEW n \in Nat \ {0}, NEW i \in Nat, i <= array[a].max
  PROVE  MovedUp(array[a], Parted(array[a], i, n), i, n)
<1>1. array[a].max \in Int
  BY RowIs
<1>2. i \in 0 .. array[a].max + 1
  BY <1>1
<1> QED
  BY <1>2, MovedUpIs DEF Parted

\* At the end insert makes room only.
LEMMA PartedEnd ==
  ASSUME Bounded, Sound, NEW a \in Arrays, NEW n \in Nat, NEW i \in Nat, i = array[a].max + 1
  PROVE  LET r == array[a]
             g == Parted(r, i, n)
         IN  /\ Put(r, g, NULL, -1) /\ g.max = r.max /\ r.max + n < g.num_elem /\ g.num_elem \in Nat
             /\ g = setsize(r, r.max + n)
<1> DEFINE r == array[a]
           g == setsize(r, r.max + n)
<1>1. r.max \in Int /\ -1 <= r.max
  BY RowIs
<1>2. /\ g \in Arrs /\ g.max = r.max /\ g.num_elem \in Nat /\ r.max + n < g.num_elem
      /\ \A k \in 0 .. g.num_elem - 1 : g.elements[k] = IF k <= r.max THEN r.elements[k] ELSE NULL
  BY <1>1, RoomIs
<1>3. Parted(r, i, n) = g
  BY <1>1 DEF Parted
<1> HIDE DEF g
<1>4. Put(r, g, NULL, -1)
  BY <1>1, <1>2 DEF Put
<1> QED
  BY <1>2, <1>3, <1>4 DEF g

LEMMA PushFrontKeeps == ASSUME Bounded, Sound, NEW a \in Arrays, PushFront(a) PROVE Kept
<1> DEFINE r == array[a]
           h == Shifted(r)
<1>1. PICK o \in Fresh : r.max + 1 < MaxLen /\ Set(a, store(h, 0, o)) /\ New({o}) /\ UNCHANGED cut
  BY DEF PushFront
<1>2. r \in Arrs /\ r.max \in Int /\ -1 <= r.max /\ live \subseteq Objects /\ cut \subseteq live
  BY RowIs
<1>3. o \in Objects /\ o \notin live /\ o # NULL
  BY ConstantsAre DEF Fresh
<1>4. PICK q \in 0 .. r.max + 1 : q = 0
  BY <1>2
<1>5. MovedUp(r, h, q, 1)
  BY <1>4, ShiftedUp
<1> DEFINE g == store(h, q, o)
<1>6. Shift(r, g, o, q) /\ g.max = r.max + 1
  BY <1>2, <1>3, <1>5, ShiftedIs
<1>7. live' = live \cup {o} /\ cut' = cut /\ Set(a, g)
  BY <1>1, <1>4 DEF New
<1> HIDE DEF g
<1>8. live' \ cut' = (live \ cut) \cup ({o} \ {NULL})
  BY <1>2, <1>3, <1>7
<1> QED
  BY <1>1, <1>2, <1>3, <1>6, <1>7, <1>8, ShiftKeeps

LEMMA InsertHoleKeeps == ASSUME Bounded, Sound, NEW a \in Arrays, NEW i \in Nat, InsertHole(a, i) PROVE Kept
<1> DEFINE r == array[a]
           h == Parted(r, i, 1)
           g == store(h, i, NULL)
<1>1. /\ i <= r.max + 1 /\ r.max + 1 < MaxLen /\ live' = live /\ cut' = cut
      /\ Set(a, IF i <= r.max THEN g ELSE h)
  BY DEF InsertHole
<1>2. r \in Arrs /\ r.max \in Int /\ -1 <= r.max /\ live \subseteq Objects /\ cut \subseteq live /\ r.max < MaxLen
  BY RowIs
<1>3. CASE i <= r.max
  <2>1. MovedUp(r, h, i, 1) /\ i \in 0 .. r.max + 1
    BY <1>2, <1>3, PartedUp
  <2>2. Shift(r, g, NULL, i) /\ g.max = r.max + 1
    BY <1>2, <2>1, ShiftedIs
  <2>3. NULL \notin live \ cut /\ live' \ cut' = (live \ cut) \cup ({NULL} \ {NULL}) /\ Set(a, g)
    BY <1>1, <1>2, <1>3, ConstantsAre
  <2> HIDE DEF g
  <2> QED
    BY <1>1, <1>2, <2>2, <2>3, ShiftKeeps
<1>4. CASE ~(i <= r.max)
  <2>1. i = r.max + 1 /\ Set(a, h)
    BY <1>1, <1>2, <1>4
  <2>2. Put(r, h, NULL, -1) /\ h.max = r.max
    BY <2>1, PartedEnd
  <2> QED
    BY <1>1, <1>2, <2>1, <2>2, RoomKeeps
<1> QED
  BY <1>3, <1>4

\* A store behind the end changes nothing an array holds.
LEMMA BehindRow ==
  ASSUME NEW r, Own(r), NEW h, Put(r, h, NULL, -1), h.max = r.max, NEW i \in Nat, i = r.max + 1, i < h.num_elem,
         NEW o \in Objects
  PROVE  LET g == store(h, i, o) IN g \in Arrs /\ g.max = r.max /\ Own(g) /\ Held(g) = Held(r) /\ Fwd(r, g, {})
<1> DEFINE g == store(h, i, o)
<1>1. r.max \in Int /\ -1 <= r.max
  BY OwnIs
<1>2. /\ h \in Arrs
      /\ \A k \in 0 .. h.num_elem - 1 :
           h.elements[k] = IF k = -1 THEN NULL ELSE IF k <= r.max THEN r.elements[k] ELSE NULL
  BY DEF Put
<1>3. i \in 0 .. h.num_elem - 1 /\ o \in Pointers /\ h.num_elem \in Nat
  BY <1>2, ConstantsAre, ArrIs
<1>4. /\ g \in Arrs /\ g.max = h.max /\ g.num_elem = h.num_elem
      /\ \A k \in 0 .. h.num_elem - 1 : g.elements[k] = IF k = i THEN o ELSE h.elements[k]
  BY <1>2, <1>3, StoreIs
<1> HIDE DEF g
<1>5. Slots(g) = Slots(r) /\ \A k \in Slots(g) : k \in Int /\ g.elements[k] = r.elements[k]
  <2>1. Slots(r) = 0 .. r.max /\ Slots(g) = 0 .. r.max
    BY <1>4 DEF Slots
  <2>2. \A k \in 0 .. r.max : k \in 0 .. h.num_elem - 1 /\ ~(k = i) /\ ~(k = -1) /\ k <= r.max
    BY <1>1, <1>3
  <2> QED
    BY <1>2, <1>4, <2>1, <2>2
<1>6. Own(g)
  BY <1>4, <1>5 DEF Own
<1>7. Held(g) = Held(r)
  BY <1>5 DEF Held
<1>8. ASSUME NEW k \in Slots(g), NEW l \in Slots(g), k < l
      PROVE  \E c, d \in Slots(r) : c <= d /\ r.elements[c] = g.elements[k] /\ r.elements[d] = g.elements[l]
  <2>1. k <= l
    BY <1>5, <1>8
  <2> QED
    BY <1>5, <2>1
<1>9. Fwd(r, g, {})
  BY <1>8 DEF Fwd
<1> QED
  BY <1>4, <1>6, <1>7, <1>9 DEF g

\* At the end the object is stored behind it: it is lost, and the block is no
\* longer empty there.
LEMMA InsertOneKeeps ==
  ASSUME Bounded, Sound, NEW a \in Arrays, NEW i \in Nat, InsertOne(a, i)
  PROVE  Bounded' /\ OneOwner' /\ Forward /\ (Sound' \/ i > array[a].max)
<1> DEFINE r == array[a]
           h == Parted(r, i, 1)
<1>1. PICK o \in Fresh : /\ i <= r.max + 1 /\ r.max + 1 < MaxLen /\ Set(a, store(h, i, o))
                         /\ New({o}) /\ UNCHANGED cut
  BY DEF InsertOne
<1>2. /\ r \in Arrs /\ r.max \in Int /\ -1 <= r.max /\ live \subseteq Objects /\ cut \subseteq live
      /\ Own(r) /\ OneOwner /\ Held(r) \subseteq live \ cut /\ r.max < MaxLen /\ cut \subseteq Objects
  BY RowIs
<1>3. o \in Objects /\ o \notin live /\ o # NULL
  BY ConstantsAre DEF Fresh
<1> DEFINE g == store(h, i, o)
<1>4. live' = live \cup {o} /\ cut' = cut /\ Set(a, g)
  BY <1>1 DEF New
<1>5. live' \ cut' = (live \ cut) \cup ({o} \ {NULL})
  BY <1>2, <1>3, <1>4
<1>6. CASE i <= r.max
  <2>1. MovedUp(r, h, i, 1)
    BY <1>6, PartedUp
  <2>3. i \in 0 .. r.max + 1
    BY <1>2, <1>6
  <2>2. Shift(r, g, o, i) /\ g.max = r.max + 1
    BY <1>2, <1>3, <2>1, <2>3, ShiftedIs
  <2> HIDE DEF g
  <2>4. Kept
    BY <1>1, <1>2, <1>3, <1>4, <1>5, <2>2, ShiftKeeps
  <2> QED
    BY <2>4 DEF Kept
<1>7. CASE ~(i <= r.max)
  <2>1. i = r.max + 1
    BY <1>1, <1>2, <1>7
  <2>2. Put(r, h, NULL, -1) /\ h.max = r.max /\ r.max + 1 < h.num_elem /\ h.num_elem \in Nat
    BY <2>1, PartedEnd
  <2>7. g \in Arrs /\ g.max = r.max /\ Own(g) /\ Held(g) = Held(r) /\ Fwd(r, g, {})
    BY <1>2, <1>3, <2>1, <2>2, BehindRow
  <2> HIDE DEF g
  <2>8. PICK E : E = {}
    OBVIOUS
  <2>9. /\ Held(g) = (Held(r) \ E) \cup E /\ E \cap (live \ cut) = {} /\ E \cap (live \ cut) \subseteq Held(r)
        /\ ((live \ cut) \ E) \cup E \subseteq live' \ cut' /\ Fwd(r, g, E)
    BY <1>5, <2>7, <2>8
  <2>10. g.max < MaxLen /\ live' \subseteq Objects /\ cut' \subseteq Objects
    BY <1>2, <1>3, <1>4, <2>7
  <2>11. Bounded' /\ OneOwner'
    BY <1>2, <1>4, <2>7, <2>9, <2>10, OneRow
  <2>12. Forward
    BY <1>4, <2>9, ForwardRow
  <2> QED
    BY <1>2, <1>7, <2>11, <2>12
<1> QED
  BY <1>6, <1>7

-----------------------------------------------------------------------------
(* erase                                                                     *)

\* The slots i .. i + d - 1 of r are gone and the others have closed up.
Closed(r, g, i, d) ==
  /\ g \in Arrs /\ i \in Slots(r) /\ d \in Nat /\ i + d <= r.max + 1 /\ g.max = r.max - d
  /\ \A k \in Slots(g) : g.elements[k] = IF k < i THEN r.elements[k] ELSE r.elements[k + d]
Gone(r, i, d) == {r.elements[k] : k \in i .. i + d - 1}

LEMMA ClosedRow ==
  ASSUME NEW r, Own(r), NEW g, NEW i, NEW d, Closed(r, g, i, d)
  PROVE  Own(g) /\ Held(g) = (Held(r) \ Gone(r, i, d)) \cup {} /\ Fwd(r, g, {})
<1> DEFINE D == Gone(r, i, d)
<1>1. /\ r.max \in Int /\ -1 <= r.max
      /\ \A k \in Slots(r) : r.elements[k] \in Objects \cup {NULL}
      /\ \A k, l \in Slots(r) : r.elements[k] # NULL /\ r.elements[k] = r.elements[l] => k = l
  BY OwnIs
<1>2. /\ g \in Arrs /\ i \in Slots(r) /\ d \in Nat /\ i + d <= r.max + 1 /\ g.max = r.max - d
      /\ \A k \in Slots(g) : g.elements[k] = IF k < i THEN r.elements[k] ELSE r.elements[k + d]
  BY DEF Closed
<1>3. Slots(r) = 0 .. r.max /\ Slots(g) = 0 .. r.max - d /\ i \in Nat
  BY <1>2 DEF Slots
<1>4. \A k \in Slots(g) : \/ k < i /\ k \in Slots(r) /\ g.elements[k] = r.elements[k]
                          \/ k >= i /\ k + d >= i /\ k + d \in Slots(r) /\ g.elements[k] = r.elements[k + d]
  BY SMTT(40), <1>1, <1>2, <1>3
<1>5. ASSUME NEW k \in Slots(r) PROVE r.elements[k] \in D \/ \E l \in Slots(g) : g.elements[l] = r.elements[k]
  <2>1. CASE k < i
    <3>1. k \in Slots(g) /\ g.elements[k] = r.elements[k]
      BY <1>1, <1>2, <1>3, <2>1
    <3> QED
      BY <3>1
  <2>2. CASE ~(k < i) /\ k < i + d
    <3>1. k \in i .. i + d - 1
      BY <1>2, <1>3, <2>2
    <3> QED
      BY <3>1 DEF Gone
  <2>3. CASE ~(k < i) /\ ~(k < i + d)
    <3>1. PICK l \in Int : l = k - d
      BY <1>2, <1>3
    <3>2. l \in Slots(g) /\ ~(l < i) /\ l + d = k
      BY <1>1, <1>2, <1>3, <2>3, <3>1
    <3>3. g.elements[l] = r.elements[k]
      BY <1>2, <3>2
    <3> QED
      BY <3>2, <3>3
  <2> QED
    BY <2>1, <2>2, <2>3
<1>6. ASSUME NEW k \in Slots(g), g.elements[k] \in D \ {NULL} PROVE FALSE
  <2>0. \E l \in i .. i + d - 1 : r.elements[l] = g.elements[k]
    BY <1>6 DEF Gone
  <2>1. PICK l \in i .. i + d - 1 : g.elements[k] = r.elements[l]
    BY <2>0
  <2>2. l \in Slots(r) /\ l \in Int /\ i <= l /\ l < i + d
    BY <1>1, <1>2, <1>3
  <2>3. CASE k < i /\ k \in Slots(r) /\ g.elements[k] = r.elements[k]
    <3>1. r.elements[k] # NULL /\ r.elements[k] = r.elements[l] /\ k \in Slots(r) /\ l \in Slots(r)
      BY <1>6, <2>1, <2>2, <2>3
    <3>2. k = l
      BY <1>1, <3>1
    <3> QED
      BY <1>3, <2>2, <2>3, <3>2
  <2>4. CASE k >= i /\ k + d \in Slots(r) /\ g.elements[k] = r.elements[k + d]
    <3>1. k + d = l
      BY <1>1, <1>6, <2>1, <2>2, <2>4
    <3> QED
      BY <1>2, <1>3, <2>2, <2>4, <3>1
  <2> QED
    BY <1>4, <2>3, <2>4
<1>7. PICK N \in SUBSET Objects : N = {}
  OBVIOUS
<1> HIDE DEF D
<1>8. Moved(r, g, N, D, i, d)
  BY <1>2, <1>3, <1>4, <1>5, <1>6, <1>7 DEF Moved
<1>9. Own(g) /\ Held(g) = (Held(r) \ D) \cup N /\ Fwd(r, g, N)
  BY <1>8, Arranged
<1> QED
  BY <1>7, <1>9 DEF D

LEMMA ClosedKeeps ==
  ASSUME Bounded, Sound, NEW a \in Arrays, NEW g, NEW i, NEW d, Closed(array[a], g, i, d), Set(a, g),
         live' = live \ Gone(array[a], i, d), cut' = cut
  PROVE  Bounded' /\ OneOwner' /\ Forward /\ (End(g) => Sound')
<1> DEFINE r == array[a]
           D == Gone(r, i, d)
<1>1. /\ Own(r) /\ Held(r) \subseteq live \ cut /\ live \subseteq Objects /\ cut \subseteq live /\ OneOwner
      /\ r.max \in Int /\ r.max < MaxLen /\ cut \subseteq Objects
  BY RowIs
<1>2. Own(g) /\ Held(g) = (Held(r) \ D) \cup {} /\ Fwd(r, g, {})
  BY <1>1, ClosedRow
<1>3. i \in Slots(r) /\ d \in Nat /\ i + d <= r.max + 1 /\ g.max = r.max - d
  BY DEF Closed
<1>4. \A k \in i .. i + d - 1 : k \in Slots(r)
  BY <1>1, <1>3 DEF Slots
<1>5. D \subseteq Held(r) \cup {NULL} /\ NULL \notin live
  BY <1>1, <1>4, HeldIs, ConstantsAre DEF Gone
<1>6. PICK N : N = {}
  OBVIOUS
<1> HIDE DEF D
<1>7. D \cap (live \ cut) \subseteq Held(r) /\ D \cap cut = {}
  BY <1>1, <1>5
<1>8. live' \ cut' = ((live \ cut) \ D) \cup N /\ cut' \subseteq live' /\ live' \subseteq Objects /\ cut' \subseteq Objects
  BY <1>1, <1>6, <1>7 DEF D
<1>9. g.max < MaxLen /\ Held(g) = (Held(r) \ D) \cup N /\ N \cap (live \ cut) = {} /\ Fwd(r, g, N)
  BY <1>1, <1>2, <1>3, <1>6, ConstantsAre
<1>10. Bounded' /\ OneOwner' /\ (End(g) => Sound')
  BY <1>1, <1>2, <1>7, <1>8, <1>9, OneRow
<1>11. Forward
  BY <1>9, ForwardRow
<1> QED
  BY <1>10, <1>11

\* What memmove makes of r: the last of what it moves may lie behind the end.
LEMMA MovedDownIs ==
  ASSUME NEW r \in Arrs, NEW i \in Slots(r), NEW j \in i .. r.max + 1
  PROVE  LET m == memmove(r, i, j, r.max - i) IN
         /\ m \in Arrs /\ m.max = r.max /\ m.num_elem = r.num_elem
         /\ \A k \in 0 .. r.num_elem - 1 :
              (k < i \/ k >= r.max => m.elements[k] = r.elements[k]) /\
              (k >= i /\ k < r.max /\ k + (j - i) < r.num_elem => m.elements[k] = r.elements[k + (j - i)])
<1> DEFINE z == r.max - i
           m == memmove(r, i, j, z)
<1>1. r.max \in Int /\ -1 <= r.max /\ r.num_elem \in Nat /\ r.max < r.num_elem
  BY ArrIs
<1>2. i \in Nat /\ i <= r.max /\ j \in Nat /\ z \in Int /\ i + z <= r.num_elem /\ z = r.max - i
  BY <1>1 DEF Slots
<1> HIDE DEF z
<1>3. /\ m \in Arrs /\ m.max = r.max /\ m.num_elem = r.num_elem
      /\ \A k \in 0 .. r.num_elem - 1 : m.elements[k] =
           IF k \notin i .. i + z - 1 THEN r.elements[k]
           ELSE IF k - i + j < r.num_elem THEN r.elements[k - i + j] ELSE Wild
  BY <1>1, <1>2, MemmoveIs
<1> HIDE DEF m
<1>4. ASSUME NEW k \in 0 .. r.num_elem - 1
      PROVE  /\ k < i \/ k >= r.max => m.elements[k] = r.elements[k]
             /\ k >= i /\ k < r.max /\ k + (j - i) < r.num_elem => m.elements[k] = r.elements[k + (j - i)]
  <2>1. ASSUME k < i \/ k >= r.max PROVE m.elements[k] = r.elements[k]
    <3>1. k \notin i .. i + z - 1
      BY <1>1, <1>2, <2>1
    <3> QED
      BY <1>3, <3>1
  <2>2. ASSUME k >= i, k < r.max, k + (j - i) < r.num_elem PROVE m.elements[k] = r.elements[k + (j - i)]
    <3>1. k \in i .. i + z - 1 /\ k - i + j = k + (j - i) /\ k - i + j < r.num_elem
      BY <1>1, <1>2, <2>2
    <3>2. m.elements[k] = r.elements[k - i + j]
      BY <1>3, <3>1
    <3> QED
      BY <3>1, <3>2
  <2> QED
    BY <2>1, <2>2
<1> QED
  BY <1>3, <1>4 DEF m, z

LEMMA EraseKeeps == ASSUME Bounded, Sound, NEW a \in Arrays, NEW i, Erase(a, i) PROVE Kept
<1> DEFINE r == array[a]
           m == memmove(r, i, i + 1, r.max - i)
           s == store(m, r.max, NULL)
           g == grow(s, -1)
<1>1. i \in Slots(r) /\ Set(a, g) /\ live' = live \ {r.elements[i]} /\ cut' = cut
  BY DEF Erase, Delete
<1>2. /\ Own(r) /\ End(r) /\ r \in Arrs /\ r.num_elem \in Nat /\ r.max \in Int /\ -1 <= r.max /\ r.max < r.num_elem
  BY RowIs
<1>3. i \in Nat /\ i <= r.max /\ i + 1 \in i .. r.max + 1 /\ (i + 1) - i = 1
  BY <1>1, <1>2 DEF Slots
<1>4. /\ m \in Arrs /\ m.max = r.max /\ m.num_elem = r.num_elem
      /\ \A k \in 0 .. r.num_elem - 1 :
           (k < i \/ k >= r.max => m.elements[k] = r.elements[k]) /\
           (k >= i /\ k < r.max /\ k + ((i + 1) - i) < r.num_elem => m.elements[k] = r.elements[k + ((i + 1) - i)])
  BY <1>1, <1>2, <1>3, MovedDownIs
<1>5. \A k \in 0 .. r.num_elem - 1 :
        (k < i \/ k >= r.max => m.elements[k] = r.elements[k]) /\
        (k >= i /\ k < r.max /\ k + 1 < r.num_elem => m.elements[k] = r.elements[k + 1])
  BY <1>3, <1>4
<1> HIDE DEF m
<1>6. PICK q \in 0 .. m.num_elem - 1 : q = r.max
  BY <1>2, <1>3, <1>4
<1>7. /\ s \in Arrs /\ s.max = m.max /\ s.num_elem = m.num_elem
      /\ \A k \in 0 .. m.num_elem - 1 : s.elements[k] = IF k = r.max THEN NULL ELSE m.elements[k]
  BY <1>4, <1>6, StoreIs, ConstantsAre
<1> HIDE DEF s
<1>8. g \in Arrs /\ g.max = s.max + -1 /\ g.num_elem = s.num_elem /\ g.elements = s.elements
  <2>1. -1 <= s.max + -1 /\ s.max + -1 < s.num_elem /\ -1 \in Int
    BY <1>2, <1>3, <1>4, <1>7
  <2> QED
    BY <1>7, <2>1, GrowIs
<1> HIDE DEF g
<1>9. g.max = r.max - 1
  BY <1>2, <1>4, <1>7, <1>8
<1>10. \A k \in Slots(g) : g.elements[k] = IF k < i THEN r.elements[k] ELSE r.elements[k + 1]
  BY <1>2, <1>3, <1>4, <1>5, <1>7, <1>8, <1>9 DEF Slots
<1>11. PICK d \in Nat : d = 1
  OBVIOUS
<1>12. Closed(r, g, i, d)
  BY <1>1, <1>2, <1>3, <1>8, <1>9, <1>10, <1>11 DEF Closed
<1>13. Gone(r, i, d) = {r.elements[i]}
  <2>1. i .. i + d - 1 = {i}
    BY <1>3, <1>11
  <2> QED
    BY <2>1 DEF Gone
<1>14. End(g)
  BY <1>2, <1>3, <1>4, <1>5, <1>7, <1>8, <1>9 DEF End
<1>15. live' = live \ Gone(r, i, d)
  BY <1>1, <1>13
<1>16. Bounded' /\ OneOwner' /\ Forward /\ (End(g) => Sound')
  BY <1>1, <1>12, <1>15, ClosedKeeps
<1> QED
  BY <1>14, <1>16 DEF Kept

\* What a range erase moves from lies behind the new end and is still there.
LEMMA EraseRangeKeeps ==
  ASSUME Bounded, Sound, NEW a \in Arrays, NEW i, NEW j, EraseRange(a, i, j)
  PROVE  Bounded' /\ OneOwner' /\ Forward
<1> DEFINE r == array[a]
           m == memmove(r, i, j, r.max - i)
           s == IF i # r.max THEN m ELSE r
           g == grow(s, i - j)
<1>1. /\ i \in Slots(r) /\ j \in i .. r.max + 1
      /\ Set(a, g) /\ live' = live \ {r.elements[k] : k \in i .. j - 1} /\ cut' = cut
  BY DEF EraseRange, Delete
<1>2. /\ Own(r) /\ r \in Arrs /\ r.num_elem \in Nat /\ r.max \in Int /\ -1 <= r.max /\ r.max < r.num_elem
  BY RowIs
<1>3. i \in Nat /\ i <= r.max /\ j \in Nat /\ i <= j /\ j <= r.max + 1
  BY <1>1, <1>2 DEF Slots
<1>4. PICK d \in Nat : d = j - i
  BY <1>3
<1>5. /\ m \in Arrs /\ m.max = r.max /\ m.num_elem = r.num_elem
      /\ \A k \in 0 .. r.num_elem - 1 :
           (k < i \/ k >= r.max => m.elements[k] = r.elements[k]) /\
           (k >= i /\ k < r.max /\ k + (j - i) < r.num_elem => m.elements[k] = r.elements[k + (j - i)])
  BY <1>1, <1>2, MovedDownIs
<1> HIDE DEF m
<1>6. s \in Arrs /\ s.max = r.max /\ s.num_elem = r.num_elem
  BY <1>2, <1>5
<1>7. ASSUME NEW k \in 0 .. r.max - d PROVE s.elements[k] = IF k < i THEN r.elements[k] ELSE r.elements[k + d]
  <2>1. k \in 0 .. r.num_elem - 1 /\ k + d < r.num_elem
    BY <1>2, <1>3, <1>4
  <2>2. CASE i = r.max
    <3>1. k < i \/ d = 0
      <4>1. k \in Int /\ k <= r.max - d /\ d \in Nat /\ i = r.max /\ r.max \in Int
        BY <1>2, <2>2
      <4> QED
        BY <4>1
    <3>2. d = 0 => k + d = k
      OBVIOUS
    <3> QED
      BY <2>2, <3>1, <3>2
  <2>3. CASE i # r.max
    <3>1. k < i => m.elements[k] = r.elements[k]
      BY <1>5, <2>1
    <3>2. ~(k < i) /\ k < r.max => m.elements[k] = r.elements[k + d]
      BY <1>3, <1>4, <1>5, <2>1
    <3>3. ~(k < i) /\ ~(k < r.max) => m.elements[k] = r.elements[k] /\ k + d = k
      BY <1>2, <1>3, <1>4, <1>5, <2>1
    <3> QED
      BY <2>3, <3>1, <3>2, <3>3
  <2> QED
    BY <2>2, <2>3
<1> HIDE DEF s
<1>8. g \in Arrs /\ g.max = r.max - d /\ g.elements = s.elements
  <2>1. PICK n \in Int : n = i - j
    BY <1>3
  <2>2. -1 <= s.max + n /\ s.max + n < s.num_elem /\ s.max + n = r.max - d
    BY <1>2, <1>3, <1>4, <1>6, <2>1
  <2>3. LET h == grow(s, n) IN h \in Arrs /\ h.max = s.max + n /\ h.num_elem = s.num_elem /\ h.elements = s.elements
    BY <1>6, <2>2, GrowIs
  <2> QED
    BY <2>1, <2>2, <2>3
<1> HIDE DEF g
<1>9. \A k \in Slots(g) : g.elements[k] = IF k < i THEN r.elements[k] ELSE r.elements[k + d]
  BY <1>7, <1>8 DEF Slots
<1>13. i + d <= r.max + 1
  BY <1>2, <1>3, <1>4
<1>10. Closed(r, g, i, d)
  BY <1>1, <1>4, <1>8, <1>9, <1>13 DEF Closed
<1>11. Gone(r, i, d) = {r.elements[k] : k \in i .. j - 1}
  <2>1. i + d - 1 = j - 1
    BY <1>3, <1>4
  <2> QED
    BY <2>1 DEF Gone
<1>12. live' = live \ Gone(r, i, d)
  BY <1>1, <1>11
<1> QED
  BY <1>1, <1>10, <1>12, ClosedKeeps

-----------------------------------------------------------------------------
(* The members that may leave an object in two slots                         *)

LEMMA SetBounded ==
  ASSUME Bounded, NEW a \in Arrays, NEW g \in Arrs, g.max < MaxLen, Set(a, g),
         live' \subseteq Objects, cut' \subseteq Objects
  PROVE  Bounded'
<1>1. array' = [array EXCEPT ![a] = g] /\ array \in [Arrays -> Arrs]
  BY DEF Set, Bounded
<1>2. array' \in [Arrays -> Arrs] /\ \A c \in Arrays : array'[c] = IF c = a THEN g ELSE array[c]
  BY <1>1
<1> QED
  BY <1>2 DEF Bounded

LEMMA PushFrontThrowsKeeps ==
  ASSUME Bounded, Sound, NEW a \in Arrays, PushFrontThrows(a)
  PROVE  Bounded' /\ Forward
<1> DEFINE r == array[a]
           g == Shifted(r)
<1>1. r.max + 1 < MaxLen /\ Set(a, g) /\ live' = live /\ cut' = cut
  BY DEF PushFrontThrows
<1>2. r.max \in Int /\ -1 <= r.max /\ live \subseteq Objects /\ cut \subseteq Objects
  BY RowIs
<1>3. MovedUp(r, g, 0, 1)
  BY ShiftedUp
<1> HIDE DEF g
<1>4. /\ g \in Arrs /\ g.max = r.max + 1 /\ r.max + 1 < g.num_elem /\ g.num_elem \in Nat
      /\ \A k \in 0 .. g.num_elem - 1 : g.elements[k] =
           IF 0 + 1 <= k /\ k <= r.max + 1 THEN r.elements[k - 1]
           ELSE IF k <= r.max THEN r.elements[k] ELSE NULL
  BY <1>3 DEF MovedUp
<1>5. Bounded'
  BY <1>1, <1>2, <1>4, SetBounded
<1>6. Fwd(r, g, {})
  <2> SUFFICES ASSUME NEW k \in Slots(g), NEW l \in Slots(g), k < l, g.elements[k] # NULL, g.elements[l] # NULL
               PROVE  \E i, j \in Slots(r) : i <= j /\ r.elements[i] = g.elements[k] /\ r.elements[j] = g.elements[l]
    BY DEF Fwd
  <2>1. k \in 0 .. g.num_elem - 1 /\ l \in 0 .. g.num_elem - 1 /\ k <= r.max + 1 /\ l <= r.max + 1 /\ 1 <= l
    BY <1>2, <1>4 DEF Slots
  <2>2. PICK j \in Int : j = l - 1
    BY <2>1
  <2>3. j \in Slots(r) /\ r.elements[j] = g.elements[l]
    BY <1>2, <1>4, <2>1, <2>2 DEF Slots
  <2>4. CASE k = 0
    <3>1. k \in Slots(r) /\ r.elements[k] = g.elements[k] /\ k <= j
      BY <1>2, <1>4, <2>1, <2>2, <2>4 DEF Slots
    <3> QED
      BY <2>3, <3>1
  <2>5. CASE k # 0
    <3>1. PICK i \in Int : i = k - 1
      BY <2>1
    <3>2. i \in Slots(r) /\ r.elements[i] = g.elements[k] /\ i <= j
      BY <1>2, <1>4, <2>1, <2>2, <2>5, <3>1 DEF Slots
    <3> QED
      BY <2>3, <3>2
  <2> QED
    BY <2>4, <2>5
<1>7. PICK N : N = {}
  OBVIOUS
<1>8. Fwd(r, g, N) /\ N \cap (live \ cut) = {}
  BY <1>6, <1>7
<1>9. Forward
  BY <1>1, <1>8, ForwardRow
<1> QED
  BY <1>5, <1>9

\* From slot i on all is n slots further; a slot it came from has what it had,
\* or NULL, or a new object.
Spread(r, g, i, n, N) ==
  /\ g \in Arrs /\ g.max = r.max + 1 /\ r.max + n < g.num_elem /\ g.num_elem \in Nat
  /\ i \in Nat /\ i <= r.max /\ n \in Nat \ {0}
  /\ \A k \in 0 .. g.num_elem - 1 :
       (i + n <= k /\ k <= r.max + n => g.elements[k] = r.elements[k - n]) /\
       (~(i + n <= k /\ k <= r.max + n) =>
          g.elements[k] \in N \cup {NULL} \/ (k <= r.max /\ g.elements[k] = r.elements[k]))

\* If no object is in two slots or behind the end, none is where it was: it has
\* moved, to one or the other.
LEMMA SpreadRow ==
  ASSUME NEW r, Own(r), NEW g, NEW i, NEW n, NEW N, Spread(r, g, i, n, N), Own(g), End(g)
  PROVE  Fwd(r, g, N)
<1>1. r.max \in Int /\ -1 <= r.max
  BY OwnIs
<1>2. /\ g \in Arrs /\ g.max = r.max + 1 /\ r.max + n < g.num_elem /\ g.num_elem \in Nat
      /\ i \in Nat /\ i <= r.max /\ n \in Nat \ {0}
      /\ \A k \in 0 .. g.num_elem - 1 :
           (i + n <= k /\ k <= r.max + n => g.elements[k] = r.elements[k - n]) /\
           (~(i + n <= k /\ k <= r.max + n) =>
              g.elements[k] \in N \cup {NULL} \/ (k <= r.max /\ g.elements[k] = r.elements[k]))
  BY DEF Spread
<1>3. ASSUME NEW k \in Slots(g), g.elements[k] \notin N \cup {NULL}
      PROVE  \/ k < i /\ k \in Slots(r) /\ g.elements[k] = r.elements[k]
             \/ k >= i + n /\ k - n \in Slots(r) /\ g.elements[k] = r.elements[k - n]
  <2>1. k \in 0 .. g.num_elem - 1 /\ k <= r.max + 1
    BY <1>1, <1>2 DEF Slots
  <2>2. CASE i + n <= k
    <3>1. k <= r.max + n /\ k - n \in Slots(r)
      BY <1>1, <1>2, <2>1, <2>2 DEF Slots
    <3> QED
      BY <1>2, <2>1, <2>2, <3>1
  <2>3. CASE ~(i + n <= k)
    <3>1. k <= r.max /\ g.elements[k] = r.elements[k] /\ k \in Slots(r)
      BY <1>1, <1>2, <1>3, <2>1, <2>3 DEF Slots
    <3>2. ASSUME i <= k PROVE FALSE
      <4>1. PICK m \in Int : m = k + n
        BY <1>2, <2>1
      <4>2. m \in 0 .. g.num_elem - 1 /\ i + n <= m /\ m <= r.max + n /\ m - n = k /\ m # k
        BY <1>1, <1>2, <2>1, <3>1, <3>2, <4>1
      <4>3. g.elements[m] = g.elements[k]
        BY <1>2, <3>1, <4>2
      <4>4. CASE m <= g.max
        <5>1. m \in Slots(g)
          BY <4>2, <4>4 DEF Slots
        <5> QED
          BY <1>3, <4>2, <4>3, <5>1 DEF Own
      <4>5. CASE ~(m <= g.max)
        <5>1. m > g.max
          BY <1>1, <1>2, <4>2, <4>5
        <5> QED
          BY <1>3, <4>2, <4>3, <5>1 DEF End
      <4> QED
        BY <4>4, <4>5
    <3>3. k < i
      BY <1>2, <2>1, <3>2
    <3> QED
      BY <3>1, <3>3
  <2> QED
    BY <2>2, <2>3
<1>4. ASSUME NEW k \in Slots(g), NEW l \in Slots(g), k < l,
             g.elements[k] \notin N \cup {NULL}, g.elements[l] \notin N \cup {NULL}
      PROVE  \E c, d \in Slots(r) : c <= d /\ r.elements[c] = g.elements[k] /\ r.elements[d] = g.elements[l]
  <2>1. k \in Int /\ l \in Int
    BY DEF Slots
  <2>7. (IF k < i THEN k ELSE k - n) \in Int /\ (IF l < i THEN l ELSE l - n) \in Int
    BY <1>2, <2>1
  <2>2. PICK c \in Int : c = IF k < i THEN k ELSE k - n
    BY <2>7
  <2>3. PICK d \in Int : d = IF l < i THEN l ELSE l - n
    BY <2>7
  <2>4. c \in Slots(r) /\ r.elements[c] = g.elements[k]
    BY <1>2, <1>3, <1>4, <2>1, <2>2
  <2>5. d \in Slots(r) /\ r.elements[d] = g.elements[l]
    BY <1>2, <1>3, <1>4, <2>1, <2>3
  <2>6. c <= d
    <3>1. k < i \/ k >= i + n
      BY <1>3, <1>4
    <3>2. l < i \/ l >= i + n
      BY <1>3, <1>4
    <3> QED
      BY <1>2, <1>4, <2>1, <2>2, <2>3, <3>1, <3>2
  <2> QED
    BY <2>4, <2>5, <2>6
<1> QED
  BY <1>4 DEF Fwd

LEMMA WrittenIs ==
  ASSUME NEW r \in Arrs, NEW f \in [0 .. r.num_elem - 1 -> Pointers]
  PROVE  LET g == [r EXCEPT !.elements = f] IN
         g \in Arrs /\ g.max = r.max /\ g.num_elem = r.num_elem /\ g.elements = f
<1>1. /\ r = [elements |-> r.elements, num_elem |-> r.num_elem, max |-> r.max]
      /\ r.num_elem \in Nat /\ r.max \in Int /\ -1 <= r.max /\ r.max < r.num_elem
  BY ArrIs
<1>2. [r EXCEPT !.elements = f] = [elements |-> f, num_elem |-> r.num_elem, max |-> r.max]
  BY <1>1
<1>3. [elements |-> f, num_elem |-> r.num_elem, max |-> r.max] \in Arrs
  BY <1>1, ArrMade
<1> QED
  BY <1>2, <1>3

Rewritten(r, m, f) == [r EXCEPT !.max = m, !.elements = f]

LEMMA RewrittenIs ==
  ASSUME NEW r \in Arrs, NEW m \in -1 .. r.num_elem - 1, NEW f \in [0 .. r.num_elem - 1 -> Pointers]
  PROVE  LET g == Rewritten(r, m, f) IN
         g \in Arrs /\ g.max = m /\ g.num_elem = r.num_elem /\ g.elements = f
<1> DEFINE s == [r EXCEPT !.max = m]
<1>1. s \in Arrs /\ s.max = m /\ s.num_elem = r.num_elem
  BY MaxIs
<1>2. LET g == [s EXCEPT !.elements = f] IN g \in Arrs /\ g.max = m /\ g.num_elem = r.num_elem /\ g.elements = f
  <2> HIDE DEF s
  <2> QED
    BY <1>1, WrittenIs
<1>3. Rewritten(r, m, f) = [s EXCEPT !.elements = f]
  BY DEF Rewritten
<1> QED
  BY <1>2, <1>3

LEMMA InsertCountKeeps ==
  ASSUME Bounded, Sound, NEW a \in Arrays, NEW i \in Nat, NEW n \in Nat, InsertCount(a, i, n)
  PROVE  Bounded' /\ (Sound' => Forward)
<1> DEFINE r == array[a]
           h == Parted(r, i, n)
           turns == i .. n - 1
           f == [k \in DOMAIN h.elements |-> IF i <= r.max /\ k - i \in turns THEN NULL ELSE h.elements[k]]
           e == [h EXCEPT !.elements = f]
<1>1. PICK S \in SUBSET Fresh :
        /\ i <= r.max + 1 /\ r.max + n < MaxLen /\ n > 0
        /\ IF S = {} THEN Set(a, h) ELSE \E o \in S : Set(a, store(e, i, o))
        /\ live' = live \cup S /\ cut' = cut
  BY DEF InsertCount, New
<1>2. /\ Own(r) /\ r \in Arrs /\ r.max \in Int /\ -1 <= r.max /\ live \subseteq Objects /\ cut \subseteq Objects
      /\ r.max < MaxLen
  BY RowIs
<1>3. S \subseteq Objects /\ S \cap live = {} /\ live' \subseteq Objects /\ cut' \subseteq Objects /\ n \in Nat \ {0}
  BY <1>1, <1>2 DEF Fresh
<1>4. CASE i <= r.max
  <2>1. MovedUp(r, h, i, n)
    BY <1>3, <1>4, PartedUp
  <2> HIDE DEF h
  <2>2. /\ h \in Arrs /\ h.max = r.max + 1 /\ r.max + n < h.num_elem /\ h.num_elem \in Nat
        /\ \A k \in 0 .. h.num_elem - 1 : h.elements[k] =
             IF i + n <= k /\ k <= r.max + n THEN r.elements[k - n]
             ELSE IF k <= r.max THEN r.elements[k] ELSE NULL
    BY <2>1 DEF MovedUp
  <2>3. \E g : Set(a, g) /\ Spread(r, g, i, n, S)
    <3>1. CASE S = {}
      <4>1. Spread(r, h, i, n, S)
        BY <1>3, <1>4, <2>2 DEF Spread
      <4> QED
        BY <1>1, <3>1, <4>1
    <3>2. CASE S # {}
      <4>1. PICK o \in S : Set(a, store(e, i, o))
        BY <1>1, <3>2
      <4>2. DOMAIN h.elements = 0 .. h.num_elem - 1 /\ h.elements \in [0 .. h.num_elem - 1 -> Pointers]
        BY <2>2, ArrIs
      <4>3. \A k \in 0 .. h.num_elem - 1 : f[k] = IF k - i \in turns THEN NULL ELSE h.elements[k]
        BY <1>4, <4>2
      <4>4. f \in [0 .. h.num_elem - 1 -> Pointers]
        BY <4>2, ConstantsAre
      <4> HIDE DEF f
      <4>5. e \in Arrs /\ e.max = h.max /\ e.num_elem = h.num_elem /\ e.elements = f
        BY <2>2, <4>4, WrittenIs
      <4> HIDE DEF e
      <4>6. i \in 0 .. e.num_elem - 1 /\ o \in Pointers
        BY <1>2, <1>3, <1>4, <2>2, <4>5, ConstantsAre
      <4> DEFINE g == store(e, i, o)
      <4>7. /\ g \in Arrs /\ g.max = e.max /\ g.num_elem = e.num_elem
            /\ \A k \in 0 .. e.num_elem - 1 : g.elements[k] = IF k = i THEN o ELSE e.elements[k]
        BY <4>5, <4>6, StoreIs
      <4> HIDE DEF g
      <4>8. ASSUME NEW k \in 0 .. g.num_elem - 1
            PROVE  /\ i + n <= k /\ k <= r.max + n => g.elements[k] = r.elements[k - n]
                   /\ ~(i + n <= k /\ k <= r.max + n) =>
                        g.elements[k] \in S \cup {NULL} \/ (k <= r.max /\ g.elements[k] = r.elements[k])
        <5>1. g.elements[k] = IF k = i THEN o ELSE IF k - i \in turns THEN NULL ELSE h.elements[k]
          BY <4>3, <4>5, <4>7
        <5>2. i + n <= k => k # i /\ k - i \notin turns
          BY <1>3, <2>2, <4>5, <4>7
        <5>3. h.elements[k] = IF i + n <= k /\ k <= r.max + n THEN r.elements[k - n]
                              ELSE IF k <= r.max THEN r.elements[k] ELSE NULL
          BY <2>2, <4>5, <4>7
        <5> HIDE DEF turns
        <5> QED
          BY <5>1, <5>2, <5>3
      <4>9. Spread(r, g, i, n, S)
        BY <1>3, <1>4, <2>2, <4>5, <4>7, <4>8 DEF Spread
      <4> QED
        BY <4>1, <4>9 DEF g
    <3> QED
      BY <3>1, <3>2
  <2>4. PICK g : Set(a, g) /\ Spread(r, g, i, n, S)
    BY <2>3
  <2>5. g \in Arrs /\ g.max = r.max + 1
    BY <2>4 DEF Spread
  <2>6. r.max + 1 < MaxLen
    BY <1>1, <1>2, <1>3, ConstantsAre
  <2>7. Bounded'
    BY <1>3, <2>4, <2>5, <2>6, SetBounded
  <2>8. ASSUME Sound' PROVE Forward
    <3>1. Owned(array', live' \ cut') /\ \A c \in Arrays : End(array'[c])
      BY <2>7, <2>8, NextIs
    <3>2. array'[a] = g
      BY <2>4 DEF Set, Bounded
    <3>3. Own(g) /\ End(g)
      BY <3>1, <3>2 DEF Owned
    <3>4. Fwd(r, g, S) /\ S \cap (live \ cut) = {}
      BY <1>2, <1>3, <2>4, <3>3, SpreadRow
    <3> QED
      BY <2>4, <3>4, ForwardRow
  <2> QED
    BY <2>7, <2>8
<1>5. CASE ~(i <= r.max)
  <2>1. i = r.max + 1
    BY <1>1, <1>2, <1>5
  <2>2. Put(r, h, NULL, -1) /\ h.max = r.max /\ r.max + n < h.num_elem /\ h.num_elem \in Nat
    BY <2>1, PartedEnd
  <2> HIDE DEF h
  <2>3. CASE S = {}
    <3>1. Set(a, h) /\ live' = live /\ cut' = cut
      BY <1>1, <2>3
    <3>2. Kept
      BY <1>2, <2>2, <3>1, RoomKeeps
    <3> QED
      BY <3>2 DEF Kept
  <2>4. CASE S # {}
    <3>1. PICK o \in S : Set(a, store(e, i, o))
      BY <1>1, <2>4
    <3>2. h \in Arrs
      BY <2>2 DEF Put
    <3>3. e = h
      <4>1. /\ h.elements \in [0 .. h.num_elem - 1 -> Pointers]
            /\ h = [elements |-> h.elements, num_elem |-> h.num_elem, max |-> h.max]
        BY <3>2, ArrIs
      <4>2. f = h.elements
        BY <1>5, <4>1
      <4> QED
        BY <4>1, <4>2
    <3> HIDE DEF e
    <3> DEFINE g == store(h, i, o)
    <3>4. i < h.num_elem /\ o \in Objects
      BY <1>2, <1>3, <2>1, <2>2
    <3>5. g \in Arrs /\ g.max = r.max /\ Fwd(r, g, {})
      BY <1>2, <2>1, <2>2, <3>4, BehindRow
    <3> HIDE DEF g
    <3>6. Set(a, g)
      BY <3>1, <3>3 DEF g
    <3>7. Bounded'
      BY <1>2, <1>3, <3>5, <3>6, SetBounded
    <3>8. PICK E : E = {}
      OBVIOUS
    <3>9. Fwd(r, g, E) /\ E \cap (live \ cut) = {}
      BY <3>5, <3>8
    <3> QED
      BY <3>6, <3>7, <3>9, ForwardRow
  <2> QED
    BY <2>3, <2>4
<1> QED
  BY <1>4, <1>5

-----------------------------------------------------------------------------
(* The members that change every slot                                        *)

\* Every slot of r was in use, and its object is gone.
LEMMA ClearedKeeps ==
  ASSUME Bounded, Sound, NEW a \in Arrays, NEW g \in Arrs, g.max = -1, End(g), Set(a, g),
         live' = live \ Held(array[a]), cut' = cut
  PROVE  Kept
<1> DEFINE r == array[a]
<1>1. /\ Own(r) /\ Held(r) \subseteq live \ cut /\ live \subseteq Objects /\ cut \subseteq live
      /\ cut \subseteq Objects /\ OneOwner /\ r.max < MaxLen /\ r.max \in Int /\ -1 <= r.max
  BY RowIs
<1>2. Slots(g) = {}
  BY DEF Slots
<1>3. Own(g) /\ Held(g) = {} /\ Fwd(r, g, {})
  BY <1>2 DEF Own, Held, Fwd
<1>4. PICK N : N = {}
  OBVIOUS
<1> DEFINE D == Held(r)
<1>5. /\ Held(g) = (Held(r) \ D) \cup N /\ N \cap (live \ cut) = {} /\ D \cap (live \ cut) \subseteq Held(r)
      /\ live' \ cut' = ((live \ cut) \ D) \cup N /\ Fwd(r, g, N)
  BY <1>1, <1>3, <1>4
<1>6. cut' \subseteq live' /\ live' \subseteq Objects /\ cut' \subseteq Objects
  BY <1>1
<1>7. g.max < MaxLen
  BY ConstantsAre
<1> HIDE DEF D
<1>8. Bounded' /\ OneOwner' /\ Sound'
  BY <1>1, <1>3, <1>5, <1>6, <1>7, OneRow
<1>9. Forward
  BY <1>5, ForwardRow
<1> QED
  BY <1>8, <1>9 DEF Kept

LEMMA ClearKeeps == ASSUME Bounded, Sound, NEW a \in Arrays, Clear(a) PROVE Kept
<1>1. Nothing \in Arrs /\ Nothing.max = -1 /\ Nothing.num_elem = 0
  BY NothingIs
<1>2. End(Nothing)
  BY <1>1 DEF End
<1>3. Set(a, Nothing) /\ live' = live \ Held(array[a]) /\ cut' = cut
  BY DEF Clear, Delete
<1> QED
  BY <1>1, <1>2, <1>3, ClearedKeeps

LEMMA EmptiedIs ==
  ASSUME NEW r \in Arrs, End(r)
  PROVE  LET g == Emptied(r) IN
         g \in Arrs /\ g.max = -1 /\ g.num_elem = r.num_elem /\ End(g)
<1> DEFINE f == [k \in DOMAIN r.elements |-> IF k \in Slots(r) THEN NULL ELSE r.elements[k]]
<1>1. /\ r.num_elem \in Nat /\ r.max \in Int /\ -1 <= r.max /\ r.max < r.num_elem
      /\ r.elements \in [0 .. r.num_elem - 1 -> Pointers]
  BY ArrIs
<1>2. f \in [0 .. r.num_elem - 1 -> Pointers] /\ \A k \in 0 .. r.num_elem - 1 : f[k] = NULL
  <2>1. \A k \in 0 .. r.num_elem - 1 : f[k] = NULL
    BY <1>1 DEF End, Slots
  <2>2. f = [k \in 0 .. r.num_elem - 1 |-> f[k]]
    BY <1>1
  <2> HIDE DEF f
  <2> QED
    BY <2>1, <2>2, ConstantsAre
<1>3. PICK m \in -1 .. r.num_elem - 1 : m = -1
  BY <1>1
<1>4. Emptied(r) = Rewritten(r, m, f)
  BY <1>3 DEF Emptied, Rewritten
<1> HIDE DEF f
<1>5. LET g == Rewritten(r, m, f) IN
      g \in Arrs /\ g.max = m /\ g.num_elem = r.num_elem /\ g.elements = f
  BY <1>2, <1>3, RewrittenIs
<1>6. Emptied(r) \in Arrs /\ Emptied(r).max = -1 /\ Emptied(r).num_elem = r.num_elem /\ Emptied(r).elements = f
  BY <1>3, <1>4, <1>5
<1>7. End(Emptied(r))
  BY <1>2, <1>6 DEF End
<1> QED
  BY <1>6, <1>7

\* What a copy adds behind the end of r are objects of its own, and what was in
\* a before is as it was, or gone.
LEMMA CopyIntoKeeps ==
  ASSUME Bounded, Sound, NEW a \in Arrays, NEW r \in Arrs, End(r), NEW c \in Arrays, NEW gone,
         r.max + array[c].max + 1 < r.num_elem,
         \/ r.max = -1 /\ gone = Held(array[a])
         \/ r.max = array[a].max /\ gone = {} /\ \A k \in Slots(r) : r.elements[k] = array[a].elements[k],
         CopyInto(a, r, c, gone)
  PROVE  Kept
<1> DEFINE s == array[a]
<1>1. /\ Own(s) /\ Held(s) \subseteq live \ cut /\ live \subseteq Objects /\ cut \subseteq live
      /\ cut \subseteq Objects /\ OneOwner /\ s.max \in Int /\ -1 <= s.max
      /\ \A k \in Slots(s) : s.elements[k] \in Objects \cup {NULL}
  BY RowIs, OwnIs
<1>2. /\ r.num_elem \in Nat /\ r.max \in Int /\ -1 <= r.max /\ r.max < r.num_elem
      /\ DOMAIN r.elements = 0 .. r.num_elem - 1 /\ r.elements \in [0 .. r.num_elem - 1 -> Pointers]
  BY ArrIs
<1>3. array[c].max \in Int /\ -1 <= array[c].max
  BY RowIs
<1>4. PICK n \in 0 .. array[c].max + 1 :
        LET new == {k \in r.max + 1 .. r.max + n : r.elements[k] = NULL} IN
        /\ r.max + n < MaxLen
        /\ \E f \in Injection(new, Fresh) :
             /\ Set(a, [r EXCEPT !.max = @ + n, !.elements = [k \in DOMAIN @ |->
                          IF k \in new THEN f[k] ELSE @[k]]])
             /\ live' = (live \ gone) \cup Range(f)
        /\ cut' = cut
  BY DEF CopyInto
<1> DEFINE new == {k \in r.max + 1 .. r.max + n : r.elements[k] = NULL}
<1>5. new = r.max + 1 .. r.max + n /\ r.max + n < r.num_elem /\ n \in Nat
  BY SMTT(40), <1>2, <1>3, <1>4 DEF End
<1>6. PICK f \in Injection(new, Fresh) :
        /\ Set(a, [r EXCEPT !.max = @ + n, !.elements = [k \in DOMAIN @ |-> IF k \in new THEN f[k] ELSE @[k]]])
        /\ live' = (live \ gone) \cup Range(f)
  BY <1>4
<1> HIDE DEF new
<1>7. f \in [new -> Fresh] /\ \A k, l \in new : f[k] = f[l] => k = l
  BY DEF Injection, IsInjective
<1> DEFINE N == Range(f)
           e == [k \in DOMAIN r.elements |-> IF k \in new THEN f[k] ELSE r.elements[k]]
<1>8. N \in SUBSET Objects /\ N \cap live = {} /\ (\A k \in new : f[k] \in N) /\ \A o \in N : \E k \in new : f[k] = o
  BY <1>7 DEF Range, Fresh
<1>9. e \in [0 .. r.num_elem - 1 -> Pointers]
  BY <1>2, <1>8, ConstantsAre
<1>10. \A k \in 0 .. r.num_elem - 1 : e[k] = IF k \in new THEN f[k] ELSE r.elements[k]
  BY <1>2
<1>11. PICK m \in -1 .. r.num_elem - 1 : m = r.max + n
  BY <1>2, <1>5
<1> DEFINE g == Rewritten(r, m, e)
<1>12. Set(a, g)
  BY <1>6, <1>11 DEF Rewritten
<1> HIDE DEF e
<1>13. g \in Arrs /\ g.max = m /\ g.num_elem = r.num_elem /\ g.elements = e
  BY <1>9, <1>11, RewrittenIs
<1> HIDE DEF g, N
<1>14. Slots(g) = 0 .. r.max + n /\ Slots(s) = 0 .. s.max /\ Slots(r) = 0 .. r.max
  BY <1>11, <1>13 DEF Slots
<1>15. \A k \in Slots(g) : \/ k \in new /\ g.elements[k] = f[k]
                           \/ k < r.max + 1 /\ k \notin new /\ k \in Slots(s) /\ k \in Slots(r) /\ g.elements[k] = s.elements[k]
  <2> SUFFICES ASSUME NEW k \in Slots(g), k \notin new
               PROVE  k < r.max + 1 /\ k \in Slots(s) /\ k \in Slots(r) /\ g.elements[k] = s.elements[k]
    <3>1. \A k \in Slots(g) : k \in new => g.elements[k] = f[k]
      BY <1>2, <1>5, <1>10, <1>13, <1>14
    <3> QED
      BY <3>1
  <2>1. k \in 0 .. r.num_elem - 1 /\ k < r.max + 1 /\ k \in Slots(r)
    BY <1>2, <1>5, <1>14
  <2>2. r.max # -1
    BY <1>2, <1>14, <2>1
  <2> QED
    BY <1>1, <1>10, <1>13, <1>14, <2>1, <2>2
<1>16. PICK d \in Int : d = 0
  OBVIOUS
<1>17. PICK i \in Int : i = r.max + 1
  BY <1>2
<1> DEFINE D == gone
<1>18. \A k \in Slots(g) : \/ g.elements[k] \in N \cup {NULL}
                           \/ k < i /\ k \in Slots(s) /\ g.elements[k] = s.elements[k]
                           \/ k >= i /\ k + d >= i /\ k + d \in Slots(s) /\ g.elements[k] = s.elements[k + d]
  BY <1>8, <1>15, <1>17
<1>19. N \cap Held(s) = {}
  BY <1>1, <1>8
<1>20. \A k, l \in Slots(g) : g.elements[k] \in N /\ g.elements[k] = g.elements[l] => k = l
  <2>1. \A k \in Slots(g) : g.elements[k] \in N => k \in new /\ g.elements[k] = f[k]
    BY <1>1, <1>8, <1>15, HeldIs, ConstantsAre
  <2> QED
    BY <1>7, <2>1
<1>21. \A k \in Slots(s) : s.elements[k] \in D \cup {NULL} \/ \E l \in Slots(g) : g.elements[l] = s.elements[k]
  <2>1. CASE gone = Held(s)
    BY <2>1, HeldIs
  <2>2. CASE r.max = s.max /\ \A k \in Slots(r) : r.elements[k] = s.elements[k]
    <3>1. \A k \in Slots(s) : k \in Slots(g) /\ k \notin new
      BY <1>1, <1>2, <1>5, <1>14, <2>2
    <3> QED
      BY <1>15, <3>1
  <2> QED
    BY <2>1, <2>2
<1>22. \A o \in N : \E k \in Slots(g) : g.elements[k] = o
  <2>1. new \subseteq Slots(g)
    BY <1>2, <1>5, <1>14
  <2>2. \A k \in new : g.elements[k] = f[k]
    BY <1>15, <2>1
  <2> QED
    BY <1>8, <2>1, <2>2
<1>23. \A k \in Slots(g) : g.elements[k] \notin D \ {NULL}
  <2>1. CASE r.max = -1 /\ gone = Held(s)
    <3>1. \A k \in Slots(g) : g.elements[k] \in N
      BY <1>8, <1>14, <1>15, <2>1
    <3> QED
      BY <1>19, <2>1, <3>1
  <2>2. CASE gone = {}
    BY <2>2
  <2> QED
    BY <2>1, <2>2
<1>24. D \cap (live \ cut) \subseteq Held(s)
  OBVIOUS
<1>25. live' = (live \ D) \cup N /\ D \cap cut = {} /\ cut' = cut
  BY <1>1, <1>4, <1>6 DEF N
<1> HIDE DEF D
<1>26. Moved(s, g, N, D, i, d)
  BY <1>1, <1>8, <1>13, <1>18, <1>19, <1>20, <1>21, <1>22, <1>23 DEF Moved
<1>27. Own(g) /\ Held(g) = (Held(s) \ D) \cup N /\ Fwd(s, g, N)
  BY <1>26, Arranged
<1>28. End(g)
  <2>1. \A k \in 0 .. g.num_elem - 1 : k > g.max => k \notin new /\ k > r.max
    BY <1>2, <1>5, <1>11, <1>13
  <2> QED
    BY <1>10, <1>13, <2>1 DEF End
<1>29. /\ live' \ cut' = ((live \ cut) \ D) \cup N /\ cut' \subseteq live' /\ live' \subseteq Objects
       /\ cut' \subseteq Objects /\ N \cap (live \ cut) = {}
  BY <1>1, <1>8, <1>25
<1>30. g.max < MaxLen
  BY <1>4, <1>11, <1>13
<1>31. Bounded' /\ OneOwner' /\ Sound'
  BY <1>1, <1>12, <1>24, <1>27, <1>28, <1>29, <1>30, OneRow
<1>32. Forward
  BY <1>12, <1>27, <1>29, ForwardRow
<1> QED
  BY <1>31, <1>32 DEF Kept

LEMMA CopyKeeps == ASSUME Bounded, Sound, NEW a \in Arrays, NEW c \in Arrays, Copy(a, c) PROVE Kept
<1> DEFINE r == Emptied(array[a])
           g == setsize(r, array[c].max)
<1>1. array[a] \in Arrs /\ End(array[a]) /\ array[c].max \in Int /\ -1 <= array[c].max
  BY RowIs
<1>2. r \in Arrs /\ r.max = -1 /\ End(r)
  BY <1>1, EmptiedIs
<1> HIDE DEF r
<1>3. CASE a = c
  <2>1. Set(a, r) /\ live' = live \ Held(array[a]) /\ cut' = cut
    BY <1>3 DEF Copy, Delete, r
  <2> QED
    BY <1>2, <2>1, ClearedKeeps
<1>4. CASE a # c
  <2>1. CopyInto(a, g, c, Held(array[a]))
    BY <1>4 DEF Copy, r
  <2>2. /\ g \in Arrs /\ g.max = r.max /\ g.num_elem > array[c].max /\ g.num_elem >= r.num_elem
        /\ \A k \in 0 .. g.num_elem - 1 : g.elements[k] = IF k < r.num_elem THEN r.elements[k] ELSE NULL
    BY <1>1, <1>2, SetsizeIs
  <2>3. g.num_elem \in Nat /\ r.num_elem \in Nat
    BY <1>2, <2>2, ArrIs
  <2> HIDE DEF g
  <2>4. End(g)
    BY <1>2, <2>2, <2>3 DEF End
  <2>5. g.max + array[c].max + 1 < g.num_elem
    BY <1>1, <1>2, <2>2, <2>3
  <2>6. PICK gone : gone = Held(array[a])
    OBVIOUS
  <2>7. CopyInto(a, g, c, gone) /\ g.max = -1
    BY <1>2, <2>1, <2>2, <2>6
  <2> QED
    BY <2>2, <2>4, <2>5, <2>6, <2>7, CopyIntoKeeps
<1> QED
  BY <1>3, <1>4

LEMMA AppendCopyKeeps == ASSUME Bounded, Sound, NEW a \in Arrays, NEW c \in Arrays, AppendCopy(a, c) PROVE Kept
<1> DEFINE r == array[a]
           i == r.max + array[c].max + 1
           g == setsize(r, i)
<1>1. Own(r) /\ End(r) /\ r.max \in Int /\ -1 <= r.max /\ array[c].max \in Int /\ -1 <= array[c].max
  BY RowIs
<1>2. i >= 0 /\ i \in Int /\ -1 <= i /\ CopyInto(a, g, c, {})
  BY <1>1 DEF AppendCopy
<1> HIDE DEF i
<1>3. /\ g \in Arrs /\ g.max = r.max /\ g.num_elem > i /\ g.num_elem \in Nat /\ g.max < g.num_elem
      /\ \A k \in 0 .. g.num_elem - 1 : g.elements[k] = IF k <= r.max THEN r.elements[k] ELSE NULL
  BY <1>1, <1>2, SetsizeRow
<1>4. PICK gone : gone = {}
  OBVIOUS
<1>5. CopyInto(a, g, c, gone)
  BY <1>2, <1>4
<1> HIDE DEF g
<1>6. End(g)
  BY <1>1, <1>3 DEF End
<1>7. g.max + array[c].max + 1 < g.num_elem
  BY <1>1, <1>3 DEF i
<1>8. \A k \in Slots(g) : g.elements[k] = r.elements[k]
  BY <1>1, <1>3 DEF Slots
<1> QED
  BY <1>3, <1>4, <1>5, <1>6, <1>7, <1>8, CopyIntoKeeps

\* a and c are g and h from now on, and have the same objects as before.
LEMMA TwoRows ==
  ASSUME Bounded, Sound, NEW a \in Arrays, NEW c \in Arrays, a # c,
         NEW g, Own(g), End(g), g.max < MaxLen, NEW h, Own(h), End(h), h.max < MaxLen,
         array' = [array EXCEPT ![a] = g, ![c] = h], live' = live, cut' = cut,
         Held(g) \cup Held(h) = Held(array[a]) \cup Held(array[c]), Held(g) \cap Held(h) = {}
  PROVE  Bounded' /\ OneOwner' /\ Sound'
<1>1. g \in Arrs /\ h \in Arrs /\ array \in [Arrays -> Arrs]
  BY DEF Own, Bounded
<1>2. /\ array' \in [Arrays -> Arrs]
      /\ \A x \in Arrays : array'[x] = IF x = c THEN h ELSE IF x = a THEN g ELSE array[x]
  BY <1>1
<1>3. Bounded'
  BY <1>2 DEF Bounded
<1>4. Owned(array, live \ cut) /\ live = Reached(array) \cup cut /\ \A x \in Arrays : End(array[x])
  BY SoundIs
<1>5. Owned(array', live' \ cut')
  <2>1. \A x \in Arrays : Own(array'[x])
    BY <1>2, <1>4 DEF Owned
  <2>2. \A x \in Arrays : Held(array[x]) \subseteq live \ cut
    BY <1>4 DEF Owned
  <2>3. \A x \in Arrays : Held(array'[x]) = IF x = c THEN Held(h) ELSE IF x = a THEN Held(g) ELSE Held(array[x])
    BY <1>2
  <2>4. \A x \in Arrays : Held(array'[x]) \subseteq live' \ cut'
    BY <2>2, <2>3
  <2>5. \A x \in Arrays \ {a, c} : Held(array[x]) \cap (Held(g) \cup Held(h)) = {}
    BY <1>4 DEF Owned
  <2>6. ASSUME NEW x \in Arrays, NEW y \in Arrays, x # y PROVE Held(array'[x]) \cap Held(array'[y]) = {}
    <3>1. CASE x \notin {a, c} /\ y \notin {a, c}
      BY <1>4, <2>3, <2>6, <3>1 DEF Owned
    <3>2. CASE x \in {a, c} /\ y \notin {a, c}
      BY <2>3, <2>5, <3>2
    <3>3. CASE x \notin {a, c} /\ y \in {a, c}
      BY <2>3, <2>5, <3>3
    <3>4. CASE x = a /\ y = c
      <4>1. Held(array'[x]) = Held(g) /\ Held(array'[y]) = Held(h)
        BY <2>3, <3>4
      <4> QED
        BY <4>1
    <3>5. CASE x = c /\ y = a
      <4>1. Held(array'[x]) = Held(h) /\ Held(array'[y]) = Held(g)
        BY <2>3, <3>5
      <4> QED
        BY <4>1
    <3>6. \/ x \notin {a, c} /\ y \notin {a, c}
          \/ x \in {a, c} /\ y \notin {a, c}
          \/ x \notin {a, c} /\ y \in {a, c}
          \/ x = a /\ y = c
          \/ x = c /\ y = a
      BY <2>6
    <3> QED
      BY <3>1, <3>2, <3>3, <3>4, <3>5, <3>6
  <2> QED
    BY <2>1, <2>4, <2>6 DEF Owned
<1>6. \A x \in Arrays : End(array'[x])
  BY <1>2, <1>4
<1>7. Reached(array') = Reached(array)
  <2>1. ASSUME NEW o PROVE (\E x \in Arrays : o \in Held(array'[x])) <=> \E x \in Arrays : o \in Held(array[x])
    BY <1>2
  <2> QED
    BY <2>1 DEF Reached
<1> QED
  BY <1>3, <1>4, <1>5, <1>6, <1>7, NextIs

LEMMA SwapKeeps == ASSUME Bounded, Sound, NEW a \in Arrays, NEW c \in Arrays, Swap(a, c) PROVE Kept
<1> DEFINE g == array[c]
           h == array[a]
<1>1. a # c /\ array' = [array EXCEPT ![a] = g, ![c] = h] /\ live' = live /\ cut' = cut
  BY DEF Swap
<1>2. Own(g) /\ End(g) /\ g.max < MaxLen /\ Own(h) /\ End(h) /\ h.max < MaxLen /\ OneOwner
  BY RowIs
<1>3. Held(g) \cap Held(h) = {} /\ Held(g) \cup Held(h) = Held(array[a]) \cup Held(array[c])
  BY <1>1, SoundIs DEF Owned
<1>4. \A x \in Arrays : \E y \in Arrays : array'[x] = array[y]
  BY <1>1 DEF Bounded
<1> HIDE DEF g, h
<1>5. Bounded' /\ OneOwner' /\ Sound'
  BY <1>1, <1>2, <1>3, TwoRows
<1>6. Forward
  <2> SUFFICES ASSUME NEW x \in Arrays, NEW k \in Slots(array'[x]), NEW l \in Slots(array'[x]), k < l
               PROVE  \E d, f \in Arrays : \E i \in Slots(array[d]), j \in Slots(array[f]) :
                        /\ array[d].elements[i] = array'[x].elements[k]
                        /\ array[f].elements[j] = array'[x].elements[l]
                        /\ d # f \/ i <= j
    BY DEF Forward
  <2>1. PICK y \in Arrays : array'[x] = array[y]
    BY <1>4
  <2>2. k <= l
    BY <2>1 DEF Slots
  <2> QED
    BY <2>1, <2>2
<1> QED
  BY <1>5, <1>6 DEF Kept

LEMMA AppendMovedKeeps == ASSUME Bounded, Sound, NEW a \in Arrays, NEW c \in Arrays, AppendMoved(a, c) PROVE Kept
<1> DEFINE r == array[a]
           s == array[c]
           m == r.max + s.max + 1
           b == setsize(r, m)
           e == [k \in DOMAIN b.elements |->
                   IF k \in r.max + 1 .. m THEN s.elements[k - r.max - 1] ELSE b.elements[k]]
           f == [k \in DOMAIN s.elements |-> IF k \in Slots(s) THEN NULL ELSE s.elements[k]]
           g == Rewritten(b, m, e)
           h == [s EXCEPT !.elements = f]
<1>1. /\ Own(r) /\ End(r) /\ r.max \in Int /\ -1 <= r.max /\ r.max < MaxLen /\ OneOwner
      /\ Own(s) /\ End(s) /\ s.max \in Int /\ -1 <= s.max /\ s.max < MaxLen /\ s \in Arrs
      /\ s.num_elem \in Nat /\ s.max < s.num_elem
  BY RowIs
<1>2. /\ a # c /\ m \in 0 .. MaxLen - 1 /\ live' = live /\ cut' = cut
      /\ array' = [array EXCEPT ![a] = [b EXCEPT !.max = m, !.elements = e], ![c] = h]
  <2>1. /\ a # c /\ m \in 0 .. MaxLen - 1 /\ live' = live /\ cut' = cut
        /\ array' = [array EXCEPT
             ![a] = [b EXCEPT !.max = m,
               !.elements = [k \in DOMAIN @ |->
                  IF k \in r.max + 1 .. m THEN s.elements[k - r.max - 1] ELSE @[k]]],
             ![c].elements = [k \in DOMAIN @ |-> IF k \in Slots(s) THEN NULL ELSE @[k]]]
    BY DEF AppendMoved
  <2>2. [array EXCEPT
             ![a] = [b EXCEPT !.max = m,
               !.elements = [k \in DOMAIN @ |->
                  IF k \in r.max + 1 .. m THEN s.elements[k - r.max - 1] ELSE @[k]]],
             ![c].elements = [k \in DOMAIN @ |-> IF k \in Slots(s) THEN NULL ELSE @[k]]]
        = [array EXCEPT ![a] = [b EXCEPT !.max = m, !.elements = e], ![c] = h]
    BY <2>1
  <2> QED
    BY <2>1, <2>2
<1>3. m \in Int /\ -1 <= m
  BY <1>1, <1>2
<1>4. /\ b \in Arrs /\ b.max = r.max /\ b.num_elem > m /\ b.num_elem \in Nat
      /\ \A k \in 0 .. b.num_elem - 1 : b.elements[k] = IF k <= r.max THEN r.elements[k] ELSE NULL
  <2> HIDE DEF m, r
  <2> QED
    BY <1>1, <1>3, SetsizeRow
<1> HIDE DEF b
<1>5. /\ DOMAIN b.elements = 0 .. b.num_elem - 1
      /\ s.elements \in [0 .. s.num_elem - 1 -> Pointers] /\ DOMAIN s.elements = 0 .. s.num_elem - 1
      /\ b.elements \in [0 .. b.num_elem - 1 -> Pointers]
  BY <1>1, <1>4, ArrIs
<1>6. \A k \in 0 .. b.num_elem - 1 :
        e[k] = IF k <= r.max THEN r.elements[k] ELSE IF k <= m THEN s.elements[k - r.max - 1] ELSE NULL
  BY <1>1, <1>3, <1>4, <1>5
<1>7. e \in [0 .. b.num_elem - 1 -> Pointers]
  <2>1. ASSUME NEW k \in 0 .. b.num_elem - 1 PROVE e[k] \in Pointers
    <3>1. CASE k \in r.max + 1 .. m
      <4>1. e[k] = s.elements[k - r.max - 1]
        BY <1>5, <3>1
      <4>2. k \in Int /\ r.max + 1 <= k /\ k <= m
        BY <1>1, <1>3, <3>1
      <4>3. k - r.max - 1 \in 0 .. s.num_elem - 1
        BY <1>1, <4>2
      <4> HIDE DEF e, m
      <4> QED
        BY <1>5, <4>1, <4>3
    <3>2. CASE k \notin r.max + 1 .. m
      <4>1. e[k] = b.elements[k]
        BY <1>5, <3>2
      <4> QED
        BY <1>5, <4>1
    <3> QED
      BY <3>1, <3>2
  <2>2. e = [k \in 0 .. b.num_elem - 1 |-> e[k]]
    BY <1>5
  <2> HIDE DEF e
  <2> QED
    BY <2>1, <2>2
<1>8. \A k \in 0 .. s.num_elem - 1 : f[k] = NULL
  BY <1>1, <1>5 DEF Slots, End
<1>9. f \in [0 .. s.num_elem - 1 -> Pointers]
  <2>1. f = [k \in 0 .. s.num_elem - 1 |-> f[k]]
    BY <1>5
  <2> HIDE DEF f
  <2> QED
    BY <1>8, <2>1, ConstantsAre
<1> HIDE DEF e, f
<1>10. m \in -1 .. b.num_elem - 1
  BY <1>3, <1>4
<1>11. g \in Arrs /\ g.max = m /\ g.num_elem = b.num_elem /\ g.elements = e
  BY <1>4, <1>7, <1>10, RewrittenIs
<1>12. h \in Arrs /\ h.max = s.max /\ h.num_elem = s.num_elem /\ h.elements = f
  BY <1>1, <1>9, WrittenIs
<1>13. array' = [array EXCEPT ![a] = g, ![c] = h]
  BY <1>2 DEF Rewritten
<1> HIDE DEF g, h
<1>14. /\ Slots(r) = 0 .. r.max /\ Slots(s) = 0 .. s.max /\ Slots(g) = 0 .. m /\ Slots(h) = 0 .. s.max
       /\ m = r.max + s.max + 1
  BY <1>11, <1>12 DEF Slots
<1> HIDE DEF m
<1>15. \A k \in Slots(g) :
         \/ k <= r.max /\ k \in Slots(r) /\ g.elements[k] = r.elements[k]
         \/ k > r.max /\ k - r.max - 1 \in Slots(s) /\ g.elements[k] = s.elements[k - r.max - 1]
  <2> SUFFICES ASSUME NEW k \in Slots(g)
               PROVE  \/ k <= r.max /\ k \in Slots(r) /\ g.elements[k] = r.elements[k]
                      \/ k > r.max /\ k - r.max - 1 \in Slots(s) /\ g.elements[k] = s.elements[k - r.max - 1]
    OBVIOUS
  <2>1. k \in Int /\ 0 <= k /\ k <= m /\ k \in 0 .. b.num_elem - 1
    BY <1>3, <1>4, <1>14
  <2>2. g.elements[k] = IF k <= r.max THEN r.elements[k] ELSE s.elements[k - r.max - 1]
    BY <1>6, <1>11, <2>1
  <2>3. CASE k <= r.max
    BY <1>1, <1>14, <2>1, <2>2, <2>3
  <2>4. CASE ~(k <= r.max)
    <3>1. k > r.max /\ k - r.max - 1 \in 0 .. s.max
      BY SMTT(40), <1>1, <1>14, <2>1, <2>4
    <3> QED
      BY <1>14, <2>2, <2>4, <3>1
  <2> QED
    BY <2>3, <2>4
<1>16. Held(r) \cap Held(s) = {} /\ Held(r) \subseteq live \ cut /\ Held(s) \subseteq live \ cut
  BY <1>2, SoundIs DEF Owned
<1>17. /\ \A k \in Slots(r) : r.elements[k] \in Objects \cup {NULL}
       /\ \A k, l \in Slots(r) : r.elements[k] # NULL /\ r.elements[k] = r.elements[l] => k = l
       /\ \A k \in Slots(s) : s.elements[k] \in Objects \cup {NULL}
       /\ \A k, l \in Slots(s) : s.elements[k] # NULL /\ s.elements[k] = s.elements[l] => k = l
  BY <1>1 DEF Own
<1>18. Own(g)
  <2>1. \A k \in Slots(g) : g.elements[k] \in Objects \cup {NULL}
    BY <1>15, <1>17
  <2>2. ASSUME NEW k \in Slots(g), NEW l \in Slots(g), g.elements[k] # NULL, g.elements[k] = g.elements[l] PROVE k = l
    <3>1. k \in Int /\ l \in Int
      BY <1>14
    <3>2. CASE k <= r.max /\ l <= r.max
      BY <1>1, <1>15, <1>17, <2>2, <3>1, <3>2
    <3>3. CASE ~(k <= r.max) /\ ~(l <= r.max)
      <4>1. k - r.max - 1 = l - r.max - 1
        BY <1>1, <1>15, <1>17, <2>2, <3>1, <3>3
      <4> QED
        BY <1>1, <3>1, <4>1
    <3>4. ASSUME NEW x \in Slots(g), NEW y \in Slots(g), x <= r.max, ~(y <= r.max),
                 g.elements[x] # NULL, g.elements[x] = g.elements[y]
          PROVE FALSE
      <4>1. x \in Int /\ y \in Int
        BY <1>14
      <4>2. x \in Slots(r) /\ g.elements[x] = r.elements[x]
        BY <1>1, <1>15, <3>4, <4>1
      <4>3. y - r.max - 1 \in Slots(s) /\ g.elements[y] = s.elements[y - r.max - 1]
        BY <1>1, <1>15, <3>4, <4>1
      <4>4. g.elements[x] \in Held(r) /\ g.elements[x] \in Held(s)
        BY <3>4, <4>2, <4>3, HeldIs
      <4> QED
        BY <1>16, <4>4
    <3> QED
      BY <2>2, <3>2, <3>3, <3>4
  <2> QED
    BY <1>11, <2>1, <2>2 DEF Own
<1>19. Own(h) /\ Held(h) = {} /\ End(h)
  <2>1. \A k \in 0 .. h.num_elem - 1 : h.elements[k] = NULL
    BY <1>8, <1>12
  <2>2. Slots(h) \subseteq 0 .. h.num_elem - 1
    BY <1>12, SlotsIs
  <2>3. \A k \in Slots(h) : h.elements[k] = NULL
    BY <2>1, <2>2
  <2> QED
    BY <1>12, <2>1, <2>3 DEF Own, Held, End
<1>20. End(g)
  BY <1>1, <1>3, <1>4, <1>6, <1>11, <1>14 DEF End
<1>21. Held(g) = Held(r) \cup Held(s)
  <2>1. ASSUME NEW o \in Held(g) PROVE o \in Held(r) \cup Held(s)
    <3>1. PICK k \in Slots(g) : g.elements[k] = o /\ o # NULL
      BY <2>1, HeldIs
    <3> QED
      BY <1>15, <3>1, HeldIs
  <2>2. ASSUME NEW o \in Held(r) PROVE o \in Held(g)
    <3>1. PICK k \in Slots(r) : r.elements[k] = o /\ o # NULL
      BY <2>2, HeldIs
    <3>2. k \in Slots(g) /\ g.elements[k] = o
      BY SMTT(40), <1>1, <1>3, <1>4, <1>6, <1>11, <1>14, <3>1
    <3> QED
      BY <3>1, <3>2, HeldIs
  <2>3. ASSUME NEW o \in Held(s) PROVE o \in Held(g)
    <3>1. PICK k \in Slots(s) : s.elements[k] = o /\ o # NULL
      BY <2>3, HeldIs
    <3>2. PICK x \in Int : x = k + r.max + 1
      BY <1>1, <1>14, <3>1
    <3>5. k \in Int /\ 0 <= k /\ k <= s.max
      BY <1>1, <1>14, <3>1
    <3>6. 0 <= x /\ x <= m /\ x > r.max /\ x - r.max - 1 = k
      <4>1. r.max \in Int /\ -1 <= r.max /\ s.max \in Int /\ m = r.max + s.max + 1
        BY <1>1, <1>14
      <4> HIDE DEF r, s
      <4> QED
        BY <3>2, <3>5, <4>1
    <3>3. x \in Slots(g) /\ x > r.max /\ x - r.max - 1 = k
      BY <1>3, <1>14, <3>2, <3>6
    <3>4. g.elements[x] = o
      BY <1>1, <1>15, <3>1, <3>3
    <3> QED
      BY <3>1, <3>3, <3>4, HeldIs
  <2> QED
    BY <2>1, <2>2, <2>3
<1>22. /\ Held(g) \cup Held(h) = Held(array[a]) \cup Held(array[c]) /\ Held(g) \cap Held(h) = {}
       /\ g.max < MaxLen /\ h.max < MaxLen
  <2>1. Held(g) \cup Held(h) = Held(array[a]) \cup Held(array[c]) /\ Held(g) \cap Held(h) = {}
    BY <1>19, <1>21
  <2>2. g.max < MaxLen
    BY <1>2, <1>11, ConstantsAre
  <2>3. h.max < MaxLen
    BY <1>1, <1>12
  <2> QED
    BY <2>1, <2>2, <2>3
<1>23. Bounded' /\ OneOwner' /\ Sound'
  <2>1. a # c /\ live' = live /\ cut' = cut
    BY <1>2
  <2> QED
    BY <1>13, <1>18, <1>19, <1>20, <1>22, <2>1, TwoRows
<1>24. \A x \in Arrays : array'[x] = IF x = c THEN h ELSE IF x = a THEN g ELSE array[x]
  BY <1>13 DEF Bounded
<1>25. Forward
  <2> SUFFICES ASSUME NEW x \in Arrays, NEW k \in Slots(array'[x]), NEW l \in Slots(array'[x]), k < l,
                      array'[x].elements[k] \in live \ cut
               PROVE  \E y, z \in Arrays : \E i \in Slots(array[y]), j \in Slots(array[z]) :
                        /\ array[y].elements[i] = array'[x].elements[k]
                        /\ array[z].elements[j] = array'[x].elements[l]
                        /\ y # z \/ i <= j
    BY DEF Forward
  <2>0. k \in Int /\ l \in Int
    BY DEF Slots
  <2>1. CASE x = c
    <3>1. k \in Slots(h) /\ h.elements[k] \in live \ cut
      BY <1>24, <2>1
    <3>2. h.elements[k] \in Held(h)
      BY <3>1, HeldIs, ConstantsAre DEF Bounded
    <3> QED
      BY <1>19, <3>2
  <2>2. CASE x # c /\ x # a
    <3>1. array'[x] = array[x] /\ k <= l
      BY <1>24, <2>0, <2>2
    <3> QED
      BY <3>1
  <2>3. CASE x = a
    <3>1. array'[x] = g /\ k \in Slots(g) /\ l \in Slots(g)
      BY <1>2, <1>24, <2>3
    <3>2. CASE l <= r.max
      <4>1. k \in Slots(r) /\ g.elements[k] = r.elements[k] /\ l \in Slots(r) /\ g.elements[l] = r.elements[l] /\ k <= l
        BY <1>1, <1>15, <2>0, <3>1, <3>2
      <4> QED
        BY <3>1, <4>1
    <3>3. CASE k <= r.max /\ ~(l <= r.max)
      <4>1. /\ k \in Slots(r) /\ g.elements[k] = r.elements[k]
            /\ l - r.max - 1 \in Slots(s) /\ g.elements[l] = s.elements[l - r.max - 1]
        BY <1>1, <1>15, <2>0, <3>1, <3>3
      <4> QED
        BY <1>2, <3>1, <4>1
    <3>4. CASE ~(k <= r.max)
      <4>1. /\ k - r.max - 1 \in Slots(s) /\ g.elements[k] = s.elements[k - r.max - 1]
            /\ l - r.max - 1 \in Slots(s) /\ g.elements[l] = s.elements[l - r.max - 1]
            /\ k - r.max - 1 <= l - r.max - 1
        BY <1>1, <1>15, <2>0, <3>1, <3>4
      <4> QED
        BY <3>1, <4>1
    <3> QED
      BY <3>2, <3>3, <3>4
  <2> QED
    BY <2>1, <2>2, <2>3
<1> QED
  BY <1>23, <1>25 DEF Kept

\* The order of the slots changes: f says where each has its pointer from.
LEMMA sortKeeps == ASSUME Bounded, Sound, NEW a \in Arrays, sort(a) PROVE Bounded' /\ OneOwner' /\ Sound'
<1> DEFINE r == array[a]
<1>1. /\ Own(r) /\ End(r) /\ r \in Arrs /\ Held(r) \subseteq live \ cut /\ cut \subseteq live /\ live \subseteq Objects
      /\ cut \subseteq Objects /\ OneOwner /\ r.max \in Int /\ -1 <= r.max /\ r.num_elem \in Nat
      /\ r.max < r.num_elem /\ r.max < MaxLen
  BY RowIs
<1>2. PICK f \in Injection(Slots(r), Slots(r)) :
        Set(a, [r EXCEPT !.elements = [k \in DOMAIN @ |-> IF k \in Slots(r) THEN @[f[k]] ELSE @[k]]])
  BY DEF sort
<1>3. live' = live /\ cut' = cut
  BY DEF sort
<1>4. Slots(r) = 0 .. r.max
  BY DEF Slots
<1>5. f \in Surjection(Slots(r), Slots(r))
  <2>1. IsFiniteSet(Slots(r))
    <3>1. r.max \in Int /\ 0 \in Int
      BY <1>1
    <3> HIDE DEF r
    <3>2. IsFiniteSet(0 .. r.max)
      BY <3>1, FS_Interval
    <3> QED
      BY <1>4, <3>2
  <2> QED
    BY <1>2, <2>1, FS_Injection
<1>6. /\ f \in [Slots(r) -> Slots(r)] /\ \A k, l \in Slots(r) : f[k] = f[l] => k = l
      /\ \A l \in Slots(r) : \E k \in Slots(r) : f[k] = l
  BY <1>2, <1>5 DEF Injection, IsInjective, Surjection
<1> DEFINE e == [k \in DOMAIN r.elements |-> IF k \in Slots(r) THEN r.elements[f[k]] ELSE r.elements[k]]
           g == [r EXCEPT !.elements = e]
<1>7. Set(a, g)
  BY <1>2
<1>8. DOMAIN r.elements = 0 .. r.num_elem - 1 /\ r.elements \in [0 .. r.num_elem - 1 -> Pointers]
      /\ Slots(r) \subseteq 0 .. r.num_elem - 1
  BY <1>1, ArrIs, SlotsIs
<1>9. /\ \A k \in Slots(r) : e[k] = r.elements[f[k]]
      /\ \A k \in 0 .. r.num_elem - 1 : k \notin Slots(r) => e[k] = r.elements[k]
  BY <1>8
<1>10. e \in [0 .. r.num_elem - 1 -> Pointers]
  <2>1. ASSUME NEW k \in 0 .. r.num_elem - 1 PROVE e[k] \in Pointers
    <3>1. CASE k \in Slots(r)
      <4>1. f[k] \in 0 .. r.num_elem - 1 /\ e[k] = r.elements[f[k]]
        BY <1>6, <1>8, <1>9, <3>1
      <4> HIDE DEF e
      <4> QED
        BY <1>8, <4>1
    <3>2. CASE k \notin Slots(r)
      <4>1. e[k] = r.elements[k]
        BY <1>9, <3>2
      <4> HIDE DEF e
      <4> QED
        BY <1>8, <4>1
    <3> QED
      BY <3>1, <3>2
  <2>2. e = [k \in 0 .. r.num_elem - 1 |-> e[k]]
    BY <1>8
  <2> HIDE DEF e
  <2> QED
    BY <2>1, <2>2
<1> HIDE DEF e
<1>11. g \in Arrs /\ g.max = r.max /\ g.num_elem = r.num_elem /\ g.elements = e
  BY <1>1, <1>10, WrittenIs
<1> HIDE DEF g
<1>12. Slots(g) = Slots(r) /\ \A k \in Slots(g) : g.elements[k] = r.elements[f[k]]
  BY <1>9, <1>11 DEF Slots
<1>13. Own(g)
  BY <1>1, <1>6, <1>11, <1>12 DEF Own
<1>14. End(g)
  BY <1>1, <1>4, <1>9, <1>11 DEF End
<1>15. Held(g) = Held(r)
  <2>1. ASSUME NEW o \in Held(g) PROVE o \in Held(r)
    <3>1. PICK k \in Slots(g) : g.elements[k] = o /\ o # NULL
      BY <2>1, HeldIs
    <3> QED
      BY <1>6, <1>12, <3>1, HeldIs
  <2>2. ASSUME NEW o \in Held(r) PROVE o \in Held(g)
    <3>1. PICK l \in Slots(r) : r.elements[l] = o /\ o # NULL
      BY <2>2, HeldIs
    <3>2. PICK k \in Slots(r) : f[k] = l
      BY <1>6, <3>1
    <3> QED
      BY <1>12, <3>1, <3>2, HeldIs
  <2> QED
    BY <2>1, <2>2
<1>16. PICK E : E = {}
  OBVIOUS
<1>17. /\ Held(g) = (Held(r) \ E) \cup E /\ E \cap (live \ cut) = {} /\ E \cap (live \ cut) \subseteq Held(r)
       /\ live' \ cut' = ((live \ cut) \ E) \cup E /\ cut' \subseteq live' /\ live' \subseteq Objects /\ cut' \subseteq Objects
       /\ g.max < MaxLen
  BY <1>1, <1>3, <1>11, <1>15, <1>16
<1> QED
  BY <1>1, <1>7, <1>13, <1>14, <1>17, OneRow

\* The block of shuffle has room, and every slot is NULL.
BlockIs(n, b) == b = [k \in -1 .. n |-> IF k = -1 THEN Nothing ELSE setsize(b[k - 1], k)]

LEMMA BlockExists == \A n \in Nat : \E b : BlockIs(n - 1, b)
<1> DEFINE T == {n \in Nat : \E b : BlockIs(n - 1, b)}
<1>1. 0 \in T
  <2>1. PICK b : b = [k \in -1 .. -1 |-> Nothing]
    OBVIOUS
  <2>2. b = [k \in -1 .. -1 |-> IF k = -1 THEN Nothing ELSE setsize(b[k - 1], k)]
    BY <2>1
  <2>3. 0 - 1 = -1
    OBVIOUS
  <2>4. BlockIs(0 - 1, b)
    BY <2>2, <2>3 DEF BlockIs
  <2> QED
    BY <2>4
<1>2. ASSUME NEW n \in Nat, n \in T PROVE n + 1 \in T
  <2>1. PICK b : BlockIs(n - 1, b)
    BY <1>2
  <2> DEFINE c == [k \in -1 .. n |-> IF k < n THEN b[k] ELSE setsize(b[n - 1], n)]
  <2>2. \A k \in -1 .. n : c[k] = IF k < n THEN b[k] ELSE setsize(b[n - 1], n)
    OBVIOUS
  <2>3. \A k \in -1 .. n - 1 : b[k] = IF k = -1 THEN Nothing ELSE setsize(b[k - 1], k)
    BY <2>1 DEF BlockIs
  <2>4. c = [k \in -1 .. n |-> c[k]]
    OBVIOUS
  <2> HIDE DEF c
  <2>5. ASSUME NEW k \in -1 .. n PROVE c[k] = IF k = -1 THEN Nothing ELSE setsize(c[k - 1], k)
    <3>1. CASE k < n
      <4>1. c[k] = b[k] /\ (k # -1 => k - 1 \in -1 .. n /\ k - 1 < n) /\ k \in -1 .. n - 1
        BY <2>2, <3>1
      <4>2. k # -1 => c[k - 1] = b[k - 1]
        BY <2>2, <4>1
      <4> QED
        BY <2>3, <4>1, <4>2
    <3>2. CASE ~(k < n)
      <4>1. k = n /\ n - 1 \in -1 .. n /\ n - 1 < n /\ k # -1
        BY <3>2
      <4>2. c[n - 1] = b[n - 1] /\ c[k] = setsize(b[n - 1], n)
        BY <2>2, <3>2, <4>1
      <4> QED
        BY <4>1, <4>2
    <3> QED
      BY <3>1, <3>2
  <2>6. c = [k \in -1 .. n |-> IF k = -1 THEN Nothing ELSE setsize(c[k - 1], k)]
    BY <2>4, <2>5
  <2>7. BlockIs((n + 1) - 1, c)
    <3>1. (n + 1) - 1 = n
      OBVIOUS
    <3> QED
      BY <2>6, <3>1 DEF BlockIs
  <2> QED
    BY <2>7
<1> HIDE DEF T
<1>3. Nat \subseteq T
  BY <1>1, <1>2, NatSet
<1> QED
  BY <1>3 DEF T

LEMMA NewBlockIs ==
  ASSUME NEW n \in Int, -1 <= n
  PROVE  LET b == NewBlock(n) IN
         b \in Arrs /\ b.num_elem > n /\ \A k \in 0 .. b.num_elem - 1 : b.elements[k] = NULL
<1> DEFINE block == CHOOSE b : BlockIs(n, b)
<1>1. NewBlock(n) = block[n]
  BY DEF NewBlock, BlockIs
<1>2. BlockIs(n, block)
  <2>1. n + 1 \in Nat /\ (n + 1) - 1 = n
    OBVIOUS
  <2>2. \E b : BlockIs(n, b)
    BY <2>1, BlockExists
  <2> QED
    BY <2>2
<1> HIDE DEF block
<1>3. \A k \in -1 .. n : block[k] = IF k = -1 THEN Nothing ELSE setsize(block[k - 1], k)
  BY <1>2 DEF BlockIs
<1> DEFINE Fine(b, k) == /\ b \in Arrs /\ b.max = -1 /\ b.num_elem > k
                         /\ \A i \in 0 .. b.num_elem - 1 : b.elements[i] = NULL
           T == {m \in Nat : m - 1 <= n => Fine(block[m - 1], m - 1)}
<1>4. 0 \in T
  <2>1. block[-1] = Nothing
    BY <1>3
  <2>2. Nothing \in Arrs /\ Nothing.max = -1 /\ Nothing.num_elem = 0
    BY NothingIs
  <2>3. Fine(Nothing, -1)
    BY <2>2
  <2>4. 0 - 1 = -1
    OBVIOUS
  <2> HIDE DEF Fine
  <2> QED
    BY <2>1, <2>3, <2>4
<1>5. ASSUME NEW m \in Nat, m \in T PROVE m + 1 \in T
  <2> SUFFICES ASSUME m <= n PROVE Fine(block[m], m)
    <3>1. (m + 1) - 1 = m /\ m + 1 \in Nat
      OBVIOUS
    <3> HIDE DEF Fine
    <3> QED
      BY <3>1
  <2>1. m - 1 <= n /\ m - 1 \in Int /\ m \in -1 .. n /\ m # -1
    OBVIOUS
  <2> DEFINE b == block[m - 1]
  <2>2. Fine(b, m - 1)
    BY <1>5, <2>1
  <2>3. block[m] = setsize(b, m)
    BY <1>3, <2>1
  <2> DEFINE g == setsize(b, m)
  <2> HIDE DEF b
  <2>4. /\ g \in Arrs /\ g.max = b.max /\ g.num_elem > m /\ g.num_elem >= b.num_elem
        /\ \A k \in 0 .. g.num_elem - 1 : g.elements[k] = IF k < b.num_elem THEN b.elements[k] ELSE NULL
    BY <2>2, SetsizeIs
  <2>5. b.num_elem \in Nat
    BY <2>2, ArrIs
  <2> HIDE DEF g
  <2>6. Fine(g, m)
    BY <2>2, <2>4, <2>5
  <2> QED
    BY <2>3, <2>6 DEF g
<1> HIDE DEF T, Fine
<1>6. Nat \subseteq T
  BY <1>4, <1>5, NatSet
<1>7. n + 1 \in Nat /\ (n + 1) - 1 = n
  OBVIOUS
<1>8. n + 1 \in T
  BY <1>6, <1>7
<1>9. Fine(block[n], n)
  BY <1>7, <1>8 DEF T
<1> QED
  BY <1>1, <1>9 DEF Fine

LEMMA shuffleKeeps == ASSUME Bounded, Sound, NEW a \in Arrays, shuffle(a) PROVE Bounded' /\ OneOwner' /\ Sound'
<1> DEFINE r == array[a]
           b == NewBlock(r.max)
           empty == {k \in Slots(r) : r.elements[k] = NULL}
<1>1. /\ Own(r) /\ End(r) /\ r \in Arrs /\ Held(r) \subseteq live \ cut /\ cut \subseteq live /\ live \subseteq Objects
      /\ cut \subseteq Objects /\ OneOwner /\ r.max \in Int /\ -1 <= r.max /\ r.num_elem \in Nat
      /\ r.max < r.num_elem /\ r.max < MaxLen
  BY RowIs
<1>2. \E f \in Injection(Slots(r), Slots(r)), h \in Injection(empty, Fresh) :
        /\ Set(a, [b EXCEPT !.max = r.max, !.elements = [k \in DOMAIN @ |->
                IF k \notin Slots(r) THEN NULL ELSE IF f[k] \in empty THEN h[f[k]] ELSE r.elements[f[k]]]])
        /\ live' = live \cup Range(h)
  BY DEF shuffle, New
<1>3. PICK f \in Injection(Slots(r), Slots(r)), h \in Injection(empty, Fresh) :
        /\ Set(a, [b EXCEPT !.max = r.max, !.elements = [k \in DOMAIN @ |->
                IF k \notin Slots(r) THEN NULL ELSE IF f[k] \in empty THEN h[f[k]] ELSE r.elements[f[k]]]])
        /\ live' = live \cup Range(h)
  BY <1>2
<1>4. cut' = cut
  BY DEF shuffle
<1>5. Slots(r) = 0 .. r.max
  BY DEF Slots
<1>6. f \in Surjection(Slots(r), Slots(r))
  <2>1. IsFiniteSet(Slots(r))
    <3>1. r.max \in Int /\ 0 \in Int
      BY <1>1
    <3> HIDE DEF r
    <3>2. IsFiniteSet(0 .. r.max)
      BY <3>1, FS_Interval
    <3> QED
      BY <1>5, <3>2
  <2> QED
    BY <1>3, <2>1, FS_Injection
<1>7. /\ f \in [Slots(r) -> Slots(r)] /\ \A k, l \in Slots(r) : f[k] = f[l] => k = l
      /\ \A l \in Slots(r) : \E k \in Slots(r) : f[k] = l
  BY <1>3, <1>6 DEF Injection, IsInjective, Surjection
<1>8. \A l \in Slots(r) : l \in empty <=> r.elements[l] = NULL
  OBVIOUS
<1>9. empty \subseteq Slots(r)
  OBVIOUS
<1>10. b \in Arrs /\ b.num_elem > r.max /\ \A k \in 0 .. b.num_elem - 1 : b.elements[k] = NULL
  <2> HIDE DEF r
  <2> QED
    BY <1>1, NewBlockIs
<1> DEFINE e == [k \in DOMAIN b.elements |->
                IF k \notin Slots(r) THEN NULL ELSE IF f[k] \in empty THEN h[f[k]] ELSE r.elements[f[k]]]
           g == Rewritten(b, r.max, e)
           N == Range(h)
<1>11. Set(a, g)
  BY <1>3 DEF Rewritten
<1> HIDE DEF b, empty
<1>12. h \in [empty -> Fresh] /\ \A k, l \in empty : h[k] = h[l] => k = l
  BY <1>3 DEF Injection, IsInjective
<1>13. N \in SUBSET Objects /\ N \cap live = {} /\ (\A k \in empty : h[k] \in N) /\ \A o \in N : \E k \in empty : h[k] = o
  BY <1>12 DEF Range, Fresh
<1>14. b.num_elem \in Nat /\ DOMAIN b.elements = 0 .. b.num_elem - 1
  BY <1>10, ArrIs
<1>15. /\ \A k \in Slots(r) : e[k] = IF f[k] \in empty THEN h[f[k]] ELSE r.elements[f[k]]
       /\ \A k \in 0 .. b.num_elem - 1 : k > r.max => e[k] = NULL
       /\ e = [k \in 0 .. b.num_elem - 1 |-> e[k]]
  <2>1. Slots(r) \subseteq 0 .. b.num_elem - 1
    BY <1>1, <1>5, <1>10, <1>14
  <2>2. \A k \in 0 .. b.num_elem - 1 : k > r.max => k \notin Slots(r)
    BY <1>1, <1>5
  <2> QED
    BY <1>14, <2>1, <2>2
<1> HIDE DEF e, N
<1>16. \A k \in Slots(r) : r.elements[k] \in Objects \cup {NULL}
  BY <1>1 DEF Own
<1>17. e \in [0 .. b.num_elem - 1 -> Pointers]
  <2>1. ASSUME NEW k \in 0 .. b.num_elem - 1 PROVE e[k] \in Pointers
    <3>1. CASE k \in Slots(r)
      <4>1. f[k] \in Slots(r)
        BY <1>7, <3>1
      <4>2. e[k] \in N \cup Objects \cup {NULL}
        BY <1>13, <1>15, <1>16, <3>1, <4>1
      <4> QED
        BY <1>13, <4>2, ConstantsAre
    <3>2. CASE k \notin Slots(r)
      <4>1. k > r.max
        BY <1>1, <1>5, <1>14, <3>2
      <4> QED
        BY <1>15, <4>1, ConstantsAre
    <3> QED
      BY <3>1, <3>2
  <2> QED
    BY <1>15, <2>1
<1>18. r.max \in -1 .. b.num_elem - 1
  BY <1>1, <1>10, <1>14
<1>19. g \in Arrs /\ g.max = r.max /\ g.num_elem = b.num_elem /\ g.elements = e
  <2> HIDE DEF r
  <2> QED
    BY <1>10, <1>17, <1>18, RewrittenIs
<1> HIDE DEF g
<1>20. /\ Slots(g) = Slots(r)
       /\ \A k \in Slots(g) : g.elements[k] = IF f[k] \in empty THEN h[f[k]] ELSE r.elements[f[k]]
  BY <1>15, <1>19 DEF Slots
<1>21. \A k \in Slots(g) : f[k] \in Slots(r)
  BY <1>7, <1>20
<1>22. NULL \notin N /\ N \cap Held(r) = {}
  BY <1>1, <1>13, ConstantsAre
<1>23. \A k \in Slots(g) :
         \/ f[k] \in empty /\ g.elements[k] = h[f[k]] /\ g.elements[k] \in N /\ g.elements[k] \notin Held(r)
         \/ f[k] \notin empty /\ g.elements[k] = r.elements[f[k]] /\ g.elements[k] \in Held(r) /\ g.elements[k] \notin N
  <2> SUFFICES ASSUME NEW k \in Slots(g)
               PROVE  \/ f[k] \in empty /\ g.elements[k] = h[f[k]] /\ g.elements[k] \in N /\ g.elements[k] \notin Held(r)
                      \/ f[k] \notin empty /\ g.elements[k] = r.elements[f[k]] /\ g.elements[k] \in Held(r) /\ g.elements[k] \notin N
    OBVIOUS
  <2>1. CASE f[k] \in empty
    <3>1. g.elements[k] = h[f[k]] /\ h[f[k]] \in N
      BY <1>13, <1>20, <2>1
    <3> QED
      BY <1>22, <2>1, <3>1
  <2>2. CASE f[k] \notin empty
    <3>1. g.elements[k] = r.elements[f[k]] /\ r.elements[f[k]] \in Held(r)
      BY <1>8, <1>20, <1>21, <2>2, HeldIs
    <3> QED
      BY <1>22, <2>2, <3>1
  <2> QED
    BY <2>1, <2>2
<1>24. Own(g)
  <2>1. \A k \in Slots(g) : g.elements[k] \in Objects \cup {NULL}
    BY <1>13, <1>16, <1>21, <1>23
  <2>2. ASSUME NEW k \in Slots(g), NEW l \in Slots(g), g.elements[k] = g.elements[l] PROVE k = l
    <3>1. f[k] = f[l]
      <4>1. CASE f[k] \in empty
        BY <1>12, <1>23, <2>2, <4>1
      <4>2. CASE f[k] \notin empty
        <5>1. f[l] \notin empty /\ r.elements[f[k]] = r.elements[f[l]] /\ r.elements[f[k]] # NULL
          BY <1>8, <1>21, <1>23, <2>2, <4>2
        <5> QED
          BY <1>1, <1>21, <5>1 DEF Own
      <4> QED
        BY <4>1, <4>2
    <3> QED
      BY <1>7, <1>20, <3>1
  <2> QED
    BY <1>19, <2>1, <2>2 DEF Own
<1>25. End(g)
  BY <1>15, <1>19 DEF End
<1>26. Held(g) = Held(r) \cup N
  <2>1. ASSUME NEW o \in Held(g) PROVE o \in Held(r) \cup N
    <3>1. PICK k \in Slots(g) : g.elements[k] = o
      BY <2>1, HeldIs
    <3> QED
      BY <1>23, <3>1
  <2>2. ASSUME NEW o \in Held(r) PROVE o \in Held(g)
    <3>1. PICK l \in Slots(r) : r.elements[l] = o /\ o # NULL
      BY <2>2, HeldIs
    <3>2. PICK k \in Slots(r) : f[k] = l
      BY <1>7, <3>1
    <3>3. k \in Slots(g) /\ g.elements[k] = o
      BY <1>8, <1>20, <3>1, <3>2
    <3> QED
      BY <3>1, <3>3, HeldIs
  <2>3. ASSUME NEW o \in N PROVE o \in Held(g)
    <3>1. PICK l \in empty : h[l] = o
      BY <1>13, <2>3
    <3>2. PICK k \in Slots(r) : f[k] = l
      BY <1>7, <1>9, <3>1
    <3>3. k \in Slots(g) /\ g.elements[k] = o
      BY <1>20, <3>1, <3>2
    <3> QED
      BY <1>22, <2>3, <3>3, HeldIs
  <2> QED
    BY <2>1, <2>2, <2>3
<1>27. PICK D : D = {}
  OBVIOUS
<1>28. /\ Held(g) = (Held(r) \ D) \cup N /\ N \cap (live \ cut) = {} /\ D \cap (live \ cut) \subseteq Held(r)
       /\ live' \ cut' = ((live \ cut) \ D) \cup N /\ cut' \subseteq live' /\ live' \subseteq Objects /\ cut' \subseteq Objects
       /\ g.max < MaxLen
  <2>1. live' = live \cup N
    BY <1>3 DEF N
  <2> QED
    BY <1>1, <1>4, <1>13, <1>19, <1>26, <1>27, <2>1
<1> QED
  BY <1>1, <1>11, <1>24, <1>25, <1>28, OneRow

-----------------------------------------------------------------------------
(* The theorems                                                              *)

\* One step, as the three properties say it.
Stepped ==
  /\ Bounded' \/ (BreaksBounds /\ ~InBounds')
  /\ OneOwner' \/ BreaksOwner
  /\ Sound' \/ BreaksOwner \/ BreaksEnd \/ BreaksBounds
  /\ Sound' => Ordering \/ \E a \in Arrays : sort(a) \/ shuffle(a)

LEMMA KeptSteps == ASSUME Bounded, Sound, Kept PROVE Stepped
<1>1. Ordering
  BY ForwardKeeps DEF Kept, Sound
<1> QED
  BY <1>1 DEF Kept, Stepped

LEMMA ChangeSteps == ASSUME Bounded, Sound, Change PROVE Stepped
<1>0. MaxLen \in Nat /\ 0 .. MaxLen - 1 \subseteq Nat /\ 0 .. MaxLen \subseteq Nat /\ 0 .. MaxLen - 1 \subseteq 0 .. MaxLen
  BY ConstantsAre
<1>1. ASSUME NEW a \in Arrays, PushBack(a) PROVE Stepped
  BY <1>1, PushBackKeeps, KeptSteps
<1>2. ASSUME NEW a \in Arrays, PushBackThrows(a) PROVE Stepped
  BY <1>2, PushBackThrowsKeeps, KeptSteps
<1>3. ASSUME NEW a \in Arrays, PushFront(a) PROVE Stepped
  BY <1>3, PushFrontKeeps, KeptSteps
<1>4. ASSUME NEW a \in Arrays, PushFrontThrows(a) PROVE Stepped
  <2>1. BreaksOwner
    BY <1>4 DEF BreaksOwner
  <2>2. Bounded' /\ Ordering
    BY <1>4, PushFrontThrowsKeeps, ForwardKeeps DEF Sound
  <2> QED
    BY <2>1, <2>2 DEF Stepped
<1>5. ASSUME NEW a \in Arrays, Clear(a) PROVE Stepped
  BY <1>5, ClearKeeps, KeptSteps
<1>6. ASSUME NEW a \in Arrays, sort(a) PROVE Stepped
  <2>1. Bounded' /\ OneOwner' /\ Sound'
    BY <1>6, sortKeeps
  <2> QED
    BY <1>6, <2>1 DEF Stepped
<1>7. ASSUME NEW a \in Arrays, shuffle(a) PROVE Stepped
  <2>1. Bounded' /\ OneOwner' /\ Sound'
    BY <1>7, shuffleKeeps
  <2> QED
    BY <1>7, <2>1 DEF Stepped
<1>8. ASSUME NEW a \in Arrays, NEW i \in 0 .. MaxLen - 1, InsertHole(a, i) PROVE Stepped
  <2>1. Kept
    BY <1>0, <1>8, InsertHoleKeeps
  <2> QED
    BY <2>1, KeptSteps
<1>9. ASSUME NEW a \in Arrays, NEW i \in 0 .. MaxLen - 1, InsertOne(a, i) PROVE Stepped
  <2>1. Bounded' /\ OneOwner' /\ Forward /\ (Sound' \/ i > array[a].max)
    BY <1>0, <1>9, InsertOneKeeps
  <2>2. Ordering
    BY <2>1, ForwardKeeps DEF Sound
  <2>3. i > array[a].max => BreaksEnd
    BY <1>0, <1>9 DEF BreaksEnd
  <2> QED
    BY <2>1, <2>2, <2>3 DEF Stepped
<1>10. ASSUME NEW a \in Arrays, NEW i \in 0 .. MaxLen - 1, Stretch(a, i) PROVE Stepped
  BY <1>10, StretchKeeps, KeptSteps
<1>11. ASSUME NEW a \in Arrays, NEW i \in 0 .. MaxLen - 1, Reach(a, i) PROVE Stepped
  BY <1>11, ReachKeeps, KeptSteps
<1>12. ASSUME NEW a \in Arrays, NEW i, ClearSlot(a, i) PROVE Stepped
  BY <1>12, ClearSlotKeeps, KeptSteps
<1>13. ASSUME NEW a \in Arrays, NEW i, Erase(a, i) PROVE Stepped
  BY <1>13, EraseKeeps, KeptSteps
<1>14. ASSUME NEW a \in Arrays, NEW i \in 0 .. MaxLen - 1, cutptr(a, i) PROVE Stepped
  <2>1. CASE i < array[a].num_elem
    BY <1>0, <1>14, <2>1, CutptrKeeps, KeptSteps
  <2>2. CASE ~(i < array[a].num_elem)
    <3>1. ~InBounds' /\ OneOwner'
      BY <1>0, <1>14, <2>2, CutptrBehind
    <3>2. array[a].num_elem \in Nat
      BY RowIs
    <3>3. i >= array[a].num_elem
      BY <2>2, <3>2
    <3>4. BreaksBounds
      BY <1>0, <1>14, <3>3 DEF BreaksBounds
    <3>5. ~Sound'
      BY <3>1 DEF Sound
    <3> QED
      BY <3>1, <3>4, <3>5 DEF Stepped
  <2> QED
    BY <2>1, <2>2
<1>15. ASSUME NEW a \in Arrays, NEW i \in 0 .. MaxLen - 1, NEW j \in 0 .. MaxLen, InsertCount(a, i, j) PROVE Stepped
  <2>1. BreaksOwner
    BY <1>0, <1>15 DEF BreaksOwner
  <2>2. Bounded' /\ (Sound' => Forward)
    BY <1>0, <1>15, InsertCountKeeps
  <2>3. Sound' => Ordering
    BY <2>2, ForwardKeeps DEF Sound
  <2> QED
    BY <2>1, <2>2, <2>3 DEF Stepped
<1>16. ASSUME NEW a \in Arrays, NEW i \in 0 .. MaxLen - 1, NEW j \in 0 .. MaxLen, EraseRange(a, i, j) PROVE Stepped
  <2>1. BreaksEnd
    BY <1>0, <1>16 DEF BreaksEnd
  <2>2. Bounded' /\ OneOwner' /\ Forward
    BY <1>16, EraseRangeKeeps
  <2>3. Ordering
    BY <2>2, ForwardKeeps DEF Sound
  <2> QED
    BY <2>1, <2>2, <2>3 DEF Stepped
<1>17. ASSUME NEW a \in Arrays, NEW i \in 0 .. MaxLen - 1, NEW p, pasteptr(a, i, p) PROVE Stepped
  BY <1>17, PasteptrKeeps, KeptSteps
<1>18. ASSUME NEW a \in Arrays, NEW c \in Arrays, Copy(a, c) PROVE Stepped
  BY <1>18, CopyKeeps, KeptSteps
<1>19. ASSUME NEW a \in Arrays, NEW c \in Arrays, AppendCopy(a, c) PROVE Stepped
  BY <1>19, AppendCopyKeeps, KeptSteps
<1>20. ASSUME NEW a \in Arrays, NEW c \in Arrays, Swap(a, c) PROVE Stepped
  BY <1>20, SwapKeeps, KeptSteps
<1>21. ASSUME NEW a \in Arrays, NEW c \in Arrays, AppendMoved(a, c) PROVE Stepped
  BY <1>21, AppendMovedKeeps, KeptSteps
<1> QED
  BY <1>1, <1>2, <1>3, <1>4, <1>5, <1>6, <1>7, <1>8, <1>9, <1>10, <1>11, <1>12, <1>13, <1>14, <1>15, <1>16,
     <1>17, <1>18, <1>19, <1>20, <1>21 DEF Change

LEMMA BoundedInit == Init => Bounded
<1> SUFFICES ASSUME Init PROVE Bounded
  OBVIOUS
<1>1. \A a \in Arrays : array[a] = Nothing
  BY DEF Init
<1>2. array = [a \in Arrays |-> array[a]]
  BY DEF Init
<1>3. \A a \in Arrays : array[a] \in Arrs /\ array[a].max < MaxLen
  BY <1>1, NothingIs, ConstantsAre
<1>4. array \in [Arrays -> Arrs]
  BY <1>2, <1>3
<1> QED
  BY <1>3, <1>4 DEF Init, Bounded

\* The inductive invariant.
BoundedWithin == InBounds => Bounded

LEMMA WithinNext == BoundedWithin /\ [Next]_vars => BoundedWithin'
<1> SUFFICES ASSUME BoundedWithin, [Next]_vars, InBounds' PROVE Bounded'
  BY DEF BoundedWithin
<1>1. CASE Sound /\ Change
  <2>1. Bounded
    BY <1>1 DEF Sound, BoundedWithin
  <2> QED
    BY <1>1, <2>1, ChangeSteps DEF Stepped
<1>2. CASE UNCHANGED vars
  <2>1. InBounds
    BY <1>2 DEF vars, InBounds
  <2> QED
    BY <1>2, <2>1 DEF vars, Bounded, BoundedWithin
<1> QED
  BY <1>1, <1>2 DEF Next, Unsound

\* As long as no cutptr has written behind a block, the members of every array
\* fit together: num_elem is the size of its block, max lies in it and in the
\* bound, and its slots hold pointers.
THEOREM BoundedThm == Spec => [](InBounds => Bounded)
<1>1. BoundedWithin <=> (InBounds => Bounded)
  BY DEF BoundedWithin
<1>2. Init => BoundedWithin
  BY BoundedInit DEF BoundedWithin
<1>3. Spec => []BoundedWithin
  BY <1>2, WithinNext, PTL DEF Spec
<1> QED
  BY <1>1, <1>3, PTL

\* No member of an array but cutptr stores or moves a pointer behind the block
\* setsize has made, whatever the sizes the block grows by (array.h 494-514).
THEOREM BoundsThm == Spec => BoundsKept
<1>1. (InBounds => Bounded) /\ [Next]_vars => [Sound => InBounds' \/ BreaksBounds]_vars
  <2> SUFFICES ASSUME InBounds => Bounded, Next, Sound
               PROVE  UNCHANGED vars \/ InBounds' \/ BreaksBounds
    OBVIOUS
  <2>1. Bounded
    BY DEF Sound
  <2>2. CASE Change
    <3>1. Bounded' \/ BreaksBounds
      BY <2>1, <2>2, ChangeSteps DEF Stepped
    <3> QED
      BY <3>1, BoundsNext
  <2> QED
    BY <2>2 DEF Next, Unsound
<1> QED
  BY <1>1, BoundedThm, PTL DEF Spec, BoundsKept

\* From any state where each object has one owner, a member leaves a state where
\* each has: but for the members OwnershipKept names (array.h 324, 353-363, 471,
\* 688-690, and 586-589 behind the block).
THEOREM OwnershipThm == Spec => OwnershipKept
<1>1. (InBounds => Bounded) /\ [Next]_vars =>
        [Sound => /\ OneOwner' \/ BreaksOwner
                  /\ Sound' \/ BreaksOwner \/ BreaksEnd \/ BreaksBounds]_vars
  <2> SUFFICES ASSUME InBounds => Bounded, Next, Sound
               PROVE  \/ UNCHANGED vars
                      \/ /\ OneOwner' \/ BreaksOwner
                         /\ Sound' \/ BreaksOwner \/ BreaksEnd \/ BreaksBounds
    BY DEF OwnershipKept
  <2>1. Bounded
    BY DEF Sound
  <2> QED
    BY <2>1, ChangeSteps DEF Next, Unsound, Stepped
<1> QED
  BY <1>1, BoundedThm, PTL DEF Spec, OwnershipKept

\* Two objects that stay are not exchanged, within an array or on the way to
\* another, in any member but sort and shuffle.
THEOREM OrderThm == Spec => OrderKept
<1>1. (InBounds => Bounded) /\ [Next]_vars =>
        [Sound /\ Sound' =>
           \/ \A o, p \in live \ cut : Before(o, p) => ~Before(p, o)'
           \/ \E a \in Arrays : sort(a) \/ shuffle(a)]_vars
  <2> SUFFICES ASSUME InBounds => Bounded, Next, Sound, Sound'
               PROVE  \/ UNCHANGED vars
                      \/ \A o, p \in live \ cut : Before(o, p) => ~Before(p, o)'
                      \/ \E a \in Arrays : sort(a) \/ shuffle(a)
    OBVIOUS
  <2>1. Bounded
    BY DEF Sound
  <2> QED
    BY <2>1, ChangeSteps DEF Next, Unsound, Stepped, Ordering
<1> QED
  BY <1>1, BoundedThm, PTL DEF Spec, OrderKept

-----------------------------------------------------------------------------
(* SArray: the block is beside a list, and the two agree                     *)

CONSTANTS Values, Wide, MaxMax
VARIABLES arr, list

Flat == INSTANCE SArray WITH First <- Step

\* What the members of an SArray may be.
Recs == [mem : Seq(Nat), max : {n \in Int : n >= -1}]

\* The block of r begins with l.
Holds(r, l) ==
  /\ r \in Recs /\ l \in Seq(Nat)
  /\ Len(l) = r.max + 1 /\ Len(l) <= Len(r.mem)
  /\ \A k \in 1 .. Len(l) : r.mem[k] = l[k]

LEMMA RecIs ==
  ASSUME NEW r \in Recs
  PROVE  /\ r.mem \in Seq(Nat) /\ Len(r.mem) \in Nat /\ DOMAIN r.mem = 1 .. Len(r.mem)
         /\ r.max \in Int /\ r.max >= -1
         /\ \A k \in 1 .. Len(r.mem) : r.mem[k] \in Nat
         /\ r = [mem |-> r.mem, max |-> r.max]
         /\ Flat!num_elem(r) = Len(r.mem)
<1>1. r.mem \in Seq(Nat) /\ r.max \in Int /\ r.max >= -1 /\ r = [mem |-> r.mem, max |-> r.max]
  BY DEF Recs
<1>2. Len(r.mem) \in Nat /\ DOMAIN r.mem = 1 .. Len(r.mem) /\ \A k \in 1 .. Len(r.mem) : r.mem[k] \in Nat
  BY <1>1, LenProperties, ElementOfSeq
<1> QED
  BY <1>1, <1>2 DEF Flat!num_elem

LEMMA RecMade ==
  ASSUME NEW m \in Seq(Nat), NEW n \in Int, n >= -1
  PROVE  /\ [mem |-> m, max |-> n] \in Recs
         /\ [mem |-> m, max |-> n].mem = m /\ [mem |-> m, max |-> n].max = n
BY DEF Recs

LEMMA BrokenIs ==
  /\ Flat!Broken \in Recs /\ Flat!Broken.mem = <<>> /\ Flat!Broken.max = 0
  /\ ~(Flat!Broken.max < Len(Flat!Broken.mem))
<1>1. <<>> \in Seq(Nat) /\ Len(<<>>) = 0
  BY EmptySeq
<1>2. Flat!Broken = [mem |-> <<>>, max |-> 0]
  BY DEF Flat!Broken
<1>3. [mem |-> <<>>, max |-> 0] \in Recs
  BY <1>1 DEF Recs
<1> QED
  BY <1>1, <1>2, <1>3

\* n numbers.
LEMMA RowMade ==
  ASSUME NEW n \in Nat, NEW f \in [1 .. n -> Nat]
  PROVE  f \in Seq(Nat) /\ Len(f) = n
<1>1. f \in Seq(Nat)
  BY SeqDef
<1>2. DOMAIN f = 1 .. n /\ DOMAIN f = 1 .. Len(f) /\ Len(f) \in Nat
  BY <1>1, LenProperties
<1> QED
  BY <1>1, <1>2

LEMMA FlatNumIs ==
  ASSUME NEW n \in Nat, NEW i \in Nat
  PROVE  Flat!NewNum(n, i) \in Nat /\ Flat!NewNum(n, i) > i
<1> DEFINE f == [k \in 0 .. n - 1 |-> NULL]
           r == [elements |-> f, num_elem |-> n, max |-> -1]
<1>1. f \in [0 .. n - 1 -> Pointers]
  BY ConstantsAre
<1> HIDE DEF f
<1>2. r \in Arrs
  BY <1>1, ArrMade
<1>3. NewNum(r, i) = Flat!NewNum(n, i)
  BY DEF NewNum, Flat!NewNum
<1> HIDE DEF r
<1> QED
  BY <1>2, <1>3, NewNumIs

\* The block is at least as long and begins with the old one.
FlatRoom(g, r, i) ==
  /\ g \in Recs /\ g.max = r.max /\ Len(g.mem) > i /\ Len(g.mem) >= Len(r.mem)
  /\ \A k \in 1 .. Len(g.mem) : g.mem[k] = IF k <= Len(r.mem) THEN r.mem[k] ELSE 0

LEMMA FlatSetsize ==
  ASSUME NEW r \in Recs, NEW i \in Int, i >= -1
  PROVE  FlatRoom(Flat!setsize(r, i), r, i)
<1>0. /\ r.mem \in Seq(Nat) /\ Len(r.mem) \in Nat /\ r.max \in Int /\ r.max >= -1
      /\ r = [mem |-> r.mem, max |-> r.max] /\ Flat!num_elem(r) = Len(r.mem)
  BY RecIs
<1>1. CASE i < Len(r.mem)
  <2>1. Flat!setsize(r, i) = r
    BY <1>0, <1>1 DEF Flat!setsize
  <2> QED
    BY <1>0, <1>1, <2>1 DEF FlatRoom
<1>2. CASE ~(i < Len(r.mem))
  <2> DEFINE n == Flat!NewNum(Len(r.mem), i)
             z == [k \in 1 .. n - Len(r.mem) |-> 0]
             m == r.mem \o z
  <2>1. n \in Nat /\ n > i
    BY <1>0, <1>2, FlatNumIs
  <2>2. z \in Seq(Nat) /\ Len(z) = n - Len(r.mem)
    <3>1. n - Len(r.mem) \in Nat
      BY <1>0, <1>2, <2>1
    <3> HIDE DEF n
    <3>2. z \in [1 .. n - Len(r.mem) -> Nat]
      OBVIOUS
    <3> HIDE DEF z
    <3> QED
      BY <3>1, <3>2, RowMade
  <2>3. Flat!setsize(r, i) = [r EXCEPT !.mem = r.mem \o z]
    BY <1>0, <1>2 DEF Flat!setsize
  <2>4. \A k \in 1 .. n - Len(r.mem) : z[k] = 0
    OBVIOUS
  <2> HIDE DEF n, z
  <2>5. m \in Seq(Nat) /\ Len(m) = n
        /\ (\A k \in 1 .. Len(r.mem) : m[k] = r.mem[k]) /\ (\A k \in 1 .. Len(z) : m[Len(r.mem) + k] = z[k])
    <3>1. z \in Seq(Nat) /\ r.mem \in Seq(Nat)
      BY <1>0, <2>2
    <3>2. /\ m \in Seq(Nat) /\ Len(m) = Len(r.mem) + Len(z)
          /\ \A k \in 1 .. Len(r.mem) : m[k] = r.mem[k]
          /\ \A k \in 1 .. Len(z) : m[Len(r.mem) + k] = z[k]
      BY <3>1, ConcatAt
    <3> HIDE DEF m
    <3> QED
      BY <1>0, <2>1, <2>2, <3>2
  <2> HIDE DEF m
  <2>6. ASSUME NEW k \in 1 .. n PROVE m[k] = IF k <= Len(r.mem) THEN r.mem[k] ELSE 0
    <3>1. CASE k <= Len(r.mem)
      BY <1>0, <2>5, <3>1
    <3>2. CASE ~(k <= Len(r.mem))
      <4>1. k - Len(r.mem) \in 1 .. Len(z) /\ Len(r.mem) + (k - Len(r.mem)) = k
        BY <1>0, <2>1, <2>2, <3>2
      <4>2. m[Len(r.mem) + (k - Len(r.mem))] = z[k - Len(r.mem)]
        BY <2>5, <4>1
      <4> QED
        BY <2>2, <2>4, <3>2, <4>1, <4>2
    <3> QED
      BY <3>1, <3>2
  <2>7. Flat!setsize(r, i) = [mem |-> m, max |-> r.max]
    BY <1>0, <2>3 DEF m
  <2>8. [mem |-> m, max |-> r.max] \in Recs
    BY <1>0, <2>5, RecMade
  <2> QED
    BY <1>0, <1>2, <2>1, <2>5, <2>6, <2>7, <2>8 DEF FlatRoom
<1> QED
  BY <1>0, <1>1, <1>2

\* A store within the block changes one element.
FlatStored(g, r, i, v) ==
  /\ g \in Recs /\ g.max = r.max /\ Len(g.mem) = Len(r.mem)
  /\ \A k \in 1 .. Len(r.mem) : g.mem[k] = IF k = i + 1 THEN v ELSE r.mem[k]

LEMMA FlatStore ==
  ASSUME NEW r \in Recs, NEW i \in 0 .. Len(r.mem) - 1, NEW v \in Nat
  PROVE  FlatStored(Flat!store(r, i, v), r, i, v)
<1> DEFINE m == [r.mem EXCEPT ![i + 1] = v]
<1>0. /\ r.mem \in Seq(Nat) /\ Len(r.mem) \in Nat /\ r.max \in Int /\ r.max >= -1
      /\ r = [mem |-> r.mem, max |-> r.max] /\ Flat!num_elem(r) = Len(r.mem)
  BY RecIs
<1>1. i + 1 \in 1 .. Len(r.mem)
  BY <1>0
<1>2. m \in Seq(Nat) /\ Len(m) = Len(r.mem) /\ \A k \in 1 .. Len(r.mem) : m[k] = IF k = i + 1 THEN v ELSE r.mem[k]
  BY <1>0, <1>1, ExceptSeq
<1>3. Flat!store(r, i, v) = [mem |-> m, max |-> r.max]
  BY <1>0 DEF Flat!store
<1> HIDE DEF m
<1>4. [mem |-> m, max |-> r.max] \in Recs
  BY <1>0, <1>2, RecMade
<1> QED
  BY <1>2, <1>3, <1>4 DEF FlatStored

LEMMA FlatStoreIn ==
  ASSUME NEW r \in Recs, NEW i \in Int, NEW v \in Nat
  PROVE  /\ Flat!store(r, i, v) \in Recs
         /\ Flat!store(r, i, v) = Flat!Broken \/ FlatStored(Flat!store(r, i, v), r, i, v)
<1>1. CASE i \in 0 .. Len(r.mem) - 1
  BY <1>1, FlatStore DEF FlatStored
<1>2. CASE i \notin 0 .. Len(r.mem) - 1
  <2>1. Flat!store(r, i, v) = Flat!Broken
    BY <1>2, RecIs DEF Flat!store
  <2> QED
    BY <2>1, BrokenIs
<1> QED
  BY <1>1, <1>2

\* memmove within the block.
FlatMoved(g, r, to, from, n) ==
  /\ g \in Recs /\ g.max = r.max /\ Len(g.mem) = Len(r.mem)
  /\ \A k \in 1 .. Len(r.mem) : g.mem[k] = IF to < k /\ k <= to + n THEN r.mem[k - to + from] ELSE r.mem[k]

LEMMA MovedPlace ==
  ASSUME NEW len \in Nat, NEW to \in Nat, NEW from \in Nat, NEW n \in Nat, from + n <= len,
         NEW k \in 1 .. len, to < k, k <= to + n
  PROVE  k - to + from \in 1 .. len
OBVIOUS

LEMMA FlatMove ==
  ASSUME NEW r \in Recs, NEW to \in Nat, NEW from \in Nat, NEW n \in Nat,
         to + n <= Len(r.mem), from + n <= Len(r.mem)
  PROVE  FlatMoved(Flat!memmove(r, to, from, n), r, to, from, n)
<1> DEFINE m == [k \in DOMAIN r.mem |-> IF k \in to + 1 .. to + n THEN r.mem[k - to + from] ELSE r.mem[k]]
<1>0. /\ r.mem \in Seq(Nat) /\ Len(r.mem) \in Nat /\ DOMAIN r.mem = 1 .. Len(r.mem) /\ r.max \in Int /\ r.max >= -1
      /\ \A k \in 1 .. Len(r.mem) : r.mem[k] \in Nat
      /\ r = [mem |-> r.mem, max |-> r.max] /\ Flat!num_elem(r) = Len(r.mem)
  BY RecIs
<1>1. \A k \in 1 .. Len(r.mem) : m[k] = IF to < k /\ k <= to + n THEN r.mem[k - to + from] ELSE r.mem[k]
  <2>1. \A k \in 1 .. Len(r.mem) : k \in to + 1 .. to + n <=> to < k /\ k <= to + n
    BY <1>0
  <2> QED
    BY <1>0, <2>1
<1>2. ASSUME NEW k \in 1 .. Len(r.mem), to < k, k <= to + n PROVE k - to + from \in 1 .. Len(r.mem)
  <2>1. Len(r.mem) \in Nat
    BY <1>0
  <2> HIDE DEF m
  <2> QED
    BY <1>2, <2>1, MovedPlace
<1>3. m = [k \in 1 .. Len(r.mem) |-> m[k]]
  BY <1>0
<1>4. \A k \in 1 .. Len(r.mem) : m[k] \in Nat
  BY <1>0, <1>1, <1>2
<1>5. Flat!memmove(r, to, from, n) = [r EXCEPT !.mem = m]
  BY <1>0 DEF Flat!memmove
<1> HIDE DEF m
<1>6. m \in Seq(Nat) /\ Len(m) = Len(r.mem)
  BY <1>0, <1>3, <1>4, RowMade
<1>7. Flat!memmove(r, to, from, n) = [mem |-> m, max |-> r.max]
  BY <1>0, <1>5
<1>8. [mem |-> m, max |-> r.max] \in Recs
  BY <1>0, <1>6, RecMade
<1> QED
  BY <1>1, <1>6, <1>7, <1>8 DEF FlatMoved

LEMMA FlatMoveIn ==
  ASSUME NEW r \in Recs, NEW to \in Nat, NEW from \in Nat, NEW n \in Int
  PROVE  /\ Flat!memmove(r, to, from, n) \in Recs
         /\ \/ Flat!memmove(r, to, from, n) = Flat!Broken
            \/ FlatMoved(Flat!memmove(r, to, from, n), r, to, from, n)
<1>0. Len(r.mem) \in Nat /\ Flat!num_elem(r) = Len(r.mem)
  BY RecIs
<1>1. CASE n >= 0 /\ to + n <= Len(r.mem) /\ from + n <= Len(r.mem)
  <2>1. n \in Nat
    BY <1>1
  <2>2. FlatMoved(Flat!memmove(r, to, from, n), r, to, from, n)
    BY <1>1, <2>1, FlatMove
  <2> QED
    BY <2>2 DEF FlatMoved
<1>2. CASE ~(n >= 0 /\ to + n <= Len(r.mem) /\ from + n <= Len(r.mem))
  <2>1. Flat!memmove(r, to, from, n) = Flat!Broken
    BY <1>0, <1>2 DEF Flat!memmove
  <2> QED
    BY <2>1, BrokenIs
<1> QED
  BY <1>1, <1>2

\* An array that is in order is not Broken, so that its length changes.
LEMMA FlatGrown ==
  ASSUME NEW r \in Recs, NEW by \in Int, r.max + by >= -1, r.max < Len(r.mem)
  PROVE  LET g == Flat!Grown(r, by) IN g \in Recs /\ g.mem = r.mem /\ g.max = r.max + by
<1>0. r.mem \in Seq(Nat) /\ r.max \in Int /\ r = [mem |-> r.mem, max |-> r.max]
  BY RecIs
<1>1. r # Flat!Broken
  BY BrokenIs
<1>2. Flat!Grown(r, by) = [mem |-> r.mem, max |-> r.max + by]
  BY <1>0, <1>1 DEF Flat!Grown
<1> QED
  BY <1>0, <1>2, RecMade

LEMMA FlatGrownIn ==
  ASSUME NEW r \in Recs, NEW by \in Int, r = Flat!Broken \/ r.max + by >= -1
  PROVE  /\ Flat!Grown(r, by) \in Recs
         /\ r = Flat!Broken => Flat!Grown(r, by) = Flat!Broken
         /\ r # Flat!Broken => Flat!Grown(r, by) = [mem |-> r.mem, max |-> r.max + by]
<1>0. r.mem \in Seq(Nat) /\ r.max \in Int /\ r = [mem |-> r.mem, max |-> r.max]
  BY RecIs
<1>1. CASE r = Flat!Broken
  BY <1>1 DEF Flat!Grown
<1>2. CASE r # Flat!Broken
  <2>1. Flat!Grown(r, by) = [mem |-> r.mem, max |-> r.max + by]
    BY <1>0, <1>2 DEF Flat!Grown
  <2> QED
    BY <1>0, <1>2, <2>1, RecMade
<1> QED
  BY <1>1, <1>2

-----------------------------------------------------------------------------
(* The list of a vector                                                      *)

\* SubSeq(l, i + 1, j), as the members cut it.
LEMMA PartIs ==
  ASSUME NEW l \in Seq(Nat), NEW i \in Nat, NEW j \in Nat, i <= j, j <= Len(l)
  PROVE  /\ SubSeq(l, i + 1, j) \in Seq(Nat) /\ Len(SubSeq(l, i + 1, j)) = j - i
         /\ \A k \in 1 .. j - i : SubSeq(l, i + 1, j)[k] = l[i + k]
<1>0. Len(l) \in Nat /\ \A k \in 1 .. Len(l) : l[k] \in Nat
  BY LenProperties, ElementOfSeq
<1>1. \A k \in i + 1 .. j : l[k] \in Nat
  BY <1>0
<1>2. /\ SubSeq(l, i + 1, j) \in Seq(Nat)
      /\ Len(SubSeq(l, i + 1, j)) = IF i + 1 <= j THEN j - (i + 1) + 1 ELSE 0
      /\ \A k \in 1 .. j - (i + 1) + 1 : SubSeq(l, i + 1, j)[k] = l[(i + 1) + k - 1]
  BY <1>1, SubSeqProperties
<1>3. ASSUME NEW k \in 1 .. j - i PROVE SubSeq(l, i + 1, j)[k] = l[i + k]
  <2>1. k \in 1 .. j - (i + 1) + 1 /\ (i + 1) + k - 1 = i + k
    OBVIOUS
  <2> QED
    BY <1>2, <2>1
<1> QED
  BY <1>2, <1>3

Spliced(g, l, i, new) ==
  /\ g \in Seq(Nat) /\ Len(g) = Len(l) + Len(new)
  /\ \A k \in 1 .. Len(g) : g[k] = IF k <= i THEN l[k] ELSE IF k <= i + Len(new) THEN new[k - i] ELSE l[k - Len(new)]

LEMMA InsertedAtIs ==
  ASSUME NEW l \in Seq(Nat), NEW i \in Nat, i <= Len(l), NEW new \in Seq(Nat)
  PROVE  Spliced(Flat!InsertedAt(l, i, new), l, i, new)
<1> DEFINE a == SubSeq(l, 1, i)
           b == SubSeq(l, i + 1, Len(l))
           c == a \o new
           g == c \o b
<1>0. Len(l) \in Nat /\ Len(new) \in Nat
  BY LenProperties
<1>1. a \in Seq(Nat) /\ Len(a) = i /\ \A k \in 1 .. i : a[k] = l[k]
  <2>1. 0 \in Nat /\ 0 <= i /\ 0 + 1 = 1 /\ i - 0 = i /\ \A k \in 1 .. i : 0 + k = k
    OBVIOUS
  <2>2. /\ SubSeq(l, 0 + 1, i) \in Seq(Nat) /\ Len(SubSeq(l, 0 + 1, i)) = i - 0
        /\ \A k \in 1 .. i - 0 : SubSeq(l, 0 + 1, i)[k] = l[0 + k]
    BY <2>1, PartIs
  <2> QED
    BY <2>1, <2>2
<1>2. b \in Seq(Nat) /\ Len(b) = Len(l) - i /\ \A k \in 1 .. Len(l) - i : b[k] = l[i + k]
  BY <1>0, PartIs
<1> HIDE DEF a, b
<1>3. /\ c \in Seq(Nat) /\ Len(c) = i + Len(new)
      /\ \A k \in 1 .. i : c[k] = a[k]
      /\ \A k \in 1 .. Len(new) : c[i + k] = new[k]
  <2>1. /\ c \in Seq(Nat) /\ Len(c) = Len(a) + Len(new)
        /\ \A k \in 1 .. Len(a) : c[k] = a[k]
        /\ \A k \in 1 .. Len(new) : c[Len(a) + k] = new[k]
    <3>1. a \in Seq(Nat) /\ new \in Seq(Nat)
      BY <1>1
    <3> QED
      BY <3>1, ConcatAt
  <2> HIDE DEF c
  <2> QED
    BY <1>1, <2>1
<1> HIDE DEF c
<1>4. /\ g \in Seq(Nat) /\ Len(g) = i + Len(new) + (Len(l) - i)
      /\ \A k \in 1 .. i + Len(new) : g[k] = c[k]
      /\ \A k \in 1 .. Len(l) - i : g[i + Len(new) + k] = b[k]
  <2>1. /\ g \in Seq(Nat) /\ Len(g) = Len(c) + Len(b)
        /\ \A k \in 1 .. Len(c) : g[k] = c[k]
        /\ \A k \in 1 .. Len(b) : g[Len(c) + k] = b[k]
    <3>1. c \in Seq(Nat) /\ b \in Seq(Nat)
      BY <1>2, <1>3
    <3> QED
      BY <3>1, ConcatAt
  <2> HIDE DEF g
  <2>2. Len(c) = i + Len(new) /\ Len(b) = Len(l) - i
    BY <1>2, <1>3
  <2> QED
    BY <2>1, <2>2
<1>5. Flat!InsertedAt(l, i, new) = g
  BY DEF Flat!InsertedAt, a, b, c
<1> HIDE DEF g
<1>6. Len(g) = Len(l) + Len(new)
  BY <1>0, <1>4
<1>7. ASSUME NEW k \in 1 .. Len(g) PROVE g[k] = IF k <= i THEN l[k] ELSE IF k <= i + Len(new) THEN new[k - i] ELSE l[k - Len(new)]
  <2>1. CASE k <= i
    <3>1. k \in 1 .. i /\ k \in 1 .. i + Len(new)
      BY <1>0, <2>1
    <3> QED
      BY <1>1, <1>3, <1>4, <2>1, <3>1
  <2>2. CASE ~(k <= i) /\ k <= i + Len(new)
    <3>1. k - i \in 1 .. Len(new) /\ i + (k - i) = k /\ k \in 1 .. i + Len(new)
      BY <1>0, <2>2
    <3>2. c[i + (k - i)] = new[k - i]
      BY <1>3, <3>1
    <3> QED
      BY <1>4, <2>2, <3>1, <3>2
  <2>3. CASE ~(k <= i + Len(new))
    <3> DEFINE j == k - i - Len(new)
    <3>1. j \in 1 .. Len(l) - i /\ i + Len(new) + j = k /\ i + j = k - Len(new) /\ ~(k <= i)
      BY <1>0, <1>6, <2>3
    <3>2. g[i + Len(new) + j] = b[j] /\ b[j] = l[i + j]
      <4> HIDE DEF j
      <4> QED
        BY <1>2, <1>4, <3>1
    <3> HIDE DEF j
    <3> QED
      BY <2>3, <3>1, <3>2
  <2> QED
    BY <2>1, <2>2, <2>3
<1> QED
  BY <1>4, <1>5, <1>6, <1>7 DEF Spliced

Cut(g, l, i, j) ==
  /\ g \in Seq(Nat) /\ Len(g) = Len(l) - (j - i)
  /\ \A k \in 1 .. Len(g) : g[k] = IF k <= i THEN l[k] ELSE l[k + (j - i)]

LEMMA WithoutIs ==
  ASSUME NEW l \in Seq(Nat), NEW i \in Nat, NEW j \in Nat, i <= j, j <= Len(l)
  PROVE  Cut(Flat!Without(l, i, j), l, i, j)
<1> DEFINE a == SubSeq(l, 1, i)
           b == SubSeq(l, j + 1, Len(l))
           g == a \o b
<1>0. Len(l) \in Nat
  BY LenProperties
<1>1. a \in Seq(Nat) /\ Len(a) = i /\ \A k \in 1 .. i : a[k] = l[k]
  <2>1. 0 \in Nat /\ 0 <= i /\ i <= Len(l) /\ 0 + 1 = 1 /\ i - 0 = i /\ \A k \in 1 .. i : 0 + k = k
    BY <1>0
  <2>2. /\ SubSeq(l, 0 + 1, i) \in Seq(Nat) /\ Len(SubSeq(l, 0 + 1, i)) = i - 0
        /\ \A k \in 1 .. i - 0 : SubSeq(l, 0 + 1, i)[k] = l[0 + k]
    BY <2>1, PartIs
  <2> QED
    BY <2>1, <2>2
<1>2. b \in Seq(Nat) /\ Len(b) = Len(l) - j /\ \A k \in 1 .. Len(l) - j : b[k] = l[j + k]
  BY <1>0, PartIs
<1> HIDE DEF a, b
<1>3. /\ g \in Seq(Nat) /\ Len(g) = i + (Len(l) - j)
      /\ \A k \in 1 .. i : g[k] = a[k]
      /\ \A k \in 1 .. Len(l) - j : g[i + k] = b[k]
  <2>1. /\ g \in Seq(Nat) /\ Len(g) = Len(a) + Len(b)
        /\ \A k \in 1 .. Len(a) : g[k] = a[k]
        /\ \A k \in 1 .. Len(b) : g[Len(a) + k] = b[k]
    <3>1. a \in Seq(Nat) /\ b \in Seq(Nat)
      BY <1>1, <1>2
    <3> QED
      BY <3>1, ConcatAt
  <2> HIDE DEF g
  <2>2. Len(a) = i /\ Len(b) = Len(l) - j
    BY <1>1, <1>2
  <2> QED
    BY <2>1, <2>2
<1>4. Flat!Without(l, i, j) = g
  BY DEF Flat!Without, a, b
<1> HIDE DEF g
<1>5. Len(g) = Len(l) - (j - i)
  BY <1>0, <1>3
<1>6. ASSUME NEW k \in 1 .. Len(g) PROVE g[k] = IF k <= i THEN l[k] ELSE l[k + (j - i)]
  <2>1. CASE k <= i
    <3>1. k \in 1 .. i
      BY <2>1
    <3> QED
      BY <1>1, <1>3, <2>1, <3>1
  <2>2. CASE ~(k <= i)
    <3>1. k - i \in 1 .. Len(l) - j /\ i + (k - i) = k /\ j + (k - i) = k + (j - i)
      BY <1>0, <1>5, <2>2
    <3>2. g[i + (k - i)] = b[k - i] /\ b[k - i] = l[j + (k - i)]
      BY <1>2, <1>3, <3>1
    <3> QED
      BY <2>2, <3>1, <3>2
  <2> QED
    BY <2>1, <2>2
<1> QED
  BY <1>3, <1>4, <1>5, <1>6 DEF Cut

LEMMA TailCut == ASSUME NEW l \in Seq(Nat), Len(l) >= 1 PROVE Cut(Tail(l), l, 0, 1)
<1>1. l # <<>> /\ Len(l) \in Nat
  BY EmptySeq, LenProperties
<1>2. Tail(l) \in Seq(Nat) /\ Len(Tail(l)) = Len(l) - 1 /\ \A k \in 1 .. Len(Tail(l)) : Tail(l)[k] = l[k + 1]
  BY <1>1, HeadTailProperties
<1>3. \A k \in 1 .. Len(Tail(l)) : ~(k <= 0)
  BY <1>1, <1>2
<1> QED
  BY <1>1, <1>2, <1>3 DEF Cut

-----------------------------------------------------------------------------
(* Block and list                                                            *)

LEMMA HoldsIs ==
  ASSUME NEW r \in Recs, NEW l \in Seq(Nat)
  PROVE  Holds(r, l) <=> r.max < Len(r.mem) /\ SubSeq(r.mem, 1, r.max + 1) = l
<1>0. r.mem \in Seq(Nat) /\ Len(r.mem) \in Nat /\ r.max \in Int /\ r.max >= -1 /\ Len(l) \in Nat
  BY RecIs, LenProperties
<1> DEFINE c == SubSeq(r.mem, 1, r.max + 1)
<1>1. ASSUME r.max < Len(r.mem) PROVE c \in Seq(Nat) /\ Len(c) = r.max + 1 /\ \A k \in 1 .. r.max + 1 : c[k] = r.mem[k]
  <2> DEFINE j == r.max + 1
  <2>1. 0 \in Nat /\ j \in Nat /\ 0 <= j /\ j <= Len(r.mem) /\ 0 + 1 = 1 /\ j - 0 = j /\ \A k \in 1 .. j : 0 + k = k
    BY <1>0, <1>1
  <2> HIDE DEF j
  <2>2. /\ SubSeq(r.mem, 0 + 1, j) \in Seq(Nat) /\ Len(SubSeq(r.mem, 0 + 1, j)) = j - 0
        /\ \A k \in 1 .. j - 0 : SubSeq(r.mem, 0 + 1, j)[k] = r.mem[0 + k]
    BY <1>0, <2>1, PartIs
  <2>3. /\ SubSeq(r.mem, 1, j) \in Seq(Nat) /\ Len(SubSeq(r.mem, 1, j)) = j
        /\ \A k \in 1 .. j : SubSeq(r.mem, 1, j)[k] = r.mem[k]
    BY <2>1, <2>2
  <2> QED
    BY <2>3 DEF j
<1> HIDE DEF c
<1>2. ASSUME Holds(r, l) PROVE r.max < Len(r.mem) /\ c = l
  <2>1. r.max < Len(r.mem) /\ Len(l) = r.max + 1 /\ \A k \in 1 .. Len(l) : r.mem[k] = l[k]
    BY <1>0, <1>2 DEF Holds
  <2>2. Len(c) = Len(l) /\ \A k \in 1 .. Len(c) : c[k] = l[k]
    BY <1>1, <2>1
  <2> QED
    BY <1>1, <2>1, <2>2, SeqEqual
<1>3. ASSUME r.max < Len(r.mem), c = l PROVE Holds(r, l)
  BY <1>0, <1>1, <1>3 DEF Holds
<1> QED
  BY <1>2, <1>3 DEF c

FlatTyped == arr \in [Arrays -> Recs] /\ list \in [Arrays -> Seq(Nat)]
FlatSound == \A x \in Arrays : Holds(arr[x], list[x])

LEMMA FlatSoundIs == FlatTyped => (Flat!AllSound <=> FlatSound)
<1> SUFFICES ASSUME FlatTyped, NEW x \in Arrays PROVE Flat!Sound(x) <=> Holds(arr[x], list[x])
  BY DEF Flat!AllSound, FlatSound
<1>1. arr[x] \in Recs /\ list[x] \in Seq(Nat)
  BY DEF FlatTyped
<1>2. Holds(arr[x], list[x]) <=> arr[x].max < Len(arr[x].mem) /\ SubSeq(arr[x].mem, 1, arr[x].max + 1) = list[x]
  BY <1>1, HoldsIs
<1> QED
  BY <1>2 DEF Flat!Sound, Flat!Content, Flat!num_elem

LEMMA SetTyped ==
  ASSUME FlatTyped, NEW x \in Arrays, NEW r \in Recs, NEW l \in Seq(Nat), Flat!Set(x, r, l)
  PROVE  /\ FlatTyped'
         /\ \A y \in Arrays : arr'[y] = IF y = x THEN r ELSE arr[y]
         /\ \A y \in Arrays : list'[y] = IF y = x THEN l ELSE list[y]
<1>1. arr' = [arr EXCEPT ![x] = r] /\ list' = [list EXCEPT ![x] = l]
  BY DEF Flat!Set
<1> QED
  BY <1>1 DEF FlatTyped

FlatKept == FlatTyped' /\ FlatSound'

LEMMA SetKeeps ==
  ASSUME FlatTyped, FlatSound, NEW x \in Arrays, NEW r, NEW l, Holds(r, l), Flat!Set(x, r, l)
  PROVE  FlatKept
<1>1. r \in Recs /\ l \in Seq(Nat)
  BY DEF Holds
<1>2. /\ FlatTyped'
      /\ \A y \in Arrays : arr'[y] = IF y = x THEN r ELSE arr[y]
      /\ \A y \in Arrays : list'[y] = IF y = x THEN l ELSE list[y]
  BY <1>1, SetTyped
<1>3. ASSUME NEW y \in Arrays PROVE Holds(arr'[y], list'[y])
  <2>1. CASE y = x
    BY <1>2, <2>1
  <2>2. CASE y # x
    <3>1. arr'[y] = arr[y] /\ list'[y] = list[y]
      BY <1>2, <2>2
    <3> QED
      BY <3>1 DEF FlatSound
  <2> QED
    BY <2>1, <2>2
<1> QED
  BY <1>2, <1>3 DEF FlatKept, FlatSound

LEMMA FlatAt ==
  ASSUME FlatTyped, FlatSound, NEW x \in Arrays
  PROVE  /\ Holds(arr[x], list[x]) /\ Flat!max(x) = arr[x].max
         /\ arr[x] \in Recs /\ list[x] \in Seq(Nat)
         /\ arr[x].max \in Int /\ arr[x].max >= -1 /\ arr[x].max < Len(arr[x].mem)
         /\ Len(arr[x].mem) \in Nat /\ Len(list[x]) \in Nat /\ Len(list[x]) = arr[x].max + 1
         /\ \A k \in 1 .. Len(list[x]) : arr[x].mem[k] = list[x][k]
<1>1. Holds(arr[x], list[x]) /\ arr[x] \in Recs /\ list[x] \in Seq(Nat)
  BY DEF FlatTyped, FlatSound
<1>2. arr[x].max \in Int /\ arr[x].max >= -1 /\ Len(arr[x].mem) \in Nat /\ Len(list[x]) \in Nat
  BY <1>1, RecIs, LenProperties
<1>3. Len(list[x]) = arr[x].max + 1 /\ Len(list[x]) <= Len(arr[x].mem) /\ \A k \in 1 .. Len(list[x]) : arr[x].mem[k] = list[x][k]
  BY <1>1 DEF Holds
<1> QED
  BY <1>1, <1>2, <1>3 DEF Flat!max

-----------------------------------------------------------------------------
(* The members of one SArray                                                 *)

\* What is known of an array that is in order.
FlatFine(r, l) ==
  /\ r \in Recs /\ l \in Seq(Nat) /\ Len(r.mem) \in Nat /\ Len(l) \in Nat
  /\ r.max \in Int /\ r.max >= -1 /\ Len(l) = r.max + 1 /\ r.max < Len(r.mem)
  /\ \A k \in 1 .. Len(l) : r.mem[k] = l[k]

LEMMA FineIs == ASSUME NEW r, NEW l PROVE Holds(r, l) <=> FlatFine(r, l)
<1>1. ASSUME Holds(r, l) PROVE FlatFine(r, l)
  <2>1. r \in Recs /\ l \in Seq(Nat)
    BY <1>1 DEF Holds
  <2>2. Len(r.mem) \in Nat /\ Len(l) \in Nat /\ r.max \in Int /\ r.max >= -1
    BY <2>1, RecIs, LenProperties
  <2> QED
    BY <1>1, <2>1, <2>2 DEF Holds, FlatFine
<1>2. ASSUME FlatFine(r, l) PROVE Holds(r, l)
  BY <1>2 DEF Holds, FlatFine
<1> QED
  BY <1>1, <1>2

LEMMA clearFlat ==
  ASSUME FlatTyped, FlatSound, NEW x \in Arrays, Flat!clear(x) PROVE FlatKept
<1> DEFINE r == arr[x]
           g == [mem |-> r.mem, max |-> -1]
<1>1. r \in Recs
  BY FlatAt
<1>2. r.mem \in Seq(Nat) /\ Len(r.mem) \in Nat /\ r = [mem |-> r.mem, max |-> r.max]
  BY <1>1, RecIs
<1>3. Flat!Set(x, g, <<>>)
  BY <1>2 DEF Flat!clear
<1>4. g \in Recs /\ g.mem = r.mem /\ g.max = -1
  BY <1>2, RecMade
<1>5. <<>> \in Seq(Nat) /\ Len(<<>>) = 0
  BY EmptySeq
<1> HIDE DEF g
<1>6. Holds(g, <<>>)
  BY <1>2, <1>4, <1>5 DEF Holds
<1> QED
  BY <1>3, <1>6, SetKeeps

\* Element k of what is left, and where it was.
ClosingOf(k, top, room, i, j, n) ==
  /\ k \in 1 .. room /\ k \in 1 .. top + 1
  /\ i < k => k <= i + n /\ k - i + j = k + (j - i) /\ k + (j - i) \in 1 .. top + 1

Closing(top, room, i, j, n, len) ==
  /\ len \in Nat /\ len = top + (i - j) + 1 /\ len <= room /\ top + (i - j) >= -1
  /\ \A k \in 1 .. len : ClosingOf(k, top, room, i, j, n)

LEMMA ClosingNumbers ==
  ASSUME NEW top \in Int, NEW room \in Nat, NEW i \in Nat, NEW j \in Nat, NEW n \in Nat,
         top < room, i <= j, j <= top + 1, top + 1 - j <= n
  PROVE  Closing(top, room, i, j, n, top + 1 - (j - i))
BY DEF Closing, ClosingOf

\* A move down by j - i, and as much less in use.
LEMMA MovedDown ==
  ASSUME NEW r, NEW l, FlatFine(r, l), NEW i \in Nat, NEW j \in Nat, i <= j, j <= r.max + 1,
         NEW n \in Nat, r.max + 1 - j <= n, NEW g, FlatMoved(g, r, i, j, n),
         NEW m, Cut(m, l, i, j)
  PROVE  Holds(Flat!Grown(g, i - j), m)
<1>1. /\ g \in Recs /\ g.max = r.max /\ Len(g.mem) = Len(r.mem)
      /\ \A k \in 1 .. Len(r.mem) : g.mem[k] = IF i < k /\ k <= i + n THEN r.mem[k - i + j] ELSE r.mem[k]
  BY DEF FlatMoved
<1>2. /\ Len(r.mem) \in Nat /\ Len(l) \in Nat /\ r.max \in Int /\ r.max >= -1 /\ Len(l) = r.max + 1 /\ r.max < Len(r.mem)
      /\ \A k \in 1 .. Len(l) : r.mem[k] = l[k]
  BY DEF FlatFine
<1>3. m \in Seq(Nat) /\ Len(m) = Len(l) - (j - i) /\ \A k \in 1 .. Len(m) : m[k] = IF k <= i THEN l[k] ELSE l[k + (j - i)]
  BY DEF Cut
<1> DEFINE h == Flat!Grown(g, i - j)
<1>4. h \in Recs /\ h.mem = g.mem /\ h.max = g.max + (i - j)
  <2>1. i - j \in Int /\ g.max + (i - j) >= -1 /\ g.max < Len(g.mem)
    BY <1>1, <1>2
  <2> QED
    BY <1>1, <2>1, FlatGrown
<1> HIDE DEF h
<1>0. Closing(r.max, Len(r.mem), i, j, n, Len(m)) /\ Len(h.mem) = Len(r.mem) /\ h.max = r.max + (i - j) /\ Len(l) = r.max + 1
  <2>1. Len(h.mem) = Len(r.mem) /\ h.max = r.max + (i - j) /\ Len(l) = r.max + 1
    BY <1>1, <1>2, <1>4
  <2>2. Len(m) = r.max + 1 - (j - i)
    BY <1>2, <1>3
  <2>3. Closing(r.max, Len(r.mem), i, j, n, r.max + 1 - (j - i))
    BY <1>2, ClosingNumbers
  <2> QED
    BY <2>1, <2>2, <2>3
<1>5. Len(m) = h.max + 1 /\ Len(m) <= Len(h.mem)
  BY <1>0 DEF Closing
<1>6. ASSUME NEW k \in 1 .. Len(m) PROVE h.mem[k] = m[k]
  <2>0. /\ k \in 1 .. Len(r.mem) /\ k \in 1 .. r.max + 1
        /\ i < k => k <= i + n /\ k - i + j = k + (j - i) /\ k + (j - i) \in 1 .. r.max + 1
    <3>1. ClosingOf(k, r.max, Len(r.mem), i, j, n)
      BY <1>0, <1>6 DEF Closing
    <3> QED
      BY <3>1 DEF ClosingOf
  <2>1. k \in 1 .. Len(r.mem) /\ k \in 1 .. Len(l) /\ k \in Int
    BY <1>0, <2>0
  <2>2. CASE k <= i
    <3>1. ~(i < k)
      BY <2>1, <2>2
    <3>2. g.mem[k] = r.mem[k] /\ r.mem[k] = l[k] /\ m[k] = l[k]
      BY <1>1, <1>2, <1>3, <2>1, <2>2, <3>1
    <3> QED
      BY <1>4, <3>2
  <2>3. CASE ~(k <= i)
    <3>0. i < k
      BY <2>1, <2>3
    <3>1. k <= i + n /\ k - i + j = k + (j - i) /\ k + (j - i) \in 1 .. Len(l)
      BY <1>0, <2>0, <3>0
    <3>2. g.mem[k] = r.mem[k - i + j]
      BY <1>1, <2>1, <3>0, <3>1
    <3>3. m[k] = l[k + (j - i)] /\ r.mem[k + (j - i)] = l[k + (j - i)]
      BY <1>2, <1>3, <1>6, <2>3, <3>1
    <3> QED
      BY <1>4, <3>1, <3>2, <3>3
  <2> QED
    BY <2>2, <2>3
<1>7. \A k \in 1 .. Len(m) : h.mem[k] = m[k]
  BY <1>6
<1>8. h \in Recs /\ m \in Seq(Nat)
  BY <1>3, <1>4
<1>9. Holds(h, m)
  BY <1>5, <1>7, <1>8 DEF Holds
<1> QED
  BY <1>9 DEF h

LEMMA pop_frontFlat ==
  ASSUME FlatTyped, FlatSound, NEW x \in Arrays, Flat!pop_front(x) PROVE FlatKept
<1> DEFINE r == arr[x]
           l == list[x]
           g == Flat!memmove(r, 0, 1, r.max)
<1>1. FlatFine(r, l) /\ Flat!max(x) = r.max
  BY FlatAt, FineIs
<1>2. r.max >= 0 /\ Flat!Set(x, Flat!Grown(g, -1), Tail(l))
  BY <1>1 DEF Flat!pop_front
<1> HIDE DEF r, l
<1>3. r \in Recs /\ l \in Seq(Nat) /\ r.max \in Int /\ r.max < Len(r.mem) /\ Len(r.mem) \in Nat /\ Len(l) = r.max + 1
  BY <1>1 DEF FlatFine
<1>4. r.max \in Nat /\ 0 + r.max <= Len(r.mem) /\ 1 + r.max <= Len(r.mem) /\ Len(l) >= 1
  BY <1>2, <1>3
<1>5. FlatMoved(g, r, 0, 1, r.max)
  BY <1>3, <1>4, FlatMove
<1>6. Cut(Tail(l), l, 0, 1)
  BY <1>3, <1>4, TailCut
<1> HIDE DEF g
<1>7. 0 - 1 = -1 /\ r.max + 1 - 1 <= r.max /\ 1 <= r.max + 1
  BY <1>4
<1>8. Holds(Flat!Grown(g, 0 - 1), Tail(l))
  BY <1>1, <1>4, <1>5, <1>6, <1>7, MovedDown
<1> QED
  BY <1>2, <1>7, <1>8, SetKeeps

LEMMA pop_backFlat ==
  ASSUME FlatTyped, FlatSound, NEW x \in Arrays, Flat!pop_back(x) PROVE FlatKept
<1> DEFINE r == arr[x]
           l == list[x]
           m == Flat!Without(l, r.max, r.max + 1)
           h == Flat!Grown(r, -1)
<1>1. FlatFine(r, l) /\ Flat!max(x) = r.max
  BY FlatAt, FineIs
<1>2. r.max >= 0 /\ Flat!Set(x, h, m)
  BY <1>1 DEF Flat!pop_back
<1> HIDE DEF r, l
<1>3. /\ r \in Recs /\ l \in Seq(Nat) /\ r.max \in Int /\ r.max < Len(r.mem) /\ Len(r.mem) \in Nat /\ Len(l) = r.max + 1
      /\ \A k \in 1 .. Len(l) : r.mem[k] = l[k]
  BY <1>1 DEF FlatFine
<1>4. r.max \in Nat /\ r.max + 1 \in Nat /\ r.max <= r.max + 1 /\ r.max + 1 <= Len(l)
  BY <1>2, <1>3
<1>5. Cut(m, l, r.max, r.max + 1)
  BY <1>3, <1>4, WithoutIs
<1>6. h \in Recs /\ h.mem = r.mem /\ h.max = r.max + (-1)
  <2>1. -1 \in Int /\ r.max + (-1) >= -1
    BY <1>4
  <2> QED
    BY <1>3, <2>1, FlatGrown
<1> HIDE DEF h, m
<1>7. m \in Seq(Nat) /\ Len(m) = Len(l) - 1 /\ \A k \in 1 .. Len(m) : m[k] = IF k <= r.max THEN l[k] ELSE l[k + 1]
  <2>1. (r.max + 1) - r.max = 1
    BY <1>4
  <2> QED
    BY <1>5, <2>1 DEF Cut
<1>8. \A k \in 1 .. Len(m) : k \in 1 .. Len(l) /\ k <= r.max
  BY <1>3, <1>4, <1>7
<1>9. Holds(h, m)
  BY <1>3, <1>4, <1>6, <1>7, <1>8 DEF Holds
<1> QED
  BY <1>2, <1>9, SetKeeps

LEMMA ErasingNumbers ==
  ASSUME NEW top \in Int, NEW room \in Nat, top < room, NEW i \in Nat, i <= top
  PROVE  /\ top - i \in Nat /\ i + 1 \in Nat /\ i <= i + 1 /\ i + 1 <= top + 1
         /\ i + (top - i) <= room /\ (i + 1) + (top - i) <= room
         /\ top + 1 - (i + 1) <= top - i /\ i - (i + 1) = -1
OBVIOUS

LEMMA eraseFlat ==
  ASSUME FlatTyped, FlatSound, NEW x \in Arrays, NEW i \in Nat, Flat!erase(x, i) PROVE FlatKept
<1> DEFINE r == arr[x]
           l == list[x]
           g == Flat!memmove(r, i, i + 1, r.max - i)
           m == Flat!Without(l, i, i + 1)
<1>1. FlatFine(r, l) /\ Flat!max(x) = r.max
  BY FlatAt, FineIs
<1>2. i \in 0 .. r.max /\ Flat!Set(x, Flat!Grown(g, -1), m)
  BY <1>1 DEF Flat!erase
<1> HIDE DEF r, l
<1>3. r \in Recs /\ l \in Seq(Nat) /\ r.max \in Int /\ r.max < Len(r.mem) /\ Len(r.mem) \in Nat /\ Len(l) = r.max + 1
  BY <1>1 DEF FlatFine
<1>4. /\ r.max - i \in Nat /\ i + 1 \in Nat /\ i <= i + 1 /\ i + 1 <= r.max + 1 /\ i + 1 <= Len(l)
      /\ i + (r.max - i) <= Len(r.mem) /\ (i + 1) + (r.max - i) <= Len(r.mem)
      /\ r.max + 1 - (i + 1) <= r.max - i /\ i - (i + 1) = -1
  <2>1. i \in Nat /\ i <= r.max
    BY <1>2, <1>3
  <2>2. /\ r.max - i \in Nat /\ i + 1 \in Nat /\ i <= i + 1 /\ i + 1 <= r.max + 1
        /\ i + (r.max - i) <= Len(r.mem) /\ (i + 1) + (r.max - i) <= Len(r.mem)
        /\ r.max + 1 - (i + 1) <= r.max - i /\ i - (i + 1) = -1
    BY <1>3, <2>1, ErasingNumbers
  <2> QED
    BY <1>3, <2>2
<1>5. FlatMoved(g, r, i, i + 1, r.max - i)
  BY <1>3, <1>4, FlatMove
<1>6. Cut(m, l, i, i + 1)
  BY <1>3, <1>4, WithoutIs
<1> HIDE DEF g, m
<1>7. Holds(Flat!Grown(g, i - (i + 1)), m)
  BY <1>1, <1>4, <1>5, <1>6, MovedDown
<1> QED
  BY <1>2, <1>4, <1>7, SetKeeps

\* One value more at i.
SplicedOne(m, l, i, v) ==
  /\ m \in Seq(Nat) /\ Len(m) = Len(l) + 1
  /\ \A k \in 1 .. Len(m) : m[k] = IF k <= i THEN l[k] ELSE IF k = i + 1 THEN v ELSE l[k - 1]

LEMMA OneIs == ASSUME NEW v \in Nat PROVE <<v>> \in Seq(Nat) /\ Len(<<v>>) = 1 /\ <<v>>[1] = v
OBVIOUS

LEMMA InsertedOne ==
  ASSUME NEW l \in Seq(Nat), NEW i \in Nat, i <= Len(l), NEW v \in Nat
  PROVE  SplicedOne(Flat!InsertedAt(l, i, <<v>>), l, i, v)
<1> DEFINE o == <<v>>
           g == Flat!InsertedAt(l, i, o)
<1>1. o \in Seq(Nat) /\ Len(o) = 1 /\ o[1] = v
  BY OneIs
<1> HIDE DEF o
<1>2. Spliced(g, l, i, o)
  BY <1>1, InsertedAtIs
<1> HIDE DEF g
<1>3. /\ g \in Seq(Nat) /\ Len(g) = Len(l) + 1
      /\ \A k \in 1 .. Len(g) : g[k] = IF k <= i THEN l[k] ELSE IF k <= i + 1 THEN o[k - i] ELSE l[k - 1]
  BY <1>1, <1>2 DEF Spliced
<1>4. Len(l) \in Nat
  BY LenProperties
<1>5. ASSUME NEW k \in 1 .. Len(g) PROVE g[k] = IF k <= i THEN l[k] ELSE IF k = i + 1 THEN v ELSE l[k - 1]
  <2>1. CASE k = i + 1
    <3>1. ~(k <= i) /\ k <= i + 1 /\ k - i = 1
      BY <2>1
    <3> QED
      BY <1>1, <1>3, <1>5, <2>1, <3>1
  <2>2. CASE k # i + 1
    <3>1. k <= i + 1 <=> k <= i
      BY <1>3, <1>4, <1>5, <2>2
    <3> QED
      BY <1>3, <1>5, <2>2, <3>1
  <2> QED
    BY <2>1, <2>2
<1> QED
  BY <1>3, <1>5 DEF SplicedOne, g, o

LEMMA InFront == ASSUME NEW l \in Seq(Nat), NEW v \in Nat PROVE SplicedOne(<<v>> \o l, l, 0, v)
<1> DEFINE o == <<v>>
           g == o \o l
<1>1. o \in Seq(Nat) /\ Len(o) = 1 /\ o[1] = v /\ Len(l) \in Nat
  BY OneIs, LenProperties
<1> HIDE DEF o
<1>2. /\ g \in Seq(Nat) /\ Len(g) = Len(o) + Len(l)
      /\ (\A k \in 1 .. Len(o) : g[k] = o[k]) /\ (\A k \in 1 .. Len(l) : g[Len(o) + k] = l[k])
  <2>1. o \in Seq(Nat)
    BY <1>1
  <2> QED
    BY <2>1, ConcatAt
<1> HIDE DEF g
<1>3. g \in Seq(Nat) /\ Len(g) = Len(l) + 1 /\ g[1] = v /\ \A k \in 1 .. Len(l) : g[1 + k] = l[k]
  BY <1>1, <1>2
<1>4. ASSUME NEW k \in 1 .. Len(g) PROVE g[k] = IF k <= 0 THEN l[k] ELSE IF k = 0 + 1 THEN v ELSE l[k - 1]
  <2>1. CASE k = 1
    BY <1>3, <2>1
  <2>2. CASE k # 1
    <3>1. ~(k <= 0) /\ k # 0 + 1 /\ k - 1 \in 1 .. Len(l) /\ 1 + (k - 1) = k
      BY <1>1, <1>3, <1>4, <2>2
    <3>2. g[1 + (k - 1)] = l[k - 1]
      BY <1>3, <3>1
    <3> QED
      BY <3>1, <3>2
  <2> QED
    BY <2>1, <2>2
<1> QED
  BY <1>3, <1>4 DEF SplicedOne, g, o

LEMMA AtEnd == ASSUME NEW l \in Seq(Nat), NEW v \in Nat PROVE SplicedOne(Append(l, v), l, Len(l), v)
<1> DEFINE g == Append(l, v)
<1>1. Len(l) \in Nat
  BY LenProperties
<1>2. g \in Seq(Nat) /\ Len(g) = Len(l) + 1 /\ (\A k \in 1 .. Len(l) : g[k] = l[k]) /\ g[Len(l) + 1] = v
  BY AppendProperties
<1> HIDE DEF g
<1>3. ASSUME NEW k \in 1 .. Len(g) PROVE g[k] = IF k <= Len(l) THEN l[k] ELSE IF k = Len(l) + 1 THEN v ELSE l[k - 1]
  <2>1. k \in 1 .. Len(l) \/ k = Len(l) + 1
    BY <1>1, <1>2, <1>3
  <2>2. k = Len(l) + 1 => ~(k <= Len(l))
    BY <1>1
  <2> QED
    BY <1>2, <2>1, <2>2
<1> QED
  BY <1>2, <1>3 DEF SplicedOne, g

\* A move up by one and a store into the gap.
Opened(m, h, g, r, l, i, v) ==
  /\ FlatFine(r, l) /\ FlatRoom(g, r, r.max + 1) /\ FlatMoved(h, g, i + 1, i, r.max + 1 - i)
  /\ i \in Nat /\ i <= r.max + 1 /\ v \in Nat /\ SplicedOne(m, l, i, v)

LEMMA OpeningNumbers ==
  ASSUME NEW i \in Nat, NEW top \in Int, NEW k \in Int, k <= top + 2
  PROVE  k <= (i + 1) + (top + 1 - i) /\ k - (i + 1) + i = k - 1
OBVIOUS

LEMMA OpenedUp ==
  ASSUME NEW m, NEW h, NEW g, NEW r, NEW l, NEW i, NEW v, Opened(m, h, g, r, l, i, v)
  PROVE  Holds(Flat!store(Flat!Grown(h, 1), i, v), m)
<1>0. /\ FlatFine(r, l) /\ FlatRoom(g, r, r.max + 1) /\ FlatMoved(h, g, i + 1, i, r.max + 1 - i)
      /\ i \in Nat /\ i <= r.max + 1 /\ v \in Nat /\ SplicedOne(m, l, i, v)
  BY DEF Opened
<1>1. /\ r.max \in Int /\ r.max >= -1 /\ Len(r.mem) \in Nat /\ r.max < Len(r.mem)
      /\ Len(l) = r.max + 1 /\ \A k \in 1 .. Len(l) : r.mem[k] = l[k]
  BY <1>0 DEF FlatFine
<1>2. /\ g \in Recs /\ g.max = r.max /\ Len(g.mem) > r.max + 1
      /\ \A k \in 1 .. Len(g.mem) : k <= Len(r.mem) => g.mem[k] = r.mem[k]
  BY <1>0 DEF FlatRoom
<1>3. /\ h \in Recs /\ h.max = r.max /\ Len(h.mem) = Len(g.mem) /\ Len(g.mem) \in Nat
      /\ \A k \in 1 .. Len(g.mem) : h.mem[k] = IF i + 1 < k /\ k <= (i + 1) + (r.max + 1 - i) THEN g.mem[k - (i + 1) + i] ELSE g.mem[k]
  BY <1>0, <1>2, RecIs DEF FlatMoved
<1> DEFINE e == Flat!Grown(h, 1)
           f == Flat!store(e, i, v)
<1>4. e \in Recs /\ e.mem = h.mem /\ e.max = r.max + 1
  <2>1. 1 \in Int /\ h.max + 1 >= -1 /\ h.max < Len(h.mem)
    BY <1>1, <1>2, <1>3
  <2> QED
    BY <1>3, <2>1, FlatGrown
<1> HIDE DEF e
<1>5. FlatStored(f, e, i, v)
  <2>1. i \in 0 .. Len(e.mem) - 1
    BY <1>0, <1>1, <1>2, <1>3, <1>4
  <2> QED
    BY <1>0, <1>4, <2>1, FlatStore
<1> HIDE DEF f
<1>6. /\ f \in Recs /\ f.max = r.max + 1 /\ Len(f.mem) = Len(g.mem)
      /\ \A k \in 1 .. Len(g.mem) : f.mem[k] = IF k = i + 1 THEN v ELSE h.mem[k]
  BY <1>3, <1>4, <1>5 DEF FlatStored
<1>7. /\ m \in Seq(Nat) /\ Len(m) = r.max + 2
      /\ \A k \in 1 .. Len(m) : m[k] = IF k <= i THEN l[k] ELSE IF k = i + 1 THEN v ELSE l[k - 1]
  BY <1>0, <1>1 DEF SplicedOne
<1>8. Len(m) = f.max + 1 /\ Len(m) <= Len(f.mem)
  BY <1>1, <1>2, <1>3, <1>6, <1>7
<1>9. ASSUME NEW k \in 1 .. Len(m) PROVE f.mem[k] = m[k]
  <2>1. k \in 1 .. Len(g.mem) /\ k \in 1 .. r.max + 2 /\ k \in Int
    <3>1. k \in 1 .. r.max + 2
      BY <1>7, <1>9
    <3> QED
      BY <1>1, <1>2, <1>3, <3>1
  <2>2. CASE k = i + 1
    <3>1. ~(k <= i)
      BY <1>0, <2>2
    <3> QED
      BY <1>6, <1>7, <1>9, <2>1, <2>2, <3>1
  <2>3. CASE k <= i
    <3>1. k # i + 1 /\ ~(i + 1 < k) /\ k \in 1 .. Len(l) /\ k <= Len(r.mem)
      <4>1. i \in Int /\ k \in Int /\ 1 <= k
        BY <1>0, <2>1
      <4>2. k # i + 1 /\ ~(i + 1 < k)
        BY <2>3, <4>1
      <4>3. k <= Len(l) /\ k <= Len(r.mem) /\ Len(l) \in Int
        BY <1>0, <1>1, <2>3, <4>1
      <4> QED
        BY <4>1, <4>2, <4>3
    <3>2. f.mem[k] = h.mem[k] /\ h.mem[k] = g.mem[k] /\ g.mem[k] = r.mem[k] /\ r.mem[k] = l[k]
      BY <1>1, <1>2, <1>3, <1>6, <2>1, <3>1
    <3> QED
      BY <1>7, <1>9, <2>3, <3>2
  <2>4. CASE ~(k <= i) /\ k # i + 1
    <3>1. /\ i + 1 < k /\ k <= (i + 1) + (r.max + 1 - i) /\ k - (i + 1) + i = k - 1
          /\ k - 1 \in 1 .. Len(l) /\ k - 1 \in 1 .. Len(g.mem) /\ k - 1 <= Len(r.mem)
      <4>1. i + 1 < k /\ 2 <= k /\ k <= r.max + 2 /\ k <= Len(g.mem)
        <5>1. i + 1 < k /\ 2 <= k
          <6>1. i \in Nat /\ k \in Int
            BY <1>0, <2>1
          <6> QED
            BY <2>4, <6>1
        <5>2. k <= r.max + 2
          BY <1>1, <2>1
        <5>3. k <= Len(g.mem)
          BY <1>3, <2>1
        <5> QED
          BY <5>1, <5>2, <5>3
      <4>2. k <= (i + 1) + (r.max + 1 - i) /\ k - (i + 1) + i = k - 1
        BY <1>0, <1>1, <2>1, <4>1, OpeningNumbers
      <4>3. k - 1 \in 1 .. Len(l) /\ k - 1 <= Len(r.mem)
        BY <1>1, <2>1, <4>1
      <4>4. k - 1 \in 1 .. Len(g.mem)
        BY <1>3, <2>1, <4>1
      <4> QED
        BY <4>1, <4>2, <4>3, <4>4
    <3>2. f.mem[k] = h.mem[k] /\ h.mem[k] = g.mem[k - 1]
      BY <1>3, <1>6, <2>1, <2>4, <3>1
    <3>3. g.mem[k - 1] = r.mem[k - 1] /\ r.mem[k - 1] = l[k - 1]
      BY <1>1, <1>2, <3>1
    <3> QED
      BY <1>7, <1>9, <2>4, <3>2, <3>3
  <2> QED
    BY <2>2, <2>3, <2>4
<1>10. \A k \in 1 .. Len(m) : f.mem[k] = m[k]
  BY <1>9
<1>11. Holds(f, m)
  BY <1>6, <1>7, <1>8, <1>10 DEF Holds
<1> QED
  BY <1>11 DEF f, e

LEMMA NothingMoved ==
  ASSUME NEW g \in Recs, NEW i \in Nat, NEW n \in Int, n <= 0
  PROVE  FlatMoved(g, g, i + 1, i, n)
<1>1. Len(g.mem) \in Nat
  BY RecIs
<1>2. \A k \in 1 .. Len(g.mem) : ~(i + 1 < k /\ k <= (i + 1) + n)
  BY <1>1
<1> QED
  BY <1>2 DEF FlatMoved

LEMMA PushBackHolds ==
  ASSUME NEW r, NEW l, Holds(r, l), NEW v \in Nat
  PROVE  Holds(Flat!PushBack(r, v), Append(l, v))
<1> DEFINE g == Flat!setsize(r, r.max + 1)
           i == r.max + 1
           m == Append(l, v)
<1>1. FlatFine(r, l)
  BY FineIs
<1>2. r \in Recs /\ r.max \in Int /\ r.max >= -1 /\ Len(l) = r.max + 1 /\ l \in Seq(Nat)
  BY <1>1 DEF FlatFine
<1>3. FlatRoom(g, r, r.max + 1)
  BY <1>2, FlatSetsize
<1>4. g \in Recs /\ g.max = r.max
  BY <1>3 DEF FlatRoom
<1>5. Flat!PushBack(r, v) = Flat!store(Flat!Grown(g, 1), i, v)
  BY <1>4 DEF Flat!PushBack
<1>6. SplicedOne(m, l, i, v)
  BY <1>2, AtEnd
<1>7. i \in Nat /\ i <= r.max + 1 /\ r.max + 1 - i = 0 /\ i = r.max + 1
  BY <1>2
<1> HIDE DEF g, i, m
<1>8. FlatMoved(g, g, i + 1, i, r.max + 1 - i)
  BY <1>4, <1>7, NothingMoved
<1>9. Opened(m, g, g, r, l, i, v)
  BY <1>1, <1>3, <1>6, <1>7, <1>8 DEF Opened
<1>10. Holds(Flat!store(Flat!Grown(g, 1), i, v), m)
  BY <1>9, OpenedUp
<1> QED
  BY <1>5, <1>10 DEF m

LEMMA push_backFlat ==
  ASSUME FlatTyped, FlatSound, NEW x \in Arrays, NEW v \in Nat, Flat!push_back(x, v) PROVE FlatKept
<1>1. Holds(Flat!PushBack(arr[x], v), Append(list[x], v))
  BY FlatAt, PushBackHolds
<1> QED
  BY <1>1, SetKeeps DEF Flat!push_back

\* A gap is made and filled.
LEMMA GapFilled ==
  ASSUME NEW r, NEW l, FlatFine(r, l), NEW g, FlatRoom(g, r, r.max + 1),
         NEW i \in Nat, i <= r.max, NEW v \in Nat, NEW m, SplicedOne(m, l, i, v)
  PROVE  Holds(Flat!store(Flat!Gap(g, i, 1), i, v), m)
<1> DEFINE n == r.max + 1 - i
           h == Flat!memmove(g, i + 1, i, n)
<1>1. r.max \in Int
  BY DEF FlatFine
<1>2. g \in Recs /\ g.max = r.max /\ Len(g.mem) > r.max + 1
  BY DEF FlatRoom
<1>3. Len(g.mem) \in Nat
  BY <1>2, RecIs
<1>4. n \in Nat /\ i + 1 \in Nat /\ (i + 1) + n <= Len(g.mem) /\ i + n <= Len(g.mem) /\ g.max - i + 1 = n
  BY <1>1, <1>2, <1>3
<1>5. Flat!Gap(g, i, 1) = Flat!Grown(Flat!memmove(g, i + 1, i, g.max - i + 1), 1)
  <2>1. ~(i > g.max)
    BY <1>1, <1>2
  <2> QED
    BY <2>1 DEF Flat!Gap
<1> HIDE DEF n
<1>6. FlatMoved(h, g, i + 1, i, n)
  BY <1>2, <1>4, FlatMove
<1>7. Flat!Gap(g, i, 1) = Flat!Grown(h, 1)
  BY <1>4, <1>5
<1> HIDE DEF h
<1>8. Opened(m, h, g, r, l, i, v)
  <2>1. i <= r.max + 1
    BY <1>1
  <2> QED
    BY <1>6, <2>1 DEF Opened, n
<1> QED
  BY <1>7, <1>8, OpenedUp

LEMMA InsertedValueHolds ==
  ASSUME NEW r, NEW l, Holds(r, l), NEW i \in Nat, i <= r.max, NEW v \in Nat
  PROVE  Holds(Flat!InsertedValue(r, i, v), Flat!InsertedAt(l, i, <<v>>))
<1> DEFINE g == Flat!setsize(r, r.max + 1)
           m == Flat!InsertedAt(l, i, <<v>>)
<1>1. FlatFine(r, l)
  BY FineIs
<1>2. r \in Recs /\ r.max \in Int /\ r.max >= -1 /\ Len(l) = r.max + 1 /\ l \in Seq(Nat)
  BY <1>1 DEF FlatFine
<1>3. FlatRoom(g, r, r.max + 1)
  BY <1>2, FlatSetsize
<1>4. SplicedOne(m, l, i, v)
  <2>1. i <= Len(l)
    BY <1>2
  <2> QED
    BY <1>2, <2>1, InsertedOne
<1>5. Flat!InsertedValue(r, i, v) = Flat!store(Flat!Gap(g, i, 1), i, v)
  BY DEF Flat!InsertedValue
<1> HIDE DEF g, m
<1>6. Holds(Flat!store(Flat!Gap(g, i, 1), i, v), m)
  BY <1>1, <1>3, <1>4, GapFilled
<1> QED
  BY <1>5, <1>6 DEF m

LEMMA RoomHolds ==
  ASSUME NEW r, NEW l, Holds(r, l), NEW g, NEW i, FlatRoom(g, r, i) PROVE Holds(g, l)
<1>1. FlatFine(r, l)
  BY FineIs
<1>2. /\ l \in Seq(Nat) /\ Len(r.mem) \in Nat /\ Len(l) \in Nat /\ Len(l) = r.max + 1 /\ r.max \in Int /\ r.max < Len(r.mem)
      /\ \A k \in 1 .. Len(l) : r.mem[k] = l[k]
  BY <1>1 DEF FlatFine
<1>3. /\ g \in Recs /\ g.max = r.max /\ Len(g.mem) >= Len(r.mem)
      /\ \A k \in 1 .. Len(g.mem) : k <= Len(r.mem) => g.mem[k] = r.mem[k]
  BY DEF FlatRoom
<1>4. Len(g.mem) \in Nat
  BY <1>3, RecIs
<1>5. \A k \in 1 .. Len(l) : k \in 1 .. Len(g.mem) /\ k <= Len(r.mem)
  BY <1>2, <1>3, <1>4
<1>6. Len(l) = g.max + 1 /\ Len(l) <= Len(g.mem)
  BY <1>2, <1>3, <1>4
<1> QED
  BY <1>2, <1>3, <1>5, <1>6 DEF Holds

\* Of the value 0 the index it is taken for is right.
LEMMA push_frontFlat ==
  ASSUME FlatTyped, FlatSound, NEW x \in Arrays, Flat!push_front(x, 0) PROVE FlatKept
<1> DEFINE r == arr[x]
           l == list[x]
           g == Flat!setsize(r, r.max + 1)
           n == r.max + 1
           h == Flat!memmove(g, 1, 0, n)
           m == <<0>> \o l
           e == Flat!store(Flat!Grown(h, 1), 0, 0)
<1>1. FlatFine(r, l) /\ Flat!max(x) = r.max
  BY FlatAt, FineIs
<1>2. r \in Recs /\ r.max \in Int /\ r.max >= -1 /\ l \in Seq(Nat)
  BY <1>1 DEF FlatFine
<1>3. r.max - 0 + 1 = n /\ 0 + 1 = 1 /\ r.max + 1 - 0 = n /\ n \in Nat /\ 0 \in Nat /\ 1 \in Nat /\ 0 <= r.max + 1 /\ 0 + n = n
  BY <1>2
<1>4. Flat!Set(x, IF Flat!memmove(g, 0 + 1, 0, r.max - 0 + 1) = Flat!Broken THEN Flat!Broken
                  ELSE Flat!store(Flat!Grown(Flat!memmove(g, 0 + 1, 0, r.max - 0 + 1), 1), 0, 0), m)
  BY <1>1 DEF Flat!push_front
<1>5. Flat!Set(x, IF h = Flat!Broken THEN Flat!Broken ELSE e, m)
  BY <1>3, <1>4
<1> HIDE DEF r, l
<1>6. FlatRoom(g, r, r.max + 1)
  BY <1>2, FlatSetsize
<1>7. g \in Recs /\ Len(g.mem) > r.max + 1 /\ g.max = r.max
  BY <1>6 DEF FlatRoom
<1>8. Len(g.mem) \in Nat
  BY <1>7, RecIs
<1> HIDE DEF g
<1>9. 1 + n <= Len(g.mem) /\ 0 + n <= Len(g.mem)
  BY <1>2, <1>7, <1>8
<1> HIDE DEF n
<1>10. FlatMoved(h, g, 1, 0, n)
  BY <1>3, <1>7, <1>9, FlatMove
<1>11. h # Flat!Broken
  <2>1. h.max = r.max /\ Len(h.mem) = Len(g.mem)
    BY <1>7, <1>10 DEF FlatMoved
  <2>2. h.max < Len(h.mem)
    BY <1>2, <1>7, <1>8, <2>1
  <2> HIDE DEF h
  <2> QED
    BY <2>2, BrokenIs
<1>12. SplicedOne(m, l, 0, 0)
  BY <1>2, <1>3, InFront
<1>13. FlatMoved(h, g, 0 + 1, 0, r.max + 1 - 0)
  BY <1>3, <1>10
<1> HIDE DEF h, m
<1>14. Opened(m, h, g, r, l, 0, 0)
  BY <1>1, <1>3, <1>6, <1>12, <1>13 DEF Opened
<1>15. Holds(e, m)
  BY <1>14, OpenedUp
<1> HIDE DEF e
<1>16. Flat!Set(x, e, m)
  BY <1>5, <1>11
<1> QED
  BY <1>15, <1>16, SetKeeps

-----------------------------------------------------------------------------
(* One element after the other                                               *)

\* The first k elements of w.
LEMMA FirstPart ==
  ASSUME NEW w \in Seq(Nat), NEW k \in 0 .. Len(w)
  PROVE  /\ SubSeq(w, 1, k) \in Seq(Nat) /\ Len(SubSeq(w, 1, k)) = k
         /\ \A j \in 1 .. k : SubSeq(w, 1, k)[j] = w[j]
<1>1. Len(w) \in Nat
  BY LenProperties
<1>2. 0 \in Nat /\ k \in Nat /\ 0 <= k /\ k <= Len(w) /\ 0 + 1 = 1 /\ k - 0 = k /\ \A j \in 1 .. k : 0 + j = j
  BY <1>1
<1>3. /\ SubSeq(w, 0 + 1, k) \in Seq(Nat) /\ Len(SubSeq(w, 0 + 1, k)) = k - 0
      /\ \A j \in 1 .. k - 0 : SubSeq(w, 0 + 1, k)[j] = w[0 + j]
  BY <1>2, PartIs
<1> QED
  BY <1>2, <1>3

LEMMA NextPart ==
  ASSUME NEW w \in Seq(Nat), NEW k \in 1 .. Len(w)
  PROVE  SubSeq(w, 1, k) = SubSeq(w, 1, k - 1) \o <<w[k]>>
<1>1. 1 \in 1 .. Len(w) /\ k \in 1 .. Len(w)
  BY LenProperties
<1> QED
  BY <1>1, SubSeqRecursiveSecond

\* A list appended in steps.
OneMore(l, w, k) == Append(l \o SubSeq(w, 1, k - 1), w[k]) = l \o SubSeq(w, 1, k)

LEMMA AppendedOne ==
  ASSUME NEW l \in Seq(Nat), NEW w \in Seq(Nat), NEW k \in 1 .. Len(w)
  PROVE  OneMore(l, w, k)
<1> DEFINE a == SubSeq(w, 1, k - 1)
           v == w[k]
           o == <<v>>
           c == l \o a
<1>1. Len(w) \in Nat /\ v \in Nat
  BY LenProperties, ElementOfSeq
<1>2. a \in Seq(Nat)
  <2>1. k - 1 \in 0 .. Len(w)
    BY <1>1
  <2> QED
    BY <2>1, FirstPart
<1>3. SubSeq(w, 1, k) = a \o o
  BY NextPart
<1>4. o \in Seq(Nat)
  BY <1>1, OneIs
<1> HIDE DEF a, v
<1>5. c \in Seq(Nat)
  BY <1>2, ConcatIn
<1>6. Append(c, v) = c \o o
  <2> HIDE DEF c
  <2> QED
    BY <1>1, <1>5, AppendIsConcat
<1> HIDE DEF o
<1>7. Brackets(l, a, o)
  BY <1>2, <1>4, Assoc
<1>8. c \o o = l \o (a \o o)
  BY <1>7 DEF Brackets
<1>9. Append(c, v) = l \o SubSeq(w, 1, k)
  BY <1>3, <1>6, <1>8
<1> QED
  BY <1>9 DEF OneMore, c, a, v

\* What a loop of n turns leaves, of which a turn depends on the one before.
Turns(f, n, r, step) == f \in [0 .. n -> Recs] /\ f[0] = r /\ \A k \in 1 .. n : f[k] = step[k][f[k - 1]]

LEMMA TurnsExist ==
  ASSUME NEW n \in Nat, NEW r \in Recs, NEW step \in [1 .. n -> [Recs -> Recs]]
  PROVE  \E f : Turns(f, n, r, step)
<1>1. PICK f : Leads(f, Recs, r, n, step)
  BY Recursion
<1>2. Turns(f, n, r, step)
  BY <1>1 DEF Leads, Turns
<1> QED
  BY <1>2

LEMMA PushBackIn ==
  ASSUME NEW r \in Recs, NEW v \in Nat PROVE Flat!PushBack(r, v) \in Recs
<1> DEFINE g == Flat!setsize(r, r.max + 1)
           e == Flat!Grown(g, 1)
<1>1. r.max \in Int /\ r.max >= -1
  BY RecIs
<1>2. FlatRoom(g, r, r.max + 1)
  BY <1>1, FlatSetsize
<1> HIDE DEF g
<1>3. g \in Recs /\ g.max = r.max /\ g.max + 1 >= -1
  BY <1>1, <1>2 DEF FlatRoom
<1>4. e \in Recs
  BY <1>3, FlatGrownIn
<1> HIDE DEF e
<1>5. g.max + 1 \in Int
  BY <1>1, <1>3
<1>6. Flat!store(e, g.max + 1, v) \in Recs
  BY <1>4, <1>5, FlatStoreIn
<1> QED
  BY <1>6 DEF Flat!PushBack, g, e

Pushed(f, r, w) == f = [k \in 0 .. Len(w) |-> IF k = 0 THEN r ELSE Flat!PushBack(f[k - 1], w[k])]

LEMMA PushedExists ==
  ASSUME NEW r \in Recs, NEW w \in Seq(Nat) PROVE \E f : Pushed(f, r, w)
<1> DEFINE n == Len(w)
           step == [k \in 1 .. n |-> [q \in Recs |-> Flat!PushBack(q, w[k])]]
<1>1. n \in Nat /\ \A k \in 1 .. n : w[k] \in Nat
  BY LenProperties, ElementOfSeq
<1> HIDE DEF n
<1>2. step \in [1 .. n -> [Recs -> Recs]]
  BY <1>1, PushBackIn
<1>3. \A k \in 1 .. n : \A q \in Recs : step[k][q] = Flat!PushBack(q, w[k])
  OBVIOUS
<1> HIDE DEF step
<1>4. PICK f : Turns(f, n, r, step)
  BY <1>1, <1>2, TurnsExist
<1>5. f \in [0 .. n -> Recs] /\ f[0] = r /\ \A k \in 1 .. n : f[k] = step[k][f[k - 1]]
  BY <1>4 DEF Turns
<1>6. ASSUME NEW k \in 0 .. n PROVE f[k] = IF k = 0 THEN r ELSE Flat!PushBack(f[k - 1], w[k])
  <2>1. CASE k = 0
    BY <1>5, <2>1
  <2>2. CASE k # 0
    <3>1. k \in 1 .. n /\ k - 1 \in 0 .. n
      BY <1>1, <1>6, <2>2
    <3>2. f[k - 1] \in Recs
      BY <1>5, <3>1
    <3> QED
      BY <1>3, <1>5, <2>2, <3>1, <3>2
  <2> QED
    BY <2>1, <2>2
<1>7. f = [k \in 0 .. n |-> IF k = 0 THEN r ELSE Flat!PushBack(f[k - 1], w[k])]
  <2>1. f = [k \in 0 .. n |-> f[k]]
    BY <1>5
  <2> QED
    BY <1>6, <2>1
<1> QED
  BY <1>7 DEF Pushed, n

LEMMA PushAllHolds ==
  ASSUME NEW r, NEW l, Holds(r, l), NEW w \in Seq(Nat)
  PROVE  Holds(Flat!PushAll(r, w), l \o w)
<1> DEFINE n == Len(w)
           f == CHOOSE f : Pushed(f, r, w)
<1>0. r \in Recs /\ l \in Seq(Nat)
  BY DEF Holds
<1>1. Flat!PushAll(r, w) = f[n]
  BY DEF Flat!PushAll, Pushed
<1>2. Pushed(f, r, w)
  BY <1>0, PushedExists
<1>3. n \in Nat /\ \A k \in 1 .. n : w[k] \in Nat
  BY LenProperties, ElementOfSeq
<1> HIDE DEF f
<1>4. f[0] = r /\ \A k \in 1 .. n : f[k] = Flat!PushBack(f[k - 1], w[k])
  <2> DEFINE E(k) == IF k = 0 THEN r ELSE Flat!PushBack(f[k - 1], w[k])
  <2>1. f = [k \in 0 .. n |-> E(k)]
    BY <1>2 DEF Pushed
  <2>2. E(0) = r /\ \A k \in 1 .. n : E(k) = Flat!PushBack(f[k - 1], w[k])
    <3> HIDE DEF n
    <3> QED
      BY <1>3
  <2> HIDE DEF E
  <2>3. \A k \in 0 .. n : f[k] = E(k)
    BY <2>1, Zenon
  <2>4. 0 \in 0 .. n /\ \A k \in 1 .. n : k \in 0 .. n
    BY <1>3
  <2> HIDE DEF n
  <2> QED
    BY <2>2, <2>3, <2>4, Zenon
<1> DEFINE T == {k \in Nat : k <= n => Holds(f[k], l \o SubSeq(w, 1, k))}
<1>5. 0 \in T
  <2>1. SubSeq(w, 1, 0) = <<>>
    <3>1. 0 \in 0 .. Len(w)
      BY <1>3
    <3>2. SubSeq(w, 1, 0) \in Seq(Nat) /\ Len(SubSeq(w, 1, 0)) = 0
      BY <3>1, FirstPart
    <3> QED
      BY <3>2, EmptySeq
  <2>2. l \o <<>> = l
    BY <1>0, ConcatEmptySeq
  <2> QED
    BY <1>4, <2>1, <2>2
<1>6. ASSUME NEW k \in Nat, k \in T PROVE k + 1 \in T
  <2> SUFFICES ASSUME k + 1 <= n PROVE Holds(f[k + 1], l \o SubSeq(w, 1, k + 1))
    OBVIOUS
  <2> DEFINE a == l \o SubSeq(w, 1, k)
  <2>1. Holds(f[k], a)
    BY <1>3, <1>6
  <2>2. k + 1 \in 1 .. n /\ (k + 1) - 1 = k
    BY <1>3
  <2>3. f[k + 1] = Flat!PushBack(f[k], w[k + 1]) /\ w[k + 1] \in Nat
    BY <1>3, <1>4, <2>2
  <2>4. Append(a, w[k + 1]) = l \o SubSeq(w, 1, k + 1)
    <3>1. OneMore(l, w, k + 1)
      BY <1>0, <2>2, AppendedOne
    <3> QED
      BY <2>2, <3>1 DEF OneMore
  <2> HIDE DEF a
  <2>5. Holds(Flat!PushBack(f[k], w[k + 1]), Append(a, w[k + 1]))
    BY <2>1, <2>3, PushBackHolds
  <2> QED
    BY <2>3, <2>4, <2>5
<1> HIDE DEF T
<1>7. n \in T
  BY <1>3, <1>5, <1>6, NatSet
<1>8. Holds(f[n], l \o SubSeq(w, 1, n))
  BY <1>3, <1>7 DEF T
<1> QED
  BY <1>1, <1>8, SubSeqFull

LEMMA AssignListFlat ==
  ASSUME FlatTyped, FlatSound, NEW x \in Arrays, NEW w \in Seq(Nat), Flat!AssignList(x, w) PROVE FlatKept
<1> DEFINE r == arr[x]
           g == [mem |-> r.mem, max |-> -1]
<1>1. r \in Recs
  BY FlatAt
<1>2. r.mem \in Seq(Nat) /\ Len(r.mem) \in Nat /\ r = [mem |-> r.mem, max |-> r.max]
  BY <1>1, RecIs
<1>3. Flat!Set(x, Flat!PushAll(g, w), w)
  <2>1. [r EXCEPT !.max = -1] = g
    <3> HIDE DEF r
    <3> QED
      BY <1>2
  <2> QED
    BY <2>1 DEF Flat!AssignList
<1>4. g \in Recs /\ g.mem = r.mem /\ g.max = -1
  BY <1>2, RecMade
<1>5. <<>> \in Seq(Nat) /\ Len(<<>>) = 0
  BY EmptySeq
<1> HIDE DEF g
<1>6. Holds(g, <<>>)
  BY <1>2, <1>4, <1>5 DEF Holds
<1>7. <<>> \o w = w
  BY ConcatEmptySeq
<1>8. Holds(Flat!PushAll(g, w), w)
  <2>1. Holds(Flat!PushAll(g, w), <<>> \o w)
    BY <1>6, PushAllHolds
  <2> QED
    BY <1>7, <2>1
<1> QED
  BY <1>3, <1>8, SetKeeps

-----------------------------------------------------------------------------
(* Two SArrays                                                               *)

\* A step leaves each array in order, or is one of those that need not.
FlatStep == FlatTyped' /\ (FlatSound' \/ Flat!Breaks)

LEMMA KeptIsStep == FlatKept => FlatStep
BY DEF FlatKept, FlatStep

LEMMA CopyFlat ==
  ASSUME FlatTyped, FlatSound, NEW x \in Arrays, NEW y \in Arrays, Flat!Copy(x, y) PROVE FlatStep
<1>1. CASE x # y
  <2>1. Holds(arr[y], list[y])
    BY FlatAt
  <2>2. Flat!Set(x, arr[y], list[y])
    BY <1>1 DEF Flat!Copy
  <2> QED
    BY <2>1, <2>2, SetKeeps, KeptIsStep
<1>2. CASE x = y
  <2>1. Flat!Set(x, Flat!Broken, list[y])
    BY <1>2 DEF Flat!Copy
  <2>2. list[y] \in Seq(Nat) /\ Flat!Broken \in Recs
    BY FlatAt, BrokenIs
  <2>3. FlatTyped'
    BY <2>1, <2>2, SetTyped
  <2>4. Flat!Breaks
    BY <1>2 DEF Flat!Breaks
  <2> QED
    BY <2>3, <2>4 DEF FlatStep
<1> QED
  BY <1>1, <1>2

LEMMA EachHolds ==
  ASSUME arr' \in [Arrays -> Recs], list' \in [Arrays -> Seq(Nat)],
         \A z \in Arrays : Holds(arr'[z], list'[z])
  PROVE  FlatStep
BY DEF FlatStep, FlatTyped, FlatSound

LEMMA NothingFlat == Holds(Flat!Nothing, <<>>)
<1>1. <<>> \in Seq(Nat) /\ Len(<<>>) = 0
  BY EmptySeq
<1>2. Flat!Nothing = [mem |-> <<>>, max |-> -1]
  BY DEF Flat!Nothing
<1>3. [mem |-> <<>>, max |-> -1] \in Recs
  BY <1>1 DEF Recs
<1> QED
  BY <1>1, <1>2, <1>3 DEF Holds

LEMMA MoveConstructFlat ==
  ASSUME FlatTyped, FlatSound, NEW x \in Arrays, NEW y \in Arrays, Flat!MoveConstruct(x, y) PROVE FlatStep
<1>1. /\ arr \in [Arrays -> Recs] /\ list \in [Arrays -> Seq(Nat)]
      /\ \A z \in Arrays : Holds(arr[z], list[z])
  BY DEF FlatTyped, FlatSound
<1>2. Flat!Nothing \in Recs /\ <<>> \in Seq(Nat) /\ Holds(Flat!Nothing, <<>>)
  BY NothingFlat DEF Holds
<1>3. arr' = [arr EXCEPT ![x] = arr[y], ![y] = Flat!Nothing] /\ list' = [list EXCEPT ![x] = list[y], ![y] = <<>>]
  BY DEF Flat!MoveConstruct
<1> DEFINE e == <<>>
<1> HIDE DEF e
<1>4. arr' \in [Arrays -> Recs] /\ \A z \in Arrays : arr'[z] = IF z = y THEN Flat!Nothing ELSE IF z = x THEN arr[y] ELSE arr[z]
  BY <1>1, <1>2, <1>3
<1>5. list' \in [Arrays -> Seq(Nat)] /\ \A z \in Arrays : list'[z] = IF z = y THEN <<>> ELSE IF z = x THEN list[y] ELSE list[z]
  BY <1>1, <1>2, <1>3
<1>6. ASSUME NEW z \in Arrays PROVE Holds(arr'[z], list'[z])
  <2>1. CASE z = y
    BY <1>2, <1>4, <1>5, <2>1
  <2>2. CASE z # y /\ z = x
    <3>1. arr'[z] = arr[y] /\ list'[z] = list[y]
      BY <1>4, <1>5, <2>2
    <3> QED
      BY <1>1, <3>1
  <2>3. CASE z # y /\ z # x
    <3>1. arr'[z] = arr[z] /\ list'[z] = list[z]
      BY <1>4, <1>5, <2>3
    <3> QED
      BY <1>1, <3>1
  <2> QED
    BY <2>1, <2>2, <2>3
<1> QED
  BY <1>4, <1>5, <1>6, EachHolds

LEMMA SwapFlat ==
  ASSUME FlatTyped, FlatSound, NEW x \in Arrays, NEW y \in Arrays, Flat!Swap(x, y) PROVE FlatStep
<1>1. /\ arr \in [Arrays -> Recs] /\ list \in [Arrays -> Seq(Nat)]
      /\ \A z \in Arrays : Holds(arr[z], list[z])
  BY DEF FlatTyped, FlatSound
<1>2. arr' = [arr EXCEPT ![x] = arr[y], ![y] = arr[x]] /\ list' = [list EXCEPT ![x] = list[y], ![y] = list[x]]
  BY DEF Flat!Swap
<1>3. arr' \in [Arrays -> Recs] /\ \A z \in Arrays : arr'[z] = IF z = y THEN arr[x] ELSE IF z = x THEN arr[y] ELSE arr[z]
  BY <1>1, <1>2
<1>4. list' \in [Arrays -> Seq(Nat)] /\ \A z \in Arrays : list'[z] = IF z = y THEN list[x] ELSE IF z = x THEN list[y] ELSE list[z]
  BY <1>1, <1>2
<1>5. ASSUME NEW z \in Arrays PROVE Holds(arr'[z], list'[z])
  <2>1. \E q \in Arrays : arr'[z] = arr[q] /\ list'[z] = list[q]
    BY <1>3, <1>4
  <2> QED
    BY <1>1, <2>1
<1> QED
  BY <1>3, <1>4, <1>5, EachHolds

LEMMA AppendArrayFlat ==
  ASSUME FlatTyped, FlatSound, NEW x \in Arrays, NEW y \in Arrays, Flat!AppendArray(x, y) PROVE FlatStep
<1> DEFINE r == arr[x]
           s == arr[y]
           m == list[x] \o list[y]
           g == Flat!setsize(r, r.max + s.max + 1)
           w == Flat!Content(s)
<1>1. /\ Holds(r, list[x]) /\ Flat!max(x) = r.max /\ r \in Recs /\ list[x] \in Seq(Nat) /\ r.max \in Int /\ r.max >= -1
      /\ Holds(s, list[y]) /\ Flat!max(y) = s.max /\ s \in Recs /\ list[y] \in Seq(Nat) /\ s.max \in Int /\ s.max >= -1
  BY FlatAt
<1>2. Flat!Set(x, IF x = y /\ r.max >= 0 THEN Flat!Broken ELSE Flat!PushAll(g, w), m)
  BY <1>1 DEF Flat!AppendArray
<1>3. m \in Seq(Nat)
  BY <1>1, ConcatIn
<1>4. CASE x = y /\ r.max >= 0
  <2>1. Flat!Set(x, Flat!Broken, m) /\ Flat!Broken \in Recs
    BY <1>2, <1>4, BrokenIs
  <2>2. FlatTyped'
    BY <1>3, <2>1, SetTyped
  <2>3. Flat!Breaks
    BY <1>4 DEF Flat!Breaks
  <2> QED
    BY <2>2, <2>3 DEF FlatStep
<1>5. CASE ~(x = y /\ r.max >= 0)
  <2>1. Flat!Set(x, Flat!PushAll(g, w), m)
    BY <1>2, <1>5
  <2>2. w = list[y]
    BY <1>1, HoldsIs DEF Flat!Content
  <2>3. FlatRoom(g, r, r.max + s.max + 1)
    <3>1. r.max + s.max + 1 \in Int /\ r.max + s.max + 1 >= -1
      BY <1>1
    <3> QED
      BY <1>1, <3>1, FlatSetsize
  <2> HIDE DEF r, s, g, w
  <2>4. Holds(g, list[x])
    BY <1>1, <2>3, RoomHolds
  <2>5. Holds(Flat!PushAll(g, w), m)
    BY <1>1, <2>2, <2>4, PushAllHolds
  <2> HIDE DEF m
  <2> QED
    BY <2>1, <2>5, SetKeeps, KeptIsStep
<1> QED
  BY <1>4, <1>5

-----------------------------------------------------------------------------
(* The members that do not keep every array in order                         *)

LEMMA BreakStep ==
  ASSUME FlatTyped, NEW x \in Arrays, NEW r \in Recs, NEW l \in Seq(Nat), Flat!Set(x, r, l), Flat!Breaks
  PROVE  FlatStep
BY SetTyped DEF FlatStep

LEMMA MovedInPlace ==
  ASSUME NEW r \in Recs, NEW i \in Nat, NEW n \in Int, NEW p \in Int, NEW g, FlatMoved(g, r, i, i, n)
  PROVE  FlatMoved(g, r, i, i, p)
<1>1. Len(r.mem) \in Nat
  BY RecIs
<1>2. /\ g \in Recs /\ g.max = r.max /\ Len(g.mem) = Len(r.mem)
      /\ \A k \in 1 .. Len(r.mem) : g.mem[k] = IF i < k /\ k <= i + n THEN r.mem[k - i + i] ELSE r.mem[k]
  BY DEF FlatMoved
<1>3. \A k \in 1 .. Len(r.mem) : k - i + i = k
  BY <1>1
<1>4. \A k \in 1 .. Len(r.mem) : g.mem[k] = r.mem[k]
  BY <1>2, <1>3
<1>5. \A k \in 1 .. Len(r.mem) : g.mem[k] = IF i < k /\ k <= i + p THEN r.mem[k - i + i] ELSE r.mem[k]
  BY <1>3, <1>4
<1> QED
  BY <1>2, <1>5 DEF FlatMoved

LEMMA NotMoved ==
  ASSUME NEW r \in Recs, NEW i \in Nat, NEW j \in Nat, NEW n \in Int, n <= 0
  PROVE  FlatMoved(r, r, i, j, n)
<1>1. Len(r.mem) \in Nat
  BY RecIs
<1>2. \A k \in 1 .. Len(r.mem) : ~(i < k /\ k <= i + n)
  BY <1>1
<1> QED
  BY <1>2 DEF FlatMoved

LEMMA NothingLeft == ASSUME NEW a \in Int, NEW b \in Int, a + 1 <= b PROVE a + 1 - b <= 0 /\ a + 1 - b \in Int
OBVIOUS

\* What is erased of a range that does not reach behind the block is what it
\* should be: more may be moved than is left, but nothing of it is in use.
LEMMA RangeErased ==
  ASSUME NEW r, NEW l, FlatFine(r, l), NEW i \in Nat, NEW j \in Nat, i <= j, j <= r.max + 1, i <= r.max,
         Wide \in Nat \ {0}, j + Wide * (r.max - i) <= Len(r.mem)
  PROVE  Holds(Flat!Grown(IF i = r.max THEN r ELSE Flat!memmove(r, i, j, Wide * (r.max - i)), i - j), Flat!Without(l, i, j))
<1> DEFINE m == Flat!Without(l, i, j)
           n == Wide * (r.max - i)
           g == Flat!memmove(r, i, j, n)
           need == r.max + 1 - j
<1>1. r \in Recs /\ l \in Seq(Nat) /\ r.max \in Int /\ Len(l) = r.max + 1 /\ Len(r.mem) \in Nat /\ r.max < Len(r.mem)
  BY DEF FlatFine
<1>2. r.max - i \in Nat /\ j <= Len(l) /\ need \in Nat
  <2>1. r.max - i \in Nat
    BY <1>1
  <2>2. j <= Len(l) /\ need \in Nat
    BY <1>1
  <2> QED
    BY <2>1, <2>2
<1>3. Cut(m, l, i, j)
  BY <1>1, <1>2, WithoutIs
<1>4. n \in Nat /\ n >= r.max - i
  <2>1. \A p \in Nat : Wide * p \in Nat /\ Wide * p >= p
    OBVIOUS
  <2> QED
    BY <1>2, <2>1
<1>5. j + n <= Len(r.mem) /\ i + n <= Len(r.mem)
  <2>1. j + n <= Len(r.mem)
    OBVIOUS
  <2> HIDE DEF n
  <2> QED
    BY <1>1, <1>4, <2>1
<1> HIDE DEF m, n
<1>6. FlatMoved(g, r, i, j, n)
  BY <1>1, <1>4, <1>5, FlatMove
<1> HIDE DEF g
<1>7. CASE i # r.max /\ i # j
  <2>1. r.max + 1 - j <= n
    <3> DEFINE c == r.max
    <3>1. c \in Int /\ i \in Int /\ j \in Int /\ n \in Int /\ n >= c - i /\ i <= j
      BY <1>1, <1>4
    <3> HIDE DEF c
    <3>2. c + 1 - j <= n
      BY <1>7, <3>1
    <3> QED
      BY <3>2 DEF c
  <2>2. Holds(Flat!Grown(g, i - j), m)
    BY <1>3, <1>4, <1>6, <2>1, MovedDown
  <2> QED
    BY <1>7, <2>2 DEF g, m, n
<1>8. CASE i # r.max /\ i = j
  <2>1. FlatMoved(g, r, i, j, need)
    BY <1>1, <1>2, <1>4, <1>6, <1>8, MovedInPlace
  <2>2. r.max + 1 - j <= need
    BY <1>2
  <2> HIDE DEF need
  <2>3. Holds(Flat!Grown(g, i - j), m)
    BY <1>2, <1>3, <2>1, <2>2, MovedDown
  <2> QED
    BY <1>8, <2>3 DEF g, m, n
<1>9. CASE i = r.max
  <2>1. FlatMoved(r, r, i, j, need)
    <3>1. CASE i = j
      <4>1. 0 \in Int /\ 0 <= 0
        OBVIOUS
      <4>2. FlatMoved(r, r, i, i, 0)
        BY <1>1, <4>1, NotMoved
      <4> HIDE DEF need
      <4>3. FlatMoved(r, r, i, i, need)
        BY <1>1, <1>2, <4>1, <4>2, MovedInPlace
      <4> QED
        BY <3>1, <4>3
    <3>2. CASE i # j
      <4>0. i + 1 <= j /\ r.max + 1 <= j
        BY <1>1, <1>9, <3>2
      <4>1. need <= 0 /\ need \in Int
        BY <1>1, <4>0, NothingLeft
      <4> HIDE DEF need
      <4> QED
        BY <1>1, <4>1, NotMoved
    <3> QED
      BY <3>1, <3>2
  <2>2. r.max + 1 - j <= need
    BY <1>2
  <2> HIDE DEF need
  <2>3. Holds(Flat!Grown(r, i - j), m)
    BY <1>2, <1>3, <2>1, <2>2, MovedDown
  <2> QED
    BY <1>9, <2>3 DEF m
<1> QED
  BY <1>7, <1>8, <1>9

\* The constants that SArray has besides those of ArraySlots.
Plain == Values \subseteq Nat /\ Wide \in Nat \ {0} /\ MaxMax \in Nat

LEMMA EraseRangeFlat ==
  ASSUME Plain, FlatTyped, FlatSound, NEW x \in Arrays, NEW i \in 0 .. MaxMax, NEW j \in 0 .. MaxMax + 1,
         Flat!EraseRange(x, i, j)
  PROVE  FlatStep
<1> DEFINE r == arr[x]
           l == list[x]
           n == Wide * (r.max - i)
           e == IF i = r.max THEN r ELSE Flat!memmove(r, i, j, n)
           g == Flat!Grown(e, i - j)
           m == Flat!Without(l, i, j)
<1>0. i \in Nat /\ j \in Nat /\ Wide \in Nat \ {0}
  BY DEF Plain
<1>1. FlatFine(r, l) /\ Flat!max(x) = r.max
  BY FlatAt, FineIs
<1>2. i <= j /\ j <= r.max + 1 /\ Flat!Set(x, g, m)
  BY <1>1 DEF Flat!EraseRange
<1>3. r \in Recs /\ l \in Seq(Nat) /\ r.max \in Int /\ r.max >= -1 /\ Len(l) = r.max + 1 /\ Len(r.mem) \in Nat /\ Flat!num_elem(r) = Len(r.mem)
  BY <1>1, RecIs DEF FlatFine
<1>4. CASE i <= r.max /\ j + n <= Len(r.mem)
  <2> HIDE DEF r, l
  <2>1. Holds(g, m)
    BY <1>0, <1>1, <1>2, <1>4, RangeErased
  <2> HIDE DEF g, m
  <2> QED
    BY <1>2, <2>1, SetKeeps, KeptIsStep
<1>5. CASE ~(i <= r.max /\ j + n <= Len(r.mem))
  <2>1. n \in Int
    <3>1. r.max - i \in Int
      BY <1>0, <1>3
    <3>2. \A p \in Int : Wide * p \in Int
      BY <1>0
    <3> QED
      BY <3>1, <3>2
  <2>2. i > Flat!max(x) \/ j + Wide * (Flat!max(x) - i) > Flat!num_elem(arr[x])
    <3>1. i > r.max \/ j + n > Len(r.mem)
      <4> HIDE DEF n, r
      <4> QED
        BY <1>0, <1>3, <1>5, <2>1
    <3> QED
      BY <1>1, <1>3, <3>1
  <2>3. Flat!Breaks
    BY <2>2 DEF Flat!Breaks
  <2> HIDE DEF r, l, n
  <2>4. e \in Recs /\ (e = Flat!Broken \/ e.max = r.max)
    <3> DEFINE h == Flat!memmove(r, i, j, n)
    <3>1. h \in Recs /\ (h = Flat!Broken \/ FlatMoved(h, r, i, j, n))
      BY <1>0, <1>3, <2>1, FlatMoveIn
    <3> HIDE DEF h
    <3>2. h \in Recs /\ (h = Flat!Broken \/ h.max = r.max)
      BY <3>1 DEF FlatMoved
    <3>3. e = IF i = r.max THEN r ELSE h
      BY DEF h
    <3> HIDE DEF e
    <3> QED
      BY <1>3, <3>2, <3>3
  <2>5. g \in Recs
    <3>1. i - j \in Int /\ r.max + (i - j) >= -1
      BY <1>0, <1>2, <1>3
    <3> HIDE DEF e
    <3> QED
      BY <2>4, <3>1, FlatGrownIn
  <2>6. m \in Seq(Nat)
    <3>1. j <= Len(l)
      BY <1>2, <1>3
    <3>2. Cut(m, l, i, j)
      BY <1>0, <1>2, <1>3, <3>1, WithoutIs
    <3> QED
      BY <3>2 DEF Cut
  <2> HIDE DEF g, m
  <2> QED
    BY <1>2, <2>3, <2>5, <2>6, BreakStep
<1> QED
  BY <1>4, <1>5

LEMMA GapIn ==
  ASSUME NEW r \in Recs, NEW i \in Nat, NEW n \in Nat PROVE Flat!Gap(r, i, n) \in Recs
<1> DEFINE h == Flat!memmove(r, i + n, i, r.max - i + 1)
<1>1. r.max \in Int /\ r.max >= -1
  BY RecIs
<1>2. CASE i > r.max
  BY <1>2 DEF Flat!Gap
<1>3. CASE ~(i > r.max)
  <2>1. Flat!Gap(r, i, n) = Flat!Grown(h, 1)
    BY <1>3 DEF Flat!Gap
  <2>2. i + n \in Nat /\ r.max - i + 1 \in Int
    BY <1>1
  <2>3. h \in Recs /\ (h = Flat!Broken \/ FlatMoved(h, r, i + n, i, r.max - i + 1))
    BY <2>2, FlatMoveIn
  <2> HIDE DEF h
  <2>4. h = Flat!Broken \/ h.max + 1 >= -1
    BY <1>1, <2>3 DEF FlatMoved
  <2>5. Flat!Grown(h, 1) \in Recs
    BY <2>3, <2>4, FlatGrownIn
  <2> QED
    BY <2>1, <2>5
<1> QED
  BY <1>2, <1>3

LEMMA InsertedValueIn ==
  ASSUME NEW r \in Recs, NEW i \in Nat, NEW v \in Nat PROVE Flat!InsertedValue(r, i, v) \in Recs
<1> DEFINE g == Flat!setsize(r, r.max + 1)
           h == Flat!Gap(g, i, 1)
<1>1. r.max + 1 \in Int /\ r.max + 1 >= -1
  BY RecIs
<1>2. g \in Recs
  BY <1>1, FlatSetsize DEF FlatRoom
<1> HIDE DEF g
<1>3. h \in Recs
  BY <1>2, GapIn
<1> HIDE DEF h
<1>4. i \in Int
  OBVIOUS
<1>5. Flat!store(h, i, v) \in Recs
  BY <1>3, <1>4, FlatStoreIn
<1> QED
  BY <1>5 DEF Flat!InsertedValue, h, g

LEMMA InsertedIn ==
  ASSUME NEW l \in Seq(Nat), NEW i \in Nat, i <= Len(l), NEW new \in Seq(Nat)
  PROVE  Flat!InsertedAt(l, i, new) \in Seq(Nat)
BY InsertedAtIs DEF Spliced

\* Behind the end a zero is not counted, further on there is nothing.
LEMMA InsertZeroFlat ==
  ASSUME FlatTyped, FlatSound, NEW x \in Arrays, NEW i \in Nat, Flat!InsertZero(x, i) PROVE FlatStep
<1> DEFINE r == arr[x]
           l == list[x]
           g == Flat!setsize(r, r.max + 1)
           m == Flat!InsertedAt(l, i, <<0>>)
<1>1. Holds(r, l) /\ FlatFine(r, l) /\ Flat!max(x) = r.max
  BY FlatAt, FineIs
<1>2. Flat!Set(x, IF i > r.max + 1 THEN r ELSE IF i > r.max THEN g ELSE Flat!store(Flat!Gap(g, i, 1), i, 0),
               IF i > r.max + 1 THEN l ELSE m)
  BY <1>1 DEF Flat!InsertZero
<1>3. CASE i = r.max + 1
  <2>1. i = Flat!max(x) + 1
    BY <1>1, <1>3
  <2>2. Flat!InsertZero(x, Flat!max(x) + 1)
    BY <2>1
  <2> QED
    <3>1. Flat!Breaks
      BY <2>2 DEF Flat!Breaks
    <3>2. r \in Recs /\ r.max \in Int /\ r.max >= -1 /\ Len(l) = r.max + 1 /\ l \in Seq(Nat)
      BY <1>1 DEF FlatFine
    <3>3. r.max + 1 \in Int /\ r.max + 1 >= -1
      BY <3>2
    <3>4. g \in Recs
      BY <3>2, <3>3, FlatSetsize DEF FlatRoom
    <3>5. m \in Seq(Nat)
      <4>1. i <= Len(l) /\ 0 \in Nat
        BY <1>3, <3>2
      <4> HIDE DEF l
      <4> QED
        BY <3>2, <4>1, OneIs, InsertedIn
    <3>6. ~(i > r.max + 1) /\ i > r.max
      BY <1>3, <3>2
    <3> HIDE DEF g, m
    <3>7. Flat!Set(x, g, m)
      BY <1>2, <3>6
    <3> QED
      BY <3>1, <3>4, <3>5, <3>7, BreakStep
<1> HIDE DEF r, l
<1>4. r \in Recs /\ r.max \in Int /\ r.max >= -1 /\ Len(l) = r.max + 1 /\ l \in Seq(Nat)
  BY <1>1 DEF FlatFine
<1>5. CASE i > r.max + 1
  <2>1. Flat!Set(x, r, l)
    BY <1>2, <1>5
  <2> QED
    BY <1>1, <2>1, SetKeeps, KeptIsStep
<1>6. CASE i <= r.max
  <2>1. FlatRoom(g, r, r.max + 1)
    BY <1>4, FlatSetsize
  <2>2. i <= Len(l) /\ 0 \in Nat /\ ~(i > r.max + 1) /\ ~(i > r.max)
    BY <1>4, <1>6
  <2>3. SplicedOne(m, l, i, 0)
    BY <1>4, <2>2, InsertedOne
  <2> HIDE DEF g, m
  <2>4. Holds(Flat!store(Flat!Gap(g, i, 1), i, 0), m)
    BY <1>1, <1>6, <2>1, <2>2, <2>3, GapFilled
  <2>5. Flat!Set(x, Flat!store(Flat!Gap(g, i, 1), i, 0), m)
    BY <1>2, <2>2
  <2> QED
    BY <2>4, <2>5, SetKeeps, KeptIsStep
<1> QED
  BY <1>3, <1>4, <1>5, <1>6

\* Up to where it is made a gap leaves everything in its place.
LEMMA GapBefore ==
  ASSUME NEW g \in Recs, g.max + 1 < Len(g.mem), NEW i \in Nat
  PROVE  LET h == Flat!Gap(g, i, 1)
         IN  /\ h \in Recs /\ Len(h.mem) = Len(g.mem)
             /\ \A k \in 1 .. Len(g.mem) : k <= i + 1 => h.mem[k] = g.mem[k]
<1>1. g.max \in Int /\ g.max >= -1 /\ Len(g.mem) \in Nat
  BY RecIs
<1>2. CASE i > g.max
  BY <1>2 DEF Flat!Gap
<1>3. CASE ~(i > g.max)
  <2> DEFINE n == g.max - i + 1
             h == Flat!memmove(g, i + 1, i, n)
  <2>1. Flat!Gap(g, i, 1) = Flat!Grown(h, 1)
    BY <1>3 DEF Flat!Gap
  <2>2. n \in Nat /\ i + 1 \in Nat /\ (i + 1) + n <= Len(g.mem) /\ i + n <= Len(g.mem)
    BY <1>1, <1>3
  <2> HIDE DEF n
  <2>3. FlatMoved(h, g, i + 1, i, n)
    BY <2>2, FlatMove
  <2> HIDE DEF h
  <2>4. /\ h \in Recs /\ h.max = g.max /\ Len(h.mem) = Len(g.mem)
        /\ \A k \in 1 .. Len(g.mem) : h.mem[k] = IF i + 1 < k /\ k <= (i + 1) + n THEN g.mem[k - (i + 1) + i] ELSE g.mem[k]
    BY <2>3 DEF FlatMoved
  <2>5. h.max + 1 >= -1 /\ h.max < Len(h.mem)
    BY <1>1, <2>4
  <2>6. Flat!Grown(h, 1) \in Recs /\ Flat!Grown(h, 1).mem = h.mem
    BY <2>4, <2>5, FlatGrown
  <2>7. ASSUME NEW k \in 1 .. Len(g.mem), k <= i + 1 PROVE h.mem[k] = g.mem[k]
    <3>1. ~(i + 1 < k)
      BY <1>1, <2>7
    <3> QED
      BY <2>4, <2>7, <3>1
  <2> QED
    BY <2>1, <2>4, <2>6, <2>7
<1> QED
  BY <1>2, <1>3

LEMMA OwnNumbers ==
  ASSUME NEW i \in Nat, NEW k \in Nat, NEW top \in Int, i <= top, k <= i, NEW room \in Nat, top + 1 < room
  PROVE  k + 1 \in 1 .. top + 1 /\ k + 1 \in 1 .. room /\ k + 1 <= i + 1 /\ i <= top + 1
OBVIOUS

\* Of an element the insert does not move, in a block that has room for it,
\* the value is read where it was.
LEMMA InsertOwnFlat ==
  ASSUME Plain, FlatTyped, FlatSound, NEW x \in Arrays, NEW i \in 0 .. MaxMax, NEW k \in 0 .. MaxMax,
         Flat!InsertOwn(x, i, k)
  PROVE  FlatStep
<1> DEFINE r == arr[x]
           l == list[x]
           s == Flat!setsize(r, r.max + 1)
           g == Flat!Gap(s, i, 1)
           own == Flat!store(g, i, g.mem[k + 1])
           m == Flat!InsertedAt(l, i, <<l[k + 1]>>)
<1>1. FlatFine(r, l) /\ Flat!max(x) = r.max
  BY FlatAt, FineIs
<1>2. /\ i <= r.max + 1 /\ k <= r.max
      /\ \E e \in IF s = r THEN {own} ELSE {own, Flat!Broken} : Flat!Set(x, e, m)
  BY <1>1 DEF Flat!InsertOwn
<1>3. i \in Nat /\ k \in Nat /\ i \in Int
  BY DEF Plain
<1>4. CASE i > r.max \/ k > i \/ r.max + 1 >= Len(r.mem)
  <2>1. Flat!num_elem(arr[x]) = Len(arr[x].mem)
    BY DEF Flat!num_elem
  <2>2. (i > Flat!max(x) \/ k > i \/ Flat!max(x) + 1 >= Flat!num_elem(arr[x])) /\ Flat!InsertOwn(x, i, k)
    BY <1>1, <1>4, <2>1
  <2>3. Flat!Breaks
    BY <2>2 DEF Flat!Breaks
  <2> HIDE DEF r, l
  <2>4. r \in Recs /\ l \in Seq(Nat) /\ r.max \in Int /\ r.max >= -1 /\ Len(l) = r.max + 1
    BY <1>1 DEF FlatFine
  <2>5. s \in Recs /\ s.max + 1 < Len(s.mem) /\ s.max = r.max /\ Len(s.mem) \in Nat
    <3>1. FlatRoom(s, r, r.max + 1)
      BY <2>4, FlatSetsize
    <3> HIDE DEF s
    <3>2. s \in Recs /\ s.max = r.max /\ Len(s.mem) > r.max + 1
      BY <3>1 DEF FlatRoom
    <3>3. Len(s.mem) \in Nat
      BY <3>2, RecIs
    <3> QED
      BY <2>4, <3>2, <3>3
  <2> HIDE DEF s
  <2>6. g \in Recs /\ Len(g.mem) = Len(s.mem)
    BY <1>3, <2>5, GapBefore
  <2> HIDE DEF g
  <2>7. g.mem[k + 1] \in Nat
    <3>1. k + 1 \in 1 .. Len(g.mem)
      BY <1>2, <1>3, <2>4, <2>5, <2>6
    <3> QED
      BY <2>6, <3>1, RecIs
  <2>8. own \in Recs
    BY <1>3, <2>6, <2>7, FlatStoreIn
  <2>9. m \in Seq(Nat)
    <3>1. k + 1 \in 1 .. Len(l) /\ i <= Len(l)
      BY <1>2, <1>3, <2>4
    <3>2. l[k + 1] \in Nat
      BY <2>4, <3>1, ElementOfSeq
    <3> QED
      BY <1>3, <2>4, <3>1, <3>2, OneIs, InsertedIn
  <2> HIDE DEF own, m
  <2>10. PICK e \in {own, Flat!Broken} : Flat!Set(x, e, m)
    BY <1>2
  <2>11. e \in Recs
    BY <2>8, <2>10, BrokenIs
  <2> QED
    BY <2>3, <2>9, <2>10, <2>11, BreakStep
<1>5. CASE i <= r.max /\ k <= i /\ r.max + 1 < Len(r.mem)
  <2> HIDE DEF r, l
  <2>1. r \in Recs /\ l \in Seq(Nat) /\ r.max \in Int /\ r.max >= -1 /\ Len(l) = r.max + 1 /\ Len(r.mem) \in Nat
        /\ \A j \in 1 .. Len(l) : r.mem[j] = l[j]
    BY <1>1 DEF FlatFine
  <2>2. s = r
    <3>1. ~(r.max + 1 >= Len(r.mem))
      BY <1>5, <2>1
    <3> QED
      BY <3>1 DEF Flat!setsize, Flat!num_elem
  <2>3. FlatRoom(s, r, r.max + 1)
    BY <2>1, FlatSetsize
  <2>4. Flat!Set(x, own, m)
    BY <1>2, <2>2
  <2>5. k + 1 \in 1 .. Len(l) /\ k + 1 \in 1 .. Len(r.mem) /\ k + 1 <= i + 1 /\ i <= Len(l)
    <3>1. k + 1 \in 1 .. r.max + 1 /\ k + 1 \in 1 .. Len(r.mem) /\ k + 1 <= i + 1 /\ i <= r.max + 1
      BY <1>3, <1>5, <2>1, OwnNumbers
    <3> QED
      BY <2>1, <3>1
  <2>6. g.mem[k + 1] = l[k + 1]
    <3>1. g.mem[k + 1] = r.mem[k + 1]
      <4> HIDE DEF s
      <4>1. s \in Recs /\ s.max + 1 < Len(s.mem)
        BY <1>5, <2>1, <2>2
      <4> QED
        BY <1>3, <2>2, <2>5, <4>1, GapBefore
    <3> QED
      BY <2>1, <2>5, <3>1
  <2>7. l[k + 1] \in Nat
    BY <2>1, <2>5, ElementOfSeq
  <2>8. SplicedOne(m, l, i, l[k + 1])
    BY <1>3, <2>1, <2>5, <2>7, InsertedOne
  <2> HIDE DEF m, s
  <2>9. Holds(Flat!store(g, i, l[k + 1]), m)
    <3>1. FlatFine(r, l) /\ i <= r.max
      BY <1>1, <1>5
    <3> QED
      BY <1>3, <2>3, <2>7, <2>8, <3>1, GapFilled
  <2>10. Holds(own, m)
    BY <2>6, <2>9
  <2> HIDE DEF own
  <2> QED
    BY <2>4, <2>10, SetKeeps, KeptIsStep
<1> QED
  <2>1. r.max \in Int /\ Len(r.mem) \in Nat
    BY <1>1 DEF FlatFine
  <2> HIDE DEF r
  <2> QED
    BY <1>3, <1>4, <1>5, <2>1

LEMMA InsertValueFlat ==
  ASSUME Plain, FlatTyped, FlatSound, NEW x \in Arrays, NEW i \in 0 .. MaxMax, NEW v \in Values, Flat!InsertValue(x, i, v)
  PROVE  FlatStep
<1> DEFINE r == arr[x]
           l == list[x]
           g == Flat!InsertedValue(r, i, v)
           m == Flat!InsertedAt(l, i, <<v>>)
<1>0. i \in Nat /\ v \in Nat
  BY DEF Plain
<1>1. Holds(r, l) /\ Flat!max(x) = r.max /\ r \in Recs /\ l \in Seq(Nat) /\ r.max \in Int /\ Len(l) = r.max + 1
  BY FlatAt
<1>2. i <= r.max + 1 /\ Flat!Set(x, g, m)
  BY <1>1 DEF Flat!InsertValue
<1>3. CASE i <= r.max
  <2>1. Holds(g, m)
    BY <1>0, <1>1, <1>3, InsertedValueHolds
  <2> HIDE DEF g, m
  <2> QED
    BY <1>2, <2>1, SetKeeps, KeptIsStep
<1>4. CASE ~(i <= r.max)
  <2>1. i = Flat!max(x) + 1
    BY <1>0, <1>1, <1>2, <1>4
  <2>2. Flat!Breaks
    BY <2>1 DEF Flat!Breaks
  <2>3. g \in Recs
    BY <1>0, <1>1, InsertedValueIn
  <2>4. m \in Seq(Nat)
    BY <1>0, <1>1, <1>2, OneIs, InsertedIn
  <2> HIDE DEF g, m
  <2> QED
    BY <1>2, <2>2, <2>3, <2>4, BreakStep
<1> QED
  BY <1>3, <1>4

LEMMA InsertCountFlat ==
  ASSUME Plain, FlatTyped, FlatSound, NEW x \in Arrays, NEW i \in 0 .. MaxMax, NEW v \in Values, Flat!InsertCount(x, i, 2, v)
  PROVE  FlatStep
<1> DEFINE r == arr[x]
           l == list[x]
           g == Flat!Gap(Flat!setsize(r, r.max + 2), i, 2)
           e == IF g # Flat!Broken /\ i < 2 THEN Flat!store(g, i, v) ELSE g
           o == [k \in 1 .. 2 |-> v]
           m == Flat!InsertedAt(l, i, o)
<1>0. i \in Nat /\ i \in Int /\ v \in Nat /\ 2 \in Nat
  BY DEF Plain
<1>1. Flat!max(x) = r.max /\ r \in Recs /\ l \in Seq(Nat) /\ r.max \in Int /\ r.max >= -1 /\ Len(l) = r.max + 1
  BY FlatAt
<1>2. i <= r.max + 1 /\ Flat!Set(x, e, m)
  BY <1>1 DEF Flat!InsertCount
<1>3. Flat!Breaks
  BY DEF Flat!Breaks
<1>4. g \in Recs
  <2> DEFINE s == Flat!setsize(r, r.max + 2)
  <2>1. r.max + 2 \in Int /\ r.max + 2 >= -1
    BY <1>1
  <2>2. s \in Recs
    BY <1>1, <2>1, FlatSetsize DEF FlatRoom
  <2> HIDE DEF s
  <2>3. Flat!Gap(s, i, 2) \in Recs
    BY <1>0, <2>2, GapIn
  <2> QED
    BY <2>3 DEF s
<1> HIDE DEF g
<1>5. e \in Recs
  <2>1. Flat!store(g, i, v) \in Recs
    BY <1>0, <1>4, FlatStoreIn
  <2> QED
    BY <1>4, <2>1
<1>6. o \in Seq(Nat)
  <2>1. o \in [1 .. 2 -> Nat]
    BY <1>0
  <2> HIDE DEF o
  <2> QED
    BY <1>0, <2>1, RowMade
<1> HIDE DEF o
<1>7. m \in Seq(Nat)
  BY <1>0, <1>1, <1>2, <1>6, InsertedIn
<1> HIDE DEF e, m
<1> QED
  BY <1>2, <1>3, <1>5, <1>7, BreakStep

LEMMA push_frontOther ==
  ASSUME Plain, FlatTyped, FlatSound, NEW x \in Arrays, NEW v \in Values, v # 0, Flat!push_front(x, v)
  PROVE  FlatStep
<1> DEFINE r == arr[x]
           s == Flat!setsize(r, r.max + 1)
           h == Flat!memmove(s, v + 1, v, r.max - v + 1)
           g == Flat!Grown(h, 1)
           e == IF h = Flat!Broken THEN Flat!Broken ELSE Flat!store(g, 0, v)
           m == <<v>> \o list[x]
<1>0. v \in Nat /\ v + 1 \in Nat /\ 0 \in Int
  BY DEF Plain
<1>1. Flat!max(x) = r.max /\ r \in Recs /\ list[x] \in Seq(Nat) /\ r.max \in Int /\ r.max >= -1
  BY FlatAt
<1>2. Flat!Set(x, e, m)
  BY <1>1 DEF Flat!push_front
<1>3. Flat!Breaks
  BY DEF Flat!Breaks
<1> HIDE DEF r
<1>4. s \in Recs /\ s.max = r.max
  <2>1. r.max + 1 \in Int /\ r.max + 1 >= -1
    BY <1>1
  <2> QED
    BY <1>1, <2>1, FlatSetsize DEF FlatRoom
<1> HIDE DEF s
<1>5. h \in Recs /\ (h = Flat!Broken \/ h.max + 1 >= -1)
  <2>1. r.max - v + 1 \in Int
    BY <1>0, <1>1
  <2>2. h \in Recs /\ (h = Flat!Broken \/ FlatMoved(h, s, v + 1, v, r.max - v + 1))
    BY <1>0, <1>4, <2>1, FlatMoveIn
  <2> HIDE DEF h
  <2>3. h = Flat!Broken \/ h.max = s.max
    BY <2>2 DEF FlatMoved
  <2> QED
    BY <1>1, <1>4, <2>2, <2>3
<1> HIDE DEF h
<1>6. g \in Recs
  BY <1>5, FlatGrownIn
<1> HIDE DEF g
<1>7. e \in Recs
  <2>1. Flat!store(g, 0, v) \in Recs
    BY <1>0, <1>6, FlatStoreIn
  <2> QED
    BY <2>1, BrokenIs
<1>8. m \in Seq(Nat)
  BY <1>0, <1>1, InFront DEF SplicedOne
<1> HIDE DEF e, m
<1> QED
  BY <1>2, <1>3, <1>7, <1>8, BreakStep

-----------------------------------------------------------------------------
(* operator[]                                                                *)

\* The list is made longer with zeros.
Overwritten(m, l, i, v) ==
  /\ m \in Seq(Nat) /\ Len(m) = IF i >= Len(l) THEN i + 1 ELSE Len(l)
  /\ \A k \in 1 .. Len(m) : m[k] = IF k = i + 1 THEN v ELSE IF k <= Len(l) THEN l[k] ELSE 0

LEMMA OverwrittenIn ==
  ASSUME NEW l \in Seq(Nat), NEW i \in Nat, NEW v \in Nat
  PROVE  Overwritten([k \in 1 .. (IF i >= Len(l) THEN i + 1 ELSE Len(l)) |->
                      IF k = i + 1 THEN v ELSE IF k <= Len(l) THEN l[k] ELSE 0], l, i, v)
<1> DEFINE n == IF i >= Len(l) THEN i + 1 ELSE Len(l)
           f == [k \in 1 .. n |-> IF k = i + 1 THEN v ELSE IF k <= Len(l) THEN l[k] ELSE 0]
<1>1. Len(l) \in Nat /\ \A k \in 1 .. Len(l) : l[k] \in Nat
  BY LenProperties, ElementOfSeq
<1>2. n \in Nat
  BY <1>1
<1> HIDE DEF n
<1>3. \A k \in 1 .. n : k <= Len(l) => k \in 1 .. Len(l)
  BY <1>1, <1>2
<1>4. f \in [1 .. n -> Nat] /\ \A k \in 1 .. n : f[k] = IF k = i + 1 THEN v ELSE IF k <= Len(l) THEN l[k] ELSE 0
  BY <1>1, <1>3
<1> HIDE DEF f
<1>5. f \in Seq(Nat) /\ Len(f) = n
  BY <1>2, <1>4, RowMade
<1>6. Len(f) = IF i >= Len(l) THEN i + 1 ELSE Len(l)
  BY <1>5 DEF n
<1>7. Overwritten(f, l, i, v)
  BY <1>4, <1>5, <1>6 DEF Overwritten
<1> QED
  BY <1>7 DEF f, n

LEMMA BehindNumbers ==
  ASSUME NEW i \in Nat, NEW len \in Nat, NEW n, n = IF i >= len THEN i + 1 ELSE len,
         NEW k \in 1 .. n, k # i + 1, ~(k <= len)
  PROVE  k \in 1 .. i /\ k > len
<1>1. CASE i >= len
  BY <1>1
<1>2. CASE ~(i >= len)
  BY <1>2
<1> QED
  BY <1>1, <1>2

\* An element that is there, or the one behind, with zeros before it.
LEMMA WriteHolds ==
  ASSUME NEW r, NEW l, FlatFine(r, l), NEW i \in Nat, NEW v \in Nat, NEW m, Overwritten(m, l, i, v),
         NEW g, g \in Recs /\ g.max >= r.max /\ Len(g.mem) > i,
         IF i > r.max THEN g.max = i ELSE g.max = r.max,
         \A k \in 1 .. Len(l) : g.mem[k] = r.mem[k],
         \A k \in 1 .. i : k > Len(l) => g.mem[k] = 0,
         Len(g.mem) >= Len(r.mem)
  PROVE  Holds(Flat!store(g, i, v), m)
<1> DEFINE e == Flat!store(g, i, v)
<1>1. /\ r.max \in Int /\ r.max >= -1 /\ Len(l) = r.max + 1 /\ Len(r.mem) \in Nat /\ r.max < Len(r.mem) /\ Len(l) \in Nat
      /\ \A k \in 1 .. Len(l) : r.mem[k] = l[k]
  BY DEF FlatFine
<1>2. Len(g.mem) \in Nat /\ i \in 0 .. Len(g.mem) - 1
  <2>1. Len(g.mem) \in Nat
    BY RecIs
  <2> QED
    BY <2>1
<1>3. FlatStored(e, g, i, v)
  BY <1>2, FlatStore
<1> HIDE DEF e
<1>4. /\ e \in Recs /\ e.max = g.max /\ Len(e.mem) = Len(g.mem)
      /\ \A k \in 1 .. Len(g.mem) : e.mem[k] = IF k = i + 1 THEN v ELSE g.mem[k]
  BY <1>3 DEF FlatStored
<1>5. /\ m \in Seq(Nat) /\ Len(m) = IF i >= Len(l) THEN i + 1 ELSE Len(l)
      /\ \A k \in 1 .. Len(m) : m[k] = IF k = i + 1 THEN v ELSE IF k <= Len(l) THEN l[k] ELSE 0
  BY DEF Overwritten
<1>6. Len(m) = e.max + 1 /\ Len(m) <= Len(e.mem)
  <2>1. CASE i > r.max
    <3>1. i >= Len(l)
      BY <1>1, <2>1
    <3> QED
      BY <1>2, <1>4, <1>5, <2>1, <3>1
  <2>2. CASE ~(i > r.max)
    <3>1. ~(i >= Len(l))
      BY <1>1, <2>2
    <3> QED
      BY <1>1, <1>2, <1>4, <1>5, <2>2, <3>1
  <2> QED
    BY <2>1, <2>2
<1>7. ASSUME NEW k \in 1 .. Len(m) PROVE e.mem[k] = m[k]
  <2>1. k \in 1 .. Len(g.mem)
    BY <1>2, <1>4, <1>5, <1>6, <1>7
  <2>2. CASE k = i + 1
    BY <1>4, <1>5, <1>7, <2>1, <2>2
  <2>3. CASE k # i + 1 /\ k <= Len(l)
    <3>1. k \in 1 .. Len(l)
      BY <1>1, <2>1, <2>3
    <3> QED
      BY <1>1, <1>4, <1>5, <1>7, <2>1, <2>3, <3>1
  <2>4. CASE k # i + 1 /\ ~(k <= Len(l))
    <3>1. k \in 1 .. i /\ k > Len(l)
      <4>1. Len(l) \in Nat /\ Len(m) = IF i >= Len(l) THEN i + 1 ELSE Len(l)
        BY <1>1, <1>5
      <4>2. k \in 1 .. Len(m) /\ k # i + 1 /\ ~(k <= Len(l)) /\ i \in Nat
        BY <1>7, <2>4
      <4> QED
        BY <4>1, <4>2, BehindNumbers, Zenon
    <3>2. g.mem[k] = 0
      BY <3>1
    <3> QED
      BY <1>4, <1>5, <1>7, <2>1, <2>4, <3>2
  <2> QED
    BY <2>2, <2>3, <2>4
<1>8. \A k \in 1 .. Len(m) : e.mem[k] = m[k]
  BY <1>7
<1>9. Holds(e, m)
  BY <1>4, <1>5, <1>6, <1>8 DEF Holds
<1> QED
  BY <1>9 DEF e

LEMMA WriteFlat ==
  ASSUME Plain, FlatTyped, FlatSound, NEW x \in Arrays, NEW i \in 0 .. MaxMax, NEW v \in Values, Flat!Write(x, i, v)
  PROVE  FlatStep
<1> DEFINE r == arr[x]
           l == list[x]
           s == Flat!setsize(r, i)
           g == IF i > r.max THEN [s EXCEPT !.max = i] ELSE r
           e == Flat!store(g, i, v)
           m == [k \in 1 .. (IF i >= Len(l) THEN i + 1 ELSE Len(l)) |->
                   IF k = i + 1 THEN v ELSE IF k <= Len(l) THEN l[k] ELSE 0]
           dirty == \E k \in r.max + 1 .. i - 1 : k < Len(r.mem) /\ r.mem[k + 1] # 0
<1>0. i \in Nat /\ v \in Nat
  BY DEF Plain
<1>1. FlatFine(r, l) /\ Flat!max(x) = r.max /\ r \in Recs /\ l \in Seq(Nat)
  BY FlatAt, FineIs
<1>2. Flat!Set(x, e, m)
  <2>1. Flat!Reach(x, i) = g
    BY <1>1 DEF Flat!Reach
  <2> QED
    BY <2>1 DEF Flat!Write
<1>3. dirty => Flat!Breaks
  <2>1. Flat!num_elem(arr[x]) = Len(r.mem)
    BY <1>1, RecIs
  <2>2. ASSUME dirty PROVE \E k \in Flat!max(x) + 1 .. i - 1 : k < Flat!num_elem(arr[x]) /\ arr[x].mem[k + 1] # 0
    BY <1>1, <2>1, <2>2
  <2> HIDE DEF dirty, r, l, e, m
  <2> QED
    BY <2>2 DEF Flat!Breaks
<1> HIDE DEF r, l
<1>4. Overwritten(m, l, i, v)
  BY <1>0, <1>1, OverwrittenIn
<1> HIDE DEF m
<1>5. /\ r.max \in Int /\ r.max >= -1 /\ Len(l) = r.max + 1 /\ Len(r.mem) \in Nat /\ r.max < Len(r.mem) /\ Len(l) \in Nat
  BY <1>1 DEF FlatFine
<1>6. FlatRoom(s, r, i)
  BY <1>0, <1>1, FlatSetsize
<1>7. /\ s \in Recs /\ s.max = r.max /\ Len(s.mem) > i /\ Len(s.mem) >= Len(r.mem)
      /\ \A k \in 1 .. Len(s.mem) : s.mem[k] = IF k <= Len(r.mem) THEN r.mem[k] ELSE 0
  BY <1>6 DEF FlatRoom
<1> HIDE DEF s
<1>8. s.mem \in Seq(Nat) /\ s = [mem |-> s.mem, max |-> s.max] /\ Len(s.mem) \in Nat
  BY <1>7, RecIs
<1>9. i > r.max => g = [mem |-> s.mem, max |-> i]
  BY <1>8
<1>10. g \in Recs /\ (i > r.max => g.mem = s.mem /\ g.max = i) /\ (~(i > r.max) => g = r)
  <2>1. i \in Int /\ i >= -1
    BY <1>0
  <2>2. [mem |-> s.mem, max |-> i] \in Recs /\ [mem |-> s.mem, max |-> i].mem = s.mem /\ [mem |-> s.mem, max |-> i].max = i
    BY <1>8, <2>1, RecMade
  <2>3. ~(i > r.max) => g = r
    OBVIOUS
  <2> HIDE DEF g
  <2> QED
    BY <1>1, <1>9, <2>2, <2>3
<1> HIDE DEF g
<1>11. CASE dirty
  <2>1. e \in Recs
    <3>1. i \in Int
      BY <1>0
    <3> QED
      BY <1>0, <1>10, <3>1, FlatStoreIn
  <2>2. m \in Seq(Nat)
    BY <1>4 DEF Overwritten
  <2> HIDE DEF dirty, e
  <2> QED
    BY <1>2, <1>3, <1>11, <2>1, <2>2, BreakStep
<1>12. CASE ~dirty
  <2>1. CASE i > r.max
    <3>1. g.mem = s.mem /\ g.max = i
      BY <1>10, <2>1
    <3>2. \A k \in 1 .. Len(l) : g.mem[k] = r.mem[k]
      <4>1. \A k \in 1 .. Len(l) : k \in 1 .. Len(s.mem) /\ k <= Len(r.mem)
        BY <1>5, <1>7, <1>8
      <4> QED
        BY <1>7, <3>1, <4>1
    <3>3. ASSUME NEW k \in 1 .. i, k > Len(l) PROVE g.mem[k] = 0
      <4>1. k \in 1 .. Len(s.mem) /\ k - 1 \in r.max + 1 .. i - 1 /\ (k - 1) + 1 = k
        <5>1. k \in Int /\ k >= 1 /\ k <= i /\ k > r.max + 1
          BY <1>0, <1>5, <3>3
        <5>2. k \in 1 .. Len(s.mem)
          BY <1>0, <1>7, <1>8, <5>1
        <5>3. k - 1 \in r.max + 1 .. i - 1 /\ (k - 1) + 1 = k
          BY <1>0, <1>5, <5>1
        <5> QED
          BY <5>2, <5>3
      <4>2. k <= Len(r.mem) => k - 1 < Len(r.mem)
        BY <1>5, <4>1
      <4>3. k <= Len(r.mem) => r.mem[k] = 0
        BY <1>12, <4>1, <4>2
      <4> QED
        BY <1>7, <3>1, <4>1, <4>3
    <3>4. g.max >= r.max /\ Len(g.mem) > i /\ Len(g.mem) >= Len(r.mem) /\ (IF i > r.max THEN g.max = i ELSE g.max = r.max)
      BY <1>0, <1>5, <1>7, <2>1, <3>1
    <3>5. \A k \in 1 .. i : k > Len(l) => g.mem[k] = 0
      BY <3>3
    <3>6. g \in Recs /\ g.max >= r.max /\ Len(g.mem) > i
      BY <1>10, <3>4
    <3>7. Holds(e, m)
      BY <1>0, <1>1, <1>4, <3>2, <3>4, <3>5, <3>6, WriteHolds
    <3> HIDE DEF e
    <3> QED
      BY <1>2, <3>7, SetKeeps, KeptIsStep
  <2>2. CASE ~(i > r.max)
    <3>1. g = r
      BY <1>10, <2>2
    <3>2. \A k \in 1 .. Len(l) : g.mem[k] = r.mem[k]
      BY <3>1
    <3>3. \A k \in 1 .. i : ~(k > Len(l))
      BY <1>0, <1>5, <2>2
    <3>4. g \in Recs /\ g.max >= r.max /\ Len(g.mem) > i
      BY <1>0, <1>1, <1>5, <2>2, <3>1
    <3>5. (IF i > r.max THEN g.max = i ELSE g.max = r.max) /\ Len(g.mem) >= Len(r.mem)
      BY <1>5, <2>2, <3>1
    <3>6. \A k \in 1 .. i : k > Len(l) => g.mem[k] = 0
      BY <3>3
    <3>7. Holds(e, m)
      BY <1>0, <1>1, <1>4, <3>2, <3>4, <3>5, <3>6, WriteHolds
    <3> HIDE DEF e
    <3> QED
      BY <1>2, <3>7, SetKeeps, KeptIsStep
  <2> QED
    BY <2>1, <2>2
<1> QED
  BY <1>11, <1>12

-----------------------------------------------------------------------------
(* A list inserted                                                           *)

\* k values at i are k - 1 of them and one behind those.
TwiceIs(l, i, w, k) ==
  Flat!InsertedAt(Flat!InsertedAt(l, i, SubSeq(w, 1, k - 1)), i + k - 1, <<w[k]>>) = Flat!InsertedAt(l, i, SubSeq(w, 1, k))

LEMMA SplicedTwice ==
  ASSUME NEW l \in Seq(Nat), NEW i \in Nat, i <= Len(l), NEW w \in Seq(Nat), NEW k \in 1 .. Len(w)
  PROVE  TwiceIs(l, i, w, k)
<1> DEFINE a == SubSeq(w, 1, k - 1)
           c == SubSeq(w, 1, k)
           v == w[k]
           p == i + k - 1
           A == Flat!InsertedAt(l, i, a)
           B == Flat!InsertedAt(A, p, <<v>>)
           C == Flat!InsertedAt(l, i, c)
<1>0. Len(l) \in Nat /\ Len(w) \in Nat /\ v \in Nat
  BY LenProperties, ElementOfSeq
<1>1. a \in Seq(Nat) /\ Len(a) = k - 1 /\ \A j \in 1 .. k - 1 : a[j] = w[j]
  <2>1. k - 1 \in 0 .. Len(w)
    BY <1>0
  <2> QED
    BY <2>1, FirstPart
<1>2. c \in Seq(Nat) /\ Len(c) = k /\ \A j \in 1 .. k : c[j] = w[j]
  <2>1. k \in 0 .. Len(w)
    BY <1>0
  <2> QED
    BY <2>1, FirstPart
<1> HIDE DEF a, c, v
<1>3. Spliced(A, l, i, a) /\ Spliced(C, l, i, c)
  BY <1>1, <1>2, InsertedAtIs
<1> HIDE DEF A, C
<1>4. /\ A \in Seq(Nat) /\ Len(A) = Len(l) + (k - 1)
      /\ \A q \in 1 .. Len(A) : A[q] = IF q <= i THEN l[q] ELSE IF q <= i + (k - 1) THEN a[q - i] ELSE l[q - (k - 1)]
  BY <1>1, <1>3 DEF Spliced
<1>5. /\ C \in Seq(Nat) /\ Len(C) = Len(l) + k
      /\ \A q \in 1 .. Len(C) : C[q] = IF q <= i THEN l[q] ELSE IF q <= i + k THEN c[q - i] ELSE l[q - k]
  BY <1>2, <1>3 DEF Spliced
<1>6. p \in Nat /\ p <= Len(A) /\ p = i + (k - 1) /\ p + 1 = i + k
  BY <1>0, <1>4
<1> HIDE DEF p
<1>7. SplicedOne(B, A, p, v)
  BY <1>0, <1>4, <1>6, InsertedOne
<1> HIDE DEF B
<1>8. /\ B \in Seq(Nat) /\ Len(B) = Len(A) + 1
      /\ \A q \in 1 .. Len(B) : B[q] = IF q <= p THEN A[q] ELSE IF q = p + 1 THEN v ELSE A[q - 1]
  BY <1>7 DEF SplicedOne
<1>9. Len(B) = Len(C) /\ Len(B) = Len(l) + k /\ Len(A) = Len(l) + k - 1
  BY <1>0, <1>4, <1>5, <1>8
<1>10. ASSUME NEW q \in 1 .. Len(B) PROVE B[q] = C[q]
  <2>0. q \in Int /\ 1 <= q /\ q <= Len(l) + k /\ q \in 1 .. Len(C)
    BY <1>0, <1>9, <1>10
  <2>1. CASE q <= i
    <3>1. q <= p /\ q \in 1 .. Len(A)
      BY <1>0, <1>6, <1>9, <2>0, <2>1
    <3>2. B[q] = A[q] /\ A[q] = l[q]
      BY <1>4, <1>8, <1>10, <2>1, <3>1
    <3>3. C[q] = l[q]
      BY <1>5, <2>0, <2>1
    <3> QED
      BY <3>2, <3>3
  <2>2. CASE ~(q <= i) /\ q <= p
    <3>1. q \in 1 .. Len(A) /\ q <= i + (k - 1) /\ q <= i + k /\ q - i \in 1 .. k - 1 /\ q - i \in 1 .. k
      BY <1>0, <1>6, <1>9, <2>0, <2>2
    <3>2. B[q] = A[q] /\ A[q] = a[q - i]
      BY <1>4, <1>8, <1>10, <2>2, <3>1
    <3>3. C[q] = c[q - i]
      BY <1>5, <2>0, <2>2, <3>1
    <3> QED
      BY <1>1, <1>2, <3>1, <3>2, <3>3
  <2>3. CASE q = p + 1
    <3>1. ~(q <= p) /\ ~(q <= i) /\ q <= i + k /\ q - i = k /\ k \in 1 .. k
      BY <1>0, <1>6, <2>0, <2>3
    <3>2. B[q] = v
      BY <1>8, <1>10, <2>3, <3>1
    <3>3. C[q] = c[k]
      BY <1>5, <2>0, <3>1
    <3> QED
      BY <1>2, <3>1, <3>2, <3>3 DEF v
  <2>4. CASE ~(q <= p) /\ q # p + 1
    <3>1. /\ q - 1 \in 1 .. Len(A) /\ ~(q - 1 <= i) /\ ~(q - 1 <= i + (k - 1)) /\ (q - 1) - (k - 1) = q - k
          /\ ~(q <= i) /\ ~(q <= i + k)
      <4>1. q >= i + k + 1
        BY <1>6, <2>0, <2>4
      <4>2. q - 1 \in 1 .. Len(A)
        BY <1>0, <1>9, <2>0, <4>1
      <4> QED
        BY <2>0, <4>1, <4>2
    <3>2. B[q] = A[q - 1] /\ A[q - 1] = l[(q - 1) - (k - 1)]
      BY <1>4, <1>8, <1>10, <2>4, <3>1
    <3>3. C[q] = l[q - k]
      BY <1>5, <2>0, <3>1
    <3> QED
      BY <3>1, <3>2, <3>3
  <2> QED
    BY <2>1, <2>2, <2>3, <2>4
<1>11. B = C
  <2>1. \A q \in 1 .. Len(B) : B[q] = C[q]
    BY <1>10
  <2> QED
    BY <1>5, <1>8, <1>9, <2>1, SeqEqual
<1> QED
  BY <1>11 DEF TwiceIs, A, B, C, a, c, p, v

LEMMA SplicedNone ==
  ASSUME NEW l \in Seq(Nat), NEW i \in Nat, i <= Len(l), NEW w \in Seq(Nat)
  PROVE  Flat!InsertedAt(l, i, SubSeq(w, 1, 0)) = l
<1> DEFINE a == SubSeq(w, 1, 0)
           A == Flat!InsertedAt(l, i, a)
<1>0. Len(l) \in Nat /\ Len(w) \in Nat
  BY LenProperties
<1>1. a \in Seq(Nat) /\ Len(a) = 0
  <2>1. 0 \in 0 .. Len(w)
    BY <1>0
  <2> QED
    BY <2>1, FirstPart
<1> HIDE DEF a
<1>2. Spliced(A, l, i, a)
  BY <1>1, InsertedAtIs
<1> HIDE DEF A
<1>3. /\ A \in Seq(Nat) /\ Len(A) = Len(l)
      /\ \A q \in 1 .. Len(A) : A[q] = IF q <= i THEN l[q] ELSE IF q <= i + 0 THEN a[q - i] ELSE l[q - 0]
  BY <1>0, <1>1, <1>2 DEF Spliced
<1>4. \A q \in 1 .. Len(A) : (q <= i + 0 <=> q <= i) /\ q - 0 = q
  BY <1>0, <1>3
<1>5. \A q \in 1 .. Len(A) : A[q] = l[q]
  BY <1>3, <1>4
<1>6. A = l
  BY <1>3, <1>5, SeqEqual
<1> QED
  BY <1>6 DEF A, a

Placed(f, r, i, w) ==
  f = [k \in 0 .. Len(w) |->
         IF k = 0 THEN r
         ELSE IF f[k - 1] = Flat!Broken THEN Flat!Broken ELSE Flat!InsertedValue(f[k - 1], i + k - 1, w[k])]

LEMMA PlacedExists ==
  ASSUME NEW r \in Recs, NEW i \in Nat, NEW w \in Seq(Nat)
  PROVE  \E f : f \in [0 .. Len(w) -> Recs] /\ Placed(f, r, i, w)
<1> DEFINE n == Len(w)
           turn(k, q) == IF q = Flat!Broken THEN Flat!Broken ELSE Flat!InsertedValue(q, i + k - 1, w[k])
           step == [k \in 1 .. n |-> [q \in Recs |-> turn(k, q)]]
<1>1. n \in Nat /\ \A k \in 1 .. n : w[k] \in Nat
  BY LenProperties, ElementOfSeq
<1> HIDE DEF n
<1>2. ASSUME NEW k \in 1 .. n, NEW q \in Recs PROVE turn(k, q) \in Recs
  <2>1. i + k - 1 \in Nat /\ w[k] \in Nat
    BY <1>1, <1>2
  <2> DEFINE j == i + k - 1
  <2> HIDE DEF j
  <2>2. Flat!InsertedValue(q, j, w[k]) \in Recs
    BY <2>1, InsertedValueIn DEF j
  <2> QED
    BY <2>2, BrokenIs DEF j
<1> HIDE DEF turn
<1>3. step \in [1 .. n -> [Recs -> Recs]] /\ \A k \in 1 .. n : \A q \in Recs : step[k][q] = turn(k, q)
  BY <1>2
<1> HIDE DEF step
<1>4. PICK f : Turns(f, n, r, step)
  BY <1>1, <1>3, TurnsExist
<1>5. f \in [0 .. n -> Recs] /\ f[0] = r /\ \A k \in 1 .. n : f[k] = step[k][f[k - 1]]
  BY <1>4 DEF Turns
<1>6. ASSUME NEW k \in 0 .. n PROVE f[k] = IF k = 0 THEN r ELSE turn(k, f[k - 1])
  <2>1. CASE k = 0
    BY <1>5, <2>1
  <2>2. CASE k # 0
    <3>1. k \in 1 .. n /\ k - 1 \in 0 .. n
      BY <1>1, <1>6, <2>2
    <3>2. f[k - 1] \in Recs
      BY <1>5, <3>1
    <3> QED
      BY <1>3, <1>5, <2>2, <3>1, <3>2
  <2> QED
    BY <2>1, <2>2
<1>7. f = [k \in 0 .. n |-> IF k = 0 THEN r ELSE turn(k, f[k - 1])]
  <2>1. f = [k \in 0 .. n |-> f[k]]
    BY <1>5
  <2> QED
    BY <1>6, <2>1
<1>8. Placed(f, r, i, w)
  BY <1>7 DEF Placed, turn, n
<1> QED
  BY <1>5, <1>8 DEF n

LEMMA InsertedAllIn ==
  ASSUME NEW r \in Recs, NEW i \in Nat, NEW w \in Seq(Nat)
  PROVE  /\ Flat!InsertedAll(r, i, w) \in Recs
         /\ \E f : Placed(f, r, i, w) /\ Flat!InsertedAll(r, i, w) = f[Len(w)]
<1> DEFINE f == CHOOSE f : Placed(f, r, i, w)
<1>1. Flat!InsertedAll(r, i, w) = f[Len(w)]
  BY DEF Flat!InsertedAll, Placed
<1>2. PICK g : g \in [0 .. Len(w) -> Recs] /\ Placed(g, r, i, w)
  BY PlacedExists
<1>3. Placed(f, r, i, w)
  BY <1>2
<1> HIDE DEF f
<1>4. Len(w) \in Nat
  BY LenProperties
<1> DEFINE T == {k \in Nat : k <= Len(w) => f[k] = g[k]}
           turn(k, q) == IF q = Flat!Broken THEN Flat!Broken ELSE Flat!InsertedValue(q, i + k - 1, w[k])
<1>5. \A k \in 0 .. Len(w) : f[k] = IF k = 0 THEN r ELSE turn(k, f[k - 1])
  BY <1>3 DEF Placed
<1>6. \A k \in 0 .. Len(w) : g[k] = IF k = 0 THEN r ELSE turn(k, g[k - 1])
  BY <1>2 DEF Placed
<1> HIDE DEF turn
<1>7. 0 \in T
  BY <1>4, <1>5, <1>6
<1>8. ASSUME NEW k \in Nat, k \in T PROVE k + 1 \in T
  <2> SUFFICES ASSUME k + 1 <= Len(w) PROVE f[k + 1] = g[k + 1]
    OBVIOUS
  <2>1. k + 1 \in 0 .. Len(w) /\ k + 1 # 0 /\ (k + 1) - 1 = k /\ k <= Len(w)
    BY <1>4
  <2>2. f[k] = g[k]
    BY <1>8, <2>1
  <2> QED
    BY <1>5, <1>6, <2>1, <2>2
<1> HIDE DEF T
<1>9. Len(w) \in T
  BY <1>4, <1>7, <1>8, NatSet
<1>10. f[Len(w)] = g[Len(w)] /\ Len(w) \in 0 .. Len(w)
  BY <1>4, <1>9 DEF T
<1>11. f[Len(w)] \in Recs
  BY <1>2, <1>10
<1> QED
  BY <1>1, <1>3, <1>11

LEMMA InsertedAllHolds ==
  ASSUME NEW r, NEW l, Holds(r, l), NEW i \in Nat, i <= r.max, NEW w \in Seq(Nat)
  PROVE  Holds(Flat!InsertedAll(r, i, w), Flat!InsertedAt(l, i, w))
<1> DEFINE n == Len(w)
<1>0. r \in Recs /\ l \in Seq(Nat) /\ r.max \in Int /\ Len(l) = r.max + 1 /\ Len(l) \in Nat
  BY FineIs DEF FlatFine
<1>1. i <= Len(l)
  BY <1>0
<1>2. PICK f : Placed(f, r, i, w) /\ Flat!InsertedAll(r, i, w) = f[n]
  BY <1>0, InsertedAllIn
<1>3. n \in Nat /\ \A k \in 1 .. n : w[k] \in Nat
  BY LenProperties, ElementOfSeq
<1>4. f[0] = r /\ \A k \in 1 .. n : f[k - 1] # Flat!Broken => f[k] = Flat!InsertedValue(f[k - 1], i + k - 1, w[k])
  <2> DEFINE E(k) == IF k = 0 THEN r
                     ELSE IF f[k - 1] = Flat!Broken THEN Flat!Broken ELSE Flat!InsertedValue(f[k - 1], i + k - 1, w[k])
  <2>1. f = [k \in 0 .. n |-> E(k)]
    BY <1>2 DEF Placed
  <2>2. E(0) = r /\ \A k \in 1 .. n : f[k - 1] # Flat!Broken => E(k) = Flat!InsertedValue(f[k - 1], i + k - 1, w[k])
    <3> HIDE DEF n
    <3> QED
      BY <1>3
  <2> HIDE DEF E
  <2>3. \A k \in 0 .. n : f[k] = E(k)
    BY <2>1, Zenon
  <2>4. 0 \in 0 .. n /\ \A k \in 1 .. n : k \in 0 .. n
    BY <1>3
  <2> HIDE DEF n
  <2> QED
    BY <2>2, <2>3, <2>4, Zenon
<1> DEFINE L(k) == Flat!InsertedAt(l, i, SubSeq(w, 1, k))
           T == {k \in Nat : k <= n => Holds(f[k], L(k))}
<1>5. 0 \in T
  BY <1>0, <1>1, <1>4, SplicedNone
<1>6. ASSUME NEW k \in Nat, k \in T PROVE k + 1 \in T
  <2> SUFFICES ASSUME k + 1 <= n PROVE Holds(f[k + 1], L(k + 1))
    OBVIOUS
  <2>1. k + 1 \in 1 .. n /\ (k + 1) - 1 = k /\ i + (k + 1) - 1 = i + k /\ k \in 0 .. n
    BY <1>3
  <2>2. Holds(f[k], L(k))
    BY <1>3, <1>6
  <2>3. Len(L(k)) = Len(l) + k
    <3> DEFINE a == SubSeq(w, 1, k)
    <3>1. a \in Seq(Nat) /\ Len(a) = k
      BY <2>1, FirstPart
    <3> HIDE DEF a
    <3>2. Spliced(Flat!InsertedAt(l, i, a), l, i, a)
      BY <1>0, <1>1, <3>1, InsertedAtIs
    <3> QED
      BY <3>1, <3>2 DEF Spliced, a
  <2>4. TwiceIs(l, i, w, k + 1)
    BY <1>0, <1>1, <2>1, SplicedTwice
  <2>5. Flat!InsertedAt(L(k), i + k, <<w[k + 1]>>) = L(k + 1)
    BY <2>1, <2>4 DEF TwiceIs
  <2> HIDE DEF L
  <2>6. FlatFine(f[k], L(k))
    BY <2>2, FineIs
  <2>7. f[k] \in Recs /\ f[k].max \in Int /\ Len(L(k)) = f[k].max + 1 /\ f[k].max < Len(f[k].mem)
    BY <2>6 DEF FlatFine
  <2>8. f[k] # Flat!Broken
    BY <2>7, BrokenIs
  <2>9. f[k + 1] = Flat!InsertedValue(f[k], i + k, w[k + 1]) /\ w[k + 1] \in Nat
    BY <1>3, <1>4, <2>1, <2>8
  <2>10. i + k \in Nat /\ i + k <= f[k].max
    <3> DEFINE c == f[k].max
               d == Len(L(k))
               e == Len(l)
               h == r.max
    <3>1. c \in Int /\ d = c + 1 /\ d = e + k /\ e = h + 1 /\ h \in Int /\ i <= h /\ k \in Nat
      BY <1>0, <1>6, <2>3, <2>7
    <3> HIDE DEF c, d, e, h
    <3>2. i + k \in Nat /\ i + k <= c
      BY <3>1
    <3> QED
      BY <3>2 DEF c
  <2>11. Holds(Flat!InsertedValue(f[k], i + k, w[k + 1]), Flat!InsertedAt(L(k), i + k, <<w[k + 1]>>))
    BY <2>2, <2>9, <2>10, InsertedValueHolds
  <2> QED
    BY <2>5, <2>9, <2>11
<1> HIDE DEF T, L
<1>7. n \in T
  BY <1>3, <1>5, <1>6, NatSet
<1>8. Holds(f[n], L(n))
  BY <1>3, <1>7 DEF T
<1>9. SubSeq(w, 1, n) = w
  BY SubSeqFull
<1> QED
  BY <1>2, <1>8, <1>9 DEF L

LEMMA PairIn == ASSUME NEW a \in Nat, NEW b \in Nat PROVE <<a, b>> \in Seq(Nat)
OBVIOUS

LEMMA InsertListFlat ==
  ASSUME Plain, FlatTyped, FlatSound, NEW x \in Arrays, NEW i \in 0 .. MaxMax, NEW v \in Values,
         Flat!InsertList(x, i, <<v, 0>>)
  PROVE  FlatStep
<1> DEFINE r == arr[x]
           l == list[x]
           w == <<v, 0>>
           g == Flat!InsertedAll(r, i, w)
           m == Flat!InsertedAt(l, i, w)
<1>0. i \in Nat /\ w \in Seq(Nat)
  BY PairIn DEF Plain
<1>1. Holds(r, l) /\ Flat!max(x) = r.max /\ r \in Recs /\ l \in Seq(Nat) /\ r.max \in Int /\ Len(l) = r.max + 1
  BY FlatAt
<1>2. i <= r.max + 1 /\ Flat!Set(x, g, m)
  BY <1>1 DEF Flat!InsertList
<1>3. ~(i <= r.max) => Flat!Breaks
  <2>1. ASSUME ~(i <= r.max) PROVE Flat!InsertList(x, Flat!max(x) + 1, <<v, 0>>)
    <3>1. i = Flat!max(x) + 1
      BY <1>0, <1>1, <1>2, <2>1
    <3> QED
      BY <3>1
  <2> QED
    BY <2>1 DEF Flat!Breaks
<1> HIDE DEF r, l, w
<1>4. CASE i <= r.max
  <2>1. Holds(g, m)
    BY <1>0, <1>1, <1>4, InsertedAllHolds
  <2> HIDE DEF g, m
  <2> QED
    BY <1>2, <2>1, SetKeeps, KeptIsStep
<1>5. CASE ~(i <= r.max)
  <2>1. g \in Recs
    BY <1>0, <1>1, InsertedAllIn
  <2>2. m \in Seq(Nat)
    BY <1>0, <1>1, <1>2, InsertedIn
  <2> HIDE DEF g, m
  <2> QED
    BY <1>2, <1>3, <1>5, <2>1, <2>2, BreakStep
<1> QED
  BY <1>4, <1>5

-----------------------------------------------------------------------------
(* Every step                                                                *)

LEMMA FlatChange == ASSUME Plain, FlatTyped, FlatSound, Flat!Change PROVE FlatStep
<1>0. MaxMax \in Nat /\ Values \subseteq Nat
  BY DEF Plain
<1>1. PICK x \in Arrays :
        \/ Flat!clear(x) \/ Flat!pop_front(x) \/ Flat!pop_back(x)
        \/ \E i \in 0 .. MaxMax : \/ Flat!erase(x, i) \/ Flat!InsertZero(x, i)
                                  \/ \E j \in 0 .. MaxMax + 1 : Flat!EraseRange(x, i, j)
                                  \/ \E k \in 0 .. MaxMax : Flat!InsertOwn(x, i, k)
        \/ \E v \in Values :
             \/ Flat!push_back(x, v) \/ Flat!push_front(x, v)
             \/ \E i \in 0 .. MaxMax : \/ Flat!InsertValue(x, i, v) \/ Flat!InsertCount(x, i, 2, v)
                                       \/ Flat!InsertList(x, i, <<v, 0>>) \/ Flat!Write(x, i, v)
        \/ \E v, w \in Values : Flat!AssignList(x, <<v, w>>)
        \/ \E y \in Arrays : \/ Flat!Copy(x, y) \/ Flat!MoveConstruct(x, y) \/ Flat!Swap(x, y)
                             \/ Flat!AppendArray(x, y)
  BY DEF Flat!Change
<1>2. CASE Flat!clear(x) \/ Flat!pop_front(x) \/ Flat!pop_back(x)
  BY <1>2, clearFlat, pop_frontFlat, pop_backFlat, KeptIsStep
<1>3. CASE \E i \in 0 .. MaxMax : \/ Flat!erase(x, i) \/ Flat!InsertZero(x, i)
                                  \/ \E j \in 0 .. MaxMax + 1 : Flat!EraseRange(x, i, j)
                                  \/ \E k \in 0 .. MaxMax : Flat!InsertOwn(x, i, k)
  <2>1. PICK i \in 0 .. MaxMax : \/ Flat!erase(x, i) \/ Flat!InsertZero(x, i)
                                 \/ \E j \in 0 .. MaxMax + 1 : Flat!EraseRange(x, i, j)
                                 \/ \E k \in 0 .. MaxMax : Flat!InsertOwn(x, i, k)
    BY <1>3
  <2>2. i \in Nat
    BY <2>1
  <2>3. CASE Flat!erase(x, i)
    BY <2>2, <2>3, eraseFlat, KeptIsStep
  <2>4. CASE Flat!InsertZero(x, i)
    BY <2>2, <2>4, InsertZeroFlat
  <2>5. CASE \E j \in 0 .. MaxMax + 1 : Flat!EraseRange(x, i, j)
    BY <2>1, <2>5, EraseRangeFlat
  <2>6. CASE \E k \in 0 .. MaxMax : Flat!InsertOwn(x, i, k)
    BY <2>1, <2>6, InsertOwnFlat
  <2> QED
    BY <2>1, <2>3, <2>4, <2>5, <2>6
<1>4. CASE \E v \in Values :
             \/ Flat!push_back(x, v) \/ Flat!push_front(x, v)
             \/ \E i \in 0 .. MaxMax : \/ Flat!InsertValue(x, i, v) \/ Flat!InsertCount(x, i, 2, v)
                                       \/ Flat!InsertList(x, i, <<v, 0>>) \/ Flat!Write(x, i, v)
  <2>1. PICK v \in Values :
             \/ Flat!push_back(x, v) \/ Flat!push_front(x, v)
             \/ \E i \in 0 .. MaxMax : \/ Flat!InsertValue(x, i, v) \/ Flat!InsertCount(x, i, 2, v)
                                       \/ Flat!InsertList(x, i, <<v, 0>>) \/ Flat!Write(x, i, v)
    BY <1>4
  <2>2. v \in Nat
    BY <1>0, <2>1
  <2>3. CASE Flat!push_back(x, v)
    BY <2>2, <2>3, push_backFlat, KeptIsStep
  <2>4. CASE Flat!push_front(x, v)
    <3>1. CASE v = 0
      BY <2>4, <3>1, push_frontFlat, KeptIsStep
    <3>2. CASE v # 0
      BY <2>1, <2>4, <3>2, push_frontOther
    <3> QED
      BY <3>1, <3>2
  <2>5. ASSUME NEW i \in 0 .. MaxMax,
               Flat!InsertValue(x, i, v) \/ Flat!InsertCount(x, i, 2, v) \/ Flat!InsertList(x, i, <<v, 0>>) \/ Flat!Write(x, i, v)
        PROVE  FlatStep
    <3>1. CASE Flat!InsertValue(x, i, v)
      BY <2>1, <2>5, <3>1, InsertValueFlat
    <3>2. CASE Flat!InsertCount(x, i, 2, v)
      BY <2>1, <2>5, <3>2, InsertCountFlat
    <3>3. CASE Flat!InsertList(x, i, <<v, 0>>)
      BY <2>1, <2>5, <3>3, InsertListFlat
    <3>4. CASE Flat!Write(x, i, v)
      BY <2>1, <2>5, <3>4, WriteFlat
    <3> QED
      BY <2>5, <3>1, <3>2, <3>3, <3>4
  <2> QED
    BY <2>1, <2>3, <2>4, <2>5
<1>5. CASE \E v, w \in Values : Flat!AssignList(x, <<v, w>>)
  <2>1. PICK v \in Values, w \in Values : Flat!AssignList(x, <<v, w>>)
    BY <1>5
  <2>2. <<v, w>> \in Seq(Nat)
    BY <1>0, <2>1, PairIn
  <2> QED
    BY <2>1, <2>2, AssignListFlat, KeptIsStep
<1>6. CASE \E y \in Arrays : \/ Flat!Copy(x, y) \/ Flat!MoveConstruct(x, y) \/ Flat!Swap(x, y)
                             \/ Flat!AppendArray(x, y)
  BY <1>6, CopyFlat, MoveConstructFlat, SwapFlat, AppendArrayFlat
<1> QED
  BY <1>1, <1>2, <1>3, <1>4, <1>5, <1>6

LEMMA FlatSoundNext == FlatTyped' => (Flat!AllSound' <=> FlatSound')
<1> SUFFICES ASSUME FlatTyped', NEW x \in Arrays PROVE Flat!Sound(x)' <=> Holds(arr'[x], list'[x])
  BY DEF Flat!AllSound, FlatSound
<1>1. arr'[x] \in Recs /\ list'[x] \in Seq(Nat)
  BY DEF FlatTyped
<1>2. Holds(arr'[x], list'[x]) <=> arr'[x].max < Len(arr'[x].mem) /\ SubSeq(arr'[x].mem, 1, arr'[x].max + 1) = list'[x]
  BY <1>1, HoldsIs
<1> QED
  BY <1>2 DEF Flat!Sound, Flat!Content, Flat!num_elem

LEMMA FlatInit == Flat!Init => FlatTyped
<1>1. Flat!Nothing \in Recs /\ <<>> \in Seq(Nat)
  BY NothingFlat DEF Holds
<1> QED
  BY <1>1 DEF Flat!Init, FlatTyped

FlatAction == Flat!AllSound => Flat!AllSound' \/ Flat!Breaks

LEMMA FlatNext == Plain /\ FlatTyped /\ [Flat!Next]_(Flat!vars) => FlatTyped' /\ [FlatAction]_(Flat!vars)
<1> SUFFICES ASSUME Plain, FlatTyped, [Flat!Next]_(Flat!vars) PROVE FlatTyped' /\ [FlatAction]_(Flat!vars)
  OBVIOUS
<1>1. CASE UNCHANGED Flat!vars
  BY <1>1 DEF Flat!vars, FlatTyped
<1>2. CASE Flat!Unsound
  BY <1>2 DEF Flat!Unsound, Flat!vars, FlatTyped
<1>3. CASE Flat!AllSound /\ Flat!Change
  <2>1. FlatSound
    BY <1>3, FlatSoundIs
  <2>2. FlatTyped' /\ (FlatSound' \/ Flat!Breaks)
    BY <1>3, <2>1, FlatChange DEF FlatStep
  <2>3. Flat!AllSound' \/ Flat!Breaks
    BY <2>2, FlatSoundNext
  <2> QED
    BY <2>2, <2>3 DEF FlatAction
<1> QED
  BY <1>1, <1>2, <1>3 DEF Flat!Next

\* The block of an SArray holds what a vector would, within its bounds, after
\* every member but those that Breaks names.
THEOREM ListThm == Plain => (Flat!Spec => Flat!ListKept)
<1>1. Plain /\ FlatTyped /\ [Flat!Next]_(Flat!vars) => FlatTyped'
  BY FlatNext
<1>2. Plain /\ FlatTyped /\ [Flat!Next]_(Flat!vars) => [FlatAction]_(Flat!vars)
  BY FlatNext
<1> SUFFICES ASSUME Plain PROVE Flat!Spec => Flat!ListKept
  OBVIOUS
<1>3. FlatTyped /\ [Flat!Next]_(Flat!vars) => FlatTyped'
  BY <1>1
<1>4. FlatTyped /\ [Flat!Next]_(Flat!vars) => [FlatAction]_(Flat!vars)
  BY <1>2
<1>5. Flat!Spec => []FlatTyped
  BY <1>3, FlatInit, PTL DEF Flat!Spec
<1> QED
  BY <1>4, <1>5, PTL DEF Flat!Spec, Flat!ListKept, FlatAction
=============================================================================
