------------------------------- MODULE AArray --------------------------------
(***************************************************************************)
(* bwct::AArray (aarray.h): a hash table of chained elements.               *)
(*                                                                         *)
(* A chain is the sequence of its elements from elems[bucket] along next;   *)
(* an element belongs to the chain it is in, as ~Elem deletes what follows. *)
(* A table can be changed while a range-based for walks over it: the        *)
(* iterator is part of the state.  The caller must not delete the element   *)
(* the iterator stands at.                                                  *)
(*                                                                         *)
(* emplace, insert and erase with an iterator are left out: they use T as   *)
(* if it were the pair, or operators Iterator does not have, and no         *)
(* instance of the template can call them.                                  *)
(***************************************************************************)
EXTENDS Integers, Sequences, FiniteSets, SequencesExt

CONSTANTS
  Tables,    \* the AArray objects
  Keys, Values,
  Default,   \* T()
  NoKey,     \* no key, for the NULL of an iterator and of a lookup
  Absent,
  buckets,   \* the template argument
  Hash,      \* Hash[k]: std::hash of k
  MaxElems   \* bound: the elements in all tables together

ASSUME DefaultAssumption == Default \in Values /\ Absent \notin Values
ASSUME NoKeyAssumption == NoKey \notin Keys
ASSUME HashAssumption == Hash \in [Keys -> Nat]
ASSUME BucketsAssumption == buckets \in Nat \ {0} /\ MaxElems \in Nat

VARIABLES
  elems,    \* elems[t][b]: the chain of bucket b
  e, b,     \* the iterator: its element's key and its bucket
  walk,     \* the table the iterator walks over
  visits    \* ghost: the keys that have been in walk since begin(), and how
            \* often the iterator has come to each, up to 2

tvars == <<elems>>
ivars == <<e, b, walk, visits>>
vars == <<tvars, ivars>>

Buckets == 0 .. buckets - 1
Pairs == [first : Keys, second : Values]

Stayed == DOMAIN visits

TypeOK ==
  /\ elems \in [Tables -> [Buckets -> Seq(Pairs)]]
  /\ e \in Keys \cup {NoKey}
  /\ b \in 0 .. buckets
  /\ walk \in Tables
  /\ visits \in [Stayed -> 0 .. 2] /\ Stayed \subseteq Keys

Pair(k, v) == [first |-> k, second |-> v]

\* getbucket: a mask for the powers of two it lists, 0 for everything else.
mask == IF buckets \in {2 ^ i : i \in 1 .. 16} THEN buckets - 1 ELSE 0
getbucket(h) == h % (mask + 1)

Chain(t, k) == elems[t][getbucket(Hash[k])]

\* Where k is in its chain; none or one position.
At(t, k) == {i \in DOMAIN Chain(t, k) : Chain(t, k)[i].first = k}

\* exists, and whether getexistingptr and at find something.
exists(t, k) == At(t, k) # {}

Count(T) == Cardinality({p \in T \X Keys : exists(p[1], p[2])})
Room == Count(Tables) < MaxElems

First(S) == CHOOSE i \in S : \A j \in S : i <= j

\* at, the const operator[], getexistingptr.
Value(t, k) == IF exists(t, k) THEN Chain(t, k)[First(At(t, k))].second ELSE Absent

NoElems == [c \in Buckets |-> <<>>]

Init ==
  /\ elems = [t \in Tables |-> NoElems]
  /\ e = NoKey
  /\ b = buckets
  /\ walk \in Tables
  /\ visits = <<>>

-----------------------------------------------------------------------------
(* Changing a table                                                         *)

SetChain(t, k, s) == elems' = [elems EXCEPT ![t][getbucket(Hash[k])] = s]

\* No walk over t stands at an element.
Unwalked(t) == t = walk => e = NoKey

\* Keys that leave t no longer count as having stayed.
Leave(t, K) ==
  visits' = IF t = walk THEN [k \in Stayed \ K |-> visits[k]] ELSE visits

\* operator[] on a missing key: at the end of its chain, with T().
Touch(t, k) ==
  /\ ~exists(t, k)
  /\ Room
  /\ SetChain(t, k, Append(Chain(t, k), Pair(k, Default)))
  /\ UNCHANGED ivars

\* operator[] and an assignment to what it returns.
Assign(t, k, v) ==
  /\ IF exists(t, k)
     THEN SetChain(t, k, [Chain(t, k) EXCEPT ![First(At(t, k))] = Pair(k, v)])
     ELSE Room /\ SetChain(t, k, Append(Chain(t, k), Pair(k, v)))
  /\ UNCHANGED ivars

\* Mutant: the chain is not searched.
AddBlind(t, k, v) ==
  /\ SetChain(t, k, Append(Chain(t, k), Pair(k, v)))
  /\ UNCHANGED ivars

\* One turn of the loop over an initializer list, in the constructor and in
\* operator=, which does not clear the table first.
AddListed(t, k, v) ==
  /\ ~exists(t, k)
  /\ Room
  /\ SetChain(t, k, Append(Chain(t, k), Pair(k, v)))
  /\ UNCHANGED ivars

\* Mutants: the element is deleted with its next still set; the last element
\* of the chain takes its place.
EraseRest(t, k) ==
  /\ exists(t, k)
  /\ t = walk => e # k
  /\ SetChain(t, k, SubSeq(Chain(t, k), 1, First(At(t, k)) - 1))
  /\ Leave(t, {k})
  /\ UNCHANGED <<e, b, walk>>

EraseBySwap(t, k) ==
  /\ exists(t, k)
  /\ t = walk => e # k
  /\ LET s == Chain(t, k)
     IN  SetChain(t, k, SubSeq([s EXCEPT ![First(At(t, k))] = s[Len(s)]], 1, Len(s) - 1))
  /\ Leave(t, {k})
  /\ UNCHANGED <<e, b, walk>>

\* erase(key): unlink the element, then delete it alone.
Erase(t, k) ==
  /\ exists(t, k)
  /\ t = walk => e # k
  /\ SetChain(t, k, RemoveAt(Chain(t, k), First(At(t, k))))
  /\ Leave(t, {k})
  /\ UNCHANGED <<e, b, walk>>

\* clear, the destructor, and the assignment of a table to itself.
Clear(t) ==
  /\ Unwalked(t)
  /\ elems' = [elems EXCEPT ![t] = NoElems]
  /\ Leave(t, Keys)
  /\ UNCHANGED <<e, b, walk>>

\* The copy constructor and operator=(const AArray&).
CopyFrom(t, u) ==
  /\ t # u
  /\ Count(Tables \ {t}) + Count({u}) <= MaxElems
  /\ Unwalked(t)
  /\ elems' = [elems EXCEPT ![t] = elems[u]]
  /\ Leave(t, Keys)
  /\ UNCHANGED <<e, b, walk>>

\* The move constructor and operator=(AArray&&).
MoveFrom(t, u) ==
  /\ t # u
  /\ Unwalked(t) /\ Unwalked(u)
  /\ elems' = [elems EXCEPT ![t] = elems[u], ![u] = NoElems]
  /\ visits' = IF walk \in {t, u} THEN <<>> ELSE visits
  /\ UNCHANGED <<e, b, walk>>

-----------------------------------------------------------------------------
(* Iterator                                                                 *)

\* The first bucket from c on with an element, buckets if there is none.
NextBucket(t, c) ==
  LET filled == {d \in c .. buckets - 1 : elems[t][d] # <<>>}
  IN  IF filled = {} THEN buckets ELSE First(filled)

\* The iterator is at position i of bucket c of t, or at the end.
Enter(t, c, i) ==
  /\ b' = c
  /\ IF c = buckets
     THEN e' = NoKey /\ visits' = visits
     ELSE LET k == elems[t][c][i].first
          IN  /\ e' = k
              /\ visits' = [j \in Stayed |-> IF j = k /\ visits[k] < 2 THEN visits[k] + 1 ELSE visits[j]]

Listed(t) == {k \in Keys : exists(t, k)}

Begin(t) ==
  /\ e = NoKey
  /\ walk' = t
  /\ LET c == NextBucket(t, 0)
     IN  /\ b' = c
         /\ e' = IF c = buckets THEN NoKey ELSE elems[t][c][1].first
         /\ visits' = [k \in Listed(t) |-> IF k = e' THEN 1 ELSE 0]
  /\ UNCHANGED tvars

\* operator++
Increment ==
  /\ e # NoKey
  /\ LET i == First(At(walk, e)) + 1
     IN  IF i <= Len(elems[walk][b])
         THEN Enter(walk, b, i)
         ELSE Enter(walk, NextBucket(walk, b + 1), 1)
  /\ UNCHANGED <<tvars, walk>>

\* The loop is left early.
Break ==
  /\ e # NoKey
  /\ e' = NoKey
  /\ b' = buckets
  /\ visits' = <<>>
  /\ UNCHANGED <<tvars, walk>>

-----------------------------------------------------------------------------

Next ==
  \/ \E t \in Tables, k \in Keys :
       \/ Touch(t, k) \/ Erase(t, k)
       \/ \E v \in Values : Assign(t, k, v) \/ AddListed(t, k, v)
  \/ \E t, u \in Tables : CopyFrom(t, u) \/ MoveFrom(t, u)
  \/ \E t \in Tables : Clear(t) \/ Begin(t)
  \/ Increment \/ Break

Spec == Init /\ [][Next]_vars

-----------------------------------------------------------------------------
(* Properties                                                               *)

\* getkeys, getpairs and a loop over the table list exactly the keys a lookup
\* finds, each once (aarray.h 422-440 against 683-699): every element is in the
\* bucket of its key, and no key has two elements.
LookupsAgree == \A t \in Tables, c \in Buckets : \A i \in DOMAIN elems[t][c] :
  LET k == elems[t][c][i].first IN c = getbucket(Hash[k]) /\ At(t, k) = {i}

\* A loop comes to every key that stays in the table exactly once, although its
\* body adds keys and erases others (aarray.h 84-95): elements keep their place
\* in the chain, new ones go to its end.
WalkOnce == \A k \in Stayed : visits[k] <= 1
WalkComplete == e = NoKey => \A k \in Stayed : visits[k] = 1
WalkExact == WalkOnce /\ WalkComplete

\* AArray implements KeyMap: what lookups find changes as if there were no
\* chains and no buckets, and walks change nothing.
Contract == INSTANCE KeyMap WITH
  map <- [t \in Tables |-> [k \in Keys |-> Value(t, k)]]
ImplementsKeyMap == Contract!KSpec
=============================================================================
