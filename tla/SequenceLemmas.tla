--------------------------- MODULE SequenceLemmas ---------------------------
(***************************************************************************)
(* Facts about numbers and sequences that more than one of the proof       *)
(* modules needs.                                                          *)
(***************************************************************************)
EXTENDS Integers, SequencesExt, FiniteSetTheorems, FunctionTheorems, SequenceTheorems, TLAPS

\* A set of numbers has a least one: their initial segments are finite sets, and
\* strict inclusion is well founded on those.
LEMMA Least ==
  ASSUME NEW T \in SUBSET Nat, T # {}
  PROVE  \E x \in T : \A y \in T : x <= y
<1> DEFINE segments == {0 .. n : n \in T}
<1>1. segments \in SUBSET FiniteSubsetsOf(Nat) /\ segments # {}
  <2>1. ASSUME NEW n \in T PROVE 0 .. n \in FiniteSubsetsOf(Nat)
    <3>1. IsFiniteSet(0 .. n)
      BY FS_Interval
    <3> QED
      BY <3>1 DEF FiniteSubsetsOf
  <2> QED
    BY <2>1
<1>2. IsWellFoundedOn(StrictSubsetOrdering(Nat), FiniteSubsetsOf(Nat))
  BY FS_StrictSubsetOrderingWellFounded
<1> HIDE DEF segments
<1>3. PICK X \in segments : \A Y \in segments : ~(<<Y, X>> \in StrictSubsetOrdering(Nat))
  BY <1>1, <1>2, WFMin
<1>4. PICK x \in T : X = 0 .. x
  BY <1>3 DEF segments
<1>5. ASSUME NEW y \in T, y < x PROVE FALSE
  <2>1. 0 .. y \in SUBSET Nat /\ 0 .. x \in SUBSET Nat /\ 0 .. y \subseteq 0 .. x /\ 0 .. y # 0 .. x
    BY <1>5
  <2>2. <<0 .. y, 0 .. x>> \in StrictSubsetOrdering(Nat)
    BY <2>1 DEF StrictSubsetOrdering
  <2>3. 0 .. y \in segments
    BY DEF segments
  <2> QED
    BY <1>3, <1>4, <2>2, <2>3
<1> QED
  BY <1>5

\* Induction, on a set in place of a predicate.
LEMMA NatSet ==
  ASSUME NEW T, 0 \in T, \A n \in Nat : n \in T => n + 1 \in T
  PROVE  Nat \subseteq T
<1> SUFFICES ASSUME Nat \ T # {} PROVE FALSE
  OBVIOUS
<1>1. PICK x \in Nat \ T : \A y \in Nat \ T : x <= y
  BY Least
<1>2. x # 0 /\ x - 1 \in Nat
  BY <1>1
<1>3. x - 1 \in T
  BY <1>1, <1>2
<1>4. (x - 1) + 1 \in T
  BY <1>2, <1>3
<1> QED
  BY <1>1, <1>4

\* Where the elements of a concatenation come from.
LEMMA ConcatAt ==
  ASSUME NEW S, NEW a \in Seq(S), NEW b \in Seq(S)
  PROVE  /\ a \o b \in Seq(S) /\ Len(a) \in Nat /\ Len(b) \in Nat
         /\ Len(a \o b) = Len(a) + Len(b)
         /\ \A i \in 1 .. Len(a) : (a \o b)[i] = a[i]
         /\ \A i \in 1 .. Len(b) : (a \o b)[Len(a) + i] = b[i]
BY LenProperties, ConcatProperties

\* One element more.
LEMMA ConcatOne ==
  ASSUME NEW S, NEW a \in Seq(S), NEW b \in Seq(S)
  PROVE  Len(b) = 1 => Len(a \o b) = Len(a) + 1 /\ (a \o b)[Len(a) + 1] = b[1]
<1>1. Len(a \o b) = Len(a) + Len(b)
  BY ConcatAt
<1>2. 1 \in 1 .. Len(b) => (a \o b)[Len(a) + 1] = b[1]
  BY ConcatAt
<1> QED
  BY <1>1, <1>2

\* Sequences that agree with a third one after the other make it up.
LEMMA ConcatIs ==
  ASSUME NEW S, NEW a \in Seq(S), NEW b \in Seq(S), NEW c \in Seq(S),
         Len(c) = Len(a) + Len(b),
         \A i \in 1 .. Len(a) : c[i] = a[i],
         \A i \in 1 .. Len(b) : c[Len(a) + i] = b[i]
  PROVE  a \o b = c
<1>1. \A i \in 1 .. Len(a) : (a \o b)[i] = c[i]
  BY ConcatAt
<1>2. \A i \in 1 .. Len(b) : (a \o b)[Len(a) + i] = c[Len(a) + i]
  BY ConcatAt
<1> QED
  BY SMTT(40), <1>1, <1>2, ConcatAt, SeqEqual

\* What is left of a sequence when one element is taken out of it.
LEMMA RemoveAtIs ==
  ASSUME NEW S, NEW q \in Seq(S), NEW i \in DOMAIN q
  PROVE  /\ RemoveAt(q, i) \in Seq(S)
         /\ DOMAIN RemoveAt(q, i) = 1 .. Len(q) - 1
         /\ \A j \in 1 .. Len(q) - 1 : RemoveAt(q, i)[j] = q[IF j < i THEN j ELSE j + 1]
<1> DEFINE a == SubSeq(q, 1, i - 1)
           b == SubSeq(q, i + 1, Len(q))
<1>1. Len(q) \in Nat /\ DOMAIN q = 1 .. Len(q) /\ i \in 1 .. Len(q)
  BY LenProperties
<1>2. a \in Seq(S) /\ Len(a) = i - 1 /\ \A j \in 1 .. i - 1 : a[j] = q[j]
  BY <1>1, SubSeqProperties, ElementOfSeq
<1>3. b \in Seq(S) /\ Len(b) = Len(q) - i /\ \A j \in 1 .. Len(q) - i : b[j] = q[i + j]
  <2>1. \A j \in i + 1 .. Len(q) : q[j] \in S
    BY <1>1, ElementOfSeq
  <2>2. b \in Seq(S) /\ Len(b) = Len(q) - i
    BY <1>1, <2>1, SubSeqProperties
  <2>3. \A j \in 1 .. Len(q) - (i + 1) + 1 : b[j] = q[(i + 1) + j - 1]
    BY <1>1, <2>1, SubSeqProperties
  <2>4. ASSUME NEW j \in 1 .. Len(q) - i PROVE b[j] = q[i + j]
    <3>1. b[j] = q[(i + 1) + j - 1] /\ (i + 1) + j - 1 = i + j
      BY <1>1, <2>3
    <3> QED
      BY <3>1
  <2> QED
    BY <2>2, <2>4
<1>4. RemoveAt(q, i) = a \o b
  BY DEF RemoveAt
<1> HIDE DEF a, b
<1>5. a \o b \in Seq(S) /\ Len(a \o b) = Len(q) - 1
  <2>1. a \o b \in Seq(S) /\ Len(a \o b) = Len(a) + Len(b)
    BY <1>2, <1>3, ConcatAt
  <2> QED
    BY <1>1, <1>2, <1>3, <2>1
<1>6. DOMAIN (a \o b) = 1 .. Len(q) - 1
  BY <1>5, LenProperties
<1>7. ASSUME NEW j \in 1 .. Len(q) - 1 PROVE (a \o b)[j] = q[IF j < i THEN j ELSE j + 1]
  <2>1. CASE j < i
    <3>1. j \in 1 .. Len(a) /\ a[j] = q[j]
      BY <1>1, <1>2, <2>1
    <3>2. (a \o b)[j] = a[j]
      BY <1>2, <1>3, <3>1, ConcatAt
    <3> QED
      BY <2>1, <3>1, <3>2
  <2>2. CASE ~(j < i)
    <3>1. j - i + 1 \in 1 .. Len(b) /\ b[j - i + 1] = q[i + (j - i + 1)]
      BY <1>1, <1>3, <2>2
    <3>2. (a \o b)[Len(a) + (j - i + 1)] = b[j - i + 1]
      BY SMTT(40), <1>2, <1>3, <3>1, ConcatAt
    <3>3. Len(a) + (j - i + 1) = j /\ i + (j - i + 1) = j + 1
      BY <1>1, <1>2
    <3> QED
      BY <2>2, <3>1, <3>2, <3>3
  <2> QED
    BY <2>1, <2>2
<1> QED
  BY <1>4, <1>5, <1>6, <1>7

\* f starts at s0 and takes the steps, as any g that starts there and does the
\* same has to.
Leads(f, S, s0, n, step) ==
  /\ f \in [0 .. n -> S]
  /\ f[0] = s0 /\ \A i \in 1 .. n : f[i] = step[i][f[i - 1]]
  /\ \A g : /\ g[0] = s0
            /\ \A i \in 1 .. n : g[i - 1] \in S => g[i] = step[i][g[i - 1]]
            => \A i \in 0 .. n : g[i] = f[i]

\* A recursive function on 0 .. n has a value.
LEMMA Recursion ==
  ASSUME NEW S, NEW s0 \in S, NEW n \in Nat, NEW step \in [1 .. n -> [S -> S]]
  PROVE  \E f : Leads(f, S, s0, n, step)
<1> DEFINE Runs(f, m) == f[0] = s0 /\ \A i \in 1 .. m : f[i] = step[i][f[i - 1]]
           T == {m \in Nat : m <= n => \E f \in [0 .. m -> S] : Runs(f, m)}
<1>1. 0 \in T
  <2> DEFINE f == [i \in 0 .. 0 |-> s0]
  <2>1. f \in [0 .. 0 -> S] /\ Runs(f, 0)
    OBVIOUS
  <2> QED
    BY <2>1
<1>2. ASSUME NEW m \in Nat, m \in T PROVE m + 1 \in T
  <2> SUFFICES ASSUME m + 1 <= n PROVE \E f \in [0 .. m + 1 -> S] : Runs(f, m + 1)
    OBVIOUS
  <2>1. PICK f \in [0 .. m -> S] : Runs(f, m)
    BY <1>2
  <2> DEFINE v == step[m + 1][f[m]]
             g == [i \in 0 .. m + 1 |-> IF i <= m THEN f[i] ELSE v]
  <2>2. v \in S
    BY <2>1
  <2> HIDE DEF v
  <2>3. g \in [0 .. m + 1 -> S]
    BY <2>1, <2>2
  <2>4. g[0] = s0 /\ \A i \in 0 .. m : g[i] = f[i]
    BY <2>1
  <2>5. g[m + 1] = v
    OBVIOUS
  <2> HIDE DEF g
  <2>6. ASSUME NEW i \in 1 .. m + 1 PROVE g[i] = step[i][g[i - 1]]
    <3>1. CASE i <= m
      <4>1. f[i] = step[i][f[i - 1]] /\ i - 1 \in 0 .. m /\ i \in 0 .. m
        BY <2>1, <3>1
      <4> QED
        BY <2>4, <4>1
    <3>2. CASE i = m + 1
      <4>1. (m + 1) - 1 = m /\ m \in 0 .. m
        OBVIOUS
      <4> QED
        BY <2>4, <2>5, <3>2, <4>1 DEF v
    <3> QED
      BY <3>1, <3>2
  <2> QED
    BY <2>3, <2>4, <2>6
<1> HIDE DEF T
<1>3. n \in T
  BY <1>1, <1>2, NatSet
<1>4. PICK f \in [0 .. n -> S] : Runs(f, n)
  BY <1>3 DEF T
<1>5. ASSUME NEW g, g[0] = s0, \A i \in 1 .. n : g[i - 1] \in S => g[i] = step[i][g[i - 1]]
      PROVE  \A i \in 0 .. n : g[i] = f[i]
  <2> DEFINE U == {m \in Nat : m <= n => g[m] = f[m]}
  <2>1. 0 \in U
    BY <1>4, <1>5
  <2>2. ASSUME NEW m \in Nat, m \in U PROVE m + 1 \in U
    <3> SUFFICES ASSUME m + 1 <= n PROVE g[m + 1] = f[m + 1]
      OBVIOUS
    <3>1. m + 1 \in 1 .. n /\ (m + 1) - 1 = m /\ m \in 0 .. n
      OBVIOUS
    <3>2. g[m] = f[m] /\ f[m] \in S
      BY <1>4, <2>2, <3>1
    <3>3. g[m + 1] = step[m + 1][g[m]]
      BY <1>5, <3>1, <3>2
    <3>4. f[m + 1] = step[m + 1][f[m]]
      BY <1>4, <3>1
    <3> QED
      BY <3>2, <3>3, <3>4
  <2> HIDE DEF U
  <2>3. Nat \subseteq U
    BY <2>1, <2>2, NatSet
  <2> QED
    BY <2>3 DEF U
<1>6. Leads(f, S, s0, n, step)
  <2>1. f[0] = s0 /\ \A i \in 1 .. n : f[i] = step[i][f[i - 1]]
    BY <1>4
  <2> QED
    BY <1>5, <2>1 DEF Leads
<1> QED
  BY <1>6

\* The sets 1 .. 0 to 1 .. n are n + 1 of the 2 ^ n subsets of 1 .. n.
LEMMA PowerAbove == \A n \in Nat : 2 ^ n \in Nat /\ n < 2 ^ n
<1> SUFFICES ASSUME NEW n \in Nat PROVE 2 ^ n \in Nat /\ n < 2 ^ n
  OBVIOUS
<1> DEFINE f == [k \in 0 .. n |-> 1 .. k]
           T == SUBSET (1 .. n)
<1>1. IsFiniteSet(1 .. n) /\ Cardinality(1 .. n) = n /\ Cardinality(0 .. n) = n + 1
  BY FS_Interval
<1>2. IsFiniteSet(T) /\ Cardinality(T) = 2 ^ n
  BY <1>1, FS_SUBSET
<1>3. f \in [0 .. n -> T] /\ \A a, c \in 0 .. n : f[a] = f[c] => a = c
  <2>1. \A a \in 0 .. n : f[a] = 1 .. a /\ f[a] \in T
    OBVIOUS
  <2>2. ASSUME NEW a \in 0 .. n, NEW c \in 0 .. n, 1 .. a = 1 .. c PROVE a = c
    <3>1. a \in 1 .. a \/ a = 0
      OBVIOUS
    <3>2. c \in 1 .. c \/ c = 0
      OBVIOUS
    <3> QED
      BY <2>2, <3>1, <3>2
  <2> QED
    BY <2>1, <2>2
<1> HIDE DEF f, T
<1>4. f \in Injection(0 .. n, T)
  BY <1>3, Fun_IsInj
<1>5. Cardinality(0 .. n) <= Cardinality(T)
  BY <1>2, <1>4, FS_Injection
<1>6. Cardinality(T) \in Nat
  BY <1>2, FS_CardinalityType
<1> QED
  BY <1>1, <1>2, <1>5, <1>6

\* The first number up to n that is in a set, if n is.
LEMMA FirstUpTo ==
  ASSUME NEW n \in Nat, NEW B, n \in B
  PROVE  \E m \in 0 .. n : m \in B /\ \A k \in 0 .. m - 1 : k \notin B
<1> DEFINE T == {k \in Nat : k \in B}
<1>1. T \in SUBSET Nat /\ T # {}
  OBVIOUS
<1> HIDE DEF T
<1>2. PICK m \in T : \A k \in T : m <= k
  BY <1>1, Least
<1>3. m \in Nat /\ m \in B /\ m <= n /\ \A k \in 0 .. m - 1 : k \notin B
  BY <1>2 DEF T
<1> QED
  BY <1>3

\* Brackets do not matter.  The equation has a name, since provers go round in
\* circles with it.
Brackets(a, b, c) == (a \o b) \o c = a \o (b \o c)

LEMMA Assoc ==
  ASSUME NEW S, NEW a \in Seq(S), NEW b \in Seq(S), NEW c \in Seq(S)
  PROVE  Brackets(a, b, c)
<1>1. (a \o b) \o c = a \o (b \o c)
  BY SMTT(30), ConcatAssociative
<1> QED
  BY <1>1 DEF Brackets

LEMMA ConcatIn ==
  ASSUME NEW S, NEW a \in Seq(S), NEW b \in Seq(S)
  PROVE  a \o b \in Seq(S)
OBVIOUS

\* Induction from n down to 0.
LEMMA Downwards ==
  ASSUME NEW n \in Nat, NEW T, \A i \in 0 .. n : (\A k \in i + 1 .. n : k \in T) => i \in T
  PROVE  \A i \in 0 .. n : i \in T
<1> DEFINE D == {m \in Nat : m <= n /\ n - m \notin T}
<1>1. SUFFICES ASSUME D # {} PROVE FALSE
  <2>1. ASSUME NEW i \in 0 .. n, i \notin T PROVE FALSE
    <3>1. n - i \in Nat /\ n - i <= n /\ n - (n - i) = i
      OBVIOUS
    <3>2. n - i \in D
      BY <2>1, <3>1
    <3> QED
      BY <1>1, <3>2
  <2> QED
    BY <2>1
<1>2. D \in SUBSET Nat
  OBVIOUS
<1> HIDE DEF D
<1>3. PICK m \in D : \A k \in D : m <= k
  BY <1>1, <1>2, Least
<1>4. m \in Nat /\ n - m \in 0 .. n /\ n - m \notin T
  BY <1>3 DEF D
<1>5. ASSUME NEW k \in n - m + 1 .. n PROVE k \in T
  <2>1. n - k \in Nat /\ n - k <= n /\ n - (n - k) = k /\ ~(m <= n - k)
    BY <1>4
  <2>2. n - k \notin D
    BY <1>3, <2>1
  <2> QED
    BY <2>1, <2>2 DEF D
<1> QED
  BY <1>4, <1>5

\* f is found from n down to 0: it takes a step where there is a jump ahead and
\* is the base where there is none.
LeadsBack(f, S, n, jump, base, step) ==
  /\ f \in [0 .. n -> S]
  /\ \A i \in 0 .. n : f[i] = IF jump[i] > i THEN step[i][f[jump[i]]] ELSE base[i]

LEMMA Backwards ==
  ASSUME NEW S, NEW n \in Nat, NEW jump \in [0 .. n -> 0 .. n], NEW base \in [0 .. n -> S],
         NEW step \in [0 .. n -> [S -> S]]
  PROVE  \E f : LeadsBack(f, S, n, jump, base, step)
<1> DEFINE Runs(f, i) == f[i] = IF jump[i] > i THEN step[i][f[jump[i]]] ELSE base[i]
           T == {m \in Nat : m <= n + 1 => \E f \in [0 .. n -> S] : \A i \in n + 1 - m .. n : Runs(f, i)}
<1>1. 0 \in T
  <2>1. \A i \in n + 1 - 0 .. n : Runs(base, i)
    OBVIOUS
  <2> QED
    BY <2>1
<1>2. ASSUME NEW m \in Nat, m \in T PROVE m + 1 \in T
  <2> SUFFICES ASSUME m + 1 <= n + 1 PROVE \E f \in [0 .. n -> S] : \A i \in n + 1 - (m + 1) .. n : Runs(f, i)
    OBVIOUS
  <2>0. m <= n + 1
    OBVIOUS
  <2>1. PICK f \in [0 .. n -> S] : \A i \in n + 1 - m .. n : Runs(f, i)
    <3> HIDE DEF Runs
    <3> QED
      BY <1>2, <2>0
  <2> DEFINE j == n - m
             v == IF jump[j] > j THEN step[j][f[jump[j]]] ELSE base[j]
             g == [i \in 0 .. n |-> IF i = j THEN v ELSE f[i]]
  <2>2. j \in 0 .. n /\ n + 1 - (m + 1) = j /\ n + 1 - m = j + 1
    OBVIOUS
  <2> HIDE DEF j
  <2>3. v \in S
    BY <2>1, <2>2
  <2> HIDE DEF v
  <2>4. g \in [0 .. n -> S] /\ g[j] = v /\ \A i \in 0 .. n : i # j => g[i] = f[i]
    BY <2>1, <2>2, <2>3
  <2> HIDE DEF g
  <2>5. ASSUME NEW i \in j .. n PROVE Runs(g, i)
    <3>1. i \in 0 .. n /\ jump[i] \in 0 .. n
      BY <2>2
    <3>2. jump[i] > i => g[jump[i]] = f[jump[i]]
      <4>1. jump[i] > i => jump[i] # j
        BY <2>2, <3>1
      <4> QED
        BY <2>4, <3>1, <4>1
    <3>3. CASE i = j
      BY <2>4, <3>2, <3>3 DEF v
    <3>4. CASE i # j
      <4>1. i \in n + 1 - m .. n
        BY <2>2, <3>1, <3>4
      <4> QED
        BY <2>1, <2>4, <3>1, <3>2, <3>4, <4>1
    <3> QED
      BY <3>3, <3>4
  <2> HIDE DEF Runs
  <2> QED
    BY <2>2, <2>4, <2>5
<1> HIDE DEF T
<1>3. n + 1 \in T
  <2>1. Nat \subseteq T
    BY <1>1, <1>2, NatSet
  <2> QED
    BY <2>1
<1>4. PICK f \in [0 .. n -> S] : \A i \in n + 1 - (n + 1) .. n : Runs(f, i)
  <2>1. n + 1 <= n + 1
    OBVIOUS
  <2> HIDE DEF Runs
  <2> QED
    BY <1>3, <2>1 DEF T
<1>5. n + 1 - (n + 1) = 0
  OBVIOUS
<1> QED
  BY <1>4, <1>5 DEF LeadsBack
=============================================================================
