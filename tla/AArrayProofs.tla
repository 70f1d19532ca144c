----------------------------- MODULE AArrayProofs ----------------------------
(***************************************************************************)
(* Theorems about AArray.  A chain is Good if its keys belong to its bucket *)
(* and none is in it twice; every operation keeps that, so that there is   *)
(* one place at most where a key can be.  What lookups find and where a    *)
(* loop stands then follow from what the operation does to one chain.      *)
(***************************************************************************)
EXTENDS AArray, SequenceLemmas

TableType == elems \in [Tables -> [Buckets -> Seq(Pairs)]]

bucket(k) == getbucket(Hash[k])

Good(s, c) == \A i \in DOMAIN s :
  /\ bucket(s[i].first) = c
  /\ \A j \in DOMAIN s : s[i].first = s[j].first => i = j

Find(s, k) == {i \in DOMAIN s : s[i].first = k}
Val(s, k) == IF Find(s, k) = {} THEN Absent ELSE s[First(Find(s, k))].second

\* The chains of a table, a key that is in one of them, and where.
Rows == {f \in [Buckets -> Seq(Pairs)] : \A c \in Buckets : Good(f[c], c)}
Has(f, k) == Find(f[bucket(k)], k) # {}
Place(f, k) == First(Find(f[bucket(k)], k))

\* A loop that is at p has been where k is.
Passed(f, p, k) == bucket(k) < bucket(p) \/ (bucket(k) = bucket(p) /\ Place(f, k) <= Place(f, p))

\* Keys of K that were in the chains f are in g, in the same order.
Kept(f, g, K) ==
  /\ \A k \in K : Has(f, k) => Has(g, k)
  /\ \A j, k \in K : Has(f, j) /\ Has(f, k) => (Passed(g, j, k) <=> Passed(f, j, k))

\* The iterator stands at an element, and of the keys that stay those it has
\* passed are the ones it has come to, each once.
WalkInv ==
  /\ walk \in Tables /\ Stayed \subseteq Keys
  /\ e # NoKey => e \in Keys /\ Has(elems[walk], e) /\ b = bucket(e)
  /\ e # NoKey => \A k \in Stayed : Has(elems[walk], k)
  /\ \A k \in Stayed : visits[k] = IF e = NoKey \/ Passed(elems[walk], e, k) THEN 1 ELSE 0

-----------------------------------------------------------------------------
(* Chains                                                                    *)

LEMMA BucketIs ==
  /\ buckets \in Nat \ {0}
  /\ \A k \in Keys : bucket(k) \in Buckets
<1>1. buckets \in Nat \ {0} /\ mask \in {0, buckets - 1}
  BY BucketsAssumption DEF mask
<1>2. ASSUME NEW h \in Nat PROVE getbucket(h) \in Buckets
  <2>1. mask + 1 \in Nat \ {0} /\ mask \in 0 .. buckets - 1
    BY <1>1
  <2>2. h % (mask + 1) \in 0 .. mask
    BY <2>1
  <2> QED
    BY <1>1, <2>1, <2>2 DEF getbucket, Buckets
<1> QED
  BY <1>1, <1>2, HashAssumption DEF bucket

LEMMA FirstOne == \A i \in Int : First({i}) = i
BY DEF First

\* Of a key in a good chain there is one place.
LEMMA FoundAt ==
  ASSUME NEW s \in Seq(Pairs), NEW c, Good(s, c), NEW i \in DOMAIN s
  PROVE  /\ Find(s, s[i].first) = {i} /\ First(Find(s, s[i].first)) = i
         /\ Val(s, s[i].first) = s[i].second
<1>1. Find(s, s[i].first) = {i}
  BY DEF Find, Good
<1>2. i \in Int
  BY LenProperties
<1>3. First({i}) = i
  BY <1>2, FirstOne
<1> QED
  BY <1>1, <1>3 DEF Val

\* Chains with the same elements, those of k apart, give the same for all others.
LEMMA OthersKept ==
  ASSUME NEW s \in Seq(Pairs), NEW r \in Seq(Pairs), NEW k, Good(s, bucket(k)), Good(r, bucket(k)),
         \A i \in DOMAIN s : s[i].first # k => \E j \in DOMAIN r : r[j] = s[i],
         \A i \in DOMAIN r : r[i].first # k => \E j \in DOMAIN s : s[j] = r[i]
  PROVE  \A c \in Keys \ {k} : Val(r, c) = Val(s, c)
<1> SUFFICES ASSUME NEW c \in Keys \ {k} PROVE Val(r, c) = Val(s, c)
  OBVIOUS
<1>1. CASE Find(s, c) = {}
  <2>1. Find(r, c) = {}
    BY <1>1 DEF Find
  <2> QED
    BY <1>1, <2>1 DEF Val
<1>2. CASE Find(s, c) # {}
  <2>1. PICK i \in DOMAIN s : s[i].first = c
    BY <1>2 DEF Find
  <2>2. PICK j \in DOMAIN r : r[j] = s[i]
    BY <2>1
  <2>3. Val(s, c) = s[i].second /\ Val(r, c) = r[j].second
    BY <2>1, <2>2, FoundAt
  <2> QED
    BY <2>2, <2>3
<1> QED
  BY <1>1, <1>2

LEMMA PairType == ASSUME NEW k \in Keys, NEW v \in Values
  PROVE Pair(k, v) \in Pairs /\ Pair(k, v).first = k /\ Pair(k, v).second = v
BY DEF Pair, Pairs

LEMMA DefaultType == Default \in Values /\ Absent \notin Values
BY DefaultAssumption

\* A key at the end of a chain that did not have it.
LEMMA AppendGood ==
  ASSUME NEW s \in Seq(Pairs), NEW k \in Keys, NEW v \in Values, Good(s, bucket(k)), Find(s, k) = {}
  PROVE  LET r == Append(s, Pair(k, v)) IN
         /\ r \in Seq(Pairs) /\ Good(r, bucket(k)) /\ Val(r, k) = v
         /\ \A c \in Keys \ {k} : Val(r, c) = Val(s, c)
         /\ \A i \in DOMAIN s : i \in DOMAIN r /\ r[i] = s[i]
<1> DEFINE r == Append(s, Pair(k, v))
<1>0. Pair(k, v) \in Pairs /\ Pair(k, v).first = k /\ Pair(k, v).second = v
  BY PairType
<1>1. /\ r \in Seq(Pairs) /\ Len(r) = Len(s) + 1 /\ r[Len(s) + 1] = Pair(k, v)
      /\ \A i \in 1 .. Len(s) : r[i] = s[i]
  BY <1>0, AppendProperties
<1>2. Len(s) \in Nat /\ DOMAIN s = 1 .. Len(s) /\ DOMAIN r = 1 .. Len(s) + 1
  BY <1>1, LenProperties
<1> HIDE DEF r
<1>3. \A i \in DOMAIN r : (i \in DOMAIN s /\ r[i] = s[i] /\ s[i].first # k) \/ (i = Len(s) + 1 /\ r[i].first = k)
  BY <1>0, <1>1, <1>2 DEF Find
<1>4. Good(r, bucket(k))
  BY <1>3 DEF Good
<1>5. \A i \in DOMAIN s : i \in DOMAIN r /\ r[i] = s[i]
  BY <1>1, <1>2
<1>6. Val(r, k) = v
  <2>1. Len(s) + 1 \in DOMAIN r /\ r[Len(s) + 1].first = k /\ r[Len(s) + 1].second = v
    BY <1>0, <1>1, <1>2
  <2> QED
    BY <1>1, <1>4, <2>1, FoundAt
<1>7. \A c \in Keys \ {k} : Val(r, c) = Val(s, c)
  BY <1>1, <1>3, <1>4, <1>5, OthersKept
<1> QED
  BY <1>1, <1>4, <1>5, <1>6, <1>7 DEF r

\* A new value for a key the chain has.
LEMMA PutGood ==
  ASSUME NEW k \in Keys, NEW v \in Values
  PROVE  \A s \in Seq(Pairs) : \A i \in DOMAIN s : Good(s, bucket(k)) /\ i \in Find(s, k) =>
           LET r == [s EXCEPT ![i] = Pair(k, v)] IN
           /\ r \in Seq(Pairs) /\ Good(r, bucket(k)) /\ Val(r, k) = v
           /\ DOMAIN r = DOMAIN s /\ \A j \in DOMAIN s : r[j].first = s[j].first
<1> SUFFICES ASSUME NEW s \in Seq(Pairs), NEW i \in DOMAIN s, Good(s, bucket(k)), i \in Find(s, k)
             PROVE  LET r == [s EXCEPT ![i] = Pair(k, v)] IN
                    /\ r \in Seq(Pairs) /\ Good(r, bucket(k)) /\ Val(r, k) = v
                    /\ DOMAIN r = DOMAIN s /\ \A j \in DOMAIN s : r[j].first = s[j].first
  OBVIOUS
<1> DEFINE r == [s EXCEPT ![i] = Pair(k, v)]
<1> s[i].first = k
  BY DEF Find
<1>0. Pair(k, v) \in Pairs /\ Pair(k, v).first = k /\ Pair(k, v).second = v
  BY PairType
<1>1. Len(s) \in Nat /\ DOMAIN s = 1 .. Len(s) /\ i \in 1 .. Len(s)
  BY LenProperties
<1>2. r \in Seq(Pairs)
  BY <1>0, <1>1, ExceptSeq
<1>3. /\ DOMAIN r = DOMAIN s /\ r[i] = Pair(k, v)
      /\ \A j \in DOMAIN s \ {i} : r[j] = s[j]
  OBVIOUS
<1> HIDE DEF r
<1>4. \A j \in DOMAIN s : r[j].first = s[j].first
  BY <1>0, <1>3
<1>5. Good(r, bucket(k))
  BY <1>3, <1>4 DEF Good
<1>6. Val(r, k) = v
  BY <1>0, <1>2, <1>3, <1>5, FoundAt
<1> QED
  BY <1>2, <1>3, <1>4, <1>5, <1>6 DEF r

LEMMA PutOthers ==
  ASSUME NEW k \in Keys, NEW v \in Values
  PROVE  \A s \in Seq(Pairs) : \A i \in DOMAIN s : Good(s, bucket(k)) /\ i \in Find(s, k) =>
           \A c \in Keys \ {k} : Val([s EXCEPT ![i] = Pair(k, v)], c) = Val(s, c)
<1> SUFFICES ASSUME NEW s \in Seq(Pairs), NEW i \in DOMAIN s, Good(s, bucket(k)), i \in Find(s, k)
             PROVE  \A c \in Keys \ {k} : Val([s EXCEPT ![i] = Pair(k, v)], c) = Val(s, c)
  OBVIOUS
<1> DEFINE r == [s EXCEPT ![i] = Pair(k, v)]
<1>1. s[i].first = k /\ Pair(k, v).first = k
  BY PairType DEF Find
<1>2. r \in Seq(Pairs) /\ Good(r, bucket(k))
  BY PutGood
<1>3. DOMAIN r = DOMAIN s /\ r[i] = Pair(k, v) /\ \A j \in DOMAIN s \ {i} : r[j] = s[j]
  OBVIOUS
<1> HIDE DEF r
<1>4. \A j \in DOMAIN s : s[j].first # k => r[j] = s[j]
  BY <1>1, <1>3
<1>5. \A j \in DOMAIN r : r[j].first # k => s[j] = r[j]
  BY <1>1, <1>3
<1>6. \A c \in Keys \ {k} : Val(r, c) = Val(s, c)
  BY <1>2, <1>3, <1>4, <1>5, OthersKept
<1> QED
  BY <1>6 DEF r

\* A key unlinked from a chain that had it.
LEMMA RemoveGood ==
  ASSUME NEW s \in Seq(Pairs), NEW k \in Keys, Good(s, bucket(k)), NEW i \in DOMAIN s, s[i].first = k
  PROVE  LET r == RemoveAt(s, i) IN
         /\ r \in Seq(Pairs) /\ Good(r, bucket(k)) /\ Val(r, k) = Absent
         /\ \A c \in Keys \ {k} : Val(r, c) = Val(s, c)
         /\ \A j \in DOMAIN s \ {i} : LET l == IF j < i THEN j ELSE j - 1 IN l \in DOMAIN r /\ r[l] = s[j]
<1> DEFINE r == RemoveAt(s, i)
<1>1. Len(s) \in Nat /\ DOMAIN s = 1 .. Len(s) /\ i \in 1 .. Len(s)
  BY LenProperties
<1>2. /\ r \in Seq(Pairs) /\ DOMAIN r = 1 .. Len(s) - 1
      /\ \A j \in 1 .. Len(s) - 1 : r[j] = s[IF j < i THEN j ELSE j + 1]
  BY RemoveAtIs
<1> HIDE DEF r
<1>3. ASSUME NEW j \in DOMAIN s \ {i}
      PROVE  LET l == IF j < i THEN j ELSE j - 1 IN l \in DOMAIN r /\ r[l] = s[j]
  <2>1. CASE j < i
    <3>1. j \in 1 .. Len(s) - 1
      BY <1>1, <1>3, <2>1
    <3>2. r[j] = s[j]
      BY <1>2, <2>1, <3>1
    <3> QED
      BY <1>2, <2>1, <3>1, <3>2
  <2>2. CASE ~(j < i)
    <3>1. j - 1 \in 1 .. Len(s) - 1 /\ ~(j - 1 < i) /\ (j - 1) + 1 = j
      BY <1>1, <1>3, <2>2
    <3>2. r[j - 1] = s[(j - 1) + 1]
      BY <1>2, <3>1
    <3> QED
      BY <1>2, <2>2, <3>1, <3>2
  <2> QED
    BY <2>1, <2>2
<1>4. \A j \in DOMAIN r : \E m \in DOMAIN s : m = (IF j < i THEN j ELSE j + 1) /\ m # i /\ r[j] = s[m]
  BY <1>1, <1>2
<1>5. \A j \in DOMAIN s : s[j].first = k => j = i
  BY DEF Good
<1>6. Good(r, bucket(k))
  <2> SUFFICES ASSUME NEW j \in DOMAIN r
               PROVE  /\ bucket(r[j].first) = bucket(k)
                      /\ \A l \in DOMAIN r : r[j].first = r[l].first => j = l
    BY DEF Good
  <2>1. PICK m \in DOMAIN s : m = (IF j < i THEN j ELSE j + 1) /\ r[j] = s[m]
    BY <1>4
  <2>2. ASSUME NEW l \in DOMAIN r, r[j].first = r[l].first PROVE j = l
    <3>1. PICK n \in DOMAIN s : n = (IF l < i THEN l ELSE l + 1) /\ r[l] = s[n]
      BY <1>4
    <3>2. m = n
      BY <2>1, <2>2, <3>1 DEF Good
    <3>3. j \in Int /\ l \in Int /\ i \in Int
      BY <1>1, <1>2
    <3> QED
      BY <2>1, <3>1, <3>2, <3>3
  <2> QED
    BY <2>1, <2>2 DEF Good
<1>7. Val(r, k) = Absent
  <2>1. Find(r, k) = {}
    BY <1>4, <1>5 DEF Find
  <2> QED
    BY <2>1 DEF Val
<1>8. \A c \in Keys \ {k} : Val(r, c) = Val(s, c)
  <2>1. \A j \in DOMAIN s : s[j].first # k => \E l \in DOMAIN r : r[l] = s[j]
    <3> SUFFICES ASSUME NEW j \in DOMAIN s, s[j].first # k PROVE \E l \in DOMAIN r : r[l] = s[j]
      OBVIOUS
    <3>1. j \in DOMAIN s \ {i}
      OBVIOUS
    <3> QED
      BY <1>3, <3>1
  <2>2. \A j \in DOMAIN r : \E l \in DOMAIN s : s[l] = r[j]
    BY <1>4
  <2> QED
    BY <1>2, <1>6, <2>1, <2>2, OthersKept
<1> QED
  BY <1>2, <1>3, <1>6, <1>7, <1>8 DEF r

-----------------------------------------------------------------------------
(* Tables                                                                    *)

\* LookupsAgree, said of the chains.
AllGood == \A t \in Tables : \A c \in Buckets : Good(elems[t][c], c)

LEMMA ChainIs ==
  ASSUME TableType, NEW t \in Tables, NEW k \in Keys
  PROVE  /\ Chain(t, k) = elems[t][bucket(k)] /\ Chain(t, k) \in Seq(Pairs)
         /\ At(t, k) = Find(Chain(t, k), k) /\ Value(t, k) = Val(Chain(t, k), k)
BY BucketIs DEF TableType, Chain, bucket, At, Find, Value, exists, Val

LEMMA ValueIs == ASSUME TableType PROVE \A t \in Tables, k \in Keys : Value(t, k) = Val(elems[t][bucket(k)], k)
BY ChainIs

LEMMA AgreeIs == ASSUME TableType PROVE LookupsAgree <=> AllGood
<1>1. \A t \in Tables, c \in Buckets : elems[t][c] \in Seq(Pairs)
  BY DEF TableType
<1>2. \A s \in Seq(Pairs) : \A i \in DOMAIN s : s[i] \in Pairs /\ s[i].first \in Keys
  <2>1. \A p \in Pairs : p.first \in Keys
    BY DEF Pairs
  <2>2. \A s \in Seq(Pairs) : \A i \in DOMAIN s : s[i] \in Pairs
    OBVIOUS
  <2> QED
    BY <2>1, <2>2
<1>3. ASSUME LookupsAgree, NEW t \in Tables, NEW c \in Buckets PROVE Good(elems[t][c], c)
  <2> SUFFICES ASSUME NEW i \in DOMAIN elems[t][c], NEW j \in DOMAIN elems[t][c]
               PROVE  /\ bucket(elems[t][c][i].first) = c
                      /\ elems[t][c][i].first = elems[t][c][j].first => i = j
    BY DEF Good
  <2>1. /\ c = bucket(elems[t][c][i].first) /\ At(t, elems[t][c][i].first) = {i}
        /\ At(t, elems[t][c][j].first) = {j}
    BY SMTT(40), <1>3 DEF LookupsAgree, bucket
  <2> QED
    BY <2>1
<1>4. ASSUME AllGood, NEW t \in Tables, NEW c \in Buckets, NEW i \in DOMAIN elems[t][c]
      PROVE  c = bucket(elems[t][c][i].first) /\ At(t, elems[t][c][i].first) = {i}
  <2>1. Good(elems[t][c], c) /\ elems[t][c][i].first \in Keys
    BY <1>1, <1>2, <1>4 DEF AllGood
  <2>2. c = bucket(elems[t][c][i].first)
    BY <2>1 DEF Good
  <2>3. At(t, elems[t][c][i].first) = Find(elems[t][c], elems[t][c][i].first)
    BY <2>1, <2>2, ChainIs
  <2> QED
    BY <1>1, <2>1, <2>2, <2>3, FoundAt
<1> QED
  BY <1>3, <1>4 DEF AllGood, LookupsAgree, bucket

\* What a lookup that succeeds comes to.
LEMMA FoundIs ==
  ASSUME TableType, AllGood, NEW t \in Tables, NEW k \in Keys, exists(t, k)
  PROVE  LET i == First(At(t, k)) IN
         i \in DOMAIN Chain(t, k) /\ Chain(t, k)[i].first = k /\ At(t, k) = {i} /\ i \in Nat
<1>1. /\ Chain(t, k) = elems[t][bucket(k)] /\ Chain(t, k) \in Seq(Pairs) /\ bucket(k) \in Buckets
      /\ At(t, k) = Find(Chain(t, k), k)
  BY ChainIs, BucketIs
<1>2. PICK i \in DOMAIN Chain(t, k) : Chain(t, k)[i].first = k
  BY <1>1 DEF exists, Find
<1>3. Good(Chain(t, k), bucket(k))
  BY <1>1 DEF AllGood
<1>4. Find(Chain(t, k), k) = {i} /\ First(Find(Chain(t, k), k)) = i
  BY <1>1, <1>2, <1>3, FoundAt
<1>5. i \in Nat
  BY <1>1, LenProperties
<1> QED
  BY <1>1, <1>2, <1>4, <1>5

\* One chain changes.
LEMMA ChainStep ==
  ASSUME TableType, AllGood, NEW t \in Tables, NEW k \in Keys, NEW s \in Seq(Pairs),
         Good(s, bucket(k)), SetChain(t, k, s),
         \A c \in Keys \ {k} : Val(s, c) = Val(Chain(t, k), c)
  PROVE  /\ TableType' /\ AllGood'
         /\ Value(t, k)' = Val(s, k)
         /\ \A u \in Tables, c \in Keys : ~(u = t /\ c = k) => Value(u, c)' = Value(u, c)
<1>0. elems' = [elems EXCEPT ![t][bucket(k)] = s] /\ bucket(k) \in Buckets
  BY BucketIs DEF SetChain, bucket
<1>1. TableType'
  BY <1>0 DEF TableType
<1>2. \A u \in Tables, c \in Buckets : elems'[u][c] = IF u = t /\ c = bucket(k) THEN s ELSE elems[u][c]
  BY <1>0 DEF TableType
<1>3. AllGood'
  BY <1>2 DEF AllGood, Good, bucket
<1>4. \A u \in Tables, c \in Keys : Value(u, c)' = Val(elems'[u][bucket(c)], c)
  BY <1>1, BucketIs DEF TableType, Chain, bucket, At, Find, Value, exists, Val
<1>5. Value(t, k)' = Val(s, k)
  BY <1>0, <1>2, <1>4
<1>6. ASSUME NEW u \in Tables, NEW c \in Keys, ~(u = t /\ c = k) PROVE Value(u, c)' = Value(u, c)
  <2>1. Value(u, c) = Val(elems[u][bucket(c)], c)
    BY ChainIs
  <2>2. bucket(c) \in Buckets
    BY BucketIs
  <2>3. CASE u = t /\ bucket(c) = bucket(k)
    <3>1. Val(s, c) = Val(Chain(t, k), c) /\ Chain(t, k) = elems[t][bucket(k)]
      BY <1>6, <2>3, ChainIs
    <3> QED
      BY <1>2, <1>4, <2>1, <2>2, <2>3, <3>1
  <2>4. CASE ~(u = t /\ bucket(c) = bucket(k))
    BY <1>2, <1>4, <2>1, <2>2, <2>4
  <2> QED
    BY <2>3, <2>4
<1> QED
  BY <1>1, <1>3, <1>5, <1>6

-----------------------------------------------------------------------------
(* What the operations do to the tables                                      *)

Map == [t \in Tables |-> [k \in Keys |-> Value(t, k)]]

\* Map under a new value for one key of one table.
LEMMA OneValue ==
  ASSUME NEW t \in Tables, NEW k \in Keys, NEW v, Value(t, k)' = v,
         \A u \in Tables, c \in Keys : ~(u = t /\ c = k) => Value(u, c)' = Value(u, c)
  PROVE  Map' = [Map EXCEPT ![t][k] = v]
<1> DEFINE M == [Map EXCEPT ![t][k] = v]
<1>1. Map' = [u \in Tables |-> [c \in Keys |-> Value(u, c)']]
  BY DEF Map
<1>2. M = [u \in Tables |-> IF u = t THEN [Map[t] EXCEPT ![k] = v] ELSE Map[u]]
  BY DEF Map
<1>3. ASSUME NEW u \in Tables PROVE [c \in Keys |-> Value(u, c)'] = IF u = t THEN [Map[t] EXCEPT ![k] = v] ELSE Map[u]
  <2>1. Map[u] = [c \in Keys |-> Value(u, c)]
    BY DEF Map
  <2>2. CASE u = t
    <3>1. \A c \in Keys : Value(t, c)' = IF c = k THEN v ELSE Value(t, c)
      BY <2>2
    <3>2. [c \in Keys |-> Value(t, c)'] = [[c \in Keys |-> Value(t, c)] EXCEPT ![k] = v]
      BY <3>1
    <3> QED
      BY <2>1, <2>2, <3>2
  <2>3. CASE u # t
    BY <2>1, <2>3
  <2> QED
    BY <2>2, <2>3
<1> QED
  BY <1>1, <1>2, <1>3

LEMMA AddStep ==
  ASSUME TableType, AllGood, NEW t \in Tables, NEW k \in Keys, NEW v \in Values, ~exists(t, k),
         SetChain(t, k, Append(Chain(t, k), Pair(k, v)))
  PROVE  TableType' /\ AllGood' /\ Map' = [Map EXCEPT ![t][k] = v]
<1> DEFINE s == Append(Chain(t, k), Pair(k, v))
<1>1. Chain(t, k) \in Seq(Pairs) /\ Good(Chain(t, k), bucket(k)) /\ Find(Chain(t, k), k) = {}
  BY ChainIs, BucketIs DEF AllGood, exists
<1>2. /\ s \in Seq(Pairs) /\ Good(s, bucket(k)) /\ Val(s, k) = v
      /\ \A c \in Keys \ {k} : Val(s, c) = Val(Chain(t, k), c)
  BY <1>1, AppendGood
<1>3. SetChain(t, k, s)
  OBVIOUS
<1> HIDE DEF s
<1>4. /\ TableType' /\ AllGood' /\ Value(t, k)' = v
      /\ \A u \in Tables, c \in Keys : ~(u = t /\ c = k) => Value(u, c)' = Value(u, c)
  BY <1>2, <1>3, ChainStep
<1> QED
  BY <1>4, OneValue

LEMMA PutStep ==
  ASSUME TableType, AllGood, NEW t \in Tables, NEW k \in Keys, NEW v \in Values, exists(t, k),
         SetChain(t, k, [Chain(t, k) EXCEPT ![First(At(t, k))] = Pair(k, v)])
  PROVE  TableType' /\ AllGood' /\ Map' = [Map EXCEPT ![t][k] = v]
<1> DEFINE i == First(At(t, k))
           s == [Chain(t, k) EXCEPT ![i] = Pair(k, v)]
<1>1. Chain(t, k) \in Seq(Pairs) /\ Good(Chain(t, k), bucket(k)) /\ i \in DOMAIN Chain(t, k) /\ i \in Find(Chain(t, k), k)
  BY ZenonT(60), ChainIs, BucketIs, FoundIs DEF AllGood, Find
<1>3. SetChain(t, k, s)
  OBVIOUS
<1> HIDE DEF i
<1>2. s \in Seq(Pairs) /\ Good(s, bucket(k))
  BY <1>1, PutGood
<1>5. Val(s, k) = v
  BY <1>1, PutGood, Zenon
<1>6. \A c \in Keys \ {k} : Val(s, c) = Val(Chain(t, k), c)
  <2>1. \A x \in Seq(Pairs) : \A j \in DOMAIN x : Good(x, bucket(k)) /\ j \in Find(x, k) =>
          \A c \in Keys \ {k} : Val([x EXCEPT ![j] = Pair(k, v)], c) = Val(x, c)
    BY PutOthers, Zenon
  <2> QED
    BY <1>1, <2>1, Zenon
<1> HIDE DEF s
<1>4. /\ TableType' /\ AllGood' /\ Value(t, k)' = v
      /\ \A u \in Tables, c \in Keys : ~(u = t /\ c = k) => Value(u, c)' = Value(u, c)
  BY <1>2, <1>3, <1>5, <1>6, ChainStep
<1> QED
  BY <1>4, OneValue

LEMMA EraseStep ==
  ASSUME TableType, AllGood, NEW t \in Tables, NEW k \in Keys, Erase(t, k)
  PROVE  TableType' /\ AllGood' /\ Map' = [Map EXCEPT ![t][k] = Absent]
<1> DEFINE i == First(At(t, k))
           s == RemoveAt(Chain(t, k), i)
<1>1. Chain(t, k) \in Seq(Pairs) /\ Good(Chain(t, k), bucket(k)) /\ i \in DOMAIN Chain(t, k) /\ Chain(t, k)[i].first = k
  BY ChainIs, BucketIs, FoundIs DEF AllGood, Erase
<1>3. SetChain(t, k, s)
  BY DEF Erase
<1> HIDE DEF i
<1>2. /\ s \in Seq(Pairs) /\ Good(s, bucket(k)) /\ Val(s, k) = Absent
      /\ \A c \in Keys \ {k} : Val(s, c) = Val(Chain(t, k), c)
  BY <1>1, RemoveGood
<1> HIDE DEF s
<1>4. /\ TableType' /\ AllGood' /\ Value(t, k)' = Absent
      /\ \A u \in Tables, c \in Keys : ~(u = t /\ c = k) => Value(u, c)' = Value(u, c)
  BY <1>2, <1>3, ChainStep
<1> QED
  BY <1>4, OneValue

LEMMA NoElemsIs ==
  /\ NoElems \in [Buckets -> Seq(Pairs)] /\ \A c \in Buckets : NoElems[c] = <<>> /\ Good(NoElems[c], c)
  /\ \A k \in Keys : Val(NoElems[bucket(k)], k) = Absent
<1>1. <<>> \in Seq(Pairs) /\ DOMAIN <<>> = {}
  BY EmptySeq
<1>2. \A c \in Buckets : NoElems[c] = <<>>
  BY DEF NoElems
<1>3. NoElems \in [Buckets -> Seq(Pairs)]
  BY <1>1 DEF NoElems
<1>4. \A c : Good(<<>>, c) /\ Val(<<>>, c) = Absent
  BY <1>1 DEF Good, Val, Find
<1> QED
  BY <1>2, <1>3, <1>4, BucketIs

\* Whole tables change.
LEMMA TablesStep ==
  ASSUME TableType, AllGood, NEW f \in [Tables -> [Buckets -> Seq(Pairs)]], elems' = f,
         \A t \in Tables : f[t] = NoElems \/ \E u \in Tables : f[t] = elems[u]
  PROVE  TableType' /\ AllGood' /\ \A t \in Tables, k \in Keys : Value(t, k)' = Val(f[t][bucket(k)], k)
<1>1. TableType'
  BY DEF TableType
<1>2. ASSUME NEW t \in Tables, NEW c \in Buckets PROVE Good(f[t][c], c)
  BY NoElemsIs DEF AllGood
<1>3. AllGood'
  BY <1>2 DEF AllGood
<1>4. \A u \in Tables, c \in Keys : Value(u, c)' = Val(elems'[u][bucket(c)], c)
  BY <1>1, BucketIs DEF TableType, Chain, bucket, At, Find, Value, exists, Val
<1> QED
  BY <1>1, <1>3, <1>4

LEMMA ClearStep ==
  ASSUME TableType, AllGood, NEW t \in Tables, Clear(t)
  PROVE  TableType' /\ AllGood' /\ Map' = [Map EXCEPT ![t] = [k \in Keys |-> Absent]]
<1> DEFINE f == [elems EXCEPT ![t] = NoElems]
<1>1. f \in [Tables -> [Buckets -> Seq(Pairs)]] /\ \A u \in Tables : f[u] = IF u = t THEN NoElems ELSE elems[u]
  BY NoElemsIs DEF TableType
<1>2. elems' = f
  BY DEF Clear
<1> HIDE DEF f
<1>3. TableType' /\ AllGood' /\ \A u \in Tables, k \in Keys : Value(u, k)' = Val(f[u][bucket(k)], k)
  BY <1>1, <1>2, TablesStep
<1>4. ASSUME NEW w \in Tables, NEW k \in Keys PROVE Value(w, k)' = IF w = t THEN Absent ELSE Value(w, k)
  <2>1. f[w] = IF w = t THEN NoElems ELSE elems[w]
    BY <1>1
  <2>2. Value(w, k)' = Val(f[w][bucket(k)], k)
    BY <1>3
  <2>3. \A x \in Tables : Value(x, k) = Val(elems[x][bucket(k)], k)
    BY ValueIs
  <2>4. Val(NoElems[bucket(k)], k) = Absent
    BY NoElemsIs
  <2> QED
    BY <2>1, <2>2, <2>3, <2>4
<1>5. Map' = [w \in Tables |-> [k \in Keys |-> Value(w, k)']]
  BY DEF Map
<1>6. ASSUME NEW w \in Tables PROVE [k \in Keys |-> Value(w, k)'] = IF w = t THEN [k \in Keys |-> Absent] ELSE Map[w]
  BY <1>4, <1>6 DEF Map
<1>7. /\ DOMAIN Map = Tables
  BY DEF Map
<1> QED
  BY <1>3, <1>5, <1>6, <1>7

LEMMA CopyStep ==
  ASSUME TableType, AllGood, NEW t \in Tables, NEW u \in Tables, CopyFrom(t, u)
  PROVE  TableType' /\ AllGood' /\ Map' = [Map EXCEPT ![t] = Map[u]]
<1> DEFINE f == [elems EXCEPT ![t] = elems[u]]
<1>1. f \in [Tables -> [Buckets -> Seq(Pairs)]] /\ \A w \in Tables : f[w] = IF w = t THEN elems[u] ELSE elems[w]
  BY DEF TableType
<1>2. elems' = f
  BY DEF CopyFrom
<1> HIDE DEF f
<1>3. TableType' /\ AllGood' /\ \A w \in Tables, k \in Keys : Value(w, k)' = Val(f[w][bucket(k)], k)
  BY <1>1, <1>2, TablesStep
<1>4. ASSUME NEW w \in Tables, NEW k \in Keys PROVE Value(w, k)' = IF w = t THEN Value(u, k) ELSE Value(w, k)
  <2>1. f[w] = IF w = t THEN elems[u] ELSE elems[w]
    BY <1>1
  <2>2. Value(w, k)' = Val(f[w][bucket(k)], k)
    BY <1>3
  <2>3. \A x \in Tables : Value(x, k) = Val(elems[x][bucket(k)], k)
    BY ValueIs
  <2> QED
    BY <2>1, <2>2, <2>3
<1>5. Map' = [w \in Tables |-> [k \in Keys |-> Value(w, k)']]
  BY DEF Map
<1>6. ASSUME NEW w \in Tables PROVE [k \in Keys |-> Value(w, k)'] = IF w = t THEN Map[u] ELSE Map[w]
  BY <1>4, <1>6 DEF Map
<1>7. /\ DOMAIN Map = Tables
  BY DEF Map
<1> QED
  BY <1>3, <1>5, <1>6, <1>7

LEMMA MoveStep ==
  ASSUME TableType, AllGood, NEW t \in Tables, NEW u \in Tables, MoveFrom(t, u)
  PROVE  TableType' /\ AllGood' /\ Map' = [Map EXCEPT ![t] = Map[u], ![u] = [k \in Keys |-> Absent]]
<1> DEFINE f == [elems EXCEPT ![t] = elems[u], ![u] = NoElems]
<1>0. t # u
  BY DEF MoveFrom
<1>1. f \in [Tables -> [Buckets -> Seq(Pairs)]] /\ \A w \in Tables : f[w] = IF w = u THEN NoElems ELSE IF w = t THEN elems[u] ELSE elems[w]
  BY <1>0, NoElemsIs DEF TableType
<1>2. elems' = f
  BY DEF MoveFrom
<1> HIDE DEF f
<1>3. TableType' /\ AllGood' /\ \A w \in Tables, k \in Keys : Value(w, k)' = Val(f[w][bucket(k)], k)
  BY <1>1, <1>2, TablesStep
<1>4. ASSUME NEW w \in Tables, NEW k \in Keys PROVE Value(w, k)' = IF w = u THEN Absent ELSE IF w = t THEN Value(u, k) ELSE Value(w, k)
  <2>1. f[w] = IF w = u THEN NoElems ELSE IF w = t THEN elems[u] ELSE elems[w]
    BY <1>1
  <2>2. Value(w, k)' = Val(f[w][bucket(k)], k)
    BY <1>3
  <2>3. \A x \in Tables : Value(x, k) = Val(elems[x][bucket(k)], k)
    BY ValueIs
  <2>4. Val(NoElems[bucket(k)], k) = Absent
    BY NoElemsIs
  <2> QED
    BY <2>1, <2>2, <2>3, <2>4
<1>5. Map' = [w \in Tables |-> [k \in Keys |-> Value(w, k)']]
  BY DEF Map
<1>6. ASSUME NEW w \in Tables PROVE [k \in Keys |-> Value(w, k)'] = IF w = u THEN [k \in Keys |-> Absent] ELSE IF w = t THEN Map[u] ELSE Map[w]
  BY <1>4, <1>6 DEF Map
<1>7. /\ DOMAIN Map = Tables
  BY DEF Map
<1> QED
  BY <1>0, <1>3, <1>5, <1>6, <1>7

\* A step leaves the tables as they are, or does to them what KeyMap allows.
LEMMA TableStep ==
  ASSUME TableType, AllGood, [Next]_vars
  PROVE  TableType' /\ AllGood' /\ (Map' = Map \/ Map' \in Contract!Outcomes(Map))
<1> DEFINE Done == TableType' /\ AllGood' /\ (Map' = Map \/ Map' \in Contract!Outcomes(Map))
<1>1. ASSUME NEW t \in Tables, NEW k \in Keys, NEW v \in Values, ~exists(t, k),
             SetChain(t, k, Append(Chain(t, k), Pair(k, v)))
      PROVE  Done
  <2>1. TableType' /\ AllGood' /\ Map' = [Map EXCEPT ![t][k] = v]
    BY <1>1, AddStep
  <2>2. Map' = Contract!Put(Map, t, k, v)
    BY <2>1 DEF Contract!Put
  <2>3. Map' \in Contract!Outcomes(Map)
    BY <2>2 DEF Contract!Outcomes
  <2> QED
    BY <2>1, <2>3
<1>2. ASSUME NEW t \in Tables, NEW k \in Keys, NEW v \in Values, exists(t, k),
             SetChain(t, k, [Chain(t, k) EXCEPT ![First(At(t, k))] = Pair(k, v)])
      PROVE  Done
  <2>1. TableType' /\ AllGood' /\ Map' = [Map EXCEPT ![t][k] = v]
    BY <1>2, PutStep
  <2>2. Map' = Contract!Put(Map, t, k, v)
    BY <2>1 DEF Contract!Put
  <2>3. Map' \in Contract!Outcomes(Map)
    BY <2>2 DEF Contract!Outcomes
  <2> QED
    BY <2>1, <2>3
<1>3. ASSUME NEW t \in Tables, NEW k \in Keys, Erase(t, k) PROVE Done
  BY <1>3, EraseStep DEF Contract!Outcomes, Contract!Remove
<1>4. ASSUME NEW t \in Tables, Clear(t) PROVE Done
  BY <1>4, ClearStep DEF Contract!Outcomes, Contract!Empty, Contract!NoKeys
<1>5. ASSUME NEW t \in Tables, NEW u \in Tables, CopyFrom(t, u) PROVE Done
  BY <1>5, CopyStep DEF Contract!Outcomes, Contract!Copy
<1>6. ASSUME NEW t \in Tables, NEW u \in Tables, MoveFrom(t, u) PROVE Done
  BY <1>6, MoveStep DEF Contract!Outcomes, Contract!Move, Contract!NoKeys
<1>7. ASSUME UNCHANGED tvars PROVE Done
  <2>1. TableType' /\ AllGood'
    BY <1>7 DEF tvars, TableType, AllGood
  <2>2. Map' = Map
    BY <1>7 DEF tvars, Map, Value, exists, At, Chain
  <2> QED
    BY <2>1, <2>2
<1>8. ASSUME NEW t \in Tables, NEW k \in Keys, NEW v \in Values, Assign(t, k, v) \/ AddListed(t, k, v) PROVE Done
  BY <1>1, <1>2, <1>8 DEF Assign, AddListed
<1>9. ASSUME NEW t \in Tables, NEW k \in Keys, Touch(t, k) PROVE Done
  BY <1>1, <1>9, DefaultType DEF Touch
<1> HIDE DEF Done
<1>10. Done
  BY <1>3, <1>4, <1>5, <1>6, <1>7, <1>8, <1>9 DEF Next, Begin, Increment, Break, vars
<1> QED
  BY <1>10 DEF Done

LEMMA TableInit == Init => TableType /\ AllGood /\ Map = [t \in Tables |-> [k \in Keys |-> Absent]]
<1> SUFFICES ASSUME Init PROVE TableType /\ AllGood /\ Map = [t \in Tables |-> [k \in Keys |-> Absent]]
  OBVIOUS
<1>1. TableType /\ \A t \in Tables : elems[t] = NoElems
  BY NoElemsIs DEF Init, TableType
<1>2. AllGood
  BY <1>1, NoElemsIs DEF AllGood
<1>3. \A t \in Tables, k \in Keys : Value(t, k) = Absent
  BY <1>1, NoElemsIs, ValueIs
<1> QED
  BY <1>1, <1>2, <1>3 DEF Map

LEMMA TableAlways == Spec => [](TableType /\ AllGood)
<1>1. Init => TableType /\ AllGood
  BY TableInit
<1>2. TableType /\ AllGood /\ [Next]_vars => (TableType /\ AllGood)'
  BY TableStep
<1> QED
  BY <1>1, <1>2, PTL DEF Spec

\* Every element is in the bucket of its key and no key has two, for every hash,
\* any number of buckets and whatever is done to the tables; aarray.h 367-398,
\* 471-490, 612-639.
THEOREM LookupsThm == Spec => []LookupsAgree
<1>1. TableType /\ AllGood => LookupsAgree
  BY AgreeIs
<1> QED
  BY <1>1, TableAlways, PTL

\* The tables are maps from keys to values: AArray implements KeyMap.
THEOREM AArrayImplementsKeyMap == Spec => ImplementsKeyMap
<1>1. Init => Contract!KInit
  BY TableInit DEF Contract!KInit, Contract!NoKeys, Map
<1>2. TableType /\ AllGood /\ [Next]_vars => [Map' \in Contract!Outcomes(Map)]_Map
  BY TableStep
<1>3. TableType /\ AllGood /\ [Next]_vars =>
        [([t \in Tables |-> [k \in Keys |-> Value(t, k)]])' \in Contract!Outcomes([t \in Tables |-> [k \in Keys |-> Value(t, k)]])]_([t \in Tables |-> [k \in Keys |-> Value(t, k)]])
  BY <1>2 DEF Map
<1> QED
  BY <1>1, <1>3, TableAlways, PTL DEF Spec, ImplementsKeyMap, Contract!KSpec

-----------------------------------------------------------------------------
(* Where keys are                                                            *)

LEMMA FirstIs == \A S \in SUBSET Nat : S # {} => First(S) \in S /\ \A j \in S : First(S) <= j
<1> SUFFICES ASSUME NEW S \in SUBSET Nat, S # {} PROVE First(S) \in S /\ \A j \in S : First(S) <= j
  OBVIOUS
<1>1. \E i \in S : \A j \in S : i <= j
  BY Least
<1> QED
  BY <1>1 DEF First

LEMMA NextIs ==
  ASSUME TableType, NEW t \in Tables, NEW c \in 0 .. buckets
  PROVE  /\ NextBucket(t, c) \in c .. buckets
         /\ NextBucket(t, c) # buckets => NextBucket(t, c) \in Buckets /\ elems[t][NextBucket(t, c)] # <<>>
         /\ \A d \in Buckets : elems[t][d] # <<>> => d < c \/ NextBucket(t, c) <= d
<1> DEFINE filled == {d \in c .. buckets - 1 : elems[t][d] # <<>>}
<1>0. buckets \in Nat /\ c \in Nat /\ Buckets = 0 .. buckets - 1
  BY BucketIs DEF Buckets
<1>1. filled \in SUBSET Nat /\ NextBucket(t, c) = IF filled = {} THEN buckets ELSE First(filled)
  BY <1>0 DEF NextBucket
<1>2. filled # {} => First(filled) \in filled /\ \A d \in filled : First(filled) <= d
  BY <1>1, FirstIs
<1>3. \A d \in Buckets : elems[t][d] # <<>> => d < c \/ d \in filled
  BY <1>0
<1>4. \A d \in filled : d \in c .. buckets - 1 /\ elems[t][d] # <<>>
  OBVIOUS
<1> HIDE DEF filled
<1>5. CASE filled = {}
  BY <1>0, <1>1, <1>3, <1>5
<1>6. CASE filled # {}
  <2>1. NextBucket(t, c) \in filled /\ \A d \in filled : NextBucket(t, c) <= d
    BY <1>1, <1>2, <1>6
  <2> QED
    BY <1>0, <1>3, <1>4, <2>1
<1> QED
  BY <1>5, <1>6

LEMMA RowPlaces ==
  ASSUME NEW f \in Rows
  PROVE  /\ \A k \in Keys : Has(f, k) =>
              /\ Place(f, k) \in DOMAIN f[bucket(k)] /\ Place(f, k) \in Nat \ {0}
              /\ Place(f, k) <= Len(f[bucket(k)]) /\ f[bucket(k)][Place(f, k)].first = k
         /\ \A c \in Buckets : \A i \in DOMAIN f[c] :
              /\ f[c][i].first \in Keys /\ bucket(f[c][i].first) = c
              /\ Has(f, f[c][i].first) /\ Place(f, f[c][i].first) = i
<1>1. \A c \in Buckets : f[c] \in Seq(Pairs) /\ Good(f[c], c)
  BY DEF Rows
<1>2. ASSUME NEW c \in Buckets, NEW i \in DOMAIN f[c]
      PROVE  /\ f[c][i].first \in Keys /\ bucket(f[c][i].first) = c
             /\ Has(f, f[c][i].first) /\ Place(f, f[c][i].first) = i
  <2>1. f[c] \in Seq(Pairs) /\ Good(f[c], c)
    BY <1>1
  <2>2. f[c][i] \in Pairs
    BY <1>2, <2>1
  <2>3. f[c][i].first \in Keys /\ bucket(f[c][i].first) = c
    BY <1>2, <2>1, <2>2 DEF Pairs, Good
  <2>4. Find(f[c], f[c][i].first) = {i} /\ First(Find(f[c], f[c][i].first)) = i
    BY <1>2, <2>1, FoundAt
  <2> QED
    BY <2>3, <2>4 DEF Has, Place
<1>3. ASSUME NEW k \in Keys, Has(f, k)
      PROVE  /\ Place(f, k) \in DOMAIN f[bucket(k)] /\ Place(f, k) \in Nat \ {0}
             /\ Place(f, k) <= Len(f[bucket(k)]) /\ f[bucket(k)][Place(f, k)].first = k
  <2>1. PICK i \in DOMAIN f[bucket(k)] : f[bucket(k)][i].first = k
    BY <1>3 DEF Has, Find
  <2>2. bucket(k) \in Buckets
    BY BucketIs
  <2>3. Place(f, k) = i
    BY <1>2, <2>1, <2>2
  <2>4. i \in Nat \ {0} /\ i <= Len(f[bucket(k)])
    BY <1>1, <2>1, <2>2, LenProperties
  <2> QED
    BY <2>1, <2>3, <2>4
<1> QED
  BY <1>2, <1>3

\* Keys that keep their place are kept.
LEMMA PlaceKept ==
  ASSUME NEW f \in Rows, NEW g \in Rows, NEW K \in SUBSET Keys,
         \A k \in K : Has(f, k) => Place(f, k) \in DOMAIN g[bucket(k)] /\ g[bucket(k)][Place(f, k)].first = k
  PROVE  Kept(f, g, K)
<1>1. ASSUME NEW k \in K, Has(f, k) PROVE Has(g, k) /\ Place(g, k) = Place(f, k)
  BY <1>1, RowPlaces, BucketIs
<1> QED
  BY <1>1 DEF Kept, Passed

LEMMA RowAdded ==
  ASSUME NEW f \in Rows, NEW g \in Rows, NEW k \in Keys, NEW v \in Values, Find(f[bucket(k)], k) = {},
         g[bucket(k)] = Append(f[bucket(k)], Pair(k, v)),
         \A c \in Buckets \ {bucket(k)} : g[c] = f[c]
  PROVE  Kept(f, g, Keys)
<1>1. f[bucket(k)] \in Seq(Pairs) /\ Good(f[bucket(k)], bucket(k))
  BY BucketIs DEF Rows
<1>2. \A i \in DOMAIN f[bucket(k)] : i \in DOMAIN g[bucket(k)] /\ g[bucket(k)][i] = f[bucket(k)][i]
  BY <1>1, AppendGood
<1>3. ASSUME NEW j \in Keys, Has(f, j)
      PROVE  Place(f, j) \in DOMAIN g[bucket(j)] /\ g[bucket(j)][Place(f, j)].first = j
  <2>1. Place(f, j) \in DOMAIN f[bucket(j)] /\ f[bucket(j)][Place(f, j)].first = j /\ bucket(j) \in Buckets
    BY <1>3, RowPlaces, BucketIs
  <2>2. CASE bucket(j) = bucket(k)
    BY <1>2, <2>1, <2>2
  <2>3. CASE bucket(j) # bucket(k)
    BY <2>1, <2>3
  <2> QED
    BY <2>2, <2>3
<1> QED
  BY <1>3, PlaceKept

LEMMA RowPut ==
  ASSUME NEW f \in Rows, NEW g \in Rows, NEW k \in Keys,
         DOMAIN g[bucket(k)] = DOMAIN f[bucket(k)],
         \A i \in DOMAIN f[bucket(k)] : g[bucket(k)][i].first = f[bucket(k)][i].first,
         \A c \in Buckets \ {bucket(k)} : g[c] = f[c]
  PROVE  Kept(f, g, Keys)
<1>3. ASSUME NEW j \in Keys, Has(f, j)
      PROVE  Place(f, j) \in DOMAIN g[bucket(j)] /\ g[bucket(j)][Place(f, j)].first = j
  <2>1. Place(f, j) \in DOMAIN f[bucket(j)] /\ f[bucket(j)][Place(f, j)].first = j /\ bucket(j) \in Buckets
    BY <1>3, RowPlaces, BucketIs
  <2>2. CASE bucket(j) = bucket(k)
    BY <2>1, <2>2
  <2>3. CASE bucket(j) # bucket(k)
    BY <2>1, <2>3
  <2> QED
    BY <2>2, <2>3
<1> QED
  BY <1>3, PlaceKept

LEMMA RowRemoved ==
  ASSUME NEW f \in Rows, NEW g \in Rows, NEW k \in Keys, NEW i \in DOMAIN f[bucket(k)], f[bucket(k)][i].first = k,
         g[bucket(k)] = RemoveAt(f[bucket(k)], i),
         \A c \in Buckets \ {bucket(k)} : g[c] = f[c]
  PROVE  Kept(f, g, Keys \ {k})
<1> DEFINE shifted(j) == IF bucket(j) = bucket(k) /\ ~(Place(f, j) < i) THEN Place(f, j) - 1 ELSE Place(f, j)
<1>1. f[bucket(k)] \in Seq(Pairs) /\ Good(f[bucket(k)], bucket(k)) /\ bucket(k) \in Buckets /\ i \in Nat
  BY BucketIs, LenProperties DEF Rows
<1>2. \A j \in DOMAIN f[bucket(k)] \ {i} : LET l == IF j < i THEN j ELSE j - 1 IN
         l \in DOMAIN g[bucket(k)] /\ g[bucket(k)][l] = f[bucket(k)][j]
  BY <1>1, RemoveGood
<1>3. Place(f, k) = i
  BY <1>1, RowPlaces
<1>4. ASSUME NEW j \in Keys \ {k}, Has(f, j)
      PROVE  Has(g, j) /\ Place(g, j) = shifted(j) /\ Place(f, j) \in Nat /\ (bucket(j) = bucket(k) => Place(f, j) # i)
  <2>1. /\ Place(f, j) \in DOMAIN f[bucket(j)] /\ f[bucket(j)][Place(f, j)].first = j /\ bucket(j) \in Buckets
        /\ Place(f, j) \in Nat
    BY <1>4, RowPlaces, BucketIs
  <2>2. CASE bucket(j) = bucket(k)
    <3>1. Place(f, j) # i
      BY <2>1, <2>2
    <3>2. shifted(j) \in DOMAIN g[bucket(j)] /\ g[bucket(j)][shifted(j)] = f[bucket(j)][Place(f, j)]
      BY <1>2, <2>1, <2>2, <3>1
    <3> HIDE DEF shifted
    <3>3. Has(g, j) /\ Place(g, j) = shifted(j)
      BY <2>1, <3>2, RowPlaces
    <3> QED
      BY <2>1, <3>1, <3>3
  <2>3. CASE bucket(j) # bucket(k)
    <3>1. Has(g, j) /\ Place(g, j) = Place(f, j)
      BY <2>1, <2>3, RowPlaces
    <3> QED
      BY <2>1, <2>3, <3>1
  <2> QED
    BY <2>2, <2>3
<1>5. ASSUME NEW j \in Keys \ {k}, NEW l \in Keys \ {k}, Has(f, j), Has(f, l)
      PROVE  Passed(g, j, l) <=> Passed(f, j, l)
  <2>1. /\ Place(g, j) = shifted(j) /\ Place(f, j) \in Nat /\ (bucket(j) = bucket(k) => Place(f, j) # i)
        /\ Place(g, l) = shifted(l) /\ Place(f, l) \in Nat /\ (bucket(l) = bucket(k) => Place(f, l) # i)
    BY <1>4, <1>5
  <2>2. bucket(j) = bucket(l) => (shifted(l) <= shifted(j) <=> Place(f, l) <= Place(f, j))
    BY <1>1, <2>1
  <2> QED
    BY <2>1, <2>2 DEF Passed
<1> QED
  BY <1>4, <1>5 DEF Kept

-----------------------------------------------------------------------------
(* The loop                                                                  *)

LEMMA RowIs == TableType /\ AllGood => \A t \in Tables : elems[t] \in Rows
BY DEF TableType, AllGood, Rows

LEMMA HasIs ==
  ASSUME TableType, NEW t \in Tables, NEW k \in Keys
  PROVE  /\ exists(t, k) <=> Has(elems[t], k)
         /\ First(At(t, k)) = Place(elems[t], k)
BY ChainIs DEF exists, Has, Place

\* The iterator stays where it is, and so do the keys that count.
LEMMA WalkKept ==
  ASSUME WalkInv, UNCHANGED <<e, b, walk>>, NEW K \in SUBSET Keys,
         e # NoKey => e \in K /\ Kept(elems[walk], elems'[walk], K),
         Stayed' \subseteq Stayed \cap K, \A k \in Stayed' : visits'[k] = visits[k]
  PROVE  WalkInv'
<1>1. walk' \in Tables /\ Stayed' \subseteq Keys
  BY DEF WalkInv
<1>2. CASE e = NoKey
  BY <1>1, <1>2 DEF WalkInv
<1>3. CASE e # NoKey
  <2> DEFINE f == elems[walk]
             g == elems'[walk]
  <2>1. /\ e \in K /\ Has(f, e) /\ b = bucket(e) /\ \A k \in Stayed : Has(f, k)
        /\ \A k \in Stayed : visits[k] = IF Passed(f, e, k) THEN 1 ELSE 0
    BY <1>3 DEF WalkInv
  <2>2. Kept(f, g, K)
    BY <1>3
  <2> HIDE DEF f, g
  <2>3. \A k \in K : Has(f, k) => Has(g, k) /\ (Passed(g, e, k) <=> Passed(f, e, k))
    BY <2>1, <2>2 DEF Kept
  <2>4. Has(g, e) /\ \A k \in Stayed' : Has(g, k) /\ visits'[k] = IF Passed(g, e, k) THEN 1 ELSE 0
    BY <2>1, <2>3
  <2>5. g = elems'[walk'] /\ e' = e /\ b' = b
    BY DEF g
  <2>6. e' \in Keys /\ Has(elems'[walk'], e') /\ b' = bucket(e')
    BY <2>1, <2>4, <2>5
  <2>7. \A k \in Stayed' : Has(elems'[walk'], k) /\ visits'[k] = IF Passed(elems'[walk'], e', k) THEN 1 ELSE 0
    BY <2>4, <2>5
  <2> QED
    BY <1>1, <1>3, <2>5, <2>6, <2>7 DEF WalkInv, Has, Passed, Place, Find, bucket, getbucket, mask, First
<1> QED
  BY <1>2, <1>3

\* The tables stay as they are and the iterator goes to position i of bucket c,
\* the one after those it has passed.
LEMMA EnterStep ==
  ASSUME WalkInv, TableType, AllGood, e # NoKey, UNCHANGED <<tvars, walk>>,
         NEW c \in Buckets, NEW i \in DOMAIN elems[walk][c], Enter(walk, c, i),
         \A k \in Keys : Has(elems[walk], k) =>
           (Passed(elems[walk], e, k) <=> bucket(k) < c \/ (bucket(k) = c /\ Place(elems[walk], k) < i))
  PROVE  WalkInv'
<1> DEFINE f == elems[walk]
           q == f[c][i].first
<1>1. f \in Rows /\ walk \in Tables
  BY RowIs DEF WalkInv
<1>2. q \in Keys /\ bucket(q) = c /\ Has(f, q) /\ Place(f, q) = i /\ q # NoKey
  BY <1>1, RowPlaces, NoKeyAssumption
<1>3. /\ c # buckets /\ e' = q /\ b' = c
      /\ visits' = [j \in Stayed |-> IF j = q /\ visits[q] < 2 THEN visits[q] + 1 ELSE visits[j]]
  BY BucketIs DEF Enter, Buckets
<1>4. /\ Stayed \subseteq Keys /\ \A k \in Stayed : Has(f, k)
      /\ \A k \in Stayed : visits[k] = IF Passed(f, e, k) THEN 1 ELSE 0
  BY DEF WalkInv
<1>5. \A k \in Keys : Has(f, k) => (Passed(f, e, k) <=> bucket(k) < c \/ (bucket(k) = c /\ Place(f, k) < i))
  OBVIOUS
<1>6. \A k \in Keys : Has(f, k) => Place(f, k) \in Nat /\ f[bucket(k)][Place(f, k)].first = k /\ bucket(k) \in Int
  BY <1>1, RowPlaces, BucketIs DEF Buckets
<1>7. i \in Nat /\ c \in Int
  BY <1>2, <1>6
<1>8. \A k \in Keys : Has(f, k) /\ bucket(k) = c /\ Place(f, k) = i => k = q
  BY <1>6
<1>9. elems' = elems /\ walk' = walk /\ f = elems'[walk']
  BY DEF tvars
<1> HIDE DEF f, q
<1>10. ASSUME NEW k \in Stayed PROVE visits'[k] = IF Passed(f, q, k) THEN 1 ELSE 0
  <2>1. k \in Keys /\ Has(f, k) /\ visits[k] = IF Passed(f, e, k) THEN 1 ELSE 0
    BY <1>4
  <2>2. Passed(f, q, k) <=> bucket(k) < c \/ (bucket(k) = c /\ Place(f, k) <= i)
    BY <1>2 DEF Passed
  <2>3. CASE k = q
    BY <1>2, <1>3, <1>5, <1>7, <2>1, <2>2, <2>3
  <2>4. CASE k # q
    <3>1. Passed(f, q, k) <=> Passed(f, e, k)
      BY <1>5, <1>6, <1>7, <1>8, <2>1, <2>2, <2>4
    <3> QED
      BY <1>3, <2>1, <2>4, <3>1
  <2> QED
    BY <2>3, <2>4
<1>11. Stayed' = Stayed
  BY <1>3 DEF Stayed
<1>12. e' \in Keys /\ e' # NoKey /\ Has(elems'[walk'], e') /\ b' = bucket(e') /\ walk' \in Tables
  BY <1>1, <1>2, <1>3, <1>9
<1>13. \A k \in Stayed' : Has(elems'[walk'], k) /\ visits'[k] = IF Passed(elems'[walk'], e', k) THEN 1 ELSE 0
  BY <1>3, <1>4, <1>9, <1>10, <1>11
<1>14. Stayed' \subseteq Keys
  BY <1>4, <1>11
<1> QED
  BY <1>12, <1>13, <1>14 DEF WalkInv, Has, Passed, Place, Find, bucket, getbucket, mask, First

LEMMA IncrementStep ==
  ASSUME WalkInv, TableType, AllGood, Increment
  PROVE  WalkInv'
<1> DEFINE f == elems[walk]
           p == Place(f, e)
           d == NextBucket(walk, b + 1)
<1>1. /\ e # NoKey /\ e \in Keys /\ Has(f, e) /\ b = bucket(e) /\ walk \in Tables
      /\ UNCHANGED <<tvars, walk>>
  BY DEF WalkInv, Increment
<1>2. f \in Rows /\ b \in Buckets /\ p = First(At(walk, e))
  BY <1>1, RowIs, HasIs, BucketIs
<1>3. /\ p \in Nat \ {0} /\ p <= Len(f[b])
      /\ \A k \in Keys : Has(f, k) => /\ Place(f, k) \in Nat \ {0} /\ Place(f, k) <= Len(f[bucket(k)])
                                      /\ Place(f, k) \in DOMAIN f[bucket(k)] /\ bucket(k) \in Buckets
  BY <1>1, <1>2, RowPlaces, BucketIs
<1>4. IF p + 1 <= Len(f[b]) THEN Enter(walk, b, p + 1) ELSE Enter(walk, d, 1)
  BY <1>2 DEF Increment
<1>5. \A k : Passed(f, e, k) <=> bucket(k) < b \/ (bucket(k) = b /\ Place(f, k) <= p)
  BY <1>1 DEF Passed
<1>6. \A c \in Buckets : f[c] \in Seq(Pairs) /\ Len(f[c]) \in Nat /\ DOMAIN f[c] = 1 .. Len(f[c])
  BY <1>2, LenProperties DEF Rows
<1>7. buckets \in Nat /\ Buckets = 0 .. buckets - 1
  BY BucketIs DEF Buckets
<1> HIDE DEF p
<1>8. CASE p + 1 <= Len(f[b])
  <2>1. p + 1 \in DOMAIN f[b] /\ Enter(walk, b, p + 1)
    BY <1>2, <1>3, <1>4, <1>6, <1>8
  <2>2. \A k \in Keys : Has(f, k) =>
          (Passed(f, e, k) <=> bucket(k) < b \/ (bucket(k) = b /\ Place(f, k) < p + 1))
    BY <1>3, <1>5
  <2> QED
    BY <1>1, <1>2, <2>1, <2>2, EnterStep
<1>9. CASE ~(p + 1 <= Len(f[b]))
  <2>1. /\ d \in b + 1 .. buckets
        /\ d # buckets => d \in Buckets /\ f[d] # <<>>
        /\ \A c \in Buckets : f[c] # <<>> => c < b + 1 \/ d <= c
    BY <1>1, <1>2, <1>7, NextIs
  <2>2. Enter(walk, d, 1)
    BY <1>4, <1>9
  <2> HIDE DEF d
  <2>3. \A k \in Keys : Has(f, k) => (Passed(f, e, k) <=> bucket(k) < d)
    <3> SUFFICES ASSUME NEW k \in Keys, Has(f, k) PROVE Passed(f, e, k) <=> bucket(k) < d
      OBVIOUS
    <3>1. /\ Place(f, k) \in Nat \ {0} /\ Place(f, k) <= Len(f[bucket(k)])
          /\ Place(f, k) \in DOMAIN f[bucket(k)] /\ bucket(k) \in Buckets
      BY <1>3
    <3>2. f[bucket(k)] # <<>>
      BY <3>1
    <3>3. bucket(k) < b + 1 \/ d <= bucket(k)
      BY <2>1, <3>1, <3>2
    <3>4. bucket(k) = b => Place(f, k) <= p
      BY <1>3, <1>6, <1>9, <3>1
    <3> QED
      BY <1>2, <1>5, <1>7, <2>1, <3>1, <3>3, <3>4
  <2>4. CASE d = buckets
    <3>1. b' = buckets /\ e' = NoKey /\ visits' = visits /\ walk' = walk
      BY <1>1, <2>2, <2>4 DEF Enter
    <3>2. \A k \in Stayed : visits[k] = 1
      <4> SUFFICES ASSUME NEW k \in Stayed PROVE visits[k] = 1
        OBVIOUS
      <4>1. k \in Keys /\ Has(f, k) /\ visits[k] = IF Passed(f, e, k) THEN 1 ELSE 0
        BY <1>1 DEF WalkInv
      <4>2. bucket(k) < d
        BY <1>3, <1>7, <2>4, <4>1
      <4> QED
        BY <2>3, <4>1, <4>2
    <3> QED
      BY <1>1, <3>1, <3>2 DEF WalkInv, Stayed
  <2>5. CASE d # buckets
    <3>1. d \in Buckets /\ 1 \in DOMAIN f[d]
      BY <1>6, <2>1, <2>5
    <3>2. \A k \in Keys : Has(f, k) =>
            (Passed(f, e, k) <=> bucket(k) < d \/ (bucket(k) = d /\ Place(f, k) < 1))
      BY <1>3, <2>3
    <3> QED
      BY <1>1, <2>2, <3>1, <3>2, EnterStep
  <2> QED
    BY <2>4, <2>5
<1> QED
  BY <1>8, <1>9

LEMMA BeginStep ==
  ASSUME WalkInv, TableType, AllGood, NEW t \in Tables, Begin(t)
  PROVE  WalkInv'
<1> DEFINE f == elems[t]
           d == NextBucket(t, 0)
           q == f[d][1].first
<1>1. f \in Rows /\ buckets \in Nat /\ Buckets = 0 .. buckets - 1
  BY RowIs, BucketIs DEF Buckets
<1>2. /\ d \in 0 .. buckets
      /\ d # buckets => d \in Buckets /\ f[d] # <<>>
      /\ \A c \in Buckets : f[c] # <<>> => d <= c
  BY <1>1, NextIs
<1>3. /\ walk' = t /\ b' = d /\ elems' = elems
      /\ e' = IF d = buckets THEN NoKey ELSE q
      /\ visits' = [k \in Listed(t) |-> IF k = e' THEN 1 ELSE 0]
  BY DEF Begin, tvars
<1>4. \A k \in Listed(t) : k \in Keys /\ Has(f, k)
  BY HasIs DEF Listed
<1>5. \A k \in Keys : Has(f, k) =>
        /\ Place(f, k) \in Nat \ {0} /\ bucket(k) \in Buckets
        /\ f[bucket(k)] # <<>> /\ f[bucket(k)][Place(f, k)].first = k
  <2> SUFFICES ASSUME NEW k \in Keys, Has(f, k)
               PROVE  /\ Place(f, k) \in Nat \ {0} /\ bucket(k) \in Buckets
                      /\ f[bucket(k)] # <<>> /\ f[bucket(k)][Place(f, k)].first = k
    OBVIOUS
  <2>1. /\ Place(f, k) \in Nat \ {0} /\ Place(f, k) \in DOMAIN f[bucket(k)]
        /\ f[bucket(k)][Place(f, k)].first = k
    BY <1>1, RowPlaces
  <2> QED
    BY <2>1, BucketIs
<1>6. Stayed' = Listed(t)
  BY <1>3 DEF Stayed
<1>7. f = elems'[walk']
  BY <1>3
<1>8. CASE d = buckets
  <2>1. Listed(t) = {}
    BY <1>1, <1>2, <1>4, <1>5, <1>8
  <2> QED
    BY <1>3, <1>6, <1>8, <2>1 DEF WalkInv, Stayed
<1>9. CASE d # buckets
  <2>1. 1 \in DOMAIN f[d]
    BY <1>1, <1>2, <1>9, LenProperties DEF Rows
  <2>2. q \in Keys /\ bucket(q) = d /\ Has(f, q) /\ Place(f, q) = 1 /\ q # NoKey
    BY <1>1, <1>2, <1>9, <2>1, RowPlaces, NoKeyAssumption
  <2> HIDE DEF f, d, q
  <2>3. ASSUME NEW k \in Listed(t) PROVE Has(f, k) /\ visits'[k] = IF Passed(f, q, k) THEN 1 ELSE 0
    <3>1. k \in Keys /\ Has(f, k)
      BY <1>4
    <3>2. d <= bucket(k) /\ bucket(k) \in Buckets /\ Place(f, k) \in Nat \ {0}
      BY <1>2, <1>5, <3>1
    <3>3. bucket(k) = d /\ Place(f, k) = 1 => k = q
      BY <1>5, <3>1 DEF q
    <3>4. Passed(f, q, k) <=> k = q
      BY <1>1, <1>2, <2>2, <3>2, <3>3 DEF Passed
    <3> QED
      BY <1>3, <1>9, <3>1, <3>4
  <2>4. e' \in Keys /\ e' # NoKey /\ Has(elems'[walk'], e') /\ b' = bucket(e') /\ walk' \in Tables
    BY <1>3, <1>7, <1>9, <2>2
  <2>5. \A k \in Stayed' : Has(elems'[walk'], k) /\ visits'[k] = IF Passed(elems'[walk'], e', k) THEN 1 ELSE 0
    BY <1>3, <1>6, <1>7, <1>9, <2>3
  <2>6. Stayed' \subseteq Keys
    BY <1>4, <1>6
  <2> QED
    BY <2>4, <2>5, <2>6 DEF WalkInv, Has, Passed, Place, Find, bucket, getbucket, mask, First
<1> QED
  BY <1>8, <1>9

LEMMA SetRows ==
  ASSUME TableType, NEW t \in Tables, NEW k \in Keys, NEW s, SetChain(t, k, s)
  PROVE  /\ elems'[t][bucket(k)] = s /\ \A c \in Buckets \ {bucket(k)} : elems'[t][c] = elems[t][c]
         /\ \A u \in Tables \ {t} : elems'[u] = elems[u]
<1>1. elems' = [elems EXCEPT ![t][bucket(k)] = s] /\ bucket(k) \in Buckets
  BY BucketIs DEF SetChain, bucket
<1> QED
  BY <1>1 DEF TableType

\* A chain of the table that is walked over, or of another one, changes.
LEMMA ChainWalk ==
  ASSUME WalkInv, TableType, AllGood, TableType', AllGood',
         NEW t \in Tables, NEW k \in Keys, NEW s, SetChain(t, k, s), UNCHANGED ivars,
         Kept(elems[t], elems'[t], Keys)
  PROVE  WalkInv'
<1>1. \A u \in Tables \ {t} : elems'[u] = elems[u]
  BY SetRows
<1>2. \A u \in Tables : Kept(elems[u], elems'[u], Keys)
  BY <1>1 DEF Kept
<1>3. e # NoKey => e \in Keys /\ Kept(elems[walk], elems'[walk], Keys)
  BY <1>2 DEF WalkInv
<1>4. Stayed' = Stayed /\ Stayed \subseteq Keys /\ UNCHANGED <<e, b, walk>> /\ visits' = visits
  BY DEF WalkInv, ivars, Stayed
<1> QED
  BY <1>3, <1>4, WalkKept

LEMMA AddWalk ==
  ASSUME WalkInv, TableType, AllGood, NEW t \in Tables, NEW k \in Keys, NEW v \in Values, ~exists(t, k),
         SetChain(t, k, Append(Chain(t, k), Pair(k, v))), UNCHANGED ivars
  PROVE  WalkInv'
<1>1. TableType' /\ AllGood'
  BY AddStep
<1>2. elems[t] \in Rows /\ elems'[t] \in Rows
  BY <1>1, RowIs DEF TableType, AllGood, Rows
<1>3. Find(elems[t][bucket(k)], k) = {} /\ Chain(t, k) = elems[t][bucket(k)]
  BY ChainIs DEF exists
<1>4. /\ elems'[t][bucket(k)] = Append(elems[t][bucket(k)], Pair(k, v))
      /\ \A c \in Buckets \ {bucket(k)} : elems'[t][c] = elems[t][c]
  BY ZenonT(60), <1>3, SetRows
<1>5. Kept(elems[t], elems'[t], Keys)
  BY <1>2, <1>3, <1>4, RowAdded
<1> QED
  BY <1>1, <1>5, ChainWalk

LEMMA PutWalk ==
  ASSUME WalkInv, TableType, AllGood, NEW t \in Tables, NEW k \in Keys, NEW v \in Values, exists(t, k),
         SetChain(t, k, [Chain(t, k) EXCEPT ![First(At(t, k))] = Pair(k, v)]), UNCHANGED ivars
  PROVE  WalkInv'
<1> DEFINE i == First(At(t, k))
<1>1. TableType' /\ AllGood'
  BY PutStep
<1>2. elems[t] \in Rows /\ elems'[t] \in Rows
  BY <1>1, RowIs DEF TableType, AllGood, Rows
<1>3. Chain(t, k) = elems[t][bucket(k)] /\ i \in DOMAIN Chain(t, k) /\ Chain(t, k)[i].first = k
  BY ChainIs, FoundIs
<1>4. /\ elems'[t][bucket(k)] = [elems[t][bucket(k)] EXCEPT ![i] = Pair(k, v)]
      /\ \A c \in Buckets \ {bucket(k)} : elems'[t][c] = elems[t][c]
  BY <1>3, SetRows
<1> HIDE DEF i
<1>5. /\ DOMAIN elems'[t][bucket(k)] = DOMAIN elems[t][bucket(k)]
      /\ \A j \in DOMAIN elems[t][bucket(k)] : elems'[t][bucket(k)][j].first = elems[t][bucket(k)][j].first
  BY <1>3, <1>4, PairType
<1>6. Kept(elems[t], elems'[t], Keys)
  BY <1>2, <1>4, <1>5, RowPut
<1> QED
  BY <1>1, <1>6, ChainWalk

LEMMA EraseWalk ==
  ASSUME WalkInv, TableType, AllGood, NEW t \in Tables, NEW k \in Keys, Erase(t, k)
  PROVE  WalkInv'
<1> DEFINE i == First(At(t, k))
<1>1. TableType' /\ AllGood'
  BY EraseStep
<1>2. elems[t] \in Rows /\ elems'[t] \in Rows
  BY <1>1, RowIs DEF TableType, AllGood, Rows
<1>3. Chain(t, k) = elems[t][bucket(k)] /\ i \in DOMAIN Chain(t, k) /\ Chain(t, k)[i].first = k
  BY ChainIs, FoundIs DEF Erase
<1>4. /\ elems'[t][bucket(k)] = RemoveAt(elems[t][bucket(k)], i)
      /\ \A c \in Buckets \ {bucket(k)} : elems'[t][c] = elems[t][c]
      /\ \A u \in Tables \ {t} : elems'[u] = elems[u]
  BY <1>3, SetRows DEF Erase
<1> HIDE DEF i
<1>5. Kept(elems[t], elems'[t], Keys \ {k})
  BY <1>2, <1>3, <1>4, RowRemoved
<1>6. /\ UNCHANGED <<e, b, walk>>
      /\ t = walk => e # k
      /\ visits' = IF t = walk THEN [c \in Stayed \ {k} |-> visits[c]] ELSE visits
  BY DEF Erase, Leave
<1>7. Stayed \subseteq Keys /\ walk \in Tables /\ (e # NoKey => e \in Keys)
  BY DEF WalkInv
<1>8. CASE t = walk
  <2>1. e # NoKey => e \in Keys \ {k} /\ Kept(elems[walk], elems'[walk], Keys \ {k})
    BY <1>5, <1>6, <1>7, <1>8
  <2>2. Stayed' = Stayed \ {k} /\ \A c \in Stayed \ {k} : visits'[c] = visits[c]
    BY <1>6, <1>8 DEF Stayed
  <2>3. Stayed' \subseteq Stayed \cap (Keys \ {k}) /\ \A c \in Stayed' : visits'[c] = visits[c]
    BY <1>7, <2>2
  <2> QED
    BY <1>6, <2>1, <2>3, WalkKept
<1>9. CASE t # walk
  <2>1. e # NoKey => e \in Keys /\ Kept(elems[walk], elems'[walk], Keys)
    BY <1>4, <1>7, <1>9 DEF Kept
  <2>2. Stayed' \subseteq Stayed \cap Keys /\ \A c \in Stayed' : visits'[c] = visits[c]
    BY <1>6, <1>7, <1>9 DEF Stayed
  <2> QED
    BY <1>6, <2>1, <2>2, WalkKept
<1> QED
  BY <1>8, <1>9

\* Whole tables change that no loop walks over.
LEMMA TablesWalk ==
  ASSUME WalkInv, UNCHANGED <<e, b, walk>>, e # NoKey => elems'[walk] = elems[walk],
         visits' = visits \/ visits' = <<>> \/ \E K \in SUBSET Keys : visits' = [k \in Stayed \ K |-> visits[k]]
  PROVE  WalkInv'
<1>1. e # NoKey => e \in Keys /\ Kept(elems[walk], elems'[walk], Keys)
  BY DEF WalkInv, Kept
<1>2. Stayed \subseteq Keys
  BY DEF WalkInv
<1>3. Stayed' \subseteq Stayed \cap Keys /\ \A k \in Stayed' : visits'[k] = visits[k]
  <2>1. CASE visits' = visits
    BY <1>2, <2>1 DEF Stayed
  <2>2. CASE visits' = <<>>
    BY <2>2 DEF Stayed
  <2>3. CASE \E K \in SUBSET Keys : visits' = [k \in Stayed \ K |-> visits[k]]
    BY <1>2, <2>3 DEF Stayed
  <2> QED
    BY <2>1, <2>2, <2>3
<1> QED
  BY <1>1, <1>3, WalkKept

LEMMA WalkStep == WalkInv /\ TableType /\ AllGood /\ [Next]_vars => WalkInv'
<1> SUFFICES ASSUME WalkInv, TableType, AllGood, [Next]_vars PROVE WalkInv'
  OBVIOUS
<1>0. walk \in Tables /\ \A t, u \in Tables : \A x : [elems EXCEPT ![t] = x][u] = IF u = t THEN x ELSE elems[u]
  BY DEF WalkInv, TableType
<1>1. ASSUME NEW t \in Tables, NEW k \in Keys, Touch(t, k) PROVE WalkInv'
  BY <1>1, AddWalk, DefaultType DEF Touch
<1>2. ASSUME NEW t \in Tables, NEW k \in Keys, NEW v \in Values, Assign(t, k, v) \/ AddListed(t, k, v) PROVE WalkInv'
  BY <1>2, AddWalk, PutWalk DEF Assign, AddListed
<1>3. ASSUME NEW t \in Tables, NEW k \in Keys, Erase(t, k) PROVE WalkInv'
  BY <1>3, EraseWalk
<1>4. ASSUME NEW t \in Tables, Clear(t) PROVE WalkInv'
  <2>1. e # NoKey => elems'[walk] = elems[walk]
    BY <1>0, <1>4 DEF Clear, Unwalked
  <2> QED
    BY <1>4, <2>1, TablesWalk DEF Clear, Leave
<1>5. ASSUME NEW t \in Tables, NEW u \in Tables, CopyFrom(t, u) PROVE WalkInv'
  <2>1. e # NoKey => elems'[walk] = elems[walk]
    BY <1>0, <1>5 DEF CopyFrom, Unwalked
  <2> QED
    BY <1>5, <2>1, TablesWalk DEF CopyFrom, Leave
<1>6. ASSUME NEW t \in Tables, NEW u \in Tables, MoveFrom(t, u) PROVE WalkInv'
  <2>1. e # NoKey => elems'[walk] = elems[walk]
    BY <1>0, <1>6 DEF MoveFrom, Unwalked, TableType
  <2>2. visits' = visits \/ visits' = <<>>
    BY <1>6 DEF MoveFrom
  <2> QED
    BY <1>6, <2>1, <2>2, TablesWalk DEF MoveFrom
<1>7. ASSUME NEW t \in Tables, Begin(t) PROVE WalkInv'
  BY <1>7, BeginStep
<1>8. CASE Increment
  BY <1>8, IncrementStep
<1>9. CASE Break
  BY <1>9 DEF Break, WalkInv, Stayed
<1>10. CASE UNCHANGED vars
  BY <1>10, TablesWalk DEF vars, tvars, ivars
<1> QED
  BY <1>1, <1>2, <1>3, <1>4, <1>5, <1>6, <1>7, <1>8, <1>9, <1>10 DEF Next

\* A loop comes to every key that stays in its table exactly once, for every
\* hash and however its body adds keys and erases others; aarray.h 84-112,
\* 367-398, 612-639.
THEOREM WalkThm == Spec => []WalkExact
<1>1. Init => WalkInv
  BY DEF Init, WalkInv, Stayed
<1>2. WalkInv => WalkExact
  BY DEF WalkInv, WalkExact, WalkOnce, WalkComplete
<1>3. Spec => []WalkInv
  BY <1>1, WalkStep, TableAlways, PTL DEF Spec
<1> QED
  BY <1>2, <1>3, PTL
=============================================================================
