---------------------------- MODULE GroupsProofs ----------------------------
(***************************************************************************)
(* Proofs about Groups: for all sizes of the binding table and all sets of *)
(* endpoints, clusters, groups and devices, the two arrays are a set of    *)
(* bindings, and removing groups takes out those of the groups and no      *)
(* others, until a counter wraps; it never does while a device is bound.   *)
(***************************************************************************)
EXTENDS Groups, FunctionTheorems, FiniteSetTheorems, TLAPS

-----------------------------------------------------------------------------
(* Induction over the natural numbers, for sets: a set that has 0 and with  *)
(* each number the next has them all.  Otherwise those below the one it     *)
(* misses could be mapped into fewer, each to the next.                     *)
LEMMA AllNumbers ==
    ASSUME NEW S, 0 \in S, \A n \in Nat : n \in S => n + 1 \in S
    PROVE  Nat \subseteq S
<1> SUFFICES ASSUME NEW n \in Nat, n \notin S PROVE FALSE
  OBVIOUS
<1> DEFINE A == {k \in 0..n : k \in S}
           f == [k \in A |-> k + 1]
<1>1. IsFiniteSet(A) /\ Cardinality(A) \in Nat
  <2>1. 0 \in Int /\ n \in Int
    OBVIOUS
  <2>2. IsFiniteSet(0..n)
    BY <2>1, FS_Interval
  <2> QED
    BY <2>2, FS_Subset, FS_CardinalityType
<1>2. IsFiniteSet(A \ {0}) /\ Cardinality(A \ {0}) = Cardinality(A) - 1
  <2>1. 0 \in A
    OBVIOUS
  <2> HIDE DEF A
  <2> QED
    BY <1>1, <2>1, FS_RemoveElement
<1>3. f \in [A -> A \ {0}]
  <2>1. ASSUME NEW k \in A PROVE k + 1 \in A \ {0}
    <3>1. k \in 0..n /\ k \in S /\ k # n
      OBVIOUS
    <3> QED
      BY <3>1
  <2> QED
    BY <2>1
<1>4. f \in Injection(A, A \ {0})
  <2>1. \A a, b \in A : f[a] = f[b] => a = b
    OBVIOUS
  <2> HIDE DEF A, f
  <2> QED
    BY <1>3, <2>1, Fun_IsInj
<1>5. Cardinality(A) <= Cardinality(A \ {0})
  <2> HIDE DEF A, f
  <2> QED
    BY <1>2, <1>4, FS_Injection
<1> QED
  BY <1>1, <1>2, <1>5

-----------------------------------------------------------------------------
(* The entries kept, in their order.                                        *)
Rank(kept, k) == Cardinality({j \in kept : j <= k})

LEMMA RankFacts ==
    ASSUME NEW n \in Nat, NEW kept \in SUBSET (1..n)
    PROVE  /\ IsFiniteSet(kept) /\ Cardinality(kept) \in 0..n
           /\ \A k \in kept : Rank(kept, k) \in 1..Cardinality(kept) /\ Rank(kept, k) <= k
           /\ \A j, k \in kept : Rank(kept, j) = Rank(kept, k) => j = k
<1>1. IsFiniteSet(kept) /\ Cardinality(kept) \in 0..n
  <2>1. 1 \in Int /\ n \in Int
    OBVIOUS
  <2>2. IsFiniteSet(1..n) /\ Cardinality(1..n) = n
    BY <2>1, FS_Interval
  <2> QED
    <3>1. IsFiniteSet(kept)
      BY <2>2, FS_Subset
    <3>2. Cardinality(kept) \in Nat
      BY <3>1, FS_CardinalityType
    <3>3. Cardinality(kept) <= Cardinality(1..n)
      BY <2>2, FS_Subset
    <3> QED
      BY <2>2, <3>1, <3>2, <3>3
<1> DEFINE Below(k) == {j \in kept : j <= k}
<1>2. \A k : IsFiniteSet(Below(k)) /\ Cardinality(Below(k)) \in Nat
                /\ Cardinality(Below(k)) <= Cardinality(kept)
  <2> TAKE k
  <2>1. Below(k) \in SUBSET kept
    OBVIOUS
  <2> HIDE DEF Below
  <2> QED
    BY <1>1, <2>1, FS_Subset, FS_CardinalityType
<1>3. \A k \in kept : Rank(kept, k) \in 1..Cardinality(kept) /\ Rank(kept, k) <= k
  <2> TAKE k \in kept
  <2>1. k \in 1..n /\ k \in Below(k)
    OBVIOUS
  <2>2. Below(k) \in SUBSET (1..k)
    <3>1. ASSUME NEW x \in Below(k) PROVE x \in 1..k
      <4>1. x \in 1..n /\ x <= k
        OBVIOUS
      <4> QED
        BY <2>1, <4>1
    <3> QED
      BY <3>1
  <2> HIDE DEF Below
  <2>3. Cardinality(Below(k)) # 0
    BY <1>2, <2>1, FS_EmptySet
  <2>4. 1 \in Int /\ k \in Int
    BY <2>1
  <2>5. IsFiniteSet(1..k) /\ Cardinality(1..k) = k
    BY <2>1, <2>4, FS_Interval
  <2>6. Cardinality(Below(k)) <= k
    BY <2>2, <2>5, FS_Subset
  <2>7. Rank(kept, k) = Cardinality(Below(k))
    BY DEF Rank, Below
  <2> QED
    BY <1>1, <1>2, <2>1, <2>3, <2>6, <2>7
<1>4. ASSUME NEW j \in kept, NEW k \in kept, j < k PROVE Rank(kept, j) < Rank(kept, k)
  <2>0. \A i \in kept : i \in 1..n
    OBVIOUS
  <2>1. Below(j) \in SUBSET Below(k) /\ k \in Below(k) /\ k \notin Below(j)
    <3>1. j \in 1..n /\ k \in 1..n
      BY <2>0
    <3>2. ASSUME NEW x \in Below(j) PROVE x \in Below(k)
      <4>1. x \in kept /\ x <= j /\ x \in 1..n
        BY <2>0
      <4> QED
        BY <1>4, <3>1, <4>1
    <3>3. k \in Below(k) /\ k \notin Below(j)
      BY <1>4, <3>1
    <3> QED
      BY <3>2, <3>3
  <2>2. Rank(kept, j) = Cardinality(Below(j)) /\ Rank(kept, k) = Cardinality(Below(k))
    BY DEF Rank
  <2> HIDE DEF Below
  <2>3. Cardinality(Below(j)) <= Cardinality(Below(k)) /\ Cardinality(Below(j)) # Cardinality(Below(k))
    BY <1>2, <2>1, FS_Subset
  <2> QED
    BY <1>2, <2>2, <2>3
<1>5. ASSUME NEW j \in kept, NEW k \in kept, Rank(kept, j) = Rank(kept, k) PROVE j = k
  <2>1. j \in Int /\ k \in Int /\ Rank(kept, j) \in Int /\ Rank(kept, k) \in Int
    BY <1>3
  <2> QED
    BY <1>4, <1>5, <2>1
<1> QED
  BY <1>1, <1>3, <1>5

(* The places of a table from which some entries are kept are filled by     *)
(* those entries, each once, and none from further down.                    *)
LEMMA NthFacts ==
    ASSUME NEW n \in Nat, NEW kept \in SUBSET (1..n)
    PROVE  /\ \A i \in 1..Cardinality(kept) :
                 Nth(kept, i) \in kept /\ Nth(kept, i) >= i /\ Rank(kept, Nth(kept, i)) = i
           /\ \A k \in kept : Rank(kept, k) \in 1..Cardinality(kept) /\ Nth(kept, Rank(kept, k)) = k
           /\ \A i, j \in 1..Cardinality(kept) : Nth(kept, i) = Nth(kept, j) => i = j
<1> DEFINE c == Cardinality(kept)
           f == [k \in kept |-> Rank(kept, k)]
<1>1. /\ IsFiniteSet(kept) /\ c \in 0..n
      /\ \A k \in kept : Rank(kept, k) \in 1..c /\ Rank(kept, k) <= k
      /\ \A j, k \in kept : Rank(kept, j) = Rank(kept, k) => j = k
  BY RankFacts
<1>2. f \in Injection(kept, 1..c)
  <2>1. f \in [kept -> 1..c] /\ \A a, b \in kept : f[a] = f[b] => a = b
    BY <1>1
  <2> HIDE DEF f, c
  <2> QED
    BY <2>1, Fun_IsInj
<1>3. f \in Surjection(kept, 1..c)
  <2>1. 1 \in Int /\ c \in Int
    BY <1>1
  <2>2. IsFiniteSet(1..c) /\ Cardinality(1..c) = c
    BY <1>1, <2>1, FS_Interval
  <2>3. Cardinality(kept) = c
    OBVIOUS
  <2> HIDE DEF c, f
  <2> QED
    BY <1>2, <2>2, <2>3, FS_Injection
<1>4. \A i \in 1..c : \E k \in kept : f[k] = i
  <2> HIDE DEF f, c
  <2> QED
    BY <1>3 DEF Surjection
<1>5. \A i \in 1..c : Nth(kept, i) \in kept /\ Rank(kept, Nth(kept, i)) = i
  <2> TAKE i \in 1..c
  <2>1. \E k \in kept : Rank(kept, k) = i
    BY <1>4
  <2>2. Nth(kept, i) = CHOOSE k \in kept : Rank(kept, k) = i
    BY DEF Nth, Rank
  <2> QED
    BY <2>1, <2>2
<1>6. \A i \in 1..c : Nth(kept, i) >= i
  BY <1>1, <1>5
<1>7. \A k \in kept : Rank(kept, k) \in 1..c /\ Nth(kept, Rank(kept, k)) = k
  BY <1>1, <1>5
<1>8. \A i, j \in 1..c : Nth(kept, i) = Nth(kept, j) => i = j
  BY <1>5
<1> QED
  BY <1>5, <1>6, <1>7, <1>8

-----------------------------------------------------------------------------
(* A table in order: each destination refers to a source, no source and no  *)
(* destination is there twice.                                              *)
TableWith(Counts) ==
    [n : Counts, dst : [1..DstSize -> Destination \cup {Nothing}],
     m : 0..SrcSize, src : [1..SrcSize -> Source \cup {NoSource}]]

Known(b) == \A i \in 1..b.n : b.dst[i] \in Destination /\ b.dst[i].src \in 1..b.m
OnlySources(b) == \A i \in 1..b.m : b.src[i] \in Source
SourcesDiffer(b) == \A i, k \in 1..b.m : b.src[i] = b.src[k] => i = k
DestinationsDiffer(b) == \A i, k \in 1..b.n : b.dst[i] = b.dst[k] => i = k

Orderly(b) ==
    /\ b \in TableWith(0..DstSize)
    /\ Known(b) /\ OnlySources(b) /\ SourcesDiffer(b) /\ DestinationsDiffer(b)

(* The binding an entry stands for, and those of a table.                   *)
Entries(b) == {Entry(b, i) : i \in 1..b.n}

GroupsInv == GroupsTypeOK /\ (~Undefined => Orderly(binding))

LEMMA TableSizes ==
    /\ DstSize \in 1..254 /\ SrcSize \in 1..254 /\ WRAPPED = 255 /\ WRAPPED \notin 0..DstSize
    /\ Groups \cap Devices = {} /\ GroupsCluster \in Clusters
  BY GroupsAssumption DEF WRAPPED

LEMMA TableFields ==
    ASSUME NEW C, NEW b \in TableWith(C)
    PROVE  /\ b.n \in C /\ b.m \in 0..SrcSize
           /\ b.dst \in [1..DstSize -> Destination \cup {Nothing}]
           /\ b.src \in [1..SrcSize -> Source \cup {NoSource}]
           /\ b = [n |-> b.n, dst |-> b.dst, m |-> b.m, src |-> b.src]
  BY DEF TableWith

LEMMA DestinationFields ==
    /\ \A e \in Destination : e.to \in Groups \cup Devices /\ e.src \in 1..SrcSize
    /\ \A e \in Destination \cup {Nothing} : e.src \in 1..SrcSize /\ e = [to |-> e.to, src |-> e.src]
    /\ \A t \in Groups \cup Devices, s \in 1..SrcSize : [to |-> t, src |-> s] \in Destination
<1>1. 1 \in 1..SrcSize
  BY TableSizes
<1> QED
  BY <1>1 DEF Destination, Nothing

(* A removal leaves the kept entries in the table, and the sources alone.   *)
LEMMA KeepingFields ==
    ASSUME NEW C, NEW b \in TableWith(C), NEW kept
    PROVE  LET c == Keeping(b, kept)
           IN  /\ c.n = Cardinality(kept) /\ c.m = b.m /\ c.src = b.src
               /\ c.dst = [i \in 1..DstSize |->
                             b.dst[IF i <= Cardinality(kept) THEN Nth(kept, i)
                                                             ELSE IF i <= b.n THEN b.n ELSE i]]
               /\ c = [n |-> c.n, dst |-> c.dst, m |-> c.m, src |-> c.src]
<1> DEFINE d == [i \in 1..DstSize |->
                   b.dst[IF i <= Cardinality(kept) THEN Nth(kept, i)
                                                   ELSE IF i <= b.n THEN b.n ELSE i]]
           c == Keeping(b, kept)
<1>1. b = [n |-> b.n, dst |-> b.dst, m |-> b.m, src |-> b.src]
  BY TableFields
<1>2. c = [b EXCEPT !.n = Cardinality(kept), !.dst = d]
  BY Zenon DEF Keeping
<1> HIDE DEF c, d
<1>3. c = [n |-> Cardinality(kept), dst |-> d, m |-> b.m, src |-> b.src]
  BY <1>1, <1>2
<1>4. /\ c.n = Cardinality(kept) /\ c.m = b.m /\ c.src = b.src /\ c.dst = d
      /\ c = [n |-> c.n, dst |-> c.dst, m |-> c.m, src |-> c.src]
  BY <1>3
<1> QED
  BY <1>4 DEF c, d

LEMMA KeepingPlaces ==
    ASSUME NEW b, Orderly(b), NEW kept \in SUBSET (1..b.n)
    PROVE  LET c == Keeping(b, kept)
           IN  /\ c.n \in 0..b.n /\ (kept # {} => c.n >= 1)
               /\ \A i \in 1..c.n : /\ Nth(kept, i) \in kept /\ Nth(kept, i) >= i
                                    /\ c.dst[i] = b.dst[Nth(kept, i)]
               /\ \A k \in kept : \E i \in 1..c.n : Nth(kept, i) = k
               /\ \A i, j \in 1..c.n : Nth(kept, i) = Nth(kept, j) => i = j
<1> DEFINE c == Keeping(b, kept)
<1>1. b \in TableWith(0..DstSize) /\ b.n \in 0..DstSize
  BY TableFields DEF Orderly
<1>2. /\ c.n = Cardinality(kept)
      /\ c.dst = [i \in 1..DstSize |->
                    b.dst[IF i <= Cardinality(kept) THEN Nth(kept, i)
                                                    ELSE IF i <= b.n THEN b.n ELSE i]]
  BY <1>1, KeepingFields
<1>3. /\ b.n \in Nat /\ IsFiniteSet(kept) /\ Cardinality(kept) \in 0..b.n
      /\ \A i \in 1..Cardinality(kept) : Nth(kept, i) \in kept /\ Nth(kept, i) >= i
      /\ \A k \in kept : Rank(kept, k) \in 1..Cardinality(kept) /\ Nth(kept, Rank(kept, k)) = k
      /\ \A i, j \in 1..Cardinality(kept) : Nth(kept, i) = Nth(kept, j) => i = j
  <2>1. b.n \in Nat
    BY <1>1
  <2> QED
    BY <2>1, RankFacts, NthFacts
<1> HIDE DEF c
<1>4. kept # {} => c.n >= 1
  <2>1. kept # {} => Cardinality(kept) # 0
    BY <1>3, FS_EmptySet
  <2> QED
    BY <1>2, <1>3, <2>1
<1>5. \A i \in 1..c.n : i \in 1..DstSize /\ c.dst[i] = b.dst[Nth(kept, i)]
  BY <1>1, <1>2, <1>3, TableSizes
<1> QED
  BY <1>2, <1>3, <1>4, <1>5 DEF c

LEMMA KeepingOrderly ==
    ASSUME NEW b, Orderly(b), NEW kept \in SUBSET (1..b.n)
    PROVE  Orderly(Keeping(b, kept))
<1> DEFINE c == Keeping(b, kept)
<1>1. b \in TableWith(0..DstSize) /\ b.n \in 0..DstSize /\ b.m \in 0..SrcSize
      /\ b.dst \in [1..DstSize -> Destination \cup {Nothing}]
      /\ b.src \in [1..SrcSize -> Source \cup {NoSource}]
  BY TableFields DEF Orderly
<1>2. /\ c.n = Cardinality(kept) /\ c.m = b.m /\ c.src = b.src
      /\ c.dst = [i \in 1..DstSize |->
                    b.dst[IF i <= Cardinality(kept) THEN Nth(kept, i)
                                                    ELSE IF i <= b.n THEN b.n ELSE i]]
      /\ c = [n |-> c.n, dst |-> c.dst, m |-> c.m, src |-> c.src]
  BY <1>1, KeepingFields
<1>3. /\ c.n \in 0..b.n
      /\ \A i \in 1..c.n : Nth(kept, i) \in kept /\ c.dst[i] = b.dst[Nth(kept, i)]
      /\ \A i, j \in 1..c.n : Nth(kept, i) = Nth(kept, j) => i = j
  BY KeepingPlaces
<1> HIDE DEF c
<1>k. \A i \in 1..c.n : Nth(kept, i) \in 1..b.n
  BY <1>3
<1>4. c \in TableWith(0..DstSize)
  <2>1. c.dst \in [1..DstSize -> Destination \cup {Nothing}]
    <3>1. ASSUME NEW i \in 1..DstSize PROVE c.dst[i] \in Destination \cup {Nothing}
      <4>1. CASE i <= c.n
        <5>1. Nth(kept, i) \in 1..DstSize /\ c.dst[i] = b.dst[Nth(kept, i)]
          BY <1>1, <1>3, <1>k, <4>1, TableSizes
        <5> QED
          BY <1>1, <5>1
      <4>2. CASE ~(i <= c.n)
        <5>1. c.dst[i] = b.dst[IF i <= b.n THEN b.n ELSE i]
          BY <1>2, <4>2
        <5>2. (IF i <= b.n THEN b.n ELSE i) \in 1..DstSize
          BY <1>1, TableSizes
        <5> QED
          BY <1>1, <5>1, <5>2
      <4> QED
        BY <4>1, <4>2
    <3> QED
      BY <1>2, <3>1
  <2>2. c.n \in 0..DstSize
    BY <1>1, <1>3, TableSizes
  <2> QED
    BY <1>1, <1>2, <2>1, <2>2 DEF TableWith
<1>5. Known(c) /\ DestinationsDiffer(c)
  BY <1>2, <1>3, <1>k DEF Orderly, Known, DestinationsDiffer
<1>6. OnlySources(c) /\ SourcesDiffer(c)
  BY <1>2 DEF Orderly, OnlySources, SourcesDiffer
<1> QED
  BY <1>4, <1>5, <1>6 DEF Orderly, c

LEMMA KeepingEntries ==
    ASSUME NEW b, Orderly(b), NEW kept \in SUBSET (1..b.n)
    PROVE  LET c == Keeping(b, kept)
           IN  /\ Entries(c) = {Entry(b, k) : k \in kept}
               /\ \A i \in 1..c.n : Nth(kept, i) \in kept /\ Nth(kept, i) >= i
                                    /\ Entry(c, i) = Entry(b, Nth(kept, i))
<1> DEFINE c == Keeping(b, kept)
<1>1. c.src = b.src
  BY KeepingFields DEF Orderly
<1>2. /\ \A i \in 1..c.n : /\ Nth(kept, i) \in kept /\ Nth(kept, i) >= i
                           /\ c.dst[i] = b.dst[Nth(kept, i)]
      /\ \A k \in kept : \E i \in 1..c.n : Nth(kept, i) = k
  BY KeepingPlaces
<1> HIDE DEF c
<1>3. \A i \in 1..c.n : Entry(c, i) = Entry(b, Nth(kept, i))
  BY <1>1, <1>2 DEF Entry
<1>4. Entries(c) = {Entry(b, k) : k \in kept}
  <2>1. ASSUME NEW x \in Entries(c) PROVE x \in {Entry(b, k) : k \in kept}
    <3>1. PICK i \in 1..c.n : x = Entry(c, i)
      BY DEF Entries
    <3> QED
      BY <1>2, <1>3, <3>1
  <2>2. ASSUME NEW k \in kept PROVE Entry(b, k) \in Entries(c)
    <3>1. PICK i \in 1..c.n : Nth(kept, i) = k
      BY <1>2
    <3> QED
      BY <1>3, <3>1 DEF Entries
  <2> QED
    BY <2>1, <2>2
<1> QED
  BY <1>2, <1>3, <1>4 DEF c

(* A source that no entry refers to can go: the indexes are corrected.      *)
LEMMA WithoutSourceFields ==
    ASSUME NEW b, Orderly(b), NEW s
    PROVE  LET c == WithoutSource(b, s)
           IN  /\ c.n = b.n /\ c.m = b.m - 1
               /\ c.src = [i \in 1..SrcSize |-> b.src[IF i \in s..(b.m - 1) THEN i + 1 ELSE i]]
               /\ c.dst = [i \in 1..DstSize |->
                             IF (i <= b.n \/ i = 1) /\ b.dst[i].src > s
                             THEN [to |-> b.dst[i].to, src |-> b.dst[i].src - 1] ELSE b.dst[i]]
               /\ c = [n |-> c.n, dst |-> c.dst, m |-> c.m, src |-> c.src]
<1> DEFINE d == [i \in 1..DstSize |->
                   IF (i <= b.n \/ i = 1) /\ b.dst[i].src > s
                   THEN [to |-> b.dst[i].to, src |-> b.dst[i].src - 1] ELSE b.dst[i]]
           t == [i \in 1..SrcSize |-> b.src[IF i \in s..(b.m - 1) THEN i + 1 ELSE i]]
           l == b.m - 1
           c == WithoutSource(b, s)
<1>1. b = [n |-> b.n, dst |-> b.dst, m |-> b.m, src |-> b.src]
  BY TableFields DEF Orderly
<1>2. c = [b EXCEPT !.m = l, !.src = t, !.dst = d]
  BY Zenon DEF WithoutSource
<1> HIDE DEF c, d, t, l
<1>3. c = [n |-> b.n, dst |-> d, m |-> l, src |-> t]
  BY <1>1, <1>2
<1>4. /\ c.n = b.n /\ c.m = l /\ c.src = t /\ c.dst = d
      /\ c = [n |-> c.n, dst |-> c.dst, m |-> c.m, src |-> c.src]
  BY <1>3
<1> QED
  BY <1>4 DEF c, d, t, l

LEMMA WithoutSourceOrderly ==
    ASSUME NEW b, Orderly(b), NEW s \in 1..b.m, \A i \in 1..b.n : b.dst[i].src # s
    PROVE  LET c == WithoutSource(b, s)
           IN  /\ Orderly(c) /\ c.n = b.n
               /\ \A i \in 1..b.n : Entry(c, i) = Entry(b, i)
               /\ Entries(c) = Entries(b)
<1> DEFINE c == WithoutSource(b, s)
<1>1. /\ b \in TableWith(0..DstSize) /\ b.n \in 0..DstSize /\ b.m \in 0..SrcSize
      /\ b.dst \in [1..DstSize -> Destination \cup {Nothing}]
      /\ b.src \in [1..SrcSize -> Source \cup {NoSource}]
      /\ DstSize \in 1..254 /\ SrcSize \in 1..254
  BY TableFields, TableSizes DEF Orderly
<1>2. /\ c.n = b.n /\ c.m = b.m - 1
      /\ c.src = [i \in 1..SrcSize |-> b.src[IF i \in s..(b.m - 1) THEN i + 1 ELSE i]]
      /\ c.dst = [i \in 1..DstSize |->
                    IF (i <= b.n \/ i = 1) /\ b.dst[i].src > s
                    THEN [to |-> b.dst[i].to, src |-> b.dst[i].src - 1] ELSE b.dst[i]]
      /\ c = [n |-> c.n, dst |-> c.dst, m |-> c.m, src |-> c.src]
  BY WithoutSourceFields
<1> HIDE DEF c
<1>m. c.m = b.m - 1 /\ c.m \in 0..SrcSize /\ c.m < b.m
  <2>0. SrcSize \in 1..254
    BY <1>1
  <2>1. b.m \in 1..SrcSize
    BY <1>1
  <2>2. c.m = b.m - 1
    BY <1>2
  <2> DEFINE x == c.m
  <2>3. x = b.m - 1
    BY <2>2
  <2> HIDE DEF x
  <2>4. x = b.m - 1 /\ x \in 0..SrcSize /\ x < b.m
    BY <2>0, <2>1, <2>3
  <2> QED
    BY <2>4 DEF x
<1> DEFINE Down(k) == IF k > s THEN k - 1 ELSE k
<1>a. b.m \in Int /\ SrcSize \in Int /\ s \in 1..b.m /\ b.m <= SrcSize
  <2>1. b.m \in 0..SrcSize /\ SrcSize \in 1..254
    BY <1>1
  <2> QED
    BY <2>1
<1>b. \A x \in 1..b.m : x # s => Down(x) \in 1..(b.m - 1) /\ Down(x) \in 1..SrcSize
  BY <1>a
<1>c. \A x, y \in 1..b.m : x # s /\ y # s /\ Down(x) = Down(y) => x = y
  BY <1>a
<1>d. \A x \in 1..b.m : x > s => x - 1 \in s..(b.m - 1) /\ x - 1 \in 1..SrcSize /\ (x - 1) + 1 = x
  BY <1>a
<1>e. \A x \in 1..SrcSize : (IF x \in s..(b.m - 1) THEN x + 1 ELSE x) \in 1..SrcSize
  BY <1>a
<1>3. ASSUME NEW i \in 1..b.n
      PROVE  /\ i \in 1..DstSize /\ b.dst[i] \in Destination /\ b.dst[i].src \in 1..b.m /\ b.dst[i].src # s
             /\ c.dst[i] = [to |-> b.dst[i].to, src |-> Down(b.dst[i].src)]
             /\ c.dst[i] \in Destination /\ c.dst[i].src = Down(b.dst[i].src)
             /\ c.dst[i].src \in 1..c.m /\ c.dst[i].to = b.dst[i].to
  <2>1. i \in 1..DstSize
    BY <1>1
  <2>2. b.dst[i] \in Destination /\ b.dst[i].src \in 1..b.m /\ b.dst[i].src # s
    BY DEF Orderly, Known
  <2>3. c.dst[i] = [to |-> b.dst[i].to, src |-> Down(b.dst[i].src)]
    <3>1. b.dst[i] = [to |-> b.dst[i].to, src |-> b.dst[i].src]
      BY <2>2, DestinationFields
    <3>2. c.dst[i] = IF b.dst[i].src > s
                     THEN [to |-> b.dst[i].to, src |-> b.dst[i].src - 1] ELSE b.dst[i]
      BY <1>2, <2>1
    <3>3. CASE b.dst[i].src > s
      BY <3>2, <3>3
    <3>4. CASE ~(b.dst[i].src > s)
      BY <3>1, <3>2, <3>4
    <3> QED
      BY <3>3, <3>4
  <2>4. Down(b.dst[i].src) \in 1..(b.m - 1) /\ Down(b.dst[i].src) \in 1..SrcSize
    <3> HIDE DEF Down
    <3> QED
      BY <1>b, <2>2
  <2>5. b.dst[i].to \in Groups \cup Devices
    BY <2>2, DestinationFields
  <2> HIDE DEF Down
  <2>6. c.dst[i].src = Down(b.dst[i].src) /\ c.dst[i].to = b.dst[i].to
    BY <2>3
  <2>7. c.dst[i] \in Destination
    BY <2>3, <2>4, <2>5, DestinationFields
  <2> QED
    BY <1>2, <2>1, <2>2, <2>3, <2>4, <2>6, <2>7
<1>4. c \in TableWith(0..DstSize)
  <2>1. c.dst \in [1..DstSize -> Destination \cup {Nothing}]
    <3>1. ASSUME NEW i \in 1..DstSize PROVE c.dst[i] \in Destination \cup {Nothing}
      <4>1. CASE i <= b.n
        <5>1. i \in 1..b.n
          BY <1>1, <4>1
        <5> HIDE DEF Down
        <5> QED
          BY <1>3, <5>1
      <4>2. CASE ~(i <= b.n) /\ ~(i = 1 /\ b.dst[i].src > s)
        <5>1. c.dst[i] = b.dst[i]
          BY <1>2, <4>2
        <5> QED
          BY <1>1, <5>1
      <4>3. CASE i = 1 /\ b.dst[i].src > s
        <5>1. b.dst[i] \in Destination \cup {Nothing} /\ b.dst[i].src \in 1..SrcSize
          BY <1>1, DestinationFields
        <5>2. b.dst[i] # Nothing
          BY <1>1, <4>3 DEF Nothing
        <5>a. b.dst[i].to \in Groups \cup Devices
          BY <5>1, <5>2, DestinationFields
        <5>b. b.dst[i].src - 1 \in 1..SrcSize
          BY <1>1, <4>3, <5>1
        <5>3. b.dst[i].to \in Groups \cup Devices /\ b.dst[i].src - 1 \in 1..SrcSize
          BY <5>a, <5>b
        <5>4. c.dst[i] = [to |-> b.dst[i].to, src |-> b.dst[i].src - 1]
          BY <1>2, <4>3
        <5> QED
          BY <5>3, <5>4, DestinationFields
      <4> QED
        BY <4>1, <4>2, <4>3
    <3> QED
      BY <1>2, <3>1
  <2>2. c.src \in [1..SrcSize -> Source \cup {NoSource}]
    <3>1. ASSUME NEW i \in 1..SrcSize PROVE c.src[i] \in Source \cup {NoSource}
      <4> DEFINE k == IF i \in s..(b.m - 1) THEN i + 1 ELSE i
      <4>1. k \in 1..SrcSize
        BY <1>e
      <4>2. c.src[i] = b.src[k]
        BY <1>2
      <4> HIDE DEF k
      <4> QED
        BY <1>1, <4>1, <4>2
    <3>2. c.src = [i \in 1..SrcSize |-> c.src[i]]
      BY <1>2
    <3> QED
      BY <3>1, <3>2
  <2>3. c.m \in 0..SrcSize
    BY <1>m
  <2>4. c.n \in 0..DstSize /\ c = [n |-> c.n, dst |-> c.dst, m |-> c.m, src |-> c.src]
    BY <1>1, <1>2
  <2> HIDE DEF Down
  <2> QED
    BY <2>1, <2>2, <2>3, <2>4 DEF TableWith
<1>5. ASSUME NEW i \in 1..c.m
      PROVE  \E k \in 1..b.m : k # s /\ Down(k) = i /\ c.src[i] = b.src[k]
  <2>1. i \in 1..SrcSize
    BY <1>1, <1>m
  <2>2. CASE i \in s..(b.m - 1)
    <3>1. c.src[i] = b.src[i + 1] /\ i + 1 \in 1..b.m /\ i + 1 # s /\ Down(i + 1) = i
      BY <1>1, <1>2, <2>1, <2>2
    <3> QED
      BY <3>1
  <2>3. CASE i \notin s..(b.m - 1)
    <3>1. c.src[i] = b.src[i] /\ i \in 1..b.m /\ i # s /\ Down(i) = i
      BY <1>1, <1>2, <2>1, <2>3
    <3> QED
      BY <3>1
  <2> QED
    BY <2>2, <2>3
<1>6. OnlySources(c)
  BY <1>5 DEF OnlySources, Orderly
<1>7. SourcesDiffer(c)
  <2> SUFFICES ASSUME NEW i \in 1..c.m, NEW k \in 1..c.m, c.src[i] = c.src[k] PROVE i = k
    BY DEF SourcesDiffer
  <2>1. PICK x \in 1..b.m : Down(x) = i /\ c.src[i] = b.src[x]
    BY <1>5
  <2>2. PICK y \in 1..b.m : Down(y) = k /\ c.src[k] = b.src[y]
    BY <1>5
  <2>3. x = y
    BY <2>1, <2>2 DEF Orderly, SourcesDiffer
  <2> QED
    BY <2>1, <2>2, <2>3
<1>8. DestinationsDiffer(c)
  <2> SUFFICES ASSUME NEW i \in 1..b.n, NEW k \in 1..b.n, c.dst[i] = c.dst[k] PROVE i = k
    BY <1>2 DEF DestinationsDiffer
  <2>1. /\ b.dst[i].src \in 1..b.m /\ b.dst[i].src # s /\ b.dst[k].src \in 1..b.m /\ b.dst[k].src # s
        /\ Down(b.dst[i].src) = Down(b.dst[k].src) /\ b.dst[i].to = b.dst[k].to
        /\ b.dst[i] \in Destination /\ b.dst[k] \in Destination
    <3> HIDE DEF Down
    <3> QED
      BY <1>3
  <2>2. b.dst[i].src = b.dst[k].src
    <3> HIDE DEF Down
    <3> QED
      BY <1>c, <2>1
  <2>3. b.dst[i] = b.dst[k]
    BY <2>1, <2>2, DestinationFields
  <2> QED
    BY <2>3 DEF Orderly, DestinationsDiffer
<1>9. \A i \in 1..b.n : Entry(c, i) = Entry(b, i)
  <2> TAKE i \in 1..b.n
  <2>1. b.dst[i].src \in 1..b.m /\ b.dst[i].src # s /\ c.dst[i].src = Down(b.dst[i].src)
        /\ c.dst[i].to = b.dst[i].to
    <3> HIDE DEF Down
    <3> QED
      BY <1>3
  <2>2. c.src[c.dst[i].src] = b.src[b.dst[i].src]
    <3>1. CASE b.dst[i].src > s
      <4>1. b.dst[i].src - 1 \in s..(b.m - 1) /\ b.dst[i].src - 1 \in 1..SrcSize
        BY <1>d, <2>1, <3>1
      <4>2. c.src[b.dst[i].src - 1] = b.src[(b.dst[i].src - 1) + 1]
        BY <1>2, <4>1
      <4>3. (b.dst[i].src - 1) + 1 = b.dst[i].src /\ c.dst[i].src = b.dst[i].src - 1
        BY <1>d, <2>1, <3>1
      <4> QED
        BY <4>2, <4>3
    <3>2. CASE ~(b.dst[i].src > s)
      <4>1. b.dst[i].src \notin s..(b.m - 1) /\ b.dst[i].src \in 1..SrcSize
        BY <1>1, <2>1, <3>2
      <4>2. c.src[b.dst[i].src] = b.src[b.dst[i].src]
        BY <1>2, <4>1
      <4> QED
        BY <2>1, <3>2, <4>2
    <3> QED
      BY <3>1, <3>2
  <2> QED
    BY <2>1, <2>2 DEF Entry
<1>10. Known(c) /\ Entries(c) = Entries(b)
  <2>1. Known(c)
    BY <1>2, <1>3 DEF Known
  <2>2. Entries(c) = Entries(b)
    BY <1>2, <1>9 DEF Entries
  <2> QED
    BY <2>1, <2>2
<1> QED
  BY <1>2, <1>4, <1>6, <1>7, <1>8, <1>9, <1>10 DEF Orderly, c

-----------------------------------------------------------------------------
(* Removing a group: the bindings to it go, the others move down.  Only     *)
(* when there is none at all can the counter wrap.                          *)
OfGroup(x, ep, g) == x.ep = ep /\ x.to = g

Wrapped(b) == b \in TableWith({WRAPPED})

LEMMA WrappingTyped ==
    ASSUME NEW b, Orderly(b)
    PROVE  Wrapped([b EXCEPT !.n = WRAPPED])
<1>1. /\ b = [n |-> b.n, dst |-> b.dst, m |-> b.m, src |-> b.src]
      /\ b.dst \in [1..DstSize -> Destination \cup {Nothing}] /\ b.m \in 0..SrcSize
      /\ b.src \in [1..SrcSize -> Source \cup {NoSource}]
  BY TableFields DEF Orderly
<1>2. [b EXCEPT !.n = WRAPPED] = [n |-> WRAPPED, dst |-> b.dst, m |-> b.m, src |-> b.src]
  BY <1>1
<1> QED
  BY <1>1, <1>2 DEF Wrapped, TableWith

LEMMA OthersFacts ==
    ASSUME NEW b, NEW ep, NEW g
    PROVE  /\ Others(b, ep, g) \in SUBSET (1..b.n)
           /\ {Entry(b, k) : k \in Others(b, ep, g)} = {x \in Entries(b) : ~OfGroup(x, ep, g)}
<1>1. \A k \in 1..b.n : k \in Others(b, ep, g) <=> ~OfGroup(Entry(b, k), ep, g)
  BY DEF Others, IsBinding, OfGroup, Entry
<1>2. Others(b, ep, g) \in SUBSET (1..b.n)
  BY DEF Others
<1>3. ASSUME NEW k \in Others(b, ep, g) PROVE Entry(b, k) \in {x \in Entries(b) : ~OfGroup(x, ep, g)}
  BY <1>1, <1>2 DEF Entries
<1>4. ASSUME NEW x \in Entries(b), ~OfGroup(x, ep, g) PROVE \E k \in Others(b, ep, g) : x = Entry(b, k)
  <2>1. PICK k \in 1..b.n : x = Entry(b, k)
    BY DEF Entries
  <2> QED
    BY <1>1, <1>4, <2>1
<1> QED
  BY <1>2, <1>3, <1>4

LEMMA WithoutGroupWorks ==
    ASSUME NEW b, Orderly(b), NEW ep, NEW g
    PROVE  LET c == WithoutGroup(b, ep, g)
           IN  \/ b.n = 0 /\ Wrapped(c)
               \/ /\ Orderly(c)
                  /\ Entries(c) = {x \in Entries(b) : ~OfGroup(x, ep, g)}
                  /\ \A j \in 1..c.n : \E k \in 1..b.n : k >= j /\ Entry(c, j) = Entry(b, k)
<1> DEFINE kept == Others(b, ep, g)
           c == WithoutGroup(b, ep, g)
<1>1. b.n \in 0..DstSize
  BY TableFields DEF Orderly
<1>2. /\ kept \in SUBSET (1..b.n)
      /\ {Entry(b, k) : k \in kept} = {x \in Entries(b) : ~OfGroup(x, ep, g)}
  BY OthersFacts
<1>3. CASE b.n = 0
  <2>1. CASE IsBinding(b, b.dst[1], ep, g)
    <3>1. c = [b EXCEPT !.n = WRAPPED]
      BY <1>3, <2>1 DEF WithoutGroup
    <3> HIDE DEF c
    <3>2. Wrapped(c)
      BY <3>1, WrappingTyped
    <3> QED
      BY <1>3, <3>2 DEF c
  <2>2. CASE ~IsBinding(b, b.dst[1], ep, g)
    <3>1. c = b
      BY <1>3, <2>2 DEF WithoutGroup
    <3>2. Entries(b) = {} /\ 1..b.n = {}
      BY <1>3 DEF Entries
    <3> HIDE DEF c
    <3>3. /\ Orderly(c) /\ Entries(c) = {x \in Entries(b) : ~OfGroup(x, ep, g)}
          /\ \A j \in 1..c.n : \E k \in 1..b.n : k >= j /\ Entry(c, j) = Entry(b, k)
      BY <3>1, <3>2
    <3> QED
      BY <3>3 DEF c
  <2> QED
    BY <2>1, <2>2
<1>4. ASSUME NEW d, d = Keeping(b, kept)
      PROVE  /\ Orderly(d) /\ Entries(d) = {x \in Entries(b) : ~OfGroup(x, ep, g)}
             /\ \A j \in 1..d.n : \E k \in 1..b.n : k >= j /\ Entry(d, j) = Entry(b, k)
  <2> HIDE DEF kept, c
  <2>1. Orderly(d)
    BY <1>2, <1>4, KeepingOrderly
  <2>2. /\ Entries(d) = {Entry(b, k) : k \in kept}
        /\ \A j \in 1..d.n : Nth(kept, j) \in kept /\ Nth(kept, j) >= j
                             /\ Entry(d, j) = Entry(b, Nth(kept, j))
    BY <1>2, <1>4, KeepingEntries
  <2> QED
    BY <1>2, <2>1, <2>2
<1>5. CASE b.n # 0 /\ kept # {}
  <2>1. c = Keeping(b, kept)
    BY <1>5 DEF WithoutGroup
  <2> HIDE DEF c, kept
  <2>2. /\ Orderly(c) /\ Entries(c) = {x \in Entries(b) : ~OfGroup(x, ep, g)}
        /\ \A j \in 1..c.n : \E k \in 1..b.n : k >= j /\ Entry(c, j) = Entry(b, k)
    BY <1>4, <2>1
  <2> QED
    BY <2>2 DEF c
<1>6. CASE b.n # 0 /\ kept = {}
  <2> DEFINE d == Keeping(b, kept)
             s == b.dst[b.n].src
  <2>1. c = WithoutSource(d, s)
    BY <1>6 DEF WithoutGroup
  <2>2. Orderly(d) /\ Entries(d) = {x \in Entries(b) : ~OfGroup(x, ep, g)}
    <3> HIDE DEF c, kept
    <3> QED
      BY <1>4
  <2>3. d.n = 0 /\ d.m = b.m
    <3>1. d.n = Cardinality(kept) /\ d.m = b.m
      <4> HIDE DEF kept, c
      <4> QED
        BY KeepingFields DEF Orderly
    <3>2. Cardinality(kept) = 0
      BY <1>6, FS_EmptySet
    <3> QED
      BY <3>1, <3>2
  <2>4. s \in 1..d.m
    BY <1>1, <1>6, <2>3 DEF Orderly, Known
  <2> HIDE DEF c, d, s, kept
  <2>5. \A i \in 1..d.n : d.dst[i].src # s
    BY <2>3
  <2>6. Orderly(c) /\ c.n = 0 /\ Entries(c) = Entries(d)
    BY <2>1, <2>2, <2>3, <2>4, <2>5, WithoutSourceOrderly
  <2>7. \A j \in 1..c.n : \E k \in 1..b.n : k >= j /\ Entry(c, j) = Entry(b, k)
    BY <2>6
  <2>8. Entries(c) = {x \in Entries(b) : ~OfGroup(x, ep, g)}
    BY <2>2, <2>6
  <2> QED
    BY <2>6, <2>7, <2>8 DEF c
<1> QED
  BY <1>3, <1>5, <1>6

-----------------------------------------------------------------------------
(* Removing all groups.  What is left of a table when the entries from i on *)
(* have been looked at; or else the counter wrapped, in a table without a   *)
(* device.                                                                  *)
AnyGroup(x, ep) == x.ep = ep /\ x.to \in Groups

Remains(b, c, ep, i) ==
    /\ Orderly(c)
    /\ Entries(c) \subseteq Entries(b)
    /\ \A x \in Entries(b) : ~AnyGroup(x, ep) => x \in Entries(c)
    /\ \A j \in 1..c.n : j >= i => ~AnyGroup(Entry(c, j), ep)

GoneWrong(b, c) == Wrapped(c) /\ \A x \in Entries(b) : x.to \notin Devices

Swept(b, c, ep, i) == Remains(b, c, ep, i) \/ GoneWrong(b, c)

LEMMA EntryTyped ==
    ASSUME NEW b, Orderly(b), NEW i \in 1..b.n
    PROVE  /\ Entry(b, i) \in [ep : Endpoints, cluster : Clusters, to : Groups \cup Devices]
           /\ Entry(b, i).ep = b.src[b.dst[i].src].ep
           /\ Entry(b, i).cluster = b.src[b.dst[i].src].cluster
           /\ Entry(b, i).to = b.dst[i].to
<1>1. b.dst[i].src \in 1..b.m /\ b.dst[i].to \in Groups \cup Devices
  BY DestinationFields DEF Orderly, Known
<1>2. b.src[b.dst[i].src] \in Source
  BY <1>1 DEF Orderly, OnlySources
<1> QED
  BY <1>1, <1>2 DEF Entry, Source

LEMMA OneTurn ==
    ASSUME NEW b, Orderly(b), NEW c, NEW ep, NEW i \in Nat, Swept(b, c, ep, i + 1)
    PROVE  Swept(b, WithoutEntry(c, i, ep), ep, i)
<1> DEFINE d == WithoutEntry(c, i, ep)
<1>1. CASE GoneWrong(b, c)
  <2>1. c.n = WRAPPED
    BY <1>1, TableFields DEF GoneWrong, Wrapped
  <2>2. d = c
    BY <2>1 DEF WithoutEntry
  <2> QED
    BY <1>1, <2>2 DEF Swept
<1>2. CASE Remains(b, c, ep, i + 1)
  <2>1. c.n \in 0..DstSize /\ c.n # WRAPPED /\ Orderly(c)
    <3>1. Orderly(c)
      BY <1>2 DEF Remains
    <3>2. c.n \in 0..DstSize
      BY <3>1, TableFields DEF Orderly
    <3> QED
      BY <3>1, <3>2, TableSizes
  <2> DEFINE g == c.dst[i].to
  <2>2. CASE ~(g \in Groups /\ c.src[c.dst[i].src].ep = ep)
    <3>1. d = c
      BY <2>2 DEF WithoutEntry
    <3>2. i \in 1..c.n => ~AnyGroup(Entry(c, i), ep)
      BY <2>2 DEF AnyGroup, Entry
    <3>3. \A j \in 1..c.n : j >= i => ~AnyGroup(Entry(c, j), ep)
      <4>1. \A j \in 1..c.n : j >= i + 1 => ~AnyGroup(Entry(c, j), ep)
        BY <1>2 DEF Remains
      <4> QED
        BY <2>1, <3>2, <4>1
    <3>4. Remains(b, c, ep, i)
      BY <1>2, <3>3 DEF Remains
    <3> HIDE DEF d
    <3> QED
      BY <3>1, <3>4 DEF Swept, d
  <2>3. CASE g \in Groups /\ c.src[c.dst[i].src].ep = ep
    <3>1. d = WithoutGroup(c, ep, g)
      BY <2>1, <2>3 DEF WithoutEntry
    <3> HIDE DEF d
    <3>2. \/ c.n = 0 /\ Wrapped(d)
          \/ /\ Orderly(d) /\ Entries(d) = {x \in Entries(c) : ~OfGroup(x, ep, g)}
             /\ \A j \in 1..d.n : \E k \in 1..c.n : k >= j /\ Entry(d, j) = Entry(c, k)
      <4> HIDE DEF g
      <4> QED
        BY <2>1, <3>1, WithoutGroupWorks
    <3>3. CASE c.n = 0 /\ Wrapped(d)
      <4>1. Entries(c) = {}
        BY <3>3 DEF Entries
      <4>2. \A x \in Entries(b) : x.to \in Groups
        BY <1>2, <4>1 DEF Remains, AnyGroup
      <4>3. GoneWrong(b, d)
        BY <3>3, <4>2, TableSizes DEF GoneWrong
      <4> QED
        BY <4>3 DEF Swept, d
    <3>4. CASE /\ Orderly(d) /\ Entries(d) = {x \in Entries(c) : ~OfGroup(x, ep, g)}
               /\ \A j \in 1..d.n : \E k \in 1..c.n : k >= j /\ Entry(d, j) = Entry(c, k)
      <4>1. Entries(d) \subseteq Entries(b)
        BY <1>2, <3>4 DEF Remains
      <4>2. \A x \in Entries(b) : ~AnyGroup(x, ep) => x \in Entries(d)
        BY <1>2, <2>3, <3>4 DEF Remains, AnyGroup, OfGroup
      <4>3. ASSUME NEW j \in 1..d.n, j >= i PROVE ~AnyGroup(Entry(d, j), ep)
        <5>1. PICK k \in 1..c.n : k >= j /\ Entry(d, j) = Entry(c, k)
          BY <3>4
        <5>2. CASE k >= i + 1
          BY <1>2, <5>1, <5>2 DEF Remains
        <5>3. CASE k = i
          <6>1. Entry(c, k).to = g
            BY <5>3 DEF Entry
          <6>2. ~OfGroup(Entry(d, j), ep, g)
            BY <3>4 DEF Entries
          <6> QED
            BY <5>1, <6>1, <6>2 DEF AnyGroup, OfGroup
        <5>4. k \in Int /\ j \in Int /\ k >= i
          <6>1. d.n \in 0..DstSize
            BY <3>4, TableFields DEF Orderly
          <6> QED
            BY <2>1, <4>3, <5>1, <6>1
        <5> QED
          BY <5>2, <5>3, <5>4
      <4>4. Remains(b, d, ep, i)
        BY <3>4, <4>1, <4>2, <4>3 DEF Remains
      <4> QED
        BY <4>4 DEF Swept, d
    <3> QED
      BY <3>2, <3>3, <3>4
  <2> QED
    BY <2>2, <2>3
<1> QED
  BY <1>1, <1>2 DEF Swept

(* The turns of the loop are what their definition says: there is a first,  *)
(* and each has a next.                                                     *)
LEMMA Turns ==
    ASSUME NEW b, b.n \in Nat, NEW ep
    PROVE  \E after : /\ after = [k \in 0..b.n |-> IF k = 0 THEN b
                                    ELSE WithoutEntry(after[k - 1], b.n + 1 - k, ep)]
                      /\ WithoutGroups(b, ep) = after[b.n]
<1> DEFINE Turn(c, k) == WithoutEntry(c, b.n + 1 - k, ep)
           Is(f, m) == f = [k \in 0..m |-> IF k = 0 THEN b ELSE Turn(f[k - 1], k)]
           S == {m \in Nat : \E f : Is(f, m)}
<1>1. Nat \subseteq S
  <2> HIDE DEF Turn
  <2>1. 0 \in S
    <3> DEFINE f == [k \in 0..0 |-> b]
    <3>1. f = [k \in 0..0 |-> IF k = 0 THEN b ELSE Turn(f[k - 1], k)]
      OBVIOUS
    <3> QED
      BY <3>1
  <2>2. ASSUME NEW m \in Nat, m \in S PROVE m + 1 \in S
    <3>1. PICK f : f = [k \in 0..m |-> IF k = 0 THEN b ELSE Turn(f[k - 1], k)]
      BY <2>2
    <3> DEFINE h == [k \in 0..(m + 1) |-> IF k = 0 THEN b ELSE Turn(f[k - 1], k)]
    <3>2. \A k \in 0..m : h[k] = f[k]
      <4>1. \A k \in 0..m : f[k] = IF k = 0 THEN b ELSE Turn(f[k - 1], k)
        BY <3>1
      <4>2. \A k \in 0..m : h[k] = IF k = 0 THEN b ELSE Turn(f[k - 1], k)
        OBVIOUS
      <4> HIDE DEF h
      <4> QED
        BY <4>1, <4>2
    <3>3. h = [k \in 0..(m + 1) |-> IF k = 0 THEN b ELSE Turn(h[k - 1], k)]
      <4> DEFINE h2 == [k \in 0..(m + 1) |-> IF k = 0 THEN b ELSE Turn(h[k - 1], k)]
      <4>1. ASSUME NEW k \in 0..(m + 1)
            PROVE  (IF k = 0 THEN b ELSE Turn(f[k - 1], k)) = IF k = 0 THEN b ELSE Turn(h[k - 1], k)
        <5> HIDE DEF h
        <5>1. CASE k = 0
          BY <5>1
        <5>2. CASE k # 0
          <6>1. k - 1 \in 0..m
            BY <5>2
          <6> QED
            BY <3>2, <5>2, <6>1
        <5> QED
          BY <5>1, <5>2
      <4>2. h = h2
        BY <4>1
      <4> QED
        BY <4>2
    <3> HIDE DEF h
    <3>4. \E ff : Is(ff, m + 1)
      BY <3>3
    <3> QED
      BY <3>4
  <2> HIDE DEF S
  <2> QED
    BY <2>1, <2>2, AllNumbers
<1>2. \E f : Is(f, b.n)
  BY <1>1
<1> DEFINE after == CHOOSE f : f = [k \in 0..b.n |-> IF k = 0 THEN b
                                      ELSE WithoutEntry(f[k - 1], b.n + 1 - k, ep)]
<1>3. after = [k \in 0..b.n |-> IF k = 0 THEN b ELSE WithoutEntry(after[k - 1], b.n + 1 - k, ep)]
  BY <1>2
<1>4. WithoutGroups(b, ep) = after[b.n]
  BY DEF WithoutGroups
<1> HIDE DEF after
<1> QED
  BY <1>3, <1>4

LEMMA WithoutGroupsWorks ==
    ASSUME NEW b, Orderly(b), NEW ep
    PROVE  LET c == WithoutGroups(b, ep)
           IN  \/ GoneWrong(b, c)
               \/ Orderly(c) /\ Entries(c) = {x \in Entries(b) : ~AnyGroup(x, ep)}
<1> DEFINE c == WithoutGroups(b, ep)
<1>1. b.n \in Nat
  <2>1. b.n \in 0..DstSize
    BY TableFields DEF Orderly
  <2> QED
    BY <2>1, TableSizes
<1>2. PICK after : /\ after = [k \in 0..b.n |-> IF k = 0 THEN b
                                 ELSE WithoutEntry(after[k - 1], b.n + 1 - k, ep)]
                   /\ WithoutGroups(b, ep) = after[b.n]
  BY <1>1, Turns
<1> HIDE DEF c
<1> DEFINE S == {k \in Nat : k <= b.n => Swept(b, after[k], ep, b.n + 1 - k)}
<1>3. 0 \in S
  <2>1. after[0] = b
    BY <1>1, <1>2
  <2>2. Remains(b, b, ep, b.n + 1)
    <3>1. \A j \in 1..b.n : ~(j >= b.n + 1)
      BY <1>1
    <3> QED
      BY <3>1 DEF Remains
  <2>3. b.n + 1 - 0 = b.n + 1
    BY <1>1
  <2> QED
    BY <2>1, <2>2, <2>3 DEF Swept
<1>4. ASSUME NEW k \in Nat, k \in S PROVE k + 1 \in S
  <2> SUFFICES ASSUME k + 1 <= b.n PROVE Swept(b, after[k + 1], ep, b.n + 1 - (k + 1))
    OBVIOUS
  <2> DEFINE i == b.n + 1 - (k + 1)
  <2>1. i \in Nat /\ b.n + 1 - k = i + 1 /\ k <= b.n
    BY <1>1
  <2>2. Swept(b, after[k], ep, i + 1)
    BY <1>4, <2>1
  <2>3. after[k + 1] = WithoutEntry(after[k], i, ep)
    <3>1. k + 1 \in 0..b.n /\ k + 1 # 0 /\ (k + 1) - 1 = k
      BY <1>1
    <3> QED
      BY <1>2, <3>1
  <2> HIDE DEF i, S
  <2> QED
    BY <2>1, <2>2, <2>3, OneTurn DEF i
<1>5. Swept(b, c, ep, 1)
  <2>1. b.n \in S
    <3> HIDE DEF S
    <3> QED
      BY <1>1, <1>3, <1>4, AllNumbers
  <2>2. b.n <= b.n /\ b.n + 1 - b.n = 1
    BY <1>1
  <2> QED
    BY <1>2, <2>1, <2>2 DEF c
<1>6. ASSUME Remains(b, c, ep, 1) PROVE Orderly(c) /\ Entries(c) = {x \in Entries(b) : ~AnyGroup(x, ep)}
  <2>1. Orderly(c) /\ c.n \in 0..DstSize
    BY <1>6, TableFields DEF Remains, Orderly
  <2>2. \A x \in Entries(c) : ~AnyGroup(x, ep)
    <3>1. \A j \in 1..c.n : j >= 1
      BY <2>1
    <3> QED
      BY <1>6, <3>1 DEF Remains, Entries
  <2> QED
    BY <1>6, <2>1, <2>2 DEF Remains
<1> QED
  BY <1>5, <1>6 DEF Swept, c

-----------------------------------------------------------------------------
(* A binding made: a new entry at the end, with its source if it is new; or *)
(* nothing, if the table has the binding already or one array is full.      *)
NoSourceLeft(b, s) == b.m >= SrcSize /\ \A i \in 1..b.m : b.src[i] # s

LEMMA BoundWorks ==
    ASSUME NEW b, Orderly(b), NEW s \in Source, NEW to \in Groups \cup Devices
    PROVE  LET c == Bound(b, s, to)
           IN  /\ Orderly(c)
               /\ \/ Entries(c) = Entries(b) \cup {Of(s, to)}
                  \/ c = b /\ (b.n >= DstSize \/ NoSourceLeft(b, s))
<1> DEFINE known == {i \in 1..b.m : b.src[i] = s}
           at == IF known = {} THEN b.m + 1 ELSE CHOOSE i \in known : TRUE
           new == [to |-> to, src |-> at]
           c == Bound(b, s, to)
           m2 == IF at > b.m THEN at ELSE b.m
           d2 == [b.dst EXCEPT ![b.n + 1] = new]
           s2 == [b.src EXCEPT ![at] = s]
           n2 == b.n + 1
<1>1. /\ b \in TableWith(0..DstSize) /\ b.n \in 0..DstSize /\ b.m \in 0..SrcSize
      /\ b.dst \in [1..DstSize -> Destination \cup {Nothing}]
      /\ b.src \in [1..SrcSize -> Source \cup {NoSource}]
      /\ DstSize \in 1..254 /\ SrcSize \in 1..254
  BY TableFields, TableSizes DEF Orderly
<1>2. /\ at \in 1..(b.m + 1)
      /\ at <= b.m => b.src[at] = s
      /\ at = b.m + 1 => \A i \in 1..b.m : b.src[i] # s
  <2>1. CASE known = {}
    BY <1>1, <2>1
  <2>2. CASE known # {}
    <3>1. at \in known
      BY <2>2
    <3> HIDE DEF at
    <3>2. at \in 1..b.m /\ b.src[at] = s
      BY <3>1
    <3> QED
      BY <1>1, <3>2
  <2> QED
    BY <2>1, <2>2
<1>3. CASE b.n = DstSize \/ at > SrcSize
  <2>1. c = b
    BY <1>3 DEF Bound
  <2>2. b.n >= DstSize \/ NoSourceLeft(b, s)
    <3> HIDE DEF at
    <3>1. CASE b.n = DstSize
      BY <1>1, <3>1
    <3>2. CASE at > SrcSize
      <4> HIDE DEF known, new, c
      <4>1. b.m \in 0..SrcSize /\ SrcSize \in 1..254
        BY <1>1
      <4>2. at \in 1..(b.m + 1)
        BY <1>2
      <4>3. at = b.m + 1 /\ b.m >= SrcSize
        BY <3>2, <4>1, <4>2
      <4> QED
        BY <1>2, <4>3 DEF NoSourceLeft
    <3> QED
      BY <1>3, <3>1, <3>2
  <2> HIDE DEF c
  <2>3. Orderly(c) /\ c = b
    BY <2>1
  <2> QED
    BY <2>2, <2>3 DEF c
<1>4. CASE ~(b.n = DstSize \/ at > SrcSize) /\ \E i \in 1..b.n : b.dst[i] = new
  <2>1. c = b
    BY <1>4 DEF Bound
  <2> HIDE DEF at, c
  <2>2. PICK i \in 1..b.n : b.dst[i] = new
    BY <1>4
  <2>3. at \in 1..b.m /\ b.dst[i].to = to /\ b.dst[i].src = at
    BY <2>2 DEF Orderly, Known
  <2>4. b.src[at] = s
    BY <1>1, <1>2, <2>3
  <2>5. Entry(b, i) = Of(s, to)
    BY <2>3, <2>4 DEF Entry, Of
  <2>6. Of(s, to) \in Entries(b)
    BY <2>5 DEF Entries
  <2>7. Orderly(c) /\ Entries(c) = Entries(b) \cup {Of(s, to)}
    BY <2>1, <2>6
  <2> QED
    BY <2>7 DEF c
<1>5. CASE ~(b.n = DstSize \/ at > SrcSize) /\ ~\E i \in 1..b.n : b.dst[i] = new
  <2>1. c = [n |-> n2, dst |-> d2, m |-> m2, src |-> s2]
    BY <1>5, Zenon DEF Bound
  <2>2. new.to = to /\ new.src = at
    OBVIOUS
  <2>3. /\ n2 \in 1..DstSize /\ n2 = b.n + 1 /\ at \in 1..SrcSize
        /\ m2 \in 1..SrcSize /\ at \in 1..m2 /\ b.m <= m2
        /\ \A i \in 1..n2 : i \in 1..b.n \/ i = n2
        /\ \A i \in 1..m2 : i \in 1..b.m \/ i = at
        /\ \A i \in 1..b.n : i \in 1..n2 /\ i # n2 /\ i \in 1..DstSize
    <3> HIDE DEF at, c, d2, s2
    <3>1. /\ b.n \in Int /\ b.m \in Int /\ DstSize \in Int /\ SrcSize \in Int /\ at \in Int
          /\ 0 <= b.n /\ b.n < DstSize /\ 0 <= b.m /\ 1 <= at /\ at <= b.m + 1 /\ at <= SrcSize
          /\ b.m <= SrcSize
      BY <1>1, <1>2, <1>5
    <3>2. n2 = b.n + 1 /\ m2 = IF at > b.m THEN at ELSE b.m
      OBVIOUS
    <3> HIDE DEF n2, m2
    <3>3. n2 \in 1..DstSize /\ at \in 1..SrcSize /\ m2 \in 1..SrcSize /\ at \in 1..m2 /\ b.m <= m2
      BY <3>1, <3>2
    <3>4. /\ \A i \in 1..n2 : i \in 1..b.n \/ i = n2
          /\ \A i \in 1..b.n : i \in 1..n2 /\ i # n2 /\ i \in 1..DstSize
      BY <3>1, <3>2
    <3>5. \A i \in 1..m2 : i \in 1..b.m \/ i = at
      BY <3>1, <3>2
    <3> QED
      BY <3>2, <3>3, <3>4, <3>5
  <2>4. new \in Destination
    <3> HIDE DEF at, c
    <3> QED
      BY <2>3, DestinationFields
  <2>5. /\ d2 \in [1..DstSize -> Destination \cup {Nothing}]
        /\ d2[n2] = new /\ \A i \in 1..b.n : d2[i] = b.dst[i]
    <3> HIDE DEF at, c, new
    <3>1. n2 = b.n + 1
      OBVIOUS
    <3> HIDE DEF n2
    <3>2. d2 = [b.dst EXCEPT ![n2] = new] /\ n2 \in 1..DstSize
      BY <2>3, <3>1
    <3> HIDE DEF d2
    <3>3. d2 \in [1..DstSize -> Destination \cup {Nothing}] /\ d2[n2] = new
      BY <1>1, <2>4, <3>2
    <3>4. \A i \in 1..b.n : i \in 1..DstSize /\ i # n2
      BY <2>3
    <3> QED
      BY <1>1, <3>2, <3>3, <3>4
  <2>6. /\ s2 \in [1..SrcSize -> Source \cup {NoSource}]
        /\ s2[at] = s /\ \A i \in 1..b.m : s2[i] = b.src[i]
    <3> HIDE DEF at, c, new
    <3> QED
      BY <1>1, <1>2, <2>3
  <2> HIDE DEF at, c, d2, s2, n2, m2, known
  <2>7. c.n = n2 /\ c.dst = d2 /\ c.m = m2 /\ c.src = s2
    BY <2>1
  <2>8. c \in TableWith(0..DstSize)
    BY <1>1, <2>1, <2>3, <2>5, <2>6 DEF TableWith
  <2> HIDE DEF new
  <2>9. Known(c)
    <3>1. ASSUME NEW i \in 1..n2 PROVE d2[i] \in Destination /\ d2[i].src \in 1..m2
      <4>1. CASE i \in 1..b.n
        <5>1. b.dst[i] \in Destination /\ b.dst[i].src \in 1..b.m
          BY <4>1 DEF Orderly, Known
        <5> QED
          BY <1>1, <2>3, <2>5, <4>1, <5>1
      <4>2. CASE i = n2
        BY <2>2, <2>3, <2>4, <2>5, <4>2
      <4> QED
        BY <2>3, <4>1, <4>2
    <3> QED
      BY <2>7, <3>1 DEF Known
  <2>10. OnlySources(c)
    BY <2>3, <2>6, <2>7 DEF OnlySources, Orderly
  <2>11. SourcesDiffer(c)
    <3>1. ASSUME NEW i \in 1..m2, NEW k \in 1..m2, s2[i] = s2[k] PROVE i = k
      <4>1. CASE i \in 1..b.m /\ k \in 1..b.m
        BY <2>6, <3>1, <4>1 DEF Orderly, SourcesDiffer
      <4>2. ASSUME NEW j \in 1..b.m, b.src[j] = s PROVE at = j
        <5>1. at <= b.m
          BY <1>1, <1>2, <4>2
        <5>2. at \in 1..b.m /\ b.src[at] = s
          BY <1>1, <1>2, <5>1
        <5> QED
          BY <4>2, <5>2 DEF Orderly, SourcesDiffer
      <4>3. CASE i = at \/ k = at
        BY <2>3, <2>6, <3>1, <4>2, <4>3
      <4> QED
        BY <2>3, <4>1, <4>3
    <3> QED
      BY <2>7, <3>1 DEF SourcesDiffer
  <2>12. DestinationsDiffer(c)
    <3>1. \A i \in 1..b.n : d2[i] # new
      BY <1>5, <2>5
    <3>2. ASSUME NEW i \in 1..n2, NEW k \in 1..n2, d2[i] = d2[k] PROVE i = k
      <4>1. CASE i \in 1..b.n /\ k \in 1..b.n
        BY <2>5, <3>2, <4>1 DEF Orderly, DestinationsDiffer
      <4>2. CASE i = n2 \/ k = n2
        BY <2>3, <2>5, <3>1, <3>2, <4>2
      <4> QED
        BY <2>3, <4>1, <4>2
    <3> QED
      BY <2>7, <3>2 DEF DestinationsDiffer
  <2>13. ASSUME NEW i \in 1..b.n PROVE Entry(c, i) = Entry(b, i)
    <3>1. b.dst[i].src \in 1..b.m /\ c.dst[i] = b.dst[i]
      BY <2>5, <2>7 DEF Orderly, Known
    <3> QED
      BY <2>6, <2>7, <3>1 DEF Entry
  <2>14. Entry(c, n2) = Of(s, to)
    BY <2>2, <2>5, <2>6, <2>7 DEF Entry, Of
  <2>15. Entries(c) = Entries(b) \cup {Of(s, to)}
    BY <2>3, <2>7, <2>13, <2>14 DEF Entries
  <2>16. Orderly(c)
    BY <2>8, <2>9, <2>10, <2>11, <2>12 DEF Orderly
  <2> QED
    BY <2>15, <2>16 DEF c
<1> QED
  BY <1>3, <1>4, <1>5

-----------------------------------------------------------------------------
(* A binding taken away by its place: no other entry stands for it.         *)
LEMMA EntriesDiffer ==
    ASSUME NEW b, Orderly(b), NEW i \in 1..b.n, NEW k \in 1..b.n, Entry(b, i) = Entry(b, k)
    PROVE  i = k
<1>1. /\ b.dst[i] \in Destination /\ b.dst[i].src \in 1..b.m
      /\ b.dst[k] \in Destination /\ b.dst[k].src \in 1..b.m
  BY DEF Orderly, Known
<1>2. b.src[b.dst[i].src] \in Source /\ b.src[b.dst[k].src] \in Source
  BY <1>1 DEF Orderly, OnlySources
<1>3. /\ b.src[b.dst[i].src].ep = b.src[b.dst[k].src].ep
      /\ b.src[b.dst[i].src].cluster = b.src[b.dst[k].src].cluster
      /\ b.dst[i].to = b.dst[k].to
  BY DEF Entry
<1>4. \A x, y \in Source : x.ep = y.ep /\ x.cluster = y.cluster => x = y
  BY DEF Source
<1>5. b.src[b.dst[i].src] = b.src[b.dst[k].src]
  BY <1>2, <1>3, <1>4
<1>6. b.dst[i].src = b.dst[k].src
  BY <1>1, <1>5 DEF Orderly, SourcesDiffer
<1>7. b.dst[i] = b.dst[k]
  BY <1>1, <1>3, <1>6, DestinationFields
<1> QED
  BY <1>7 DEF Orderly, DestinationsDiffer

LEMMA UnbindWorks ==
    ASSUME NEW b, Orderly(b), NEW i \in 1..b.n
    PROVE  LET s == b.dst[i].src
               kept == (1..b.n) \ {i}
               d == Keeping(b, kept)
               c == IF \E k \in kept : b.dst[k].src = s THEN d ELSE WithoutSource(d, s)
           IN  Orderly(c) /\ Entries(c) = Entries(b) \ {Entry(b, i)}
<1> DEFINE s == b.dst[i].src
           kept == (1..b.n) \ {i}
           d == Keeping(b, kept)
           c == IF \E k \in kept : b.dst[k].src = s THEN d ELSE WithoutSource(d, s)
<1>1. kept \in SUBSET (1..b.n) /\ \A k \in 1..b.n : k \in kept <=> k # i
  OBVIOUS
<1>2. s \in 1..b.m
  BY DEF Orderly, Known
<1> HIDE DEF kept
<1>3. Orderly(d) /\ Entries(d) = {Entry(b, k) : k \in kept} /\ d.m = b.m
  <2>1. d.m = b.m
    BY KeepingFields DEF Orderly
  <2> QED
    BY <1>1, <2>1, KeepingOrderly, KeepingEntries
<1>4. \A j \in 1..d.n : Nth(kept, j) \in kept /\ d.dst[j] = b.dst[Nth(kept, j)]
  BY <1>1, KeepingPlaces
<1> HIDE DEF d
<1>5. Entries(d) = Entries(b) \ {Entry(b, i)}
  BY <1>1, <1>3, EntriesDiffer DEF Entries
<1> HIDE DEF s
<1>6. CASE \E k \in kept : b.dst[k].src = s
  <2>1. c = d
    BY <1>6
  <2> HIDE DEF c
  <2>2. Orderly(c) /\ Entries(c) = Entries(b) \ {Entry(b, i)}
    BY <1>3, <1>5, <2>1
  <2> QED
    BY <2>2 DEF c, d, s, kept
<1>7. CASE ~\E k \in kept : b.dst[k].src = s
  <2>1. c = WithoutSource(d, s)
    BY <1>7
  <2> HIDE DEF c
  <2>2. s \in 1..d.m /\ \A j \in 1..d.n : d.dst[j].src # s
    BY <1>2, <1>3, <1>4, <1>7
  <2>3. Orderly(c) /\ Entries(c) = Entries(d)
    BY <1>3, <2>1, <2>2, WithoutSourceOrderly
  <2>4. Orderly(c) /\ Entries(c) = Entries(b) \ {Entry(b, i)}
    BY <1>5, <2>3
  <2> QED
    BY <2>4 DEF c, d, s, kept
<1> QED
  BY <1>6, <1>7

-----------------------------------------------------------------------------
(* The table in order, and what the commands do to the set of bindings.     *)
LEMMA InOrder == GroupsInv /\ ~Undefined => Orderly(binding) /\ BoundNow = Entries(binding)
  BY DEF GroupsInv, BoundNow, Entries, Entry

LEMMA InOrderNext ==
    ASSUME Orderly(binding'), members' \subseteq Endpoints \X Groups
    PROVE  GroupsInv' /\ ~Undefined' /\ BoundNow' = Entries(binding')
<1> DEFINE b == binding'
<1>1. b \in TableWith(0..DstSize) /\ b.n \in 0..DstSize
  BY TableFields DEF Orderly
<1>2. b \in TableWith((0..DstSize) \cup {WRAPPED}) /\ b.n # WRAPPED
  BY <1>1, TableSizes DEF TableWith
<1>3. GroupsTypeOK' /\ ~Undefined'
  BY <1>2 DEF GroupsTypeOK, TableWith, Undefined
<1>4. BoundNow' = Entries(binding')
  BY <1>3 DEF BoundNow, Entries, Entry
<1> QED
  BY <1>3, <1>4 DEF GroupsInv

LEMMA WrongNext ==
    ASSUME Wrapped(binding'), members' \subseteq Endpoints \X Groups
    PROVE  GroupsInv' /\ Undefined' /\ BoundNow' = {}
<1> DEFINE b == binding'
<1>1. b \in TableWith({WRAPPED}) /\ b.n = WRAPPED
  BY TableFields DEF Wrapped
<1>2. b \in TableWith((0..DstSize) \cup {WRAPPED})
  BY <1>1 DEF TableWith
<1>3. GroupsTypeOK' /\ Undefined'
  BY <1>1, <1>2 DEF GroupsTypeOK, TableWith, Undefined
<1>4. BoundNow' = {}
  BY <1>3 DEF BoundNow
<1> QED
  BY <1>3, <1>4 DEF GroupsInv

LEMMA GroupsStart == GroupsInit => GroupsInv /\ BoundNow = {}
<1> SUFFICES ASSUME GroupsInit PROVE GroupsInv /\ BoundNow = {}
  OBVIOUS
<1>1. binding.n = 0 /\ binding.m = 0 /\ members = {}
  BY DEF GroupsInit
<1>2. 0 \in 0..DstSize /\ 0 \in 0..SrcSize /\ 0 # WRAPPED /\ 1..0 = {}
  BY TableSizes
<1>3. binding \in TableWith(0..DstSize) /\ binding \in TableWith((0..DstSize) \cup {WRAPPED})
  BY <1>2 DEF GroupsInit, TableWith
<1>4. Orderly(binding)
  BY <1>1, <1>2, <1>3 DEF Orderly, Known, OnlySources, SourcesDiffer, DestinationsDiffer
<1>5. GroupsTypeOK /\ ~Undefined
  BY <1>1, <1>2, <1>3 DEF GroupsTypeOK, TableWith, Undefined
<1>6. BoundNow = {}
  BY <1>1, <1>2 DEF BoundNow
<1> QED
  BY <1>4, <1>5, <1>6 DEF GroupsInv

-----------------------------------------------------------------------------
(* What each command does to the set of bindings.                           *)
BoundIfRoom(ep, g) ==
    \/ binding.n >= DstSize \/ NoSourceLeft(binding, [ep |-> ep, cluster |-> GroupsCluster])
    \/ \E x \in BoundNow : x.ep = ep /\ x.to = g

LEMMA AddGroupStep ==
    ASSUME GroupsInv, NEW ep \in Endpoints, NEW g \in Groups, AddGroup(ep, g)
    PROVE  /\ GroupsInv' /\ ~Undefined /\ ~Undefined'
           /\ BoundNow' = BoundNow \/ BoundNow' = BoundNow \cup {Of([ep |-> ep, cluster |-> GroupsCluster], g)}
           /\ members \subseteq members' /\ members' \subseteq members \cup {<<ep, g>>}
           /\ BoundIfRoom(ep, g)'
<1> DEFINE s == [ep |-> ep, cluster |-> GroupsCluster]
<1>1. ~Undefined /\ Orderly(binding) /\ BoundNow = Entries(binding)
  BY InOrder DEF AddGroup
<1>2. /\ members \subseteq members' /\ members' \subseteq members \cup {<<ep, g>>}
      /\ members' \subseteq Endpoints \X Groups
  BY DEF AddGroup, GroupsInv, GroupsTypeOK
<1>3. s \in Source /\ s.ep = ep /\ g \in Groups \cup Devices
  BY TableSizes DEF Source
<1>4. Of(s, g).ep = ep /\ Of(s, g).to = g
  BY <1>3 DEF Of
<1>5. CASE BindingExists(binding, ep, g)
  <2>1. binding' = binding
    BY <1>5 DEF AddGroup
  <2>2. GroupsInv' /\ ~Undefined' /\ BoundNow' = Entries(binding)
    BY <1>1, <1>2, <2>1, InOrderNext
  <2>3. \E x \in Entries(binding) : x.ep = ep /\ x.to = g
    <3>1. PICK i \in 1..binding.n : IsBinding(binding, binding.dst[i], ep, g)
      BY <1>5 DEF BindingExists
    <3>2. Entry(binding, i).ep = ep /\ Entry(binding, i).to = g
      BY <3>1 DEF IsBinding, Entry
    <3> QED
      BY <3>2 DEF Entries
  <2>4. BoundIfRoom(ep, g)'
    BY <2>2, <2>3 DEF BoundIfRoom
  <2> QED
    BY <1>1, <1>2, <2>2, <2>4
<1>6. CASE ~BindingExists(binding, ep, g)
  <2>1. binding' = Bound(binding, s, g)
    BY <1>6 DEF AddGroup
  <2> HIDE DEF s
  <2>2. /\ Orderly(binding')
        /\ \/ Entries(binding') = Entries(binding) \cup {Of(s, g)}
           \/ binding' = binding /\ (binding.n >= DstSize \/ NoSourceLeft(binding, s))
    BY <1>1, <1>3, <2>1, BoundWorks
  <2>3. GroupsInv' /\ ~Undefined' /\ BoundNow' = Entries(binding')
    BY <1>2, <2>2, InOrderNext
  <2>4. CASE Entries(binding') = Entries(binding) \cup {Of(s, g)}
    <3>1. Of(s, g) \in BoundNow'
      BY <2>3, <2>4
    <3>2. BoundIfRoom(ep, g)'
      BY <1>4, <3>1 DEF BoundIfRoom
    <3> QED
      BY <1>1, <1>2, <2>3, <2>4, <3>2 DEF s
  <2>5. CASE binding' = binding /\ (binding.n >= DstSize \/ NoSourceLeft(binding, s))
    <3>1. BoundIfRoom(ep, g)'
      BY <2>5 DEF BoundIfRoom, NoSourceLeft, s
    <3> QED
      BY <1>1, <1>2, <2>3, <2>5, <3>1
  <2> QED
    BY <2>2, <2>4, <2>5
<1> QED
  BY <1>5, <1>6

LEMMA RemoveGroupStep ==
    ASSUME GroupsInv, NEW ep \in Endpoints, NEW g \in Groups, RemoveGroup(ep, g)
    PROVE  /\ GroupsInv' /\ ~Undefined
           /\ BoundNow' = {x \in BoundNow : ~OfGroup(x, ep, g)}
           /\ Undefined' => BoundNow = {}
           /\ members' = members \ {<<ep, g>>}
<1>1. ~Undefined /\ Orderly(binding) /\ BoundNow = Entries(binding)
  BY InOrder DEF RemoveGroup
<1>2. members' = members \ {<<ep, g>>} /\ members' \subseteq Endpoints \X Groups
  BY DEF RemoveGroup, GroupsInv, GroupsTypeOK
<1>3. binding' = WithoutGroup(binding, ep, g)
  BY DEF RemoveGroup
<1>4. \/ binding.n = 0 /\ Wrapped(binding')
      \/ Orderly(binding') /\ Entries(binding') = {x \in Entries(binding) : ~OfGroup(x, ep, g)}
  BY <1>1, <1>3, WithoutGroupWorks
<1>5. CASE binding.n = 0 /\ Wrapped(binding')
  <2>1. GroupsInv' /\ BoundNow' = {}
    BY <1>2, <1>5, WrongNext
  <2>2. BoundNow = {}
    BY <1>1, <1>5 DEF Entries
  <2> QED
    BY <1>1, <1>2, <2>1, <2>2
<1>6. CASE Orderly(binding') /\ Entries(binding') = {x \in Entries(binding) : ~OfGroup(x, ep, g)}
  <2>1. GroupsInv' /\ ~Undefined' /\ BoundNow' = Entries(binding')
    BY <1>2, <1>6, InOrderNext
  <2> QED
    BY <1>1, <1>2, <1>6, <2>1
<1> QED
  BY <1>4, <1>5, <1>6

LEMMA RemoveAllGroupsStep ==
    ASSUME GroupsInv, NEW ep \in Endpoints, RemoveAllGroups(ep)
    PROVE  /\ GroupsInv' /\ ~Undefined
           /\ \/ ~Undefined' /\ BoundNow' = {x \in BoundNow : ~AnyGroup(x, ep)}
              \/ Undefined' /\ BoundNow' = {} /\ \A x \in BoundNow : x.to \notin Devices
           /\ members' = {mm \in members : mm[1] # ep}
<1>1. ~Undefined /\ Orderly(binding) /\ BoundNow = Entries(binding)
  BY InOrder DEF RemoveAllGroups
<1>2. members' = {mm \in members : mm[1] # ep} /\ members' \subseteq Endpoints \X Groups
  BY DEF RemoveAllGroups, GroupsInv, GroupsTypeOK
<1>3. binding' = WithoutGroups(binding, ep)
  BY DEF RemoveAllGroups
<1>4. \/ GoneWrong(binding, binding')
      \/ Orderly(binding') /\ Entries(binding') = {x \in Entries(binding) : ~AnyGroup(x, ep)}
  BY <1>1, <1>3, WithoutGroupsWorks
<1>5. CASE GoneWrong(binding, binding')
  <2>1. Wrapped(binding') /\ \A x \in Entries(binding) : x.to \notin Devices
    BY <1>5 DEF GoneWrong
  <2>2. GroupsInv' /\ Undefined' /\ BoundNow' = {}
    BY <1>2, <2>1, WrongNext
  <2> QED
    BY <1>1, <1>2, <2>1, <2>2
<1>6. CASE Orderly(binding') /\ Entries(binding') = {x \in Entries(binding) : ~AnyGroup(x, ep)}
  <2>1. GroupsInv' /\ ~Undefined' /\ BoundNow' = Entries(binding')
    BY <1>2, <1>6, InOrderNext
  <2> QED
    BY <1>1, <1>2, <1>6, <2>1
<1> QED
  BY <1>4, <1>5, <1>6

LEMMA BindStep ==
    ASSUME GroupsInv, NEW s \in Source, NEW to \in Groups \cup Devices, Bind(s, to)
    PROVE  /\ GroupsInv' /\ ~Undefined /\ ~Undefined' /\ members' = members
           /\ BoundNow' = BoundNow \/ BoundNow' = BoundNow \cup {Of(s, to)}
<1>1. ~Undefined /\ Orderly(binding) /\ BoundNow = Entries(binding)
  BY InOrder DEF Bind
<1>2. members' = members /\ members' \subseteq Endpoints \X Groups
  BY DEF Bind, GroupsInv, GroupsTypeOK
<1>3. binding' = Bound(binding, s, to)
  BY DEF Bind
<1>4. /\ Orderly(binding')
      /\ Entries(binding') = Entries(binding) \cup {Of(s, to)} \/ binding' = binding
  BY <1>1, <1>3, BoundWorks
<1>5. GroupsInv' /\ ~Undefined' /\ BoundNow' = Entries(binding')
  BY <1>2, <1>4, InOrderNext
<1> QED
  BY <1>1, <1>2, <1>4, <1>5

LEMMA UnbindStep ==
    ASSUME GroupsInv, NEW i \in 1..DstSize, Unbind(i)
    PROVE  /\ GroupsInv' /\ ~Undefined /\ ~Undefined' /\ members' = members
           /\ Entry(binding, i) \in BoundNow /\ BoundNow' = BoundNow \ {Entry(binding, i)}
<1>1. ~Undefined /\ Orderly(binding) /\ BoundNow = Entries(binding)
  BY InOrder DEF Unbind
<1>2. members' = members /\ members' \subseteq Endpoints \X Groups
  BY DEF Unbind, GroupsInv, GroupsTypeOK
<1>3. i \in 1..binding.n
  <2>1. binding.n \in 0..DstSize /\ i <= binding.n
    BY <1>1, TableFields DEF Unbind, Orderly
  <2> QED
    BY <2>1, TableSizes
<1>4. Orderly(binding') /\ Entries(binding') = Entries(binding) \ {Entry(binding, i)}
  BY <1>1, <1>3, UnbindWorks DEF Unbind
<1>5. GroupsInv' /\ ~Undefined' /\ BoundNow' = Entries(binding')
  BY <1>2, <1>4, InOrderNext
<1>6. Entry(binding, i) \in Entries(binding)
  BY <1>3 DEF Entries
<1> QED
  BY <1>1, <1>2, <1>4, <1>5, <1>6

(* Whatever happens, the state that nothing is known of has no step.        *)
LEMMA GroupsSteps ==
    ASSUME GroupsInv, [GroupsNext]_groupsVars
    PROVE  GroupsInv'
<1>1. CASE GroupsNext
  BY <1>1, AddGroupStep, RemoveGroupStep, RemoveAllGroupsStep, BindStep, UnbindStep DEF GroupsNext
<1>2. CASE UNCHANGED groupsVars
  BY <1>2 DEF groupsVars, GroupsInv, GroupsTypeOK, Undefined, Orderly
<1> QED
  BY <1>1, <1>2

-----------------------------------------------------------------------------
LEMMA GroupsInvariant == GroupsSpec => []GroupsInv
<1>1. GroupsInit => GroupsInv
  BY GroupsStart
<1>2. GroupsInv /\ [GroupsNext]_groupsVars => GroupsInv'
  BY GroupsSteps
<1> QED
  BY <1>1, <1>2, PTL DEF GroupsSpec

(* Whatever is removed, by whom, and in which order, each destination       *)
(* refers to a source in the table, and no source is there twice: the walk  *)
(* of zb_apsme_move_dst_bind_table and the correction of the indexes are    *)
(* right, for tables of every size.                                         *)
THEOREM SourcesKnown == GroupsSpec => []SourcesAreKnown
<1>1. GroupsInv => SourcesAreKnown
  BY DEF GroupsInv, SourcesAreKnown, Orderly, Known, SourcesDiffer
<1> QED
  BY <1>1, GroupsInvariant, PTL

(* A binding to a device keeps the loops inside the table: the counter      *)
(* wraps only in a table that is empty, or that is emptied on the way.      *)
THEOREM DevicesProtect == GroupsSpec => DeviceBindingProtects
<1>1. GroupsInv /\ [GroupsNext]_groupsVars
        => [(\E b \in BoundNow : b.to \in Devices) => ~Undefined']_groupsVars
  <2> SUFFICES ASSUME GroupsInv, GroupsNext, NEW x \in BoundNow, x.to \in Devices PROVE ~Undefined'
    OBVIOUS
  <2> QED
    BY AddGroupStep, RemoveGroupStep, RemoveAllGroupsStep, BindStep, UnbindStep DEF GroupsNext
<1> QED
  BY <1>1, GroupsInvariant, PTL DEF GroupsSpec, DeviceBindingProtects

(* A group joined is bound, if there is room, and one left is not: bindings *)
(* and membership, kept by two libraries, go together.                      *)
THEOREM BindingsFollow == GroupsSpec => BindingFollowsMembership
<1> DEFINE A == /\ \A mm \in members' \ members :
                     \/ binding'.n >= DstSize
                     \/ /\ binding'.m >= SrcSize
                        /\ \A i \in 1..binding'.m :
                              binding'.src[i] # [ep |-> mm[1], cluster |-> GroupsCluster]
                     \/ \E b \in BoundNow' : b.ep = mm[1] /\ b.to = mm[2]
                /\ \A mm \in members \ members' :
                     ~\E b \in BoundNow' : b.ep = mm[1] /\ b.to = mm[2]
<1>1. ASSUME GroupsInv, [GroupsNext]_groupsVars PROVE [A]_groupsVars
  <2> SUFFICES ASSUME GroupsNext PROVE A
    BY <1>1
  <2>1. ASSUME NEW ep \in Endpoints, NEW g \in Groups, AddGroup(ep, g) PROVE A
    <3>0. members \subseteq members' /\ members' \subseteq members \cup {<<ep, g>>}
      BY <1>1, <2>1, AddGroupStep
    <3>1. \A mm \in members' \ members : mm = <<ep, g>>
      BY <3>0
    <3>2. members \ members' = {}
      BY <3>0
    <3>3. BoundIfRoom(ep, g)'
      BY <1>1, <2>1, AddGroupStep
    <3>4. ASSUME NEW mm \in members' \ members
          PROVE  \/ binding'.n >= DstSize
                 \/ /\ binding'.m >= SrcSize
                    /\ \A i \in 1..binding'.m :
                          binding'.src[i] # [ep |-> mm[1], cluster |-> GroupsCluster]
                 \/ \E b \in BoundNow' : b.ep = mm[1] /\ b.to = mm[2]
      <4>1. mm = <<ep, g>>
        BY <3>1
      <4>2. mm[1] = ep /\ mm[2] = g
        BY <4>1
      <4> QED
        BY <3>3, <4>2 DEF BoundIfRoom, NoSourceLeft
    <3> QED
      BY <3>2, <3>4
  <2>2. ASSUME NEW ep \in Endpoints, NEW g \in Groups, RemoveGroup(ep, g) PROVE A
    BY <1>1, <2>2, RemoveGroupStep DEF OfGroup
  <2>3. ASSUME NEW ep \in Endpoints, RemoveAllGroups(ep) PROVE A
    <3>1. members \subseteq Endpoints \X Groups
      BY <1>1 DEF GroupsInv, GroupsTypeOK
    <3> QED
      BY <1>1, <2>3, <3>1, RemoveAllGroupsStep DEF AnyGroup
  <2>4. CASE members' = members
    BY <2>4
  <2> QED
    BY <1>1, <2>1, <2>2, <2>3, <2>4, BindStep, UnbindStep DEF GroupsNext
<1> QED
  BY <1>1, GroupsInvariant, PTL DEF GroupsSpec, BindingFollowsMembership

(* The two arrays with their counters are a set of bindings, to which each  *)
(* command does what its namesake in Bindings does, until a counter wraps.  *)
THEOREM ArraysAreASet == GroupsSpec => IsASetOfBindings
<1>1. GroupsInit => Table!Init
  BY GroupsStart DEF Table!Init
<1>2. ASSUME GroupsInv, ~Undefined' PROVE EachAsItsNamesake
  <2>1. ASSUME NEW ep \in Endpoints, NEW g \in Groups, AddGroup(ep, g)
        PROVE  Table!Bind(Of([ep |-> ep, cluster |-> GroupsCluster], g)) \/ UNCHANGED BoundNow
    BY <1>2, <2>1, AddGroupStep DEF Table!Bind
  <2>2. ASSUME NEW ep \in Endpoints, NEW g \in Groups, RemoveGroup(ep, g)
        PROVE  Table!RemoveGroup(ep, g)
    <3>1. BoundNow' = {x \in BoundNow : x.ep # ep \/ x.to # g}
      BY <1>2, <2>2, RemoveGroupStep DEF OfGroup
    <3> QED
      BY <3>1 DEF Table!RemoveGroup
  <2>3. ASSUME NEW ep \in Endpoints, RemoveAllGroups(ep) PROVE Table!RemoveAllGroups(ep)
    <3>1. BoundNow' = {x \in BoundNow : x.ep # ep \/ x.to \notin Groups}
      BY <1>2, <2>3, RemoveAllGroupsStep DEF AnyGroup
    <3> QED
      BY <3>1 DEF Table!RemoveAllGroups
  <2>4. ASSUME NEW s \in Source, NEW to \in Groups \cup Devices, Bind(s, to)
        PROVE  Table!Bind(Of(s, to)) \/ UNCHANGED BoundNow
    BY <1>2, <2>4, BindStep DEF Table!Bind
  <2>5. ASSUME NEW i \in 1..DstSize, Unbind(i) PROVE Table!Unbind(Entry(binding, i))
    BY <1>2, <2>5, UnbindStep DEF Table!Unbind
  <2> QED
    BY <2>1, <2>2, <2>3, <2>4, <2>5 DEF EachAsItsNamesake
<1>3. ASSUME GroupsInv, GroupsNext, ~Undefined' PROVE Table!Next \/ UNCHANGED BoundNow
  <2>1. ASSUME NEW ep \in Endpoints, NEW g \in Groups, AddGroup(ep, g)
        PROVE  Table!Next \/ UNCHANGED BoundNow
    <3>1. Of([ep |-> ep, cluster |-> GroupsCluster], g) \in Table!Binding
      BY TableSizes DEF Of, Table!Binding
    <3> QED
      BY <1>2, <1>3, <2>1, <3>1 DEF EachAsItsNamesake, Table!Next
  <2>2. ASSUME NEW ep \in Endpoints, NEW g \in Groups, RemoveGroup(ep, g) PROVE Table!Next
    BY <1>2, <1>3, <2>2 DEF EachAsItsNamesake, Table!Next
  <2>3. ASSUME NEW ep \in Endpoints, RemoveAllGroups(ep) PROVE Table!Next
    BY <1>2, <1>3, <2>3 DEF EachAsItsNamesake, Table!Next
  <2>4. ASSUME NEW s \in Source, NEW to \in Groups \cup Devices, Bind(s, to)
        PROVE  Table!Next \/ UNCHANGED BoundNow
    <3>1. Of(s, to) \in Table!Binding
      BY DEF Of, Source, Table!Binding
    <3> QED
      BY <1>2, <1>3, <2>4, <3>1 DEF EachAsItsNamesake, Table!Next
  <2>5. ASSUME NEW i \in 1..DstSize, Unbind(i) PROVE Table!Next
    <3>1. Entry(binding, i) \in BoundNow
      BY <1>3, <2>5, UnbindStep
    <3> QED
      BY <1>2, <1>3, <2>5, <3>1 DEF EachAsItsNamesake, Table!Next
  <2> QED
    BY <1>3, <2>1, <2>2, <2>3, <2>4, <2>5 DEF GroupsNext
<1>4. GroupsInv /\ [GroupsNext]_groupsVars => [Undefined' \/ Table!Next]_BoundNow
  <2>1. UNCHANGED groupsVars => UNCHANGED BoundNow
    BY DEF groupsVars, BoundNow, Undefined, Entry
  <2> QED
    BY <1>3, <2>1
<1>5. GroupsInv /\ [GroupsNext]_groupsVars
        => [UNCHANGED groupsVars \/ Undefined' \/ EachAsItsNamesake]_groupsVars
  BY <1>2
<1> QED
  BY <1>1, <1>4, <1>5, GroupsInvariant, PTL DEF GroupsSpec, IsASetOfBindings

=============================================================================
