------------------------- MODULE OrderedDictProofs -------------------------
(* What the operations on an OrderedDict return, preserve and bound. *)
EXTENDS OrderedDict, SequenceTheorems, FiniteSetTheorems, TLAPS

\* A key of a dict has a position, and holds an item there.
LEMMA PositionProperties ==
    ASSUME NEW K, NEW V, NEW d \in Seq(Items(K, V)), NEW k \in Keys(d)
    PROVE  /\ PositionOf(d, k) \in 1..Len(d)
           /\ d[PositionOf(d, k)].key = k
           /\ Lookup(d, k) \in V
           /\ k \in K
<1>1. DOMAIN d = 1..Len(d)
  BY LenProperties
<1>2. \E i \in DOMAIN d : d[i].key = k
  BY DEF Keys
<1>3. /\ PositionOf(d, k) \in DOMAIN d
      /\ d[PositionOf(d, k)].key = k
  BY <1>2 DEF PositionOf
<1>4. d[PositionOf(d, k)] \in Items(K, V)
  BY <1>1, <1>3, ElementOfSeq
<1>5. QED
  BY <1>1, <1>3, <1>4 DEF Lookup, Items

\* Dropping a key shifts the later items and removes nothing else.
LEMMA DropItems ==
    ASSUME NEW K, NEW V, NEW d \in Seq(Items(K, V)), NEW k \in Keys(d)
    PROVE  /\ Drop(d, k) \in Seq(Items(K, V))
           /\ Len(Drop(d, k)) = Len(d) - 1
           /\ \A i \in 1..(Len(d) - 1) :
                Drop(d, k)[i] = IF i < PositionOf(d, k) THEN d[i] ELSE d[i + 1]
<1> DEFINE p == PositionOf(d, k)
           I == Items(K, V)
           front == SubSeq(d, 1, p - 1)
           rear == SubSeq(d, p + 1, Len(d))
<1>1. p \in 1..Len(d) /\ Len(d) \in Nat
  BY PositionProperties, LenProperties
<1> HIDE DEF p
<1>2. \A i \in 1..Len(d) : d[i] \in I
  BY ElementOfSeq
<1>3. /\ front \in Seq(I)
      /\ Len(front) = p - 1
      /\ \A i \in 1..(p - 1) : front[i] = d[i]
  <2>1. \A i \in 1..(p - 1) : d[i] \in I
    BY <1>1, <1>2
  <2>2. /\ front \in Seq(I)
        /\ Len(front) = IF 1 <= p - 1 THEN (p - 1) - 1 + 1 ELSE 0
        /\ \A i \in 1..((p - 1) - 1 + 1) : front[i] = d[1 + i - 1]
    BY <1>1, <2>1, SubSeqProperties
  <2>3. QED
    BY <1>1, <2>2
<1>4. /\ rear \in Seq(I)
      /\ Len(rear) = Len(d) - p
      /\ \A i \in 1..(Len(d) - p) : rear[i] = d[p + i]
  <2>1. \A i \in (p + 1)..Len(d) : d[i] \in I
    BY <1>1, <1>2
  <2>2. /\ rear \in Seq(I)
        /\ Len(rear) = IF p + 1 <= Len(d) THEN Len(d) - (p + 1) + 1 ELSE 0
        /\ \A i \in 1..(Len(d) - (p + 1) + 1) : rear[i] = d[(p + 1) + i - 1]
    BY <1>1, <2>1, SubSeqProperties
  <2>3. QED
    BY <1>1, <2>2
<1>5. Drop(d, k) = front \o rear
  BY DEF Drop, RemoveAt, p
<1>6. /\ front \o rear \in Seq(I)
      /\ Len(front \o rear) = Len(front) + Len(rear)
      /\ \A i \in 1..(Len(front) + Len(rear)) : (front \o rear)[i] =
            IF i <= Len(front) THEN front[i] ELSE rear[i - Len(front)]
  BY <1>3, <1>4, ConcatProperties
<1> HIDE DEF front, rear
<1>7. ASSUME NEW i \in 1..(Len(d) - 1)
      PROVE  (front \o rear)[i] = IF i < p THEN d[i] ELSE d[i + 1]
  <2>1. CASE i < p
    BY <2>1, <1>1, <1>3, <1>4, <1>6
  <2>2. CASE ~(i < p)
    <3>1. /\ i - (p - 1) \in 1..(Len(d) - p)
          /\ p + (i - (p - 1)) = i + 1
      BY <2>2, <1>1
    <3>2. rear[i - (p - 1)] = d[p + (i - (p - 1))]
      BY <3>1, <1>4
    <3>3. (front \o rear)[i] = rear[i - (p - 1)]
      BY <2>2, <1>1, <1>3, <1>4, <1>6
    <3>4. QED
      BY <3>1, <3>2, <3>3, <2>2
  <2>3. QED
    BY <2>1, <2>2
<1>8. QED
  BY <1>1, <1>3, <1>4, <1>5, <1>6, <1>7 DEF p

\* Dropping a key leaves a dict with the other keys and their values.
LEMMA DropDict ==
    ASSUME NEW K, NEW V, NEW d \in Seq(Items(K, V)), IsDict(d), NEW k
    PROVE  /\ Drop(d, k) \in Seq(Items(K, V))
           /\ IsDict(Drop(d, k))
           /\ Keys(Drop(d, k)) = Keys(d) \ {k}
           /\ Len(Drop(d, k)) = IF k \in Keys(d) THEN Len(d) - 1 ELSE Len(d)
           /\ \A i \in DOMAIN Drop(d, k) :
                \E j \in DOMAIN d : Drop(d, k)[i] = d[j]
<1>1. CASE k \notin Keys(d)
  BY <1>1 DEF Drop
<1>2. CASE k \in Keys(d)
  <2> DEFINE p == PositionOf(d, k)
             e == Drop(d, k)
  <2>1. p \in 1..Len(d) /\ d[p].key = k /\ Len(d) \in Nat
    BY <1>2, PositionProperties, LenProperties
  <2>2. /\ e \in Seq(Items(K, V))
        /\ Len(e) = Len(d) - 1
        /\ \A i \in 1..(Len(d) - 1) : e[i] = IF i < p THEN d[i] ELSE d[i + 1]
    BY <1>2, DropItems
  <2>3. DOMAIN d = 1..Len(d) /\ DOMAIN e = 1..(Len(d) - 1)
    BY <2>2, LenProperties
  <2>4. \A i, j \in 1..Len(d) : d[i].key = d[j].key => i = j
    BY <2>3 DEF IsDict
  <2> HIDE DEF p, e
  <2>5. IsDict(e)
    <3> SUFFICES ASSUME NEW i \in 1..(Len(d) - 1), NEW j \in 1..(Len(d) - 1),
                        e[i].key = e[j].key
                 PROVE  i = j
      BY <2>3 DEF IsDict
    <3>1. (IF i < p THEN i ELSE i + 1) = (IF j < p THEN j ELSE j + 1)
      BY <2>1, <2>2, <2>4
    <3> QED
      BY <2>1, <3>1
  <2>6. \A i \in DOMAIN e : \E j \in DOMAIN d : e[i] = d[j] /\ j # p
    BY <2>1, <2>2, <2>3
  <2>7. \A j \in DOMAIN d : j # p => \E i \in DOMAIN e : e[i] = d[j]
    <3>1. SUFFICES ASSUME NEW j \in DOMAIN d, j # p
                   PROVE  \E i \in DOMAIN e : e[i] = d[j]
      OBVIOUS
    <3>2. CASE j < p
      <4>1. j \in 1..(Len(d) - 1)
        BY <3>2, <2>1, <2>3
      <4>2. QED
        BY <4>1, <3>2, <2>2, <2>3
    <3>3. CASE j > p
      <4>1. j - 1 \in 1..(Len(d) - 1) /\ ~(j - 1 < p) /\ (j - 1) + 1 = j
        BY <3>3, <2>1, <2>3
      <4>2. e[j - 1] = d[j]
        BY <4>1, <2>2
      <4>3. QED
        BY <4>1, <4>2, <2>3
    <3>4. QED
      BY <3>1, <3>2, <3>3, <2>1, <2>3
  <2>8. Keys(e) = Keys(d) \ {k}
    <3>1. Keys(e) \subseteq Keys(d) \ {k}
      BY <2>1, <2>3, <2>4, <2>6 DEF Keys
    <3>2. Keys(d) \ {k} \subseteq Keys(e)
      BY <2>1, <2>7 DEF Keys
    <3>3. QED
      BY <3>1, <3>2
  <2>9. QED
    BY <1>2, <2>2, <2>5, <2>6, <2>8 DEF e
<1>3. QED
  BY <1>1, <1>2

\* Setting a key and moving it to the end keeps a dict, adds the key, and makes
\* its item the last one.
LEMMA SetLastDict ==
    ASSUME NEW K, NEW V, NEW d \in Seq(Items(K, V)), IsDict(d),
           NEW k \in K, NEW v \in V
    PROVE  LET e == SetLast(d, k, v) IN
           /\ e \in Seq(Items(K, V))
           /\ IsDict(e)
           /\ Keys(e) = Keys(d) \cup {k}
           /\ Len(e) = IF k \in Keys(d) THEN Len(d) ELSE Len(d) + 1
           /\ e[Len(e)] = [key |-> k, value |-> v]
           /\ \A i \in DOMAIN e :
                i = Len(e) \/ \E j \in DOMAIN d : e[i] = d[j]
<1> DEFINE f == Drop(d, k)
           item == [key |-> k, value |-> v]
           e == Append(f, item)
<1>1. /\ f \in Seq(Items(K, V)) /\ IsDict(f) /\ Keys(f) = Keys(d) \ {k}
      /\ Len(f) = IF k \in Keys(d) THEN Len(d) - 1 ELSE Len(d)
      /\ \A i \in DOMAIN f : \E j \in DOMAIN d : f[i] = d[j]
  BY DropDict
<1>2. item \in Items(K, V)
  BY DEF Items
<1> HIDE DEF f, item
<1>3. /\ e \in Seq(Items(K, V))
      /\ Len(e) = Len(f) + 1
      /\ \A i \in 1..Len(f) : e[i] = f[i]
      /\ e[Len(f) + 1] = item
  BY <1>1, <1>2, AppendProperties
<1>4. /\ DOMAIN f = 1..Len(f) /\ Len(f) \in Nat /\ Len(d) \in Nat
      /\ DOMAIN e = 1..(Len(f) + 1)
  BY <1>1, <1>3, LenProperties
<1> HIDE DEF e
<1>5. \A i \in DOMAIN f : f[i].key # k
  BY <1>1 DEF Keys
<1>6. IsDict(e)
  <2>1. SUFFICES ASSUME NEW i \in DOMAIN e, NEW j \in DOMAIN e,
                        e[i].key = e[j].key
                 PROVE  i = j
    BY DEF IsDict
  <2>2. item.key = k
    BY DEF item
  <2>3. CASE i \in DOMAIN f /\ j \in DOMAIN f
    BY <2>1, <2>3, <1>1, <1>3, <1>4 DEF IsDict
  <2>4. CASE i \in DOMAIN f /\ j = Len(f) + 1
    BY <2>1, <2>2, <2>4, <1>3, <1>4, <1>5
  <2>5. CASE i = Len(f) + 1 /\ j \in DOMAIN f
    BY <2>1, <2>2, <2>5, <1>3, <1>4, <1>5
  <2>6. QED
    BY <2>3, <2>4, <2>5, <1>4
<1>7. Keys(e) = Keys(d) \cup {k}
  <2>1. Keys(e) = Keys(f) \cup {k}
    <3>1. item.key = k
      BY DEF item
    <3>2. Keys(e) \subseteq Keys(f) \cup {k}
      BY <3>1, <1>3, <1>4 DEF Keys
    <3>3. k \in Keys(e)
      BY <3>1, <1>3, <1>4 DEF Keys
    <3>4. Keys(f) \subseteq Keys(e)
      BY <1>3, <1>4 DEF Keys
    <3>5. QED
      BY <3>2, <3>3, <3>4
  <2>2. QED
    BY <2>1, <1>1
<1>8. \A i \in DOMAIN e : i = Len(e) \/ \E j \in DOMAIN d : e[i] = d[j]
  BY <1>1, <1>3, <1>4
<1>9. QED
  BY <1>1, <1>3, <1>4, <1>6, <1>7, <1>8 DEF SetLast, e, f, item

\* Moving a key to the end keeps a dict, its keys and its length.
LEMMA TouchDict ==
    ASSUME NEW K, NEW V, NEW d \in Seq(Items(K, V)), IsDict(d),
           NEW k \in Keys(d)
    PROVE  LET e == Touch(d, k) IN
           /\ e \in Seq(Items(K, V))
           /\ IsDict(e)
           /\ Keys(e) = Keys(d)
           /\ Len(e) = Len(d)
           /\ \A i \in DOMAIN e : \E j \in DOMAIN d : e[i] = d[j]
<1> DEFINE v == Lookup(d, k)
           p == PositionOf(d, k)
           e == SetLast(d, k, v)
<1>1. k \in K /\ v \in V /\ p \in DOMAIN d /\ d[p].key = k
  BY PositionProperties, LenProperties
<1>2. d[p] = [key |-> k, value |-> v]
  <2>1. d[p] \in Items(K, V)
    BY <1>1, ElementOfSeq, LenProperties
  <2>2. QED
    BY <1>1, <2>1 DEF Items, Lookup
<1> HIDE DEF v, p
<1>3. /\ e \in Seq(Items(K, V)) /\ IsDict(e) /\ Keys(e) = Keys(d) \cup {k}
      /\ Len(e) = Len(d) /\ e[Len(e)] = [key |-> k, value |-> v]
      /\ \A i \in DOMAIN e : i = Len(e) \/ \E j \in DOMAIN d : e[i] = d[j]
  BY <1>1, SetLastDict
<1>4. QED
  BY <1>1, <1>2, <1>3 DEF Touch, v

\* Eviction keeps a dict and brings it to the limit.
LEMMA EvictToDict ==
    ASSUME NEW K, NEW V, NEW d \in Seq(Items(K, V)), IsDict(d),
           NEW size \in Nat
    PROVE  LET e == EvictTo(d, size) IN
           /\ e \in Seq(Items(K, V))
           /\ IsDict(e)
           /\ Len(e) <= size
           /\ \A i \in DOMAIN e : \E j \in DOMAIN d : e[i] = d[j]
<1>1. Len(d) \in Nat /\ DOMAIN d = 1..Len(d)
  BY LenProperties
<1>2. CASE ~(Len(d) > size)
  BY <1>1, <1>2 DEF EvictTo
<1>3. CASE Len(d) > size
  <2> DEFINE e == SubSeq(d, Len(d) - size + 1, Len(d))
             off == Len(d) - size
  <2>1. \A i \in (Len(d) - size + 1)..Len(d) : d[i] \in Items(K, V)
    BY <1>1, <1>3, ElementOfSeq
  <2>2. /\ e \in Seq(Items(K, V))
        /\ Len(e) = IF Len(d) - size + 1 <= Len(d)
                    THEN Len(d) - (Len(d) - size + 1) + 1 ELSE 0
        /\ \A i \in 1..(Len(d) - (Len(d) - size + 1) + 1) :
                e[i] = d[(Len(d) - size + 1) + i - 1]
    BY <2>1, <1>1, SubSeqProperties
  <2>3. Len(e) = size /\ \A i \in 1..size : e[i] = d[off + i]
    BY <2>2, <1>1, <1>3
  <2>4. DOMAIN e = 1..size
    BY <2>2, <2>3, LenProperties
  <2> HIDE DEF e
  <2>5. IsDict(e)
    <3>1. SUFFICES ASSUME NEW i \in 1..size, NEW j \in 1..size,
                          e[i].key = e[j].key
                   PROVE  i = j
      BY <2>4 DEF IsDict
    <3>2. off + i \in DOMAIN d /\ off + j \in DOMAIN d
      BY <1>1, <1>3
    <3>3. d[off + i].key = d[off + j].key
      BY <3>1, <2>3
    <3>4. off + i = off + j
      BY <3>2, <3>3 DEF IsDict
    <3>5. QED
      BY <3>4, <1>1
  <2>6. \A i \in DOMAIN e : \E j \in DOMAIN d : e[i] = d[j]
    BY <2>3, <2>4, <1>1, <1>3
  <2>7. QED
    BY <1>1, <1>3, <2>2, <2>3, <2>5, <2>6 DEF EvictTo, e
<1>4. QED
  BY <1>2, <1>3

\* The positions to keep can be enumerated in increasing order: the rank of a
\* position among them is a bijection, whose inverse increases.
LEMMA Enumeration ==
    ASSUME NEW n \in Nat, NEW kept \in SUBSET (1..n)
    PROVE  /\ Cardinality(kept) \in 0..n
           /\ \E f \in [1..Cardinality(kept) -> kept] :
                \A i, j \in 1..Cardinality(kept) : i < j => f[i] < f[j]
<1> DEFINE count == Cardinality(kept)
           upTo(i) == {h \in kept : h <= i}
           rank == [i \in kept |-> Cardinality(upTo(i))]
<1>n. \A i \in kept : i \in Nat
  OBVIOUS
<1>1. IsFiniteSet(kept) /\ count \in Nat /\ count <= n
  <2>1. IsFiniteSet(1..n) /\ Cardinality(1..n) = n
    BY FS_Interval
  <2>2. IsFiniteSet(kept) /\ count <= n
    BY <2>1, FS_Subset
  <2> QED
    BY <2>2, FS_CardinalityType
<1>2. ASSUME NEW i \in kept
      PROVE  /\ IsFiniteSet(upTo(i)) /\ rank[i] \in 1..count
  <2>1. /\ IsFiniteSet(upTo(i)) /\ Cardinality(upTo(i)) <= count
        /\ Cardinality(upTo(i)) \in Nat
    BY <1>1, FS_Subset, FS_CardinalityType
  <2>2. i \in upTo(i)
    OBVIOUS
  <2>3. Cardinality(upTo(i)) # 0
    BY <2>1, <2>2, FS_EmptySet
  <2> QED
    BY <1>1, <2>1, <2>3
<1>3. ASSUME NEW i \in kept, NEW j \in kept, i < j
      PROVE  rank[i] < rank[j]
  <2>1. upTo(i) \in SUBSET upTo(j) /\ j \in upTo(j) /\ j \notin upTo(i)
    <3>1. \A h \in kept : h <= i => h <= j
      BY <1>3, <1>n
    <3>2. ~(j <= i) /\ j <= j
      BY <1>3, <1>n
    <3> QED
      BY <3>1, <3>2
  <2>2. /\ Cardinality(upTo(i)) <= Cardinality(upTo(j))
        /\ Cardinality(upTo(i)) # Cardinality(upTo(j))
    BY <1>2, <2>1, FS_Subset
  <2> QED
    BY <1>2, <2>2
<1> HIDE DEF rank
<1>4. rank \in [kept -> 1..count]
  BY <1>2 DEF rank
<1>5. \A m \in 1..count : \E i \in kept : rank[i] = m
  <2>1. rank \in Injection(kept, 1..count)
    <3>1. \A i, j \in kept : rank[i] = rank[j] => i = j
      <4>1. \A i \in kept : rank[i] \in Nat
        BY <1>4
      <4> QED
        BY <1>3, <1>n, <4>1
    <3> QED
      BY <1>4, <3>1 DEF Injection, IsInjective
  <2>2. IsFiniteSet(1..count) /\ Cardinality(1..count) = count
    BY <1>1, FS_Interval
  <2>3. rank \in Surjection(kept, 1..count)
    BY <2>1, <2>2, FS_Injection
  <2> QED
    BY <2>3 DEF Surjection
<1> DEFINE f == [m \in 1..count |-> CHOOSE i \in kept : rank[i] = m]
<1>6. \A m \in 1..count : f[m] \in kept /\ rank[f[m]] = m
  BY <1>5
<1> HIDE DEF f
<1>7. f \in [1..count -> kept]
  BY <1>6 DEF f
<1>8. ASSUME NEW i \in 1..count, NEW j \in 1..count, i < j
      PROVE  f[i] < f[j]
  <2>1. f[i] \in Nat /\ f[j] \in Nat /\ f[i] \in kept /\ f[j] \in kept
    BY <1>6, <1>n
  <2>2. f[i] # f[j]
    BY <1>6, <1>8
  <2>3. ~(f[j] < f[i])
    <3>1. f[j] < f[i] => rank[f[j]] < rank[f[i]]
      BY <1>3, <2>1
    <3> QED
      BY <1>6, <1>8, <3>1
  <2> QED
    BY <2>1, <2>2, <2>3
<1> QED
  BY <1>1, <1>7, <1>8

\* The items of e are those at the positions kept of d, in their order.
Picks(e, d, kept) ==
    \E f \in [DOMAIN e -> kept] :
        /\ \A i, j \in DOMAIN e : i < j => f[i] < f[j]
        /\ \A i \in DOMAIN e : e[i] = d[f[i]]
        /\ \A a \in kept : \E i \in DOMAIN e : f[i] = a

\* Retaining some positions leaves their items, in their order.
LEMMA RetainItems ==
    ASSUME NEW K, NEW V, NEW d \in Seq(Items(K, V)), NEW kept \in SUBSET DOMAIN d
    PROVE  LET e == Retain(d, kept) IN
           /\ e \in Seq(Items(K, V))
           /\ Len(e) <= Len(d)
           /\ Picks(e, d, kept)
<1> DEFINE n == Len(d)
           count == Cardinality(kept)
           e == Retain(d, kept)
<1>1. n \in Nat /\ DOMAIN d = 1..n /\ \A a \in kept : a \in Nat
  BY LenProperties
<1>2. count \in 0..n
  BY <1>1, Enumeration
<1>3. PICK f \in [1..count -> kept] :
        /\ \A i, j \in 1..count : i < j => f[i] < f[j]
        /\ e = [i \in 1..count |-> d[f[i]]]
  BY <1>1, Enumeration DEF Retain
<1> HIDE DEF e, count
<1>4. e \in Seq(Items(K, V)) /\ DOMAIN e = 1..count /\ Len(e) = count
  <2>1. \A i \in 1..count : e[i] \in Items(K, V)
    BY <1>1, <1>3, ElementOfSeq
  <2>2. e \in [1..count -> Items(K, V)]
    BY <1>3, <2>1
  <2>3. e \in Seq(Items(K, V))
    BY <1>2, <2>2, IsASeq
  <2> QED
    BY <1>2, <1>3, <2>3, LenProperties
<1>5. ASSUME NEW a \in kept PROVE \E i \in 1..count : f[i] = a
  <2>1. f \in Injection(1..count, kept)
    <3>1. \A i, j \in 1..count : f[i] = f[j] => i = j
      <4>1. \A i \in 1..count : f[i] \in Nat
        BY <1>1, <1>3
      <4> QED
        BY <1>2, <1>3, <4>1
    <3> QED
      BY <3>1 DEF Injection, IsInjective
  <2>2. IsFiniteSet(kept) /\ Cardinality(1..count) = Cardinality(kept)
    <3>1. IsFiniteSet(1..n) /\ Cardinality(1..count) = count
      BY <1>1, <1>2, FS_Interval
    <3> QED
      BY <1>1, <3>1, FS_Subset DEF count
  <2>3. f \in Surjection(1..count, kept)
    BY <2>1, <2>2, FS_Injection
  <2> QED
    BY <2>3 DEF Surjection
<1>6. /\ f \in [DOMAIN e -> kept]
      /\ \A i, j \in DOMAIN e : i < j => f[i] < f[j]
      /\ \A i \in DOMAIN e : e[i] = d[f[i]]
      /\ \A a \in kept : \E i \in DOMAIN e : f[i] = a
  BY <1>3, <1>4, <1>5
<1>7. Len(e) <= Len(d)
  BY <1>2, <1>4
<1>8. Picks(e, d, kept)
  BY <1>6 DEF Picks
<1> HIDE DEF n
<1> QED
  BY <1>4, <1>7, <1>8 DEF e

\* Retaining keeps a dict, and exactly the keys at the positions kept.
LEMMA RetainDict ==
    ASSUME NEW K, NEW V, NEW d \in Seq(Items(K, V)), IsDict(d),
           NEW kept \in SUBSET DOMAIN d
    PROVE  LET e == Retain(d, kept) IN
           /\ e \in Seq(Items(K, V))
           /\ IsDict(e)
           /\ Len(e) <= Len(d)
           /\ \A i \in DOMAIN e : \E a \in kept : e[i] = d[a]
           /\ \A a \in kept : d[a].key \in Keys(e)
           /\ \A i, j \in DOMAIN e : i < j =>
                \E a, b \in kept : a < b /\ e[i] = d[a] /\ e[j] = d[b]
<1> DEFINE e == Retain(d, kept)
<1>1. e \in Seq(Items(K, V)) /\ Len(e) <= Len(d) /\ Picks(e, d, kept)
  BY RetainItems
<1> HIDE DEF e
<1>2. PICK f \in [DOMAIN e -> kept] :
            /\ \A i, j \in DOMAIN e : i < j => f[i] < f[j]
            /\ \A i \in DOMAIN e : e[i] = d[f[i]]
            /\ \A a \in kept : \E i \in DOMAIN e : f[i] = a
  BY <1>1 DEF Picks
<1>3. /\ DOMAIN e = 1..Len(e) /\ DOMAIN d = 1..Len(d)
      /\ \A i \in DOMAIN e : i \in Nat
      /\ \A a \in DOMAIN d : a \in Nat
  BY <1>1, LenProperties
<1>4. IsDict(e)
  <2> SUFFICES ASSUME NEW i \in DOMAIN e, NEW j \in DOMAIN e, e[i].key = e[j].key
               PROVE  i = j
    BY DEF IsDict
  <2>1. f[i] \in DOMAIN d /\ f[j] \in DOMAIN d
    OBVIOUS
  <2>2. f[i] = f[j]
    BY <1>2, <2>1 DEF IsDict
  <2>3. ~(i < j) /\ ~(j < i)
    BY <1>2, <1>3, <2>1, <2>2
  <2> QED
    BY <1>3, <2>3
<1>5. \A a \in kept : d[a].key \in Keys(e)
  BY <1>2 DEF Keys
<1> QED
  BY <1>1, <1>2, <1>4, <1>5 DEF e

\* Dropping a key keeps the order of the other items.
LEMMA DropOrder ==
    ASSUME NEW K, NEW V, NEW d \in Seq(Items(K, V)), IsDict(d), NEW k,
           NEW i \in DOMAIN Drop(d, k), NEW j \in DOMAIN Drop(d, k), i < j
    PROVE  \E a, b \in DOMAIN d :
                a < b /\ Drop(d, k)[i] = d[a] /\ Drop(d, k)[j] = d[b]
<1>1. CASE k \notin Keys(d)
  BY <1>1 DEF Drop
<1>2. CASE k \in Keys(d)
  <2> DEFINE p == PositionOf(d, k)
             e == Drop(d, k)
             from(x) == IF x < p THEN x ELSE x + 1
  <2>1. p \in 1..Len(d) /\ Len(d) \in Nat /\ DOMAIN d = 1..Len(d)
    BY <1>2, PositionProperties, LenProperties
  <2>2. /\ DOMAIN e = 1..(Len(d) - 1)
        /\ \A x \in 1..(Len(d) - 1) : e[x] = IF x < p THEN d[x] ELSE d[x + 1]
    BY <1>2, DropItems, LenProperties
  <2> HIDE DEF p, e
  <2>3. i \in 1..(Len(d) - 1) /\ j \in 1..(Len(d) - 1)
    BY <2>2 DEF e
  <2>4. /\ from(i) \in DOMAIN d /\ from(j) \in DOMAIN d /\ from(i) < from(j)
        /\ e[i] = d[from(i)] /\ e[j] = d[from(j)]
    BY <2>1, <2>2, <2>3
  <2> QED
    BY <2>4 DEF e
<1> QED
  BY <1>1, <1>2

\* Setting a key keeps the order of the others, which all come before it.
LEMMA SetLastOrder ==
    ASSUME NEW K, NEW V, NEW d \in Seq(Items(K, V)), IsDict(d),
           NEW k \in K, NEW v \in V,
           NEW i \in DOMAIN SetLast(d, k, v), NEW j \in DOMAIN SetLast(d, k, v), i < j
    PROVE  LET e == SetLast(d, k, v) IN
           /\ e[i].key # k
           /\ \/ e[j].key = k /\ \E a \in DOMAIN d : e[i] = d[a]
              \/ /\ e[j].key # k
                 /\ \E a, b \in DOMAIN d : a < b /\ e[i] = d[a] /\ e[j] = d[b]
<1> DEFINE f == Drop(d, k)
           item == [key |-> k, value |-> v]
           e == Append(f, item)
<1>1. /\ f \in Seq(Items(K, V)) /\ Keys(f) = Keys(d) \ {k}
      /\ \A x \in DOMAIN f : \E a \in DOMAIN d : f[x] = d[a]
  BY DropDict
<1>o. \A x, y \in DOMAIN f : x < y =>
        \E a, b \in DOMAIN d : a < b /\ f[x] = d[a] /\ f[y] = d[b]
  BY DropOrder
<1>2. item \in Items(K, V) /\ item.key = k
  BY DEF Items
<1>e. SetLast(d, k, v) = e
  BY DEF SetLast
<1> HIDE DEF f, item
<1>3. /\ Len(e) = Len(f) + 1 /\ e \in Seq(Items(K, V))
      /\ \A x \in 1..Len(f) : e[x] = f[x]
      /\ e[Len(f) + 1] = item
  BY <1>1, <1>2, AppendProperties
<1>4. DOMAIN f = 1..Len(f) /\ Len(f) \in Nat /\ DOMAIN e = 1..(Len(f) + 1)
  BY <1>1, <1>3, LenProperties
<1> HIDE DEF e
<1>5. \A x \in DOMAIN f : f[x].key # k
  BY <1>1 DEF Keys
<1>6. i \in DOMAIN f /\ e[i] = f[i]
  BY <1>3, <1>4, <1>e
<1>7. CASE j = Len(f) + 1
  BY <1>1, <1>2, <1>3, <1>5, <1>6, <1>7, <1>e
<1>8. CASE j \in DOMAIN f
  <2>1. e[j] = f[j] /\ f[j].key # k /\ f[i].key # k
    BY <1>3, <1>4, <1>5, <1>6, <1>8
  <2> QED
    BY <1>6, <1>8, <1>e, <1>o, <2>1
<1> QED
  BY <1>4, <1>7, <1>8, <1>e

\* Eviction cuts off the front, and no more of it than the limit asks for.
LEMMA EvictToItems ==
    ASSUME NEW K, NEW V, NEW d \in Seq(Items(K, V)), NEW size \in Nat
    PROVE  LET e == EvictTo(d, size)
               off == Len(d) - Len(e)
           IN  /\ Len(e) = IF Len(d) > size THEN size ELSE Len(d)
               /\ \A i \in DOMAIN e : off + i \in DOMAIN d /\ e[i] = d[off + i]
<1>1. Len(d) \in Nat /\ DOMAIN d = 1..Len(d)
  BY LenProperties
<1>2. CASE ~(Len(d) > size)
  BY <1>1, <1>2 DEF EvictTo
<1>3. CASE Len(d) > size
  <2> DEFINE e == SubSeq(d, Len(d) - size + 1, Len(d))
             off == Len(d) - size
  <2>1. \A i \in (Len(d) - size + 1)..Len(d) : d[i] \in Items(K, V)
    BY <1>1, <1>3, ElementOfSeq
  <2>2. /\ e \in Seq(Items(K, V))
        /\ Len(e) = IF Len(d) - size + 1 <= Len(d)
                    THEN Len(d) - (Len(d) - size + 1) + 1 ELSE 0
        /\ \A i \in 1..(Len(d) - (Len(d) - size + 1) + 1) :
                e[i] = d[(Len(d) - size + 1) + i - 1]
    BY <2>1, <1>1, SubSeqProperties
  <2>3. Len(e) = size /\ \A i \in 1..size : e[i] = d[off + i]
    BY <2>2, <1>1, <1>3
  <2>4. DOMAIN e = 1..size
    BY <2>2, <2>3, LenProperties
  <2>5. EvictTo(d, size) = e
    BY <1>3 DEF EvictTo
  <2> HIDE DEF e
  <2>6. /\ Len(d) - Len(e) = off /\ Len(e) = size
        /\ \A i \in 1..size : off + i \in DOMAIN d
    BY <1>1, <1>3, <2>3
  <2> HIDE DEF off
  <2> QED
    BY <1>3, <2>3, <2>4, <2>5, <2>6
<1> QED
  BY <1>2, <1>3

\* A key keeps its value when its item does.
LEMMA LookupKept ==
    ASSUME NEW K, NEW V, NEW d \in Seq(Items(K, V)), IsDict(d),
           NEW e \in Seq(Items(K, V)), NEW k \in Keys(e),
           \A i \in DOMAIN e : e[i].key = k => \E j \in DOMAIN d : e[i] = d[j]
    PROVE  k \in Keys(d) /\ Lookup(e, k) = Lookup(d, k)
<1> DEFINE p == PositionOf(e, k)
           q == PositionOf(d, k)
<1>1. p \in DOMAIN e /\ e[p].key = k
  BY PositionProperties, LenProperties
<1> HIDE DEF p
<1>2. PICK j \in DOMAIN d : e[p] = d[j]
  BY <1>1
<1>3. k \in Keys(d)
  BY <1>1, <1>2 DEF Keys
<1>4. q \in DOMAIN d /\ d[q].key = k
  BY <1>3, PositionProperties, LenProperties
<1> HIDE DEF q
<1>5. q = j
  BY <1>1, <1>2, <1>4 DEF IsDict
<1>6. Lookup(e, k) = e[p].value /\ Lookup(d, k) = d[q].value
  BY DEF Lookup, p, q
<1> QED
  BY <1>2, <1>3, <1>5, <1>6
=============================================================================
