--------------------------- MODULE KeyCacheProofs ---------------------------
(***************************************************************************)
(* The safety of KeyCache for any number of threads and data keys, any     *)
(* cache limit and any time to live.                                       *)
(***************************************************************************)
EXTENDS KeyCache, OrderedDictProofs

\* No cached key lives longer than TTL from now, or less than TTL in all.
Aged(c, time) ==
    \A i \in DOMAIN c :
        /\ c[i].value.expires <= time + TTL
        /\ c[i].value.expires >= c[i].value.released + TTL

\* A cached key expires at its deadline.
Dated(c, due) == \A i \in DOMAIN c : c[i].value.expires = due[c[i].key]

\* The keys after a key in the cache have been used since it was.
Recent(c, used) ==
    \A i, j \in DOMAIN c : i < j => c[j].key \in used[c[i].key]

\* A key whose deadline is to come is cached, unless MaxSize others were used.
Kept(c, due, used, time) ==
    \A k \in DataKeys :
        due[k] > time /\ Cardinality(used[k]) < MaxSize => k \in Keys(c)

Good(c, due, used, time) ==
    /\ c \in Seq(Items(DataKeys, Entry)) /\ IsDict(c)
    /\ Aged(c, time) /\ Dated(c, due) /\ Recent(c, used)
    /\ Kept(c, due, used, time)

\* What a thread in a call has seen of the clock, and what it holds.
InTime(t) ==
    /\ pc[t] \notin {"idle", "failed"} => want[t] \in DataKeys /\ started[t] <= clock
    /\ pc[t] = "lookup" => started[t] <= now[t] /\ now[t] <= clock
    /\ pc[t] = "hit" => got[t].expires > started[t]
    /\ pc[t] = "stamp" => got[t].released <= clock
    /\ pc[t] = "store" => /\ got[t].expires <= clock + TTL
                          /\ got[t].expires >= got[t].released + TTL

IInv ==
    /\ TypeOK
    /\ \A k \in DataKeys : IsFiniteSet(since[k])
    /\ Good(cache, deadline, since, clock) /\ Len(cache) <= MaxSize
    /\ \A t \in Threads : InTime(t)

-----------------------------------------------------------------------------
\* The facts about the constants.
LEMMA Numbers ==
  /\ TTL \in Nat /\ TTL > 0 /\ MaxSize \in Nat /\ MaxSize > 0
  /\ MaxClock \in Nat /\ Times \subseteq Nat /\ 0 \in Times
  BY TTLAssumption, MaxSizeAssumption, MaxClockAssumption DEF Times

\* Purging by a clock reading of the past takes only what has expired.
LEMMA PurgedGood ==
  ASSUME NEW c, NEW due \in [DataKeys -> Times], NEW used, NEW time \in Nat,
         NEW early \in Nat, early <= time, Good(c, due, used, time)
  PROVE  LET live == Purge(c, early) IN
         /\ Good(live, due, used, time) /\ Len(live) <= Len(c)
         /\ \A i \in DOMAIN live : live[i].value.expires > early
<1> DEFINE kept == {i \in DOMAIN c : c[i].value.expires > early}
           live == Retain(c, kept)
<1>1. c \in Seq(Items(DataKeys, Entry)) /\ IsDict(c)
  BY DEF Good
<1>2. kept \in SUBSET DOMAIN c /\ \A i \in kept : c[i].value.expires > early
  OBVIOUS
<1>k. \A i \in DOMAIN c : c[i].value.expires > early => i \in kept
  OBVIOUS
<1>e. Purge(c, early) = live
  BY DEF Purge
<1> HIDE DEF kept
<1>3. /\ live \in Seq(Items(DataKeys, Entry)) /\ IsDict(live) /\ Len(live) <= Len(c)
      /\ \A i \in DOMAIN live : \E a \in kept : live[i] = c[a]
      /\ \A a \in kept : c[a].key \in Keys(live)
      /\ \A i, j \in DOMAIN live : i < j =>
            \E a, b \in kept : a < b /\ live[i] = c[a] /\ live[j] = c[b]
  BY <1>1, <1>2, RetainDict
<1> HIDE DEF live
<1>4. Aged(live, time) /\ Dated(live, due)
  BY <1>2, <1>3 DEF Good, Aged, Dated
<1>5. Recent(live, used)
  BY <1>2, <1>3 DEF Good, Recent
<1>6. Kept(live, due, used, time)
  <2> SUFFICES ASSUME NEW k \in DataKeys, due[k] > time, Cardinality(used[k]) < MaxSize
               PROVE  k \in Keys(live)
    BY DEF Kept
  <2>1. PICK a \in DOMAIN c : c[a].key = k
    BY DEF Good, Kept, Keys
  <2>2. c[a].value.expires = due[k] /\ due[k] \in Nat
    BY <2>1, Numbers DEF Good, Dated
  <2>3. a \in kept
    BY <1>k, <2>2
  <2> QED
    BY <1>3, <2>1, <2>3
<1> QED
  BY <1>2, <1>3, <1>4, <1>5, <1>6, <1>e DEF Good

\* Another use of keys only makes the condition of Kept harder to meet.
LEMMA UsedGrows ==
  ASSUME NEW used \in [DataKeys -> SUBSET DataKeys], NEW k \in DataKeys,
         NEW j \in DataKeys \ {k}, IsFiniteSet(used[j])
  PROVE  /\ IsFiniteSet(used[j] \cup {k}) /\ used[j] \subseteq used[j] \cup {k}
         /\ Cardinality(used[j] \cup {k}) \in Nat /\ Cardinality(used[j]) \in Nat
         /\ Cardinality(used[j]) <= Cardinality(used[j] \cup {k})
<1>1. IsFiniteSet(used[j] \cup {k})
  BY FS_AddElement
<1>2. used[j] \in SUBSET (used[j] \cup {k})
  OBVIOUS
<1> QED
  BY <1>1, <1>2, FS_Subset, FS_CardinalityType

\* Setting a key, as the one used last.
LEMMA SetGood ==
  ASSUME NEW c, NEW due \in [DataKeys -> Times],
         NEW used \in [DataKeys -> SUBSET DataKeys], NEW time \in Nat,
         Good(c, due, used, time), \A j \in DataKeys : IsFiniteSet(used[j]),
         NEW k \in DataKeys, NEW v \in Entry,
         v.expires <= time + TTL, v.expires >= v.released + TTL,
         NEW usedNow,
         usedNow = [j \in DataKeys |-> IF j = k THEN {} ELSE used[j] \cup {k}]
  PROVE  Good(SetLast(c, k, v), [due EXCEPT ![k] = v.expires], usedNow, time)
<1> DEFINE e == SetLast(c, k, v)
           dueNow == [due EXCEPT ![k] = v.expires]
<1>1. c \in Seq(Items(DataKeys, Entry)) /\ IsDict(c)
  BY DEF Good
<1>2. /\ e \in Seq(Items(DataKeys, Entry)) /\ IsDict(e) /\ Keys(e) = Keys(c) \cup {k}
      /\ e[Len(e)] = [key |-> k, value |-> v]
      /\ \A i \in DOMAIN e : i = Len(e) \/ \E j \in DOMAIN c : e[i] = c[j]
  BY <1>1, SetLastDict
<1>3. ASSUME NEW i \in DOMAIN e, NEW j \in DOMAIN e, i < j
      PROVE  /\ e[i].key # k
             /\ \/ e[j].key = k /\ \E a \in DOMAIN c : e[i] = c[a]
                \/ /\ e[j].key # k
                   /\ \E a, b \in DOMAIN c : a < b /\ e[i] = c[a] /\ e[j] = c[b]
  BY <1>1, <1>3, SetLastOrder
<1> HIDE DEF e
<1>4. /\ DOMAIN e = 1..Len(e) /\ Len(e) \in Nat
      /\ \A i \in DOMAIN e : e[i].key \in DataKeys
  <2>1. DOMAIN e = 1..Len(e) /\ Len(e) \in Nat
    BY <1>2, LenProperties
  <2>2. \A i \in DOMAIN e : e[i] \in Items(DataKeys, Entry)
    BY <1>2, <2>1, ElementOfSeq
  <2> QED
    BY <2>1, <2>2 DEF Items
<1>5. Aged(e, time)
  BY <1>2 DEF Good, Aged
<1>6. Dated(e, dueNow)
  <2> SUFFICES ASSUME NEW i \in DOMAIN e PROVE e[i].value.expires = dueNow[e[i].key]
    BY DEF Dated
  <2>1. CASE i = Len(e)
    BY <1>2, <2>1
  <2>2. CASE i # Len(e)
    <3>1. PICK a \in DOMAIN c : e[i] = c[a]
      BY <1>2, <2>2
    <3>2. e[i].key # k
      <4>1. i < Len(e) /\ Len(e) \in DOMAIN e
        BY <1>4, <2>2
      <4> QED
        BY <1>3, <4>1
    <3> QED
      BY <1>4, <3>1, <3>2 DEF Good, Dated
  <2> QED
    BY <2>1, <2>2
<1>7. Recent(e, usedNow)
  <2> SUFFICES ASSUME NEW i \in DOMAIN e, NEW j \in DOMAIN e, i < j
               PROVE  e[j].key \in usedNow[e[i].key]
    BY DEF Recent
  <2>1. e[i].key # k /\ e[i].key \in DataKeys
    BY <1>3, <1>4
  <2>2. usedNow[e[i].key] = used[e[i].key] \cup {k}
    BY <2>1
  <2>3. CASE e[j].key = k
    BY <2>2, <2>3
  <2>4. CASE e[j].key # k
    <3>1. PICK a, b \in DOMAIN c : a < b /\ e[i] = c[a] /\ e[j] = c[b]
      BY <1>3, <2>4
    <3> QED
      BY <2>2, <3>1 DEF Good, Recent
  <2> QED
    BY <2>3, <2>4
<1>8. Kept(e, dueNow, usedNow, time)
  <2> SUFFICES ASSUME NEW j \in DataKeys, dueNow[j] > time,
                      Cardinality(usedNow[j]) < MaxSize
               PROVE  j \in Keys(e)
    BY DEF Kept
  <2>1. CASE j = k
    BY <1>2, <2>1
  <2>2. CASE j # k
    <3>1. usedNow[j] = used[j] \cup {k} /\ dueNow[j] = due[j]
      BY <2>2
    <3>2. Cardinality(used[j]) < MaxSize
      <4>1. Cardinality(used[j] \cup {k}) < MaxSize
        BY <3>1
      <4>2. /\ Cardinality(used[j] \cup {k}) \in Nat /\ Cardinality(used[j]) \in Nat
            /\ Cardinality(used[j]) <= Cardinality(used[j] \cup {k})
        BY <2>2, UsedGrows
      <4> QED
        BY <4>1, <4>2, Numbers
    <3> QED
      BY <1>2, <3>1, <3>2 DEF Good, Kept
  <2> QED
    BY <2>1, <2>2
<1> QED
  BY <1>2, <1>5, <1>6, <1>7, <1>8 DEF Good, e

\* Touching a key, as the one used last.
LEMMA TouchGood ==
  ASSUME NEW c, NEW due \in [DataKeys -> Times],
         NEW used \in [DataKeys -> SUBSET DataKeys], NEW time \in Nat,
         Good(c, due, used, time), \A j \in DataKeys : IsFiniteSet(used[j]),
         NEW k \in Keys(c),
         NEW usedNow,
         usedNow = [j \in DataKeys |-> IF j = k THEN {} ELSE used[j] \cup {k}]
  PROVE  /\ Good(Touch(c, k), due, usedNow, time) /\ Len(Touch(c, k)) = Len(c)
         /\ Lookup(c, k) \in Entry
         /\ \E i \in DOMAIN c : Lookup(c, k) = c[i].value
<1> DEFINE v == Lookup(c, k)
           p == PositionOf(c, k)
<1>1. c \in Seq(Items(DataKeys, Entry)) /\ IsDict(c)
  BY DEF Good
<1>2. /\ p \in 1..Len(c) /\ c[p].key = k /\ v \in Entry /\ k \in DataKeys
      /\ DOMAIN c = 1..Len(c) /\ v = c[p].value
  BY <1>1, PositionProperties, LenProperties DEF Lookup
<1> HIDE DEF v, p
<1>3. /\ v.expires <= time + TTL /\ v.expires >= v.released + TTL
      /\ v.expires = due[k]
  BY <1>2 DEF Good, Aged, Dated
<1>4. [due EXCEPT ![k] = v.expires] = due
  BY <1>2, <1>3
<1>5. Good(SetLast(c, k, v), due, usedNow, time)
  BY <1>2, <1>3, <1>4, SetGood
<1>6. Len(Touch(c, k)) = Len(c)
  BY <1>1, TouchDict
<1> QED
  BY <1>2, <1>5, <1>6 DEF Touch, v

\* Eviction takes only keys after which MaxSize others have been used.
LEMMA EvictGood ==
  ASSUME NEW c, NEW due \in [DataKeys -> Times],
         NEW used \in [DataKeys -> SUBSET DataKeys], NEW time \in Nat,
         Good(c, due, used, time), \A j \in DataKeys : IsFiniteSet(used[j])
  PROVE  /\ Good(EvictTo(c, MaxSize), due, used, time)
         /\ Len(EvictTo(c, MaxSize)) <= MaxSize
<1> DEFINE e == EvictTo(c, MaxSize)
<1>1. c \in Seq(Items(DataKeys, Entry)) /\ IsDict(c)
  BY DEF Good
<1>2. /\ e \in Seq(Items(DataKeys, Entry)) /\ IsDict(e) /\ Len(e) <= MaxSize
      /\ \A i \in DOMAIN e : \E j \in DOMAIN c : e[i] = c[j]
  BY <1>1, EvictToDict, Numbers
<1>3. /\ Len(e) = IF Len(c) > MaxSize THEN MaxSize ELSE Len(c)
      /\ \A i \in DOMAIN e : /\ Len(c) - Len(e) + i \in DOMAIN c
                             /\ e[i] = c[Len(c) - Len(e) + i]
  BY <1>1, EvictToItems, Numbers
<1> DEFINE off == Len(c) - Len(e)
<1> HIDE DEF e
<1>4. /\ DOMAIN c = 1..Len(c) /\ DOMAIN e = 1..Len(e)
      /\ Len(c) \in Nat /\ Len(e) \in Nat
      /\ \A i \in DOMAIN c : c[i].key \in DataKeys
  <2>1. /\ DOMAIN c = 1..Len(c) /\ DOMAIN e = 1..Len(e)
        /\ Len(c) \in Nat /\ Len(e) \in Nat
    BY <1>1, <1>2, LenProperties
  <2>2. \A i \in DOMAIN c : c[i] \in Items(DataKeys, Entry)
    BY <1>1, <2>1, ElementOfSeq
  <2> QED
    BY <2>1, <2>2 DEF Items
<1>o. /\ off \in Nat /\ Len(e) = Len(c) - off
      /\ off = 0 \/ Len(e) = MaxSize
      /\ \A i \in DOMAIN e : off + i \in DOMAIN c /\ e[i] = c[off + i]
  BY <1>3, <1>4, Numbers
<1> HIDE DEF off
<1>5. Aged(e, time) /\ Dated(e, due)
  BY <1>2 DEF Good, Aged, Dated
<1>6. Recent(e, used)
  <2> SUFFICES ASSUME NEW i \in DOMAIN e, NEW j \in DOMAIN e, i < j
               PROVE  e[j].key \in used[e[i].key]
    BY DEF Recent
  <2>1. off + i < off + j /\ off + i \in DOMAIN c /\ off + j \in DOMAIN c
    BY <1>o, <1>4
  <2> QED
    BY <1>o, <2>1 DEF Good, Recent
<1>7. Kept(e, due, used, time)
  <2> SUFFICES ASSUME NEW k \in DataKeys, due[k] > time, Cardinality(used[k]) < MaxSize
               PROVE  k \in Keys(e)
    BY DEF Kept
  <2>1. PICK p \in DOMAIN c : c[p].key = k
    BY DEF Good, Kept, Keys
  <2>2. CASE p > off
    <3>1. p - off \in DOMAIN e /\ off + (p - off) = p
      <4>1. p \in 1..Len(c) /\ Len(e) = Len(c) - off
        BY <1>o, <1>4
      <4> QED
        BY <1>4, <1>o, <2>2, <4>1
    <3>2. e[p - off].key = k
      BY <1>o, <2>1, <3>1
    <3> QED
      BY <3>1, <3>2 DEF Keys
  <2>3. CASE ~(p > off)
    <3> DEFINE f == [i \in 1..MaxSize |-> c[off + i].key]
    <3>1. /\ \A i \in 1..MaxSize : off + i \in DOMAIN c /\ p < off + i
      <4>1. p \in 1..Len(c) /\ off # 0
        BY <1>4, <2>3
      <4>2. Len(e) = MaxSize /\ DOMAIN e = 1..MaxSize
        BY <1>o, <1>4, <4>1
      <4> QED
        BY <1>o, <2>3, <4>1, <4>2, Numbers
    <3>2. \A i \in 1..MaxSize : f[i] \in used[k]
      BY <2>1, <3>1 DEF Good, Recent
    <3>3. ASSUME NEW i \in 1..MaxSize, NEW j \in 1..MaxSize, f[i] = f[j]
          PROVE  i = j
      <4>1. off + i = off + j
        BY <3>1, <3>3, <1>1 DEF IsDict
      <4> QED
        BY <1>o, <4>1, Numbers
    <3> HIDE DEF f
    <3>4. f \in [1..MaxSize -> used[k]]
      BY <3>2 DEF f
    <3>5. f \in Injection(1..MaxSize, used[k])
      BY <3>3, <3>4 DEF Injection, IsInjective
    <3>6. Cardinality(1..MaxSize) = MaxSize
      BY FS_Interval, Numbers
    <3>7. Cardinality(1..MaxSize) <= Cardinality(used[k])
      BY <3>5, FS_Injection
    <3>8. Cardinality(used[k]) \in Nat
      BY FS_CardinalityType
    <3> QED
      BY <3>6, <3>7, <3>8, Numbers
  <2> QED
    BY <2>2, <2>3, <1>4
<1> QED
  BY <1>2, <1>5, <1>6, <1>7 DEF Good, e

-----------------------------------------------------------------------------
\* What a thread has seen of the clock stays in the past.
LEMMA StaysInTime ==
  ASSUME TypeOK, NEW s \in Threads, InTime(s), clock' \in Nat, clock <= clock',
         pc'[s] = pc[s], want'[s] = want[s], started'[s] = started[s],
         now'[s] = now[s], got'[s] = got[s]
  PROVE  InTime(s)'
<1>1. /\ clock \in Nat /\ started[s] \in Nat /\ now[s] \in Nat
      /\ got[s].released \in Nat /\ got[s].expires \in Nat
  <2>1. clock \in Nat /\ started[s] \in Times /\ now[s] \in Times /\ got[s] \in Entry
    BY Numbers DEF TypeOK
  <2> QED
    BY <2>1, Numbers DEF Entry
<1> QED
  BY <1>1, Numbers DEF InTime

\* A use of a key keeps the history of uses typed and finite.
LEMMA UsedType ==
  ASSUME TypeOK, \A j \in DataKeys : IsFiniteSet(since[j]), NEW k \in DataKeys, Used(k)
  PROVE  /\ since' = [j \in DataKeys |-> IF j = k THEN {} ELSE since[j] \cup {k}]
         /\ since' \in [DataKeys -> SUBSET DataKeys]
         /\ \A j \in DataKeys : IsFiniteSet(since'[j])
<1>1. since' = [j \in DataKeys |-> IF j = k THEN {} ELSE since[j] \cup {k}]
  BY DEF Used
<1>2. since' \in [DataKeys -> SUBSET DataKeys]
  BY <1>1 DEF TypeOK
<1>3. \A j \in DataKeys : IsFiniteSet(since'[j])
  BY <1>1, FS_AddElement, FS_EmptySet
<1> QED
  BY <1>1, <1>2, <1>3

\* Time passes.
LEMMA TickIInv == IInv /\ Tick => IInv'
<1> SUFFICES ASSUME IInv, Tick PROVE IInv'
  OBVIOUS
<1>1. /\ TypeOK /\ clock \in Nat /\ clock' = clock + 1 /\ clock' \in 0..MaxClock
      /\ UNCHANGED <<cache, pc, want, started, now, got, deadline, since>>
  BY Numbers DEF IInv, TypeOK, Tick
<1>2. TypeOK'
  BY <1>1 DEF TypeOK
<1>3. \A t \in Threads : InTime(t)'
  BY <1>1, StaysInTime DEF IInv
<1>4. Good(cache, deadline, since, clock)'
  <2>1. Aged(cache, clock)'
    <3>1. \A i \in DOMAIN cache : cache[i].value.expires \in Nat
      <4>1. \A i \in DOMAIN cache : cache[i] \in Items(DataKeys, Entry)
        BY <1>1, ElementOfSeq, LenProperties DEF TypeOK
      <4> QED
        BY <4>1, Numbers DEF Items, Entry
    <3> QED
      BY <1>1, <3>1, Numbers DEF IInv, Good, Aged
  <2>2. Kept(cache, deadline, since, clock)'
    <3>1. \A k \in DataKeys : deadline[k] \in Nat
      BY <1>1, Numbers DEF TypeOK
    <3> QED
      BY <1>1, <3>1 DEF IInv, Good, Kept
  <2> QED
    BY <1>1, <2>1, <2>2 DEF IInv, Good, Dated, Recent
<1> QED
  BY <1>1, <1>2, <1>3, <1>4 DEF IInv

\* The cache is cleared, or purged to tell its size.
LEMMA ClearIInv == IInv /\ (ClearCache \/ CacheSize) => IInv'
<1> SUFFICES ASSUME IInv, ClearCache \/ CacheSize PROVE IInv'
  OBVIOUS
<1>1. /\ TypeOK /\ clock \in Nat
      /\ UNCHANGED <<clock, pc, want, started, now, got, since>>
  BY Numbers DEF IInv, TypeOK, ClearCache, CacheSize
<1>2. /\ Good(cache, deadline, since, clock)' /\ Len(cache)' <= MaxSize
      /\ deadline' \in [DataKeys -> Times]
  <2>1. CASE ClearCache
    <3>1. cache' = <<>> /\ deadline' = [k \in DataKeys |-> 0]
      BY <2>1 DEF ClearCache
    <3>2. /\ cache' \in Seq(Items(DataKeys, Entry)) /\ Len(cache') = 0
          /\ DOMAIN cache' = {}
      BY <3>1, EmptySeq
    <3>3. \A k \in DataKeys : ~(deadline'[k] > clock')
      BY <1>1, <3>1
    <3> QED
      BY <3>1, <3>2, <3>3, Numbers DEF Good, IsDict, Aged, Dated, Recent, Kept
  <2>2. CASE CacheSize
    <3>1. cache' = Purge(cache, clock) /\ deadline' = deadline
      BY <2>2 DEF CacheSize
    <3>2. Good(cache, deadline, since, clock) /\ deadline \in [DataKeys -> Times]
      BY DEF IInv, TypeOK
    <3>3. /\ Good(cache', deadline, since, clock) /\ Len(cache') <= Len(cache)
      BY <1>1, <3>1, <3>2, PurgedGood
    <3>4. Len(cache) <= MaxSize /\ Len(cache) \in Nat /\ Len(cache') \in Nat
      BY <3>2, <3>3, LenProperties DEF IInv, Good
    <3> QED
      BY <1>1, <3>1, <3>2, <3>3, <3>4, Numbers
  <2> QED
    BY <2>1, <2>2
<1>3. TypeOK'
  BY <1>1, <1>2 DEF TypeOK, Good
<1>4. \A t \in Threads : InTime(t)'
  BY <1>1, StaysInTime DEF IInv
<1> QED
  BY <1>1, <1>2, <1>3, <1>4 DEF IInv

\* The steps of a call that do not touch the cache.
LEMMA LocalIInv ==
  ASSUME IInv, NEW t \in Threads,
         \/ Call(t) \/ Refuse(t) \/ SampleClock(t) \/ Fetch(t) \/ FetchFails(t)
         \/ Stamp(t) \/ Return(t)
  PROVE  IInv'
<1>1. /\ TypeOK /\ clock \in Times /\ clock \in Nat /\ clock <= clock
      /\ UNCHANGED <<clock, cache, deadline, since>>
  BY Numbers DEF IInv, TypeOK, Times, Call, Refuse, SampleClock, Fetch, FetchFails, Stamp, Return
<1>t. /\ pc \in [Threads -> Labels] /\ want \in [Threads -> DataKeys \cup {NoKey}]
      /\ started \in [Threads -> Times] /\ now \in [Threads -> Times]
      /\ got \in [Threads -> Entry]
  BY <1>1 DEF TypeOK
<1>i. InTime(t)
  BY DEF IInv
<1>n. NoEntry \in Entry
  BY Numbers DEF NoEntry, Entry
<1>2. ASSUME /\ pc' \in [Threads -> Labels]
             /\ want' \in [Threads -> DataKeys \cup {NoKey}]
             /\ started' \in [Threads -> Times] /\ now' \in [Threads -> Times]
             /\ got' \in [Threads -> Entry],
             \A s \in Threads \ {t} :
                /\ pc'[s] = pc[s] /\ want'[s] = want[s] /\ started'[s] = started[s]
                /\ now'[s] = now[s] /\ got'[s] = got[s],
             InTime(t)'
      PROVE  IInv'
  <2>1. TypeOK'
    BY <1>1, <1>2 DEF TypeOK
  <2>2. \A s \in Threads : InTime(s)'
    BY <1>1, <1>2, StaysInTime DEF IInv
  <2> QED
    BY <1>1, <2>1, <2>2 DEF IInv
<1>3. CASE Call(t)
  <2>1. PICK k \in DataKeys : want' = [want EXCEPT ![t] = k]
    BY <1>3 DEF Call
  <2>2. PICK l \in {"fetch", "sample"} : pc' = [pc EXCEPT ![t] = l]
    BY <1>3 DEF Call, Goto
  <2>3. /\ started' = [started EXCEPT ![t] = clock]
        /\ UNCHANGED <<clock, now, got>>
    BY <1>3 DEF Call
  <2>4. InTime(t)'
    BY <1>1, <1>t, <2>1, <2>2, <2>3 DEF InTime
  <2>5. pc' \in [Threads -> Labels]
    BY <1>t, <2>2 DEF Labels
  <2> QED
    BY <1>1, <1>2, <1>t, <2>1, <2>2, <2>3, <2>4, <2>5
<1>4. CASE SampleClock(t)
  <2>1. /\ pc[t] = "sample" /\ now' = [now EXCEPT ![t] = clock]
        /\ pc' = [pc EXCEPT ![t] = "lookup"]
        /\ UNCHANGED <<clock, want, started, got>>
    BY <1>4 DEF SampleClock, Goto
  <2>2. InTime(t)'
    BY <1>1, <1>i, <1>t, <2>1 DEF InTime
  <2>3. pc' \in [Threads -> Labels]
    BY <1>t, <2>1 DEF Labels
  <2> QED
    BY <1>1, <1>2, <1>t, <2>1, <2>2, <2>3
<1>5. CASE Fetch(t)
  <2> DEFINE e == [released |-> clock, expires |-> 0]
  <2>1. /\ pc[t] = "fetch" /\ got' = [got EXCEPT ![t] = e]
        /\ pc' = [pc EXCEPT ![t] = "stamp"]
        /\ UNCHANGED <<clock, want, started, now>>
    BY <1>5 DEF Fetch, Goto
  <2>2. e \in Entry /\ e.released = clock
    BY <1>1, Numbers DEF Entry
  <2> HIDE DEF e
  <2>3. InTime(t)'
    BY <1>1, <1>i, <1>t, <2>1, <2>2 DEF InTime
  <2>4. pc' \in [Threads -> Labels]
    BY <1>t, <2>1 DEF Labels
  <2> QED
    BY <1>1, <1>2, <1>t, <2>1, <2>2, <2>3, <2>4
<1>6. CASE FetchFails(t) \/ Refuse(t)
  <2>1. /\ pc' = [pc EXCEPT ![t] = "failed"]
        /\ UNCHANGED <<clock, want, started, now, got>>
    BY <1>6 DEF FetchFails, Refuse, Goto
  <2>2. InTime(t)'
    BY <1>1, <1>i, <1>t, <2>1 DEF InTime
  <2>3. pc' \in [Threads -> Labels]
    BY <1>t, <2>1 DEF Labels
  <2> QED
    BY <1>1, <1>2, <1>t, <2>1, <2>2, <2>3
<1>7. CASE Stamp(t)
  <2>1. /\ pc[t] = "stamp" /\ got' = [got EXCEPT ![t].expires = clock + TTL]
        /\ pc' = [pc EXCEPT ![t] = "store"]
        /\ UNCHANGED <<clock, want, started, now>>
    BY <1>7 DEF Stamp, Goto
  <2>2. clock + TTL \in Times
    BY <1>1, Numbers DEF TypeOK, Times
  <2>3. /\ got'[t].expires = clock + TTL /\ got'[t].released = got[t].released
        /\ got[t].released \in Nat
    BY <1>t, <2>1, Numbers DEF Entry
  <2>4. got' \in [Threads -> Entry]
    BY <1>t, <2>1, <2>2 DEF Entry
  <2>5. InTime(t)'
    <3>1. got[t].released <= clock
      BY <1>i, <2>1 DEF InTime
    <3>2. got'[t].expires >= got'[t].released + TTL
      BY <1>1, <2>3, <3>1, Numbers
    <3>3. clock' + TTL = clock + TTL /\ clock + TTL <= clock + TTL
      BY <1>1, Numbers
    <3> QED
      BY <1>1, <1>i, <1>t, <2>1, <2>3, <3>2, <3>3 DEF InTime
  <2>6. pc' \in [Threads -> Labels]
    BY <1>t, <2>1 DEF Labels
  <2> QED
    BY <1>1, <1>2, <1>t, <2>1, <2>4, <2>5, <2>6
<1>8. CASE Return(t)
  <2>1. /\ pc' = [pc EXCEPT ![t] = "idle"] /\ want' = [want EXCEPT ![t] = NoKey]
        /\ started' = [started EXCEPT ![t] = 0] /\ now' = [now EXCEPT ![t] = 0]
        /\ got' = [got EXCEPT ![t] = NoEntry]
    BY <1>8 DEF Return, Goto
  <2>2. InTime(t)'
    BY <1>t, <2>1 DEF InTime
  <2>3. pc' \in [Threads -> Labels]
    BY <1>t, <2>1 DEF Labels
  <2> QED
    BY <1>2, <1>n, <1>t, <2>1, <2>2, <2>3, Numbers
<1> QED
  BY <1>3, <1>4, <1>5, <1>6, <1>7, <1>8

\* _get_cached under its lock.
LEMMA GetCachedIInv ==
  ASSUME IInv, NEW t \in Threads, GetCached(t)
  PROVE  IInv'
<1> DEFINE live == Purge(cache, now[t])
           k == want[t]
<1>1. /\ TypeOK /\ clock \in Nat /\ clock <= clock /\ pc[t] = "lookup"
      /\ UNCHANGED <<clock, want, started, now, deadline>>
  BY Numbers DEF IInv, TypeOK, GetCached
<1>t. /\ pc \in [Threads -> Labels] /\ got \in [Threads -> Entry]
      /\ started[t] \in Nat /\ now[t] \in Nat
  BY <1>1, Numbers DEF TypeOK
<1>i. InTime(t) /\ k \in DataKeys /\ started[t] <= now[t] /\ now[t] <= clock
  BY <1>1 DEF IInv, InTime
<1>c. /\ Good(cache, deadline, since, clock) /\ Len(cache) <= MaxSize
      /\ deadline \in [DataKeys -> Times] /\ since \in [DataKeys -> SUBSET DataKeys]
      /\ \A j \in DataKeys : IsFiniteSet(since[j])
  BY DEF IInv, TypeOK
<1>2. /\ Good(live, deadline, since, clock) /\ Len(live) <= Len(cache)
      /\ \A i \in DOMAIN live : live[i].value.expires > now[t]
  BY <1>1, <1>c, <1>i, <1>t, PurgedGood
<1> HIDE DEF live, k
<1>3. Len(live) <= MaxSize
  <2>1. Len(cache) \in Nat /\ Len(live) \in Nat
    BY <1>2, <1>c, LenProperties DEF Good
  <2> QED
    BY <1>2, <1>c, <2>1, Numbers
<1>4. ASSUME pc' \in [Threads -> Labels], got' \in [Threads -> Entry],
             since' \in [DataKeys -> SUBSET DataKeys],
             \A j \in DataKeys : IsFiniteSet(since'[j]),
             Good(cache', deadline, since', clock), Len(cache') <= MaxSize,
             \A s \in Threads \ {t} : pc'[s] = pc[s] /\ got'[s] = got[s],
             InTime(t)'
      PROVE  IInv'
  <2>1. TypeOK'
    BY <1>1, <1>4 DEF TypeOK, Good
  <2>2. \A s \in Threads : InTime(s)'
    BY <1>1, <1>4, StaysInTime DEF IInv
  <2> QED
    BY <1>1, <1>4, <2>1, <2>2 DEF IInv
<1>5. CASE /\ k \in Keys(live) /\ got' = [got EXCEPT ![t] = Lookup(live, k)]
           /\ cache' = Touch(live, k) /\ Used(k) /\ Goto(t, "hit")
  <2>1. /\ since' = [j \in DataKeys |-> IF j = k THEN {} ELSE since[j] \cup {k}]
        /\ since' \in [DataKeys -> SUBSET DataKeys]
        /\ \A j \in DataKeys : IsFiniteSet(since'[j])
    BY <1>1, <1>5, <1>c, <1>i, UsedType
  <2>2. /\ Good(cache', deadline, since', clock) /\ Len(cache') = Len(live)
        /\ Lookup(live, k) \in Entry
        /\ \E i \in DOMAIN live : Lookup(live, k) = live[i].value
    BY <1>1, <1>2, <1>5, <1>c, <2>1, TouchGood
  <2>3. /\ got' \in [Threads -> Entry] /\ got'[t].expires > now[t]
        /\ got'[t].expires \in Nat
        /\ pc' \in [Threads -> Labels] /\ pc'[t] = "hit"
        /\ \A s \in Threads \ {t} : pc'[s] = pc[s] /\ got'[s] = got[s]
    BY <1>2, <1>5, <1>t, <2>2, Numbers DEF Goto, Labels, Entry
  <2>4. InTime(t)'
    <3>1. got'[t].expires > started[t]
      BY <1>i, <1>t, <2>3
    <3> QED
      BY <1>1, <1>i, <2>3, <3>1 DEF InTime
  <2> QED
    BY <1>3, <1>4, <2>1, <2>2, <2>3, <2>4
<1>6. CASE cache' = live /\ Goto(t, "fetch") /\ UNCHANGED <<got, since>>
  <2>1. /\ pc' \in [Threads -> Labels] /\ pc'[t] = "fetch"
        /\ \A s \in Threads \ {t} : pc'[s] = pc[s]
    BY <1>6, <1>t DEF Goto, Labels
  <2>2. InTime(t)'
    BY <1>1, <1>i, <2>1 DEF InTime
  <2> QED
    BY <1>2, <1>3, <1>4, <1>6, <1>c, <1>t, <2>1, <2>2
<1> QED
  BY <1>5, <1>6 DEF GetCached, live, k

\* _store_cache_entry under its lock.
LEMMA StoreIInv ==
  ASSUME IInv, NEW t \in Threads, Store(t)
  PROVE  IInv'
<1> DEFINE live == Purge(cache, clock)
           k == want[t]
           v == got[t]
           set == SetLast(live, k, v)
           due == [deadline EXCEPT ![k] = v.expires]
<1>1. /\ TypeOK /\ clock \in Nat /\ clock <= clock /\ pc[t] = "store"
      /\ cache' = EvictTo(set, MaxSize) /\ deadline' = due /\ Used(k)
      /\ Goto(t, "stored") /\ UNCHANGED <<clock, want, started, now, got>>
  BY Numbers DEF IInv, TypeOK, Store
<1>i. /\ InTime(t) /\ k \in DataKeys /\ v \in Entry
      /\ v.expires <= clock + TTL /\ v.expires >= v.released + TTL
  BY <1>1 DEF IInv, InTime, TypeOK
<1>c. /\ Good(cache, deadline, since, clock) /\ Len(cache) <= MaxSize
      /\ deadline \in [DataKeys -> Times] /\ since \in [DataKeys -> SUBSET DataKeys]
      /\ \A j \in DataKeys : IsFiniteSet(since[j])
  BY DEF IInv, TypeOK
<1>2. Good(live, deadline, since, clock)
  BY <1>1, <1>c, PurgedGood
<1>3. /\ since' = [j \in DataKeys |-> IF j = k THEN {} ELSE since[j] \cup {k}]
      /\ since' \in [DataKeys -> SUBSET DataKeys]
      /\ \A j \in DataKeys : IsFiniteSet(since'[j])
  BY <1>1, <1>c, <1>i, UsedType
<1> HIDE DEF live, k, v
<1>4. Good(set, due, since', clock)
  BY <1>1, <1>2, <1>3, <1>c, <1>i, SetGood
<1>5. due \in [DataKeys -> Times]
  BY <1>c, <1>i DEF Entry
<1> HIDE DEF set, due
<1>6. Good(cache', due, since', clock) /\ Len(cache') <= MaxSize
  BY <1>1, <1>3, <1>4, <1>5, EvictGood
<1>7. /\ pc' \in [Threads -> Labels] /\ pc'[t] = "stored"
      /\ \A s \in Threads \ {t} : pc'[s] = pc[s]
  BY <1>1 DEF Goto, Labels, TypeOK
<1>8. TypeOK'
  BY <1>1, <1>3, <1>5, <1>6, <1>7 DEF TypeOK, Good
<1>9. InTime(t)'
  BY <1>1, <1>7, <1>i DEF InTime
<1>10. \A s \in Threads : InTime(s)'
  BY <1>1, <1>7, <1>9, StaysInTime DEF IInv
<1> QED
  BY <1>1, <1>3, <1>6, <1>8, <1>10 DEF IInv

-----------------------------------------------------------------------------
\* The initial state.
LEMMA InitIInv == Init => IInv
<1> SUFFICES ASSUME Init PROVE IInv
  OBVIOUS
<1>1. /\ cache \in Seq(Items(DataKeys, Entry)) /\ Len(cache) = 0 /\ DOMAIN cache = {}
  BY EmptySeq DEF Init
<1>2. TypeOK
  BY <1>1, Numbers DEF Init, TypeOK, Labels, NoEntry, Entry
<1>3. Good(cache, deadline, since, clock)
  <2>1. \A k \in DataKeys : ~(deadline[k] > clock)
    BY DEF Init
  <2> QED
    BY <1>1, <2>1 DEF Good, IsDict, Aged, Dated, Recent, Kept
<1>4. \A k \in DataKeys : IsFiniteSet(since[k])
  BY FS_EmptySet DEF Init
<1> QED
  BY <1>1, <1>2, <1>3, <1>4, Numbers DEF Init, IInv, InTime

\* The invariant holds in every reachable state.
THEOREM Invariant == Spec => []IInv
<1>1. IInv /\ [Next]_vars => IInv'
  <2> SUFFICES ASSUME IInv, [Next]_vars PROVE IInv'
    OBVIOUS
  <2>1. CASE UNCHANGED vars
    BY <2>1 DEF vars, IInv, TypeOK, Good, Aged, Dated, Recent, Kept, InTime
  <2> QED
    BY <2>1, TickIInv, ClearIInv, LocalIInv, GetCachedIInv, StoreIInv DEF Next, Step
<1> QED
  BY <1>1, InitIInv, PTL DEF Spec

\* Every variable keeps its type.
THEOREM TypeCorrect == Spec => []TypeOK
<1>1. IInv => TypeOK
  BY DEF IInv
<1> QED
  BY <1>1, Invariant, PTL

\* The cache holds one entry per key and at most MaxSize of them, whatever calls
\* overlap (kms_client.py:249).
THEOREM CacheStaysBounded == Spec => []CacheBounded
<1>1. IInv => CacheBounded
  BY DEF IInv, Good, CacheBounded
<1> QED
  BY <1>1, Invariant, PTL

\* A hit was not expired when its call began, although the clock is read outside
\* the lock (kms_client.py:225).
THEOREM HitsWereLive == Spec => []HitWasLive
<1>1. IInv => HitWasLive
  BY DEF IInv, InTime, HitWasLive
<1> QED
  BY <1>1, Invariant, PTL

\* A key is dropped before its time only for MaxSize others used after it, or by
\* clear_cache (kms_client.py:249 and 258).
THEOREM LiveKeysStay == Spec => []LiveKeyKept
<1>1. IInv => LiveKeyKept
  BY DEF IInv, Good, Kept, LiveKeyKept
<1> QED
  BY <1>1, Invariant, PTL

\* A cached key has its whole time to live from when KMS released it, and ends
\* within TTL of the present.
THEOREM LifetimesBounded == Spec => []LifetimeBounded
<1>1. IInv => LifetimeBounded
  BY DEF IInv, Good, Aged, LifetimeBounded
<1> QED
  BY <1>1, Invariant, PTL
=============================================================================
