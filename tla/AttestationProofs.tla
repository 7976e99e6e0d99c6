------------------------- MODULE AttestationProofs -------------------------
(***************************************************************************)
(* Proofs about the attestation documents.                                 *)
(***************************************************************************)
EXTENDS Attestation, CborProofs

-----------------------------------------------------------------------------
(* OneDocument *)

Decodes(s) == CborDecode(s).error = "none"

\* The inductive invariant: the prefix that was decoded is one of the document's.
OneInv ==
  /\ complete \in 0..1
  /\ document = <<>> => complete = 0
  /\ issued = NotIssued =>
       /\ document \in Seq(Byte)
       /\ complete = 1 => \E k \in 0..Len(document) : Decodes(SubSeq(document, 1, k))

\* The empty document satisfies the invariant.
LEMMA OneInit == Init => OneInv
<1> SUFFICES ASSUME Init PROVE OneInv
  OBVIOUS
<1> QED
  BY DEF Init, OneInv

\* A document that decoded has no longer one that does.
LEMMA OneExtend ==
  ASSUME OneInv, NEW byte \in Alphabet, Extend(byte)
  PROVE  OneInv'
<1> DEFINE bytes == Append(document, byte)
           n == Len(document)
<1>1. issued = NotIssued /\ document \in Seq(Byte) /\ byte \in Byte /\ n \in Nat
  BY AttestationAssumption DEF OneInv, Extend
<1>2. /\ bytes \in Seq(Byte) /\ Len(bytes) = n + 1 /\ bytes # <<>>
      /\ \A j \in 1..n : bytes[j] = document[j]
  BY <1>1
<1>3. /\ document' = bytes /\ issued' = issued
      /\ complete' = complete + (IF Decodes(bytes) THEN 1 ELSE 0)
  BY DEF Extend, Take, Decodes
<1> HIDE DEF bytes
<1>4. CASE complete = 1
  <2>1. PICK k \in 0..n : Decodes(SubSeq(document, 1, k))
    BY <1>1, <1>4 DEF OneInv
  <2> DEFINE s == SubSeq(document, 1, k)
  <2>2. /\ s \in Seq(Byte) /\ Len(s) = k /\ \A j \in 1..k : s[j] = document[j]
        /\ SubSeq(bytes, 1, k) = s
    BY <1>1, <1>2
  <2>3. Continues(s, bytes, FALSE) /\ Len(s) < Len(bytes)
    <3> HIDE DEF s
    <3> QED
      BY <1>1, <1>2, <2>2 DEF Continues
  <2> HIDE DEF s
  <2>4. ~Decodes(bytes)
    BY <1>2, <2>1, <2>2, <2>3, PrefixFree DEF Decodes, s
  <2>5. complete' = 1
    BY <1>3, <1>4, <2>4
  <2>6. k \in 0..Len(bytes) /\ Decodes(SubSeq(bytes, 1, k))
    <3>1. Decodes(s)
      BY <2>1 DEF s
    <3>2. k \in 0..Len(bytes)
      BY <1>1, <1>2
    <3> QED
      BY <2>2, <3>1, <3>2
  <2> QED
    BY <1>2, <1>3, <2>5, <2>6 DEF OneInv
<1>5. CASE complete = 0
  <2>1. SubSeq(bytes, 1, n + 1) = bytes
    BY <1>1, <1>2
  <2>2. complete' \in 0..1 /\ (complete' = 1 => Decodes(bytes))
    BY <1>3, <1>5
  <2>3. complete' = 1 => n + 1 \in 0..Len(bytes) /\ Decodes(SubSeq(bytes, 1, n + 1))
    <3>1. n + 1 \in 0..Len(bytes)
      BY <1>1, <1>2
    <3>2. complete' = 1 => Decodes(SubSeq(bytes, 1, n + 1))
      BY <2>1, <2>2, Zenon
    <3> QED
      BY <3>1, <3>2
  <2> QED
    BY <1>2, <1>3, <2>2, <2>3 DEF OneInv
<1> QED
  BY <1>4, <1>5 DEF OneInv

\* A document that MockNSM issues is the first to be decoded.
LEMMA OneIssue ==
  ASSUME OneInv, NEW call \in Calls, Issue(call)
  PROVE  OneInv'
<1>1. complete = 0
  BY DEF OneInv, Issue
<1>2. issued' # NotIssued
  <2>1. issued' = call /\ DOMAIN call = {"pcrs", "time", "fields"}
    BY DEF Issue, Calls
  <2>2. DOMAIN NotIssued = {"pcrs"}
    BY DEF NotIssued
  <2> QED
    BY <2>1, <2>2
<1>3. complete' = complete + (IF Decodes(document') THEN 1 ELSE 0)
  BY DEF Issue, Take, Decodes
<1> QED
  BY <1>1, <1>2, <1>3, EmptyFails DEF OneInv, Decodes

\* A document ends where its bytes say, at every length and over every alphabet: of the
\* prefixes of one document at most one is accepted (attestation.py:434, 479).
THEOREM OneDocumentOnly == Spec => []OneDocument
<1>1. OneInv /\ [Next]_vars => OneInv'
  <2> SUFFICES ASSUME OneInv, [Next]_vars PROVE OneInv'
    OBVIOUS
  <2>1. CASE Next
    BY <2>1, OneExtend, OneIssue DEF Next
  <2>2. CASE UNCHANGED vars
    BY <2>2 DEF vars, OneInv
  <2> QED
    BY <2>1, <2>2
<1>2. OneInv => OneDocument
  BY DEF OneInv, OneDocument
<1> QED
  BY OneInit, <1>1, <1>2, PTL DEF Spec

-----------------------------------------------------------------------------
(* Items by their names *)

\* No name is given twice; a name is given.
Distinct(d) == \A i, j \in 1..Len(d) : d[i][1] = d[j][1] => i = j
Has(d, name) == \E i \in 1..Len(d) : d[i][1] = name

\* d.get(name) is the value of the item with that name (attestation.py:283).
LEMMA GetIs ==
  ASSUME NEW d, Distinct(d), NEW i \in 1..Len(d)
  PROVE  Get(d, d[i][1]) = d[i][2] /\ Has(d, d[i][1])
<1> DEFINE name == d[i][1]
           c == CHOOSE j \in 1..Len(d) : d[j][1] = name
<1>1. c \in 1..Len(d) /\ d[c][1] = name
  OBVIOUS
<1>2. c = i
  BY <1>1 DEF Distinct
<1>3. Get(d, name) = d[c][2]
  BY DEF Get
<1> HIDE DEF c
<1> QED
  BY <1>2, <1>3 DEF Has

\* And None when there is none.
LEMMA GetNone ==
  ASSUME NEW d, NEW name, ~Has(d, name)
  PROVE  Get(d, name) = None
BY DEF Get, Has

\* The items of two dicts with different names.
LEMMA GetJoined ==
  ASSUME NEW S, NEW a \in Seq(S), NEW b \in Seq(S), Distinct(a), Distinct(b),
         \A i \in 1..Len(a), j \in 1..Len(b) : a[i][1] # b[j][1]
  PROVE  /\ Distinct(a \o b)
         /\ \A name : /\ Has(a, name) => Get(a \o b, name) = Get(a, name)
                      /\ ~Has(a, name) => Get(a \o b, name) = Get(b, name)
                      /\ Has(a \o b, name) <=> Has(a, name) \/ Has(b, name)
<1> DEFINE d == a \o b
           l == Len(a)
           n == Len(b)
<1>1. /\ l \in Nat /\ n \in Nat /\ Len(d) = l + n
      /\ \A i \in 1..l : d[i] = a[i]
      /\ \A i \in 1..n : d[l + i] = b[i]
  OBVIOUS
<1>2. \A i \in 1..(l + n) : i \in 1..l \/ \E j \in 1..n : i = l + j
  <2>1. \A i \in 1..(l + n) : i \in 1..l \/ (i - l \in 1..n /\ i = l + (i - l))
    BY <1>1
  <2> QED
    BY <2>1
<1>3. /\ \A i \in 1..l : i \in 1..(l + n)
      /\ \A i \in 1..n : l + i \in 1..(l + n)
  BY <1>1
<1> HIDE DEF d, l, n
<1>4. Distinct(d)
  <2>1. SUFFICES ASSUME NEW i \in 1..(l + n), NEW j \in 1..(l + n), d[i][1] = d[j][1]
                 PROVE  i = j
    BY <1>1 DEF Distinct
  <2>2. CASE i \in 1..l /\ j \in 1..l
    BY <1>1, <2>1, <2>2 DEF Distinct, l
  <2>3. ASSUME NEW p \in 1..n, NEW q \in 1..n, i = l + p, j = l + q PROVE i = j
    <3>1. b[p][1] = b[q][1]
      BY <1>1, <2>1, <2>3
    <3> QED
      BY <2>3, <3>1 DEF Distinct, n
  <2>4. ASSUME NEW p \in 1..l, NEW q \in 1..n, {i, j} = {p, l + q} PROVE FALSE
    <3>1. a[p][1] = b[q][1]
      <4>1. d[p][1] = d[l + q][1]
        BY <2>1, <2>4, Zenon
      <4>2. d[p] = a[p] /\ d[l + q] = b[q]
        BY <1>1
      <4> QED
        BY <4>1, <4>2
    <3> QED
      BY <3>1 DEF l, n
  <2> QED
    BY <1>2, <2>2, <2>3, <2>4
<1>5. ASSUME NEW name, Has(a, name) PROVE Get(d, name) = Get(a, name) /\ Has(d, name)
  <2>1. PICK i \in 1..l : a[i][1] = name
    BY <1>5 DEF Has, l
  <2>2. d[i] = a[i] /\ i \in 1..Len(d)
    BY <1>1, <1>3
  <2>3. Get(a, name) = a[i][2]
    BY <2>1, GetIs DEF l
  <2>4. Get(d, name) = d[i][2] /\ Has(d, name)
    BY <1>4, <2>1, <2>2, GetIs
  <2> QED
    BY <2>2, <2>3, <2>4
<1>6. ASSUME NEW name, Has(b, name) PROVE Get(d, name) = Get(b, name) /\ Has(d, name)
  <2>1. PICK i \in 1..n : b[i][1] = name
    BY <1>6 DEF Has, n
  <2>2. d[l + i] = b[i] /\ l + i \in 1..Len(d)
    BY <1>1, <1>3
  <2>3. Get(b, name) = b[i][2]
    BY <2>1, GetIs DEF n
  <2>4. Get(d, name) = d[l + i][2] /\ Has(d, name)
    BY <1>4, <2>1, <2>2, GetIs
  <2> QED
    BY <2>2, <2>3, <2>4
<1>7. ASSUME NEW name, ~Has(a, name), ~Has(b, name) PROVE ~Has(d, name)
  <2> SUFFICES ASSUME NEW i \in 1..(l + n), d[i][1] = name PROVE FALSE
    BY <1>1 DEF Has
  <2>1. CASE i \in 1..l
    BY <1>1, <1>7, <2>1 DEF Has, l
  <2>2. ASSUME NEW j \in 1..n, i = l + j PROVE FALSE
    <3>1. b[j][1] = name
      BY <1>1, <2>2
    <3> QED
      BY <1>7, <3>1 DEF Has, n
  <2> QED
    BY <1>2, <2>1, <2>2
<1>8. ASSUME NEW name, ~Has(a, name) PROVE Get(d, name) = Get(b, name)
  <2>1. CASE Has(b, name)
    BY <1>6, <2>1
  <2>2. CASE ~Has(b, name)
    BY <1>7, <1>8, <2>2, GetNone
  <2> QED
    BY <2>1, <2>2
<1> QED
  BY <1>4, <1>5, <1>6, <1>7, <1>8 DEF d

\* Keys that are no booleans are equal when they are the same.
LEMMA SameKeyIs ==
  ASSUME NEW a, NEW b, a[1] # "bool", b[1] # "bool"
  PROVE  SameKey(a, b) <=> a = b
BY DEF SameKey

\* Keys that no boolean is among.
NoBool(K) == \A k \in K : k[1] # "bool"

\* The names in a dict are distinct.
LEMMA DictDistinct ==
  ASSUME NEW K, NEW V, NEW dict \in Dicts(K, V)
  PROVE  /\ Distinct(dict) /\ Len(dict) \in Nat
         /\ \A i \in 1..Len(dict) : dict[i][1] \in K /\ dict[i][2] \in V
<1>1. dict \in Seq(K \X V) /\ Keyed(dict)
  BY DEF Dicts
<1>2. ASSUME NEW i \in 1..Len(dict), NEW j \in 1..Len(dict), dict[i][1] = dict[j][1]
      PROVE  i = j
  <2>1. SameKey(dict[i][1], dict[j][1])
    BY <1>2, SameKeyEquivalence
  <2> QED
    BY <1>1, <2>1 DEF Keyed
<1>3. \A i \in 1..Len(dict) : dict[i][1] \in K /\ dict[i][2] \in V
  <2>1. \A i \in 1..Len(dict) : dict[i] \in K \X V
    BY <1>1
  <2> QED
    BY <2>1
<1> QED
  BY <1>1, <1>2, <1>3 DEF Distinct

\* After dict[k] = v, k has the value v, and the others have what they had.
LEMMA GetPut ==
  ASSUME NEW K, NEW V, Hashable(K), NoBool(K), NEW dict \in Dicts(K, V),
         NEW k \in K, NEW v \in V, NEW x \in K
  PROVE  Get(Put(dict, k, v), x) = IF x = k THEN v ELSE Get(dict, x)
<1> DEFINE put == Put(dict, k, v)
           n == Len(dict)
<1>1. /\ Distinct(dict) /\ n \in Nat /\ \A i \in 1..n : dict[i][1] \in K
      /\ Distinct(put)
  BY DictDistinct, PutDict
<1>2. \A i \in 1..n : SameKey(dict[i][1], k) <=> dict[i][1] = k
  BY <1>1, SameKeyIs DEF NoBool
<1>3. CASE \E i \in 1..n : dict[i][1] = k
  <2>1. put = [i \in 1..n |-> IF SameKey(dict[i][1], k) THEN <<dict[i][1], v>> ELSE dict[i]]
    BY <1>2, <1>3 DEF Put
  <2> HIDE DEF put
  <2>2. /\ Len(put) = n
        /\ \A i \in 1..n : /\ put[i][1] = dict[i][1]
                           /\ put[i][2] = IF dict[i][1] = k THEN v ELSE dict[i][2]
    BY <1>1, <1>2, <2>1
  <2>3. CASE Has(dict, x)
    <3>1. PICK i \in 1..n : dict[i][1] = x
      BY <2>3 DEF Has
    <3>2. Get(dict, x) = dict[i][2] /\ Get(put, x) = put[i][2]
      BY <1>1, <2>2, <3>1, GetIs
    <3> QED
      BY <2>2, <3>1, <3>2 DEF put
  <2>4. CASE ~Has(dict, x)
    <3>1. ~Has(put, x) /\ x # k
      BY <1>3, <2>2, <2>4 DEF Has
    <3> QED
      BY <2>4, <3>1, GetNone DEF put
  <2> QED
    BY <2>3, <2>4
<1>4. CASE ~\E i \in 1..n : dict[i][1] = k
  <2>1. put = Append(dict, <<k, v>>)
    BY <1>2, <1>4 DEF Put
  <2>2. /\ Len(put) = n + 1 /\ put[n + 1] = <<k, v>>
        /\ \A i \in 1..n : put[i] = dict[i]
    <3>1. dict \in Seq(K \X V)
      BY DEF Dicts
    <3> HIDE DEF put
    <3> QED
      BY <2>1, <3>1
  <2> HIDE DEF put
  <2>3. \A i \in 1..(n + 1) : i \in 1..n \/ i = n + 1
    BY <1>1
  <2>4. \A i \in 1..n : i \in 1..(n + 1)
    BY <1>1
  <2>5. CASE x = k
    <3>1. n + 1 \in 1..Len(put)
      BY <1>1, <2>2
    <3>2. Get(put, put[n + 1][1]) = put[n + 1][2]
      BY <1>1, <3>1, GetIs
    <3> QED
      BY <2>2, <2>5, <3>2 DEF put
  <2>6. CASE x # k /\ Has(dict, x)
    <3>1. PICK i \in 1..n : dict[i][1] = x
      BY <2>6 DEF Has
    <3>2. i \in 1..Len(put) /\ put[i] = dict[i]
      BY <2>2, <2>4
    <3>3. Get(dict, x) = dict[i][2]
      BY <1>1, <3>1, GetIs
    <3>4. Get(put, x) = put[i][2]
      BY <1>1, <3>1, <3>2, GetIs
    <3> QED
      BY <2>6, <3>2, <3>3, <3>4 DEF put
  <2>7. CASE x # k /\ ~Has(dict, x)
    <3>1. ~Has(put, x)
      BY <2>2, <2>3, <2>7 DEF Has
    <3> QED
      BY <2>7, <3>1, GetNone DEF put
  <2> QED
    BY <2>5, <2>6, <2>7
<1> QED
  BY <1>3, <1>4

\* Pairs of a key and a value.
Assignments(K, V) == Seq(K \X V)

\* No later pair has the key of this one.
IsLast(p, i) == \A j \in 1..Len(p) : p[j][1] = p[i][1] => j <= i

\* The last value that was assigned to a key is the one it has.
LEMMA LastAssigned ==
  ASSUME NEW K, NEW V, Hashable(K), NoBool(K), NEW p \in Assignments(K, V), NEW i \in 1..Len(p),
         IsLast(p, i)
  PROVE  Get(Assigned(p), p[i][1]) = p[i][2]
<1> DEFINE n == Len(p)
           x == p[i][1]
<1> USE DEF Assignments
<1>1. PICK D \in [0..n -> Dicts(K, V)] :
            /\ D[0] = <<>> /\ Assigned(p) = D[n]
            /\ \A j \in 1..n : D[j] = Put(D[j - 1], p[j][1], p[j][2])
  BY ZenonT(60), AssignedIs
<1>2. n \in Nat /\ \A j \in 1..n : p[j][1] \in K /\ p[j][2] \in V
  <2>1. \A j \in 1..n : p[j] \in K \X V
    OBVIOUS
  <2> QED
    BY <2>1
<1>3. x \in K
  BY <1>2
<1>4. ASSUME NEW j \in 1..n
      PROVE  Get(D[j], x) = IF x = p[j][1] THEN p[j][2] ELSE Get(D[j - 1], x)
  <2>1. D[j - 1] \in Dicts(K, V)
    <3>1. j - 1 \in 0..n
      BY <1>2
    <3> QED
      BY <3>1
  <2>2. p[j][1] \in K /\ p[j][2] \in V
    BY <1>2
  <2> HIDE DEF x
  <2>3. Get(Put(D[j - 1], p[j][1], p[j][2]), x)
          = IF x = p[j][1] THEN p[j][2] ELSE Get(D[j - 1], x)
    BY <1>3, <2>1, <2>2, GetPut
  <2> QED
    BY <1>1, <2>3
<1> DEFINE S == {k \in 0..n : k >= i => Get(D[k], x) = p[i][2]}
<1>5. 0 \in S
  BY <1>2
<1>6. \A k \in 0..(n - 1) : k \in S => k + 1 \in S
  <2> SUFFICES ASSUME NEW k \in 0..(n - 1), k \in S, k + 1 >= i
               PROVE  Get(D[k + 1], x) = p[i][2]
    BY <1>2
  <2>1. k + 1 \in 1..n /\ (k + 1) - 1 = k
    BY <1>2
  <2>2. Get(D[k + 1], x) = IF x = p[k + 1][1] THEN p[k + 1][2] ELSE Get(D[k], x)
    BY <1>4, <2>1
  <2>3. CASE k + 1 = i
    BY <2>2, <2>3
  <2>4. CASE k + 1 # i
    <3>1. k >= i /\ ~(k + 1 <= i)
      BY <2>1, <2>4
    <3>2. x # p[k + 1][1]
      BY <2>1, <3>1 DEF IsLast
    <3> QED
      BY <2>2, <3>1, <3>2
  <2> QED
    BY <2>3, <2>4
<1> HIDE DEF S
<1>7. n \in S
  <2>1. \A k \in 0..n : k \in S
    BY <1>2, <1>5, <1>6, Upward
  <2> QED
    BY <1>2, <2>1
<1>8. n >= i
  BY <1>2
<1> QED
  BY <1>1, <1>7, <1>8 DEF S

-----------------------------------------------------------------------------
(* What MockNSM issues *)

\* A character of one byte is valid (attestation.py:391).
LEMMA AsciiDecodes ==
  ASSUME NEW b \in 0..127
  PROVE  Utf8(<<b>>)
<1> DEFINE s == <<b>>
           CharAt(i) ==
             LET Followed(n) == i + n <= Len(s) /\ \A j \in i + 1..i + n : s[j] \in 128..191
                 Starts(low, high, first, last) ==
                   s[i] \in low..high /\ (i < Len(s) => s[i + 1] \in first..last)
                 extra == CASE s[i] \in 0..127 -> 0
                            [] s[i] \in 194..223 -> 1
                            [] \/ Starts(224, 224, 160, 191) \/ Starts(225, 236, 128, 191)
                               \/ Starts(237, 237, 128, 159) \/ Starts(238, 239, 128, 191) -> 2
                            [] \/ Starts(240, 240, 144, 191) \/ Starts(241, 243, 128, 191)
                               \/ Starts(244, 244, 128, 143) -> 3
                            [] OTHER -> Len(s)
             IN  IF Followed(extra) THEN extra + 1 ELSE 0
           Is(f) == f = [i \in 1..Len(s) + 1 |-> i > Len(s) \/ (CharAt(i) > 0 /\ f[i + CharAt(i)])]
           valid == CHOOSE f : Is(f)
<1>1. CharAt(1) = 1
  <2>1. s[1] = b /\ Len(s) = 1 /\ 1..0 = {}
    OBVIOUS
  <2> HIDE DEF s
  <2> DEFINE Starts(low, high, first, last) ==
               s[1] \in low..high /\ (1 < Len(s) => s[2] \in first..last)
             extra == CASE s[1] \in 0..127 -> 0
                        [] s[1] \in 194..223 -> 1
                        [] \/ Starts(224, 224, 160, 191) \/ Starts(225, 236, 128, 191)
                           \/ Starts(237, 237, 128, 159) \/ Starts(238, 239, 128, 191) -> 2
                        [] \/ Starts(240, 240, 144, 191) \/ Starts(241, 243, 128, 191)
                           \/ Starts(244, 244, 128, 143) -> 3
                        [] OTHER -> Len(s)
  <2>2. extra = 0
    BY <2>1
  <2> HIDE DEF extra
  <2> QED
    BY <2>1, <2>2
<1>2. Utf8(s) = valid[1]
  BY DEF Utf8
<1> HIDE DEF CharAt
<1>3. \E f : Is(f)
  <2> DEFINE f == [i \in 1..Len(s) + 1 |-> TRUE]
  <2>1. \A i \in 1..Len(s) + 1 : (i > Len(s) \/ (CharAt(i) > 0 /\ f[i + CharAt(i)])) = TRUE
    <3>1. 1..Len(s) + 1 = {1, 2}
      OBVIOUS
    <3>2. f[1 + CharAt(1)] = TRUE /\ CharAt(1) > 0 /\ 2 > Len(s)
      BY <1>1
    <3> QED
      BY <3>1, <3>2
  <2> QED
    BY <2>1
<1>4. Is(valid)
  BY <1>3
<1> HIDE DEF valid
<1>5. valid[2] = (2 > Len(s) \/ (CharAt(2) > 0 /\ valid[2 + CharAt(2)]))
  BY <1>4
<1>6. valid[1] = (1 > Len(s) \/ (CharAt(1) > 0 /\ valid[1 + CharAt(1)]))
  BY <1>4
<1>7. valid[2]
  <2>1. 2 > Len(s)
    OBVIOUS
  <2> QED
    BY <1>5, <2>1, Zenon
<1>8. valid[1]
  <2>1. CharAt(1) > 0 /\ 1 + CharAt(1) = 2
    BY <1>1
  <2>2. valid[1 + CharAt(1)]
    BY <1>7, <2>1, Zenon
  <2> QED
    BY <1>6, <2>1, <2>2, Zenon
<1> QED
  BY <1>2, <1>8

\* A dict has no more items than were assigned.
LEMMA AssignedShorter ==
  ASSUME NEW K, NEW V, Hashable(K), NEW p \in Seq(K \X V)
  PROVE  Assigned(p) \in Dicts(K, V) /\ Len(Assigned(p)) <= Len(p)
<1> DEFINE n == Len(p)
<1>1. PICK D \in [0..n -> Dicts(K, V)] :
            /\ D[0] = <<>> /\ Assigned(p) = D[n]
            /\ \A j \in 1..n : D[j] = Put(D[j - 1], p[j][1], p[j][2])
  BY ZenonT(60), AssignedIs
<1>2. n \in Nat
  OBVIOUS
<1> DEFINE S == {k \in 0..n : Len(D[k]) <= k}
<1>3. 0 \in S
  BY <1>1, <1>2
<1>4. \A k \in 0..(n - 1) : k \in S => k + 1 \in S
  <2> SUFFICES ASSUME NEW k \in 0..(n - 1), k \in S PROVE Len(D[k + 1]) <= k + 1
    BY <1>2
  <2>1. k + 1 \in 1..n /\ (k + 1) - 1 = k /\ k \in 0..n
    BY <1>2
  <2>2. D[k + 1] = Put(D[k], p[k + 1][1], p[k + 1][2])
    BY <1>1, <2>1
  <2>3. D[k] \in Seq(K \X V) /\ Len(D[k]) <= k
    BY <2>1 DEF Dicts
  <2>4. Len(D[k + 1]) <= Len(D[k]) + 1
    <3>1. ASSUME NEW d \in Seq(K \X V), NEW x, NEW v PROVE Len(Put(d, x, v)) <= Len(d) + 1
      <4>1. CASE \E i \in 1..Len(d) : SameKey(d[i][1], x)
        <5>1. Put(d, x, v) = [i \in 1..Len(d) |->
                IF SameKey(d[i][1], x) THEN <<d[i][1], v>> ELSE d[i]]
          BY <4>1 DEF Put
        <5> QED
          BY <5>1
      <4>2. CASE ~\E i \in 1..Len(d) : SameKey(d[i][1], x)
        <5>1. Put(d, x, v) = Append(d, <<x, v>>)
          BY <4>2 DEF Put
        <5> QED
          BY <5>1
      <4> QED
        BY <4>1, <4>2
    <3> QED
      BY <2>2, <2>3, <3>1
  <2>5. Len(D[k + 1]) \in Nat /\ Len(D[k]) \in Nat
    <3>1. D[k + 1] \in Seq(K \X V)
      BY <2>1 DEF Dicts
    <3> QED
      BY <2>3, <3>1
  <2> QED
    BY <2>3, <2>4, <2>5
<1> HIDE DEF S
<1>5. n \in S
  <2>1. \A k \in 0..n : k \in S
    BY <1>2, <1>3, <1>4, Upward
  <2> QED
    BY <1>2, <2>1
<1>6. D[n] \in Dicts(K, V)
  BY <1>2
<1> QED
  BY <1>1, <1>5, <1>6 DEF S

\* Of a set of positions there is a last one.
LEMMA Latest ==
  ASSUME NEW n \in Nat, NEW S \in SUBSET (1..n), S # {}
  PROVE  Max(S) \in S /\ \A l \in S : l <= Max(S)
<1> DEFINE T == {n - j : j \in S}
<1>1. T \in SUBSET Nat /\ T # {}
  <2>1. \A j \in S : n - j \in Nat
    OBVIOUS
  <2> QED
    BY <2>1
<1> HIDE DEF T
<1>2. PICK t \in T : \A u \in T : t <= u
  BY <1>1, Least
<1>3. PICK j \in S : t = n - j
  BY DEF T
<1>4. ASSUME NEW k \in S PROVE k <= j
  <2>1. n - k \in T
    BY DEF T
  <2>2. n - j <= n - k
    BY <1>2, <1>3, <2>1
  <2> QED
    BY <2>2
<1>5. \A k \in S : j >= k
  <2>1. \A k \in S : k \in Nat
    OBVIOUS
  <2> QED
    BY <1>3, <1>4, <2>1
<1>6. Max(S) \in S /\ \A k \in S : Max(S) >= k
  BY <1>5, Zenon DEF Max
<1> QED
  BY <1>6

\* The first digit of a pair, or 16; what bytes.fromhex has read of a text.
First == 0..16
HexState == (Seq(Byte) \X First) \cup {None}

LEMMA DigitType == \A c \in Ascii : HexDigit(c) \in First
BY DEF HexDigit, First, Ascii

\* What it does with one more character.
HexStep(c, bytes) ==
  LET digit == HexDigit(c)
  IN  CASE bytes = None -> None
        [] bytes # None /\ digit < 16 ->
             IF bytes[2] = 16 THEN <<bytes[1], digit>>
             ELSE <<Append(bytes[1], 16 * bytes[2] + digit), 16>>
        [] bytes # None /\ digit = 16 /\ c \in Blank /\ bytes[2] = 16 -> bytes
        [] OTHER -> None

LEMMA HexStepType ==
  ASSUME NEW c \in Ascii, NEW bytes \in HexState
  PROVE  HexStep(c, bytes) \in HexState
<1>1. HexDigit(c) \in First
  BY DigitType
<1>2. CASE bytes = None
  <2>1. HexStep(c, bytes) = None
    BY <1>2, Zenon DEF HexStep
  <2> QED
    BY <2>1 DEF HexState
<1>3. CASE bytes # None
  <2>1. bytes \in Seq(Byte) \X First
    BY <1>3 DEF HexState
  <2>2. bytes[1] \in Seq(Byte) /\ bytes[2] \in First
    BY <2>1
  <2> DEFINE digit == HexDigit(c)
  <2>3. \A x \in Seq(Byte), y \in First : <<x, y>> \in HexState
    BY DEF HexState
  <2> HIDE DEF digit
  <2>4. CASE digit < 16 /\ bytes[2] = 16
    <3>1. digit # 16
      BY <2>4
    <3>2. HexStep(c, bytes) = <<bytes[1], digit>>
      BY <1>3, <2>4, <3>1, Zenon DEF HexStep, digit
    <3> QED
      BY <1>1, <2>2, <2>3, <3>2 DEF digit
  <2>5. CASE digit < 16 /\ bytes[2] # 16
    <3>1. HexStep(c, bytes) = <<Append(bytes[1], 16 * bytes[2] + digit), 16>>
      BY <1>3, <2>5 DEF HexStep, digit
    <3>2. 16 * bytes[2] + digit \in Byte
      <4>1. \A x, y \in First : x # 16 /\ y < 16 => 16 * x + y \in Byte
        BY DEF First, Byte
      <4>2. digit \in First
        BY <1>1 DEF digit
      <4> QED
        BY <2>2, <2>5, <4>1, <4>2
    <3>3. Append(bytes[1], 16 * bytes[2] + digit) \in Seq(Byte) /\ 16 \in First
      BY <2>2, <3>2 DEF First
    <3> QED
      BY <2>3, <3>1, <3>3
  <2>6. CASE ~(digit < 16)
    <3>1. HexStep(c, bytes) = bytes \/ HexStep(c, bytes) = None
      BY <1>3, <2>6 DEF HexStep, digit
    <3> QED
      BY <3>1 DEF HexState
  <2> QED
    BY <2>4, <2>5, <2>6
<1> QED
  BY <1>2, <1>3

\* bytes.fromhex returns bytes (attestation.py:233-236).
LEMMA FromHexType ==
  ASSUME NEW s \in Seq(Ascii)
  PROVE  FromHex(s) = None \/ \E b \in Seq(Byte) : FromHex(s) = <<"bytes", b>>
<1> DEFINE n == Len(s)
           A == HexState
           Next2(i, bytes) == HexStep(s[i], bytes)
           base == <<<<>>, 16>>
           step == [i \in 1..n |-> [bytes \in A |-> Next2(i, bytes)]]
           Is(f) == f = [i \in 0..n |-> IF i = 0 THEN base ELSE Next2(i, f[i - 1])]
           read == CHOOSE f : Is(f)
<1>1. n \in Nat /\ base \in A
  <2>1. 16 \in First /\ <<>> \in Seq(Byte)
    BY DEF First
  <2>2. base \in Seq(Byte) \X First
    BY <2>1, Zenon
  <2> HIDE DEF base
  <2> QED
    BY <2>2 DEF HexState
<1>2. ASSUME NEW i \in 1..n, NEW bytes \in A PROVE Next2(i, bytes) \in A
  <2>1. s[i] \in Ascii
    OBVIOUS
  <2> QED
    BY <2>1, HexStepType
<1> HIDE DEF Next2
<1>3. step \in [1..n -> [A -> A]]
  BY <1>2
<1>4. PICK f : Iterates(f, n, A, base, step)
  <2> HIDE DEF step, n, A, base
  <2> QED
    BY <1>1, <1>3, Iterated
<1>5. \E g : Is(g)
  <2>1. f \in [0..n -> A] /\ f[0] = base /\ \A i \in 1..n : f[i] = step[i][f[i - 1]]
    BY <1>4 DEF Iterates
  <2>2. ASSUME NEW i \in 0..n PROVE f[i] = IF i = 0 THEN base ELSE Next2(i, f[i - 1])
    <3>1. CASE i = 0
      BY <2>1, <3>1
    <3>2. CASE i # 0
      <4>1. i \in 1..n /\ i - 1 \in 0..n
        BY <1>1, <3>2
      <4>2. f[i - 1] \in A
        BY <2>1, <4>1
      <4>3. f[i] = Next2(i, f[i - 1])
        BY <2>1, <4>1, <4>2
      <4> QED
        BY <3>2, <4>3
    <3> QED
      BY <3>1, <3>2
  <2>3. Is(f)
    BY <2>1, <2>2
  <2> QED
    BY <2>3
<1>6. Is(read)
  BY <1>5
<1> HIDE DEF read
<1>7. read[n] \in A
  <2> DEFINE S == {i \in 0..n : read[i] \in A}
  <2>1. 0 \in S
    BY <1>1, <1>6
  <2>2. ASSUME NEW i \in 0..(n - 1), i \in S PROVE i + 1 \in S
    <3>1. i + 1 \in 1..n /\ i + 1 \in 0..n /\ (i + 1) - 1 = i /\ i + 1 # 0
      BY <1>1
    <3>2. read[i + 1] = Next2(i + 1, read[i])
      BY <1>6, <3>1
    <3> QED
      BY <1>2, <2>2, <3>1, <3>2
  <2> HIDE DEF S
  <2>3. \A i \in 0..n : i \in S
    BY <1>1, <2>1, <2>2, Upward
  <2>4. n \in S
    BY <1>1, <2>3
  <2> QED
    BY <2>4 DEF S
<1>8. FromHex(s) = IF read[n] # None /\ read[n][2] = 16 THEN <<"bytes", read[n][1]>> ELSE None
  BY Zenon DEF FromHex, read, Next2, HexStep, base, n
<1>9. read[n] = None \/ (read[n][1] \in Seq(Byte) /\ read[n] # None)
  BY <1>7 DEF HexState
<1> QED
  BY <1>8, <1>9

\* What is not refused is an int and bytes.
LEMMA ItemsGiven ==
  ASSUME NEW call \in Accepted
  PROVE  LET items == GivenItems(call)
         IN  /\ items \in Lists(Pcr)
             /\ \A i \in 1..Len(items) : /\ IndexOf(items[i].index) \in Ints
                                         /\ BytesOf(items[i].value) \in Bytestring
<1> DEFINE items == GivenItems(call)
<1>1. call \in Calls /\ PcrsAccepted(items)
  BY DEF Accepted
<1>2. IntOf(0) \in Ints
  <2>1. Magnitude(0) \in Numbers
    <3>1. 0 \in 0..23
      OBVIOUS
    <3> QED
      BY <3>1, InFirstByte
  <2> QED
    BY <2>1 DEF IntOf, Ints
<1>3. /\ items \in Lists(Pcr)
      /\ \A i \in 1..Len(items) : IndexOf(items[i].index) \in Ints \cup {None}
  <2>1. CASE call.pcrs = <<>>
    <3> DEFINE one == [index |-> IntOf(0), value |-> Pcr0]
    <3>1. items = <<one>>
      BY <2>1 DEF GivenItems
    <3>2. one \in Pcr
      BY <1>2, AttestationAssumption DEF Pcr
    <3>3. one.index = IntOf(0)
      OBVIOUS
    <3> HIDE DEF one, items
    <3>4. items \in Lists(Pcr)
      BY <3>1, <3>2 DEF Lists, MaxLength
    <3>5. IndexOf(one.index) \in Ints
      <4>1. IntOf(0)[1] = "int"
        BY DEF IntOf
      <4>2. IndexOf(IntOf(0)) = IntOf(0)
        BY <4>1, Zenon DEF IndexOf
      <4> QED
        BY <1>2, <3>3, <4>2
    <3> QED
      BY <3>1, <3>4, <3>5
  <2>2. CASE call.pcrs # <<>>
    BY <1>1, <2>2, AttestationAssumption DEF Calls, GivenItems
  <2> QED
    BY <2>1, <2>2
<1> HIDE DEF items
<1>4. ASSUME NEW i \in 1..Len(items)
      PROVE  IndexOf(items[i].index) \in Ints /\ BytesOf(items[i].value) \in Bytestring
  <2> DEFINE value == items[i].value
  <2>1. /\ IndexOf(items[i].index) # None /\ BytesOf(value) # None
        /\ Len(BytesOf(value)[2]) \in {32, 48, 64}
    BY <1>1 DEF PcrsAccepted
  <2>2. value \in Bytestring \cup Texts \cup {None}
    <3>1. items[i] \in Pcr
      BY <1>3 DEF Lists
    <3> QED
      BY <3>1 DEF Pcr
  <2> HIDE DEF value
  <2>3. CASE value \in Bytestring
    <3>1. value[1] = "bytes"
      BY <2>3 DEF Bytestring
    <3>2. BytesOf(value) = value
      BY <3>1 DEF BytesOf
    <3> QED
      BY <1>3, <2>1, <2>3, <3>2 DEF value
  <2>4. CASE value \in Texts
    <3>1. value[1] = "text" /\ value[2] \in Seq(Ascii)
      BY <2>4 DEF Texts, Lists
    <3>2. BytesOf(value) = FromHex(value[2])
      BY <3>1 DEF BytesOf
    <3>3. PICK b \in Seq(Byte) : BytesOf(value) = <<"bytes", b>>
      BY <2>1, <3>1, <3>2, FromHexType
    <3>4. Len(b) \in {32, 48, 64}
      BY <2>1, <3>3
    <3>5. b \in Lists(Byte)
      <4>1. \A k \in {32, 48, 64} : k <= MaxLength
        BY DEF MaxLength
      <4> QED
        BY <3>4, <4>1 DEF Lists
    <3> QED
      BY <1>3, <2>1, <3>3, <3>5 DEF Bytestring, value
  <2>5. CASE value = None
    <3>1. BytesOf(value) = None
      BY <2>5 DEF BytesOf, None
    <3> QED
      BY <2>1, <3>1
  <2> QED
    BY <2>2, <2>3, <2>4, <2>5
<1> QED
  BY <1>3, <1>4 DEF items

\* The pcrs of a document are a dict from ints to bytes. It has for each index the value
\* that was given last (attestation.py:223-244).
LEMMA PcrsGiven ==
  ASSUME NEW call \in Accepted
  PROVE  /\ GivenPcrs(call) \in Dicts(Ints, Bytestring) /\ Len(GivenPcrs(call)) <= MaxLength
         /\ LET items == GivenItems(call)
            IN  \A i \in 1..Len(items) :
                  LET number == IndexOf(items[i].index)
                      last == Max({j \in 1..Len(items) : IndexOf(items[j].index) = number})
                  IN  Get(GivenPcrs(call), number) = BytesOf(items[last].value)
<1> DEFINE items == GivenItems(call)
           p == [i \in 1..Len(items) |-> <<IndexOf(items[i].index), BytesOf(items[i].value)>>]
<1>1. Hashable(Ints) /\ NoBool(Ints)
  BY DEF Hashable, NoBool, Ints
<1>2. GivenPcrs(call) = Assigned(p)
  BY DEF GivenPcrs, NormalizePcrs
<1>3. /\ items \in Seq(Pcr) /\ Len(items) \in Nat /\ Len(items) <= MaxLength
      /\ \A i \in 1..Len(items) : /\ IndexOf(items[i].index) \in Ints
                                  /\ BytesOf(items[i].value) \in Bytestring
  BY ItemsGiven DEF Lists
<1> HIDE DEF items
<1>4. /\ p \in Seq(Ints \X Bytestring) /\ Len(p) = Len(items)
      /\ \A i \in 1..Len(items) : p[i][1] = IndexOf(items[i].index) /\ p[i][2] = BytesOf(items[i].value)
  BY <1>3
<1> HIDE DEF p
<1>5. GivenPcrs(call) \in Dicts(Ints, Bytestring) /\ Len(GivenPcrs(call)) <= MaxLength
  <2>1. Assigned(p) \in Dicts(Ints, Bytestring) /\ Len(Assigned(p)) <= Len(p)
    BY <1>1, <1>4, AssignedShorter
  <2>2. Len(Assigned(p)) \in Nat /\ MaxLength \in Nat
    BY <2>1, DictDistinct DEF MaxLength
  <2> QED
    BY <1>2, <1>3, <1>4, <2>1, <2>2
<1>6. ASSUME NEW i \in 1..Len(items)
      PROVE  LET number == IndexOf(items[i].index)
                 last == Max({j \in 1..Len(items) : IndexOf(items[j].index) = number})
             IN  Get(GivenPcrs(call), number) = BytesOf(items[last].value)
  <2> DEFINE number == IndexOf(items[i].index)
             same == {j \in 1..Len(items) : IndexOf(items[j].index) = number}
             last == Max(same)
  <2>1. i \in same /\ same \in SUBSET (1..Len(items))
    OBVIOUS
  <2>2. last \in same /\ \A k \in same : k <= last
    <3> HIDE DEF same
    <3>1. same # {}
      BY <2>1
    <3> QED
      BY <1>3, <2>1, <3>1, Latest DEF last
  <2> HIDE DEF last
  <2>3. /\ last \in 1..Len(p) /\ p[last][1] = number
        /\ \A j \in 1..Len(p) : p[j][1] = p[last][1] => j <= last
    BY <1>4, <2>2
  <2>4. Get(Assigned(p), p[last][1]) = p[last][2]
    <3>1. p \in Assignments(Ints, Bytestring)
      BY <1>4 DEF Assignments
    <3>2. last \in 1..Len(p) /\ IsLast(p, last)
      BY <2>3 DEF IsLast
    <3> QED
      BY <1>1, <3>1, <3>2, LastAssigned
  <2>5. Get(GivenPcrs(call), number) = BytesOf(items[last].value)
    BY <1>2, <1>4, <2>3, <2>4
  <2> QED
    BY <2>5 DEF last
<1> QED
  BY <1>5, <1>6 DEF items

\* The parts of a document.
Fixed(call) ==
  <<<<ModuleId, Name(10)>>, <<Timestamp, GivenTime(call)>>, <<Digest, Name(11)>>,
    <<PcrMap, <<"dict", GivenPcrs(call)>>>>, <<Certificate, <<"bytes", <<1>>>>>>,
    <<CaBundle, <<"list", <<<<"bytes", <<2>>>>>>>>>>>>

Optionals(call) == Given(call, 1) \o Given(call, 2) \o Given(call, 3)
Names == {Name(i) : i \in 1..9}

\* Names differ.
LEMMA NameIs == \A i, j \in Nat : Name(i) = Name(j) <=> i = j
BY DEF Name

\* An optional field is there when it is given.
LEMMA GivenIs ==
  ASSUME NEW call \in Accepted, NEW i \in 1..3
  PROVE  /\ Optional[i] = Name(6 + i)
         /\ Given(call, i) \in Seq(Names \X Bytestring) /\ Len(Given(call, i)) <= 1
         /\ call.fields[i] = None \/ call.fields[i] \in Bytestring
         /\ Distinct(Given(call, i))
         /\ \A name : /\ Has(Given(call, i), name) <=> name = Name(6 + i) /\ call.fields[i] # None
                      /\ Get(Given(call, i), name) = IF name = Name(6 + i) THEN call.fields[i]
                                                     ELSE None
<1> DEFINE f == call.fields[i]
           g == Given(call, i)
<1>1. Optional[i] = Name(6 + i) /\ Optional[i] \in Names
  <2>1. i = 1 \/ i = 2 \/ i = 3
    OBVIOUS
  <2>2. Optional[1] = Name(7) /\ Optional[2] = Name(8) /\ Optional[3] = Name(9)
    BY DEF Optional
  <2>3. Optional[i] = Name(6 + i)
    BY <2>1, <2>2
  <2>4. 6 + i \in 1..9
    OBVIOUS
  <2> QED
    BY <2>3, <2>4 DEF Names
<1>2. f = None \/ f \in Bytestring
  BY AttestationAssumption DEF Accepted, Calls
<1>3. CASE f = None
  <2>1. g = <<>>
    BY <1>3 DEF Given
  <2> HIDE DEF g, f
  <2>2. g \in Seq(Names \X Bytestring) /\ Len(g) <= 1 /\ Distinct(g) /\ \A name : ~Has(g, name)
    BY <2>1 DEF Distinct, Has
  <2>3. \A name : Get(g, name) = None
    BY <2>2, GetNone
  <2> QED
    BY <1>1, <1>2, <1>3, <2>2, <2>3 DEF f, g
<1>4. CASE f \in Bytestring /\ f # None
  <2>1. g = <<<<Name(6 + i), f>>>>
    BY <1>1, <1>4 DEF Given
  <2> DEFINE o == <<Name(6 + i), f>>
  <2>2. o \in Names \X Bytestring /\ o[1] = Name(6 + i) /\ o[2] = f
    BY <1>1, <1>4
  <2> HIDE DEF g, f, o
  <2>3. g \in Seq(Names \X Bytestring) /\ Len(g) = 1 /\ g[1] = o
    BY <2>1, <2>2 DEF o
  <2>4. 1..1 = {1}
    OBVIOUS
  <2>5. Distinct(g)
    BY <2>3, <2>4 DEF Distinct
  <2>6. ASSUME NEW name PROVE Has(g, name) <=> name = Name(6 + i)
    BY <2>2, <2>3, <2>4 DEF Has
  <2>7. Get(g, Name(6 + i)) = f
    <3>1. 1 \in 1..Len(g)
      BY <2>3
    <3>2. Get(g, g[1][1]) = g[1][2]
      BY <2>5, <3>1, GetIs
    <3> QED
      BY <2>2, <2>3, <3>2
  <2>8. ASSUME NEW name, name # Name(6 + i) PROVE Get(g, name) = None
    BY <2>6, <2>8, GetNone
  <2>9. Len(g) <= 1
    BY <2>3
  <2> QED
    BY <1>1, <1>2, <1>4, <2>3, <2>5, <2>6, <2>7, <2>8, <2>9 DEF f, g
<1> QED
  BY <1>2, <1>3, <1>4

\* The optional fields in a row.
LEMMA OptionalsAre ==
  ASSUME NEW call \in Accepted
  PROVE  /\ Optionals(call) \in Seq(Names \X Bytestring) /\ Len(Optionals(call)) <= 3
         /\ Distinct(Optionals(call))
         /\ \A name : Has(Optionals(call), name) => \E i \in 1..3 : name = Name(6 + i)
         /\ \A i \in 1..3 : Get(Optionals(call), Name(6 + i)) = call.fields[i]
<1> DEFINE a == Given(call, 1)
           b == Given(call, 2)
           c == Given(call, 3)
           ab == a \o b
           f == call.fields
<1>1. /\ a \in Seq(Names \X Bytestring) /\ Len(a) <= 1 /\ Distinct(a)
      /\ \A name : Has(a, name) <=> name = Name(7) /\ f[1] # None
      /\ \A name : Get(a, name) = IF name = Name(7) THEN f[1] ELSE None
  <2>1. 1 \in 1..3 /\ 6 + 1 = 7
    OBVIOUS
  <2>2. /\ Optional[1] = Name(6 + 1) /\ a \in Seq(Names \X Bytestring) /\ Len(a) <= 1
        /\ f[1] = None \/ f[1] \in Bytestring
        /\ Distinct(a)
        /\ \A name : /\ Has(a, name) <=> name = Name(6 + 1) /\ f[1] # None
                     /\ Get(a, name) = IF name = Name(6 + 1) THEN f[1] ELSE None
    BY <2>1, GivenIs
  <2> HIDE DEF a, f
  <2> QED
    BY <2>1, <2>2
<1>2. /\ b \in Seq(Names \X Bytestring) /\ Len(b) <= 1 /\ Distinct(b)
      /\ \A name : Has(b, name) <=> name = Name(8) /\ f[2] # None
      /\ \A name : Get(b, name) = IF name = Name(8) THEN f[2] ELSE None
  <2>1. 2 \in 1..3 /\ 6 + 2 = 8
    OBVIOUS
  <2>2. /\ Optional[2] = Name(6 + 2) /\ b \in Seq(Names \X Bytestring) /\ Len(b) <= 1
        /\ f[2] = None \/ f[2] \in Bytestring
        /\ Distinct(b)
        /\ \A name : /\ Has(b, name) <=> name = Name(6 + 2) /\ f[2] # None
                     /\ Get(b, name) = IF name = Name(6 + 2) THEN f[2] ELSE None
    BY <2>1, GivenIs
  <2> HIDE DEF b, f
  <2> QED
    BY <2>1, <2>2
<1>3. /\ c \in Seq(Names \X Bytestring) /\ Len(c) <= 1 /\ Distinct(c)
      /\ \A name : Has(c, name) <=> name = Name(9) /\ f[3] # None
      /\ \A name : Get(c, name) = IF name = Name(9) THEN f[3] ELSE None
  <2>1. 3 \in 1..3 /\ 6 + 3 = 9
    OBVIOUS
  <2>2. /\ Optional[3] = Name(6 + 3) /\ c \in Seq(Names \X Bytestring) /\ Len(c) <= 1
        /\ f[3] = None \/ f[3] \in Bytestring
        /\ Distinct(c)
        /\ \A name : /\ Has(c, name) <=> name = Name(6 + 3) /\ f[3] # None
                     /\ Get(c, name) = IF name = Name(6 + 3) THEN f[3] ELSE None
    BY <2>1, GivenIs
  <2> HIDE DEF c, f
  <2> QED
    BY <2>1, <2>2
<1>4. Name(7) # Name(8) /\ Name(7) # Name(9) /\ Name(8) # Name(9)
  BY NameIs
<1>5. Optionals(call) = ab \o c
  BY DEF Optionals
<1> HIDE DEF a, b, c, f
<1>6. /\ Distinct(ab)
      /\ \A name : /\ Has(a, name) => Get(ab, name) = Get(a, name)
                   /\ ~Has(a, name) => Get(ab, name) = Get(b, name)
                   /\ Has(ab, name) <=> Has(a, name) \/ Has(b, name)
  <2>1. \A i \in 1..Len(a), j \in 1..Len(b) : a[i][1] # b[j][1]
    BY ZenonT(60), <1>1, <1>2, <1>4 DEF Has
  <2> QED
    BY <1>1, <1>2, <2>1, GetJoined
<1>7. ab \in Seq(Names \X Bytestring) /\ Len(ab) <= 2
  BY <1>1, <1>2
<1>8. /\ \A name : Has(ab, name) => name = Name(7) \/ name = Name(8)
      /\ Get(ab, Name(7)) = f[1] /\ Get(ab, Name(8)) = f[2] /\ ~Has(ab, Name(9))
  <2>1. Get(ab, Name(7)) = f[1]
    <3>1. CASE Has(a, Name(7))
      BY <1>1, <1>6, <3>1
    <3>2. CASE ~Has(a, Name(7))
      <4>1. f[1] = None
        BY <1>1, <3>2
      <4>2. Get(ab, Name(7)) = Get(b, Name(7))
        BY <1>6, <3>2
      <4>3. Get(b, Name(7)) = None
        BY <1>2, <1>4
      <4> QED
        BY <4>1, <4>2, <4>3
    <3> QED
      BY <3>1, <3>2
  <2>2. Get(ab, Name(8)) = f[2]
    <3>1. ~Has(a, Name(8))
      BY <1>1, <1>4
    <3> QED
      BY <1>2, <1>6, <3>1
  <2>3. \A name : Has(ab, name) => name = Name(7) \/ name = Name(8)
    BY <1>1, <1>2, <1>6
  <2> QED
    BY <1>4, <2>1, <2>2, <2>3
<1> DEFINE abc == ab \o c
<1> HIDE DEF ab
<1>9. /\ Distinct(abc)
      /\ \A name : /\ Has(ab, name) => Get(abc, name) = Get(ab, name)
                   /\ ~Has(ab, name) => Get(abc, name) = Get(c, name)
                   /\ Has(abc, name) <=> Has(ab, name) \/ Has(c, name)
  <2>1. \A i \in 1..Len(ab), j \in 1..Len(c) : ab[i][1] # c[j][1]
    BY <1>3, <1>4, <1>8 DEF Has
  <2> QED
    BY <1>3, <1>6, <1>7, <2>1, GetJoined
<1>10. abc \in Seq(Names \X Bytestring) /\ Len(abc) <= 3
  BY <1>3, <1>7
<1> HIDE DEF abc
<1>11. \A k \in {1, 2} : Get(abc, Name(6 + k)) = f[k]
  <2>1. ASSUME NEW k \in {1, 2} PROVE Get(abc, Name(6 + k)) = f[k]
    <3>1. Get(ab, Name(6 + k)) = f[k] /\ 6 + k # 9 /\ 6 + k \in {7, 8}
      BY <1>8
    <3>2. CASE Has(ab, Name(6 + k))
      BY <1>9, <3>1, <3>2
    <3>3. CASE ~Has(ab, Name(6 + k))
      <4>1. f[k] = None
        BY <3>1, <3>3, GetNone
      <4>2. Get(abc, Name(6 + k)) = Get(c, Name(6 + k))
        BY <1>9, <3>3
      <4>3. Name(6 + k) # Name(9)
        BY <1>4, <3>1
      <4> QED
        BY <1>3, <4>1, <4>2, <4>3
    <3> QED
      BY <3>2, <3>3
  <2> QED
    BY <2>1
<1>12. Get(abc, Name(9)) = f[3]
  BY <1>3, <1>8, <1>9
<1>13. \A k \in 1..3 : Get(abc, Name(6 + k)) = f[k]
  <2>1. \A k \in 1..3 : k \in {1, 2} \/ (k = 3 /\ 6 + k = 9)
    OBVIOUS
  <2> QED
    BY <1>11, <1>12, <2>1
<1>14. ASSUME NEW name, Has(abc, name) PROVE \E i \in 1..3 : name = Name(6 + i)
  <2>1. name = Name(7) \/ name = Name(8) \/ name = Name(9)
    BY <1>3, <1>8, <1>9, <1>14
  <2>2. 6 + 1 = 7 /\ 6 + 2 = 8 /\ 6 + 3 = 9 /\ 1 \in 1..3 /\ 2 \in 1..3 /\ 3 \in 1..3
    OBVIOUS
  <2> QED
    BY <2>1, <2>2
<1> QED
  BY <1>5, <1>9, <1>10, <1>13, <1>14 DEF abc, f

\* The first levels of values.
LEMMA FirstLevels ==
  /\ Plain \subseteq Values[1] /\ Nested(Plain) \subseteq Values[1]
  /\ Nested(Values[1]) \subseteq Values[MaxDepth]
  /\ Ints \subseteq Plain /\ Bytestring \subseteq Plain
  /\ \A i \in 0..127 : Name(i) \in Plain
<1>1. /\ MaxDepth \in Nat /\ 2 \in 0..MaxDepth /\ 1 \in 1..MaxDepth /\ 2 \in 1..MaxDepth
      /\ MaxDepth \in 0..MaxDepth /\ 1 - 1 = 0 /\ 2 - 1 = 1
  BY DepthAssumption, AttestationAssumption
<1>2. Values[0] = Plain /\ Values[1] = Plain \cup Nested(Values[0])
  BY <1>1, ValuesIs
<1>3. Values[2] = Plain \cup Nested(Values[1])
  <2>1. Values[2] = Plain \cup Nested(Values[2 - 1])
    BY <1>1, ValuesIs
  <2> QED
    BY <1>1, <2>1
<1>4. Values[2] \subseteq Values[MaxDepth]
  BY <1>1, Deepest
<1>5. Ints \subseteq Plain
  BY DEF Plain
<1>6. Bytestring \subseteq Plain
  BY DEF Plain, Bytestring
<1>7. ASSUME NEW i \in 0..127 PROVE Name(i) \in Plain
  <2> DEFINE b == <<i>>
  <2>1. b \in Seq(Byte) /\ Len(b) = 1 /\ Utf8(b)
    <3>1. i \in Byte
      BY DEF Byte
    <3>2. Utf8(<<i>>)
      BY AsciiDecodes
    <3> QED
      BY <3>1, <3>2
  <2> HIDE DEF b
  <2>2. b \in Lists(Byte)
    <3>1. Len(b) <= MaxLength
      BY <2>1 DEF MaxLength
    <3> QED
      BY <2>1, <3>1 DEF Lists
  <2>3. <<"text", b>> \in Plain
    BY <2>1, <2>2 DEF Plain
  <2> QED
    BY <2>3 DEF b, Name
<1> QED
  BY <1>2, <1>3, <1>4, <1>5, <1>6, <1>7

\* A bytes value of one byte, or none.
LEMMA ByteValue ==
  /\ <<"bytes", <<>>>> \in Bytestring
  /\ \A b \in Byte : <<"bytes", <<b>>>> \in Bytestring
<1>1. <<>> \in Lists(Byte)
  BY DEF Lists, MaxLength
<1>2. ASSUME NEW b \in Byte PROVE <<b>> \in Lists(Byte)
  BY DEF Lists, MaxLength
<1> QED
  BY <1>1, <1>2 DEF Bytestring

\* The fields that every document has.
LEMMA FixedAre ==
  ASSUME NEW call \in Accepted
  PROVE  /\ Fixed(call) \in Seq(Names \X Values[1]) /\ Len(Fixed(call)) = 6
         /\ \A k \in 1..6 : Fixed(call)[k][1] = Name(k)
         /\ Fixed(call)[1][2] = Name(10) /\ Fixed(call)[2][2] = GivenTime(call)
         /\ Fixed(call)[3][2] = Name(11) /\ Fixed(call)[4][2] = <<"dict", GivenPcrs(call)>>
<1> DEFINE V == Values[1]
<1>1. Plain \subseteq V /\ Nested(Plain) \subseteq V
  BY FirstLevels
<1>2. Name(10) \in V /\ Name(11) \in V
  BY <1>1, FirstLevels
<1>3. GivenTime(call) \in V
  <2>1. GivenTime(call) \in Ints
    BY AttestationAssumption DEF GivenTime, Accepted, Calls
  <2> QED
    BY <1>1, <2>1, FirstLevels
<1>4. <<"dict", GivenPcrs(call)>> \in V
  <2> DEFINE p == GivenPcrs(call)
  <2>1. p \in Dicts(Ints, Bytestring) /\ Len(p) <= MaxLength
    BY PcrsGiven
  <2> HIDE DEF p
  <2>2. p \in Seq(Ints \X Bytestring) /\ Keyed(p)
    BY <2>1 DEF Dicts
  <2>3. p \in Seq(Plain \X Plain)
    <3>1. Ints \X Bytestring \subseteq Plain \X Plain
      BY FirstLevels
    <3> QED
      BY <2>2, <3>1
  <2>4. <<"dict", p>> \in Nested(Plain)
    BY <2>1, <2>2, <2>3 DEF Nested, Lists
  <2> QED
    BY <1>1, <2>4 DEF p
<1>5. <<"bytes", <<1>>>> \in V /\ <<"bytes", <<2>>>> \in Plain
  <2>1. 1 \in Byte /\ 2 \in Byte
    BY DEF Byte
  <2> QED
    BY <1>1, <2>1, ByteValue, FirstLevels
<1>6. <<"list", <<<<"bytes", <<2>>>>>>>> \in V
  <2> DEFINE b == <<"bytes", <<2>>>>
  <2>1. b \in Plain
    BY <1>5
  <2> HIDE DEF b
  <2>2. <<b>> \in Lists(Plain)
    BY <2>1 DEF Lists, MaxLength
  <2>3. <<"list", <<b>>>> \in Nested(Plain)
    BY <2>2 DEF Nested
  <2> QED
    BY <1>1, <2>3 DEF b
<1>7. /\ ModuleId = Name(1) /\ Timestamp = Name(2) /\ Digest = Name(3) /\ PcrMap = Name(4)
      /\ Certificate = Name(5) /\ CaBundle = Name(6)
  BY DEF ModuleId, Timestamp, Digest, PcrMap, Certificate, CaBundle
<1>8. \A k \in 1..6 : Name(k) \in Names
  BY DEF Names
<1> DEFINE t == GivenTime(call)
           p == <<"dict", GivenPcrs(call)>>
           c == <<"bytes", <<1>>>>
           l == <<"list", <<<<"bytes", <<2>>>>>>>>
<1>9. Fixed(call) = <<<<Name(1), Name(10)>>, <<Name(2), t>>, <<Name(3), Name(11)>>,
                      <<Name(4), p>>, <<Name(5), c>>, <<Name(6), l>>>>
  BY <1>7, Zenon DEF Fixed
<1>10. t \in V /\ p \in V /\ c \in V /\ l \in V
  BY <1>3, <1>4, <1>5, <1>6
<1> HIDE DEF V, t, p, c, l
<1> DEFINE f == Fixed(call)
<1>11. /\ f = <<f[1], f[2], f[3], f[4], f[5], f[6]>>
       /\ f[1] = <<Name(1), Name(10)>> /\ f[2] = <<Name(2), t>> /\ f[3] = <<Name(3), Name(11)>>
       /\ f[4] = <<Name(4), p>> /\ f[5] = <<Name(5), c>> /\ f[6] = <<Name(6), l>>
  BY <1>9
<1>12. /\ f[1] \in Names \X V /\ f[2] \in Names \X V /\ f[3] \in Names \X V
       /\ f[4] \in Names \X V /\ f[5] \in Names \X V /\ f[6] \in Names \X V
  <2>1. /\ Name(1) \in Names /\ Name(2) \in Names /\ Name(3) \in Names
        /\ Name(4) \in Names /\ Name(5) \in Names /\ Name(6) \in Names
    BY <1>8
  <2> QED
    BY <1>2, <1>10, <1>11, <2>1
<1>13. f \in Seq(Names \X V) /\ Len(f) = 6
  <2> DEFINE S == Names \X V
             f1 == f[1]
             f2 == f[2]
             f3 == f[3]
             f4 == f[4]
             f5 == f[5]
             f6 == f[6]
  <2>1. /\ f1 \in S /\ f2 \in S /\ f3 \in S /\ f4 \in S /\ f5 \in S /\ f6 \in S
        /\ f = <<f1, f2, f3, f4, f5, f6>>
    BY <1>11, <1>12
  <2> HIDE DEF S, f1, f2, f3, f4, f5, f6, f
  <2>2. f \in Seq(S) /\ Len(f) = 6
    BY <2>1
  <2> QED
    BY <2>2 DEF S
<1>14. \A k \in 1..6 : f[k][1] = Name(k)
  <2>1. \A k \in 1..6 : k = 1 \/ k = 2 \/ k = 3 \/ k = 4 \/ k = 5 \/ k = 6
    OBVIOUS
  <2>2. /\ f[1][1] = Name(1) /\ f[2][1] = Name(2) /\ f[3][1] = Name(3)
        /\ f[4][1] = Name(4) /\ f[5][1] = Name(5) /\ f[6][1] = Name(6)
    BY <1>11
  <2> HIDE DEF f
  <2> QED
    BY <2>1, <2>2
<1>15. f[1][2] = Name(10) /\ f[2][2] = t /\ f[3][2] = Name(11) /\ f[4][2] = p
  BY <1>11
<1> QED
  BY <1>13, <1>14, <1>15 DEF V, t, p

\* What the dict of a document holds, by name.
LEMMA PayloadHas ==
  ASSUME NEW call \in Accepted
  PROVE  LET d == Fixed(call) \o Optionals(call)
         IN  /\ d \in Seq(Names \X Values[1]) /\ Len(d) <= 9 /\ Distinct(d)
             /\ Get(d, ModuleId) = Name(10) /\ Get(d, Timestamp) = GivenTime(call)
             /\ Get(d, Digest) = Name(11) /\ Get(d, PcrMap) = <<"dict", GivenPcrs(call)>>
             /\ \A i \in 1..3 : Get(d, Optional[i]) = call.fields[i]
<1> DEFINE a == Fixed(call)
           b == Optionals(call)
           d == a \o b
           S == Names \X Values[1]
<1>1. /\ a \in Seq(S) /\ Len(a) = 6 /\ \A k \in 1..6 : a[k][1] = Name(k)
      /\ a[1][2] = Name(10) /\ a[2][2] = GivenTime(call)
      /\ a[3][2] = Name(11) /\ a[4][2] = <<"dict", GivenPcrs(call)>>
  BY FixedAre
<1>2. /\ b \in Seq(Names \X Bytestring) /\ Len(b) <= 3 /\ Distinct(b)
      /\ \A name : Has(b, name) => \E i \in 1..3 : name = Name(6 + i)
      /\ \A i \in 1..3 : Get(b, Name(6 + i)) = call.fields[i]
  BY OptionalsAre
<1> HIDE DEF a, b
<1>3. b \in Seq(S)
  <2>1. Bytestring \subseteq Values[1]
    BY FirstLevels
  <2>2. Names \X Bytestring \subseteq S
    BY <2>1
  <2> HIDE DEF S
  <2> QED
    BY <1>2, <2>2
<1> HIDE DEF S
<1>4. Distinct(a)
  <2>1. \A k, l \in 1..6 : Name(k) = Name(l) => k = l
    BY NameIs
  <2> QED
    BY <1>1, <2>1 DEF Distinct
<1>5. ASSUME NEW name, Has(a, name), Has(b, name) PROVE FALSE
  <2>1. PICK k \in 1..6 : name = Name(k)
    BY <1>1, <1>5 DEF Has
  <2>2. PICK i \in 1..3 : name = Name(6 + i)
    BY <1>2, <1>5
  <2>3. k = 6 + i
    <3>1. k \in Nat /\ 6 + i \in Nat
      OBVIOUS
    <3> QED
      BY <2>1, <2>2, <3>1, NameIs
  <2> QED
    BY <2>3
<1>6. /\ Distinct(d)
      /\ \A name : /\ Has(a, name) => Get(d, name) = Get(a, name)
                   /\ ~Has(a, name) => Get(d, name) = Get(b, name)
                   /\ Has(d, name) <=> Has(a, name) \/ Has(b, name)
  <2>1. \A i \in 1..Len(a), j \in 1..Len(b) : a[i][1] # b[j][1]
    BY <1>5 DEF Has
  <2> QED
    BY <1>1, <1>2, <1>3, <1>4, <2>1, GetJoined
<1>7. d \in Seq(S) /\ Len(d) <= 9
  <2>1. a \in Seq(S) /\ Len(a) = 6 /\ Len(b) <= 3
    BY <1>1, <1>2
  <2>2. d \in Seq(S) /\ Len(d) = Len(a) + Len(b) /\ Len(b) \in Nat
    <3>1. \A x, y \in Seq(S) : x \o y \in Seq(S) /\ Len(x \o y) = Len(x) + Len(y) /\ Len(y) \in Nat
      OBVIOUS
    <3>2. b \in Seq(S)
      BY <1>3
    <3> QED
      BY <2>1, <3>1, <3>2, Zenon
  <2> HIDE DEF d
  <2> QED
    BY <2>1, <2>2
<1> HIDE DEF d
<1>8. ASSUME NEW k \in 1..6 PROVE Get(d, Name(k)) = a[k][2]
  <2>1. k \in 1..Len(a) /\ a[k][1] = Name(k)
    BY <1>1
  <2>2. Get(a, a[k][1]) = a[k][2] /\ Has(a, a[k][1])
    BY <1>4, <2>1, GetIs
  <2> QED
    BY <1>6, <2>1, <2>2
<1>9. /\ Get(d, Name(1)) = Name(10) /\ Get(d, Name(2)) = GivenTime(call)
      /\ Get(d, Name(3)) = Name(11) /\ Get(d, Name(4)) = <<"dict", GivenPcrs(call)>>
  <2>1. 1 \in 1..6 /\ 2 \in 1..6 /\ 3 \in 1..6 /\ 4 \in 1..6
    OBVIOUS
  <2> QED
    BY <1>1, <1>8, <2>1, Zenon
<1>10. ASSUME NEW i \in 1..3 PROVE Get(d, Optional[i]) = call.fields[i]
  <2>1. Optional[i] = Name(6 + i)
    BY GivenIs
  <2>2. ~Has(a, Name(6 + i))
    <3> SUFFICES ASSUME NEW k \in 1..6, Name(k) = Name(6 + i) PROVE FALSE
      BY <1>1 DEF Has
    <3>1. k \in Nat /\ 6 + i \in Nat /\ k # 6 + i
      OBVIOUS
    <3> QED
      BY <3>1, NameIs
  <2>3. Get(b, Name(6 + i)) = call.fields[i]
    BY <1>2
  <2>4. Get(d, Name(6 + i)) = Get(b, Name(6 + i))
    BY <1>6, <2>2
  <2> QED
    BY <2>1, <2>3, <2>4
<1>11. ModuleId = Name(1) /\ Timestamp = Name(2) /\ Digest = Name(3) /\ PcrMap = Name(4)
  BY DEF ModuleId, Timestamp, Digest, PcrMap
<1> QED
  BY <1>6, <1>7, <1>9, <1>10, <1>11 DEF d, a, b, S

\* What MockNSM issues is a value of the codec, and so is the COSE_Sign1 list around it.
LEMMA IssuedValues ==
  ASSUME NEW call \in Accepted
  PROVE  Payload(call) \in Values[MaxDepth] /\ CoseSign1(Payload(call)) \in Values[MaxDepth]
<1> DEFINE d == Fixed(call) \o Optionals(call)
           V == Values[1]
           p == Payload(call)
           e == Encode(p)
<1>1. p = <<"dict", d>>
  BY DEF Payload, Fixed, Optionals
<1>2. d \in Seq(Names \X V) /\ Len(d) <= 9 /\ Distinct(d)
  BY PayloadHas
<1> HIDE DEF d
<1>3. Names \subseteq V
  <2>1. \A i \in 1..9 : i \in 0..127
    OBVIOUS
  <2> QED
    BY <2>1, FirstLevels DEF Names
<1>4. \A k \in Names : k[1] = "text"
  BY DEF Names, Name
<1>5. d \in Lists(V \X V)
  <2>1. d \in Seq(V \X V)
    BY <1>2, <1>3
  <2>2. Len(d) <= MaxLength
    <3>1. Len(d) \in Nat
      BY <1>2
    <3> QED
      BY <1>2, <3>1 DEF MaxLength
  <2> QED
    BY <2>1, <2>2 DEF Lists
<1>6. Keyed(d)
  <2>1. \A i \in 1..Len(d) : d[i][1] \in Names
    <3>1. \A i \in 1..Len(d) : d[i] \in Names \X V
      BY <1>2
    <3> QED
      BY <3>1
  <2>2. ASSUME NEW i \in 1..Len(d), NEW j \in 1..Len(d), SameKey(d[i][1], d[j][1])
        PROVE  i = j
    <3>1. d[i][1][1] # "bool" /\ d[j][1][1] # "bool"
      BY <1>4, <2>1
    <3>2. d[i][1] = d[j][1]
      BY <2>2, <3>1, SameKeyIs
    <3> QED
      BY <1>2, <3>2 DEF Distinct
  <2> QED
    BY <1>4, <2>1, <2>2 DEF Keyed
<1>7. p \in Values[MaxDepth]
  <2>1. <<"dict", d>> \in Nested(V)
    BY <1>5, <1>6 DEF Nested
  <2> QED
    BY <1>1, <2>1, FirstLevels
<1> HIDE DEF p
<1>8. <<"bytes", e>> \in V
  <2>1. e \in Seq(Byte)
    BY <1>7, RoundTrip
  <2>2. Len(e) <= MaxLength
    BY DocumentAssumption DEF p
  <2> HIDE DEF e
  <2>3. <<"bytes", e>> \in Bytestring
    BY <2>1, <2>2 DEF Bytestring, Lists
  <2> QED
    BY <2>3, FirstLevels
<1> DEFINE b0 == <<"bytes", <<>>>>
           d0 == <<"dict", <<>>>>
           b1 == <<"bytes", e>>
           b3 == <<"bytes", <<3>>>>
<1>9. b0 \in V /\ b3 \in V
  <2>1. 3 \in Byte
    BY DEF Byte
  <2>2. b0 \in Bytestring /\ b3 \in Bytestring
    BY <2>1, ByteValue
  <2> QED
    BY <2>2, FirstLevels
<1>10. d0 \in V
  <2>1. <<>> \in Lists(Plain \X Plain) /\ Keyed(<<>>)
    BY DEF Lists, MaxLength, Keyed
  <2>2. d0 \in Nested(Plain)
    BY <2>1 DEF Nested
  <2> QED
    BY <2>2, FirstLevels
<1>11. CoseSign1(p) = <<"list", <<b0, d0, b1, b3>>>>
  BY DEF CoseSign1
<1> HIDE DEF b0, d0, b1, b3, V
<1>12. <<b0, d0, b1, b3>> \in Lists(V)
  <2>1. <<b0, d0, b1, b3>> \in Seq(V) /\ Len(<<b0, d0, b1, b3>>) = 4
    BY <1>8, <1>9, <1>10 DEF b1
  <2>2. 4 <= MaxLength
    BY DEF MaxLength
  <2> QED
    BY <2>1, <2>2 DEF Lists
<1>13. CoseSign1(p) \in Values[MaxDepth]
  <2>1. CoseSign1(p) \in Nested(V)
    BY <1>11, <1>12 DEF Nested
  <2> QED
    BY <2>1, FirstLevels DEF V
<1> QED
  BY <1>7, <1>13 DEF p

\* The document of MockNSM decodes to the list and then to the dict that it issued.
LEMMA IssuedDecoded ==
  ASSUME NEW call \in Accepted
  PROVE  /\ CborDecode(MockDocument(call)) = Done(CoseSign1(Payload(call)), 0)
         /\ CborDecode(Encode(Payload(call))) = Done(Payload(call), 0)
BY IssuedValues, RoundTrip DEF MockDocument

\* And is parsed to what the mock was given (attestation.py:271-320).
LEMMA IssuedParsed ==
  ASSUME NEW call \in Accepted
  PROVE  Parse(CborDecode(MockDocument(call))) =
           [error |-> "none", cose |-> TRUE, time |-> GivenTime(call), pcrs |-> GivenPcrs(call),
            fields |-> [i \in 1..3 |-> call.fields[i]]]
<1> DEFINE v == CoseSign1(Payload(call))
           outer == Done(v, 0)
           inner == Done(Payload(call), 0)
           d == Fixed(call) \o Optionals(call)
<1>1. CborDecode(MockDocument(call)) = outer
  BY IssuedDecoded
<1>2. v[1] = "list" /\ Len(v[2]) = 4 /\ v[2][3] = <<"bytes", Encode(Payload(call))>>
  BY DEF CoseSign1
<1>3. outer.error = "none" /\ outer.value = v
  BY DEF Done
<1>4. Wrapped(outer.value)
  BY <1>2, <1>3 DEF Wrapped
<1>5. CborDecode(outer.value[2][3][2]) = inner
  <2>1. outer.value[2][3][2] = Encode(Payload(call))
    BY <1>2, <1>3
  <2> QED
    BY <2>1, IssuedDecoded
<1>6. inner.error = "none" /\ inner.value[1] = "dict" /\ inner.value[2] = d
  BY DEF Done, Payload, Fixed, Optionals
<1>7. /\ Get(d, ModuleId) = Name(10) /\ Get(d, Timestamp) = GivenTime(call)
      /\ Get(d, Digest) = Name(11) /\ Get(d, PcrMap) = <<"dict", GivenPcrs(call)>>
      /\ \A i \in 1..3 : Get(d, Optional[i]) = call.fields[i]
  BY PayloadHas
<1> HIDE DEF v, outer, inner, d
<1>8. WellFormed(d)
  <2>1. Get(d, ModuleId)[1] = "text" /\ Get(d, Digest)[1] = "text"
    BY <1>7 DEF Name
  <2>2. Get(d, Timestamp)[1] \in {"int", "bool"}
    <3>1. GivenTime(call) \in Ints
      BY AttestationAssumption DEF GivenTime, Accepted, Calls
    <3> QED
      BY <1>7, <3>1 DEF Ints
  <2>3. Get(d, PcrMap)[1] = "dict" /\ Get(d, PcrMap)[2] = GivenPcrs(call)
    BY <1>7
  <2>4. ASSUME NEW i \in 1..Len(GivenPcrs(call))
        PROVE  /\ GivenPcrs(call)[i][1][1] \in {"int", "bool"}
               /\ GivenPcrs(call)[i][2][1] = "bytes"
    <3>1. GivenPcrs(call)[i][1] \in Ints /\ GivenPcrs(call)[i][2] \in Bytestring
      BY PcrsGiven, DictDistinct
    <3> QED
      BY <3>1 DEF Ints, Bytestring
  <2>5. ASSUME NEW i \in 1..3 PROVE Get(d, Optional[i])[1] \in {"bytes", "none"}
    <3>1. call.fields[i] = None \/ call.fields[i] \in Bytestring
      BY GivenIs
    <3> QED
      BY <1>7, <3>1 DEF None, Bytestring
  <2> QED
    BY <2>1, <2>2, <2>3, <2>4, <2>5 DEF WellFormed
<1>9. Parse(outer) = [error |-> "none", cose |-> TRUE, time |-> Get(d, Timestamp),
                      pcrs |-> Get(d, PcrMap)[2], fields |-> [i \in 1..3 |-> Get(d, Optional[i])]]
  <2> DEFINE cose == outer.error = "none" /\ Wrapped(outer.value)
             in == IF cose THEN CborDecode(outer.value[2][3][2]) ELSE outer
             dict == in.value[2]
  <2>1. cose = TRUE
    BY <1>3, <1>4, Zenon
  <2>2. in = inner
    BY <1>3, <1>4, <1>5, Zenon
  <2>3. Parse(outer) =
          IF in.error # "none" THEN Fail(in.error)
          ELSE IF in.value[1] # "dict" \/ ~WellFormed(dict) THEN Fail("AttestationError")
          ELSE [error |-> "none", cose |-> cose, time |-> Get(dict, Timestamp),
                pcrs |-> Get(dict, PcrMap)[2],
                fields |-> [i \in 1..3 |-> Get(dict, Optional[i])]]
    BY Zenon DEF Parse
  <2> HIDE DEF cose, in
  <2>4. dict = d
    BY <1>6, <2>2
  <2> HIDE DEF dict
  <2> QED
    BY <1>6, <1>8, <2>1, <2>2, <2>3, <2>4, Zenon
<1>10. Get(d, PcrMap)[2] = GivenPcrs(call)
  BY <1>7
<1>11. [i \in 1..3 |-> Get(d, Optional[i])] = [i \in 1..3 |-> call.fields[i]]
  BY <1>7
<1> QED
  BY <1>1, <1>7, <1>9, <1>10, <1>11, Zenon

-----------------------------------------------------------------------------
(* Reencoded and IssuedReadBack *)

\* The inductive invariant: what was decoded and parsed is the document, which is short, or
\* one that MockNSM issued.
DocumentInv ==
  /\ decoded = CborDecode(document) /\ parsed = Parse(decoded)
  /\ \/ issued = NotIssued /\ document \in Seq(Byte) /\ Len(document) <= MaxBytes
     \/ issued \in Accepted /\ document = MockDocument(issued)

\* Every document is one or the other.
LEMMA DocumentInductive == Spec => []DocumentInv
<1>1. Init => DocumentInv
  <2>1. <<>> \in Seq(Byte) /\ Len(<<>>) <= MaxBytes
    BY AttestationAssumption
  <2> QED
    BY <2>1 DEF Init, DocumentInv
<1>2. ASSUME NEW call \in Calls PROVE call # NotIssued
  <2>1. DOMAIN call = {"pcrs", "time", "fields"}
    BY DEF Calls
  <2>2. DOMAIN NotIssued = {"pcrs"}
    BY DEF NotIssued
  <2> QED
    BY <2>1, <2>2
<1>3. ASSUME DocumentInv, NEW byte \in Alphabet, Extend(byte) PROVE DocumentInv'
  <2>1. issued = NotIssued /\ document \in Seq(Byte) /\ byte \in Byte /\ Len(document) < MaxBytes
    BY <1>2, <1>3, AttestationAssumption DEF DocumentInv, Extend, Accepted
  <2>2. Append(document, byte) \in Seq(Byte) /\ Len(Append(document, byte)) <= MaxBytes
    BY <2>1, AttestationAssumption
  <2>3. /\ document' = Append(document, byte) /\ issued' = NotIssued
        /\ decoded' = CborDecode(document') /\ parsed' = Parse(decoded')
    BY <1>3, <2>1 DEF Extend, Take
  <2> QED
    BY <2>2, <2>3 DEF DocumentInv
<1>4. ASSUME NEW call \in Calls, Issue(call) PROVE DocumentInv'
  <2>1. /\ document' = MockDocument(call) /\ issued' = call /\ call \in Accepted
        /\ decoded' = CborDecode(document') /\ parsed' = Parse(decoded')
    BY <1>4 DEF Issue, Take, Accepted
  <2> QED
    BY <2>1 DEF DocumentInv
<1>5. DocumentInv /\ [Next]_vars => DocumentInv'
  <2> SUFFICES ASSUME DocumentInv, [Next]_vars PROVE DocumentInv'
    OBVIOUS
  <2>1. CASE Next
    BY <1>3, <1>4, <2>1 DEF Next
  <2>2. CASE UNCHANGED vars
    BY <2>2 DEF vars, DocumentInv
  <2> QED
    BY <2>1, <2>2
<1> QED
  BY <1>1, <1>5, PTL DEF Spec

\* What a document decodes to is a value of the codec, and its encoding is not longer.
LEMMA DocumentFits ==
  ASSUME DocumentInv, decoded.error = "none"
  PROVE  LET v == decoded.value
         IN  /\ decoded = Done(v, 0) /\ v \in Values[MaxDepth]
             /\ Len(Encode(v)) <= Len(document)
<1>1. CASE issued = NotIssued /\ document \in Seq(Byte) /\ Len(document) <= MaxBytes
  <2>1. Short(document)
    <3>1. /\ Len(document) \in Nat /\ MaxDepth \in Nat /\ MaxLength \in Nat /\ MaxBytes \in Nat
          /\ MaxBytes <= MaxDepth /\ MaxBytes <= MaxLength
      BY <1>1, DepthAssumption, AttestationAssumption DEF MaxLength
    <3>2. Len(document) <= MaxDepth /\ Len(document) <= MaxLength
      BY <1>1, <3>1
    <3> QED
      BY <1>1, <3>2 DEF Short
  <2>2. decoded = CborDecode(document)
    BY DEF DocumentInv
  <2> QED
    BY <2>1, <2>2, DecodedFits
<1>2. CASE issued \in Accepted /\ document = MockDocument(issued)
  <2> DEFINE v == CoseSign1(Payload(issued))
  <2>1. v \in Values[MaxDepth] /\ document = Encode(v) /\ decoded = Done(v, 0)
    BY <1>2, IssuedValues, IssuedDecoded DEF DocumentInv, MockDocument
  <2> HIDE DEF v
  <2>2. decoded.value = v
    BY <2>1 DEF Done
  <2>3. Len(Encode(v)) \in Nat
    BY <2>1, RoundTrip
  <2> QED
    BY <2>1, <2>2, <2>3
<1> QED
  BY <1>1, <1>2 DEF DocumentInv

\* What the decoder accepts, the encoder writes back to a string that decodes to the same
\* value and is no longer, for every string as long as MaxBytes and every document of MockNSM
\* (attestation.py:335-356, 484-502 against 378-416, 440-462).
THEOREM DecodedReencoded == Spec => []Reencoded
<1>1. DocumentInv => Reencoded
  BY DocumentFits, RoundTrip DEF Reencoded
<1> QED
  BY <1>1, DocumentInductive, PTL

\* verify_attestation_document reads from a document of MockNSM what the mock was given,
\* through both encodings, for every call that the mock does not refuse: by the number that
\* int() makes of each index, the bytes of the last item with it, and PCR 0 of the
\* environment when no pcrs are given (attestation.py:168-208, 224-255, 271-320).
THEOREM IssuedIsReadBack == Spec => []IssuedReadBack
<1>1. ASSUME DocumentInv, issued # NotIssued
      PROVE  /\ parsed.error = "none" /\ parsed.cose
             /\ parsed.time = (IF issued.time \in {None, IntOf(0)} THEN Now ELSE issued.time)
             /\ parsed.fields = issued.fields
             /\ LET items == GivenItems(issued)
                IN  \A i \in 1..Len(items) :
                      LET number == IndexOf(items[i].index)
                          last == Max({j \in 1..Len(items) : IndexOf(items[j].index) = number})
                      IN  Get(parsed.pcrs, number) = BytesOf(items[last].value)
  <2>1. issued \in Accepted /\ parsed = Parse(CborDecode(MockDocument(issued)))
    BY <1>1 DEF DocumentInv
  <2>2. parsed = [error |-> "none", cose |-> TRUE, time |-> GivenTime(issued),
                  pcrs |-> GivenPcrs(issued), fields |-> [i \in 1..3 |-> issued.fields[i]]]
    BY <2>1, IssuedParsed
  <2>3. /\ parsed.error = "none" /\ parsed.cose = TRUE /\ parsed.time = GivenTime(issued)
        /\ parsed.pcrs = GivenPcrs(issued) /\ parsed.fields = [i \in 1..3 |-> issued.fields[i]]
    BY <2>2
  <2>4. issued.fields = [i \in 1..3 |-> issued.fields[i]]
    BY <2>1 DEF Accepted, Calls
  <2>5. LET items == GivenItems(issued)
        IN  \A i \in 1..Len(items) :
              LET number == IndexOf(items[i].index)
                  last == Max({j \in 1..Len(items) : IndexOf(items[j].index) = number})
              IN  Get(GivenPcrs(issued), number) = BytesOf(items[last].value)
    BY <2>1, PcrsGiven, Zenon
  <2>6. parsed.time = (IF issued.time \in {None, IntOf(0)} THEN Now ELSE issued.time)
    BY <2>3 DEF GivenTime
  <2>7. parsed.error = "none" /\ parsed.cose /\ parsed.fields = issued.fields
    BY <2>3, <2>4, Zenon
  <2> QED
    BY <2>3, <2>5, <2>6, <2>7, Zenon
<1>2. DocumentInv => IssuedReadBack
  BY <1>1, Zenon DEF IssuedReadBack
<1> QED
  BY <1>2, DocumentInductive, PTL
=============================================================================
