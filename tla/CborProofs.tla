----------------------------- MODULE CborProofs -----------------------------
(***************************************************************************)
(* Proofs about the codec.  Induction is used throughout in the form of    *)
(* the least number principle, with a set of numbers in the place of a     *)
(* predicate.                                                              *)
(***************************************************************************)
EXTENDS Cbor, WellFoundedInduction, TLAPS

\* A set of natural numbers that has an element has a least one.
LEMMA Least ==
  ASSUME NEW S \in SUBSET Nat, S # {}
  PROVE  \E n \in S : \A m \in S : n <= m
<1> DEFINE R == OpToRel(<, Nat)
<1>1. \E n \in S : \A m \in S : <<m, n>> \notin R
  <2>1. IsWellFoundedOn(R, Nat)
    BY NatLessThanWellFounded, Zenon
  <2> HIDE DEF R
  <2> QED
    BY <2>1, WFMin
<1>2. PICK n \in S : \A m \in S : <<m, n>> \notin R
  BY <1>1
<1>3. ASSUME NEW m \in S PROVE n <= m
  <2>1. m \in Nat /\ n \in Nat
    OBVIOUS
  <2>2. m < n => <<m, n>> \in R
    BY <2>1 DEF OpToRel
  <2> HIDE DEF R
  <2> QED
    BY <1>2, <2>1, <2>2
<1> QED
  BY <1>2, <1>3

\* Induction from m down.
LEMMA Downward ==
  ASSUME NEW m \in Nat, NEW S, m \in S,
         \A n \in 0..(m - 1) : n + 1 \in S => n \in S
  PROVE  \A n \in 0..m : n \in S
<1> DEFINE T == {k \in 0..m : m - k \notin S}
<1> SUFFICES ASSUME T # {} PROVE FALSE
  <2>1. ASSUME NEW n \in 0..m, n \notin S PROVE m - n \in T
    BY <2>1
  <2> QED
    BY <2>1
<1>1. PICK k \in T : \A j \in T : k <= j
  <2>1. T \in SUBSET Nat
    OBVIOUS
  <2> HIDE DEF T
  <2> QED
    BY <2>1, Least
<1>2. k \in 1..m
  BY <1>1
<1>3. k - 1 \notin T /\ k - 1 \in 0..m
  BY <1>1, <1>2
<1>4. m - (k - 1) \in S
  BY <1>3
<1>5. m - k \in 0..(m - 1) /\ m - (k - 1) = (m - k) + 1
  BY <1>2
<1> QED
  BY <1>1, <1>4, <1>5

\* Where a reader that began at offset i leaves off.
Forward(r, i) == r.error = "none" => r.next \in Nat /\ r.next >= i
Decent(later, i) == \A t \in Tasks : t[3] >= i => Forward(later[t], t[3])

\* _read returns what it was asked for and moves on by as much
\* (attestation.py:433-438).
LEMMA ReadForward ==
  ASSUME NEW s \in Seq(Byte), NEW n \in Nat, NEW i \in Nat
  PROVE  /\ Forward(Read(s, n, i), i)
         /\ Read(s, n, i).error = "none" => /\ Read(s, n, i).value \in Seq(Byte)
                                            /\ Len(Read(s, n, i).value) = n
                                            /\ Read(s, n, i).next = i + n
BY DEF Read, Done, Raise, Forward

\* Padding with zeros leaves bytes.
LEMMA PaddedByte ==
  ASSUME NEW m \in Seq(Byte), NEW n \in Nat, NEW i \in 1..n
  PROVE  Padded(m, n)[i] \in Byte
<1>1. Len(m) \in Nat /\ DOMAIN m = 1..Len(m) /\ \A j \in 1..Len(m) : m[j] \in Byte
  OBVIOUS
<1>2. CASE i + Len(m) <= n
  BY <1>1, <1>2 DEF Padded, Byte
<1>3. CASE ~(i + Len(m) <= n)
  <2>1. i + Len(m) - n \in 1..Len(m)
    BY <1>1, <1>3
  <2> QED
    BY <1>1, <1>3, <2>1 DEF Padded
<1> QED
  BY <1>2, <1>3

\* int.from_bytes is a natural number.
LEMMA NumberType ==
  ASSUME NEW m \in Seq(Byte)
  PROVE  NumberOf(m) \in Nat
<1> DEFINE p == Padded(m, 8)
<1>1. ASSUME NEW i \in 1..8 PROVE p[i] \in Nat
  <2>1. p[i] \in Byte
    BY PaddedByte
  <2>2. \A b \in Byte : b \in Nat
    BY DEF Byte
  <2> QED
    BY <2>1, <2>2
<1>2. NumberOf(m) = 256 * (256 * (256 * (256 * (256 * (256 * (256 * p[1] + p[2])
                      + p[3]) + p[4]) + p[5]) + p[6]) + p[7]) + p[8]
  BY DEF NumberOf
<1> HIDE DEF p
<1>3. ASSUME NEW a \in Nat, NEW i \in 1..8 PROVE 256 * a + p[i] \in Nat
  <2>1. p[i] \in Nat
    BY <1>1
  <2> QED
    BY <2>1
<1>4. 256 * p[1] + p[2] \in Nat
  BY <1>1, <1>3, SMTT(60)
<1>5. 256 * (256 * p[1] + p[2]) + p[3] \in Nat
  BY <1>3, <1>4
<1>6. 256 * (256 * (256 * p[1] + p[2]) + p[3]) + p[4] \in Nat
  BY <1>3, <1>5
<1>7. 256 * (256 * (256 * (256 * p[1] + p[2]) + p[3]) + p[4]) + p[5] \in Nat
  BY <1>3, <1>6
<1>8. 256 * (256 * (256 * (256 * (256 * p[1] + p[2]) + p[3]) + p[4]) + p[5]) + p[6] \in Nat
  BY <1>3, <1>7
<1>9. 256 * (256 * (256 * (256 * (256 * (256 * p[1] + p[2]) + p[3]) + p[4]) + p[5]) + p[6]) + p[7]
        \in Nat
  BY <1>3, <1>8
<1> QED
  BY <1>2, <1>3, <1>9

\* int.to_bytes yields bytes.
LEMMA MagnitudeType ==
  ASSUME NEW n \in Nat, n < 65536 * 65536
  PROVE  Magnitude(n) \in Seq(Byte)
<1>1. n % 256 \in Byte /\ (n \div 256) % 256 \in Byte /\ (n \div 65536) % 256 \in Byte
  BY DEF Byte
<1>2. /\ n < 65536 => n \div 256 \in Byte
      /\ n < 16777216 => n \div 65536 \in Byte
      /\ n \div 16777216 \in Byte
      /\ n < 256 => n \in Byte
  BY DEF Byte
<1>3. /\ <<>> \in Seq(Byte)
      /\ \A a \in Byte : <<a>> \in Seq(Byte)
      /\ \A a, b \in Byte : <<a, b>> \in Seq(Byte)
      /\ \A a, b, c \in Byte : <<a, b, c>> \in Seq(Byte)
      /\ \A a, b, c, d \in Byte : <<a, b, c, d>> \in Seq(Byte)
  OBVIOUS
<1>4. \/ Magnitude(n) = <<>>
      \/ n < 256 /\ Magnitude(n) = <<n>>
      \/ n < 65536 /\ Magnitude(n) = <<n \div 256, n % 256>>
      \/ n < 16777216 /\ Magnitude(n) = <<n \div 65536, (n \div 256) % 256, n % 256>>
      \/ Magnitude(n) =
            <<n \div 16777216, (n \div 65536) % 256, (n \div 256) % 256, n % 256>>
  BY SMTT(60) DEF Magnitude
<1>5. CASE Magnitude(n) = <<>>
  BY <1>3, <1>5
<1>6. CASE n < 256 /\ Magnitude(n) = <<n>>
  BY <1>2, <1>3, <1>6
<1>7. CASE n < 65536 /\ Magnitude(n) = <<n \div 256, n % 256>>
  BY <1>1, <1>2, <1>3, <1>7
<1>8. CASE n < 16777216 /\ Magnitude(n) = <<n \div 65536, (n \div 256) % 256, n % 256>>
  BY <1>1, <1>2, <1>3, <1>8
<1>9. CASE Magnitude(n) =
             <<n \div 16777216, (n \div 65536) % 256, (n \div 256) % 256, n % 256>>
  <2>1. /\ n \div 16777216 \in Byte /\ (n \div 65536) % 256 \in Byte
        /\ (n \div 256) % 256 \in Byte /\ n % 256 \in Byte
    BY <1>1, <1>2
  <2> QED
    BY <1>3, <1>9, <2>1
<1> QED
  BY <1>4, <1>5, <1>6, <1>7, <1>8, <1>9

\* Removing leading zeros leaves bytes.
LEMMA WithoutZerosType ==
  ASSUME NEW m \in Seq(Byte)
  PROVE  WithoutZeros(m) \in Seq(Byte)
<1>1. CASE \E i \in 1..Len(m) : m[i] # 0
  <2> DEFINE S == {i \in 1..Len(m) : m[i] # 0}
             First(i) == i \in 1..Len(m) /\ m[i] # 0 /\ \A j \in 1..i - 1 : m[j] = 0
  <2>1. \E i \in 1..Len(m) : m[i] # 0 /\ \A j \in 1..i - 1 : m[j] = 0
    <3>1. S \in SUBSET Nat /\ S # {}
      BY <1>1
    <3>2. PICK i \in S : \A j \in S : i <= j
      BY <3>1, Least
    <3>3. ASSUME NEW j \in 1..i - 1 PROVE m[j] = 0
      BY <3>2
    <3> QED
      BY <3>2, <3>3
  <2>2. PICK i \in 1..Len(m) : WithoutZeros(m) = SubSeq(m, i, Len(m))
    BY <1>1, <2>1 DEF WithoutZeros
  <2> QED
    BY <2>2
<1>2. CASE ~\E i \in 1..Len(m) : m[i] # 0
  BY <1>2 DEF WithoutZeros
<1> QED
  BY <1>1, <1>2

\* _read_length returns a number and never moves back (attestation.py:452-462).
LEMMA LengthForward ==
  ASSUME NEW s \in Seq(Byte), NEW info \in 0..31, NEW i \in Nat
  PROVE  /\ Forward(ReadLength(s, info, i), i)
         /\ ReadLength(s, info, i).error = "none" =>
                ReadLength(s, info, i).value \in Seq(Byte)
<1>1. CASE info < 24
  <2>1. info \in Nat /\ info < 65536 * 65536
    BY <1>1
  <2>2. Magnitude(info) \in Seq(Byte)
    BY <2>1, MagnitudeType
  <2>3. ReadLength(s, info, i) = Done(Magnitude(info), i)
    BY <1>1 DEF ReadLength
  <2> QED
    BY <2>2, <2>3 DEF Done, Forward
<1>2. CASE info \in 24..27
  <2>1. Width(info) \in Nat
    BY <1>2 DEF Width
  <2> DEFINE r == Read(s, Width(info), i)
  <2>2. Forward(r, i) /\ (r.error = "none" => r.value \in Seq(Byte))
    BY <2>1, ReadForward
  <2>3. ReadLength(s, info, i) =
            IF r.error = "none" THEN Done(WithoutZeros(r.value), r.next) ELSE r
    BY <1>2 DEF ReadLength, Then
  <2> HIDE DEF r
  <2> QED
    BY <2>2, <2>3, WithoutZerosType DEF Done, Forward
<1>3. CASE info \in 28..31
  <2>0. ~(info < 24) /\ info \notin 24..27
    BY <1>3
  <2>1. ReadLength(s, info, i) = Raise("AttestationError")
    BY <2>0, Zenon DEF ReadLength
  <2> QED
    BY <2>1 DEF Raise, Forward
<1> QED
  BY <1>1, <1>2, <1>3

\* The first byte of an item splits into type and additional information.
LEMMA ByteParts ==
  ASSUME NEW b \in Byte
  PROVE  b \div 32 \in 0..7 /\ b % 32 \in 0..31
BY DEF Byte

-----------------------------------------------------------------------------
(* One step of the decoder *)

\* The parts of decode: the type of an item, its additional information, the number in
\* its header, the bytes, items or value that follow.
Major(s, i) == s[i + 1] \div 32
Info(s, i) == s[i + 1] % 32
Size(s, i) == ReadLength(s, Info(s, i), i + 1)
Content(s, r) == IF r.error = "none" THEN Read(s, NumberOf(r.value), r.next) ELSE r
Several(later, what, r) ==
  IF r.error = "none" THEN later[<<what, NumberOf(r.value), r.next>>] ELSE r
Tagged(later, r) == IF r.error = "none" THEN later[<<"value", 1, r.next>>] ELSE r
Made(r, v) == IF r.error = "none" THEN Done(v, r.next) ELSE r

\* The value that next is, after a first byte and the length r.
Parts(s, later, i, r, next) ==
  LET c == Content(s, r)
      l == Several(later, "items", r)
      p == Several(later, "pairs", r)
  IN  /\ Major(s, i) \in {0, 1} => next = Made(r, <<"int", Major(s, i) = 1, r.value>>)
      /\ Major(s, i) = 2 => next = Made(c, <<"bytes", c.value>>)
      /\ Major(s, i) = 3 => next = IF c.error = "none" /\ ~Utf8(c.value)
                                   THEN Raise("UnicodeDecodeError")
                                   ELSE Made(c, <<"text", c.value>>)
      /\ Major(s, i) = 4 => next = Made(l, <<"list", l.value>>)
      /\ Major(s, i) = 5 => next = Made(p, <<"dict", Assigned(p.value)>>)
      /\ Major(s, i) = 6 => next = Tagged(later, r)
      /\ Major(s, i) = 7 => /\ Info(s, i) = 20 => next = Done(<<"bool", FALSE>>, i + 1)
                            /\ Info(s, i) = 21 => next = Done(<<"bool", TRUE>>, i + 1)
                            /\ Info(s, i) = 22 => next = Done(None, i + 1)
                            /\ Info(s, i) \notin 20..22 => next = Raise("AttestationError")

\* decode returns, by the type of the item, one of the forms of Parts
\* (attestation.py:375-419).
LEMMA NextParts ==
  ASSUME NEW s, NEW later, NEW i, ~(i >= Len(s))
  PROVE  Parts(s, later, i, Size(s, i), DecodeNext(s, later, i))
<1> DEFINE r == Size(s, i)
           c == Content(s, r)
           l == Several(later, "items", r)
           p == Several(later, "pairs", r)
           next == DecodeNext(s, later, i)
<1>1. Major(s, i) \in {0, 1} => next = Made(r, <<"int", Major(s, i) = 1, r.value>>)
  BY SMTT(60) DEF DecodeNext, Then, Size, Info, Major, Made
<1>2. Major(s, i) = 2 => next = Made(c, <<"bytes", c.value>>)
  BY SMTT(60) DEF DecodeNext, Then, Size, Info, Major, Made, Content
<1>3. Major(s, i) = 3 => next = IF c.error = "none" /\ ~Utf8(c.value)
                                THEN Raise("UnicodeDecodeError")
                                ELSE Made(c, <<"text", c.value>>)
  BY SMTT(60) DEF DecodeNext, Then, Size, Info, Major, Made, Content
<1>4. Major(s, i) = 4 => next = Made(l, <<"list", l.value>>)
  BY SMTT(60) DEF DecodeNext, Then, Size, Info, Major, Made, Several
<1>5. Major(s, i) = 5 => next = Made(p, <<"dict", Assigned(p.value)>>)
  BY SMTT(60) DEF DecodeNext, Then, Size, Info, Major, Made, Several
<1>6. Major(s, i) = 6 => next = Tagged(later, r)
  BY DEF DecodeNext, Then, Size, Info, Major, Tagged
<1>7. ASSUME Major(s, i) = 7
      PROVE  /\ Info(s, i) = 20 => next = Done(<<"bool", FALSE>>, i + 1)
             /\ Info(s, i) = 21 => next = Done(<<"bool", TRUE>>, i + 1)
             /\ Info(s, i) = 22 => next = Done(None, i + 1)
             /\ Info(s, i) \notin 20..22 => next = Raise("AttestationError")
  <2> DEFINE info == Info(s, i)
             last == CASE info = 20 -> Done(<<"bool", FALSE>>, i + 1)
                       [] info = 21 -> Done(<<"bool", TRUE>>, i + 1)
                       [] info = 22 -> Done(None, i + 1)
                       [] OTHER -> Raise("AttestationError")
  <2>1. next = last
    BY <1>7 DEF DecodeNext, Major, Info, Then
  <2>2. /\ info = 20 => last = Done(<<"bool", FALSE>>, i + 1)
        /\ info = 21 => last = Done(<<"bool", TRUE>>, i + 1)
        /\ info = 22 => last = Done(None, i + 1)
        /\ info \notin 20..22 => last = Raise("AttestationError")
    <3> HIDE DEF info
    <3> QED
      OBVIOUS
  <2> QED
    BY SMTT(60), <2>1, <2>2
<1> QED
  BY SMTT(60), <1>1, <1>2, <1>3, <1>4, <1>5, <1>6, <1>7 DEF Parts

\* The number in a header says how much there is to decode, and from where.
LEMMA NumberTask ==
  ASSUME NEW s \in Seq(Byte), NEW i \in Nat, ~(i >= Len(s)),
         Size(s, i).error = "none", NEW what \in {"value", "items", "pairs"}
  PROVE  /\ Major(s, i) \in 0..7
         /\ Size(s, i).value \in Seq(Byte) /\ NumberOf(Size(s, i).value) \in Nat
         /\ Size(s, i).next \in Nat /\ Size(s, i).next >= i + 1
         /\ <<what, NumberOf(Size(s, i).value), Size(s, i).next>> \in Tasks
         /\ <<"value", 1, Size(s, i).next>> \in Tasks
<1>1. s[i + 1] \in Byte
  <2>1. i + 1 \in 1..Len(s) /\ Len(s) \in Nat
    OBVIOUS
  <2> QED
    BY <2>1
<1>2. Major(s, i) \in 0..7 /\ Info(s, i) \in 0..31
  BY <1>1, ByteParts DEF Major, Info
<1>3. Forward(Size(s, i), i + 1) /\ Size(s, i).value \in Seq(Byte)
  <2>1. i + 1 \in Nat
    OBVIOUS
  <2> QED
    BY <1>2, <2>1, LengthForward DEF Size
<1>4. NumberOf(Size(s, i).value) \in Nat
  BY <1>3, NumberType
<1> QED
  BY <1>2, <1>3, <1>4 DEF Forward, Tasks

\* The parts of what a reader returns.
LEMMA DoneParts ==
  ASSUME NEW v, NEW i
  PROVE  /\ Done(v, i).error = "none" /\ Done(v, i).value = v
         /\ Done(v, i).next = i
BY DEF Done

\* An array that is not empty is its first item and the rest (attestation.py:396).
LEMMA ItemsParts ==
  ASSUME NEW s, NEW later, NEW n, n # 0, NEW i
  PROVE  LET r == DecodeNext(s, later, i)
             l == later[<<"items", n - 1, r.next>>]
         IN  DecodeItems(s, later, n, i) =
               IF r.error = "none" THEN Made(l, <<r.value>> \o l.value) ELSE r
BY DEF DecodeItems, Then, Made

\* A map that is not empty is its first pair and the rest (attestation.py:401-403).
LEMMA PairsParts ==
  ASSUME NEW s, NEW later, NEW n, n # 0, NEW i
  PROVE  LET r == DecodeNext(s, later, i)
             v == later[<<"value", 1, r.next>>]
             l == later[<<"pairs", n - 1, v.next>>]
         IN  DecodePairs(s, later, n, i) =
               IF r.error # "none" THEN r
               ELSE IF v.error # "none" THEN v
               ELSE IF r.value[1] \in {"list", "dict"} THEN Raise("TypeError")
               ELSE Made(l, <<<<r.value, v.value>>>> \o l.value)
BY DEF DecodePairs, Then, Made

\* decode reads the first byte of the item at least.
LEMMA NextForward ==
  ASSUME NEW s \in Seq(Byte), NEW later, NEW i \in Nat, Decent(later, i + 1),
         DecodeNext(s, later, i).error = "none"
  PROVE  /\ i < Len(s)
         /\ DecodeNext(s, later, i).next \in Nat /\ DecodeNext(s, later, i).next >= i + 1
<1> DEFINE r == Size(s, i)
           next == DecodeNext(s, later, i)
<1>1. ~(i >= Len(s))
  BY DEF DecodeNext, Raise
<1>2. Major(s, i) \in 0..7 /\ Info(s, i) \in 0..31
  <2>1. s[i + 1] \in Byte
    <3>1. i + 1 \in 1..Len(s) /\ Len(s) \in Nat
      BY <1>1
    <3> QED
      BY <3>1
  <2> QED
    BY <2>1, ByteParts DEF Major, Info
<1>0. Parts(s, later, i, r, next)
  BY <1>1, NextParts
<1>6. Major(s, i) = 7 => Forward(next, i + 1)
  <2>1. SUFFICES ASSUME Major(s, i) = 7 PROVE Forward(next, i + 1)
    OBVIOUS
  <2>2. \/ next = Done(<<"bool", FALSE>>, i + 1) \/ next = Done(<<"bool", TRUE>>, i + 1)
        \/ next = Done(None, i + 1) \/ next = Raise("AttestationError")
    BY <1>0, <1>2, <2>1 DEF Parts
  <2>3. \A v : Forward(Done(v, i + 1), i + 1)
    BY DEF Done, Forward
  <2>4. Forward(Raise("AttestationError"), i + 1)
    BY DEF Raise, Forward
  <2> HIDE DEF next
  <2> QED
    BY <2>2, <2>3, <2>4
<1>3. ASSUME r.error = "none" PROVE Forward(next, i + 1)
  <2>1. /\ r.value \in Seq(Byte) /\ NumberOf(r.value) \in Nat
        /\ r.next \in Nat /\ r.next >= i + 1
    BY <1>1, <1>3, NumberTask
  <2>2. ASSUME NEW what \in {"items", "pairs"} PROVE Forward(Several(later, what, r), i + 1)
    <3> DEFINE t == <<what, NumberOf(r.value), r.next>>
    <3>1. t \in Tasks /\ t[3] = r.next
      BY <2>1 DEF Tasks
    <3>2. Forward(later[t], r.next)
      BY <2>1, <3>1 DEF Decent
    <3> QED
      BY <1>3, <2>1, <3>2 DEF Several, Forward
  <2>3. Forward(Tagged(later, r), i + 1)
    <3> DEFINE t == <<"value", 1, r.next>>
    <3>1. t \in Tasks /\ t[3] = r.next
      BY <2>1 DEF Tasks
    <3>2. Forward(later[t], r.next)
      BY <2>1, <3>1 DEF Decent
    <3> QED
      BY <1>3, <2>1, <3>2 DEF Tagged, Forward
  <2>4. Forward(Content(s, r), i + 1)
    <3>1. Forward(Read(s, NumberOf(r.value), r.next), r.next)
      BY <2>1, ReadForward
    <3> QED
      BY <1>3, <2>1, <3>1 DEF Content, Forward
  <2>5. ASSUME NEW q, NEW v, Forward(q, i + 1) PROVE Forward(Made(q, v), i + 1)
    BY <2>5 DEF Forward, Made, Done
  <2>6. Forward(r, i + 1)
    BY <2>1 DEF Forward
  <2> HIDE DEF r, next
  <2>7. Major(s, i) \in {0, 1} => Forward(next, i + 1)
    BY <1>0, <2>5, <2>6 DEF Parts, Forward
  <2>8. Major(s, i) = 2 => Forward(next, i + 1)
    BY <1>0, <2>4, <2>5 DEF Parts, Forward
  <2>9. Major(s, i) = 3 => Forward(next, i + 1)
    BY <1>0, <2>4, <2>5 DEF Parts, Forward, Raise
  <2>10. Major(s, i) = 4 => Forward(next, i + 1)
    BY <1>0, <2>2, <2>5 DEF Parts, Forward
  <2>11. Major(s, i) = 5 => Forward(next, i + 1)
    BY <1>0, <2>2, <2>5 DEF Parts, Forward
  <2>12. Major(s, i) = 6 => Forward(next, i + 1)
    BY <1>0, <2>3 DEF Parts, Forward
  <2> QED
    BY <1>2, <2>7, <2>8, <2>9, <2>10, <2>11, <2>12, <1>6
<1>4. ASSUME r.error # "none" PROVE Forward(next, i + 1)
  <2>1. Major(s, i) = 7
    BY <1>0, <1>2, <1>4 DEF Parts, Made, Content, Several, Tagged
  <2> QED
    BY <1>6, <2>1
<1>5. Forward(next, i + 1)
  BY <1>3, <1>4
<1> QED
  BY <1>1, <1>5 DEF Forward

\* No task moves back, if those from a later offset do not.
LEMMA TaskForward ==
  ASSUME NEW s \in Seq(Byte), NEW later, NEW t \in Tasks, Decent(later, t[3] + 1)
  PROVE  Forward(Decode(s, later, t), t[3])
<1> DEFINE i == t[3]
           n == t[2]
           r == DecodeNext(s, later, i)
<1>1. t[1] \in {"value", "items", "pairs"} /\ n \in Nat /\ i \in Nat
  BY DEF Tasks
<1>2. r.error = "none" => r.next \in Nat /\ r.next >= i + 1
  BY <1>1, NextForward
<1>3. ASSUME r.error = "none", NEW what \in {"value", "items", "pairs"}, NEW k \in Nat,
             NEW j \in Nat, j >= i + 1
      PROVE  Forward(later[<<what, k, j>>], j)
  <2>1. <<what, k, j>> \in Tasks /\ <<what, k, j>>[3] = j
    BY DEF Tasks
  <2> QED
    BY <1>3, <2>1 DEF Decent
<1>4. CASE t[1] = "value"
  BY <1>1, <1>2, <1>4 DEF Decode, Forward
<1>5. CASE t[1] = "items" /\ n = 0
  BY <1>1, <1>5 DEF Decode, Forward, DecodeItems, Done, Then
<1>6. CASE t[1] = "items" /\ n # 0
  <2> DEFINE l == later[<<"items", n - 1, r.next>>]
  <2>1. r.error = "none" => Forward(l, r.next)
    <3>1. n - 1 \in Nat
      BY <1>1, <1>6
    <3> QED
      BY <1>2, <1>3, <3>1
  <2>2. Decode(s, later, t) = IF r.error = "none" THEN Made(l, <<r.value>> \o l.value) ELSE r
    BY <1>6, ItemsParts DEF Decode
  <2> HIDE DEF l, r, n
  <2> QED
    BY <1>1, <1>2, <2>1, <2>2 DEF Forward, Made, Done
<1>7. CASE t[1] = "pairs" /\ n = 0
  BY <1>1, <1>7 DEF Decode, Forward, DecodePairs, Done, Then
<1>8. CASE t[1] = "pairs" /\ n # 0
  <2> DEFINE v == later[<<"value", 1, r.next>>]
             l == later[<<"pairs", n - 1, v.next>>]
  <2>1. r.error = "none" => Forward(v, r.next)
    BY <1>2, <1>3
  <2>2. r.error = "none" /\ v.error = "none" => Forward(l, v.next)
    <3>1. n - 1 \in Nat
      BY <1>1, <1>8
    <3>2. SUFFICES ASSUME r.error = "none", v.error = "none" PROVE Forward(l, v.next)
      OBVIOUS
    <3>3. v.next \in Nat /\ v.next >= i + 1
      BY <1>1, <1>2, <2>1, <3>2 DEF Forward
    <3> HIDE DEF v
    <3> QED
      BY <1>3, <3>1, <3>2, <3>3
  <2>3. Decode(s, later, t) =
               IF r.error # "none" THEN r
               ELSE IF v.error # "none" THEN v
               ELSE IF r.value[1] \in {"list", "dict"} THEN Raise("TypeError")
               ELSE Made(l, <<<<r.value, v.value>>>> \o l.value)
    BY <1>8 DEF Decode, DecodePairs, Then, Made
  <2> HIDE DEF l, r, v, n
  <2> QED
    BY SMTT(60), <1>1, <1>2, <2>1, <2>2, <2>3 DEF Forward, Made, Done, Raise
<1> QED
  BY <1>1, <1>4, <1>5, <1>6, <1>7, <1>8

-----------------------------------------------------------------------------
(* The decoder on a string w that continues s: what succeeds on s gives the  *)
(* same there; with all, when w is s, what fails does too.                   *)

\* w begins with s; r and q are equal if r succeeds; g and h agree from offset i.
Continues(s, w, all) == /\ Len(s) <= Len(w) /\ \A i \in 1..Len(s) : w[i] = s[i]
                        /\ all => w = s
Same(r, q, all) == all \/ r.error = "none" => q = r
Agree(g, h, i, all) == \A t \in Tasks : t[3] >= i => Same(g[t], h[t], all)

\* _read reads the same on a continuation.
LEMMA ReadSame ==
  ASSUME NEW s \in Seq(Byte), NEW w \in Seq(Byte), NEW all \in BOOLEAN, Continues(s, w, all),
         NEW n \in Nat, NEW i \in Nat
  PROVE  Same(Read(s, n, i), Read(w, n, i), all)
<1>1. CASE all
  BY <1>1 DEF Continues, Same
<1>2. CASE i + n > Len(s) /\ ~all
  BY <1>2 DEF Read, Raise, Same
<1>3. CASE i + n <= Len(s)
  <2>1. SubSeq(w, i + 1, i + n) = SubSeq(s, i + 1, i + n)
    <3>1. /\ SubSeq(s, i + 1, i + n) = [j \in 1..n |-> s[i + j]]
          /\ SubSeq(w, i + 1, i + n) = [j \in 1..n |-> w[i + j]]
      BY <1>3 DEF Continues
    <3>2. ASSUME NEW j \in 1..n PROVE w[i + j] = s[i + j]
      <4>1. i + j \in 1..Len(s)
        BY <1>3
      <4> QED
        BY <4>1 DEF Continues
    <3> QED
      BY <3>1, <3>2
  <2>2. ~(i + n > Len(s)) /\ ~(i + n > Len(w))
    BY <1>3 DEF Continues
  <2> QED
    BY <2>1, <2>2 DEF Read, Same
<1> QED
  BY <1>1, <1>2, <1>3

\* _read_length reads the same on a continuation.
LEMMA LengthSame ==
  ASSUME NEW s \in Seq(Byte), NEW w \in Seq(Byte), NEW all \in BOOLEAN, Continues(s, w, all),
         NEW info \in 0..31, NEW i \in Nat
  PROVE  Same(ReadLength(s, info, i), ReadLength(w, info, i), all)
<1>1. CASE info < 24
  BY <1>1 DEF ReadLength, Same, Then
<1>2. CASE info \in 24..27
  <2>1. Width(info) \in Nat
    BY <1>2 DEF Width
  <2> DEFINE r == Read(s, Width(info), i)
             q == Read(w, Width(info), i)
  <2>2. Same(r, q, all)
    BY <2>1, ReadSame
  <2>3. /\ ReadLength(s, info, i) = Made(r, WithoutZeros(r.value))
        /\ ReadLength(w, info, i) = Made(q, WithoutZeros(q.value))
    BY <1>2 DEF ReadLength, Then, Made
  <2> HIDE DEF r, q
  <2> QED
    BY <2>2, <2>3 DEF Same, Made
<1>3. CASE info \in 28..31
  <2>1. ~(info < 24) /\ info \notin 24..27
    BY <1>3
  <2> QED
    BY <2>1 DEF ReadLength, Same, Then
<1> QED
  BY <1>1, <1>2, <1>3

\* decode does, if what it calls from a later offset does.
LEMMA NextSame ==
  ASSUME NEW s \in Seq(Byte), NEW w \in Seq(Byte), NEW all \in BOOLEAN, Continues(s, w, all),
         NEW g, NEW h, NEW i \in Nat, Agree(g, h, i + 1, all)
  PROVE  Same(DecodeNext(s, g, i), DecodeNext(w, h, i), all)
<1> DEFINE r == Size(s, i)
           q == Size(w, i)
           next == DecodeNext(s, g, i)
           other == DecodeNext(w, h, i)
<1>1. CASE i >= Len(s)
  <2>1. next = Raise("AttestationError") /\ (all => other = Raise("AttestationError"))
    BY <1>1 DEF DecodeNext, Continues
  <2> QED
    BY <2>1 DEF Same, Raise
<1>2. CASE ~(i >= Len(s))
  <2>1. w[i + 1] = s[i + 1] /\ ~(i >= Len(w))
    <3>1. i + 1 \in 1..Len(s)
      BY <1>2
    <3> QED
      BY <1>2, <3>1 DEF Continues
  <2>2. Major(w, i) = Major(s, i) /\ Info(w, i) = Info(s, i)
    BY <2>1 DEF Major, Info
  <2>3. Major(s, i) \in 0..7 /\ Info(s, i) \in 0..31
    <3>1. s[i + 1] \in Byte
      <4>1. i + 1 \in 1..Len(s) /\ Len(s) \in Nat
        BY <1>2
      <4> QED
        BY <4>1
    <3> QED
      BY <3>1, ByteParts DEF Major, Info
  <2>4. Parts(s, g, i, r, next) /\ Parts(w, h, i, q, other)
    BY <1>2, <2>1, NextParts
  <2>5. Same(r, q, all)
    <3>1. i + 1 \in Nat
      OBVIOUS
    <3> QED
      BY <2>2, <2>3, <3>1, LengthSame DEF Size
  <2>6. r.error = "none" =>
          /\ r.value \in Seq(Byte) /\ NumberOf(r.value) \in Nat
          /\ r.next \in Nat /\ r.next >= i + 1
    BY <1>2, NumberTask
  <2>7. Same(Content(s, r), Content(w, q), all)
    <3>1. r.error = "none" => Same(Read(s, NumberOf(r.value), r.next),
                                   Read(w, NumberOf(r.value), r.next), all)
      BY <2>6, ReadSame
    <3> HIDE DEF r, q
    <3> QED
      BY <2>5, <3>1 DEF Content, Same
  <2>8. ASSUME NEW what \in {"items", "pairs"}
        PROVE  Same(Several(g, what, r), Several(h, what, q), all)
    <3> DEFINE t == <<what, NumberOf(r.value), r.next>>
    <3>1. r.error = "none" => t \in Tasks /\ t[3] >= i + 1
      BY <2>6 DEF Tasks
    <3>2. r.error = "none" => Same(g[t], h[t], all)
      BY <3>1 DEF Agree
    <3> HIDE DEF r, q
    <3> QED
      BY <2>5, <3>2 DEF Several, Same
  <2>9. Same(Tagged(g, r), Tagged(h, q), all)
    <3> DEFINE t == <<"value", 1, r.next>>
    <3>1. r.error = "none" => t \in Tasks /\ t[3] >= i + 1
      BY <2>6 DEF Tasks
    <3>2. r.error = "none" => Same(g[t], h[t], all)
      BY <3>1 DEF Agree
    <3> HIDE DEF r, q
    <3> QED
      BY <2>5, <3>2 DEF Tagged, Same
  <2> HIDE DEF r, q, next, other
  <2>10. Major(s, i) \in {0, 1} => Same(next, other, all)
    <3>1. SUFFICES ASSUME Major(s, i) \in {0, 1} PROVE Same(next, other, all)
      OBVIOUS
    <3>2. /\ next = Made(r, <<"int", Major(s, i) = 1, r.value>>)
          /\ other = Made(q, <<"int", Major(s, i) = 1, q.value>>)
      BY <2>2, <2>4, <3>1 DEF Parts
    <3>3. CASE all \/ r.error = "none"
      BY <2>5, <3>2, <3>3 DEF Same
    <3>4. CASE ~all /\ r.error # "none"
      BY <3>2, <3>4 DEF Same, Made
    <3> QED
      BY <3>3, <3>4
  <2>11. Major(s, i) = 2 => Same(next, other, all)
    <3> DEFINE a == Content(s, r)
               b == Content(w, q)
    <3>1. SUFFICES ASSUME Major(s, i) = 2 PROVE Same(next, other, all)
      OBVIOUS
    <3>2. next = Made(a, <<"bytes", a.value>>) /\ other = Made(b, <<"bytes", b.value>>)
      BY <2>2, <2>4, <3>1 DEF Parts
    <3>3. Same(a, b, all)
      BY <2>7
    <3> HIDE DEF a, b
    <3>4. CASE all \/ a.error = "none"
      BY <3>2, <3>3, <3>4 DEF Same
    <3>5. CASE ~all /\ a.error # "none"
      BY <3>2, <3>5 DEF Same, Made
    <3> QED
      BY <3>4, <3>5
  <2>12. Major(s, i) = 3 => Same(next, other, all)
    BY <2>2, <2>4, <2>7 DEF Parts, Same, Made
  <2>13. Major(s, i) = 4 => Same(next, other, all)
    <3> DEFINE a == Several(g, "items", r)
               b == Several(h, "items", q)
    <3>1. SUFFICES ASSUME Major(s, i) = 4 PROVE Same(next, other, all)
      OBVIOUS
    <3>2. next = Made(a, <<"list", a.value>>) /\ other = Made(b, <<"list", b.value>>)
      BY <2>2, <2>4, <3>1 DEF Parts
    <3>3. Same(a, b, all)
      BY <2>8
    <3> HIDE DEF a, b
    <3>4. CASE all \/ a.error = "none"
      BY <3>2, <3>3, <3>4 DEF Same
    <3>5. CASE ~all /\ a.error # "none"
      BY <3>2, <3>5 DEF Same, Made
    <3> QED
      BY <3>4, <3>5
  <2>14. Major(s, i) = 5 => Same(next, other, all)
    <3> DEFINE a == Several(g, "pairs", r)
               b == Several(h, "pairs", q)
    <3>1. SUFFICES ASSUME Major(s, i) = 5 PROVE Same(next, other, all)
      OBVIOUS
    <3>2. next = Made(a, <<"dict", Assigned(a.value)>>) /\ other = Made(b, <<"dict", Assigned(b.value)>>)
      BY <2>2, <2>4, <3>1 DEF Parts
    <3>3. Same(a, b, all)
      BY <2>8
    <3> HIDE DEF a, b
    <3>4. CASE all \/ a.error = "none"
      BY <3>2, <3>3, <3>4 DEF Same
    <3>5. CASE ~all /\ a.error # "none"
      BY <3>2, <3>5 DEF Same, Made
    <3> QED
      BY <3>4, <3>5
  <2>15. Major(s, i) = 6 => Same(next, other, all)
    BY <2>2, <2>4, <2>9 DEF Parts, Same
  <2>16. Major(s, i) = 7 => Same(next, other, all)
    BY <2>2, <2>3, <2>4 DEF Parts, Same
  <2>17. Same(next, other, all)
    BY <2>3, <2>10, <2>11, <2>12, <2>13, <2>14, <2>15, <2>16
  <2> QED
    BY <2>17 DEF next, other
<1> QED
  BY <1>1, <1>2

\* So does each task.
LEMMA TaskSame ==
  ASSUME NEW s \in Seq(Byte), NEW w \in Seq(Byte), NEW all \in BOOLEAN, Continues(s, w, all),
         NEW g, NEW h, NEW t \in Tasks, Agree(g, h, t[3] + 1, all), Decent(g, t[3] + 1)
  PROVE  Same(Decode(s, g, t), Decode(w, h, t), all)
<1> DEFINE i == t[3]
           n == t[2]
           r == DecodeNext(s, g, i)
           q == DecodeNext(w, h, i)
<1>1. t[1] \in {"value", "items", "pairs"} /\ n \in Nat /\ i \in Nat
  BY DEF Tasks
<1>2. Same(r, q, all)
  BY <1>1, NextSame
<1>3. r.error = "none" => r.next \in Nat /\ r.next >= i + 1
  BY <1>1, NextForward
<1>4. ASSUME NEW what \in {"value", "items", "pairs"}, NEW k \in Nat,
             NEW j \in Nat, j >= i + 1
      PROVE  /\ Forward(g[<<what, k, j>>], j)
             /\ Same(g[<<what, k, j>>], h[<<what, k, j>>], all)
  <2>1. <<what, k, j>> \in Tasks /\ <<what, k, j>>[3] = j
    BY DEF Tasks
  <2> QED
    BY <1>4, <2>1 DEF Decent, Agree
<1>5. CASE t[1] = "value"
  BY <1>2, <1>5 DEF Decode
<1>6. CASE t[1] = "items" /\ n = 0
  BY <1>1, <1>6 DEF Decode, Same, DecodeItems, Then
<1>7. CASE t[1] = "items" /\ n # 0
  <2> DEFINE l == g[<<"items", n - 1, r.next>>]
             m == h[<<"items", n - 1, q.next>>]
  <2>1. r.error = "none" => Same(l, h[<<"items", n - 1, r.next>>], all)
    <3>1. n - 1 \in Nat
      BY <1>1, <1>7
    <3> QED
      BY <1>3, <1>4, <3>1
  <2>2. /\ Decode(s, g, t) = IF r.error = "none" THEN Made(l, <<r.value>> \o l.value) ELSE r
        /\ Decode(w, h, t) = IF q.error = "none" THEN Made(m, <<q.value>> \o m.value) ELSE q
    BY <1>7, ItemsParts DEF Decode
  <2>3. all \/ r.error = "none" => q = r
    BY <1>2 DEF Same
  <2> HIDE DEF r, q
  <2>4. r.error = "none" => Same(l, m, all)
    BY <2>1, <2>3
  <2> HIDE DEF l, m
  <2> QED
    BY <2>2, <2>3, <2>4 DEF Same, Made
<1>8. CASE t[1] = "pairs" /\ n = 0
  BY <1>1, <1>8 DEF Decode, Same, DecodePairs, Then
<1>9. CASE t[1] = "pairs" /\ n # 0
  <2> DEFINE v == g[<<"value", 1, r.next>>]
             u == h[<<"value", 1, q.next>>]
             l == g[<<"pairs", n - 1, v.next>>]
             m == h[<<"pairs", n - 1, u.next>>]
  <2>1. r.error = "none" => Same(v, h[<<"value", 1, r.next>>], all) /\ Forward(v, r.next)
    BY <1>3, <1>4
  <2>2. r.error = "none" /\ v.error = "none" => Same(l, h[<<"pairs", n - 1, v.next>>], all)
    <3>1. n - 1 \in Nat
      BY <1>1, <1>9
    <3>2. SUFFICES ASSUME r.error = "none", v.error = "none"
                   PROVE  Same(l, h[<<"pairs", n - 1, v.next>>], all)
      OBVIOUS
    <3>3. v.next \in Nat /\ v.next >= i + 1
      BY <1>1, <1>3, <2>1, <3>2 DEF Forward
    <3> HIDE DEF v
    <3> QED
      BY <1>4, <3>1, <3>2, <3>3
  <2>3. /\ Decode(s, g, t) =
               IF r.error # "none" THEN r
               ELSE IF v.error # "none" THEN v
               ELSE IF r.value[1] \in {"list", "dict"} THEN Raise("TypeError")
               ELSE Made(l, <<<<r.value, v.value>>>> \o l.value)
        /\ Decode(w, h, t) =
               IF q.error # "none" THEN q
               ELSE IF u.error # "none" THEN u
               ELSE IF q.value[1] \in {"list", "dict"} THEN Raise("TypeError")
               ELSE Made(m, <<<<q.value, u.value>>>> \o m.value)
    BY <1>9 DEF Decode, DecodePairs, Then, Made
  <2>4. all \/ r.error = "none" => q = r
    BY <1>2 DEF Same
  <2> HIDE DEF r, q
  <2>5. r.error = "none" => Same(v, u, all)
    BY <2>1, <2>4
  <2>6. r.error = "none" /\ v.error = "none" => Same(l, m, all)
    <3>1. r.error = "none" /\ v.error = "none" => u = v
      BY <2>5 DEF Same
    <3> HIDE DEF v, u
    <3> QED
      BY <2>2, <3>1
  <2> HIDE DEF v, u, l, m
  <2> QED
    BY <2>3, <2>4, <2>5, <2>6 DEF Same, Made
<1> QED
  BY <1>1, <1>5, <1>6, <1>7, <1>8, <1>9

\* What holds from an offset holds from a later one.
LEMMA Later ==
  ASSUME NEW n \in Nat, NEW m \in Nat, n <= m, NEW g, NEW h, NEW all
  PROVE  /\ Decent(g, n) => Decent(g, m)
         /\ Agree(g, h, n, all) => Agree(g, h, m, all)
<1>1. ASSUME NEW t \in Tasks, t[3] >= m PROVE t[3] >= n
  <2>1. t[3] \in Nat
    BY DEF Tasks
  <2> QED
    BY <1>1, <2>1
<1> QED
  BY <1>1 DEF Decent, Agree

\* From the end of the string on nothing is called.
LEMMA PastEnd ==
  ASSUME NEW s \in Seq(Byte), NEW w \in Seq(Byte), NEW all \in BOOLEAN, Continues(s, w, all),
         NEW g, NEW h, NEW t \in Tasks, t[3] >= Len(s)
  PROVE  /\ Forward(Decode(s, g, t), t[3])
         /\ Same(Decode(s, g, t), Decode(w, h, t), all)
<1> DEFINE i == t[3]
           n == t[2]
           r == DecodeNext(s, g, i)
           q == DecodeNext(w, h, i)
<1>1. t[1] \in {"value", "items", "pairs"} /\ n \in Nat /\ i \in Nat
  BY DEF Tasks
<1>2. r = Raise("AttestationError") /\ (all => q = r)
  BY DEF DecodeNext, Continues
<1>3. CASE n = 0 /\ t[1] # "value"
  BY <1>1, <1>3 DEF Decode, DecodeItems, DecodePairs, Then, Done, Same, Forward
<1>4. CASE ~(n = 0 /\ t[1] # "value")
  <2>1. r.error # "none"
    BY <1>2 DEF Raise
  <2>2. Decode(s, g, t) = r
    BY <1>1, <1>4, <2>1 DEF Decode, DecodeItems, DecodePairs, Then
  <2>3. q.error # "none" => Decode(w, h, t) = q
    BY <1>1, <1>4 DEF Decode, DecodeItems, DecodePairs, Then
  <2> HIDE DEF r, q
  <2> QED
    BY <1>2, <2>1, <2>2, <2>3 DEF Same, Forward
<1> QED
  BY <1>3, <1>4

\* The recursion of the decoder has a solution: every call is from a later offset,
\* and none is made from the end of the string.
LEMMA DecoderDef ==
  ASSUME NEW s \in Seq(Byte)
  PROVE  Decoder(s) = [t \in Tasks |-> Decode(s, Decoder(s), t)]
<1> DEFINE Obeys(g, n) == \A t \in Tasks : t[3] >= n => g[t] = Decode(s, g, t)
           Total(g) == g = [t \in Tasks |-> g[t]]
           S == {n \in 0..Len(s) : \E g : Total(g) /\ Obeys(g, n) /\ Decent(g, n)}
<1>1. Len(s) \in Nat /\ Continues(s, s, TRUE)
  BY DEF Continues
<1>2. Len(s) \in S
  <2> DEFINE g == [t \in Tasks |-> Decode(s, s, t)]
  <2>1. ASSUME NEW t \in Tasks, t[3] >= Len(s)
        PROVE  g[t] = Decode(s, g, t) /\ Forward(g[t], t[3])
    <3>1. g[t] = Decode(s, s, t)
      OBVIOUS
    <3> HIDE DEF g
    <3>2. Forward(Decode(s, s, t), t[3]) /\ Same(Decode(s, s, t), Decode(s, g, t), TRUE)
      BY <1>1, <2>1, PastEnd
    <3> QED
      BY <3>1, <3>2 DEF Same
  <2>2. Total(g) /\ Obeys(g, Len(s)) /\ Decent(g, Len(s))
    BY <2>1 DEF Decent
  <2> HIDE DEF g
  <2> QED
    BY <1>1, <2>2
<1>3. ASSUME NEW n \in 0..(Len(s) - 1), n + 1 \in S PROVE n \in S
  <2>1. PICK g : Total(g) /\ Obeys(g, n + 1) /\ Decent(g, n + 1)
    BY <1>3
  <2> DEFINE h == [t \in Tasks |-> IF t[3] = n THEN Decode(s, g, t) ELSE g[t]]
  <2>2. ASSUME NEW t \in Tasks, t[3] >= n
        PROVE  h[t] = Decode(s, h, t) /\ Forward(h[t], t[3])
    <3>1. t[3] \in Nat /\ n \in Nat
      BY DEF Tasks
    <3>2. Decent(g, t[3] + 1)
      <4>1. n + 1 \in Nat /\ t[3] + 1 \in Nat /\ n + 1 <= t[3] + 1
        BY <2>2, <3>1
      <4> QED
        BY <2>1, <4>1, Later
    <3>3. Agree(g, h, t[3] + 1, TRUE)
      BY <2>2, <3>1 DEF Agree, Same, Tasks
    <3>4. Same(Decode(s, g, t), Decode(s, h, t), TRUE)
      <4> HIDE DEF h
      <4> QED
        BY <1>1, <3>2, <3>3, TaskSame
    <3>5. h[t] = Decode(s, g, t)
      BY <2>1, <2>2, <3>1
    <3>6. Forward(Decode(s, g, t), t[3])
      BY <3>2, TaskForward
    <3> HIDE DEF h
    <3> QED
      BY <3>4, <3>5, <3>6 DEF Same
  <2>3. Total(h)
    OBVIOUS
  <2> HIDE DEF h
  <2>4. Obeys(h, n) /\ Decent(h, n)
    BY <2>2 DEF Decent
  <2> QED
    BY <2>3, <2>4
<1>4. 0 \in S
  <2> HIDE DEF S
  <2> QED
    BY <1>1, <1>2, <1>3, Downward
<1>5. PICK g : Total(g) /\ Obeys(g, 0)
  BY <1>4
<1>6. g = [t \in Tasks |-> Decode(s, g, t)]
  <2>1. ASSUME NEW t \in Tasks PROVE g[t] = Decode(s, g, t)
    <3>1. t[3] \in Nat
      BY DEF Tasks
    <3> QED
      BY <1>5, <3>1
  <2>2. [t \in Tasks |-> g[t]] = [t \in Tasks |-> Decode(s, g, t)]
    BY <2>1
  <2> QED
    BY <1>5, <2>2
<1> QED
  BY <1>6, Zenon DEF Decoder

\* The decoder never moves back.
LEMMA DecoderDecent ==
  ASSUME NEW s \in Seq(Byte)
  PROVE  Decent(Decoder(s), 0)
<1> DEFINE D == Decoder(s)
           S == {n \in 0..Len(s) : Decent(D, n)}
<1>1. Len(s) \in Nat /\ Continues(s, s, TRUE)
  BY DEF Continues
<1>2. ASSUME NEW t \in Tasks PROVE D[t] = Decode(s, D, t)
  <2>1. D = [u \in Tasks |-> Decode(s, D, u)]
    BY DecoderDef
  <2> HIDE DEF D
  <2> QED
    BY <2>1
<1> HIDE DEF D
<1>3. Len(s) \in S
  <2>1. ASSUME NEW t \in Tasks, t[3] >= Len(s) PROVE Forward(D[t], t[3])
    BY <1>1, <1>2, <2>1, PastEnd
  <2> QED
    BY <1>1, <2>1 DEF Decent
<1>4. ASSUME NEW n \in 0..(Len(s) - 1), n + 1 \in S PROVE n \in S
  <2>1. ASSUME NEW t \in Tasks, t[3] >= n PROVE Forward(D[t], t[3])
    <3>1. t[3] \in Nat /\ n \in Nat
      BY DEF Tasks
    <3>2. Decent(D, t[3] + 1)
      <4>1. t[3] + 1 \in Nat /\ n + 1 \in Nat /\ n + 1 <= t[3] + 1
        BY <2>1, <3>1
      <4>2. Decent(D, n + 1)
        BY <1>4
      <4> QED
        BY <4>1, <4>2, Later
    <3> QED
      BY <1>2, <3>2, TaskForward
  <2> QED
    BY <2>1 DEF Decent
<1>5. 0 \in S
  <2> HIDE DEF S
  <2> QED
    BY <1>1, <1>3, <1>4, Downward
<1> QED
  BY <1>5 DEF D

\* What a string decodes to, each of its continuations begins with.
LEMMA DecoderSame ==
  ASSUME NEW s \in Seq(Byte), NEW w \in Seq(Byte), Continues(s, w, FALSE)
  PROVE  Agree(Decoder(s), Decoder(w), 0, FALSE)
<1> DEFINE D == Decoder(s)
           E == Decoder(w)
           Like(n) == Agree(D, E, n, FALSE)
           S == {n \in 0..Len(s) : Like(n)}
<1>1. Len(s) \in Nat
  OBVIOUS
<1>2. ASSUME NEW t \in Tasks PROVE D[t] = Decode(s, D, t) /\ E[t] = Decode(w, E, t)
  <2>1. D = [u \in Tasks |-> Decode(s, D, u)] /\ E = [u \in Tasks |-> Decode(w, E, u)]
    BY DecoderDef
  <2> HIDE DEF D, E
  <2> QED
    BY <2>1
<1>3. Decent(D, 0)
  BY DecoderDecent
<1> HIDE DEF D, E
<1>4. Len(s) \in S
  <2>1. ASSUME NEW t \in Tasks, t[3] >= Len(s) PROVE Same(D[t], E[t], FALSE)
    BY <1>2, <2>1, PastEnd
  <2>2. Like(Len(s))
    BY <2>1 DEF Agree
  <2> HIDE DEF Like
  <2> QED
    BY <1>1, <2>2
<1>5. ASSUME NEW n \in 0..(Len(s) - 1), n + 1 \in S PROVE n \in S
  <2>1. ASSUME NEW t \in Tasks, t[3] >= n PROVE Same(D[t], E[t], FALSE)
    <3>1. t[3] \in Nat /\ n \in Nat
      BY DEF Tasks
    <3>2. Decent(D, t[3] + 1)
      <4>1. t[3] + 1 \in Nat /\ 0 \in Nat /\ 0 <= t[3] + 1
        BY <3>1
      <4> QED
        BY <1>3, <4>1, Later, Zenon
    <3>3. Agree(D, E, t[3] + 1, FALSE)
      <4>1. n + 1 \in Nat /\ t[3] + 1 \in Nat /\ n + 1 <= t[3] + 1
        BY <2>1, <3>1
      <4>2. Like(n + 1)
        <5> HIDE DEF Like
        <5> QED
          BY <1>5
      <4> QED
        BY <4>1, <4>2, Later
    <3> QED
      BY <1>2, <3>2, <3>3, TaskSame
  <2>2. Like(n)
    BY <2>1 DEF Agree
  <2> HIDE DEF Like
  <2> QED
    BY <2>2
<1>6. 0 \in S
  <2> HIDE DEF S
  <2> QED
    BY <1>1, <1>4, <1>5, Downward
<1>7. Like(0)
  <2> HIDE DEF Like
  <2> QED
    BY <1>6
<1> QED
  BY <1>7 DEF D, E

\* _cbor_decode accepts a value that ends where the string does (attestation.py:477-481).
LEMMA CborDecodeIs ==
  ASSUME NEW s
  PROVE  LET r == Decoder(s)[<<"value", 1, 0>>]
         IN  CborDecode(s) = IF r.error # "none" THEN r
                             ELSE IF r.next = Len(s) THEN Done(r.value, 0)
                             ELSE Raise("AttestationError")
BY DEF CborDecode, Then

\* A string that continues one that decodes does not decode.
LEMMA PrefixFree ==
  ASSUME NEW s \in Seq(Byte), NEW w \in Seq(Byte), Continues(s, w, FALSE), Len(s) < Len(w),
         CborDecode(s).error = "none"
  PROVE  CborDecode(w).error # "none"
<1> DEFINE task == <<"value", 1, 0>>
           r == Decoder(s)[task]
           q == Decoder(w)[task]
<1>1. r.error = "none" /\ r.next = Len(s)
  BY CborDecodeIs DEF Raise
<1>2. q = r
  <2>1. task \in Tasks /\ task[3] >= 0
    BY DEF Tasks
  <2>2. Same(r, q, FALSE)
    <3>1. Agree(Decoder(s), Decoder(w), 0, FALSE)
      BY DecoderSame
    <3> HIDE DEF task
    <3> QED
      BY <2>1, <3>1 DEF Agree
  <2> QED
    BY <1>1, <2>2 DEF Same
<1>3. q.next # Len(w) /\ q.error = "none"
  BY <1>1, <1>2
<1> QED
  BY <1>3, CborDecodeIs DEF Raise

\* The empty string does not decode (attestation.py:375).
LEMMA EmptyFails == CborDecode(<<>>).error # "none"
<1>1. <<>> \in Seq(Byte) /\ <<"value", 1, 0>> \in Tasks
  BY DEF Tasks
<1>2. Decoder(<<>>)[<<"value", 1, 0>>] = Decode(<<>>, Decoder(<<>>), <<"value", 1, 0>>)
  BY <1>1, DecoderDef, Zenon
<1>3. Decode(<<>>, Decoder(<<>>), <<"value", 1, 0>>) = Raise("AttestationError")
  BY DEF Decode, DecodeNext, Then
<1> QED
  BY <1>2, <1>3, CborDecodeIs DEF Raise

-----------------------------------------------------------------------------
(* Numbers and headers *)

-----------------------------------------------------------------------------
(* Numbers and headers *)

\* Induction from 0 up.
LEMMA Upward ==
  ASSUME NEW m \in Nat, NEW S, 0 \in S,
         \A n \in 0..(m - 1) : n \in S => n + 1 \in S
  PROVE  \A n \in 0..m : n \in S
<1> DEFINE T == {k \in 0..m : k \notin S}
<1> SUFFICES ASSUME T # {} PROVE FALSE
  BY Zenon
<1>1. PICK k \in T : \A j \in T : k <= j
  <2>1. T \in SUBSET Nat
    OBVIOUS
  <2> HIDE DEF T
  <2> QED
    BY <2>1, Least
<1>2. k \in 1..m
  BY <1>1
<1>3. k - 1 \notin T /\ k - 1 \in 0..(m - 1) /\ (k - 1) + 1 = k
  BY <1>1, <1>2
<1>4. k - 1 \in S
  BY <1>3
<1> QED
  BY <1>1, <1>3, <1>4

\* A string of one to four bytes is the number it spells in base 256.
LEMMA NumberSpelt ==
  /\ NumberOf(<<>>) = 0
  /\ \A a \in Byte : NumberOf(<<a>>) = a
  /\ \A a, b \in Byte : NumberOf(<<a, b>>) = 256 * a + b
  /\ \A a, b, c \in Byte : NumberOf(<<a, b, c>>) = 65536 * a + 256 * b + c
  /\ \A a, b, c, d \in Byte :
        NumberOf(<<a, b, c, d>>) = 16777216 * a + 65536 * b + 256 * c + d
<1>1. NumberOf(<<>>) = 0
  BY DEF NumberOf, Padded
<1>2. ASSUME NEW a \in Byte PROVE NumberOf(<<a>>) = a
  BY DEF NumberOf, Padded, Byte
<1>3. ASSUME NEW a \in Byte, NEW b \in Byte PROVE NumberOf(<<a, b>>) = 256 * a + b
  BY DEF NumberOf, Padded, Byte
<1>4. ASSUME NEW a \in Byte, NEW b \in Byte, NEW c \in Byte
      PROVE  NumberOf(<<a, b, c>>) = 65536 * a + 256 * b + c
  BY DEF NumberOf, Padded, Byte
<1>5. ASSUME NEW a \in Byte, NEW b \in Byte, NEW c \in Byte, NEW d \in Byte
      PROVE  NumberOf(<<a, b, c, d>>) = 16777216 * a + 65536 * b + 256 * c + d
  BY DEF NumberOf, Padded, Byte
<1> QED
  BY <1>1, <1>2, <1>3, <1>4, <1>5

\* The numbers that Magnitude spells, 256^4 of them.
Spelt(n) == n \in Nat /\ n < 65536 * 65536

\* int.to_bytes spells the number, without leading zeros.
LEMMA MagnitudeIs ==
  ASSUME NEW n, Spelt(n)
  PROVE  Magnitude(n) \in Numbers /\ NumberOf(Magnitude(n)) = n
<1>0. n \in Nat /\ n < 65536 * 65536
  BY DEF Spelt
<1>1. CASE n = 0
  BY <1>1, NumberSpelt DEF Magnitude, Numbers
<1>2. CASE 0 < n /\ n < 256
  <2>1. n \in Byte
    BY <1>0, <1>2 DEF Byte
  <2>2. Magnitude(n) = <<n>>
    BY <1>0, <1>2, SMTT(60) DEF Magnitude
  <2> QED
    BY <1>0, <1>2, <2>1, <2>2, NumberSpelt DEF Numbers
<1>3. CASE 256 <= n /\ n < 65536
  <2> DEFINE a == n \div 256
             b == n % 256
  <2>1. Magnitude(n) = <<a, b>>
    BY <1>0, <1>3, SMTT(60) DEF Magnitude
  <2>2. a \in Byte /\ b \in Byte /\ a # 0 /\ n = 256 * a + b
    BY <1>0, <1>3 DEF Byte
  <2> HIDE DEF a, b
  <2> QED
    BY <2>1, <2>2, NumberSpelt DEF Numbers
<1>4. CASE 65536 <= n /\ n < 16777216
  <2> DEFINE a == n \div 65536
             b == (n \div 256) % 256
             c == n % 256
  <2>1. Magnitude(n) = <<a, b, c>>
    BY <1>0, <1>4 DEF Magnitude
  <2>2. a \in Byte /\ b \in Byte /\ c \in Byte /\ a # 0 /\ n = 65536 * a + 256 * b + c
    BY <1>0, <1>4 DEF Byte
  <2> HIDE DEF a, b, c
  <2> QED
    BY <2>1, <2>2, NumberSpelt DEF Numbers
<1>5. CASE 16777216 <= n
  <2> DEFINE a == n \div 16777216
             b == (n \div 65536) % 256
             c == (n \div 256) % 256
             d == n % 256
  <2>1. Magnitude(n) = <<a, b, c, d>>
    BY <1>0, <1>5, SMTT(60) DEF Magnitude
  <2>2. /\ a \in Byte /\ b \in Byte /\ c \in Byte /\ d \in Byte /\ a # 0
        /\ n = 16777216 * a + 65536 * b + 256 * c + d
    <3>1. n \div 65536 = 256 * a + b /\ a \in 1..255 /\ b \in 0..255
      BY <1>0, <1>5
    <3>2. n = 65536 * (n \div 65536) + 256 * c + d /\ c \in 0..255 /\ d \in 0..255
      BY <1>0
    <3> HIDE DEF a, b, c, d
    <3> QED
      BY <1>0, <3>1, <3>2 DEF Byte
  <2> HIDE DEF a, b, c, d
  <2> QED
    BY <2>1, <2>2, NumberSpelt DEF Numbers
<1> QED
  BY <1>0, <1>1, <1>2, <1>3, <1>4, <1>5

\* What is left without leading zeros begins with the first byte that is not zero.
LEMMA WithoutZerosIs ==
  ASSUME NEW m \in Seq(Byte), NEW k \in 1..Len(m), m[k] # 0, \A j \in 1..k - 1 : m[j] = 0
  PROVE  WithoutZeros(m) = SubSeq(m, k, Len(m))
<1> DEFINE First(i) == m[i] # 0 /\ \A j \in 1..i - 1 : m[j] = 0
           c == CHOOSE i \in 1..Len(m) : First(i)
<1>1. c \in 1..Len(m) /\ First(c)
  <2>1. First(k)
    OBVIOUS
  <2> HIDE DEF First
  <2> QED
    BY <2>1
<1>2. WithoutZeros(m) = SubSeq(m, c, Len(m))
  BY Zenon DEF WithoutZeros
<1> HIDE DEF c
<1>3. c = k
  <2>1. ~(c < k)
    BY <1>1
  <2>2. ~(k < c)
    BY <1>1
  <2> QED
    BY <1>1, <2>1, <2>2
<1> QED
  BY <1>2, <1>3

\* Leading zeros removed leave a number, which is not longer.
LEMMA WithoutZerosNumber ==
  ASSUME NEW m \in Seq(Byte), Len(m) <= 8
  PROVE  WithoutZeros(m) \in Numbers /\ Len(WithoutZeros(m)) <= Len(m)
<1>1. CASE \E i \in 1..Len(m) : m[i] # 0
  <2> DEFINE S == {i \in 1..Len(m) : m[i] # 0}
  <2>1. PICK k \in 1..Len(m) : m[k] # 0 /\ \A j \in 1..k - 1 : m[j] = 0
    <3>1. S \in SUBSET Nat /\ S # {}
      BY <1>1
    <3>2. PICK i \in S : \A j \in S : i <= j
      BY <3>1, Least
    <3>3. ASSUME NEW j \in 1..i - 1 PROVE m[j] = 0
      BY <3>2
    <3> QED
      BY <3>2, <3>3
  <2> DEFINE w == SubSeq(m, k, Len(m))
  <2>2. WithoutZeros(m) = w
    BY <2>1, WithoutZerosIs
  <2>3. w \in Seq(Byte) /\ Len(w) = Len(m) - k + 1 /\ w[1] = m[k]
    OBVIOUS
  <2> HIDE DEF w
  <2> QED
    BY <2>1, <2>2, <2>3 DEF Numbers
<1>2. CASE ~\E i \in 1..Len(m) : m[i] # 0
  BY <1>2 DEF WithoutZeros, Numbers
<1> QED
  BY <1>1, <1>2

\* Leading zeros that were added are removed again.
LEMMA ZerosRemoved ==
  ASSUME NEW m \in Numbers, NEW w \in Nat, Len(m) <= w
  PROVE  /\ Padded(m, w) \in Seq(Byte) /\ Len(Padded(m, w)) = w
         /\ WithoutZeros(Padded(m, w)) = m
<1> DEFINE p == Padded(m, w)
<1>1. m \in Seq(Byte) /\ Len(m) \in Nat /\ (m # <<>> => m[1] # 0)
  BY DEF Numbers
<1>2. p \in Seq(Byte) /\ Len(p) = w
  <2>1. p = [i \in 1..w |-> p[i]] /\ DOMAIN p = 1..w
    BY DEF Padded
  <2>2. \A i \in 1..w : p[i] \in Byte
    BY <1>1, PaddedByte
  <2> HIDE DEF p
  <2> QED
    BY <2>1, <2>2
<1>3. /\ \A i \in 1..w - Len(m) : p[i] = 0
      /\ \A i \in 1..Len(m) : p[w - Len(m) + i] = m[i]
  BY <1>1 DEF Padded
<1> HIDE DEF p
<1>4. CASE m = <<>>
  <2>1. Len(m) = 0
    BY <1>4
  <2>2. \A i \in 1..Len(p) : p[i] = 0
    BY <1>2, <1>3, <2>1
  <2> QED
    BY <1>2, <1>4, <2>2 DEF WithoutZeros, p
<1>5. CASE m # <<>>
  <2> DEFINE k == w - Len(m) + 1
  <2>1. Len(m) >= 1
    BY <1>1, <1>5
  <2>2. k \in 1..Len(p) /\ p[k] # 0 /\ \A j \in 1..k - 1 : p[j] = 0
    BY <1>1, <1>2, <1>3, <1>5, <2>1
  <2>3. WithoutZeros(p) = SubSeq(p, k, Len(p))
    BY <1>2, <2>2, WithoutZerosIs
  <2>4. SubSeq(p, k, w) = m
    <3>0. m = [i \in 1..Len(m) |-> m[i]]
      BY <1>1
    <3>1. /\ SubSeq(p, k, w) \in Seq(Byte) /\ Len(SubSeq(p, k, w)) = Len(m)
          /\ \A i \in 1..Len(m) : SubSeq(p, k, w)[i] = p[k + i - 1]
      BY <1>1, <1>2, <2>1, <2>2
    <3>2. \A i \in 1..Len(m) : SubSeq(p, k, w)[i] = m[i]
      BY <1>1, <1>3, <3>1
    <3> DEFINE q == SubSeq(p, k, w)
    <3>3. q \in Seq(Byte) /\ Len(q) = Len(m) /\ \A i \in 1..Len(m) : q[i] = m[i]
      BY <3>1, <3>2
    <3> HIDE DEF q, k
    <3>4. q = [i \in 1..Len(m) |-> q[i]]
      BY <3>3
    <3>5. q = m
      BY <3>0, <3>3, <3>4
    <3> QED
      BY <3>5 DEF q
  <2> QED
    BY <1>2, <2>3, <2>4 DEF p
<1> QED
  BY <1>4, <1>5

\* What it is to be a number.
LEMMA NumberParts ==
  ASSUME NEW m \in Numbers
  PROVE  m \in Seq(Byte) /\ Len(m) \in 0..8 /\ (m # <<>> => m[1] # 0)
<1>1. m \in Seq(Byte) /\ (m # <<>> => m[1] # 0)
  BY DEF Numbers
<1>2. Len(m) <= 8
  BY DEF Numbers
<1>3. Len(m) \in 0..8
  <2>1. \A n \in Nat : n <= 8 => n \in 0..8
    OBVIOUS
  <2>2. Len(m) \in Nat
    BY <1>1
  <2> QED
    BY <1>2, <2>1, <2>2
<1> QED
  BY <1>1, <1>3

\* The number of bytes after the first one of a header, and how the first one says so.
Room(l, n) == IF l <= 1 /\ n < 24 THEN 0
              ELSE IF l <= 1 THEN 1 ELSE IF l = 2 THEN 2 ELSE IF l \in 3..4 THEN 4 ELSE 8
InfoFor(l) == CASE l <= 1 -> 24 [] l = 2 -> 25 [] l \in 3..4 -> 26 [] OTHER -> 27
Extra(m) == Room(Len(m), NumberOf(m))

\* The room is enough.
LEMMA RoomEnough ==
  ASSUME NEW l \in 0..8, NEW n \in Nat, ~(l <= 1 /\ n < 24)
  PROVE  /\ InfoFor(l) \in 24..27 /\ Width(InfoFor(l)) = Room(l, n)
         /\ l <= Room(l, n) /\ Room(l, n) \in 1..8
<1>1. CASE l <= 1
  BY <1>1 DEF InfoFor, Width, Room
<1>2. CASE l = 2
  BY <1>2 DEF InfoFor, Width, Room
<1>3. CASE l \in 3..4
  BY <1>3 DEF InfoFor, Width, Room
<1>4. CASE l \in 5..8
  BY <1>4 DEF InfoFor, Width, Room
<1> QED
  BY <1>1, <1>2, <1>3, <1>4

\* A header is a first byte, below 24 the number itself, and the bytes of a longer one
\* (attestation.py:494-502).
LEMMA HeaderParts ==
  ASSUME NEW major \in 0..5, NEW m \in Numbers
  PROVE  LET e == EncodeLength(major, m)
         IN  /\ e \in Seq(Byte) /\ Len(e) = 1 + Extra(m)
             /\ e[1] \div 32 = major
             /\ Extra(m) = 0 => e[1] % 32 = NumberOf(m) /\ Magnitude(NumberOf(m)) = m
                                /\ NumberOf(m) < 24
             /\ Extra(m) > 0 => /\ e[1] % 32 \in 24..27 /\ Width(e[1] % 32) = Extra(m)
                                /\ Len(m) <= Extra(m)
                                /\ SubSeq(e, 2, 1 + Extra(m)) = Padded(m, Extra(m))
<1> DEFINE e == EncodeLength(major, m)
           n == NumberOf(m)
<1>1. m \in Seq(Byte) /\ Len(m) \in 0..8 /\ (m # <<>> => m[1] # 0)
  BY NumberParts
<1>0. n \in Nat
  BY <1>1, NumberType
<1>2. CASE Len(m) <= 1 /\ n < 24
  <2>1. e = <<32 * major + n>> /\ Extra(m) = 0
    BY <1>2 DEF EncodeLength, Extra, Room
  <2>2. /\ 32 * major + n \in Byte /\ (32 * major + n) \div 32 = major
        /\ (32 * major + n) % 32 = n
    <3> HIDE DEF n
    <3> QED
      BY <1>0, <1>2 DEF Byte
  <2>3. Magnitude(n) = m
    <3>1. CASE Len(m) = 0
      <4>1. m = <<>>
        BY <1>1, <3>1
      <4> QED
        BY <4>1, NumberSpelt DEF Magnitude
    <3>2. CASE Len(m) = 1
      <4>1. m[1] \in Byte /\ m[1] # 0
        BY <1>1, <3>2
      <4>5. m = <<m[1]>>
        BY <1>1, <3>2
      <4>2. n = m[1]
        BY <4>1, <4>5, NumberSpelt
      <4> HIDE DEF n
      <4>3. 0 < n /\ n < 256
        BY <1>0, <4>1, <4>2 DEF Byte
      <4>4. Magnitude(n) = <<n>>
        BY <1>0, <4>3 DEF Magnitude
      <4> QED
        BY <4>5, <4>2, <4>4
    <3>3. Len(m) \in 0..1
      <4>1. Len(m) \in 0..8 /\ Len(m) <= 1
        BY <1>1, <1>2, Zenon
      <4> HIDE DEF n, e
      <4> QED
        BY SMTT(60), <4>1
    <3> HIDE DEF n
    <3> QED
      BY <3>1, <3>2, <3>3
  <2> HIDE DEF n, e
  <2> QED
    BY <1>2, <2>1, <2>2, <2>3 DEF n, e
<1>3. CASE ~(Len(m) <= 1 /\ n < 24)
  <2> DEFINE info == InfoFor(Len(m))
             p == Padded(m, Width(info))
             b == 32 * major + info
  <2>1. e = <<b>> \o p
    BY <1>3 DEF EncodeLength, LongHeader, InfoFor
  <2>2. info \in 24..27 /\ Width(info) = Extra(m) /\ Len(m) <= Extra(m) /\ Extra(m) \in 1..8
    BY <1>0, <1>1, <1>3, RoomEnough DEF Extra
  <2> HIDE DEF info
  <2>3. b \in Byte /\ b \div 32 = major /\ b % 32 = info
    BY <2>2 DEF Byte
  <2>4. p \in Seq(Byte) /\ Len(p) = Extra(m)
    BY <2>2, ZerosRemoved
  <2> HIDE DEF b, p
  <2>5. /\ e \in Seq(Byte) /\ Len(e) = 1 + Extra(m) /\ e[1] = b
        /\ SubSeq(e, 2, 1 + Extra(m)) = p
    BY <2>1, <2>2, <2>3, <2>4
  <2> QED
    BY <2>2, <2>3, <2>5 DEF p
<1> QED
  BY <1>2, <1>3

\* The bytes e are those of s after the first i.
At(s, i, e) == i + Len(e) <= Len(s) /\ \A j \in 1..Len(e) : s[i + j] = e[j]

\* So are its parts.
LEMMA AtParts ==
  ASSUME NEW s \in Seq(Byte), NEW i \in Nat, NEW a \in Seq(Byte), NEW b \in Seq(Byte)
  PROVE  At(s, i, a \o b) <=> At(s, i, a) /\ At(s, i + Len(a), b)
<1>1. /\ a \o b \in Seq(Byte) /\ Len(a \o b) = Len(a) + Len(b)
      /\ \A j \in 1..Len(a) : (a \o b)[j] = a[j]
      /\ \A j \in 1..Len(b) : (a \o b)[Len(a) + j] = b[j]
  OBVIOUS
<1>2. ASSUME At(s, i, a \o b) PROVE At(s, i, a) /\ At(s, i + Len(a), b)
  <2>1. ASSUME NEW j \in 1..Len(b) PROVE s[i + Len(a) + j] = b[j]
    <3>1. Len(a) + j \in 1..Len(a \o b) /\ i + Len(a) + j = i + (Len(a) + j)
      BY <1>1
    <3> QED
      BY <1>1, <1>2, <3>1 DEF At
  <2>2. ASSUME NEW j \in 1..Len(a) PROVE s[i + j] = a[j]
    <3>1. j \in 1..Len(a \o b)
      BY <1>1
    <3> QED
      BY <1>1, <1>2, <3>1 DEF At
  <2>3. i + Len(a) <= Len(s) /\ i + Len(a) + Len(b) <= Len(s)
    BY <1>1, <1>2 DEF At
  <2> QED
    BY <2>1, <2>2, <2>3 DEF At
<1>3. ASSUME At(s, i, a), At(s, i + Len(a), b) PROVE At(s, i, a \o b)
  <2>1. ASSUME NEW j \in 1..Len(a \o b) PROVE s[i + j] = (a \o b)[j]
    <3>1. CASE j <= Len(a)
      BY <1>1, <1>3, <3>1 DEF At
    <3>2. CASE j > Len(a)
      <4>1. j - Len(a) \in 1..Len(b) /\ i + j = i + Len(a) + (j - Len(a))
            /\ Len(a) + (j - Len(a)) = j
        BY <1>1, <3>2
      <4> QED
        BY <1>1, <1>3, <4>1 DEF At
    <3> QED
      BY <1>1, <3>1, <3>2
  <2> QED
    BY <1>1, <1>3, <2>1 DEF At
<1> QED
  BY <1>2, <1>3

\* _read reads the bytes that are there.
LEMMA ReadAt ==
  ASSUME NEW s \in Seq(Byte), NEW i \in Nat, NEW e \in Seq(Byte), At(s, i, e)
  PROVE  Read(s, Len(e), i) = Done(e, i + Len(e))
<1> DEFINE n == Len(e)
           q == SubSeq(s, i + 1, i + n)
<1>1. n \in Nat /\ i + n <= Len(s) /\ \A j \in 1..n : s[i + j] = e[j]
  BY DEF At
<1>2. e = [j \in 1..n |-> e[j]]
  OBVIOUS
<1>3. q = [j \in 1..n |-> s[i + j]]
  BY <1>1
<1>4. q = e
  BY <1>1, <1>2, <1>3
<1>5. ~(i + n > Len(s))
  BY <1>1
<1> HIDE DEF n, q
<1>6. Read(s, n, i) = Done(q, i + n)
  BY <1>5 DEF Read, q
<1> QED
  BY <1>4, <1>6 DEF n

\* The decoder reads back from a header the type and the number that _encode_length put
\* there (attestation.py:440-462, 484-502).
LEMMA HeaderRead ==
  ASSUME NEW s \in Seq(Byte), NEW i \in Nat, NEW major \in 0..5, NEW m \in Numbers,
         At(s, i, EncodeLength(major, m))
  PROVE  /\ ~(i >= Len(s)) /\ Major(s, i) = major
         /\ Size(s, i) = Done(m, i + Len(EncodeLength(major, m)))
<1> DEFINE e == EncodeLength(major, m)
           x == Extra(m)
           info == Info(s, i)
<1>1. /\ e \in Seq(Byte) /\ Len(e) = 1 + x /\ e[1] \div 32 = major
      /\ x = 0 => e[1] % 32 = NumberOf(m) /\ Magnitude(NumberOf(m)) = m /\ NumberOf(m) < 24
      /\ x > 0 => /\ e[1] % 32 \in 24..27 /\ Width(e[1] % 32) = x /\ Len(m) <= x
                  /\ SubSeq(e, 2, 1 + x) = Padded(m, x)
  BY HeaderParts
<1>2. x \in {0, 1, 2, 4, 8}
  BY DEF Extra, Room
<1>3. /\ i + Len(e) <= Len(s) /\ s[i + 1] = e[1]
      /\ \A j \in 1..Len(e) : s[i + j] = e[j]
  BY <1>1, <1>2 DEF At
<1> HIDE DEF x
<1>4. ~(i >= Len(s)) /\ Major(s, i) = major /\ info = e[1] % 32
  BY <1>1, <1>2, <1>3 DEF Major, Info
<1>5. CASE x = 0
  <2>1. Size(s, i) = Done(Magnitude(info), i + 1)
    BY <1>1, <1>4, <1>5 DEF Size, ReadLength
  <2> QED
    BY <1>1, <1>4, <1>5, <2>1
<1>6. CASE x > 0
  <2> DEFINE p == Padded(m, x)
  <2>1. x \in Nat /\ p \in Seq(Byte) /\ Len(p) = x /\ WithoutZeros(p) = m
    BY <1>1, <1>2, <1>6, ZerosRemoved
  <2>2. At(s, i + 1, p)
    <3>1. ASSUME NEW j \in 1..x PROVE s[i + 1 + j] = p[j]
      <4>1. SubSeq(e, 2, 1 + x)[j] = e[1 + j]
        BY <1>1, <1>2
      <4>2. 1 + j \in 1..Len(e) /\ i + (1 + j) = i + 1 + j
        BY <1>1, <1>2
      <4>3. s[i + 1 + j] = e[1 + j]
        BY <1>3, <4>2
      <4> QED
        BY <1>1, <1>6, <4>1, <4>3
    <3> HIDE DEF p
    <3> QED
      BY <1>1, <1>3, <2>1, <3>1 DEF At
  <2> HIDE DEF p
  <2>3. Read(s, x, i + 1) = Done(p, i + 1 + x)
    <3>1. i + 1 \in Nat
      OBVIOUS
    <3> QED
      BY <2>1, <2>2, <3>1, ReadAt
  <2>4. ~(info < 24) /\ info \in 24..27 /\ Width(info) = x
    BY <1>1, <1>4, <1>6
  <2>5. Size(s, i) = Then(Read(s, x, i + 1), LAMBDA a, j : Done(WithoutZeros(a), j))
    BY <2>4 DEF Size, ReadLength, Then
  <2>6. Size(s, i) = Done(m, i + 1 + x)
    BY <2>1, <2>3, <2>5 DEF Then, Done
  <2> QED
    BY <1>1, <1>2, <1>4, <2>6
<1> QED
  BY <1>2, <1>4, <1>5, <1>6

-----------------------------------------------------------------------------
(* Iteration *)

\* A function on 0..n that begins with base and goes on by step.
Iterates(f, n, A, base, step) ==
  /\ f \in [0..n -> A] /\ f[0] = base
  /\ \A i \in 1..n : f[i] = step[i][f[i - 1]]

\* There is one.
LEMMA Iterated ==
  ASSUME NEW n \in Nat, NEW A, NEW base \in A, NEW step \in [1..n -> [A -> A]]
  PROVE  \E f : Iterates(f, n, A, base, step)
<1> USE DEF Iterates
<1> DEFINE Steps(f, k) == \A i \in 1..k : f[i] = step[i][f[i - 1]]
           S == {k \in 0..n : \E f \in [0..n -> A] : f[0] = base /\ Steps(f, k)}
<1>1. 0 \in S
  <2> DEFINE f == [i \in 0..n |-> base]
  <2>1. f \in [0..n -> A] /\ f[0] = base /\ Steps(f, 0)
    OBVIOUS
  <2> HIDE DEF f
  <2> QED
    BY <2>1
<1>2. ASSUME NEW k \in 0..(n - 1), k \in S PROVE k + 1 \in S
  <2>1. PICK f \in [0..n -> A] : f[0] = base /\ Steps(f, k)
    BY <1>2
  <2> DEFINE g == [f EXCEPT ![k + 1] = step[k + 1][f[k]]]
  <2>2. k + 1 \in 1..n /\ k \in 0..n
    OBVIOUS
  <2>3. g \in [0..n -> A] /\ g[0] = base
    BY <2>1, <2>2
  <2>4. ASSUME NEW i \in 1..(k + 1) PROVE g[i] = step[i][g[i - 1]]
    <3>1. i - 1 \in 0..n /\ i \in 0..n /\ i - 1 # k + 1
      BY <2>2
    <3>2. g[i - 1] = f[i - 1]
      BY <3>1
    <3>3. CASE i = k + 1
      BY <3>1, <3>2, <3>3
    <3>4. CASE i # k + 1
      BY <2>1, <3>1, <3>2, <3>4
    <3> QED
      BY <3>3, <3>4
  <2> HIDE DEF g
  <2>5. Steps(g, k + 1)
    BY <2>4
  <2> QED
    BY <2>2, <2>3, <2>5
<1>3. n \in S
  <2> HIDE DEF S
  <2>1. \A k \in 0..(n - 1) : k \in S => k + 1 \in S
    BY <1>2
  <2>2. \A k \in 0..n : k \in S
    BY <1>1, <2>1, Upward
  <2> QED
    BY <2>2
<1> QED
  BY <1>3

-----------------------------------------------------------------------------
(* Dicts and concatenations *)

\* FlattenSeq concatenates from the left.
LEMMA Flattened ==
  ASSUME NEW ss \in Seq(Seq(Byte))
  PROVE  \E P \in [0..Len(ss) -> Seq(Byte)] :
            /\ P[0] = <<>> /\ FlattenSeq(ss) = P[Len(ss)]
            /\ \A k \in 1..Len(ss) : P[k] = P[k - 1] \o ss[k]
<1> DEFINE n == Len(ss)
           step == [i \in 1..n |-> [a \in Seq(Byte) |-> a \o ss[i]]]
<1>1. n \in Nat /\ \A i \in 1..n : ss[i] \in Seq(Byte)
  OBVIOUS
<1>2. step \in [1..n -> [Seq(Byte) -> Seq(Byte)]]
  BY <1>1
<1>3. PICK P : Iterates(P, n, Seq(Byte), <<>>, step)
  <2>1. <<>> \in Seq(Byte)
    OBVIOUS
  <2> HIDE DEF step, n
  <2> QED
    BY <1>1, <1>2, <2>1, Iterated
<1> USE <1>3 DEF Iterates
<1>4. ASSUME NEW k \in 1..n PROVE P[k] = P[k - 1] \o ss[k]
  <2>0. k - 1 \in 0..n
    BY <1>1
  <2>1. P[k - 1] \in Seq(Byte)
    BY <1>3, <2>0
  <2> QED
    BY <1>3, <2>1
<1>5. FlattenSeq(ss) = P[n]
  <2>1. CASE n = 0
    BY <1>3, <2>1 DEF FlattenSeq
  <2>2. CASE n # 0
    <3> DEFINE Is(f) == f = [i \in 1..n |-> IF i = 1 THEN ss[i] ELSE f[i - 1] \o ss[i]]
               g == CHOOSE f : Is(f)
               h == [i \in 1..n |-> P[i]]
    <3>1. Is(h)
      <4>1. ASSUME NEW i \in 1..n PROVE h[i] = IF i = 1 THEN ss[i] ELSE h[i - 1] \o ss[i]
        <5>1. CASE i = 1
          <6>1. 1 \in 1..n /\ 1 - 1 = 0
            BY <1>1, <5>1
          <6>2. P[1] = P[0] \o ss[1] /\ ss[1] \in Seq(Byte)
            BY <1>1, <1>4, <6>1
          <6> QED
            BY <1>3, <5>1, <6>2
        <5>2. CASE i # 1
          <6>1. i - 1 \in 1..n
            BY <1>1, <5>2
          <6>2. P[i] = P[i - 1] \o ss[i]
            BY <1>4
          <6>3. h[i] = P[i] /\ h[i - 1] = P[i - 1]
            BY <6>1
          <6> HIDE DEF h
          <6> QED
            BY <5>2, <6>2, <6>3
        <5> QED
          BY <5>1, <5>2
      <4> QED
        BY <4>1
    <3>2. Is(g)
      <4> HIDE DEF Is, h
      <4> QED
        BY <3>1
    <3>3. FlattenSeq(ss) = g[n]
      BY <2>2, Zenon DEF FlattenSeq
    <3> HIDE DEF g, h
    <3> DEFINE S == {k \in 0..n : k = 0 \/ g[k] = P[k]}
    <3>4. \A k \in 0..(n - 1) : k \in S => k + 1 \in S
      <4> SUFFICES ASSUME NEW k \in 0..(n - 1), k \in S PROVE k + 1 \in S
        OBVIOUS
      <4>1. k + 1 \in 1..n /\ k + 1 \in 0..n /\ (k + 1) - 1 = k /\ k + 1 # 0
        BY <1>1
      <4>2. g[k + 1] = IF k = 0 THEN ss[k + 1] ELSE g[k] \o ss[k + 1]
        <5>1. g[k + 1] = IF k + 1 = 1 THEN ss[k + 1] ELSE g[(k + 1) - 1] \o ss[k + 1]
          BY <3>2, <4>1
        <5>2. (k + 1 = 1) <=> (k = 0)
          BY <1>1
        <5> QED
          BY <4>1, <5>1, <5>2
      <4>3. P[k + 1] = P[k] \o ss[k + 1]
        <5>1. P[k + 1] = P[(k + 1) - 1] \o ss[k + 1]
          BY <1>4, <4>1
        <5> QED
          BY <4>1, <5>1
      <4>4. CASE k = 0
        <5>1. ss[k + 1] \in Seq(Byte)
          BY <1>1, <4>1
        <5>2. <<>> \o ss[k + 1] = ss[k + 1]
          BY <5>1
        <5>3. g[k + 1] = ss[k + 1] /\ P[k + 1] = ss[k + 1]
          BY <1>3, <4>2, <4>3, <4>4, <5>2
        <5> QED
          BY <4>1, <5>3
      <4>5. CASE k # 0
        <5>1. g[k] = P[k]
          BY <4>5
        <5> QED
          BY <4>1, <4>2, <4>3, <4>5, <5>1
      <4> QED
        BY <4>4, <4>5
    <3>5. 0 \in S
      BY <1>1
    <3> HIDE DEF S
    <3>6. n \in S
      <4>1. \A k \in 0..n : k \in S
        BY <1>1, <3>4, <3>5, Upward
      <4> QED
        BY <1>1, <4>1
    <3> QED
      BY <2>2, <3>3, <3>6 DEF S
  <2> QED
    BY <2>1, <2>2
<1> QED
  BY <1>3, <1>4, <1>5

-----------------------------------------------------------------------------
(* Dicts *)

\* Keys that can be hashed, and dicts from such keys.
Hashable(K) == \A k \in K : k[1] \notin {"list", "dict"}
Dicts(K, V) == {dict \in Seq(K \X V) : Keyed(dict)}

\* Equality of keys is an equivalence.
LEMMA SameKeyEquivalence ==
  ASSUME NEW a, NEW b, NEW c
  PROVE  /\ SameKey(a, a)
         /\ SameKey(a, b) => SameKey(b, a)
         /\ SameKey(a, b) /\ SameKey(b, c) => SameKey(a, c)
BY Zenon DEF SameKey

\* dict[k] = v leaves a dict (attestation.py:403).
LEMMA PutDict ==
  ASSUME NEW K, NEW V, Hashable(K), NEW dict \in Dicts(K, V), NEW k \in K, NEW v \in V
  PROVE  Put(dict, k, v) \in Dicts(K, V)
<1> DEFINE put == Put(dict, k, v)
           n == Len(dict)
<1>1. /\ dict \in Seq(K \X V) /\ n \in Nat /\ Keyed(dict)
      /\ \A i \in 1..n : dict[i] \in K \X V /\ dict[i][1] \in K
  BY DEF Dicts
<1>2. CASE \E i \in 1..n : SameKey(dict[i][1], k)
  <2>1. put = [i \in 1..n |-> IF SameKey(dict[i][1], k) THEN <<dict[i][1], v>> ELSE dict[i]]
    BY <1>2 DEF Put
  <2>2. put \in Seq(K \X V) /\ Len(put) = n
    <3>1. \A i \in 1..n : put[i] \in K \X V
      BY <1>1, <2>1
    <3> HIDE DEF put
    <3> QED
      BY <1>1, <2>1, <3>1
  <2>3. \A i \in 1..n : put[i][1] = dict[i][1]
    BY <1>1, <2>1
  <2> HIDE DEF put
  <2>4. Keyed(put)
    BY <1>1, <2>2, <2>3 DEF Keyed
  <2> QED
    BY <2>2, <2>4 DEF Dicts, put
<1>3. CASE ~\E i \in 1..n : SameKey(dict[i][1], k)
  <2>1. put = Append(dict, <<k, v>>)
    BY <1>3 DEF Put
  <2>2. /\ put \in Seq(K \X V) /\ Len(put) = n + 1 /\ put[n + 1] = <<k, v>>
        /\ \A i \in 1..n : put[i] = dict[i]
    BY <1>1, <2>1
  <2> HIDE DEF put
  <2>3. ASSUME NEW i \in 1..(n + 1) PROVE put[i][1][1] \notin {"list", "dict"}
    <3>1. put[i][1] \in K
      BY <1>1, <2>2
    <3> QED
      BY <3>1 DEF Hashable
  <2>4. ASSUME NEW i \in 1..(n + 1), NEW j \in 1..(n + 1), SameKey(put[i][1], put[j][1])
        PROVE  i = j
    <3>1. CASE i \in 1..n /\ j \in 1..n
      BY <1>1, <2>2, <2>4, <3>1 DEF Keyed
    <3>2. CASE i \in 1..n /\ j = n + 1
      BY <1>3, <2>2, <2>4, <3>2
    <3>3. CASE i = n + 1 /\ j \in 1..n
      <4>1. SameKey(dict[j][1], k)
        BY <2>2, <2>4, <3>3, SameKeyEquivalence
      <4> QED
        BY <1>3, <3>3, <4>1
    <3> QED
      BY <1>1, <3>1, <3>2, <3>3
  <2>5. Keyed(put)
    BY <2>2, <2>3, <2>4 DEF Keyed
  <2> QED
    BY <2>2, <2>5 DEF Dicts, put
<1> QED
  BY <1>2, <1>3

\* The assignments one after the other: the dict after each of them.
LEMMA AssignedIs ==
  ASSUME NEW K, NEW V, Hashable(K), NEW p \in Seq(K \X V)
  PROVE  \E D \in [0..Len(p) -> Dicts(K, V)] :
            /\ D[0] = <<>> /\ Assigned(p) = D[Len(p)]
            /\ \A i \in 1..Len(p) : D[i] = Put(D[i - 1], p[i][1], p[i][2])
<1> DEFINE n == Len(p)
           step == [i \in 1..n |-> [d \in Dicts(K, V) |-> Put(d, p[i][1], p[i][2])]]
<1>1. n \in Nat /\ \A i \in 1..n : p[i][1] \in K /\ p[i][2] \in V
  OBVIOUS
<1>2. step \in [1..n -> [Dicts(K, V) -> Dicts(K, V)]]
  <2>1. \A i \in 1..n : \A d \in Dicts(K, V) : Put(d, p[i][1], p[i][2]) \in Dicts(K, V)
    BY <1>1, PutDict
  <2> QED
    BY <2>1
<1>3. PICK D : Iterates(D, n, Dicts(K, V), <<>>, step)
  <2>1. <<>> \in Dicts(K, V)
    BY DEF Dicts, Keyed
  <2> HIDE DEF step, n
  <2> QED
    BY <1>1, <1>2, <2>1, Iterated
<1> USE <1>3 DEF Iterates
<1>4. ASSUME NEW i \in 1..n PROVE D[i] = Put(D[i - 1], p[i][1], p[i][2])
  <2>0. i - 1 \in 0..n
    BY <1>1
  <2>1. D[i - 1] \in Dicts(K, V)
    BY <1>3, <2>0
  <2> QED
    BY <1>3, <2>1
<1>5. Assigned(p) = D[n]
  <2> DEFINE Is(f) == f = [i \in 0..n |-> IF i = 0 THEN <<>>
                                          ELSE Put(f[i - 1], p[i][1], p[i][2])]
             g == CHOOSE f : Is(f)
  <2>1. Is(D)
    <3>1. ASSUME NEW i \in 0..n
          PROVE  D[i] = IF i = 0 THEN <<>> ELSE Put(D[i - 1], p[i][1], p[i][2])
      BY <1>3, <1>4
    <3> QED
      BY <3>1
  <2>2. Is(g)
    <3> HIDE DEF Is
    <3> QED
      BY <2>1
  <2>3. Assigned(p) = g[n]
    BY Zenon DEF Assigned
  <2> HIDE DEF g
  <2> DEFINE S == {k \in 0..n : g[k] = D[k]}
  <2>4. 0 \in S
    BY <1>1, <1>3, <2>2
  <2>5. \A k \in 0..(n - 1) : k \in S => k + 1 \in S
    <3> SUFFICES ASSUME NEW k \in 0..(n - 1), k \in S PROVE k + 1 \in S
      OBVIOUS
    <3>1. k + 1 \in 1..n /\ k + 1 \in 0..n /\ (k + 1) - 1 = k /\ k + 1 # 0
      BY <1>1
    <3>2. g[k + 1] = Put(g[k], p[k + 1][1], p[k + 1][2])
      BY <2>2, <3>1
    <3>3. D[k + 1] = Put(D[k], p[k + 1][1], p[k + 1][2])
      BY <1>4, <3>1
    <3> QED
      BY <3>1, <3>2, <3>3
  <2> HIDE DEF S
  <2>6. \A k \in 0..n : k \in S
    BY <1>1, <2>4, <2>5, Upward
  <2>7. g[n] = D[n]
    BY <1>1, <2>6 DEF S
  <2> QED
    BY <2>3, <2>7
<1> QED
  BY <1>3, <1>4, <1>5

\* Assigning the items of a dict in their order makes the same dict.
LEMMA AssignedAgain ==
  ASSUME NEW K, NEW V, Hashable(K), NEW p \in Dicts(K, V)
  PROVE  Assigned(p) = p
<1> DEFINE n == Len(p)
<1>1. p \in Seq(K \X V) /\ n \in Nat /\ Keyed(p)
  BY DEF Dicts
<1>2. PICK D \in [0..n -> Dicts(K, V)] :
            /\ D[0] = <<>> /\ Assigned(p) = D[n]
            /\ \A i \in 1..n : D[i] = Put(D[i - 1], p[i][1], p[i][2])
  BY <1>1, AssignedIs
<1> DEFINE S == {k \in 0..n : D[k] = SubSeq(p, 1, k)}
<1>3. 0 \in S
  BY <1>1, <1>2
<1>4. \A k \in 0..(n - 1) : k \in S => k + 1 \in S
  <2> SUFFICES ASSUME NEW k \in 0..(n - 1), k \in S PROVE k + 1 \in S
    OBVIOUS
  <2> DEFINE q == SubSeq(p, 1, k)
  <2>1. k + 1 \in 1..n /\ k + 1 \in 0..n /\ (k + 1) - 1 = k
    BY <1>1
  <2>2. Len(q) = k /\ \A i \in 1..k : q[i] = p[i]
    BY <1>1, <2>1
  <2>3. D[k + 1] = Put(q, p[k + 1][1], p[k + 1][2])
    BY <1>2, <2>1
  <2>4. ~\E i \in 1..Len(q) : SameKey(q[i][1], p[k + 1][1])
    BY <1>1, <2>1, <2>2 DEF Keyed
  <2>5. D[k + 1] = Append(q, <<p[k + 1][1], p[k + 1][2]>>)
    <3> HIDE DEF q
    <3> QED
      BY <2>3, <2>4 DEF Put
  <2>6. p[k + 1] = <<p[k + 1][1], p[k + 1][2]>>
    BY <1>1, <2>1
  <2>7. Append(q, p[k + 1]) = SubSeq(p, 1, k + 1)
    BY <1>1, <2>1
  <2>8. D[k + 1] = SubSeq(p, 1, k + 1)
    <3> HIDE DEF q
    <3> QED
      BY <2>5, <2>6, <2>7
  <2> QED
    BY <2>1, <2>8
<1> HIDE DEF S
<1>5. \A k \in 0..n : k \in S
  BY <1>1, <1>3, <1>4, Upward
<1>6. D[n] = SubSeq(p, 1, n) /\ SubSeq(p, 1, n) = p
  BY <1>1, <1>5 DEF S
<1> QED
  BY <1>2, <1>6

-----------------------------------------------------------------------------
(* Values and their encodings *)

-----------------------------------------------------------------------------
(* Values and what the encoder writes for them *)

\* The recursion that defines the values has a solution.
LEMMA ValuesDef ==
  Values = [d \in 0..MaxDepth |-> Plain \cup (IF d = 0 THEN {} ELSE Nested(Values[d - 1]))]
<1> DEFINE Of(f, d) == Plain \cup (IF d = 0 THEN {} ELSE Nested(f[d - 1]))
           Is(f, k) == f = [d \in 0..k |-> Of(f, d)]
           S == {k \in 0..MaxDepth : \E f : Is(f, k)}
<1>0. MaxDepth \in Nat
  BY DepthAssumption
<1>1. 0 \in S
  <2> DEFINE f == [d \in 0..0 |-> Plain]
  <2>1. Is(f, 0)
    OBVIOUS
  <2> HIDE DEF f, Is
  <2> QED
    BY <1>0, <2>1
<1>2. \A k \in 0..(MaxDepth - 1) : k \in S => k + 1 \in S
  <2> SUFFICES ASSUME NEW k \in 0..(MaxDepth - 1), k \in S PROVE k + 1 \in S
    OBVIOUS
  <2>1. PICK f : Is(f, k)
    OBVIOUS
  <2> DEFINE g == [d \in 0..(k + 1) |-> IF d = k + 1 THEN Of(f, d) ELSE f[d]]
  <2>2. ASSUME NEW d \in 0..(k + 1) PROVE g[d] = Of(g, d)
    <3>1. d # 0 => d - 1 \in 0..(k + 1) /\ d - 1 # k + 1
      BY <1>0
    <3>2. d # 0 => g[d - 1] = f[d - 1]
      BY <3>1
    <3>3. Of(g, d) = Of(f, d)
      BY <3>2
    <3>4. g[d] = Of(f, d)
      <4>1. d # k + 1 => d \in 0..k
        BY <1>0
      <4>2. \A c \in 0..k : f[c] = Of(f, c)
        BY <2>1
      <4> QED
        BY <4>1, <4>2
    <3> QED
      BY <3>3, <3>4
  <2>3. Is(g, k + 1)
    <3>1. g = [d \in 0..(k + 1) |-> g[d]]
      OBVIOUS
    <3> HIDE DEF g, Of
    <3> QED
      BY <2>2, <3>1
  <2>4. k + 1 \in 0..MaxDepth
    BY <1>0
  <2> HIDE DEF g, Is
  <2> QED
    BY <2>3, <2>4
<1> HIDE DEF S
<1>3. MaxDepth \in S
  <2>1. \A k \in 0..MaxDepth : k \in S
    BY <1>0, <1>1, <1>2, Upward
  <2> QED
    BY <1>0, <2>1
<1>4. \E f : Is(f, MaxDepth)
  BY <1>3 DEF S
<1> QED
  BY <1>4, Zenon DEF Values

\* Level by level.
LEMMA ValuesIs ==
  /\ Values[0] = Plain
  /\ \A d \in 1..MaxDepth : Values[d] = Plain \cup Nested(Values[d - 1])
<1>1. MaxDepth \in Nat
  BY DepthAssumption
<1>2. ASSUME NEW d \in 0..MaxDepth
      PROVE  Values[d] = Plain \cup (IF d = 0 THEN {} ELSE Nested(Values[d - 1]))
  BY ValuesDef, Zenon
<1> QED
  BY <1>1, <1>2

\* What a header says of a string or a collection.
Sized(major, body) == EncodeLength(major, Magnitude(Len(body)))

\* The encoding of the items of a list, and of a dict.
Items(inner, l) == [i \in 1..Len(l) |-> inner[l[i]]]
Pairs(inner, p) == [i \in 1..Len(p) |-> inner[p[i][1]] \o inner[p[i][2]]]

\* What the encoder writes for a list and a dict (attestation.py:348-356).
LEMMA EncodeNested ==
  ASSUME NEW inner, NEW l
  PROVE  /\ EncodeValue(<<"list", l>>, inner) = Sized(4, l) \o FlattenSeq(Items(inner, l))
         /\ EncodeValue(<<"dict", l>>, inner) = Sized(5, l) \o FlattenSeq(Pairs(inner, l))
BY DEF EncodeValue, Sized, Items, Pairs

\* The values that have no others inside, one by one.
LEMMA PlainKinds ==
  ASSUME NEW v \in Plain
  PROVE  \/ v = <<"bool", TRUE>> \/ v = <<"bool", FALSE>> \/ v = None
         \/ \E m \in Numbers : v = <<"int", TRUE, m>> \/ v = <<"int", FALSE, m>>
         \/ \E b \in Lists(Byte) : v = <<"bytes", b>>
         \/ \E b \in Lists(Byte) : v = <<"text", b>> /\ Utf8(b)
<1>1. CASE v \in {"bool"} \X BOOLEAN
  <2>1. \E b \in BOOLEAN : v = <<"bool", b>>
    BY <1>1
  <2> QED
    BY <2>1, Zenon
<1>2. CASE v \in Ints
  <2>1. \E b \in BOOLEAN : \E m \in Numbers : v = <<"int", b, m>>
    BY <1>2 DEF Ints
  <2> QED
    BY <2>1, Zenon
<1>3. CASE v \in {"bytes"} \X Lists(Byte)
  <2>1. \E b \in Lists(Byte) : v = <<"bytes", b>>
    BY <1>3
  <2> QED
    BY <2>1, Zenon
<1>4. CASE v \in {"text"} \X {b \in Lists(Byte) : Utf8(b)}
  <2>1. PICK b \in {c \in Lists(Byte) : Utf8(c)} : v = <<"text", b>>
    BY <1>4
  <2> QED
    BY <2>1
<1> QED
  BY <1>1, <1>2, <1>3, <1>4 DEF Plain

\* They do not depend on what is written for values inside.
LEMMA EncodeSame ==
  ASSUME NEW v \in Plain, NEW x, NEW y
  PROVE  EncodeValue(v, x) = EncodeValue(v, y)
<1>1. v[1] \in {"bool", "none", "int", "bytes", "text"}
  BY DEF Plain, Ints, None
<1> QED
  BY <1>1 DEF EncodeValue

\* The recursion of the encoder has a solution: a value without others inside calls nothing.
LEMMA EncoderDef ==
  Encoder = [d \in 0..MaxDepth |-> [v \in Values[d] |-> EncodeValue(v, Encoder[d - 1])]]
<1> DEFINE Of(f, d) == [v \in Values[d] |-> EncodeValue(v, f[d - 1])]
           Is(f, k) == f = [d \in 0..k |-> Of(f, d)]
           S == {k \in 0..MaxDepth : \E f : Is(f, k)}
<1>0. MaxDepth \in Nat
  BY DepthAssumption
<1>1. ASSUME NEW f, NEW g PROVE Of(f, 0) = Of(g, 0)
  <2>1. ASSUME NEW v \in Values[0] PROVE EncodeValue(v, f[0 - 1]) = EncodeValue(v, g[0 - 1])
    <3>1. v \in Plain
      BY ValuesIs
    <3> QED
      BY <3>1, EncodeSame
  <2> QED
    BY <2>1
<1>2. 0 \in S
  <2> DEFINE f == [d \in 0..0 |-> Of(<<>>, 0)]
  <2> HIDE DEF Of
  <2>1. f[0] = Of(f, 0)
    <3>1. f[0] = Of(<<>>, 0)
      OBVIOUS
    <3> HIDE DEF f
    <3> QED
      BY <1>1, <3>1
  <2>2. f = [d \in 0..0 |-> f[d]]
    OBVIOUS
  <2> HIDE DEF f
  <2>3. Is(f, 0)
    BY <2>1, <2>2
  <2> HIDE DEF Is
  <2> QED
    BY <1>0, <2>3
<1>3. \A k \in 0..(MaxDepth - 1) : k \in S => k + 1 \in S
  <2> SUFFICES ASSUME NEW k \in 0..(MaxDepth - 1), k \in S PROVE k + 1 \in S
    OBVIOUS
  <2>1. PICK f : Is(f, k)
    OBVIOUS
  <2> DEFINE g == [d \in 0..(k + 1) |-> IF d = k + 1 THEN Of(f, d) ELSE f[d]]
  <2>2. ASSUME NEW d \in 0..(k + 1) PROVE g[d] = Of(g, d)
    <3>1. d # 0 => d - 1 \in 0..(k + 1) /\ d - 1 # k + 1
      BY <1>0
    <3>2. d # 0 => g[d - 1] = f[d - 1]
      BY <3>1
    <3> HIDE DEF g
    <3>3. Of(g, d) = Of(f, d)
      <4>1. CASE d # 0
        BY <3>2, <4>1
      <4>2. CASE d = 0
        <5> HIDE DEF Of
        <5> QED
          BY <1>1, <4>2
      <4> QED
        BY <4>1, <4>2
    <3> HIDE DEF Of
    <3>4. g[d] = Of(f, d)
      <4>1. d # k + 1 => d \in 0..k
        BY <1>0
      <4>2. \A c \in 0..k : f[c] = Of(f, c)
        BY <2>1
      <4> QED
        BY <4>1, <4>2 DEF g
    <3> QED
      BY <3>3, <3>4
  <2>3. Is(g, k + 1)
    <3>1. g = [d \in 0..(k + 1) |-> g[d]]
      OBVIOUS
    <3> HIDE DEF g, Of
    <3> QED
      BY <2>2, <3>1
  <2>4. k + 1 \in 0..MaxDepth
    BY <1>0
  <2> HIDE DEF g, Is
  <2> QED
    BY <2>3, <2>4
<1> HIDE DEF S
<1>4. MaxDepth \in S
  <2>1. \A k \in 0..MaxDepth : k \in S
    BY <1>0, <1>2, <1>3, Upward
  <2> QED
    BY <1>0, <2>1
<1>5. \E f : Is(f, MaxDepth)
  BY <1>4 DEF S
<1> QED
  BY <1>5, Zenon DEF Encoder

\* Level by level.
LEMMA EncoderIs ==
  ASSUME NEW d \in 0..MaxDepth, NEW v \in Values[d]
  PROVE  Encoder[d][v] = EncodeValue(v, Encoder[d - 1])
<1>1. Encoder[d] = [w \in Values[d] |-> EncodeValue(w, Encoder[d - 1])]
  BY EncoderDef, Zenon
<1> QED
  BY <1>1, Zenon

\* The header of a string or a collection carries its length.
LEMMA SizedIs ==
  ASSUME NEW S, NEW body \in Lists(S)
  PROVE  /\ body \in Seq(S) /\ Len(body) \in Nat /\ Spelt(Len(body))
         /\ Magnitude(Len(body)) \in Numbers /\ NumberOf(Magnitude(Len(body))) = Len(body)
<1>1. body \in Seq(S) /\ Len(body) <= 2147483647
  BY DEF Lists, MaxLength
<1>2. Len(body) \in Nat
  BY <1>1
<1>3. Spelt(Len(body))
  BY <1>1, <1>2 DEF Spelt
<1> QED
  BY <1>1, <1>2, <1>3, MagnitudeIs

\* A header is bytes, one at least.
LEMMA HeaderType ==
  ASSUME NEW major \in 0..5, NEW m \in Numbers
  PROVE  EncodeLength(major, m) \in Seq(Byte) /\ Len(EncodeLength(major, m)) >= 1
<1>1. /\ EncodeLength(major, m) \in Seq(Byte)
      /\ Len(EncodeLength(major, m)) = 1 + Extra(m)
  BY HeaderParts
<1>2. Extra(m) \in Nat
  BY DEF Extra, Room
<1> QED
  BY <1>1, <1>2

\* Strings that are not empty, of the values in V.
Encodes(V, inner) == \A v \in V : inner[v] \in Seq(Byte) /\ Len(inner[v]) >= 1

\* The encodings of the items of a list are strings of bytes.
LEMMA ItemsType ==
  ASSUME NEW V, NEW inner, Encodes(V, inner), NEW l \in Seq(V)
  PROVE  /\ Items(inner, l) \in Seq(Seq(Byte)) /\ Len(Items(inner, l)) = Len(l)
         /\ \A i \in 1..Len(l) : /\ l[i] \in V /\ Items(inner, l)[i] = inner[l[i]]
                                 /\ inner[l[i]] \in Seq(Byte) /\ Len(inner[l[i]]) >= 1
<1>1. Len(l) \in Nat /\ \A i \in 1..Len(l) : l[i] \in V
  OBVIOUS
<1>2. \A i \in 1..Len(l) : inner[l[i]] \in Seq(Byte) /\ Len(inner[l[i]]) >= 1
  BY <1>1 DEF Encodes
<1> QED
  BY <1>1, <1>2 DEF Items

\* So are those of a dict.
LEMMA PairsType ==
  ASSUME NEW V, NEW inner, Encodes(V, inner), NEW p \in Seq(V \X V)
  PROVE  /\ Pairs(inner, p) \in Seq(Seq(Byte)) /\ Len(Pairs(inner, p)) = Len(p)
         /\ \A i \in 1..Len(p) :
              /\ p[i] = <<p[i][1], p[i][2]>> /\ p[i][1] \in V /\ p[i][2] \in V
              /\ Pairs(inner, p)[i] = inner[p[i][1]] \o inner[p[i][2]]
              /\ inner[p[i][1]] \in Seq(Byte) /\ Len(inner[p[i][1]]) >= 1
              /\ inner[p[i][2]] \in Seq(Byte) /\ Len(inner[p[i][2]]) >= 1
<1>1. Len(p) \in Nat /\ \A i \in 1..Len(p) : p[i] \in V \X V
  OBVIOUS
<1>2. \A i \in 1..Len(p) : /\ p[i] = <<p[i][1], p[i][2]>> /\ p[i][1] \in V /\ p[i][2] \in V
  BY <1>1
<1>3. \A i \in 1..Len(p) : /\ inner[p[i][1]] \in Seq(Byte) /\ Len(inner[p[i][1]]) >= 1
                           /\ inner[p[i][2]] \in Seq(Byte) /\ Len(inner[p[i][2]]) >= 1
  BY <1>2 DEF Encodes
<1>4. \A i \in 1..Len(p) : inner[p[i][1]] \o inner[p[i][2]] \in Seq(Byte)
  BY <1>3
<1>5. Pairs(inner, p) = [i \in 1..Len(p) |-> inner[p[i][1]] \o inner[p[i][2]]]
  BY DEF Pairs
<1>6. Pairs(inner, p) \in Seq(Seq(Byte)) /\ Len(Pairs(inner, p)) = Len(p)
  BY <1>1, <1>4, <1>5
<1>7. \A i \in 1..Len(p) : Pairs(inner, p)[i] = inner[p[i][1]] \o inner[p[i][2]]
  BY <1>5
<1> QED
  BY <1>2, <1>3, <1>6, <1>7

\* What is concatenated from strings is a string.
LEMMA FlattenType ==
  ASSUME NEW ss \in Seq(Seq(Byte))
  PROVE  FlattenSeq(ss) \in Seq(Byte)
<1>1. Len(ss) \in 0..Len(ss)
  OBVIOUS
<1>2. PICK P \in [0..Len(ss) -> Seq(Byte)] : FlattenSeq(ss) = P[Len(ss)]
  BY Flattened
<1> QED
  BY <1>1, <1>2

\* What the encoder writes for a value without others inside (attestation.py:335-347).
LEMMA PlainType ==
  ASSUME NEW v \in Plain, NEW inner
  PROVE  EncodeValue(v, inner) \in Seq(Byte) /\ Len(EncodeValue(v, inner)) >= 1
<1>1. ASSUME NEW b \in Byte PROVE <<b>> \in Seq(Byte) /\ Len(<<b>>) >= 1
  OBVIOUS
<1>2. 244 \in Byte /\ 245 \in Byte /\ 246 \in Byte
  BY DEF Byte
<1>3. ASSUME NEW b \in Lists(Byte), NEW major \in 0..5
      PROVE  Sized(major, b) \o b \in Seq(Byte) /\ Len(Sized(major, b) \o b) >= 1
  <2>1. Sized(major, b) \in Seq(Byte) /\ Len(Sized(major, b)) >= 1 /\ b \in Seq(Byte)
    BY SizedIs, HeaderType DEF Sized
  <2> HIDE DEF Sized
  <2> QED
    BY <2>1
<1>4. CASE v = <<"bool", TRUE>>
  <2>1. EncodeValue(v, inner) = <<245>>
    BY <1>4 DEF EncodeValue
  <2> QED
    BY <1>1, <1>2, <2>1
<1>5. CASE v = <<"bool", FALSE>>
  <2>1. EncodeValue(v, inner) = <<244>>
    BY <1>5 DEF EncodeValue
  <2> QED
    BY <1>1, <1>2, <2>1
<1>6. CASE v = None
  <2>1. EncodeValue(v, inner) = <<246>>
    BY <1>6 DEF EncodeValue, None
  <2> QED
    BY <1>1, <1>2, <2>1
<1>7. ASSUME NEW m \in Numbers, v = <<"int", TRUE, m>>
      PROVE  EncodeValue(v, inner) \in Seq(Byte) /\ Len(EncodeValue(v, inner)) >= 1
  <2>1. EncodeValue(v, inner) = EncodeLength(1, m)
    BY <1>7 DEF EncodeValue
  <2> QED
    BY <2>1, HeaderType
<1>8. ASSUME NEW m \in Numbers, v = <<"int", FALSE, m>>
      PROVE  EncodeValue(v, inner) \in Seq(Byte) /\ Len(EncodeValue(v, inner)) >= 1
  <2>1. EncodeValue(v, inner) = EncodeLength(0, m)
    BY <1>8 DEF EncodeValue
  <2> QED
    BY <2>1, HeaderType
<1>9. ASSUME NEW b \in Lists(Byte), v = <<"bytes", b>>
      PROVE  EncodeValue(v, inner) \in Seq(Byte) /\ Len(EncodeValue(v, inner)) >= 1
  <2>1. EncodeValue(v, inner) = Sized(2, b) \o b
    BY <1>9 DEF EncodeValue, Sized
  <2> QED
    BY <1>3, <2>1
<1>10. ASSUME NEW b \in Lists(Byte), v = <<"text", b>>
      PROVE  EncodeValue(v, inner) \in Seq(Byte) /\ Len(EncodeValue(v, inner)) >= 1
  <2>1. EncodeValue(v, inner) = Sized(3, b) \o b
    BY <1>10 DEF EncodeValue, Sized
  <2> QED
    BY <1>3, <2>1
<1> QED
  BY <1>4, <1>5, <1>6, <1>7, <1>8, <1>9, <1>10, PlainKinds

\* What the encoder writes for a value, when it does so for the values inside
\* (attestation.py:335-356).
LEMMA ValueType ==
  ASSUME NEW v, NEW inner,
         v \in Plain \/ \E V : Encodes(V, inner) /\ v \in Nested(V)
  PROVE  EncodeValue(v, inner) \in Seq(Byte) /\ Len(EncodeValue(v, inner)) >= 1
<1>1. ASSUME NEW S, NEW body \in Lists(S), NEW major \in 0..5
      PROVE  Sized(major, body) \in Seq(Byte) /\ Len(Sized(major, body)) >= 1
  BY SizedIs, HeaderType DEF Sized
<1>2. ASSUME NEW a, a \in Seq(Byte), Len(a) >= 1, NEW b, b \in Seq(Byte)
      PROVE  a \o b \in Seq(Byte) /\ Len(a \o b) >= 1
  BY <1>2
<1>3. CASE v \in Plain
  BY <1>3, PlainType
<1>4. ASSUME NEW V, Encodes(V, inner), v \in Nested(V)
      PROVE  EncodeValue(v, inner) \in Seq(Byte) /\ Len(EncodeValue(v, inner)) >= 1
  <2>1. CASE v \in {"list"} \X Lists(V)
    <3>1. PICK l \in Lists(V) : v = <<"list", l>>
      BY <2>1
    <3>2. FlattenSeq(Items(inner, l)) \in Seq(Byte)
      BY <1>4, ItemsType, FlattenType, SizedIs
    <3>3. EncodeValue(v, inner) = Sized(4, l) \o FlattenSeq(Items(inner, l))
      BY <3>1, EncodeNested
    <3>4. Sized(4, l) \in Seq(Byte) /\ Len(Sized(4, l)) >= 1
      BY <1>1
    <3> QED
      BY <1>2, <3>2, <3>3, <3>4
  <2>2. CASE v \in {"dict"} \X {p \in Lists(V \X V) : Keyed(p)}
    <3>1. PICK p \in Lists(V \X V) : v = <<"dict", p>>
      BY <2>2
    <3>2. FlattenSeq(Pairs(inner, p)) \in Seq(Byte)
      BY <1>4, PairsType, FlattenType, SizedIs
    <3>3. EncodeValue(v, inner) = Sized(5, p) \o FlattenSeq(Pairs(inner, p))
      BY <3>1, EncodeNested
    <3>4. Sized(5, p) \in Seq(Byte) /\ Len(Sized(5, p)) >= 1
      BY <1>1
    <3> QED
      BY <1>2, <3>2, <3>3, <3>4
  <2> QED
    BY <1>4, <2>1, <2>2 DEF Nested
<1> QED
  BY <1>3, <1>4

\* The encoder writes a string of bytes for every value, and one byte at least.
LEMMA EncoderType == \A d \in 0..MaxDepth : Encodes(Values[d], Encoder[d])
<1> DEFINE S == {d \in 0..MaxDepth : Encodes(Values[d], Encoder[d])}
<1>1. MaxDepth \in Nat
  BY DepthAssumption
<1>2. 0 \in S
  <2>1. ASSUME NEW v \in Values[0]
        PROVE  Encoder[0][v] \in Seq(Byte) /\ Len(Encoder[0][v]) >= 1
    <3>1. Encoder[0][v] = EncodeValue(v, Encoder[0 - 1])
      BY <1>1, EncoderIs
    <3>2. v \in Plain
      BY ValuesIs
    <3> QED
      BY <3>1, <3>2, ValueType
  <2> QED
    BY <1>1, <2>1 DEF Encodes
<1>3. \A d \in 0..(MaxDepth - 1) : d \in S => d + 1 \in S
  <2> SUFFICES ASSUME NEW d \in 0..(MaxDepth - 1), d \in S PROVE d + 1 \in S
    OBVIOUS
  <2>1. d + 1 \in 0..MaxDepth /\ d + 1 \in 1..MaxDepth /\ (d + 1) - 1 = d
    BY <1>1
  <2>2. Values[d + 1] = Plain \cup Nested(Values[d])
    BY <2>1, ValuesIs
  <2>3. ASSUME NEW v \in Values[d + 1]
        PROVE  Encoder[d + 1][v] \in Seq(Byte) /\ Len(Encoder[d + 1][v]) >= 1
    <3>1. Encoder[d + 1][v] = EncodeValue(v, Encoder[(d + 1) - 1])
      BY <2>1, EncoderIs
    <3>2. Encoder[d + 1][v] = EncodeValue(v, Encoder[d])
      BY <2>1, <3>1
    <3>3. v \in Plain \/ v \in Nested(Values[d])
      BY <2>2
    <3> QED
      BY <3>2, <3>3, ValueType
  <2> QED
    BY <2>1, <2>3 DEF Encodes
<1> HIDE DEF S
<1>4. \A d \in 0..MaxDepth : d \in S
  BY <1>1, <1>2, <1>3, Upward
<1> QED
  BY <1>4 DEF S

-----------------------------------------------------------------------------
(* Decoding what was encoded *)

-----------------------------------------------------------------------------
(* Reading back what was written *)

\* The decoder, task by task (attestation.py:369-419).
LEMMA DecoderStep ==
  ASSUME NEW s \in Seq(Byte), NEW i \in Nat
  PROVE  /\ Decoder(s)[<<"value", 1, i>>] = DecodeNext(s, Decoder(s), i)
         /\ \A n \in Nat : /\ <<"items", n, i>> \in Tasks /\ <<"pairs", n, i>> \in Tasks
                           /\ Decoder(s)[<<"items", n, i>>] = DecodeItems(s, Decoder(s), n, i)
                           /\ Decoder(s)[<<"pairs", n, i>>] = DecodePairs(s, Decoder(s), n, i)
<1> DEFINE D == Decoder(s)
<1>1. ASSUME NEW t \in Tasks PROVE D[t] = Decode(s, D, t)
  BY DecoderDef, Zenon
<1> HIDE DEF D
<1>2. <<"value", 1, i>> \in Tasks /\ \A n \in Nat : <<"items", n, i>> \in Tasks /\ <<"pairs", n, i>> \in Tasks
  BY DEF Tasks
<1>3. D[<<"value", 1, i>>] = DecodeNext(s, D, i)
  BY <1>1, <1>2 DEF Decode
<1>4. ASSUME NEW n \in Nat
      PROVE  /\ D[<<"items", n, i>>] = DecodeItems(s, D, n, i)
             /\ D[<<"pairs", n, i>>] = DecodePairs(s, D, n, i)
  <2>1. D[<<"items", n, i>>] = Decode(s, D, <<"items", n, i>>)
    BY <1>1, <1>2
  <2>2. D[<<"pairs", n, i>>] = Decode(s, D, <<"pairs", n, i>>)
    BY <1>1, <1>2
  <2> QED
    BY <2>1, <2>2 DEF Decode
<1> QED
  BY <1>2, <1>3, <1>4 DEF D

\* A header of one byte is read (attestation.py:411-416).
LEMMA ByteRead ==
  ASSUME NEW s \in Seq(Byte), NEW i \in Nat, NEW later, NEW b \in 244..246, At(s, i, <<b>>)
  PROVE  DecodeNext(s, later, i) = Done(IF b = 244 THEN <<"bool", FALSE>>
                                        ELSE IF b = 245 THEN <<"bool", TRUE>> ELSE None, i + 1)
<1>1. ~(i >= Len(s)) /\ s[i + 1] = b
  BY DEF At
<1>2. Major(s, i) = 7 /\ Info(s, i) = b - 224
  BY <1>1 DEF Major, Info
<1>3. Parts(s, later, i, Size(s, i), DecodeNext(s, later, i))
  BY <1>1, NextParts
<1>4. /\ b = 244 => DecodeNext(s, later, i) = Done(<<"bool", FALSE>>, i + 1)
      /\ b = 245 => DecodeNext(s, later, i) = Done(<<"bool", TRUE>>, i + 1)
      /\ b = 246 => DecodeNext(s, later, i) = Done(None, i + 1)
  BY <1>2, <1>3 DEF Parts
<1> QED
  BY <1>4

\* A string is read after the header with its length (attestation.py:387-391).
LEMMA BytesRead ==
  ASSUME NEW s \in Seq(Byte), NEW i \in Nat, NEW major \in 2..3, NEW b \in Lists(Byte),
         At(s, i, Sized(major, b) \o b)
  PROVE  /\ ~(i >= Len(s)) /\ Major(s, i) = major
         /\ Content(s, Size(s, i)) = Done(b, i + Len(Sized(major, b) \o b))
<1> DEFINE h == Sized(major, b)
           m == Magnitude(Len(b))
<1>1. b \in Seq(Byte) /\ m \in Numbers /\ NumberOf(m) = Len(b)
  BY SizedIs
<1>2. h \in Seq(Byte)
  BY SMTT(60), <1>1, HeaderType DEF Sized
<1>3. At(s, i, h) /\ At(s, i + Len(h), b)
  <2> HIDE DEF h
  <2> QED
    BY <1>1, <1>2, AtParts DEF h
<1>4. ~(i >= Len(s)) /\ Major(s, i) = major /\ Size(s, i) = Done(m, i + Len(h))
  <2>1. h = EncodeLength(major, m) /\ major \in 0..5
    BY DEF Sized
  <2> HIDE DEF h, m
  <2> QED
    BY <1>1, <1>3, <2>1, HeaderRead
<1> HIDE DEF h, m
<1>5. i + Len(h) \in Nat
  BY <1>2
<1>6. Read(s, Len(b), i + Len(h)) = Done(b, (i + Len(h)) + Len(b))
  BY <1>1, <1>3, <1>5, ReadAt
<1>7. (i + Len(h)) + Len(b) = i + Len(h \o b)
  BY <1>1, <1>2
<1>8. Content(s, Size(s, i)) = Read(s, Len(b), i + Len(h))
  BY <1>1, <1>4 DEF Content, Done
<1> QED
  BY <1>4, <1>6, <1>7, <1>8 DEF h

\* A value without others inside is read back.
LEMMA PlainRead ==
  ASSUME NEW s \in Seq(Byte), NEW i \in Nat, NEW later, NEW v \in Plain, NEW inner,
         At(s, i, EncodeValue(v, inner))
  PROVE  DecodeNext(s, later, i) = Done(v, i + Len(EncodeValue(v, inner)))
<1> DEFINE e == EncodeValue(v, inner)
           next == DecodeNext(s, later, i)
           IntIs(k, m) == <<"int", k = 1, m>>
<1>1. ~(i >= Len(s)) => Parts(s, later, i, Size(s, i), next)
  BY NextParts
<1>2. CASE v = <<"bool", TRUE>>
  <2>1. e = <<245>>
    BY <1>2 DEF EncodeValue
  <2>2. next = Done(<<"bool", TRUE>>, i + 1)
    BY <2>1, ByteRead
  <2> QED
    BY <1>2, <2>1, <2>2
<1>3. CASE v = <<"bool", FALSE>>
  <2>1. e = <<244>>
    BY <1>3 DEF EncodeValue
  <2>2. next = Done(<<"bool", FALSE>>, i + 1)
    BY <2>1, ByteRead
  <2> QED
    BY <1>3, <2>1, <2>2
<1>4. CASE v = None
  <2>1. e = <<246>>
    BY <1>4 DEF EncodeValue, None
  <2>2. next = Done(None, i + 1)
    BY <2>1, ByteRead
  <2> QED
    BY <1>4, <2>1, <2>2
<1>5. ASSUME NEW m \in Numbers, NEW major \in 0..1, e = EncodeLength(major, m)
      PROVE  next = Done(IntIs(major, m), i + Len(e))
  <2>1. At(s, i, EncodeLength(major, m)) /\ major \in 0..5
    BY <1>5
  <2>2. /\ ~(i >= Len(s)) /\ Major(s, i) = major
        /\ Size(s, i) = Done(m, i + Len(EncodeLength(major, m)))
    BY <2>1, HeaderRead
  <2>3. next = Made(Size(s, i), <<"int", Major(s, i) = 1, Size(s, i).value>>)
    BY <1>1, <2>2 DEF Parts
  <2> HIDE DEF e, next
  <2> QED
    BY <1>5, <2>2, <2>3 DEF Made, Done
<1>6. ASSUME NEW m \in Numbers, v = <<"int", TRUE, m>>
      PROVE  next = Done(v, i + Len(e))
  <2>1. e = EncodeLength(1, m)
    BY <1>6 DEF EncodeValue
  <2> HIDE DEF IntIs, next
  <2>2. next = Done(IntIs(1, m), i + Len(e))
    BY <1>5, <2>1
  <2>3. IntIs(1, m) = v
    BY <1>6 DEF IntIs
  <2> HIDE DEF e
  <2> QED
    BY <2>2, <2>3
<1>7. ASSUME NEW m \in Numbers, v = <<"int", FALSE, m>>
      PROVE  next = Done(v, i + Len(e))
  <2>1. e = EncodeLength(0, m)
    BY <1>7 DEF EncodeValue
  <2> HIDE DEF IntIs, next
  <2>2. next = Done(IntIs(0, m), i + Len(e))
    BY <1>5, <2>1
  <2>3. (0 = 1) = FALSE
    OBVIOUS
  <2>4. IntIs(0, m) = v
    BY <1>7, <2>3, Zenon DEF IntIs
  <2> HIDE DEF e
  <2> QED
    BY <2>2, <2>4
<1>8. ASSUME NEW b \in Lists(Byte), v = <<"bytes", b>>
      PROVE  next = Done(v, i + Len(e))
  <2>1. e = Sized(2, b) \o b
    BY <1>8 DEF EncodeValue, Sized
  <2>2. /\ ~(i >= Len(s)) /\ Major(s, i) = 2
        /\ Content(s, Size(s, i)) = Done(b, i + Len(e))
    BY <2>1, BytesRead
  <2>3. next = Made(Content(s, Size(s, i)), <<"bytes", Content(s, Size(s, i)).value>>)
    BY <1>1, <2>2 DEF Parts
  <2> HIDE DEF e, next
  <2> QED
    BY <1>8, <2>2, <2>3 DEF Made, Done
<1>9. ASSUME NEW b \in Lists(Byte), v = <<"text", b>>, Utf8(b)
      PROVE  next = Done(v, i + Len(e))
  <2>1. e = Sized(3, b) \o b
    BY <1>9 DEF EncodeValue, Sized
  <2>2. /\ ~(i >= Len(s)) /\ Major(s, i) = 3
        /\ Content(s, Size(s, i)) = Done(b, i + Len(e))
    BY <2>1, BytesRead
  <2>3. next = Made(Content(s, Size(s, i)), <<"text", Content(s, Size(s, i)).value>>)
    BY <1>1, <1>9, <2>2 DEF Parts, Done
  <2> HIDE DEF e, next
  <2> QED
    BY <1>9, <2>2, <2>3 DEF Made, Done
<1> HIDE DEF e, next
<1> QED
  BY <1>2, <1>3, <1>4, <1>6, <1>7, <1>8, <1>9, PlainKinds DEF e, next

\* Every value of V is read back where its encoding is.
Reads(s, V, inner) ==
  \A v \in V, i \in Nat : At(s, i, inner[v]) =>
    Decoder(s)[<<"value", 1, i>>] = Done(v, i + Len(inner[v]))

\* The rest of a list is the next item and the rest after it.
LEMMA RestOf ==
  ASSUME NEW V, NEW l \in Seq(V), NEW k \in 0..(Len(l) - 1)
  PROVE  <<l[k + 1]>> \o SubSeq(l, (k + 1) + 1, Len(l)) = SubSeq(l, k + 1, Len(l))
<1> DEFINE n == Len(l)
           a == SubSeq(l, (k + 1) + 1, n)
           b == SubSeq(l, k + 1, n)
<1>1. n \in Nat /\ l[k + 1] \in V
  OBVIOUS
<1>2. a \in Seq(V) /\ Len(a) = n - (k + 1) /\ \A i \in 1..(n - (k + 1)) : a[i] = l[k + 1 + i]
  BY <1>1
<1>3. b \in Seq(V) /\ Len(b) = n - k /\ \A i \in 1..(n - k) : b[i] = l[k + i]
  BY <1>1
<1> DEFINE c == <<l[k + 1]>> \o a
<1> HIDE DEF a, b
<1>4. c \in Seq(V) /\ Len(c) = n - k /\ c[1] = l[k + 1] /\ \A i \in 2..(n - k) : c[i] = a[i - 1]
  BY <1>1, <1>2
<1>5. ASSUME NEW i \in 1..(n - k) PROVE c[i] = b[i]
  <2>1. CASE i = 1
    BY <1>1, <1>3, <1>4, <2>1
  <2>2. CASE i # 1
    <3>1. i \in 2..(n - k) /\ i - 1 \in 1..(n - (k + 1)) /\ k + 1 + (i - 1) = k + i
      BY <1>1, <2>2
    <3>2. c[i] = a[i - 1]
      BY <1>4, <3>1
    <3>3. a[i - 1] = l[k + 1 + (i - 1)]
      BY <1>2, <3>1
    <3> QED
      BY <1>3, <3>1, <3>2, <3>3
  <2> QED
    BY <2>1, <2>2
<1> HIDE DEF c
<1>6. c = b
  BY <1>3, <1>4, <1>5, SMTT(60)
<1> QED
  BY <1>6 DEF a, b, c

\* The items of a list are read back (attestation.py:396).
LEMMA ItemsRead ==
  ASSUME NEW s \in Seq(Byte), NEW V, NEW inner, Encodes(V, inner), Reads(s, V, inner),
         NEW l \in Seq(V), NEW i \in Nat, At(s, i, FlattenSeq(Items(inner, l)))
  PROVE  Decoder(s)[<<"items", Len(l), i>>] = Done(l, i + Len(FlattenSeq(Items(inner, l))))
<1> DEFINE D == Decoder(s)
           n == Len(l)
           ss == Items(inner, l)
<1>1. /\ ss \in Seq(Seq(Byte)) /\ Len(ss) = n /\ n \in Nat
      /\ \A k \in 1..n : l[k] \in V /\ ss[k] = inner[l[k]] /\ inner[l[k]] \in Seq(Byte)
  BY ItemsType
<1> HIDE DEF ss
<1>2. PICK P \in [0..n -> Seq(Byte)] :
         /\ P[0] = <<>> /\ FlattenSeq(ss) = P[n]
         /\ \A k \in 1..n : P[k] = P[k - 1] \o ss[k]
  <2>1. \E P \in [0..Len(ss) -> Seq(Byte)] :
          /\ P[0] = <<>> /\ FlattenSeq(ss) = P[Len(ss)]
          /\ \A k \in 1..Len(ss) : P[k] = P[k - 1] \o ss[k]
    BY <1>1, Flattened
  <2> QED
    BY <1>1, <2>1
<1> DEFINE after == i + Len(P[n])
           S == {k \in 0..n : /\ At(s, i, P[k])
                              /\ D[<<"items", n - k, i + Len(P[k])>>] =
                                   Done(SubSeq(l, k + 1, n), after)}
<1>3. \A k \in 0..n : P[k] \in Seq(Byte) /\ i + Len(P[k]) \in Nat
  BY <1>2
<1>4. n \in S
  <2>1. At(s, i, P[n])
    BY <1>2 DEF ss
  <2>2. after \in Nat /\ n - n = 0 /\ 0 \in Nat
    BY <1>1, <1>3
  <2>3. D[<<"items", 0, after>>] = DecodeItems(s, D, 0, after)
    <3> HIDE DEF after
    <3> QED
      BY <2>2, DecoderStep
  <2>4. DecodeItems(s, D, 0, after) = Done(<<>>, after)
    BY DEF DecodeItems
  <2>5. SubSeq(l, n + 1, n) = <<>>
    BY <1>1
  <2>6. D[<<"items", n - n, after>>] = Done(SubSeq(l, n + 1, n), after)
    <3> HIDE DEF after, D
    <3> QED
      BY <2>2, <2>3, <2>4, <2>5
  <2>7. n \in 0..n
    BY <1>1
  <2> HIDE DEF D
  <2> QED
    BY <2>1, <2>6, <2>7
<1>5. \A k \in 0..(n - 1) : k + 1 \in S => k \in S
  <2> SUFFICES ASSUME NEW k \in 0..(n - 1), k + 1 \in S PROVE k \in S
    OBVIOUS
  <2> DEFINE j == i + Len(P[k])
             v == l[k + 1]
             e == inner[v]
             next == i + Len(P[k + 1])
             rest == D[<<"items", n - (k + 1), next>>]
  <2>1. /\ k + 1 \in 1..n /\ k \in 0..n /\ k + 1 \in 0..n /\ (k + 1) - 1 = k
        /\ n - k \in Nat /\ n - k # 0 /\ (n - k) - 1 = n - (k + 1)
    BY <1>1, SMTT(60)
  <2>2. v \in V /\ e \in Seq(Byte) /\ P[k] \in Seq(Byte) /\ j \in Nat
    BY <1>1, <1>3, <2>1
  <2>3. P[k + 1] = P[k] \o e
    <3>1. P[k + 1] = P[(k + 1) - 1] \o ss[k + 1]
      BY <1>2, <2>1
    <3> QED
      BY <1>1, <2>1, <3>1
  <2>4. At(s, i, P[k + 1]) /\ rest = Done(SubSeq(l, (k + 1) + 1, n), after)
    OBVIOUS
  <2> HIDE DEF v, e, rest
  <2>5. next = j + Len(e)
    BY <2>2, <2>3
  <2>6. At(s, i, P[k]) /\ At(s, j, e)
    BY <2>2, <2>3, <2>4, AtParts, SMTT(60)
  <2> HIDE DEF j, next, after, D
  <2>7. DecodeNext(s, D, j) = Done(v, next)
    <3>1. D[<<"value", 1, j>>] = Done(v, j + Len(e))
      BY <2>2, <2>6 DEF Reads, e, D
    <3> QED
      BY <2>2, <2>5, <3>1, DecoderStep DEF D
  <2>8. D[<<"items", n - k, j>>] = Done(<<v>> \o SubSeq(l, (k + 1) + 1, n), after)
    <3>1. D[<<"items", n - k, j>>] = DecodeItems(s, D, n - k, j)
      BY <2>1, <2>2, DecoderStep DEF D
    <3>2. DecodeItems(s, D, n - k, j) = Made(rest, <<v>> \o rest.value)
      <4> DEFINE r == DecodeNext(s, D, j)
                 other == D[<<"items", (n - k) - 1, r.next>>]
      <4>1. r.error = "none" /\ r.value = v /\ r.next = next
        <5>1. /\ Done(v, next).error = "none" /\ Done(v, next).value = v
              /\ Done(v, next).next = next
          BY DoneParts, SMTT(30)
        <5> QED
          BY <2>7, <5>1, SMTT(30)
      <4>2. DecodeItems(s, D, n - k, j) =
              IF r.error = "none" THEN Made(other, <<r.value>> \o other.value) ELSE r
        BY <2>1, ItemsParts, ZenonT(60)
      <4>3. other = rest
        BY <2>1, <4>1 DEF rest
      <4> HIDE DEF r, other
      <4> QED
        BY <4>1, <4>2, <4>3
    <3> QED
      BY <2>4, <3>1, <3>2, SMTT(60) DEF Made, Done
  <2>9. <<v>> \o SubSeq(l, (k + 1) + 1, n) = SubSeq(l, k + 1, n)
    BY RestOf DEF v
  <2> QED
    BY <2>1, <2>6, <2>8, <2>9 DEF j
<1> HIDE DEF S
<1>6. 0 \in S
  <2>1. \A k \in 0..n : k \in S
    BY <1>1, <1>4, <1>5, Downward
  <2> QED
    BY <1>1, <2>1
<1>7. D[<<"items", n, i>>] = Done(l, after)
  <2>1. n - 0 = n /\ i + Len(P[0]) = i /\ SubSeq(l, 0 + 1, n) = l
    BY <1>1, <1>2
  <2> QED
    BY <1>6, <2>1 DEF S
<1> QED
  BY <1>2, <1>7 DEF ss

\* The pairs of a dict are read back (attestation.py:401-403).
LEMMA PairsRead ==
  ASSUME NEW s \in Seq(Byte), NEW V, NEW inner, Encodes(V, inner), Reads(s, V, inner),
         NEW p \in Seq(V \X V), \A k \in 1..Len(p) : p[k][1][1] \notin {"list", "dict"},
         NEW i \in Nat, At(s, i, FlattenSeq(Pairs(inner, p)))
  PROVE  Decoder(s)[<<"pairs", Len(p), i>>] = Done(p, i + Len(FlattenSeq(Pairs(inner, p))))
<1> DEFINE D == Decoder(s)
           n == Len(p)
           ss == Pairs(inner, p)
<1>1. /\ ss \in Seq(Seq(Byte)) /\ Len(ss) = n /\ n \in Nat
      /\ \A k \in 1..n : /\ p[k] = <<p[k][1], p[k][2]>> /\ p[k][1] \in V /\ p[k][2] \in V
                         /\ ss[k] = inner[p[k][1]] \o inner[p[k][2]]
                         /\ inner[p[k][1]] \in Seq(Byte) /\ inner[p[k][2]] \in Seq(Byte)
  <2>1. /\ Pairs(inner, p) \in Seq(Seq(Byte)) /\ Len(Pairs(inner, p)) = Len(p)
        /\ \A k \in 1..Len(p) :
              /\ p[k] = <<p[k][1], p[k][2]>> /\ p[k][1] \in V /\ p[k][2] \in V
              /\ Pairs(inner, p)[k] = inner[p[k][1]] \o inner[p[k][2]]
              /\ inner[p[k][1]] \in Seq(Byte) /\ Len(inner[p[k][1]]) >= 1
              /\ inner[p[k][2]] \in Seq(Byte) /\ Len(inner[p[k][2]]) >= 1
    BY PairsType, Zenon
  <2>2. Len(p) \in Nat
    OBVIOUS
  <2> QED
    BY <2>1, <2>2, Zenon
<1> HIDE DEF ss
<1>2. PICK P \in [0..n -> Seq(Byte)] :
         /\ P[0] = <<>> /\ FlattenSeq(ss) = P[n]
         /\ \A k \in 1..n : P[k] = P[k - 1] \o ss[k]
  <2>1. \E P \in [0..Len(ss) -> Seq(Byte)] :
          /\ P[0] = <<>> /\ FlattenSeq(ss) = P[Len(ss)]
          /\ \A k \in 1..Len(ss) : P[k] = P[k - 1] \o ss[k]
    BY <1>1, Flattened
  <2> QED
    BY <1>1, <2>1
<1> DEFINE after == i + Len(P[n])
           S == {k \in 0..n : /\ At(s, i, P[k])
                              /\ D[<<"pairs", n - k, i + Len(P[k])>>] =
                                   Done(SubSeq(p, k + 1, n), after)}
<1>3. \A k \in 0..n : P[k] \in Seq(Byte) /\ i + Len(P[k]) \in Nat
  BY <1>2
<1>4. n \in S
  <2>1. At(s, i, P[n])
    BY <1>2 DEF ss
  <2>2. after \in Nat /\ n - n = 0 /\ 0 \in Nat
    BY <1>1, <1>3
  <2>3. D[<<"pairs", 0, after>>] = DecodePairs(s, D, 0, after)
    <3> HIDE DEF after
    <3> QED
      BY <2>2, DecoderStep
  <2>4. DecodePairs(s, D, 0, after) = Done(<<>>, after)
    BY DEF DecodePairs
  <2>5. SubSeq(p, n + 1, n) = <<>>
    BY <1>1
  <2>6. D[<<"pairs", n - n, after>>] = Done(SubSeq(p, n + 1, n), after)
    <3> HIDE DEF after, D
    <3> QED
      BY <2>2, <2>3, <2>4, <2>5
  <2>7. n \in 0..n
    BY <1>1
  <2> HIDE DEF D
  <2> QED
    BY <2>1, <2>6, <2>7
<1>5. \A k \in 0..(n - 1) : k + 1 \in S => k \in S
  <2> SUFFICES ASSUME NEW k \in 0..(n - 1), k + 1 \in S PROVE k \in S
    OBVIOUS
  <2> DEFINE j == i + Len(P[k])
             key == p[k + 1][1]
             val == p[k + 1][2]
             a == inner[key]
             b == inner[val]
             middle == j + Len(a)
             next == i + Len(P[k + 1])
             rest == D[<<"pairs", n - (k + 1), next>>]
  <2>1. /\ k + 1 \in 1..n /\ k \in 0..n /\ k + 1 \in 0..n /\ (k + 1) - 1 = k
        /\ n - k \in Nat /\ n - k # 0 /\ (n - k) - 1 = n - (k + 1)
    BY SMTT(60), <1>1
  <2>2. /\ key \in V /\ val \in V /\ a \in Seq(Byte) /\ b \in Seq(Byte)
        /\ P[k] \in Seq(Byte) /\ j \in Nat /\ p[k + 1] = <<key, val>>
        /\ key[1] \notin {"list", "dict"}
    BY <1>1, <1>3, <2>1
  <2>3. P[k + 1] = P[k] \o (a \o b)
    <3>1. P[k + 1] = P[(k + 1) - 1] \o ss[k + 1]
      BY <1>2, <2>1, Zenon
    <3> QED
      BY <1>1, <2>1, <3>1, Zenon
  <2>4. At(s, i, P[k + 1]) /\ rest = Done(SubSeq(p, (k + 1) + 1, n), after)
    OBVIOUS
  <2> HIDE DEF key, val, a, b, rest
  <2>11. /\ a \o b \in Seq(Byte) /\ Len(a \o b) = Len(a) + Len(b) /\ middle \in Nat
         /\ Len(a) \in Nat /\ Len(b) \in Nat /\ Len(P[k]) \in Nat
    <3>1. Len(a) \in Nat /\ Len(b) \in Nat /\ Len(P[k]) \in Nat
      <4>1. ASSUME NEW z \in Seq(Byte) PROVE Len(z) \in Nat
        OBVIOUS
      <4> QED
        BY <2>2, <4>1, Zenon
    <3>2. a \o b \in Seq(Byte) /\ Len(a \o b) = Len(a) + Len(b)
      BY <2>2
    <3> HIDE DEF j
    <3>3. middle \in Nat
      BY <2>2, <3>1
    <3> QED
      BY <3>1, <3>2, <3>3
  <2>5. next = middle + Len(b)
    <3>1. Len(P[k + 1]) = Len(P[k]) + Len(a \o b)
      BY <2>2, <2>3, <2>11
    <3>2. ASSUME NEW x \in Nat, NEW y \in Nat, NEW z \in Nat
          PROVE  i + (x + (y + z)) = ((i + x) + y) + z
      OBVIOUS
    <3>3. i + (Len(P[k]) + (Len(a) + Len(b))) = middle + Len(b)
      BY ZenonT(60), <2>11, <3>2
    <3>4. Len(P[k + 1]) = Len(P[k]) + (Len(a) + Len(b))
      BY <2>11, <3>1
    <3> QED
      BY <3>3, <3>4
  <2>6. At(s, i, P[k]) /\ At(s, j, a) /\ At(s, middle, b)
    <3>1. At(s, i, P[k]) /\ At(s, j, a \o b)
      <4>1. At(s, i, P[k] \o (a \o b))
        BY <2>3, <2>4
      <4> QED
        BY <2>2, <2>11, <4>1, AtParts
    <3> HIDE DEF j
    <3> QED
      BY <2>2, <3>1, AtParts DEF middle
  <2> HIDE DEF j, middle, next, after, D
  <2>7. DecodeNext(s, D, j) = Done(key, middle)
    <3>1. D[<<"value", 1, j>>] = Done(key, j + Len(a))
      BY <2>2, <2>6 DEF Reads, a, D
    <3> QED
      BY <2>2, <3>1, DecoderStep DEF D, middle
  <2>8. D[<<"value", 1, middle>>] = Done(val, next)
    <3>1. D[<<"value", 1, middle>>] = Done(val, middle + Len(b))
      BY <2>2, <2>6, <2>11, SMTT(60) DEF Reads, b, D
    <3> QED
      BY <2>5, <3>1, Zenon
  <2>9. D[<<"pairs", n - k, j>>] = Done(<<<<key, val>>>> \o SubSeq(p, (k + 1) + 1, n), after)
    <3>1. D[<<"pairs", n - k, j>>] = DecodePairs(s, D, n - k, j)
      BY <2>1, <2>2, DecoderStep DEF D
    <3>2. DecodePairs(s, D, n - k, j) = Made(rest, <<<<key, val>>>> \o rest.value)
      <4> DEFINE r == DecodeNext(s, D, j)
                 v == D[<<"value", 1, r.next>>]
                 other == D[<<"pairs", (n - k) - 1, v.next>>]
      <4>1. r.error = "none" /\ r.value = key /\ r.next = middle
        BY <2>7 DEF Done
      <4>2. v.error = "none" /\ v.value = val /\ v.next = next
        <5>1. /\ Done(val, next).error = "none" /\ Done(val, next).value = val
              /\ Done(val, next).next = next
          BY DoneParts, SMTT(30)
        <5> QED
          BY <2>8, <4>1, <5>1, SMTT(30)
      <4>3. DecodePairs(s, D, n - k, j) =
              IF r.error # "none" THEN r
              ELSE IF v.error # "none" THEN v
              ELSE IF r.value[1] \in {"list", "dict"} THEN Raise("TypeError")
              ELSE Made(other, <<<<r.value, v.value>>>> \o other.value)
        BY <2>1, PairsParts, ZenonT(60)
      <4>4. other = rest
        BY <2>1, <4>2 DEF rest
      <4> HIDE DEF r, v, other
      <4> QED
        BY <2>2, <4>1, <4>2, <4>3, <4>4
    <3> QED
      BY <2>4, <3>1, <3>2 DEF Made, Done
  <2>10. <<<<key, val>>>> \o SubSeq(p, (k + 1) + 1, n) = SubSeq(p, k + 1, n)
    BY <2>2, RestOf
  <2> QED
    BY <2>1, <2>6, <2>9, <2>10 DEF j
<1> HIDE DEF S
<1>6. 0 \in S
  <2>1. \A k \in 0..n : k \in S
    BY <1>1, <1>4, <1>5, Downward
  <2> QED
    BY <1>1, <2>1
<1>7. D[<<"pairs", n, i>>] = Done(p, after)
  <2>1. n - 0 = n /\ i + Len(P[0]) = i /\ SubSeq(p, 0 + 1, n) = p
    BY <1>1, <1>2
  <2> QED
    BY <1>6, <2>1 DEF S
<1> QED
  BY <1>2, <1>7 DEF ss

\* A list or dict is read back, if the values inside are (attestation.py:348-356, 393-405).
LEMMA NestedRead ==
  ASSUME NEW s \in Seq(Byte), NEW V, NEW inner, Encodes(V, inner), Reads(s, V, inner),
         NEW v \in Nested(V), NEW i \in Nat, At(s, i, EncodeValue(v, inner))
  PROVE  Decoder(s)[<<"value", 1, i>>] = Done(v, i + Len(EncodeValue(v, inner)))
<1> DEFINE D == Decoder(s)
           r == Size(s, i)
<1>1. ASSUME NEW S, NEW l \in Lists(S), NEW major \in 4..5, NEW f \in Seq(Byte),
             At(s, i, Sized(major, l) \o f)
      PROVE  LET h == Sized(major, l)
             IN  /\ At(s, i + Len(h), f) /\ i + Len(h) \in Nat
                 /\ (i + Len(h)) + Len(f) = i + Len(h \o f)
                 /\ ~(i >= Len(s)) /\ Major(s, i) = major
                 /\ r.error = "none" /\ NumberOf(r.value) = Len(l) /\ r.next = i + Len(h)
  <2> DEFINE m == Magnitude(Len(l))
             h == Sized(major, l)
  <2>1. m \in Numbers /\ NumberOf(m) = Len(l) /\ major \in 0..5 /\ h = EncodeLength(major, m)
    BY SizedIs DEF Sized
  <2> HIDE DEF h, m, r
  <2>2. h \in Seq(Byte)
    BY <2>1, HeaderType
  <2>3. At(s, i, h) /\ At(s, i + Len(h), f)
    BY <1>1, <2>2, AtParts DEF h
  <2>4. ~(i >= Len(s)) /\ Major(s, i) = major /\ r = Done(m, i + Len(h))
    BY <2>1, <2>3, HeaderRead DEF r
  <2>5. i + Len(h) \in Nat /\ (i + Len(h)) + Len(f) = i + Len(h \o f)
    BY <2>2
  <2> QED
    BY <2>1, <2>3, <2>4, <2>5 DEF Done, h
<1>2. ~(i >= Len(s)) => Parts(s, D, i, r, D[<<"value", 1, i>>])
  BY NextParts, DecoderStep
<1> HIDE DEF D, r
<1>3. ASSUME NEW l \in Lists(V), v = <<"list", l>>
      PROVE  D[<<"value", 1, i>>] = Done(v, i + Len(EncodeValue(v, inner)))
  <2> DEFINE f == FlattenSeq(Items(inner, l))
             h == Sized(4, l)
             j == i + Len(h)
  <2>1. EncodeValue(v, inner) = h \o f
    BY <1>3, EncodeNested
  <2>2. l \in Seq(V) /\ f \in Seq(Byte)
    BY SizedIs, ItemsType, FlattenType
  <2> HIDE DEF f, h
  <2>3. /\ At(s, j, f) /\ j \in Nat /\ j + Len(f) = i + Len(h \o f)
        /\ ~(i >= Len(s)) /\ Major(s, i) = 4
        /\ r.error = "none" /\ NumberOf(r.value) = Len(l) /\ r.next = j
    BY <1>1, <2>1, <2>2 DEF h
  <2> HIDE DEF j
  <2>4. D[<<"items", Len(l), j>>] = Done(l, j + Len(f))
    BY <2>2, <2>3, ItemsRead DEF f, D
  <2>5. Several(D, "items", r) = Done(l, j + Len(f))
    BY <2>3, <2>4 DEF Several
  <2>6. D[<<"value", 1, i>>] = Made(Several(D, "items", r),
                                    <<"list", Several(D, "items", r).value>>)
    BY <1>2, <2>3 DEF Parts
  <2>7. D[<<"value", 1, i>>] = Done(v, j + Len(f))
    BY <1>3, <2>5, <2>6 DEF Made, Done
  <2> QED
    BY <2>1, <2>3, <2>7
<1>4. ASSUME NEW p \in Lists(V \X V), Keyed(p), v = <<"dict", p>>
      PROVE  D[<<"value", 1, i>>] = Done(v, i + Len(EncodeValue(v, inner)))
  <2> DEFINE f == FlattenSeq(Pairs(inner, p))
             h == Sized(5, p)
             j == i + Len(h)
  <2>1. EncodeValue(v, inner) = h \o f
    BY <1>4, EncodeNested
  <2>2. p \in Seq(V \X V) /\ f \in Seq(Byte)
    BY SizedIs, PairsType, FlattenType
  <2> HIDE DEF f, h
  <2>3. /\ At(s, j, f) /\ j \in Nat /\ j + Len(f) = i + Len(h \o f)
        /\ ~(i >= Len(s)) /\ Major(s, i) = 5
        /\ r.error = "none" /\ NumberOf(r.value) = Len(p) /\ r.next = j
    BY <1>1, <2>1, <2>2 DEF h
  <2> HIDE DEF j
  <2>4. \A k \in 1..Len(p) : p[k][1][1] \notin {"list", "dict"}
    BY <1>4 DEF Keyed
  <2>5. D[<<"pairs", Len(p), j>>] = Done(p, j + Len(f))
    BY SMTT(60), <2>2, <2>3, <2>4, PairsRead DEF f, D
  <2>6. Several(D, "pairs", r) = Done(p, j + Len(f))
    BY <2>3, <2>5 DEF Several
  <2>7. Assigned(p) = p
    <3> DEFINE K == {k \in V : k[1] \notin {"list", "dict"}}
    <3>1. Hashable(K)
      BY DEF Hashable
    <3>2. p \in Dicts(K, V)
      <4>1. \A k \in 1..Len(p) : p[k] \in K \X V
        BY <2>2, <2>4
      <4> HIDE DEF K
      <4>2. p \in Seq(K \X V)
        BY <2>2, <4>1
      <4> QED
        BY <1>4, <4>2 DEF Dicts
    <3> HIDE DEF K
    <3> QED
      BY <3>1, <3>2, AssignedAgain
  <2>8. D[<<"value", 1, i>>] = Made(Several(D, "pairs", r),
                                    <<"dict", Assigned(Several(D, "pairs", r).value)>>)
    BY <1>2, <2>3 DEF Parts
  <2>9. D[<<"value", 1, i>>] = Done(v, j + Len(f))
    BY <1>4, <2>6, <2>7, <2>8 DEF Made, Done
  <2> QED
    BY <2>1, <2>3, <2>9
<1>5. \/ \E l \in Lists(V) : v = <<"list", l>>
      \/ \E p \in Lists(V \X V) : Keyed(p) /\ v = <<"dict", p>>
  <2>1. CASE v \in {"list"} \X Lists(V)
    BY <2>1
  <2>2. CASE v \in {"dict"} \X {p \in Lists(V \X V) : Keyed(p)}
    BY <2>2
  <2> QED
    BY <2>1, <2>2 DEF Nested
<1> QED
  BY <1>3, <1>4, <1>5 DEF D

\* The decoder reads back every value where its encoding is, at any depth.
LEMMA ReadsBack ==
  ASSUME NEW s \in Seq(Byte)
  PROVE  \A d \in 0..MaxDepth : Reads(s, Values[d], Encoder[d])
<1> DEFINE S == {d \in 0..MaxDepth : Reads(s, Values[d], Encoder[d])}
<1>1. MaxDepth \in Nat
  BY DepthAssumption
<1>2. ASSUME NEW v \in Plain, NEW inner, NEW i \in Nat, At(s, i, EncodeValue(v, inner))
      PROVE  Decoder(s)[<<"value", 1, i>>] = Done(v, i + Len(EncodeValue(v, inner)))
  BY <1>2, PlainRead, DecoderStep
<1>3. 0 \in S
  <2>1. ASSUME NEW v \in Values[0], NEW i \in Nat, At(s, i, Encoder[0][v])
        PROVE  Decoder(s)[<<"value", 1, i>>] = Done(v, i + Len(Encoder[0][v]))
    <3>1. Encoder[0][v] = EncodeValue(v, Encoder[0 - 1]) /\ v \in Plain
      BY <1>1, EncoderIs, ValuesIs
    <3> QED
      BY <1>2, <2>1, <3>1
  <2> QED
    BY <1>1, <2>1 DEF Reads
<1>4. \A d \in 0..(MaxDepth - 1) : d \in S => d + 1 \in S
  <2> SUFFICES ASSUME NEW d \in 0..(MaxDepth - 1), d \in S PROVE d + 1 \in S
    OBVIOUS
  <2>1. /\ d + 1 \in 0..MaxDepth /\ d + 1 \in 1..MaxDepth /\ (d + 1) - 1 = d
        /\ d \in 0..MaxDepth
    BY <1>1
  <2>2. Values[d + 1] = Plain \cup Nested(Values[d])
    BY <2>1, ValuesIs
  <2>3. Encodes(Values[d], Encoder[d]) /\ Reads(s, Values[d], Encoder[d])
    BY <2>1, EncoderType
  <2>4. ASSUME NEW v \in Values[d + 1], NEW i \in Nat, At(s, i, Encoder[d + 1][v])
        PROVE  Decoder(s)[<<"value", 1, i>>] = Done(v, i + Len(Encoder[d + 1][v]))
    <3>1. Encoder[d + 1][v] = EncodeValue(v, Encoder[(d + 1) - 1])
      BY <2>1, EncoderIs
    <3>2. Encoder[d + 1][v] = EncodeValue(v, Encoder[d])
      BY <2>1, <3>1
    <3>3. CASE v \in Plain
      BY <1>2, <2>4, <3>2, <3>3
    <3>4. CASE v \in Nested(Values[d])
      BY <2>3, <2>4, <3>2, <3>4, NestedRead
    <3> QED
      BY <2>2, <3>3, <3>4
  <2> QED
    BY <2>1, <2>4 DEF Reads
<1> HIDE DEF S
<1>5. \A d \in 0..MaxDepth : d \in S
  BY <1>1, <1>3, <1>4, Upward
<1> QED
  BY <1>5 DEF S

-----------------------------------------------------------------------------
(* Deeper values *)

-----------------------------------------------------------------------------
(* Deeper levels: the same values, written the same *)

\* The lists and dicts of more values are more.
LEMMA NestedGrows ==
  ASSUME NEW V, NEW W, V \subseteq W
  PROVE  Nested(V) \subseteq Nested(W)
<1>1. Seq(V) \subseteq Seq(W)
  OBVIOUS
<1>2. ASSUME NEW p \in Seq(V \X V) PROVE p \in Seq(W \X W)
  <2>1. \A i \in 1..Len(p) : p[i] \in W \X W
    OBVIOUS
  <2> QED
    BY <2>1
<1>3. Lists(V) \subseteq Lists(W) /\ Lists(V \X V) \subseteq Lists(W \X W)
  BY <1>1, <1>2 DEF Lists
<1> QED
  BY <1>3 DEF Nested

\* A list or dict is written the same when the values inside are.
LEMMA NestedSame ==
  ASSUME NEW V, NEW e, NEW f, \A v \in V : e[v] = f[v], NEW v \in Nested(V)
  PROVE  EncodeValue(v, e) = EncodeValue(v, f)
<1>1. CASE v \in {"list"} \X Lists(V)
  <2>1. PICK l \in Lists(V) : v = <<"list", l>>
    BY <1>1
  <2>2. \A i \in 1..Len(l) : l[i] \in V
    BY SizedIs
  <2>3. Items(e, l) = Items(f, l)
    BY <2>2 DEF Items
  <2> QED
    BY <2>1, <2>3, EncodeNested
<1>2. CASE v \in {"dict"} \X {p \in Lists(V \X V) : Keyed(p)}
  <2>1. PICK p \in Lists(V \X V) : v = <<"dict", p>>
    BY <1>2
  <2>2. \A i \in 1..Len(p) : p[i] \in V \X V
    BY SizedIs
  <2>3. \A i \in 1..Len(p) : p[i][1] \in V /\ p[i][2] \in V
    BY <2>2
  <2>4. Pairs(e, p) = Pairs(f, p)
    BY <2>3 DEF Pairs
  <2> QED
    BY <2>1, <2>4, EncodeNested
<1> QED
  BY <1>1, <1>2 DEF Nested

\* One level deeper.
Grows(d) == /\ Values[d] \subseteq Values[d + 1]
            /\ \A v \in Values[d] : Encoder[d + 1][v] = Encoder[d][v]

\* A value is one at each deeper level, and is written the same there.
LEMMA Deeper == \A d \in 0..(MaxDepth - 1) : Grows(d)
<1> DEFINE S == {d \in 0..MaxDepth : d < MaxDepth => Grows(d)}
<1>1. MaxDepth \in Nat
  BY DepthAssumption
<1>2. ASSUME NEW d \in 1..MaxDepth
      PROVE  /\ Values[d] = Plain \cup Nested(Values[d - 1])
             /\ \A v \in Values[d] : Encoder[d][v] = EncodeValue(v, Encoder[d - 1])
  <2>1. d \in 0..MaxDepth
    BY <1>1
  <2> QED
    BY <2>1, ValuesIs, EncoderIs
<1>3. 0 \in S
  <2> SUFFICES ASSUME 0 < MaxDepth PROVE Grows(0)
    BY <1>1
  <2>1. 0 + 1 = 1 /\ 1 - 1 = 0 /\ 1 \in 1..MaxDepth /\ 0 \in 0..MaxDepth
    BY <1>1
  <2>2. Values[0] = Plain /\ Values[1] = Plain \cup Nested(Values[0])
    BY <1>2, <2>1, ValuesIs
  <2>3. ASSUME NEW v \in Values[0] PROVE Encoder[1][v] = Encoder[0][v]
    <3>1. Encoder[0][v] = EncodeValue(v, Encoder[0 - 1])
      BY <2>1, EncoderIs
    <3>2. Encoder[1][v] = EncodeValue(v, Encoder[0])
      BY <1>2, <2>1, <2>2
    <3> QED
      BY <2>2, <3>1, <3>2, EncodeSame
  <2> QED
    BY <2>1, <2>2, <2>3 DEF Grows
<1>4. \A d \in 0..(MaxDepth - 1) : d \in S => d + 1 \in S
  <2> SUFFICES ASSUME NEW d \in 0..(MaxDepth - 1), d \in S, d + 1 < MaxDepth
               PROVE  Grows(d + 1)
    BY <1>1
  <2>1. /\ d + 1 \in 1..MaxDepth /\ (d + 1) + 1 \in 1..MaxDepth
        /\ (d + 1) - 1 = d /\ ((d + 1) + 1) - 1 = d + 1
    BY <1>1
  <2>2. Grows(d)
    BY <1>1
  <2>3. /\ Values[d + 1] = Plain \cup Nested(Values[d])
        /\ Values[(d + 1) + 1] = Plain \cup Nested(Values[d + 1])
    BY <1>2, <2>1
  <2>4. Values[d + 1] \subseteq Values[(d + 1) + 1]
    BY <2>2, <2>3, NestedGrows DEF Grows
  <2>5. ASSUME NEW v \in Values[d + 1] PROVE Encoder[(d + 1) + 1][v] = Encoder[d + 1][v]
    <3>1. Encoder[d + 1][v] = EncodeValue(v, Encoder[d])
      BY <1>2, <2>1
    <3>2. Encoder[(d + 1) + 1][v] = EncodeValue(v, Encoder[d + 1])
      <4>1. v \in Values[(d + 1) + 1]
        BY <2>4
      <4>2. Encoder[(d + 1) + 1][v] = EncodeValue(v, Encoder[((d + 1) + 1) - 1])
        BY <1>2, <2>1, <4>1
      <4> QED
        BY <2>1, <4>2
    <3>3. CASE v \in Plain
      BY <3>1, <3>2, <3>3, EncodeSame
    <3>4. CASE v \in Nested(Values[d])
      BY <2>2, <3>1, <3>2, <3>4, NestedSame DEF Grows
    <3> QED
      BY <2>3, <3>3, <3>4
  <2> QED
    BY <2>4, <2>5 DEF Grows
<1> HIDE DEF S
<1>5. \A d \in 0..MaxDepth : d \in S
  BY <1>1, <1>3, <1>4, Upward
<1> QED
  BY <1>1, <1>5 DEF S

\* Any number of levels deeper.
LEMMA Deepest ==
  ASSUME NEW e \in 0..MaxDepth, NEW d \in 0..e
  PROVE  /\ Values[d] \subseteq Values[e]
         /\ \A v \in Values[d] : Encoder[e][v] = Encoder[d][v]
<1> DEFINE Up(k) == /\ Values[d] \subseteq Values[d + k]
                    /\ \A v \in Values[d] : Encoder[d + k][v] = Encoder[d][v]
           S == {k \in 0..(e - d) : Up(k)}
<1>1. MaxDepth \in Nat /\ d \in Nat /\ e - d \in Nat /\ d + (e - d) = e
  BY DepthAssumption
<1>2. 0 \in S
  <2>1. d + 0 = d
    BY <1>1
  <2> QED
    BY <1>1, <2>1
<1>3. \A k \in 0..((e - d) - 1) : k \in S => k + 1 \in S
  <2> SUFFICES ASSUME NEW k \in 0..((e - d) - 1), k \in S PROVE k + 1 \in S
    OBVIOUS
  <2>1. d + k \in 0..(MaxDepth - 1) /\ (d + k) + 1 = d + (k + 1) /\ k + 1 \in 0..(e - d)
    BY <1>1
  <2>2. Grows(d + k)
    BY <2>1, Deeper
  <2>3. Up(k)
    OBVIOUS
  <2>4. Up(k + 1)
    BY <2>1, <2>2, <2>3 DEF Grows
  <2> QED
    BY <2>1, <2>4
<1> HIDE DEF S
<1>4. \A k \in 0..(e - d) : k \in S
  BY <1>1, <1>2, <1>3, Upward
<1>5. Up(e - d)
  BY <1>1, <1>4 DEF S
<1> QED
  BY <1>1, <1>5

\* The encoder calls itself for the values inside.
LEMMA EncodeIs ==
  ASSUME NEW v \in Values[MaxDepth]
  PROVE  Encode(v) = EncodeValue(v, Encoder[MaxDepth])
<1>1. MaxDepth \in Nat /\ MaxDepth \in 0..MaxDepth
  BY DepthAssumption
<1>2. Encode(v) = EncodeValue(v, Encoder[MaxDepth - 1])
  BY <1>1, EncoderIs DEF Encode
<1>3. CASE v \in Plain
  BY <1>2, <1>3, EncodeSame
<1>4. CASE v \notin Plain
  <2>1. MaxDepth \in 1..MaxDepth /\ MaxDepth - 1 \in 0..MaxDepth
    BY <1>1, <1>4, ValuesIs
  <2>2. v \in Nested(Values[MaxDepth - 1])
    BY <1>4, <2>1, ValuesIs
  <2>3. \A w \in Values[MaxDepth - 1] : Encoder[MaxDepth - 1][w] = Encoder[MaxDepth][w]
    BY <1>1, <2>1, Deepest
  <2> QED
    BY <1>2, <2>2, <2>3, NestedSame
<1> QED
  BY <1>3, <1>4

-----------------------------------------------------------------------------
(* Encodings that are not longer *)

-----------------------------------------------------------------------------
(* How long the encoding of a list or dict is *)

\* The strings follow each other within x bytes: W[k] bytes are enough for the first k.
Within(ss, x, W) ==
  /\ W \in [0..Len(ss) -> Nat] /\ W[0] = 0 /\ W[Len(ss)] = x
  /\ \A k \in 1..Len(ss) : W[k - 1] + Len(ss[k]) <= W[k]
Fits(ss, x) == \E W : Within(ss, x, W)

\* Then they are that long together, and that many, unless one is empty.
LEMMA FitsLength ==
  ASSUME NEW ss \in Seq(Seq(Byte)), NEW x \in Nat, Fits(ss, x)
  PROVE  /\ FlattenSeq(ss) \in Seq(Byte) /\ Len(FlattenSeq(ss)) <= x
         /\ (\A k \in 1..Len(ss) : Len(ss[k]) >= 1) => Len(ss) <= x
<1> DEFINE n == Len(ss)
<1>1. PICK W : Within(ss, x, W)
  BY DEF Fits
<1>2. PICK P \in [0..Len(ss) -> Seq(Byte)] :
         /\ P[0] = <<>> /\ FlattenSeq(ss) = P[Len(ss)]
         /\ \A k \in 1..Len(ss) : P[k] = P[k - 1] \o ss[k]
  BY Flattened
<1>3. n \in Nat /\ \A k \in 1..n : ss[k] \in Seq(Byte) /\ Len(ss[k]) \in Nat
  OBVIOUS
<1>4. /\ \A k \in 0..n : W[k] \in Nat /\ P[k] \in Seq(Byte)
      /\ W[0] = 0 /\ W[n] = x
      /\ \A k \in 1..n : W[k - 1] + Len(ss[k]) <= W[k]
  BY <1>1, <1>2 DEF Within
<1>5. Len(P[n]) <= x
  <2> DEFINE S == {k \in 0..n : Len(P[k]) <= W[k]}
  <2>1. 0 \in S
    BY <1>2, <1>3, <1>4
  <2>2. \A k \in 0..(n - 1) : k \in S => k + 1 \in S
    <3> SUFFICES ASSUME NEW k \in 0..(n - 1), k \in S PROVE k + 1 \in S
      OBVIOUS
    <3>1. k + 1 \in 1..n /\ (k + 1) - 1 = k /\ k \in 0..n /\ k + 1 \in 0..n
      BY <1>3
    <3>2. P[k + 1] = P[k] \o ss[k + 1]
      <4>1. P[k + 1] = P[(k + 1) - 1] \o ss[k + 1]
        BY <1>2, <3>1
      <4> QED
        BY <3>1, <4>1
    <3>3. P[k] \in Seq(Byte) /\ ss[k + 1] \in Seq(Byte)
      BY <1>3, <1>4, <3>1
    <3>4. Len(P[k + 1]) = Len(P[k]) + Len(ss[k + 1])
      BY <3>2, <3>3
    <3>5. W[k] + Len(ss[k + 1]) <= W[k + 1]
      <4>1. W[(k + 1) - 1] + Len(ss[k + 1]) <= W[k + 1]
        BY <1>4, <3>1
      <4> QED
        BY <3>1, <4>1
    <3>6. Len(P[k]) \in Nat /\ Len(ss[k + 1]) \in Nat /\ W[k] \in Nat /\ W[k + 1] \in Nat
      BY <1>4, <3>1, <3>3
    <3>7. Len(P[k]) <= W[k]
      OBVIOUS
    <3>8. Len(P[k + 1]) <= W[k + 1]
      BY SMTT(60), <3>4, <3>5, <3>6, <3>7
    <3> QED
      BY <3>1, <3>8
  <2> HIDE DEF S
  <2>3. \A k \in 0..n : k \in S
    BY <1>3, <2>1, <2>2, Upward
  <2>4. n \in S
    BY <1>3, <2>3
  <2> QED
    BY <1>4, <2>4 DEF S
<1>6. ASSUME \A k \in 1..n : Len(ss[k]) >= 1 PROVE n <= x
  <2> DEFINE S == {k \in 0..n : k <= W[k]}
  <2>1. 0 \in S
    BY <1>3, <1>4
  <2>2. \A k \in 0..(n - 1) : k \in S => k + 1 \in S
    <3> SUFFICES ASSUME NEW k \in 0..(n - 1), k \in S PROVE k + 1 \in S
      OBVIOUS
    <3>1. k + 1 \in 1..n /\ (k + 1) - 1 = k /\ k \in 0..n /\ k + 1 \in 0..n
      BY <1>3
    <3>2. W[k] + Len(ss[k + 1]) <= W[k + 1]
      <4>1. W[(k + 1) - 1] + Len(ss[k + 1]) <= W[k + 1]
        BY <1>4, <3>1
      <4> QED
        BY <3>1, <4>1
    <3>3. Len(ss[k + 1]) \in Nat /\ Len(ss[k + 1]) >= 1 /\ W[k] \in Nat /\ W[k + 1] \in Nat
      BY <1>3, <1>4, <1>6, <3>1
    <3>4. k <= W[k]
      OBVIOUS
    <3>5. k + 1 <= W[k + 1]
      BY <3>2, <3>3, <3>4
    <3> QED
      BY <3>1, <3>5
  <2> HIDE DEF S
  <2>3. \A k \in 0..n : k \in S
    BY <1>3, <2>1, <2>2, Upward
  <2>4. n \in S
    BY <1>3, <2>3
  <2> QED
    BY <1>4, <2>4 DEF S
<1> QED
  BY <1>2, <1>3, <1>4, <1>5, <1>6

\* No strings take no bytes.
LEMMA FitsNone == Fits(<<>>, 0)
<1> DEFINE W == [k \in 0..0 |-> 0]
<1>1. Within(<<>>, 0, W)
  BY DEF Within
<1> QED
  BY <1>1 DEF Fits

\* One more string in front.
LEMMA FitsFirst ==
  ASSUME NEW ss \in Seq(Seq(Byte)), NEW x \in Nat, Fits(ss, x),
         NEW e \in Seq(Byte), NEW y \in Nat, Len(e) <= y
  PROVE  Fits(<<e>> \o ss, y + x)
<1> DEFINE n == Len(ss)
           tt == <<e>> \o ss
<1>1. PICK W : Within(ss, x, W)
  BY DEF Fits
<1>2. n \in Nat /\ \A k \in 1..n : Len(ss[k]) \in Nat
  OBVIOUS
<1>3. Len(tt) = n + 1 /\ tt[1] = e /\ \A k \in 2..(n + 1) : tt[k] = ss[k - 1]
  BY <1>2
<1>4. /\ \A k \in 0..n : W[k] \in Nat
      /\ W[0] = 0 /\ W[n] = x
      /\ \A k \in 1..n : W[k - 1] + Len(ss[k]) <= W[k]
  BY <1>1 DEF Within
<1> DEFINE U == [k \in 0..(n + 1) |-> IF k = 0 THEN 0 ELSE y + W[k - 1]]
<1>5. U \in [0..(n + 1) -> Nat] /\ U[0] = 0 /\ U[n + 1] = y + x
  <2>1. \A k \in 0..(n + 1) : k # 0 => k - 1 \in 0..n
    BY <1>2
  <2>2. n + 1 \in 0..(n + 1) /\ n + 1 # 0 /\ (n + 1) - 1 = n /\ 0 \in 0..(n + 1)
    BY <1>2
  <2>3. \A k \in 0..(n + 1) : (IF k = 0 THEN 0 ELSE y + W[k - 1]) \in Nat
    <3> SUFFICES ASSUME NEW k \in 0..(n + 1), k # 0 PROVE y + W[k - 1] \in Nat
      OBVIOUS
    <3>1. W[k - 1] \in Nat
      BY <1>4, <2>1
    <3> QED
      BY <3>1
  <2> QED
    BY <1>4, <2>2, <2>3
<1>6. ASSUME NEW k \in 1..(n + 1) PROVE U[k - 1] + Len(tt[k]) <= U[k]
  <2>1. CASE k = 1
    <3>1. U[0] = 0 /\ U[1] = y + W[0] /\ 1 - 1 = 0
      BY <1>2
    <3> QED
      BY <1>3, <1>4, <2>1, <3>1
  <2>2. CASE k # 1
    <3>1. k - 1 \in 1..n /\ k \in 2..(n + 1) /\ k - 1 # 0 /\ (k - 1) - 1 \in 0..n
      BY <1>2, <2>2
    <3>2. U[k - 1] = y + W[(k - 1) - 1] /\ U[k] = y + W[k - 1]
      BY <1>2, <3>1
    <3>3. W[(k - 1) - 1] + Len(ss[k - 1]) <= W[k - 1] /\ tt[k] = ss[k - 1]
      BY <1>3, <1>4, <3>1
    <3>4. W[(k - 1) - 1] \in Nat /\ W[k - 1] \in Nat /\ Len(ss[k - 1]) \in Nat
      BY <1>2, <1>4, <3>1
    <3> HIDE DEF U, tt
    <3> QED
      <4>1. ASSUME NEW a \in Nat, NEW b \in Nat, NEW c \in Nat, a + b <= c
            PROVE  (y + a) + b <= y + c
        BY <4>1
      <4>2. (y + W[(k - 1) - 1]) + Len(ss[k - 1]) <= y + W[k - 1]
        BY <3>3, <3>4, <4>1
      <4> QED
        BY <3>2, <3>3, <4>2, Zenon
  <2> QED
    BY <2>1, <2>2
<1> HIDE DEF U, tt
<1>7. Within(tt, y + x, U)
  BY <1>3, <1>5, <1>6 DEF Within
<1> QED
  BY <1>7 DEF Fits, tt

\* One more string at the end.
LEMMA FitsLast ==
  ASSUME NEW ss \in Seq(Seq(Byte)), NEW x \in Nat, Fits(ss, x),
         NEW e \in Seq(Byte), NEW y \in Nat, Len(e) <= y
  PROVE  Fits(Append(ss, e), x + y)
<1> DEFINE n == Len(ss)
           tt == Append(ss, e)
           
<1>1. PICK W : Within(ss, x, W)
  BY DEF Fits
<1>2. n \in Nat /\ \A k \in 1..n : Len(ss[k]) \in Nat
  OBVIOUS
<1>3. Len(tt) = n + 1 /\ tt[n + 1] = e /\ \A k \in 1..n : tt[k] = ss[k]
  BY <1>2
<1>4. /\ \A k \in 0..n : W[k] \in Nat
      /\ W[0] = 0 /\ W[n] = x
      /\ \A k \in 1..n : W[k - 1] + Len(ss[k]) <= W[k]
  BY <1>1 DEF Within
<1> DEFINE U == [k \in 0..(n + 1) |-> IF k = n + 1 THEN x + y ELSE W[k]]
<1>5. U \in [0..(n + 1) -> Nat] /\ U[0] = 0 /\ U[n + 1] = x + y /\ \A k \in 0..n : U[k] = W[k]
  <2>1. \A k \in 0..(n + 1) : k # n + 1 => k \in 0..n
    BY <1>2
  <2>2. n + 1 \in 0..(n + 1) /\ 0 \in 0..(n + 1) /\ 0 # n + 1 /\ x + y \in Nat
    BY <1>2
  <2>3. \A k \in 0..n : k # n + 1 /\ k \in 0..(n + 1)
    BY <1>2
  <2> QED
    BY <1>4, <2>1, <2>2, <2>3
<1> HIDE DEF U, tt
<1>6. ASSUME NEW k \in 1..(n + 1) PROVE U[k - 1] + Len(tt[k]) <= U[k]
  <2>1. CASE k = n + 1
    <3>1. k - 1 = n /\ n \in 0..n
      BY <1>2, <2>1
    <3>2. U[k - 1] = x /\ U[k] = x + y /\ tt[k] = e
      BY <1>3, <1>4, <1>5, <2>1, <3>1
    <3> QED
      BY <3>2
  <2>2. CASE k # n + 1
    <3>1. k \in 1..n /\ k \in 0..n /\ k - 1 \in 0..n
      BY <1>2, <2>2
    <3> QED
      BY <1>3, <1>4, <1>5, <3>1
  <2> QED
    BY <2>1, <2>2
<1>7. Within(tt, x + y, U)
  BY <1>3, <1>5, <1>6 DEF Within
<1> QED
  BY <1>7 DEF Fits, tt

\* Another string in the place of one.
LEMMA FitsOther ==
  ASSUME NEW ss \in Seq(Seq(Byte)), NEW x \in Nat, Fits(ss, x),
         NEW tt \in Seq(Seq(Byte)), Len(tt) = Len(ss), NEW j \in 1..Len(ss), NEW y \in Nat,
         \A k \in 1..Len(ss) : k # j => tt[k] = ss[k], Len(tt[j]) <= Len(ss[j]) + y
  PROVE  Fits(tt, x + y)
<1> DEFINE n == Len(ss)
<1>1. PICK W : Within(ss, x, W)
  BY DEF Fits
<1>2. n \in Nat /\ \A k \in 1..n : Len(ss[k]) \in Nat /\ Len(tt[k]) \in Nat
  OBVIOUS
<1>3. /\ \A k \in 0..n : W[k] \in Nat
      /\ W[0] = 0 /\ W[n] = x
      /\ \A k \in 1..n : W[k - 1] + Len(ss[k]) <= W[k]
  BY <1>1 DEF Within
<1> DEFINE U == [k \in 0..n |-> IF k < j THEN W[k] ELSE W[k] + y]
<1>4. /\ U \in [0..n -> Nat] /\ U[0] = 0 /\ U[n] = x + y
      /\ \A k \in 0..n : k < j => U[k] = W[k]
      /\ \A k \in 0..n : k >= j => U[k] = W[k] + y
  <2>1. \A k \in 0..n : W[k] + y \in Nat
    <3> SUFFICES ASSUME NEW k \in 0..n PROVE W[k] + y \in Nat
      OBVIOUS
    <3>1. W[k] \in Nat
      BY <1>3
    <3> QED
      BY SMTT(60), <3>1
  <2>2. 0 \in 0..n /\ 0 < j /\ n \in 0..n /\ ~(n < j)
    BY <1>2
  <2>3. \A k \in 0..n : k >= j => ~(k < j)
    BY <1>2
  <2> QED
    BY <1>3, <2>1, <2>2, <2>3
<1> HIDE DEF U
<1>5. ASSUME NEW k \in 1..n PROVE U[k - 1] + Len(tt[k]) <= U[k]
  <2>1. /\ k - 1 \in 0..n /\ k \in 0..n /\ W[k - 1] \in Nat /\ W[k] \in Nat
        /\ Len(ss[k]) \in Nat /\ Len(tt[k]) \in Nat /\ W[k - 1] + Len(ss[k]) <= W[k]
    <3>1. k - 1 \in 0..n /\ k \in 0..n
      BY SMTT(60), <1>2
    <3>2. Len(ss[k]) \in Nat /\ Len(tt[k]) \in Nat
      BY <1>2, Zenon
    <3> QED
      BY <1>3, <3>1, <3>2, Zenon
  <2>2. CASE k < j
    <3>1. k - 1 < j /\ k # j
      BY <2>2
    <3> QED
      BY <1>4, <2>1, <2>2, <3>1
  <2>3. CASE k = j
    <3>1. k - 1 < j /\ k >= j
      BY <2>3
    <3>2. U[k - 1] = W[k - 1] /\ U[k] = W[k] + y
      BY <1>4, <2>1, <3>1
    <3> QED
      <4>1. ASSUME NEW a \in Nat, NEW b \in Nat, NEW c \in Nat, NEW d \in Nat,
                   a + b <= c, d <= b + y
            PROVE  a + d <= c + y
        BY <4>1
      <4>2. Len(tt[k]) <= Len(ss[k]) + y
        BY <2>3
      <4>3. W[k - 1] + Len(tt[k]) <= W[k] + y
        BY <2>1, <4>1, <4>2
      <4> QED
        BY <3>2, <4>3
  <2>4. CASE k > j
    <3>1. k - 1 >= j /\ k >= j /\ k # j
      BY <2>4
    <3>2. U[k - 1] = W[k - 1] + y /\ U[k] = W[k] + y /\ tt[k] = ss[k]
      BY <1>4, <2>1, <3>1
    <3>3. Len(tt[k]) = Len(ss[k])
      BY <3>2
    <3>4. ASSUME NEW a \in Nat, NEW b \in Nat, NEW c \in Nat, a + b <= c
          PROVE  (a + y) + b <= c + y
      BY <3>4
    <3>5. (W[k - 1] + y) + Len(ss[k]) <= W[k] + y
      BY <2>1, <3>4
    <3> QED
      BY <3>2, <3>3, <3>5
  <2> QED
    BY <2>2, <2>3, <2>4
<1>6. Within(tt, x + y, U)
  BY <1>4, <1>5 DEF Within
<1> QED
  BY <1>6 DEF Fits

\* An assignment dict[k] = v adds the bytes of k and v at most.
LEMMA FitsPut ==
  ASSUME NEW V, NEW K, K \subseteq V, NEW inner, Encodes(V, inner), Hashable(K),
         NEW dict \in Dicts(K, V), NEW k \in K, NEW v \in V,
         NEW x \in Nat, Fits(Pairs(inner, dict), x),
         NEW y \in Nat, Len(inner[k]) + Len(inner[v]) <= y
  PROVE  Fits(Pairs(inner, Put(dict, k, v)), x + y) /\ Len(Put(dict, k, v)) <= Len(dict) + 1
<1> DEFINE n == Len(dict)
           put == Put(dict, k, v)
           ss == Pairs(inner, dict)
           tt == Pairs(inner, put)
<1>1. put \in Dicts(K, V)
  BY PutDict
<1>2. ASSUME NEW d \in Dicts(K, V)
      PROVE  /\ d \in Seq(V \X V) /\ Keyed(d) /\ Len(d) \in Nat
             /\ \A i \in 1..Len(d) : /\ d[i] = <<d[i][1], d[i][2]>> /\ d[i][1] \in V /\ d[i][2] \in V
                                     /\ Pairs(inner, d)[i] = inner[d[i][1]] \o inner[d[i][2]]
             /\ Pairs(inner, d) \in Seq(Seq(Byte)) /\ Len(Pairs(inner, d)) = Len(d)
  <2>1. d \in Seq(K \X V) /\ Keyed(d)
    BY DEF Dicts
  <2>2. \A i \in 1..Len(d) : d[i] \in V \X V
    <3>1. \A i \in 1..Len(d) : d[i] \in K \X V
      BY <2>1
    <3> QED
      BY <3>1
  <2>3. d \in Seq(V \X V) /\ Len(d) \in Nat
    BY <2>1, <2>2
  <2>4. /\ Pairs(inner, d) \in Seq(Seq(Byte)) /\ Len(Pairs(inner, d)) = Len(d)
        /\ \A i \in 1..Len(d) :
             /\ d[i] = <<d[i][1], d[i][2]>> /\ d[i][1] \in V /\ d[i][2] \in V
             /\ Pairs(inner, d)[i] = inner[d[i][1]] \o inner[d[i][2]]
             /\ inner[d[i][1]] \in Seq(Byte) /\ Len(inner[d[i][1]]) >= 1
             /\ inner[d[i][2]] \in Seq(Byte) /\ Len(inner[d[i][2]]) >= 1
    BY <2>3, PairsType, Zenon
  <2> QED
    BY <2>1, <2>3, <2>4
<1>3. /\ inner[k] \in Seq(Byte) /\ inner[v] \in Seq(Byte)
      /\ \A i \in 1..n : inner[dict[i][1]] \in Seq(Byte) /\ inner[dict[i][2]] \in Seq(Byte)
  BY <1>2 DEF Encodes
<1>4. CASE \E j \in 1..n : SameKey(dict[j][1], k)
  <2>1. PICK j \in 1..n : SameKey(dict[j][1], k)
    BY <1>4
  <2>2. put = [i \in 1..n |-> IF SameKey(dict[i][1], k) THEN <<dict[i][1], v>> ELSE dict[i]]
    BY <1>4 DEF Put
  <2>3. Len(put) = n /\ put[j] = <<dict[j][1], v>>
    BY <1>2, <2>1, <2>2
  <2>4. ASSUME NEW i \in 1..n, i # j PROVE put[i] = dict[i]
    <3>1. ~SameKey(dict[i][1], k)
      <4> SUFFICES ASSUME SameKey(dict[i][1], k) PROVE FALSE
        OBVIOUS
      <4>1. SameKey(dict[i][1], dict[j][1])
        BY <2>1, SameKeyEquivalence
      <4>2. Keyed(dict)
        BY <1>2
      <4> QED
        BY <2>4, <4>1, <4>2 DEF Keyed
    <3> QED
      BY <2>2, <3>1
  <2> HIDE DEF put
  <2>5. ASSUME NEW i \in 1..n, i # j PROVE tt[i] = ss[i]
    <3>1. tt[i] = inner[put[i][1]] \o inner[put[i][2]]
      BY <1>1, <1>2, <2>3
    <3>2. ss[i] = inner[dict[i][1]] \o inner[dict[i][2]]
      BY <1>2
    <3>3. put[i] = dict[i]
      BY <2>4, <2>5
    <3> QED
      BY <3>1, <3>2, <3>3, Zenon
  <2>6. Len(tt[j]) <= Len(ss[j]) + y
    <3>1. tt[j] = inner[put[j][1]] \o inner[put[j][2]]
      BY <1>1, <1>2, <2>3
    <3>2. put[j][1] = dict[j][1] /\ put[j][2] = v
      BY <2>3
    <3>3. ss[j] = inner[dict[j][1]] \o inner[dict[j][2]]
      BY <1>2
    <3> DEFINE a == inner[dict[j][1]]
               b == inner[dict[j][2]]
    <3>4. a \in Seq(Byte) /\ b \in Seq(Byte) /\ tt[j] = a \o inner[v] /\ ss[j] = a \o b
      BY <1>3, <3>1, <3>2, <3>3
    <3> HIDE DEF a, b, tt, ss
    <3>5. Len(tt[j]) = Len(a) + Len(inner[v]) /\ Len(ss[j]) = Len(a) + Len(b)
      BY <1>3, <3>4
    <3>6. Len(a) \in Nat /\ Len(b) \in Nat /\ Len(inner[v]) \in Nat /\ Len(inner[k]) \in Nat
      BY <1>3, <3>4
    <3>7. ASSUME NEW c \in Nat, NEW d \in Nat, NEW f \in Nat, NEW g \in Nat, f + d <= y
          PROVE  c + d <= (c + g) + y
      BY <3>7
    <3>8. Len(a) + Len(inner[v]) <= (Len(a) + Len(b)) + y
      BY <3>6, <3>7
    <3> QED
      BY <3>5, <3>8
  <2>7. /\ ss \in Seq(Seq(Byte)) /\ Len(ss) = n /\ tt \in Seq(Seq(Byte)) /\ Len(tt) = n
    BY <1>1, <1>2, <2>3
  <2>8. Fits(tt, x + y)
    <3> HIDE DEF tt, ss, n
    <3> QED
      BY <2>5, <2>6, <2>7, FitsOther DEF ss
  <2> QED
    BY <1>2, <2>3, <2>8 DEF put
<1>5. CASE ~\E j \in 1..n : SameKey(dict[j][1], k)
  <2>1. put = Append(dict, <<k, v>>)
    BY <1>5 DEF Put
  <2>2. Len(put) = n + 1 /\ put[n + 1] = <<k, v>> /\ \A i \in 1..n : put[i] = dict[i]
    BY <1>2, <2>1
  <2> HIDE DEF put
  <2> DEFINE e == inner[k] \o inner[v]
  <2>3. /\ ss \in Seq(Seq(Byte)) /\ Len(ss) = n /\ tt \in Seq(Seq(Byte)) /\ Len(tt) = n + 1
    BY <1>1, <1>2, <2>2
  <2>4. tt[n + 1] = e
    <3>1. n + 1 \in 1..Len(put) /\ put[n + 1][1] = k /\ put[n + 1][2] = v
      BY <1>2, <2>2
    <3> QED
      BY <1>1, <1>2, <3>1
  <2>5. ASSUME NEW i \in 1..n PROVE tt[i] = ss[i]
    <3>1. i \in 1..Len(put)
      BY <1>2, <2>2
    <3> QED
      BY <1>1, <1>2, <2>2, <3>1
  <2>6. e \in Seq(Byte) /\ Len(e) = Len(inner[k]) + Len(inner[v])
    BY <1>3
  <2> HIDE DEF ss, tt, e
  <2>7. tt = Append(ss, e)
    <3>1. n \in Nat
      BY <1>2
    <3> HIDE DEF n
    <3> QED
      BY <2>3, <2>4, <2>5, <2>6, <3>1
  <2>8. Fits(tt, x + y)
    BY <2>3, <2>6, <2>7, FitsLast DEF ss
  <2> QED
    BY <1>2, <2>2, <2>8 DEF put, tt
<1> QED
  BY <1>4, <1>5

\* A dict takes no more bytes than the pairs it is made of.
LEMMA FitsAssigned ==
  ASSUME NEW V, NEW K, K \subseteq V, NEW inner, Encodes(V, inner), Hashable(K),
         NEW p \in Seq(K \X V), NEW x \in Nat, Fits(Pairs(inner, p), x)
  PROVE  /\ Assigned(p) \in Dicts(K, V) /\ Len(Assigned(p)) <= Len(p)
         /\ Fits(Pairs(inner, Assigned(p)), x)
<1> DEFINE n == Len(p)
           ss == Pairs(inner, p)
<1>1. PICK D \in [0..n -> Dicts(K, V)] :
            /\ D[0] = <<>> /\ Assigned(p) = D[n]
            /\ \A i \in 1..n : D[i] = Put(D[i - 1], p[i][1], p[i][2])
  BY AssignedIs, ZenonT(60)
<1>2. n \in Nat /\ \A i \in 1..n : p[i][1] \in K /\ p[i][2] \in V
  OBVIOUS
<1>3. Len(ss) = n /\ \A i \in 1..n : ss[i] = inner[p[i][1]] \o inner[p[i][2]]
  <2>1. ss = [i \in 1..n |-> inner[p[i][1]] \o inner[p[i][2]]]
    BY DEF Pairs
  <2>2. \A i \in 1..n : ss[i] = inner[p[i][1]] \o inner[p[i][2]]
    BY <2>1, Zenon
  <2>3. DOMAIN ss = 1..n
    BY <2>1, Zenon
  <2>4. Len(ss) = n
    <3>1. n \in Nat
      BY <1>2
    <3>2. ss = [i \in 1..n |-> ss[i]]
      BY <2>1, <2>2, Zenon
    <3> HIDE DEF ss, n
    <3> QED
      BY <3>1, <3>2
  <2> QED
    BY <2>2, <2>4
<1>4. \A i \in 1..n : /\ inner[p[i][1]] \in Seq(Byte) /\ inner[p[i][2]] \in Seq(Byte)
                      /\ Len(ss[i]) = Len(inner[p[i][1]]) + Len(inner[p[i][2]])
  <2> SUFFICES ASSUME NEW i \in 1..n
               PROVE  /\ inner[p[i][1]] \in Seq(Byte) /\ inner[p[i][2]] \in Seq(Byte)
                      /\ Len(ss[i]) = Len(inner[p[i][1]]) + Len(inner[p[i][2]])
    OBVIOUS
  <2>1. p[i][1] \in V /\ p[i][2] \in V
    BY <1>2
  <2>2. inner[p[i][1]] \in Seq(Byte) /\ inner[p[i][2]] \in Seq(Byte)
    BY <2>1 DEF Encodes
  <2>3. ss[i] = inner[p[i][1]] \o inner[p[i][2]]
    BY <1>3
  <2> HIDE DEF ss
  <2> QED
    BY <2>2, <2>3
<1> HIDE DEF ss
<1>5. PICK W : Within(ss, x, W)
  BY DEF Fits, ss
<1>6. /\ \A i \in 0..n : W[i] \in Nat
      /\ W[0] = 0 /\ W[n] = x
      /\ \A i \in 1..n : W[i - 1] + Len(ss[i]) <= W[i]
  BY <1>3, <1>5 DEF Within
<1> DEFINE S == {i \in 0..n : Len(D[i]) <= i /\ Fits(Pairs(inner, D[i]), W[i])}
<1>7. 0 \in S
  <2>1. Pairs(inner, <<>>) = <<>>
    BY DEF Pairs
  <2> QED
    BY <1>1, <1>2, <1>6, <2>1, FitsNone
<1> HIDE DEF S
<1>8. \A i \in 0..(n - 1) : i \in S => i + 1 \in S
  <2> SUFFICES ASSUME NEW i \in 0..(n - 1), i \in S PROVE i + 1 \in S
    OBVIOUS
  <2> DEFINE k == p[i + 1][1]
             v == p[i + 1][2]
             y == W[i + 1] - W[i]
  <2>1. i + 1 \in 1..n /\ (i + 1) - 1 = i /\ i \in 0..n /\ i + 1 \in 0..n
    BY <1>2
  <2>2. k \in K /\ v \in V /\ D[i] \in Dicts(K, V)
    BY <1>1, <1>2, <2>1
  <2>3. D[i + 1] = Put(D[i], k, v)
    <3>1. D[i + 1] = Put(D[(i + 1) - 1], k, v)
      BY <1>1, <2>1
    <3> QED
      BY <2>1, <3>1
  <2>4. /\ W[i] \in Nat /\ W[i + 1] \in Nat /\ W[i] + Len(ss[i + 1]) <= W[i + 1]
        /\ Len(ss[i + 1]) = Len(inner[k]) + Len(inner[v])
        /\ inner[k] \in Seq(Byte) /\ inner[v] \in Seq(Byte)
    <3>1. W[(i + 1) - 1] + Len(ss[i + 1]) <= W[i + 1]
      BY <1>6, <2>1
    <3> QED
      BY <1>4, <1>6, <2>1, <3>1
  <2>5. y \in Nat /\ Len(inner[k]) + Len(inner[v]) <= y /\ W[i] + y = W[i + 1]
    <3>1. Len(inner[k]) \in Nat /\ Len(inner[v]) \in Nat
      BY <2>4
    <3> HIDE DEF k, v
    <3>2. ASSUME NEW a \in Nat, NEW b \in Nat, NEW c \in Nat, NEW d \in Nat, a + (c + d) <= b
          PROVE  b - a \in Nat /\ c + d <= b - a /\ a + (b - a) = b
      BY <3>2
    <3>3. W[i] + (Len(inner[k]) + Len(inner[v])) <= W[i + 1]
      BY <2>4
    <3> QED
      BY <2>4, <3>1, <3>2, <3>3
  <2>6. Len(D[i]) <= i /\ Fits(Pairs(inner, D[i]), W[i])
    BY DEF S
  <2> HIDE DEF k, v, y
  <2>7. Fits(Pairs(inner, D[i + 1]), W[i + 1]) /\ Len(D[i + 1]) <= Len(D[i]) + 1
    <3>1. Fits(Pairs(inner, Put(D[i], k, v)), W[i] + y) /\ Len(Put(D[i], k, v)) <= Len(D[i]) + 1
      BY <2>2, <2>4, <2>5, <2>6, FitsPut
    <3> QED
      BY <2>3, <2>5, <3>1
  <2>8. Len(D[i]) \in Nat /\ Len(D[i + 1]) \in Nat
    BY <1>1, <2>1 DEF Dicts
  <2>9. Len(D[i + 1]) <= i + 1
    BY <2>6, <2>7, <2>8
  <2> QED
    BY <2>1, <2>7, <2>9 DEF S
<1>9. \A i \in 0..n : i \in S
  BY <1>2, <1>7, <1>8, Upward
<1>10. n \in 0..n
  BY <1>2
<1> QED
  BY <1>1, <1>6, <1>9, <1>10 DEF S

-----------------------------------------------------------------------------
(* What the decoder accepts is a value whose encoding is not longer *)

\* A number as short as it can be.
LEMMA MagnitudeLength ==
  ASSUME NEW n, Spelt(n)
  PROVE  /\ Len(Magnitude(n)) \in 0..4
         /\ n < 65536 => Len(Magnitude(n)) <= 2
         /\ n < 256 => Len(Magnitude(n)) <= 1
BY DEF Magnitude, Spelt

\* A string of two bytes.
LEMMA TwoBytes ==
  ASSUME NEW m \in Seq(Byte), Len(m) = 2
  PROVE  \E a, b \in Byte : m = <<a, b>>
<1> DEFINE q == <<m[1], m[2]>>
<1>1. m[1] \in Byte /\ m[2] \in Byte
  OBVIOUS
<1>2. q \in Seq(Byte) /\ Len(q) = 2 /\ q[1] = m[1] /\ q[2] = m[2]
  BY <1>1
<1> HIDE DEF q
<1>3. m = q
  BY <1>2
<1> QED
  BY <1>1, <1>3, Zenon DEF q

\* The room for a number grows with it.
LEMMA RoomGrows ==
  ASSUME NEW n \in Nat, NEW k \in Nat, n <= k, NEW l \in 0..4, NEW x \in 0..8,
         n < 65536 => l <= 2, n < 256 => l <= 1, x <= 1 => k < 256, x = 2 => k < 65536
  PROVE  Room(l, n) <= Room(x, k)
<1>1. CASE x <= 1
  BY <1>1 DEF Room
<1>2. CASE x = 2
  BY <1>2 DEF Room
<1>3. CASE x > 2
  BY <1>3 DEF Room
<1> QED
  BY <1>1, <1>2, <1>3

\* A smaller number needs no longer header.
LEMMA ExtraGrows ==
  ASSUME NEW n \in Nat, Spelt(n), NEW m \in Numbers, n <= NumberOf(m)
  PROVE  Extra(Magnitude(n)) <= Extra(m)
<1> DEFINE l == Len(Magnitude(n))
           k == NumberOf(m)
<1>1. /\ l \in 0..4 /\ (n < 65536 => l <= 2) /\ (n < 256 => l <= 1)
      /\ NumberOf(Magnitude(n)) = n
  BY MagnitudeLength, MagnitudeIs
<1>2. Extra(Magnitude(n)) = Room(l, n) /\ Extra(m) = Room(Len(m), k)
  BY <1>1 DEF Extra
<1>3. m \in Seq(Byte) /\ Len(m) \in 0..8 /\ k \in Nat
  BY NumberParts, NumberType
<1>4. Len(m) <= 1 => k < 256
  <2>1. CASE Len(m) = 0
    <3>1. m = <<>>
      BY <1>3, <2>1
    <3> QED
      BY <3>1, NumberSpelt
  <2>2. CASE Len(m) = 1
    <3>1. PICK a \in Byte : m = <<a>>
      BY <1>3, <2>2
    <3>2. k = a
      BY <3>1, NumberSpelt
    <3> HIDE DEF k
    <3> QED
      BY <3>2 DEF Byte
  <2> HIDE DEF k
  <2>3. Len(m) \in 0..8
    BY <1>3
  <2> QED
    BY <2>1, <2>2, <2>3, SMTT(60)
<1>5. Len(m) = 2 => k < 65536
  <2> SUFFICES ASSUME Len(m) = 2 PROVE k < 65536
    OBVIOUS
  <2>1. PICK a \in Byte, b \in Byte : m = <<a, b>>
    BY <1>3, TwoBytes
  <2>2. k = 256 * a + b
    BY <2>1, NumberSpelt
  <2> HIDE DEF k
  <2> QED
    BY <2>2 DEF Byte
<1> HIDE DEF l, k
<1>6. Room(l, n) <= Room(Len(m), k)
  <2> DEFINE x == Len(m)
  <2>1. n <= k
    BY DEF k
  <2>2. x \in 0..8 /\ (x <= 1 => k < 256) /\ (x = 2 => k < 65536) /\ k \in Nat
    BY <1>3, <1>4, <1>5
  <2>3. l \in 0..4 /\ (n < 65536 => l <= 2) /\ (n < 256 => l <= 1)
    BY <1>1
  <2> HIDE DEF x
  <2>4. Room(l, n) <= Room(x, k)
    BY <2>1, <2>2, <2>3, RoomGrows
  <2> QED
    BY <2>4 DEF x
<1> QED
  BY <1>2, <1>6

\* A number below 24 fits in the first byte.
LEMMA InFirstByte ==
  ASSUME NEW n \in 0..23
  PROVE  /\ Magnitude(n) \in Numbers /\ NumberOf(Magnitude(n)) = n
         /\ Extra(Magnitude(n)) = 0
<1> DEFINE m == Magnitude(n)
           l == Len(m)
<1>1. Spelt(n) /\ n < 256 /\ n < 24
  BY DEF Spelt
<1>2. m \in Numbers /\ NumberOf(m) = n
  BY <1>1, MagnitudeIs
<1>3. l \in 0..4 /\ l <= 1
  BY <1>1, MagnitudeLength
<1>4. Extra(m) = Room(l, n)
  BY <1>2 DEF Extra
<1> HIDE DEF l, m
<1>5. Room(l, n) = 0
  BY <1>1, <1>3 DEF Room
<1> QED
  BY <1>2, <1>4, <1>5 DEF m

\* A number of w bytes has a header with w more bytes at most.
LEMMA InMoreBytes ==
  ASSUME NEW m \in Numbers, NEW w \in {1, 2, 4, 8}, Len(m) <= w
  PROVE  Extra(m) <= w
<1>1. Len(m) \in 0..8
  BY NumberParts
<1>2. ASSUME NEW l \in 0..8, l <= w, NEW n PROVE Room(l, n) <= w
  BY <1>2 DEF Room
<1>3. Room(Len(m), NumberOf(m)) <= w
  BY <1>1, <1>2
<1> QED
  BY <1>3 DEF Extra

\* The header of the number that was read is not longer than the one it was read from.
LEMMA HeaderFits ==
  ASSUME NEW s \in Seq(Byte), NEW i \in Nat, ~(i >= Len(s)), Size(s, i).error = "none"
  PROVE  /\ Size(s, i).value \in Numbers /\ Size(s, i).next \in (i + 1)..Len(s)
         /\ Extra(Size(s, i).value) <= Size(s, i).next - (i + 1)
<1> DEFINE r == Size(s, i)
           info == Info(s, i)
<1>1. i + 1 \in Nat /\ Len(s) \in Nat /\ i + 1 <= Len(s)
  OBVIOUS
<1>2. info \in 0..31
  <2>1. s[i + 1] \in Byte
    BY <1>1
  <2> QED
    BY <2>1, ByteParts DEF Info
<1> HIDE DEF info
<1>3. CASE info < 24
  <2>1. r = Done(Magnitude(info), i + 1)
    BY <1>3 DEF Size, ReadLength, info
  <2>2. Magnitude(info) \in Numbers /\ Extra(Magnitude(info)) = 0
    <3>1. info \in 0..23
      BY <1>2, <1>3
    <3> QED
      BY <3>1, InFirstByte
  <2>4. r.value = Magnitude(info) /\ r.next = i + 1
    BY <2>1 DEF Done
  <2> HIDE DEF r
  <2> QED
    BY <1>1, <2>2, <2>4 DEF r
<1>4. CASE info \in 24..27
  <2> DEFINE w == Width(info)
             q == Read(s, w, i + 1)
  <2>1. w \in {1, 2, 4, 8}
    BY <1>4 DEF Width
  <2>2. r = Made(q, WithoutZeros(q.value))
    BY <1>4 DEF Size, ReadLength, Then, Made, info
  <2>3. q.error = "none"
    BY <2>2 DEF Made
  <2>4. r.value = WithoutZeros(q.value) /\ r.next = q.next
    BY <2>2, <2>3 DEF Made, Done
  <2> HIDE DEF w, r
  <2>5. ~((i + 1) + w > Len(s))
    BY <2>3 DEF Read, Raise
  <2>6. q.value \in Seq(Byte) /\ Len(q.value) = w /\ q.next = (i + 1) + w
    BY <1>1, <2>1, <2>3, ReadForward
  <2> HIDE DEF q
  <2>7. r.value \in Numbers /\ Len(r.value) <= w
    BY <2>1, <2>4, <2>6, WithoutZerosNumber
  <2>9. Extra(r.value) <= w
    BY <2>1, <2>7, InMoreBytes
  <2>10. r.next = (i + 1) + w
    BY <2>4, <2>6
  <2>11. r.next \in (i + 1)..Len(s) /\ r.next - (i + 1) = w
    BY <1>1, <2>1, <2>5, <2>10
  <2> QED
    BY <2>7, <2>9, <2>11 DEF r
<1>5. CASE info \in 28..31
  <2>1. ~(info < 24) /\ info \notin 24..27
    BY <1>5
  <2>2. ReadLength(s, info, i + 1) = Raise("AttestationError")
    BY <2>1, Zenon DEF ReadLength
  <2>3. Raise("AttestationError").error # "none"
    BY DEF Raise
  <2>4. r = ReadLength(s, info, i + 1)
    BY DEF Size, info
  <2> QED
    BY <2>2, <2>3, <2>4, Zenon
<1> QED
  BY <1>2, <1>3, <1>4, <1>5

\* Nor is the header with the length of a string or collection that is not longer than
\* the number says.
LEMMA SizedFits ==
  ASSUME NEW S, NEW body \in Lists(S), NEW major \in 0..5, NEW m \in Numbers,
         Len(body) <= NumberOf(m)
  PROVE  Sized(major, body) \in Seq(Byte) /\ Len(Sized(major, body)) <= 1 + Extra(m)
<1>1. Len(body) \in Nat /\ Spelt(Len(body)) /\ Magnitude(Len(body)) \in Numbers
  BY SizedIs
<1>2. Extra(Magnitude(Len(body))) <= Extra(m)
  BY <1>1, ExtraGrows
<1>3. /\ Sized(major, body) \in Seq(Byte)
      /\ Len(Sized(major, body)) = 1 + Extra(Magnitude(Len(body)))
  BY <1>1, HeaderParts DEF Sized
<1>4. Extra(Magnitude(Len(body))) \in Nat /\ Extra(m) \in Nat
  BY DEF Extra, Room
<1> QED
  BY <1>2, <1>3, <1>4

\* The values that the decoder can return from offset i of s, and those it takes for keys.
Level(s, i) == Values[Len(s) - i]
Keys(V) == {k \in V : k[1] \notin {"list", "dict"}}

\* What decode, a list and a dict return from there: the value, and an encoding that takes
\* no more bytes than were read.
ValueFits(s, r, i) ==
  r.error = "none" =>
    /\ r.next \in (i + 1)..Len(s) /\ r.value \in Level(s, i)
    /\ Len(Encode(r.value)) <= r.next - i
ItemsFit(s, r, n, i) ==
  r.error = "none" =>
    /\ r.next \in i..Len(s) /\ r.value \in Seq(Level(s, i)) /\ Len(r.value) = n
    /\ Fits(Items(Encoder[MaxDepth], r.value), r.next - i)
PairsFit(s, r, n, i) ==
  r.error = "none" =>
    /\ r.next \in i..Len(s) /\ Len(r.value) = n
    /\ r.value \in Seq(Keys(Level(s, i)) \X Level(s, i))
    /\ Fits(Pairs(Encoder[MaxDepth], r.value), r.next - i)

AllFit(s, later, i) ==
  \A j \in i..Len(s) :
    /\ ValueFits(s, later[<<"value", 1, j>>], j)
    /\ \A n \in Nat : /\ ItemsFit(s, later[<<"items", n, j>>], n, j)
                      /\ PairsFit(s, later[<<"pairs", n, j>>], n, j)

\* A string not longer than the values are deep, and that the encoder can count.
Short(s) == s \in Seq(Byte) /\ Len(s) <= MaxDepth /\ Len(s) <= MaxLength

\* Offsets further on are levels further down.
LEMMA LevelIs ==
  ASSUME NEW s, Short(s), NEW i \in 0..Len(s)
  PROVE  /\ Plain \subseteq Level(s, i)
         /\ i < Len(s) => Nested(Level(s, i + 1)) \subseteq Level(s, i)
         /\ \A j \in i..Len(s) : Level(s, j) \subseteq Level(s, i)
         /\ Level(s, i) \subseteq Values[MaxDepth]
         /\ Encodes(Level(s, i), Encoder[MaxDepth])
         /\ \A v \in Level(s, i) : /\ Encode(v) = EncodeValue(v, Encoder[MaxDepth])
                                   /\ Encode(v) = Encoder[MaxDepth][v]
<1> DEFINE d == Len(s) - i
<1>1. /\ MaxDepth \in Nat /\ Len(s) \in Nat /\ d \in 0..MaxDepth
      /\ MaxDepth \in 0..MaxDepth
  BY DepthAssumption DEF Short
<1>2. Plain \subseteq Values[d]
  BY <1>1, ValuesIs
<1>3. ASSUME i < Len(s) PROVE Nested(Values[Len(s) - (i + 1)]) \subseteq Values[d]
  <2>1. d \in 1..MaxDepth /\ Len(s) - (i + 1) = d - 1
    BY <1>1, <1>3
  <2> HIDE DEF d
  <2> QED
    BY <2>1, ValuesIs
<1>4. ASSUME NEW j \in i..Len(s) PROVE Values[Len(s) - j] \subseteq Values[d]
  <2>1. Len(s) - j \in 0..d
    BY <1>1
  <2> QED
    BY <1>1, <2>1, Deepest
<1>5. Values[d] \subseteq Values[MaxDepth]
  BY <1>1, Deepest
<1>6. \A v \in Values[d] : /\ Encode(v) = EncodeValue(v, Encoder[MaxDepth])
                           /\ Encode(v) = Encoder[MaxDepth][v]
  BY <1>5, EncodeIs DEF Encode
<1>7. Encodes(Values[d], Encoder[MaxDepth])
  BY <1>1, <1>5, EncoderType DEF Encodes
<1> QED
  BY <1>2, <1>3, <1>4, <1>5, <1>6, <1>7 DEF Level

\* An integer (attestation.py:381-385).
LEMMA IntFits ==
  ASSUME NEW s, Short(s), NEW i \in 0..Len(s), NEW major \in 0..1, NEW m \in Numbers,
         NEW next \in (i + 1)..Len(s), Extra(m) <= next - (i + 1)
  PROVE  ValueFits(s, Done(<<"int", major = 1, m>>, next), i)
<1> DEFINE v == <<"int", major = 1, m>>
<1>1. v \in Plain
  <2>1. (major = 1) \in BOOLEAN
    OBVIOUS
  <2> QED
    BY <2>1 DEF Plain, Ints
<1>2. Encode(v) = EncodeLength(major, m)
  <2>1. Encode(v) = EncodeValue(v, Encoder[MaxDepth])
    <3> HIDE DEF v
    <3> QED
      BY <1>1, LevelIs
  <2>2. CASE major = 1
    <3>1. v = <<"int", TRUE, m>>
      BY <2>2
    <3> HIDE DEF v
    <3> QED
      BY <2>1, <2>2, <3>1 DEF EncodeValue
  <2>3. CASE major = 0
    <3>0. (major = 1) = FALSE
      BY <2>3
    <3>1. v = <<"int", FALSE, m>>
      BY <3>0, Zenon
    <3> HIDE DEF v
    <3> QED
      BY <2>1, <2>3, <3>1 DEF EncodeValue
  <2> QED
    BY <2>2, <2>3
<1> HIDE DEF v
<1>3. Len(Encode(v)) = 1 + Extra(m)
  BY <1>2, HeaderParts
<1>4. Extra(m) \in Nat /\ Len(s) \in Nat
  BY DEF Extra, Room, Short
<1>5. Len(Encode(v)) <= next - i
  BY <1>3, <1>4
<1>6. v \in Level(s, i)
  BY <1>1, LevelIs
<1> QED
  BY <1>5, <1>6 DEF ValueFits, Done, v

\* Concatenation adds lengths.
LEMMA Joined ==
  ASSUME NEW a \in Seq(Byte), NEW b \in Seq(Byte)
  PROVE  a \o b \in Seq(Byte) /\ Len(a \o b) = Len(a) + Len(b)
OBVIOUS

\* A string (attestation.py:387-391).
LEMMA BytesFit ==
  ASSUME NEW s, Short(s), NEW i \in 0..Len(s), NEW m \in Numbers, NEW j \in (i + 1)..Len(s),
         Extra(m) <= j - (i + 1), NEW c, c = Read(s, NumberOf(m), j), c.error = "none"
  PROVE  /\ ValueFits(s, Done(<<"bytes", c.value>>, c.next), i)
         /\ Utf8(c.value) => ValueFits(s, Done(<<"text", c.value>>, c.next), i)
<1> DEFINE n == NumberOf(m)
           b == c.value
<1>1. n \in Nat /\ Len(s) \in Nat /\ j \in Nat /\ s \in Seq(Byte)
  BY NumberParts, NumberType DEF Short
<1>2. ~(j + n > Len(s))
  BY DEF Read, Raise
<1>3. b \in Seq(Byte) /\ Len(b) = n /\ c.next = j + n
  BY <1>1, ReadForward
<1> HIDE DEF n
<1>4. b \in Lists(Byte) /\ Len(b) <= NumberOf(m)
  <2>1. Len(b) <= MaxLength
    <3>1. Len(s) <= MaxLength
      BY DEF Short
    <3>2. MaxLength \in Nat
      BY DEF MaxLength
    <3> QED
      BY <1>1, <1>2, <1>3, <3>1, <3>2
  <2> HIDE DEF b
  <2>2. Len(b) <= NumberOf(m)
    BY <1>1, <1>3 DEF n
  <2> QED
    BY <1>3, <2>1, <2>2 DEF Lists
<1>5. Extra(m) \in Nat
  BY DEF Extra, Room
<1>6. c.next \in (i + 1)..Len(s)
  BY <1>1, <1>2, <1>3
<1> HIDE DEF b
<1>7. ASSUME NEW v, v \in Plain, NEW major \in 2..3,
             EncodeValue(v, Encoder[MaxDepth]) = Sized(major, b) \o b
      PROVE  ValueFits(s, Done(v, c.next), i)
  <2>1. Sized(major, b) \in Seq(Byte) /\ Len(Sized(major, b)) <= 1 + Extra(m)
    BY <1>4, SizedFits
  <2>2. v \in Level(s, i) /\ Encode(v) = Sized(major, b) \o b
    BY <1>7, LevelIs
  <2>3. Len(Encode(v)) = Len(Sized(major, b)) + n
    <3> DEFINE h == Sized(major, b)
    <3>1. h \in Seq(Byte) /\ Encode(v) = h \o b
      BY <2>1, <2>2
    <3> HIDE DEF h
    <3>2. Len(h \o b) = Len(h) + Len(b)
      <4>1. b \in Seq(Byte)
        BY <1>3
      <4> QED
        BY <3>1, <4>1, Joined
    <3>3. Len(Encode(v)) = Len(h) + n
      BY <1>3, <3>1, <3>2
    <3> QED
      BY <3>3 DEF h
  <2>4. Len(Sized(major, b)) \in Nat
    BY <2>1
  <2>5. Len(Encode(v)) <= c.next - i
    BY <1>1, <1>3, <1>5, <2>1, <2>3, <2>4
  <2> QED
    BY <1>6, <2>2, <2>5 DEF ValueFits, Done
<1>8. ValueFits(s, Done(<<"bytes", b>>, c.next), i)
  <2> DEFINE v == <<"bytes", b>>
  <2>1. v \in Plain
    BY <1>4 DEF Plain
  <2>2. EncodeValue(v, Encoder[MaxDepth]) = Sized(2, b) \o b
    BY DEF EncodeValue, Sized
  <2> HIDE DEF v
  <2>3. ValueFits(s, Done(v, c.next), i)
    BY <1>7, <2>1, <2>2
  <2> QED
    BY <2>3 DEF v
<1>9. ASSUME Utf8(b) PROVE ValueFits(s, Done(<<"text", b>>, c.next), i)
  <2> DEFINE v == <<"text", b>>
  <2>1. v \in Plain
    BY <1>4, <1>9 DEF Plain
  <2>2. EncodeValue(v, Encoder[MaxDepth]) = Sized(3, b) \o b
    BY DEF EncodeValue, Sized
  <2> HIDE DEF v
  <2>3. ValueFits(s, Done(v, c.next), i)
    BY <1>7, <2>1, <2>2
  <2> QED
    BY <2>3 DEF v
<1> QED
  BY <1>8, <1>9 DEF b

\* A simple value (attestation.py:411-416).
LEMMA SimpleFits ==
  ASSUME NEW s, Short(s), NEW i \in 0..Len(s), i < Len(s),
         NEW v \in {<<"bool", TRUE>>, <<"bool", FALSE>>, None}
  PROVE  ValueFits(s, Done(v, i + 1), i)
<1>1. v \in Plain
  <2>1. ASSUME NEW b \in BOOLEAN PROVE <<"bool", b>> \in Plain
    BY DEF Plain
  <2>2. <<"bool", TRUE>> \in Plain /\ <<"bool", FALSE>> \in Plain
    BY <2>1, Zenon
  <2>3. None \in Plain
    BY DEF Plain
  <2> QED
    BY <2>2, <2>3, Zenon
<1>2. v \in Level(s, i) /\ Encode(v) = EncodeValue(v, Encoder[MaxDepth])
  BY <1>1, LevelIs
<1>3. Len(EncodeValue(v, Encoder[MaxDepth])) = 1
  <2>1. CASE v = <<"bool", TRUE>>
    BY <2>1 DEF EncodeValue
  <2>2. CASE v = <<"bool", FALSE>>
    BY <2>2 DEF EncodeValue
  <2>3. CASE v = None
    BY <2>3 DEF EncodeValue, None
  <2> QED
    BY <2>1, <2>2, <2>3
<1>4. Len(s) \in Nat
  BY DEF Short
<1>5. i + 1 \in (i + 1)..Len(s) /\ (i + 1) - i = 1
  BY <1>4
<1> QED
  BY <1>2, <1>3, <1>5 DEF ValueFits, Done

\* The encodings of the items of a list begin with that of the first.
LEMMA ItemsFirst ==
  ASSUME NEW V, NEW inner, NEW l \in Seq(V), NEW v \in V
  PROVE  Items(inner, <<v>> \o l) = <<inner[v]>> \o Items(inner, l)
<1> DEFINE m == <<v>> \o l
           f == Items(inner, m)
           g == <<inner[v]>> \o Items(inner, l)
<1>1. /\ m \in Seq(V) /\ Len(m) = Len(l) + 1 /\ Len(l) \in Nat
      /\ \A k \in 1..(Len(l) + 1) : m[k] = IF k = 1 THEN v ELSE l[k - 1]
  OBVIOUS
<1> HIDE DEF m
<1>2. /\ DOMAIN f = 1..(Len(l) + 1) /\ f = [k \in DOMAIN f |-> f[k]]
      /\ \A k \in 1..(Len(l) + 1) : f[k] = inner[m[k]]
  BY <1>1 DEF Items
<1>3. /\ DOMAIN g = 1..(Len(l) + 1) /\ g = [k \in DOMAIN g |-> g[k]]
      /\ \A k \in 1..(Len(l) + 1) : g[k] = IF k = 1 THEN inner[v] ELSE inner[l[k - 1]]
  <2> DEFINE r == Items(inner, l)
  <2>1. /\ r \in Seq({inner[l[k]] : k \in 1..Len(l)}) /\ Len(r) = Len(l)
        /\ \A k \in 1..Len(l) : r[k] = inner[l[k]]
    BY <1>1 DEF Items
  <2> HIDE DEF r
  <2>2. ASSUME NEW e
        PROVE  /\ DOMAIN (<<e>> \o r) = 1..(Len(r) + 1)
               /\ <<e>> \o r = [k \in DOMAIN (<<e>> \o r) |-> (<<e>> \o r)[k]]
               /\ \A k \in 1..(Len(r) + 1) : (<<e>> \o r)[k] = IF k = 1 THEN e ELSE r[k - 1]
    <3>1. r \in Seq({e} \cup {inner[l[k]] : k \in 1..Len(l)})
      BY <2>1
    <3> QED
      BY <3>1
  <2>3. \A k \in 1..(Len(l) + 1) : k # 1 => k - 1 \in 1..Len(l)
    BY <1>1
  <2>4. /\ g = <<inner[v]>> \o r
        /\ DOMAIN g = 1..(Len(r) + 1) /\ g = [k \in DOMAIN g |-> g[k]]
        /\ \A k \in 1..(Len(r) + 1) : g[k] = IF k = 1 THEN inner[v] ELSE r[k - 1]
    BY <2>2 DEF r
  <2> HIDE DEF g
  <2> QED
    BY <2>1, <2>3, <2>4
<1>4. \A k \in 1..(Len(l) + 1) : f[k] = g[k]
  BY <1>1, <1>2, <1>3
<1> HIDE DEF f, g
<1>5. f = g
  BY <1>2, <1>3, <1>4
<1> QED
  BY <1>5 DEF f, g, m

\* Those of a dict begin with that of its first pair.
LEMMA PairsFirst ==
  ASSUME NEW S, NEW inner, NEW p \in Seq(S), NEW e \in S
  PROVE  Pairs(inner, <<e>> \o p) = <<inner[e[1]] \o inner[e[2]]>> \o Pairs(inner, p)
<1> DEFINE both == [t \in S |-> inner[t[1]] \o inner[t[2]]]
<1>1. \A t \in S : both[t] = inner[t[1]] \o inner[t[2]]
  OBVIOUS
<1> HIDE DEF both
<1>2. Items(both, <<e>> \o p) = <<both[e]>> \o Items(both, p)
  BY ItemsFirst
<1>3. ASSUME NEW q \in Seq(S) PROVE Items(both, q) = Pairs(inner, q)
  <2>1. \A i \in 1..Len(q) : q[i] \in S
    OBVIOUS
  <2> QED
    BY <1>1, <2>1 DEF Items, Pairs
<1> DEFINE m == <<e>> \o p
<1>4. Items(both, m) = Pairs(inner, m) /\ Items(both, p) = Pairs(inner, p)
  <2> HIDE DEF m
  <2>1. m \in Seq(S)
    BY DEF m
  <2> QED
    BY <1>3, <2>1
<1>5. both[e] = inner[e[1]] \o inner[e[2]]
  BY <1>1
<1> QED
  BY <1>2, <1>4, <1>5, Zenon

\* A header and a body that are not longer than those that were read.
LEMMA BodyFits ==
  ASSUME NEW s, Short(s), NEW i \in 0..Len(s), NEW m \in Numbers, NEW j \in (i + 1)..Len(s),
         Extra(m) <= j - (i + 1), NEW next \in j..Len(s), NEW v \in Level(s, i),
         NEW h \in Seq(Byte), Len(h) <= 1 + Extra(m),
         NEW f \in Seq(Byte), Len(f) <= next - j, Encode(v) = h \o f
  PROVE  ValueFits(s, Done(v, next), i)
<1>3. Len(Encode(v)) = Len(h) + Len(f)
  <2>1. Len(h \o f) = Len(h) + Len(f)
    BY Joined
  <2> QED
    BY <2>1
<1>4. /\ Len(h) \in Nat /\ Len(f) \in Nat /\ Extra(m) \in Nat
      /\ Len(s) \in Nat /\ i \in Nat /\ j \in Nat /\ next \in Nat
  BY DEF Extra, Room, Short
<1>5. ASSUME NEW a \in Nat, NEW b \in Nat, NEW x \in Nat, NEW k \in Nat, NEW o \in Nat,
             NEW z \in Nat, a <= 1 + x, b <= z - o, x <= o - (k + 1)
      PROVE  a + b <= z - k
  BY <1>5
<1>6. Len(h) + Len(f) <= next - i
  BY <1>4, <1>5
<1>7. next \in (i + 1)..Len(s)
  BY <1>4
<1> QED
  BY <1>3, <1>6, <1>7 DEF ValueFits, Done

\* A list (attestation.py:393-396).
LEMMA ListFits ==
  ASSUME NEW s, Short(s), NEW i \in 0..Len(s), NEW m \in Numbers, NEW j \in (i + 1)..Len(s),
         Extra(m) <= j - (i + 1), NEW r, r.error = "none", ItemsFit(s, r, NumberOf(m), j)
  PROVE  ValueFits(s, Done(<<"list", r.value>>, r.next), i)
<1> DEFINE l == r.value
           V == Level(s, j)
           W == Level(s, i + 1)
           E == Encoder[MaxDepth]
           ss == Items(E, l)
           x == r.next - j
           v == <<"list", l>>
<1>1. /\ Len(s) \in Nat /\ i \in Nat /\ j \in Nat /\ j \in 0..Len(s) /\ i + 1 \in 0..Len(s)
      /\ j \in (i + 1)..Len(s) /\ i < Len(s) /\ Len(s) <= MaxLength /\ MaxLength \in Nat
  BY DEF Short, MaxLength
<1>2. /\ r.next \in j..Len(s) /\ l \in Seq(V) /\ Len(l) = NumberOf(m)
      /\ Fits(ss, x)
  BY DEF ItemsFit
<1>3. Encodes(V, E) /\ V \subseteq W /\ Nested(W) \subseteq Level(s, i)
  <2>1. Encodes(Level(s, j), Encoder[MaxDepth])
    BY <1>1, LevelIs
  <2>2. Level(s, j) \subseteq Level(s, i + 1)
    BY <1>1, LevelIs
  <2>3. Nested(Level(s, i + 1)) \subseteq Level(s, i)
    BY <1>1, LevelIs
  <2> QED
    BY <2>1, <2>2, <2>3
<1>4. x \in Nat /\ x <= MaxLength
  BY <1>1, <1>2
<1> HIDE DEF l, V, W, E, x
<1>5. ss \in Seq(Seq(Byte)) /\ Len(ss) = Len(l) /\ \A k \in 1..Len(l) : Len(ss[k]) >= 1
  <2>1. /\ ss \in Seq(Seq(Byte)) /\ Len(ss) = Len(l)
        /\ \A k \in 1..Len(l) : /\ l[k] \in V /\ ss[k] = E[l[k]]
                                /\ E[l[k]] \in Seq(Byte) /\ Len(E[l[k]]) >= 1
    BY <1>2, <1>3, ItemsType, Zenon
  <2> HIDE DEF ss
  <2> QED
    BY <2>1
<1> HIDE DEF ss
<1>6. FlattenSeq(ss) \in Seq(Byte) /\ Len(FlattenSeq(ss)) <= x /\ Len(l) <= x
  BY <1>2, <1>4, <1>5, FitsLength
<1>7. l \in Lists(W)
  <2>1. l \in Seq(W)
    BY <1>2, <1>3
  <2>2. Len(l) <= MaxLength
    <3>1. Len(l) \in Nat /\ MaxLength \in Nat
      BY <1>1, <1>2
    <3> QED
      BY <1>4, <1>6, <3>1
  <2> QED
    BY <2>1, <2>2 DEF Lists
<1>8. v \in Level(s, i)
  <2>1. v \in Nested(W)
    BY <1>7 DEF Nested
  <2> QED
    BY <1>3, <2>1
<1>9. Encode(v) = Sized(4, l) \o FlattenSeq(ss)
  <2>1. EncodeValue(v, E) = Sized(4, l) \o FlattenSeq(ss)
    BY EncodeNested DEF ss
  <2>2. Encode(v) = EncodeValue(v, E)
    <3> HIDE DEF v
    <3> QED
      BY <1>8, LevelIs DEF E
  <2> QED
    BY <2>1, <2>2
<1> HIDE DEF v
<1>10. Len(l) <= NumberOf(m)
  <2>1. Len(l) \in Nat
    BY <1>2
  <2> QED
    BY <1>2, <2>1
<1>11. Len(FlattenSeq(ss)) <= r.next - j
  BY <1>6 DEF x
<1> DEFINE h == Sized(4, l)
           f == FlattenSeq(ss)
<1>12. h \in Seq(Byte) /\ Len(h) <= 1 + Extra(m)
  BY <1>7, <1>10, SizedFits
<1>13. f \in Seq(Byte) /\ Len(f) <= r.next - j /\ Encode(v) = h \o f
  BY <1>6, <1>9, <1>11
<1> HIDE DEF h, f
<1>14. ValueFits(s, Done(v, r.next), i)
  BY <1>2, <1>8, <1>12, <1>13, BodyFits
<1> QED
  BY <1>14 DEF v, l

\* A dict (attestation.py:398-405).
LEMMA DictFits ==
  ASSUME NEW s, Short(s), NEW i \in 0..Len(s), NEW m \in Numbers, NEW j \in (i + 1)..Len(s),
         Extra(m) <= j - (i + 1), NEW r, r.error = "none", PairsFit(s, r, NumberOf(m), j)
  PROVE  ValueFits(s, Done(<<"dict", Assigned(r.value)>>, r.next), i)
<1> DEFINE p == r.value
           dict == Assigned(p)
           V == Level(s, j)
           K == Keys(V)
           W == Level(s, i + 1)
           E == Encoder[MaxDepth]
           ss == Pairs(E, dict)
           x == r.next - j
           v == <<"dict", dict>>
<1>1. /\ Len(s) \in Nat /\ i \in Nat /\ j \in Nat /\ j \in 0..Len(s) /\ i + 1 \in 0..Len(s)
      /\ j \in (i + 1)..Len(s) /\ i < Len(s) /\ Len(s) <= MaxLength /\ MaxLength \in Nat
  BY DEF Short, MaxLength
<1>2. /\ r.next \in j..Len(s) /\ p \in Seq(K \X V) /\ Len(p) = NumberOf(m)
      /\ Fits(Pairs(E, p), x)
  BY DEF PairsFit
<1>3. Encodes(V, E) /\ V \subseteq W /\ Nested(W) \subseteq Level(s, i)
  <2>1. Encodes(Level(s, j), Encoder[MaxDepth])
    BY <1>1, LevelIs
  <2>2. Level(s, j) \subseteq Level(s, i + 1)
    BY <1>1, LevelIs
  <2>3. Nested(Level(s, i + 1)) \subseteq Level(s, i)
    BY <1>1, LevelIs
  <2> QED
    BY <2>1, <2>2, <2>3
<1>4. x \in Nat /\ x <= MaxLength
  BY <1>1, <1>2
<1>5. Hashable(K) /\ K \subseteq V
  BY DEF Hashable, Keys
<1> HIDE DEF p, V, W, E, x, K
<1>6. dict \in Dicts(K, V) /\ Len(dict) <= Len(p) /\ Fits(ss, x)
  BY <1>2, <1>3, <1>4, <1>5, FitsAssigned
<1> HIDE DEF dict
<1>7. dict \in Seq(V \X V) /\ Keyed(dict) /\ Len(dict) \in Nat /\ Len(p) \in Nat
  BY <1>2, <1>6, <1>5 DEF Dicts
<1>8. ss \in Seq(Seq(Byte)) /\ Len(ss) = Len(dict) /\ \A k \in 1..Len(dict) : Len(ss[k]) >= 1
  <2>1. /\ ss \in Seq(Seq(Byte)) /\ Len(ss) = Len(dict)
        /\ \A k \in 1..Len(dict) :
              /\ dict[k] = <<dict[k][1], dict[k][2]>> /\ dict[k][1] \in V /\ dict[k][2] \in V
              /\ ss[k] = E[dict[k][1]] \o E[dict[k][2]]
              /\ E[dict[k][1]] \in Seq(Byte) /\ Len(E[dict[k][1]]) >= 1
              /\ E[dict[k][2]] \in Seq(Byte) /\ Len(E[dict[k][2]]) >= 1
    BY <1>3, <1>7, PairsType, Zenon
  <2>2. \A a, b \in Seq(Byte) : Len(a) >= 1 /\ Len(b) >= 1 => Len(a \o b) >= 1
    OBVIOUS
  <2> HIDE DEF ss
  <2> QED
    BY <2>1, <2>2
<1> HIDE DEF ss
<1>9. FlattenSeq(ss) \in Seq(Byte) /\ Len(FlattenSeq(ss)) <= x /\ Len(dict) <= x
  BY <1>4, <1>8, <1>6, FitsLength
<1>10. dict \in Lists(W \X W)
  <2>1. dict \in Seq(W \X W)
    BY <1>3, <1>7
  <2>2. Len(dict) <= MaxLength
    BY <1>1, <1>4, <1>9, <1>7
  <2> QED
    BY <2>1, <2>2 DEF Lists
<1>11. v \in Level(s, i)
  <2>1. v \in Nested(W)
    BY <1>10, <1>7 DEF Nested
  <2> QED
    BY <1>3, <2>1
<1>12. Encode(v) = Sized(5, dict) \o FlattenSeq(ss)
  <2>1. EncodeValue(v, E) = Sized(5, dict) \o FlattenSeq(ss)
    BY EncodeNested DEF ss
  <2>2. Encode(v) = EncodeValue(v, E)
    <3> HIDE DEF v
    <3> QED
      BY <1>11, LevelIs DEF E
  <2> QED
    BY <2>1, <2>2
<1> HIDE DEF v
<1>13. Len(dict) <= NumberOf(m)
  <2>1. Len(dict) <= Len(p) /\ Len(p) = NumberOf(m)
    BY <1>2, <1>6
  <2> QED
    BY <2>1, Zenon
<1>14. Len(FlattenSeq(ss)) <= r.next - j
  BY <1>9 DEF x
<1> DEFINE h == Sized(5, dict)
           f == FlattenSeq(ss)
<1>15. h \in Seq(Byte) /\ Len(h) <= 1 + Extra(m)
  BY <1>10, <1>13, SizedFits
<1>16. f \in Seq(Byte) /\ Len(f) <= r.next - j /\ Encode(v) = h \o f
  BY <1>9, <1>12, <1>14
<1> HIDE DEF h, f
<1>17. ValueFits(s, Done(v, r.next), i)
  BY <1>2, <1>11, <1>15, <1>16, BodyFits
<1> QED
  BY <1>17 DEF v, dict, p

\* decode, when what it calls does (attestation.py:375-419).
LEMMA NextFits ==
  ASSUME NEW s, Short(s), NEW i \in 0..Len(s), NEW later, AllFit(s, later, i + 1)
  PROVE  ValueFits(s, DecodeNext(s, later, i), i)
<1> DEFINE next == DecodeNext(s, later, i)
           r == Size(s, i)
           m == r.value
           j == r.next
           c == Content(s, r)
           l == Several(later, "items", r)
           p == Several(later, "pairs", r)
<1> SUFFICES ASSUME next.error = "none" PROVE ValueFits(s, next, i)
  BY DEF ValueFits
<1>1. s \in Seq(Byte) /\ Len(s) \in Nat /\ i \in Nat
  BY DEF Short
<1>2. ~(i >= Len(s)) /\ i < Len(s)
  <2>1. ~(i >= Len(s))
    BY DEF DecodeNext, Raise
  <2> QED
    BY <1>1, <2>1
<1>3. Major(s, i) \in 0..7 /\ Info(s, i) \in 0..31
  <2>1. s[i + 1] \in Byte
    <3>1. i + 1 \in 1..Len(s)
      BY <1>1, <1>2
    <3> QED
      BY <1>1, <3>1
  <2> QED
    BY <2>1, ByteParts DEF Major, Info
<1>4. Parts(s, later, i, r, next)
  BY <1>2, NextParts
<1>5. ASSUME r.error = "none"
      PROVE  m \in Numbers /\ j \in (i + 1)..Len(s) /\ Extra(m) <= j - (i + 1)
  BY <1>1, <1>2, <1>5, HeaderFits
<1> HIDE DEF next, r
<1>6. CASE Major(s, i) \in {0, 1}
  <2>1. next = Made(r, <<"int", Major(s, i) = 1, m>>)
    BY <1>4, <1>6 DEF Parts
  <2>2. r.error = "none" /\ next = Done(<<"int", Major(s, i) = 1, m>>, j)
    BY <2>1 DEF Made
  <2>3. Major(s, i) \in 0..1
    BY <1>6
  <2> HIDE DEF m, j
  <2>4. ValueFits(s, Done(<<"int", Major(s, i) = 1, m>>, j), i)
    BY <1>5, <2>2, <2>3, IntFits
  <2> QED
    BY <2>2, <2>4, Zenon
<1>7. CASE Major(s, i) \in 2..3
  <2>1. c.error = "none"
    <3> HIDE DEF c
    <3>1. \/ next = Made(c, <<"bytes", c.value>>)
          \/ next = IF c.error = "none" /\ ~Utf8(c.value) THEN Raise("UnicodeDecodeError")
                    ELSE Made(c, <<"text", c.value>>)
      BY <1>4, <1>7 DEF Parts, c
    <3> QED
      BY <3>1 DEF Made, Raise
  <2>2. r.error = "none" /\ c = Read(s, NumberOf(m), j)
    BY <2>1 DEF Content
  <2> HIDE DEF c, m, j
  <2>3. /\ ValueFits(s, Done(<<"bytes", c.value>>, c.next), i)
        /\ Utf8(c.value) => ValueFits(s, Done(<<"text", c.value>>, c.next), i)
    BY <1>5, <2>1, <2>2, BytesFit
  <2>4. CASE Major(s, i) = 2
    <3>1. next = Done(<<"bytes", c.value>>, c.next)
      BY <1>4, <2>1, <2>4 DEF Parts, Made, c
    <3> QED
      BY <2>3, <3>1
  <2>5. CASE Major(s, i) = 3
    <3>1. next = IF c.error = "none" /\ ~Utf8(c.value) THEN Raise("UnicodeDecodeError")
                 ELSE Made(c, <<"text", c.value>>)
      BY <1>4, <2>5 DEF Parts, c
    <3>2. Utf8(c.value) /\ next = Done(<<"text", c.value>>, c.next)
      BY <2>1, <3>1 DEF Made, Raise
    <3> QED
      BY <2>3, <3>2
  <2> QED
    BY <1>7, <2>4, <2>5
<1>8. CASE Major(s, i) = 4
  <2>1. next = Made(l, <<"list", l.value>>)
    BY <1>4, <1>8 DEF Parts
  <2>2. l.error = "none" /\ next = Done(<<"list", l.value>>, l.next)
    <3> HIDE DEF l
    <3> QED
      BY <2>1 DEF Made
  <2>3. r.error = "none" /\ l = later[<<"items", NumberOf(m), j>>]
    BY <2>2 DEF Several
  <2> HIDE DEF l, m, j
  <2>4. m \in Numbers /\ j \in (i + 1)..Len(s) /\ Extra(m) <= j - (i + 1) /\ NumberOf(m) \in Nat
    BY <1>5, <2>3, NumberParts, NumberType
  <2>5. ItemsFit(s, l, NumberOf(m), j)
    BY <2>3, <2>4 DEF AllFit
  <2> QED
    BY <2>2, <2>4, <2>5, ListFits
<1>9. CASE Major(s, i) = 5
  <2>1. next = Made(p, <<"dict", Assigned(p.value)>>)
    BY <1>4, <1>9 DEF Parts
  <2>2. p.error = "none" /\ next = Done(<<"dict", Assigned(p.value)>>, p.next)
    <3> HIDE DEF p
    <3> QED
      BY <2>1 DEF Made
  <2>3. r.error = "none" /\ p = later[<<"pairs", NumberOf(m), j>>]
    BY <2>2 DEF Several
  <2> HIDE DEF p, m, j
  <2>4. m \in Numbers /\ j \in (i + 1)..Len(s) /\ Extra(m) <= j - (i + 1) /\ NumberOf(m) \in Nat
    BY <1>5, <2>3, NumberParts, NumberType
  <2>5. PairsFit(s, p, NumberOf(m), j)
    BY <2>3, <2>4 DEF AllFit
  <2> QED
    BY <2>2, <2>4, <2>5, DictFits
<1>10. CASE Major(s, i) = 6
  <2>1. next = Tagged(later, r)
    BY <1>4, <1>10 DEF Parts
  <2>2. r.error = "none" /\ next = later[<<"value", 1, j>>]
    BY <2>1 DEF Tagged
  <2> HIDE DEF m, j
  <2>3. j \in (i + 1)..Len(s)
    BY <1>5, <2>2
  <2>4. ValueFits(s, next, j)
    BY <2>2, <2>3 DEF AllFit
  <2>5. Level(s, j) \subseteq Level(s, i)
    <3>1. j \in i..Len(s)
      BY <1>1, <2>3
    <3> QED
      BY <3>1, LevelIs
  <2>6. /\ next.next \in (j + 1)..Len(s) /\ next.value \in Level(s, i)
        /\ Len(Encode(next.value)) <= next.next - j
    BY <2>4, <2>5 DEF ValueFits
  <2>7. Len(Encode(next.value)) \in Nat
    <3>1. Encode(next.value) \in Seq(Byte)
      BY <2>6, LevelIs DEF Encodes
    <3> QED
      BY <3>1
  <2>8. next.next \in (i + 1)..Len(s) /\ Len(Encode(next.value)) <= next.next - i
    BY <1>1, <2>3, <2>6, <2>7
  <2> QED
    BY <2>6, <2>8 DEF ValueFits
<1>11. CASE Major(s, i) = 7
  <2>1. \E v \in {<<"bool", TRUE>>, <<"bool", FALSE>>, None} : next = Done(v, i + 1)
    <3>1. /\ Info(s, i) = 20 => next = Done(<<"bool", FALSE>>, i + 1)
          /\ Info(s, i) = 21 => next = Done(<<"bool", TRUE>>, i + 1)
          /\ Info(s, i) = 22 => next = Done(None, i + 1)
          /\ Info(s, i) \notin 20..22 => next = Raise("AttestationError")
      BY <1>4, <1>11 DEF Parts
    <3>2. Info(s, i) \in 20..22
      BY <3>1 DEF Raise
    <3>3. Info(s, i) = 20 \/ Info(s, i) = 21 \/ Info(s, i) = 22
      BY <3>2
    <3> QED
      BY <3>1, <3>3, Zenon
  <2> QED
    BY <1>2, <2>1, SimpleFits
<1> QED
  BY <1>3, <1>6, <1>7, <1>8, <1>9, <1>10, <1>11 DEF next

\* The items of a list, when what it calls does (attestation.py:396).
LEMMA AllItemsFit ==
  ASSUME NEW s, Short(s), NEW i \in 0..Len(s), NEW later, AllFit(s, later, i + 1), NEW n \in Nat
  PROVE  ItemsFit(s, DecodeItems(s, later, n, i), n, i)
<1> DEFINE q == DecodeItems(s, later, n, i)
           r == DecodeNext(s, later, i)
           l == later[<<"items", n - 1, r.next>>]
           V == Level(s, i)
           E == Encoder[MaxDepth]
<1> SUFFICES ASSUME q.error = "none" PROVE ItemsFit(s, q, n, i)
  BY DEF ItemsFit
<1>1. /\ Len(s) \in Nat /\ i \in Nat /\ Encodes(V, E)
      /\ \A v \in V : Encode(v) = E[v]
  BY LevelIs DEF Short
<1>2. CASE n = 0
  <2>1. q = Done(<<>>, i)
    BY <1>2 DEF DecodeItems
  <2>2. <<>> \in Seq(V) /\ Len(<<>>) = 0 /\ i \in i..Len(s) /\ i - i = 0
    BY <1>1
  <2>3. Items(E, <<>>) = <<>>
    BY DEF Items
  <2>4. q.value = <<>> /\ q.next = i
    BY <2>1 DEF Done
  <2>5. Fits(Items(E, q.value), q.next - i)
    <3>1. Fits(Items(E, <<>>), i - i)
      BY <2>2, <2>3, FitsNone, Zenon
    <3> HIDE DEF q, E
    <3> QED
      BY <2>4, <3>1, Zenon
  <2>6. q.next \in i..Len(s) /\ q.value \in Seq(V) /\ Len(q.value) = n
    <3> HIDE DEF q, V
    <3> QED
      BY <1>2, <2>2, <2>4
  <2> QED
    BY <2>5, <2>6 DEF ItemsFit
<1>3. CASE n # 0
  <2>1. q = IF r.error = "none" THEN Made(l, <<r.value>> \o l.value) ELSE r
    BY <1>3, ItemsParts
  <2>2. r.error = "none" /\ l.error = "none" /\ q = Done(<<r.value>> \o l.value, l.next)
    <3> HIDE DEF q, r, l
    <3> QED
      BY <2>1 DEF Made
  <2>3. ValueFits(s, r, i)
    BY NextFits
  <2> HIDE DEF q, r, l
  <2> DEFINE v == r.value
             j == r.next
             e == E[v]
             ll == l.value
  <2>4. j \in (i + 1)..Len(s) /\ v \in V /\ Len(e) <= j - i
    BY <1>1, <2>2, <2>3 DEF ValueFits
  <2>5. e \in Seq(Byte) /\ j - i \in Nat
    BY <1>1, <2>4 DEF Encodes
  <2>6. ItemsFit(s, l, n - 1, j)
    <3>1. n - 1 \in Nat
      BY <1>3
    <3> QED
      BY <2>4, <3>1 DEF AllFit, l
  <2>7. /\ l.next \in j..Len(s) /\ ll \in Seq(V) /\ Len(ll) = n - 1
        /\ Fits(Items(E, ll), l.next - j)
    <3>1. Level(s, j) \subseteq V
      <4>1. j \in i..Len(s)
        BY <1>1, <2>4
      <4> QED
        BY <4>1, LevelIs
    <3> QED
      BY <2>2, <2>6, <3>1 DEF ItemsFit
  <2>8. l.next - j \in Nat
    BY <1>1, <2>4, <2>7
  <2> HIDE DEF v, j, e, ll, V, E
  <2>9. Items(E, ll) \in Seq(Seq(Byte))
    BY <1>1, <2>7, ItemsType
  <2>10. Fits(<<e>> \o Items(E, ll), (j - i) + (l.next - j))
    BY <2>4, <2>5, <2>7, <2>8, <2>9, FitsFirst
  <2>11. /\ <<v>> \o ll \in Seq(V) /\ Len(<<v>> \o ll) = Len(ll) + 1
         /\ Items(E, <<v>> \o ll) = <<e>> \o Items(E, ll)
    <3>1. <<v>> \o ll \in Seq(V) /\ Len(<<v>> \o ll) = Len(ll) + 1
      BY <2>4, <2>7
    <3>2. Items(E, <<v>> \o ll) = <<E[v]>> \o Items(E, ll)
      BY <2>4, <2>7, ItemsFirst, SMTT(60)
    <3> QED
      BY <3>1, <3>2 DEF e
  <2>12. Len(<<v>> \o ll) = n /\ (j - i) + (l.next - j) = l.next - i /\ l.next \in i..Len(s)
    BY <1>1, <2>4, <2>7, <2>11
  <2>13. q.value = <<v>> \o ll /\ q.next = l.next
    BY <2>2 DEF Done, v, ll
  <2> DEFINE m == <<v>> \o ll
  <2>14. /\ m \in Seq(V) /\ Len(m) = n /\ q.value = m
         /\ Fits(Items(E, m), q.next - i) /\ q.next \in i..Len(s)
    BY <2>10, <2>11, <2>12, <2>13
  <2> HIDE DEF m
  <2> QED
    BY <2>14 DEF ItemsFit, V, E
<1> QED
  BY <1>2, <1>3

\* The pairs of a dict (attestation.py:401-403).
LEMMA AllPairsFit ==
  ASSUME NEW s, Short(s), NEW i \in 0..Len(s), NEW later, AllFit(s, later, i + 1), NEW n \in Nat
  PROVE  PairsFit(s, DecodePairs(s, later, n, i), n, i)
<1> DEFINE q == DecodePairs(s, later, n, i)
           r == DecodeNext(s, later, i)
           t == later[<<"value", 1, r.next>>]
           l == later[<<"pairs", n - 1, t.next>>]
           V == Level(s, i)
           K == Keys(V)
           E == Encoder[MaxDepth]
<1> SUFFICES ASSUME q.error = "none" PROVE PairsFit(s, q, n, i)
  BY DEF PairsFit
<1>1. /\ Len(s) \in Nat /\ i \in Nat /\ Encodes(V, E)
      /\ \A v \in V : Encode(v) = E[v]
  BY LevelIs DEF Short
<1>2. CASE n = 0
  <2>1. q = Done(<<>>, i)
    BY <1>2 DEF DecodePairs
  <2>2. <<>> \in Seq(K \X V) /\ Len(<<>>) = 0 /\ i \in i..Len(s) /\ i - i = 0
    <3>1. \A S : <<>> \in Seq(S)
      OBVIOUS
    <3> QED
      BY <1>1, <3>1
  <2>3. Pairs(E, <<>>) = <<>>
    BY DEF Pairs
  <2>4. q.value = <<>> /\ q.next = i
    BY <2>1 DEF Done
  <2>5. Fits(Pairs(E, q.value), q.next - i)
    <3>1. Fits(Pairs(E, <<>>), i - i)
      BY <2>2, <2>3, FitsNone, Zenon
    <3> HIDE DEF q, E
    <3> QED
      BY <2>4, <3>1, Zenon
  <2>6. q.next \in i..Len(s) /\ q.value \in Seq(K \X V) /\ Len(q.value) = n
    <3> HIDE DEF q, V
    <3> QED
      BY <1>2, <2>2, <2>4
  <2> QED
    BY <2>5, <2>6 DEF PairsFit
<1>3. CASE n # 0
  <2>1. q = IF r.error # "none" THEN r
            ELSE IF t.error # "none" THEN t
            ELSE IF r.value[1] \in {"list", "dict"} THEN Raise("TypeError")
            ELSE Made(l, <<<<r.value, t.value>>>> \o l.value)
    BY <1>3, PairsParts
  <2>2. /\ r.error = "none" /\ t.error = "none" /\ l.error = "none"
        /\ r.value[1] \notin {"list", "dict"}
        /\ q = Done(<<<<r.value, t.value>>>> \o l.value, l.next)
    <3> HIDE DEF q, r, t, l
    <3> QED
      BY <2>1 DEF Made, Raise
  <2>3. ValueFits(s, r, i)
    BY NextFits
  <2> HIDE DEF q, r, t, l
  <2> DEFINE k == r.value
             v == t.value
             o == r.next
             j == t.next
             e == E[k] \o E[v]
             ll == l.value
  <2>4. o \in (i + 1)..Len(s) /\ k \in V /\ Len(E[k]) <= o - i
    BY <1>1, <2>2, <2>3 DEF ValueFits
  <2>5. k \in K
    BY <2>2, <2>4 DEF Keys
  <2>6. Level(s, o) \subseteq V
    <3>1. o \in i..Len(s)
      BY <1>1, <2>4
    <3> QED
      BY <3>1, LevelIs
  <2>7. j \in (o + 1)..Len(s) /\ v \in V /\ Len(E[v]) <= j - o
    <3>1. ValueFits(s, t, o)
      BY <2>4 DEF AllFit, t
    <3> QED
      BY <1>1, <2>2, <2>6, <3>1 DEF ValueFits
  <2>8. e \in Seq(Byte) /\ Len(e) <= j - i /\ j - i \in Nat /\ j \in (i + 1)..Len(s)
    <3>1. E[k] \in Seq(Byte) /\ E[v] \in Seq(Byte)
      BY <1>1, <2>4, <2>7 DEF Encodes
    <3>2. e \in Seq(Byte) /\ Len(e) = Len(E[k]) + Len(E[v])
      BY <3>1, Joined
    <3>3. Len(E[k]) \in Nat /\ Len(E[v]) \in Nat
      BY <3>1
    <3> HIDE DEF e
    <3>4. ASSUME NEW a \in Nat, NEW b \in Nat, NEW y \in Nat, NEW z \in Nat, NEW w \in Nat,
                 y \in (i + 1)..w, z \in (y + 1)..w, a <= y - i, b <= z - y
          PROVE  a + b <= z - i /\ z - i \in Nat /\ z \in (i + 1)..w
      BY <1>1, <3>4
    <3>5. o \in Nat /\ j \in Nat
      BY <1>1, <2>4, <2>7
    <3>6. Len(E[k]) + Len(E[v]) <= j - i /\ j - i \in Nat /\ j \in (i + 1)..Len(s)
      <4> DEFINE a == Len(E[k])
                 b == Len(E[v])
                 w == Len(s)
      <4>1. /\ a \in Nat /\ b \in Nat /\ w \in Nat /\ a <= o - i /\ b <= j - o
            /\ o \in (i + 1)..w /\ j \in (o + 1)..w
        BY <1>1, <2>4, <2>7, <3>3
      <4> HIDE DEF a, b, w, o, j
      <4>2. a + b <= j - i /\ j - i \in Nat /\ j \in (i + 1)..w
        BY <3>4, <3>5, <4>1
      <4> QED
        BY <4>2 DEF a, b, w
    <3> QED
      BY <3>2, <3>6
  <2>9. PairsFit(s, l, n - 1, j)
    <3>1. n - 1 \in Nat
      BY <1>3
    <3> QED
      BY <2>8, <3>1 DEF AllFit, l
  <2>10. /\ l.next \in j..Len(s) /\ ll \in Seq(K \X V) /\ Len(ll) = n - 1
         /\ Fits(Pairs(E, ll), l.next - j)
    <3>1. Level(s, j) \subseteq V
      <4>1. j \in i..Len(s)
        BY <1>1, <2>8
      <4> QED
        BY <4>1, LevelIs
    <3>2. Keys(Level(s, j)) \subseteq K
      BY <3>1 DEF Keys
    <3>3. ll \in Seq(Keys(Level(s, j)) \X Level(s, j))
      BY <2>2, <2>9 DEF PairsFit
    <3>4. ll \in Seq(K \X V)
      <4> HIDE DEF K, V, ll
      <4> QED
        BY <3>1, <3>2, <3>3
    <3> QED
      BY <2>2, <2>9, <3>4 DEF PairsFit
  <2>11. l.next - j \in Nat
    BY <1>1, <2>8, <2>10
  <2>12. K \subseteq V
    BY DEF Keys
  <2> HIDE DEF k, v, j, e, ll, V, K, E
  <2>13. Pairs(E, ll) \in Seq(Seq(Byte))
    <3>1. ll \in Seq(V \X V)
      BY <2>10, <2>12
    <3> QED
      BY <1>1, <3>1, PairsType
  <2>14. Fits(<<e>> \o Pairs(E, ll), (j - i) + (l.next - j))
    BY <2>8, <2>10, <2>11, <2>13, FitsFirst
  <2> DEFINE m == <<<<k, v>>>> \o ll
  <2>15. m \in Seq(K \X V) /\ Len(m) = Len(ll) + 1 /\ Pairs(E, m) = <<e>> \o Pairs(E, ll)
    <3> DEFINE S == K \X V
               pair == <<k, v>>
    <3>1. ll \in Seq(S) /\ pair \in S /\ pair[1] = k /\ pair[2] = v
      BY <2>5, <2>7, <2>10
    <3> HIDE DEF S, pair
    <3>2. <<pair>> \o ll \in Seq(S) /\ Len(<<pair>> \o ll) = Len(ll) + 1
      BY <3>1
    <3>4. Pairs(E, <<pair>> \o ll) = <<E[pair[1]] \o E[pair[2]]>> \o Pairs(E, ll)
      BY <3>1, PairsFirst, ZenonT(60)
    <3>3. m = <<pair>> \o ll /\ e = E[pair[1]] \o E[pair[2]]
      BY <3>1, Zenon DEF pair, e
    <3> HIDE DEF m
    <3> QED
      BY <3>2, <3>3, <3>4, Zenon DEF S
  <2>16. q.value = m /\ q.next = l.next
    BY <2>2 DEF Done, k, v, ll
  <2> HIDE DEF m
  <2>17. Len(m) = n /\ (j - i) + (l.next - j) = l.next - i /\ l.next \in i..Len(s)
    BY <1>1, <2>8, <2>10, <2>15
  <2>18. Fits(Pairs(E, m), q.next - i) /\ q.next \in i..Len(s)
    BY <2>14, <2>15, <2>16, <2>17
  <2> QED
    BY <2>15, <2>16, <2>17, <2>18 DEF PairsFit, V, K, E
<1> QED
  BY <1>2, <1>3

\* What the decoder returns, from every offset.
LEMMA DecoderFits ==
  ASSUME NEW s, Short(s)
  PROVE  AllFit(s, Decoder(s), 0)
<1> DEFINE D == Decoder(s)
           S == {k \in 0..(Len(s) + 1) : AllFit(s, D, k)}
<1>1. s \in Seq(Byte) /\ Len(s) \in Nat /\ Len(s) + 1 \in Nat
  BY DEF Short
<1>2. ASSUME NEW i \in 0..Len(s), AllFit(s, D, i + 1) PROVE AllFit(s, D, i)
  <2>1. /\ D[<<"value", 1, i>>] = DecodeNext(s, D, i)
        /\ \A n \in Nat : /\ D[<<"items", n, i>>] = DecodeItems(s, D, n, i)
                          /\ D[<<"pairs", n, i>>] = DecodePairs(s, D, n, i)
    BY <1>1, DecoderStep
  <2> HIDE DEF D
  <2>2. ValueFits(s, D[<<"value", 1, i>>], i)
    BY <1>2, <2>1, NextFits
  <2>3. ASSUME NEW n \in Nat
        PROVE  ItemsFit(s, D[<<"items", n, i>>], n, i) /\ PairsFit(s, D[<<"pairs", n, i>>], n, i)
    BY <1>2, <2>1, AllItemsFit, AllPairsFit
  <2>4. \A j \in i..Len(s) : j = i \/ j \in (i + 1)..Len(s)
    BY <1>1
  <2> QED
    BY <1>2, <2>2, <2>3, <2>4 DEF AllFit
<1> HIDE DEF D
<1>3. Len(s) + 1 \in S
  <2>1. (Len(s) + 1)..Len(s) = {}
    BY <1>1
  <2> QED
    BY <1>1, <2>1 DEF AllFit
<1>4. \A n \in 0..((Len(s) + 1) - 1) : n + 1 \in S => n \in S
  <2>1. \A n \in 0..((Len(s) + 1) - 1) : n \in 0..Len(s) /\ n \in 0..(Len(s) + 1)
    BY <1>1
  <2> QED
    BY <1>2, <2>1
<1>5. 0 \in S
  <2> HIDE DEF S
  <2>1. \A n \in 0..(Len(s) + 1) : n \in S
    BY <1>1, <1>3, <1>4, Downward
  <2> QED
    BY <1>1, <2>1
<1> QED
  BY <1>5 DEF D

\* _cbor_decode returns a value of the codec, whose encoding takes no more bytes than the
\* string that was decoded (attestation.py:477-481).
LEMMA DecodedFits ==
  ASSUME NEW s, Short(s), CborDecode(s).error = "none"
  PROVE  LET v == CborDecode(s).value
         IN  /\ CborDecode(s) = Done(v, 0) /\ v \in Values[MaxDepth]
             /\ Encode(v) \in Seq(Byte) /\ Len(Encode(v)) <= Len(s)
<1> DEFINE r == Decoder(s)[<<"value", 1, 0>>]
           v == CborDecode(s).value
<1>1. Len(s) \in Nat /\ 0 \in 0..Len(s)
  BY DEF Short
<1>2. r.error = "none" /\ r.next = Len(s) /\ CborDecode(s) = Done(r.value, 0)
  BY CborDecodeIs DEF Raise
<1>3. ValueFits(s, r, 0)
  BY <1>1, DecoderFits DEF AllFit
<1> HIDE DEF r
<1>4. v = r.value /\ CborDecode(s) = Done(v, 0)
  BY <1>2 DEF Done
<1>5. v \in Level(s, 0) /\ Len(Encode(v)) <= Len(s) - 0
  BY <1>2, <1>3, <1>4 DEF ValueFits
<1> HIDE DEF v
<1>6. v \in Values[MaxDepth] /\ Encode(v) \in Seq(Byte)
  BY <1>1, <1>5, LevelIs DEF Encodes
<1>7. Len(Encode(v)) <= Len(s)
  <2>1. Len(Encode(v)) \in Nat
    BY <1>6
  <2> QED
    BY <1>1, <1>5, <2>1
<1> QED
  BY <1>4, <1>6, <1>7 DEF v

\* What _cbor_encode writes for a value of the codec, _cbor_decode reads back
\* (attestation.py:477-502).
LEMMA RoundTrip ==
  ASSUME NEW v \in Values[MaxDepth]
  PROVE  Encode(v) \in Seq(Byte) /\ CborDecode(Encode(v)) = Done(v, 0)
<1> DEFINE e == Encoder[MaxDepth][v]
<1>1. MaxDepth \in 0..MaxDepth
  BY DepthAssumption
<1>2. e \in Seq(Byte)
  BY <1>1, EncoderType DEF Encodes
<1>3. Reads(e, Values[MaxDepth], Encoder[MaxDepth])
  <2> HIDE DEF e
  <2> QED
    BY <1>1, <1>2, ReadsBack
<1>4. At(e, 0, e)
  <2> HIDE DEF e
  <2> QED
    BY <1>2 DEF At
<1>5. Decoder(e)[<<"value", 1, 0>>] = Done(v, 0 + Len(e))
  <2>1. At(e, 0, Encoder[MaxDepth][v])
    BY <1>4
  <2>2. Decoder(e)[<<"value", 1, 0>>] = Done(v, 0 + Len(Encoder[MaxDepth][v]))
    <3> HIDE DEF e
    <3> QED
      BY <1>3, <2>1 DEF Reads
  <2> QED
    BY <2>2
<1> HIDE DEF e
<1>6. 0 + Len(e) = Len(e)
  BY <1>2
<1>7. CborDecode(e) = Done(v, 0)
  <2>1. /\ Decoder(e)[<<"value", 1, 0>>].error = "none"
        /\ Decoder(e)[<<"value", 1, 0>>].next = Len(e)
        /\ Decoder(e)[<<"value", 1, 0>>].value = v
    BY <1>5, <1>6 DEF Done
  <2> QED
    BY <2>1, CborDecodeIs
<1> QED
  BY <1>2, <1>7 DEF e, Encode
=============================================================================
