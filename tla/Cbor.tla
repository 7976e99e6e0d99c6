-------------------------------- MODULE Cbor --------------------------------
(***************************************************************************)
(* The CBOR codec of src/enclave/attestation.py.  A Python value is a      *)
(* tuple that begins with its type.  An int is <<"int", negative, m>>: m,  *)
(* or -1 - m when negative, with m a big-endian sequence of bytes without  *)
(* leading zeros, so that eight-byte integers need no arithmetic.  A dict  *)
(* is the sequence of its items in insertion order.                        *)
(*                                                                         *)
(* The functions of the code that call themselves are recursive functions  *)
(* here: of the offset for the decoder, of the nesting for the encoder.    *)
(***************************************************************************)
EXTENDS Integers, Sequences, SequencesExt

CONSTANT MaxDepth    \* bound: how deep the lists and dicts of a value nest

ASSUME DepthAssumption == MaxDepth \in Nat

Byte == 0..255
None == <<"none">>

\* int.to_bytes and int.from_bytes with as many bytes as the number has; a
\* sequence of the model has fewer than 2^32 elements.
Magnitude(n) ==
  CASE n = 0 -> <<>>
    [] 0 < n /\ n < 256 -> <<n>>
    [] 256 <= n /\ n < 65536 -> <<n \div 256, n % 256>>
    [] 65536 <= n /\ n < 16777216 -> <<n \div 65536, (n \div 256) % 256, n % 256>>
    [] OTHER -> <<n \div 16777216, (n \div 65536) % 256, (n \div 256) % 256, n % 256>>

Padded(m, n) == [i \in 1..n |-> IF i + Len(m) <= n THEN 0 ELSE m[i + Len(m) - n]]

NumberOf(m) ==
  LET p == Padded(m, 8)
  IN  256 * (256 * (256 * (256 * (256 * (256 * (256 * p[1] + p[2])
        + p[3]) + p[4]) + p[5]) + p[6]) + p[7]) + p[8]

\* The numbers of eight bytes at most.
Numbers == {m \in Seq(Byte) : Len(m) <= 8 /\ (m # <<>> => m[1] # 0)}
Ints == {"int"} \X BOOLEAN \X Numbers

IntOf(n) == <<"int", FALSE, Magnitude(n)>>

-----------------------------------------------------------------------------
(* Headers *)

\* The bytes that follow the first of a header.
Width(info) == CASE info = 24 -> 1 [] info = 25 -> 2 [] info = 26 -> 4 [] info = 27 -> 8

LongHeader(major, m) ==
  LET info == CASE Len(m) <= 1 -> 24 [] Len(m) = 2 -> 25 [] Len(m) \in 3..4 -> 26
                [] OTHER -> 27
  IN  <<32 * major + info>> \o Padded(m, Width(info))

\* Mutant of EncodeLength: value <= 24.
EncodeLengthLate(major, m) ==
  IF Len(m) <= 1 /\ NumberOf(m) <= 24 THEN <<32 * major + NumberOf(m)>>
  ELSE LongHeader(major, m)

\* Mutant of EncodeLength: value < 23.
EncodeLengthEarly(major, m) ==
  IF Len(m) <= 1 /\ NumberOf(m) < 23 THEN <<32 * major + NumberOf(m)>>
  ELSE LongHeader(major, m)

\* The header of an item: its type and a length or integer.
EncodeLength(major, m) ==
  IF Len(m) <= 1 /\ NumberOf(m) < 24 THEN <<32 * major + NumberOf(m)>>
  ELSE LongHeader(major, m)

-----------------------------------------------------------------------------
(* Decoding: each reader begins at an offset in the bytes s, and returns a  *)
(* value and the offset after it, or an exception.                          *)

Done(v, i) == [value |-> v, next |-> i, error |-> "none"]
Raise(error) == [value |-> None, next |-> 0, error |-> error]
Then(r, Op(_, _)) == IF r.error = "none" THEN Op(r.value, r.next) ELSE r

Read(s, n, i) ==
  IF i + n > Len(s) THEN Raise("AttestationError")
  ELSE Done(SubSeq(s, i + 1, i + n), i + n)

WithoutZeros(m) ==
  IF \E i \in 1..Len(m) : m[i] # 0
  THEN SubSeq(m, CHOOSE i \in 1..Len(m) : m[i] # 0 /\ \A j \in 1..i - 1 : m[j] = 0,
              Len(m))
  ELSE <<>>

ReadLength(s, info, i) ==
  IF info < 24 THEN Done(Magnitude(info), i)
  ELSE IF info \in 24..27
       THEN Then(Read(s, Width(info), i), LAMBDA m, j : Done(WithoutZeros(m), j))
       ELSE Raise("AttestationError")

\* Python's utf-8: no overlong forms, no surrogates, nothing above U+10FFFF.
Utf8(s) ==
  LET CharAt(i) ==
        LET Followed(n) == i + n <= Len(s) /\ \A j \in i + 1..i + n : s[j] \in 128..191
            Starts(low, high, first, last) ==
              s[i] \in low..high /\ (i < Len(s) => s[i + 1] \in first..last)
            extra == CASE s[i] \in 0..127 -> 0
                       [] s[i] \in 194..223 -> 1
                       [] \/ Starts(224, 224, 160, 191) \/ Starts(225, 236, 128, 191)
                          \/ Starts(237, 237, 128, 159) \/ Starts(238, 239, 128, 191) -> 2
                       [] \/ Starts(240, 240, 144, 191) \/ Starts(241, 243, 128, 191)
                          \/ Starts(244, 244, 128, 143) -> 3
                       [] OTHER -> Len(s)
        IN  IF Followed(extra) THEN extra + 1 ELSE 0
      valid[i \in 1..Len(s) + 1] == i > Len(s) \/ (CharAt(i) > 0 /\ valid[i + CharAt(i)])
  IN  valid[1]

\* True and 1 are equal and hash alike, and so are False and 0.
SameKey(a, b) ==
  LET Number(v) == IF v[1] = "bool" THEN IntOf(IF v[2] THEN 1 ELSE 0) ELSE v
  IN  Number(a) = Number(b)

\* dict[k] = v: an equal key keeps its place and its spelling.
Put(dict, k, v) ==
  IF \E i \in 1..Len(dict) : SameKey(dict[i][1], k)
  THEN [i \in 1..Len(dict) |->
          IF SameKey(dict[i][1], k) THEN <<dict[i][1], v>> ELSE dict[i]]
  ELSE Append(dict, <<k, v>>)

\* The dict after the assignments dict[k] = v of these pairs.
Assigned(pairs) ==
  LET dict[i \in 0..Len(pairs)] ==
        IF i = 0 THEN <<>> ELSE Put(dict[i - 1], pairs[i][1], pairs[i][2])
  IN  dict[Len(pairs)]

\* decode, with what it does from a later offset.
DecodeNext(s, later, i) ==
  IF i >= Len(s) THEN Raise("AttestationError")
  ELSE LET major == s[i + 1] \div 32
           info  == s[i + 1] % 32
           length == ReadLength(s, info, i + 1)
           Bytes == Then(length, LAMBDA m, j : Read(s, NumberOf(m), j))
           Several(what) == Then(length, LAMBDA m, j : later[<<what, NumberOf(m), j>>])
       IN  CASE major \in {0, 1} -> Then(length, LAMBDA m, j : Done(<<"int", major = 1, m>>, j))
             [] major = 2 -> Then(Bytes, LAMBDA b, j : Done(<<"bytes", b>>, j))
             [] major = 3 -> Then(Bytes, LAMBDA b, j :
                  IF Utf8(b) THEN Done(<<"text", b>>, j) ELSE Raise("UnicodeDecodeError"))
             [] major = 4 -> Then(Several("items"), LAMBDA l, j : Done(<<"list", l>>, j))
             [] major = 5 -> Then(Several("pairs"), LAMBDA l, j :
                                  Done(<<"dict", Assigned(l)>>, j))
             [] major = 6 -> Then(length, LAMBDA m, j : later[<<"value", 1, j>>])
             [] major = 7 -> CASE info = 20 -> Done(<<"bool", FALSE>>, i + 1)
                               [] info = 21 -> Done(<<"bool", TRUE>>, i + 1)
                               [] info = 22 -> Done(None, i + 1)
                               [] OTHER -> Raise("AttestationError")

\* n items in a row; n keys and values in a row.
DecodeItems(s, later, n, i) ==
  IF n = 0 THEN Done(<<>>, i)
  ELSE Then(DecodeNext(s, later, i), LAMBDA v, j :
         Then(later[<<"items", n - 1, j>>], LAMBDA l, k : Done(<<v>> \o l, k)))

DecodePairs(s, later, n, i) ==
  IF n = 0 THEN Done(<<>>, i)
  ELSE Then(DecodeNext(s, later, i), LAMBDA k, j :
         Then(later[<<"value", 1, j>>], LAMBDA v, j2 :
           IF k[1] \in {"list", "dict"} THEN Raise("TypeError")
           ELSE Then(later[<<"pairs", n - 1, j2>>], LAMBDA l, j3 :
                  Done(<<<<k, v>>>> \o l, j3))))

\* What there is to decode, how many of it, and from which offset.
Tasks == {"value", "items", "pairs"} \X Nat \X Nat

Decode(s, later, task) ==
  CASE task[1] = "value" -> DecodeNext(s, later, task[3])
    [] task[1] = "items" -> DecodeItems(s, later, task[2], task[3])
    [] task[1] = "pairs" -> DecodePairs(s, later, task[2], task[3])

Decoder(s) == LET decode[task \in Tasks] == Decode(s, decode, task) IN decode

\* Mutant of CborDecode: trailing bytes are ignored.
DecodePrefix(s) ==
  Then(Decoder(s)[<<"value", 1, 0>>], LAMBDA v, i : Done(v, 0))

\* A value, and no offset.
CborDecode(s) ==
  Then(Decoder(s)[<<"value", 1, 0>>], LAMBDA v, i :
         IF i = Len(s) THEN Done(v, 0) ELSE Raise("AttestationError"))

-----------------------------------------------------------------------------
(* Encoding *)

\* A dict has no equal keys, and none that cannot be hashed.
Keyed(dict) ==
  \A i \in 1..Len(dict) :
    /\ dict[i][1][1] \notin {"list", "dict"}
    /\ \A j \in 1..Len(dict) : SameKey(dict[i][1], dict[j][1]) => i = j

\* The sequences of a value have a length that Magnitude spells, and TLC counts.
MaxLength == 2147483647
Lists(S) == {s \in Seq(S) : Len(s) <= MaxLength}

\* The values that the codec handles, with lists and dicts that nest d deep at
\* most.
Plain ==
  ({"bool"} \X BOOLEAN) \cup {None} \cup Ints
  \cup ({"bytes"} \X Lists(Byte)) \cup ({"text"} \X {b \in Lists(Byte) : Utf8(b)})

Nested(vs) ==
  ({"list"} \X Lists(vs)) \cup ({"dict"} \X {p \in Lists(vs \X vs) : Keyed(p)})

Values[d \in 0..MaxDepth] == Plain \cup (IF d = 0 THEN {} ELSE Nested(Values[d - 1]))

\* encode, with what it writes for the values inside.
EncodeValue(v, inner) ==
  LET body == v[2]
      Sized(major) == EncodeLength(major, Magnitude(Len(body)))
  IN  CASE v[1] = "bool"  -> IF body THEN <<245>> ELSE <<244>>
        [] v[1] = "none"  -> <<246>>
        [] v[1] = "int"   -> EncodeLength(IF body THEN 1 ELSE 0, v[3])
        [] v[1] = "bytes" -> Sized(2) \o body
        [] v[1] = "text"  -> Sized(3) \o body
        [] v[1] = "list"  -> Sized(4) \o
             FlattenSeq([i \in 1..Len(body) |-> inner[body[i]]])
        [] v[1] = "dict"  -> Sized(5) \o
             FlattenSeq([i \in 1..Len(body) |-> inner[body[i][1]] \o inner[body[i][2]]])

Encoder[d \in 0..MaxDepth] == [v \in Values[d] |-> EncodeValue(v, Encoder[d - 1])]

Encode(v) == Encoder[MaxDepth][v]
=============================================================================
