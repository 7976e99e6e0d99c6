---------------------------- MODULE Attestation ----------------------------
(***************************************************************************)
(* The codec of src/enclave/attestation.py and the attestation documents   *)
(* it carries.  A document is a sequence of bytes.  It either comes from   *)
(* outside, and grows here byte by byte through every string over          *)
(* Alphabet, or is issued by MockNSM.  The names of fields are short texts *)
(* that stand for the real ones.                                           *)
(***************************************************************************)
EXTENDS Cbor

CONSTANTS Alphabet,    \* bytes of the documents that come from outside
          MaxBytes,    \* bound: length of such a document
          Pcrs,        \* the items of the pcrs that MockNSM may be given
          Pcr0,        \* the text of MOCK_NSM_PCR0
          Times,       \* timestamp_ms it may be given, or None
          Fields,      \* values of public_key, user_data and nonce, or None
          Now          \* the clock, as an int value

\* bytes, text in ASCII, and one item of pcrs: an index and a value, where None stands for
\* an object of any other type.
Bytestring == {"bytes"} \X Lists(Byte)
Ascii == 0..127
Texts == {"text"} \X Lists(Ascii)
Pcr == [index : Ints \cup Texts \cup {None}, value : Bytestring \cup Texts \cup {None}]

Blank == 9..13 \cup {32}

-----------------------------------------------------------------------------
(* The arguments of MockNSM *)

\* int() of a text: blanks around it, a sign, and digits that single underscores may part.
\* None is the exception of any other index.
IndexOf(index) ==
  LET text   == index[2]
      inner  == {i \in 1..Len(text) : text[i] \notin Blank}
      s      == IF inner = {} THEN <<>> ELSE SubSeq(text, Min(inner), Max(inner))
      digits == IF s # <<>> /\ s[1] \in {43, 45} THEN Tail(s) ELSE s
      number == FoldLeft(LAMBDA n, c : 10 * n + c - 48, 0, SelectSeq(digits, LAMBDA c : c # 95))
  IN  CASE index[1] = "int" -> index
        [] index[1] = "text" /\ digits # <<>>
             /\ \A i \in 1..Len(digits) :
                  \/ digits[i] \in 48..57
                  \/ digits[i] = 95 /\ i \in 2..Len(digits) - 1 /\ digits[i - 1] # 95 ->
               IF s[1] = 45 /\ number > 0 THEN <<"int", TRUE, Magnitude(number - 1)>>
               ELSE IntOf(number)
        [] OTHER -> None

\* The digit that a character is in base 16, or 16.
HexDigit(c) ==
  CASE c \in 48..57 -> c - 48
    [] c \in 65..70 -> c - 55
    [] c \in 97..102 -> c - 87
    [] OTHER -> 16

\* bytes.fromhex: digits in pairs, with blanks between the pairs only.  After i characters
\* there are bytes and the first digit of a pair, or 16.
FromHex(s) ==
  LET read[i \in 0..Len(s)] ==
        IF i = 0 THEN <<<<>>, 16>>
        ELSE LET bytes == read[i - 1]
                 digit == HexDigit(s[i])
             IN  CASE bytes = None -> None
                   [] bytes # None /\ digit < 16 ->
                        IF bytes[2] = 16 THEN <<bytes[1], digit>>
                        ELSE <<Append(bytes[1], 16 * bytes[2] + digit), 16>>
                   [] bytes # None /\ digit = 16 /\ s[i] \in Blank /\ bytes[2] = 16 -> bytes
                   [] OTHER -> None
      end == read[Len(s)]
  IN  IF end # None /\ end[2] = 16 THEN <<"bytes", end[1]>> ELSE None

\* A value as bytes, or None for an exception.
BytesOf(value) ==
  CASE value[1] = "bytes" -> value
    [] value[1] = "text" -> FromHex(value[2])
    [] OTHER -> None

\* What _normalize_pcrs does not refuse.
PcrsAccepted(items) ==
  \A i \in 1..Len(items) : /\ IndexOf(items[i].index) # None
                           /\ BytesOf(items[i].value) # None
                           /\ Len(BytesOf(items[i].value)[2]) \in {32, 48, 64}

\* Mutant of NormalizePcrs: normalized[index] = normalized_value.
NormalizeKept(items) ==
  Assigned([i \in 1..Len(items) |-> <<items[i].index, BytesOf(items[i].value)>>])

NormalizePcrs(items) ==
  Assigned([i \in 1..Len(items) |-> <<IndexOf(items[i].index), BytesOf(items[i].value)>>])

\* pcrs or {0: _default_pcr0()}
GivenItems(call) ==
  IF call.pcrs = <<>> THEN <<[index |-> IntOf(0), value |-> Pcr0]>> ELSE call.pcrs

ASSUME AttestationAssumption ==
  /\ Alphabet \subseteq Byte
  /\ MaxBytes \in Nat /\ MaxBytes <= MaxDepth /\ MaxBytes <= MaxLength
  /\ MaxDepth >= 2                  \* a COSE_Sign1 list, and the map in it
  /\ Pcrs \subseteq Lists(Pcr)
     \* bound: an index given as a text is a number of four bytes at most
  /\ \A items \in Pcrs : \A i \in 1..Len(items) : IndexOf(items[i].index) \in Ints \cup {None}
  /\ Pcr0 \in Texts
  /\ Times \subseteq Ints \cup {None}
  /\ Fields \subseteq Bytestring \cup {None}
  /\ Now \in Ints

VARIABLES document,    \* the bytes
          decoded,     \* what _cbor_decode makes of them
          parsed,      \* what _parse_attestation_document makes of them
          issued,      \* the MockNSM call that issued them, or NotIssued
          complete     \* history: how many of their prefixes were decoded

vars == <<document, decoded, parsed, issued, complete>>

NotIssued == [pcrs |-> <<>>]

-----------------------------------------------------------------------------
(* Documents *)

\* Stand-ins for the names of the fields and for the fixed texts.
Name(i) == <<"text", <<i>>>>
ModuleId == Name(1)
Timestamp == Name(2)
Digest == Name(3)
PcrMap == Name(4)
Certificate == Name(5)
CaBundle == Name(6)
Optional == <<Name(7), Name(8), Name(9)>>    \* public_key, user_data, nonce

\* if public_key is not None: payload["public_key"] = public_key, and so on.
Given(call, i) ==
  IF call.fields[i] = None THEN <<>> ELSE <<<<Optional[i], call.fields[i]>>>>

GivenPcrs(call) == NormalizePcrs(GivenItems(call))

\* timestamp_ms or the clock.
GivenTime(call) == IF call.time \in {None, IntOf(0)} THEN Now ELSE call.time

\* The fields of a document, in the order in which they are written.
Payload(call) ==
  <<"dict", <<<<ModuleId, Name(10)>>, <<Timestamp, GivenTime(call)>>, <<Digest, Name(11)>>,
              <<PcrMap, <<"dict", GivenPcrs(call)>>>>, <<Certificate, <<"bytes", <<1>>>>>>,
              <<CaBundle, <<"list", <<<<"bytes", <<2>>>>>>>>>>>>
            \o (Given(call, 1) \o Given(call, 2) \o Given(call, 3))>>

\* COSE_Sign1: protected and unprotected headers, payload, signature.
CoseSign1(payload) ==
  <<"list", <<<<"bytes", <<>>>>, <<"dict", <<>>>>,
              <<"bytes", Encode(payload)>>, <<"bytes", <<3>>>>>>>>

MockDocument(call) == Encode(CoseSign1(Payload(call)))

\* The call of MockNSM: __init__ and get_attestation_document.
Calls == [pcrs : Pcrs, time : Times, fields : [1..3 -> Fields]]

\* The calls that return; their documents are no longer than the codec counts.
Accepted == {call \in Calls : PcrsAccepted(GivenItems(call))}

ASSUME DocumentAssumption == \A call \in Accepted : Len(Encode(Payload(call))) <= MaxLength

Get(dict, name) ==
  IF \E i \in 1..Len(dict) : dict[i][1] = name
  THEN dict[CHOOSE i \in 1..Len(dict) : dict[i][1] = name][2]
  ELSE None

Wrapped(v) ==
  v[1] = "list" /\ Len(v[2]) = 4 /\ v[2][3][1] = "bytes"

\* bool is a subclass of int: True passes as a timestamp and as an index.
WellFormed(dict) ==
  LET pcrs == Get(dict, PcrMap)
  IN  /\ Get(dict, ModuleId)[1] = "text"
      /\ Get(dict, Timestamp)[1] \in {"int", "bool"}
      /\ Get(dict, Digest)[1] = "text"
      /\ pcrs[1] = "dict"
      /\ \A i \in 1..Len(pcrs[2]) : /\ pcrs[2][i][1][1] \in {"int", "bool"}
                                    /\ pcrs[2][i][2][1] = "bytes"
      /\ \A i \in 1..3 : Get(dict, Optional[i])[1] \in {"bytes", "none"}

Fail(error) == [error |-> error]

Parse(outer) ==
  LET cose  == outer.error = "none" /\ Wrapped(outer.value)
      inner == IF cose THEN CborDecode(outer.value[2][3][2]) ELSE outer
      dict  == inner.value[2]
  IN  IF inner.error # "none" THEN Fail(inner.error)
      ELSE IF inner.value[1] # "dict" \/ ~WellFormed(dict) THEN Fail("AttestationError")
      ELSE [error |-> "none", cose |-> cose, time |-> Get(dict, Timestamp),
            pcrs |-> Get(dict, PcrMap)[2],
            fields |-> [i \in 1..3 |-> Get(dict, Optional[i])]]

-----------------------------------------------------------------------------
Init == /\ document = <<>>
        /\ decoded = CborDecode(<<>>)
        /\ parsed = Parse(CborDecode(<<>>))
        /\ issued = NotIssued
        /\ complete = 0

Take(bytes) ==
  LET outcome == CborDecode(bytes)
  IN  /\ document' = bytes
      /\ decoded' = outcome
      /\ parsed' = Parse(outcome)
      /\ complete' = complete + (IF outcome.error = "none" THEN 1 ELSE 0)

\* A document from outside, one byte longer.
Extend(byte) == /\ issued = NotIssued
                /\ Len(document) < MaxBytes
                /\ Take(Append(document, byte))
                /\ UNCHANGED issued

\* MockNSM(pcrs=..., timestamp_ms=...).get_attestation_document(...); with
\* pcrs it refuses, it raises and there is no document.
Issue(call) == /\ document = <<>>
               /\ PcrsAccepted(GivenItems(call))
               /\ Take(MockDocument(call))
               /\ issued' = call

Next == \/ \E byte \in Alphabet : Extend(byte)
        \/ \E call \in Calls : Issue(call)

Spec == Init /\ [][Next]_vars

-----------------------------------------------------------------------------
(* Properties *)

\* What the decoder accepts, the encoder writes back to a string that decodes
\* to the same value and is no longer, since its headers are the shortest:
\* headers of every size, negative numbers, tags, and maps with keys given twice
\* or equal across types (attestation.py:335-356, 484-502 against 378-416,
\* 440-462).
Reencoded ==
    decoded.error = "none" =>
        /\ CborDecode(Encode(decoded.value)) = decoded
        /\ Len(Encode(decoded.value)) <= Len(document)

\* A document ends where its bytes say: no string that decodes continues
\* another one that does, so a document that is cut short or followed by more
\* is refused, at every length (attestation.py:434, 479).
OneDocument == complete <= 1

\* verify_attestation_document reads from a document of MockNSM the PCRs, the time and the
\* optional fields the mock was given, through both encodings: for each number the bytes of
\* the last item whose index is that number, as an int or as any text of it, in bytes or in
\* hexadecimal; PCR 0 of the environment when no pcrs are given; fields that are empty
\* (attestation.py:168-208, 224-255, 271-320).
IssuedReadBack ==
  issued # NotIssued =>
    /\ parsed.error = "none" /\ parsed.cose
    /\ parsed.time = (IF issued.time \in {None, IntOf(0)} THEN Now ELSE issued.time)
    /\ parsed.fields = issued.fields
    /\ LET items == GivenItems(issued)
       IN  \A i \in 1..Len(items) :
             LET number == IndexOf(items[i].index)
                 last == Max({j \in 1..Len(items) : IndexOf(items[j].index) = number})
             IN  Get(parsed.pcrs, number) = BytesOf(items[last].value)
=============================================================================
