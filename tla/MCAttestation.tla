--------------------------- MODULE MCAttestation ---------------------------
EXTENDS Attestation

Bytes(n, b) == <<"bytes", [i \in 1..n |-> b]>>
Text(s) == <<"text", s>>
Hex(n, high, low) == Text([i \in 1..2 * n |-> IF i % 2 = 1 THEN high ELSE low])
SomePcr(i, v) == [index |-> i, value |-> v]

\* int 0, 1 and 23, one and two following bytes, an unsupported length, -1,
\* bytes of one byte, text of one and two, lists of none and one, a map of two,
\* a tag (which can also begin no character), the first byte of a character, true.
SomeBytes == {0, 1, 23, 24, 25, 28, 32, 65, 97, 98, 128, 129, 162, 192, 194, 245}

\* MockNSM refuses the calls with pcrs from the fifth on.
SomePcrs ==
  LET minusOne == <<"int", TRUE, <<>>>>
      default  == Bytes(48, 170)
      zero     == Text(<<48>>)                      \* "0"
      spelt    == Text(<<32, 43, 48, 95, 48, 10>>)  \* " +0_0\n"
  IN  {<<>>,
       <<SomePcr(IntOf(0), Bytes(48, 1)), SomePcr(zero, Bytes(48, 2)), SomePcr(IntOf(1), default)>>,
       \* "-1" and -1; "256"; "abab..." and "A9 A9 ..."
       <<SomePcr(Text(<<45, 49>>), Hex(64, 97, 98)), SomePcr(IntOf(0), Bytes(32, 1)),
         SomePcr(minusOne, Bytes(64, 2)), SomePcr(Text(<<50, 53, 54>>), Bytes(48, 3)),
         SomePcr(spelt, Text([i \in 1..96 |-> <<65, 57, 32>>[1 + ((i - 1) % 3)]]))>>,
       <<SomePcr(Text(<<50, 52>>), Hex(32, 102, 70)), SomePcr(Text(<<48, 48>>), Hex(48, 49, 65))>>,
       \* "", "_1", "1__0", "+-1"; no int, no bytes
       <<SomePcr(Text(<<>>), default)>>, <<SomePcr(Text(<<95, 49>>), default)>>,
       <<SomePcr(Text(<<49, 95, 95, 48>>), default)>>, <<SomePcr(Text(<<43, 45, 49>>), default)>>,
       <<SomePcr(None, default)>>, <<SomePcr(IntOf(0), default), SomePcr(zero, None)>>,
       \* "agag...", "a ba b...", of 20 bytes
       <<SomePcr(zero, Hex(48, 97, 103))>>,
       <<SomePcr(zero, Text([i \in 1..96 |-> <<97, 32, 98>>[1 + ((i - 1) % 3)]]))>>,
       <<SomePcr(IntOf(0), Bytes(20, 1))>>}

SomePcr0 == Hex(48, 97, 97)
Clock == <<"int", FALSE, <<1, 139, 207, 229, 104, 0>>>>
SomeTimes == {None, IntOf(0), IntOf(255), IntOf(65536)}
SomeFields == {None, Bytes(0, 1), Bytes(24, 1), Bytes(256, 1)}
=============================================================================
