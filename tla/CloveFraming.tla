---------------------------- MODULE CloveFraming ----------------------------
(***************************************************************************)
(* The clove packet format, network/clove.go, and the text format,         *)
(* network/text.go, over buffers of bytes.                                 *)
(*                                                                         *)
(* A clove frame is a flag byte, four bytes with the protocol's type (4    *)
(* bits), its version (4) and the frame's length (24), and the raw bytes.  *)
(*                                                                         *)
(* A parse answers with an error ("none" when nil), the packets and what   *)
(* is left in the buffer. Every format of this library answers so.         *)
(***************************************************************************)
EXTENDS Integers, Sequences, Functions

Byte == 0..255

\* A byte is the sum of its bits' weights; &, | and ^ of the code.
Weight == <<1, 2, 4, 8, 16, 32, 64, 128>>
Bits(x) == {i \in 1..8 : (x \div Weight[i]) % 2 = 1}
OfBits(B) == SumFunctionOnSet(Weight, B)

And(x, y) == OfBits(Bits(x) \cap Bits(y))
Or(x, y) == OfBits(Bits(x) \cup Bits(y))
Xor(x, y) == OfBits((Bits(x) \cup Bits(y)) \ (Bits(x) \cap Bits(y)))

HeaderLength == 5
MaskFeature == 136          \* MaskClove | MaskCloveReserved
MaskFlags == 7              \* Compressed, Encrypted, CompressSupport

Binary(flags, proto, raw) == [type |-> "binary", flags |-> flags, proto |-> proto, raw |-> raw]
TextPacket(raw) == [type |-> "text", flags |-> 0, proto |-> 0, raw |-> raw]

Types == {"binary", "text", "ping", "http"}

Packet == [type : Types, flags : Byte, proto : Byte, raw : Seq(Byte)]

Parsed(err, pcks, rest) == [err |-> err, pcks |-> pcks, rest |-> rest]

\* The packets of a recursive parse, after those of its caller.
After(pcks, parse) == Parsed(parse.err, pcks \o parse.pcks, parse.rest)

From(b, i) == SubSeq(b, i, Len(b))

-----------------------------------------------------------------------------

\* Package. The length and the protocol share a word: a length of 2^24 runs into the version.
ClovePackage(pck) ==
    LET len == Len(pck.raw) + HeaderLength
        top == Or(len \div 16777216, pck.proto)
    IN  <<Or(MaskFeature, pck.flags), top, (len \div 65536) % 256, (len \div 256) % 256, len % 256>>
            \o pck.raw

\* The length a header announces.
Announced(b) == b[3] * 65536 + b[4] * 256 + b[5]

Featured(b) == And(b[1], MaskFeature) = MaskFeature

\* Mutant: the flag byte is not looked at.
CloveParseAnyFlag(in) ==
    IF Len(in) < HeaderLength THEN Parsed("notReady", <<>>, in)
    ELSE IF Announced(in) < HeaderLength THEN Parsed("damage", <<>>, in)
    ELSE Parsed("none", <<Binary(And(in[1], MaskFlags), in[2], SubSeq(in, 6, Announced(in)))>>,
                From(in, Announced(in) + 1))

\* ParseFromBytes.
CloveParse(in) ==
    IF Len(in) < HeaderLength THEN Parsed("notReady", <<>>, in)
    ELSE IF Announced(in) < HeaderLength THEN Parsed("damage", <<>>, in)
    ELSE IF ~Featured(in) THEN Parsed("noMatch", <<>>, in)
    ELSE IF Announced(in) > Len(in) THEN Parsed("notReady", <<>>, in)
    ELSE Parsed("none", <<Binary(And(in[1], MaskFlags), in[2], SubSeq(in, 6, Announced(in)))>>,
                From(in, Announced(in) + 1))

\* Mutant: a frame that fills the buffer exactly is left for the next read.
CloveIncompleteOff(b) == Len(b) < HeaderLength \/ Announced(b) >= Len(b)

\* Whether ParseFromBuffer waits for more.
CloveIncomplete(b) == Len(b) < HeaderLength \/ Announced(b) > Len(b)

\* ParseFromBuffer. What the header announces is taken out of the buffer before it is parsed;
\* a length below the header's is "not ready", and gone.
CloveParseBuffer[b \in Seq(Byte)] ==
    IF CloveIncomplete(b) THEN Parsed("none", <<>>, b)
    ELSE LET parse == CloveParse(SubSeq(b, 1, Announced(b)))
             rest == From(b, Announced(b) + 1)
         IN  IF parse.err = "none" THEN After(parse.pcks, CloveParseBuffer[rest])
             ELSE Parsed(IF parse.err = "notReady" THEN "none" ELSE parse.err, <<>>, rest)

\* TestMatchScore: a protocol of type or version 0 is not recognised.
CloveScore(b) ==
    IF Len(b) < HeaderLength THEN -1
    ELSE IF 0 \in {b[2] \div 16, b[2] % 16} \/ Announced(b) < HeaderLength \/ ~Featured(b) THEN 0
    ELSE IF Announced(b) > Len(b) THEN 50 ELSE 99

-----------------------------------------------------------------------------
(* The text format: whatever is there is one packet. *)

TextParseBuffer(b) == Parsed("none", <<TextPacket(b)>>, <<>>)

=============================================================================
