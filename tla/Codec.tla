------------------------------- MODULE Codec -------------------------------
(***************************************************************************)
(* The clove codec, codec/clove.go: values of the program to bytes and     *)
(* back.                                                                   *)
(*                                                                         *)
(* A value is a record: its kind k and v, a sequence: its number, its      *)
(* bytes, its elements, or its entries in the order that one iteration     *)
(* visits them. A float's number is its bits.                              *)
(*                                                                         *)
(* Bytes are as in the code, but for numbers of several bytes: their radix *)
(* is Radix, 256 in the code, so that a small one reaches every boundary.  *)
(***************************************************************************)
EXTENDS Integers, Sequences, SequencesExt

CONSTANTS
    Radix,
    Data,           \* values of the program, with all that they are made of
    Depth           \* how deep each is nested

Byte == 0..255

Signed == <<"int", "int8", "int16", "int32", "int64">>
Unsigned == <<"uint", "uint8", "uint16", "uint32", "uint64">>
SignedKinds == ToSet(Signed)
IntKinds == SignedKinds \cup ToSet(Unsigned)
FloatKinds == {"float32", "float64"}

\* In bytes; int and uint have 64 bits.
Width(k) ==
    CASE k \in {"int8", "uint8"} -> 1 [] k \in {"int16", "uint16"} -> 2
      [] k \in {"int32", "uint32", "float32"} -> 4 [] OTHER -> 8

Value(k, v) == [k |-> k, v |-> v]
Num(k, n) == Value(k, <<n>>)
Nil == Value("nil", <<>>)
Entry(key, val) == [key |-> key, val |-> val]

\* Radix^w, for the widths there are.
Power(w) ==
    LET two == Radix * Radix
        four == two * two
    IN  CASE w = 1 -> Radix [] w = 2 -> two [] w = 4 -> four [] w = 8 -> four * four

\* The number n as unsigned with w bytes, as signed with w bytes.
Unsign(n, w) == n % Power(w)
Sign(n, w) == LET u == Unsign(n, w) IN IF u < (Power(w) \div 2) THEN u ELSE u - Power(w)

\* Go's conversion of an integer.
Convert(k, n) == IF k \in SignedKinds THEN Sign(n, Width(k)) ELSE Unsign(n, Width(k))

\* The number n in w bytes, the highest first.
Digits1(n) == <<n % Radix>>
Digits2(n) == Digits1(n \div Radix) \o Digits1(n)
Digits4(n) == Digits2(n \div Power(2)) \o Digits2(n)
Digits(n, w) ==
    CASE w = 1 -> Digits1(n) [] w = 2 -> Digits2(n) [] w = 4 -> Digits4(n)
      [] w = 8 -> Digits4(n \div Power(4)) \o Digits4(n)

\* The number in the w bytes of b from the i-th.
Number2(b, i) == b[i] * Radix + b[i + 1]
Number4(b, i) == Number2(b, i) * Power(2) + Number2(b, i + 2)
NumberAt(b, i, w) ==
    CASE w = 1 -> b[i] [] w = 2 -> Number2(b, i) [] w = 4 -> Number4(b, i)
      [] w = 8 -> Number4(b, i) * Power(4) + Number4(b, i + 4)

Rest(b, n) == SubSeq(b, n + 1, Len(b))

\* Map, list and bytes are not keys: storing one panics.
Hashable(x) == x.k \notin {"bytes", "map", "list"}

\* A value: a number that its kind holds, bytes, or what is made of values that are not as deep,
\* since one that contains itself is never encoded. Two kinds have no contents here: "typed", a
\* map or a list of another type than interface, and "struct", all that is not supported.
IsValue(x) ==
    /\ x = Value(x.k, x.v)
    /\ CASE x.k \in IntKinds ->
                x.v = <<x.v[1]>> /\ x.v[1] \in Int /\ Convert(x.k, x.v[1]) = x.v[1]
         [] x.k \in FloatKinds -> x.v = <<x.v[1]>> /\ x.v[1] \in 0..(Power(Width(x.k)) - 1)
         [] x.k \in {"nil", "true", "false", "typed", "struct"} -> x.v = <<>>
         [] x.k \in {"string", "bytes"} -> x.v \in Seq(Byte)
         [] x.k = "list" -> x.v \in Seq(Data) /\ \A i \in DOMAIN x.v : Depth[x.v[i]] < Depth[x]
         [] x.k = "map" ->
                /\ x.v \in Seq([key : Data, val : Data])
                /\ \A i \in DOMAIN x.v : /\ Hashable(x.v[i].key)
                                         /\ Depth[x.v[i].key] < Depth[x]
                                         /\ Depth[x.v[i].val] < Depth[x]
         [] OTHER -> FALSE

ASSUME CodecAssumption ==
    /\ Radix \in 2..256 /\ Radix % 2 = 0
    /\ Depth \in [Data -> Nat] /\ \A x \in Data : IsValue(x)

-----------------------------------------------------------------------------
(* The types of the format, by the kind decoded, and their numbers. *)

Types == <<"int8", "uint8", "int16", "uint16", "int32", "uint32", "int64", "uint64",
           "float32", "float64", "nil", "true", "false", "string", "bytes", "map", "list",
           "bigNumber", "reserved">>

TypeOf(h) == IF h % 32 \in DOMAIN Types THEN Types[h % 32] ELSE "unknown"

\* makeHeader, with lenSize 0, 1, 2 or 3 for no, 1, 2 or 4 bytes of length.
Header(tp, lenSize) == 128 + 32 * lenSize + CHOOSE i \in DOMAIN Types : Types[i] = tp

\* calculateCloveTypeSize.
TypeSize(tp) == IF tp \in IntKinds \cup FloatKinds THEN Width(tp) ELSE 0

\* makeHeaderAndLength.
HeaderAndLength(tp, n) ==
    IF n < Radix THEN <<Header(tp, 1)>> \o Digits(n, 1)
    ELSE IF n < Power(2) THEN <<Header(tp, 2)>> \o Digits(n, 2)
    ELSE <<Header(tp, 3)>> \o Digits(n, 4)

Encoded(err, bytes) == [err |-> err, bytes |-> bytes]

\* Mutant: a negative number is measured as a positive one.
SmallestUnsigned(n) ==
    CHOOSE w \in {1, 2, 4, 8} :
        /\ n \in (1 - Power(w))..(Power(w) - 1)
        /\ \A x \in {1, 2, 4, 8} : x < w => n \notin (1 - Power(x))..(Power(x) - 1)

\* The fewest bytes that hold n, signed if it is negative.
Smallest(n) ==
    CHOOSE w \in {1, 2, 4, 8} :
        /\ n \in (-(Power(w) \div 2))..(Power(w) - 1)
        /\ \A x \in {1, 2, 4, 8} : x < w => n \notin (-(Power(x) \div 2))..(Power(x) - 1)

\* The type of numbers of w bytes.
IntType(signed, w) ==
    CHOOSE t \in ToSet(Types) \cap IntKinds : Width(t) = w /\ (t \in SignedKinds <=> signed)

\* Half a byte of numbers needs no header.
EncodeInt(n) ==
    IF n \in 0..(Radix \div 2 - 1) THEN <<n>>
    ELSE <<Header(IntType(n < 0, Smallest(n)), 0)>> \o Digits(n, Smallest(n))

\* The bits decide the type, not the kind: those of a float64 that fit are sent as a float32.
EncodeFloat(bits) ==
    IF bits < Power(4) THEN <<Header("float32", 0)>> \o Digits(bits, 4)
    ELSE <<Header("float64", 0)>> \o Digits(bits, 8)

\* Mutant: only the key decides.
KeyEncodes(encode, e) == encode[e.key].err # "unsupported"

\* Whether both sides of a map's entry can be encoded.
Encodes(encode, e) == "unsupported" \notin {encode[e.key].err, encode[e.val].err}

\* The entries of a map that are sent.
Encodable(encode, entries) ==
    FlattenSeq([i \in DOMAIN entries |->
                    IF Encodes(encode, entries[i]) THEN <<entries[i]>> ELSE <<>>])

\* EncodeWithReflectValue, calling encode for the values in x. What is not supported is an error.
\* A map or a list whose elements are not interfaces panics at Elem, and is nothing, without an
\* error; a list counts all its elements, a map the entries of which both sides had no error.
EncodeWith(encode, x) ==
    CASE x.k \in IntKinds -> Encoded("none", EncodeInt(x.v[1]))
      [] x.k \in FloatKinds -> Encoded("none", EncodeFloat(x.v[1]))
      [] x.k \in {"nil", "true", "false"} -> Encoded("none", <<Header(x.k, 0)>>)
      [] x.k \in {"string", "bytes"} -> Encoded("none", HeaderAndLength(x.k, Len(x.v)) \o x.v)
      [] x.k = "list" ->
            Encoded("none", HeaderAndLength("list", Len(x.v))
                              \o FlattenSeq([i \in DOMAIN x.v |-> encode[x.v[i]].bytes]))
      [] x.k = "map" ->
            LET es == Encodable(encode, x.v)
                bytes(e) == encode[e.key].bytes \o encode[e.val].bytes
            IN  Encoded("none", HeaderAndLength("map", Len(es))
                                  \o FlattenSeq([i \in DOMAIN es |-> bytes(es[i])]))
      [] x.k = "typed" -> Encoded("none", <<>>)
      [] x.k = "struct" -> Encoded("unsupported", <<>>)

Encode[x \in Data] == EncodeWith(Encode, x)

-----------------------------------------------------------------------------

Decoded(err, val, rest) == [err |-> err, val |-> val, rest |-> rest]

\* What the recover of Decode answers.
Panic == Decoded("none", Nil, <<>>)
Short == Decoded("short", Nil, <<>>)

\* strconv.ParseInt: digits with at most one sign, + or -, of a number that an int64 holds.
Magnitude(s) == IF s # <<>> /\ s[1] \in {43, 45} THEN Tail(s) ELSE s
Decimal(s) == FoldLeft(LAMBDA v, x : v * 10 + (x - 48), 0, s)
ParseInt(s) == IF s[1] = 45 THEN -Decimal(Tail(s)) ELSE Decimal(Magnitude(s))

\* Whether it succeeds.
IsNumeral(s) ==
    /\ Magnitude(s) # <<>> /\ \A i \in DOMAIN Magnitude(s) : Magnitude(s)[i] \in 48..57
    /\ ParseInt(s) = Convert("int64", ParseInt(s))

SameKey(a, b) == a.k = b.k /\ a.v = b.v

\* dstMap[kd] = vd.
Put(entries, e) ==
    IF \E i \in DOMAIN entries : SameKey(entries[i].key, e.key)
    THEN [i \in DOMAIN entries |-> IF SameKey(entries[i].key, e.key) THEN e ELSE entries[i]]
    ELSE Append(entries, e)

\* Whether data have fewer bytes than announced.
IsShort(data, count) == Len(data) < count

\* Mutant: a number is given the kind of its type.
GoKindExact(tp) == tp

\* The kind of a number decoded.
GoKind(tp) == IF tp \in SignedKinds THEN "int" ELSE "uint"

\* Decode of a value that is neither a map nor a list: the data of its type tp, of count bytes.
DecodeData(tp, data, count, raw) ==
    LET n == NumberAt(data, 1, TypeSize(tp))
        some == SubSeq(data, 1, count)
        is(x) == Decoded("none", x, Rest(data, count))
    IN  IF IsShort(data, count) THEN Short
        ELSE IF Len(data) < TypeSize(tp) THEN Panic
        ELSE CASE tp \in IntKinds -> is(Num(GoKind(tp), Convert(tp, n)))
               [] tp \in FloatKinds -> is(Num(tp, n))
               [] tp = "nil" -> is(Nil)
               [] tp \in {"string", "bytes"} -> is(Value(tp, some))
               [] tp \in {"true", "false"} -> Decoded("none", Value(tp, <<>>), data)
               [] tp = "bigNumber" -> is(Num("int", IF IsNumeral(some) THEN ParseInt(some) ELSE 0))
               [] OTHER -> Decoded("none", Nil, raw)

\* One more element or entry behind those in so, unless there has been an error or a panic.
Another(decode, so) ==
    LET kd == decode[so.rest]
        vd == decode[kd.rest]
        seen == so.val.v
    IN  IF so.err # "none" \/ so.val = Nil THEN so
        ELSE IF kd.err # "none" THEN Decoded(kd.err, Nil, <<>>)
        ELSE IF so.val.k = "list" THEN Decoded("none", Value("list", Append(seen, kd.val)), kd.rest)
        ELSE IF vd.err # "none" THEN Decoded(vd.err, Nil, <<>>)
        ELSE IF ~Hashable(kd.val) THEN Panic
        ELSE Decoded("none", Value("map", Put(seen, Entry(kd.val, vd.val))), vd.rest)

\* The loop over the count elements of a list or a map.
Elements(decode, tp, count, data) ==
    LET after[n \in Nat] == IF n = 0 THEN Decoded("none", Value(tp, <<>>), data)
                            ELSE Another(decode, after[n - 1])
    IN  after[count]

\* The bytes of length behind the header h.
LengthSize(h) == <<0, 1, 2, 4>>[((h \div 32) % 4) + 1]

\* elementCount: in these bytes, or as the type has it.
ElementCount(raw) ==
    IF LengthSize(raw[1]) = 0 THEN TypeSize(TypeOf(raw[1])) ELSE NumberAt(raw, 2, LengthSize(raw[1]))

\* Decode, calling decode for the elements of a list or a map.
DecodeWith(decode, raw) ==
    IF raw = <<>> THEN Decoded("empty", Nil, raw)
    ELSE IF raw[1] < 128 THEN Decoded("none", Num("int", raw[1]), Rest(raw, 1))
    ELSE LET tp == TypeOf(raw[1])
             data == Rest(raw, 1 + LengthSize(raw[1]))
         IN  IF Len(raw) < 1 + LengthSize(raw[1]) THEN Decoded("short", Nil, raw)
             ELSE IF tp \in {"list", "map"} THEN Elements(decode, tp, ElementCount(raw), data)
             ELSE DecodeData(tp, data, ElementCount(raw), raw)

Decode[raw \in Seq(Byte)] == DecodeWith(Decode, raw)

=============================================================================
