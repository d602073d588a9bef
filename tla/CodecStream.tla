---------------------------- MODULE CodecStream ----------------------------
(***************************************************************************)
(* Values encoded one behind the other, as Decode's remainder is for, and  *)
(* a receiver that decodes what has arrived: it keeps what Decode leaves,  *)
(* and tries again with more when Decode has an error.                     *)
(***************************************************************************)
EXTENDS Readers

CONSTANTS
    Values,         \* a sequence of values the program may send
    Probes,         \* numbers looked for in maps
    MaxSent         \* bound: values sent

ASSUME ValuesAssumption == Values \in Seq(Data) /\ Probes \subseteq Int /\ MaxSent \in Nat

VARIABLES
    sent,           \* the values encoded without error, as indices of Values
    stream,         \* their bytes
    arrived,        \* how many have arrived
    raw,            \* what arrived and is not decoded
    out,            \* the values decoded
    err             \* the error of the last Decode

vars == <<sent, stream, arrived, raw, out, err>>

Sent(i) == Values[sent[i]]

\* Where the i-th value ends in the stream.
End(i) == Len(FlattenSeq([j \in 1..i |-> Encode[Sent(j)].bytes]))

TypeOK ==
    /\ sent \in Seq(DOMAIN Values) /\ Len(sent) <= MaxSent
    /\ stream \in Seq(Byte) /\ arrived \in 0..Len(stream)
    /\ raw \in Seq(Byte) /\ Len(raw) <= arrived
    /\ \A i \in DOMAIN out :
            out[i].k \in {"int", "uint", "nil", "true", "false", "string", "bytes", "map", "list"} \cup FloatKinds
    /\ err \in {"none", "short", "empty"}

Init == sent = <<>> /\ stream = <<>> /\ arrived = 0 /\ raw = <<>> /\ out = <<>> /\ err = "none"

Send(i) ==
    /\ Len(sent) < MaxSent
    /\ Encode[Values[i]].err = "none"
    /\ sent' = Append(sent, i)
    /\ stream' = stream \o Encode[Values[i]].bytes
    /\ UNCHANGED <<arrived, raw, out, err>>

Arrive(n) ==
    /\ arrived + n <= Len(stream)
    /\ arrived' = arrived + n
    /\ raw' = raw \o SubSeq(stream, arrived + 1, arrived + n)
    /\ err' = "none"
    /\ UNCHANGED <<sent, stream, out>>

Receive ==
    /\ raw # <<>> /\ err = "none"
    /\ err' = Decode[raw].err
    /\ IF err' = "none" THEN out' = Append(out, Decode[raw].val) /\ raw' = Decode[raw].rest
                        ELSE UNCHANGED <<out, raw>>
    /\ UNCHANGED <<sent, stream, arrived>>

Next ==
    \/ \E i \in DOMAIN Values : Send(i)
    \/ \E n \in 1..Len(stream) : Arrive(n)
    \/ Receive

Spec == Init /\ [][Next]_vars

-----------------------------------------------------------------------------
(* Properties *)

IsInt(x) == x.k \in IntKinds

\* The entries of a map that the format carries.
Carried(x) ==
    FlattenSeq([i \in DOMAIN x.v |-> IF x.v[i].val.k = "struct" THEN <<>> ELSE <<x.v[i]>>])

\* What x is when it has been decoded: numbers keep their value, integers not their kind, and
\* a float that is 0 is a float32. Of what is not supported, nothing.
SeenWith(seen, x) ==
    CASE IsInt(x) -> Num(IF x.v[1] < Radix \div 2 THEN "int" ELSE "uint", x.v[1])
      [] x.k \in FloatKinds -> Num(IF x.v[1] = 0 THEN "float32" ELSE x.k, x.v[1])
      [] x.k = "list" -> Value("list", [i \in DOMAIN x.v |-> seen[x.v[i]]])
      [] x.k = "map" ->
            LET es == Carried(x)
            IN  Value("map", [i \in DOMAIN es |-> Entry(seen[es[i].key], seen[es[i].val])])
      [] x.k \in {"typed", "struct"} -> Nil
      [] OTHER -> x

Seen[x \in Data] == SeenWith(Seen, x)

\* The values that the format can carry: not a list with an element that cannot be encoded,
\* which counts it all the same (clove.go 535); not a typed map or list in another, which
\* panics at Elem (503); not a float64 that needs 4 bytes (471); not two keys that become one;
\* not a length of more than 4 bytes (157).
SoundWith(sound, x) ==
    /\ x.k \notin {"typed", "struct"}
    /\ x.k = "float64" => x.v[1] = 0 \/ x.v[1] >= Power(4)
    /\ x.k \in {"string", "bytes", "list", "map"} => Len(x.v) < Power(4)
    /\ x.k = "list" => \A i \in DOMAIN x.v : sound[x.v[i]]
    /\ x.k = "map" => \A i \in DOMAIN x.v :
            /\ sound[x.v[i].key]
            /\ sound[x.v[i].val] \/ x.v[i].val.k = "struct"
            /\ \A j \in 1..(i - 1) : Seen[x.v[i].key] # Seen[x.v[j].key]

Sound[x \in Data] == SoundWith(Sound, x)

AllSound == \A i \in DOMAIN sent : Sound[Sent(i)]

\* The values decoded are those sent, in order; of a map, those of its entries that can be
\* encoded (clove.go 176-541).
ValuesSurvive == AllSound => \A i \in DOMAIN out : i \in DOMAIN sent /\ out[i] = Seen[Sent(i)]

\* Decode takes a value's bytes and no other: what it leaves is what arrived of the values
\* behind it. So a value cut short is never taken for a whole one, and it is only for such a
\* value that Decode has an error: with more bytes it goes on (clove.go 222, 289, 304).
TakesItsBytes ==
    AllSound =>
        /\ raw = SubSeq(stream, End(Len(out)) + 1, arrived)
        /\ err # "none" => Len(out) < Len(sent) /\ arrived < End(Len(out) + 1)

SoundMaps == {i \in DOMAIN out : AllSound /\ Sent(i).k = "map"}

Holds(k, n) == Convert(k, n) = n

\* In a decoded map, an integer key is found by a key of any integer kind that holds it,
\* whatever kinds it was sent with and decoded to (codec.go 89-216).
KeysFound ==
    \A i \in SoundMaps : \A j \in DOMAIN Carried(Sent(i)) : \A k \in IntKinds :
        LET e == Carried(Sent(i))[j]
        IN  IsInt(e.key) /\ Holds(k, e.key.v[1]) =>
                TryReadValue(out[i], Num(k, e.key.v[1])) = Seen[e.val]

\* A key that was not sent is not found. The exception: a negative one and the unsigned one it
\* is converted to (codec.go 130, 192).
AbsentIsNil ==
    \A i \in SoundMaps : \A n \in Probes : \A k \in {"int", "uint"} :
        Holds(k, n) /\ TryReadValue(out[i], Num(k, n)) # Nil =>
            \E j \in DOMAIN Sent(i).v :
                IsInt(Sent(i).v[j].key) /\ Unsign(Sent(i).v[j].key.v[1], 8) = Unsign(n, 8)

\* Reading a decoded map finds what was sent, and nothing else.
MapsRead == KeysFound /\ AbsentIsNil

\* What the readers that convert integers answer for y, as x says.
IntegersAs(x, y) ==
    /\ IsInt(x) /\ Holds("int64", x.v[1]) => IntValue(y, 7) = x.v[1] /\ IntegerNumber(y, 7) = x.v[1]
    /\ IsInt(x) /\ Holds("uint64", x.v[1]) => UintValue(y, 7) = x.v[1]
    /\ ~IsInt(x) => IntValue(y, 7) = 7 /\ UintValue(y, 7) = 7

\* What the readers by kind answer under index j of the list l, as the list s that was sent
\* says: no value but a panic for a nil element, and from MySQLStrValueOf for a list.
KindsAs(s, l, j) ==
    LET x == TryReadIndex(s, j)
        answered(v) == IF NilAt(s, j) THEN Panicked ELSE Answered(v)
    IN  /\ FloatValueOf(l, j, -1) = answered(IF x.k \in FloatKinds THEN x.v[1] ELSE -1)
        /\ StrValueOf(l, j, <<>>) = answered(IF x.k = "string" THEN x.v ELSE <<>>)
        /\ BoolValueOf(l, j) = answered(x.k = "true")
        /\ MySQLStrValueOf(l, j, <<>>) =
                IF x.k = "list" THEN Panicked ELSE Answered(IF x.k = "bytes" THEN x.v ELSE <<>>)

\* The elements of a list read as they were sent, under every index and beyond, with no panic
\* but two: StrValueOf, FloatValueOf and BoolValueOf of an element sent as nil, and
\* MySQLStrValueOf of one sent as a list (codec.go 387-545).
ListsRead ==
    \A i \in DOMAIN out : AllSound /\ Sent(i).k = "list" =>
        \A j \in -1..Len(Sent(i).v) :
            /\ IntegersAs(TryReadIndex(Sent(i), j), TryReadIndex(out[i], j))
            /\ KindsAs(Sent(i), out[i], j)

=============================================================================
