------------------------------ MODULE Readers ------------------------------
(***************************************************************************)
(* CloveMapReader and CloveSliceReader, codec/codec.go: typed access to    *)
(* the maps and lists that a codec decodes, or that the program makes.     *)
(***************************************************************************)
EXTENDS Codec

\* Where a map has exactly this key: in one place, or nowhere.
At(m, key) == {i \in DOMAIN m.v : SameKey(m.v[i].key, key)}

\* Mutant: an integer key is only looked for as its own kind.
KeysTriedOwn(key) == <<key>>

\* The keys that TryReadValue tries, in order. For an integer all the integer kinds, those of
\* its sign first, with the number converted.
KeysTried(key) ==
    CASE key.k = "string" -> <<key>>
      [] key.k \in SignedKinds ->
            [i \in 1..10 |-> Num((Signed \o Unsigned)[i], Convert((Signed \o Unsigned)[i], key.v[1]))]
      [] key.k \in ToSet(Unsigned) ->
            [i \in 1..10 |-> Num((Unsigned \o Signed)[i], Convert((Unsigned \o Signed)[i], key.v[1]))]
      [] OTHER -> <<>>

\* TryReadValue, but for keys that are floats. What is not there is nil.
TryReadValue(m, key) ==
    LET hits == {i \in DOMAIN KeysTried(key) : At(m, KeysTried(key)[i]) # {}}
        first == KeysTried(key)[Min(hits)]
    IN  IF hits = {} THEN Nil ELSE m.v[CHOOSE i \in At(m, first) : TRUE].val

\* CloveSliceReader: the element under an index, nil if there is none.
TryReadIndex(l, i) == IF i \in 0..(Len(l.v) - 1) THEN l.v[i + 1] ELSE Nil

\* Mutant: the value goes through an int32.
IntValueNarrow(x, def) == IF x.k \in IntKinds THEN Convert("int32", x.v[1]) ELSE def

\* IntValueOf of a value, with its default.
IntValue(x, def) == IF x.k \in IntKinds THEN Convert("int64", x.v[1]) ELSE def

UintValue(x, def) == IF x.k \in IntKinds THEN Convert("uint64", x.v[1]) ELSE def

\* IntegerNumberOf, but for values that are floats: numerals count.
IntegerNumber(x, def) ==
    IF x.k = "string" /\ IsNumeral(x.v) THEN Convert("int64", ParseInt(x.v)) ELSE IntValue(x, def)

StrValue(x, def) == IF x.k = "string" THEN x.v ELSE def
FloatValue(x, def) == IF x.k \in FloatKinds THEN x.v[1] ELSE def
BoolValue(x) == x.k = "true"

\* What a reader answers that may panic: one value, or none.
Answered(v) == <<v>>
Panicked == <<>>

\* CloveSliceReader: a nil element is asked for its type.
NilAt(l, i) == i \in 0..(Len(l.v) - 1) /\ l.v[i + 1].k = "nil"

\* StrValueOf, FloatValueOf and BoolValueOf of a list.
StrValueOf(l, i, def) ==
    IF NilAt(l, i) THEN Panicked ELSE Answered(StrValue(TryReadIndex(l, i), def))
FloatValueOf(l, i, def) ==
    IF NilAt(l, i) THEN Panicked ELSE Answered(FloatValue(TryReadIndex(l, i), def))
BoolValueOf(l, i) ==
    IF NilAt(l, i) THEN Panicked ELSE Answered(BoolValue(TryReadIndex(l, i)))

\* MySQLStrValueOf: a slice as bytes; one of anything but bytes, a list, has none.
MySQLStrValueOf(l, i, def) ==
    LET x == TryReadIndex(l, i)
    IN  CASE x.k = "bytes" -> Answered(x.v) [] x.k = "list" -> Panicked [] OTHER -> Answered(def)

=============================================================================
