------------------------------ MODULE MCCodec ------------------------------
(***************************************************************************)
(* Values for CodecStream: every boundary of the format with radix 4, and  *)
(* maps and lists of them.                                                 *)
(***************************************************************************)
EXTENDS CodecStream

\* On both sides of the bounds of 1, 2, 4 and 8 digits, signed and unsigned.
Bounds == <<-32768, -129, -128, -9, -8, -3, -2, -1, 0, 1, 2, 3, 4, 15, 16, 255, 256, 32767, 65535>>

MCProbes == ToSet(Bounds) \cup {14, -156}

Integer(n) == Num(IF n < 32768 THEN "int64" ELSE "uint64", n)

Str(n) == Value("string", [i \in 1..n |-> 47 + (i % 4)])
Struct == Value("struct", <<>>)
List(s) == Value("list", s)
Map(s) == Value("map", s)

Maps == <<
    Map(<<Entry(Num("int8", -1), Str(1)), Entry(Num("uint16", 3), Nil), Entry(Num("int", 1), Struct)>>),
    Map(<<Entry(Num("uint64", 65535), Num("int", 9)), Entry(Str(2), Map(<<Entry(Nil, Str(0))>>))>>),
    Map(<<Entry(Num("int32", 100), Num("int", -100)), Entry(Num("uint8", 2), Num("uint", 2)),
          Entry(Num("int64", -32768), Value("true", <<>>)), Entry(Num("float64", 300), Str(1))>>),
    Map(<<Entry(Num("int8", 1), Str(1)), Entry(Num("uint8", 1), Str(2))>>)>>

Lists == <<
    List(<<>>), List(<<Integer(1), Str(3), List(<<Nil, Value("false", <<>>)>>)>>),
    List(<<Integer(-129), Nil, Integer(65535), Num("float32", 7), Value("bytes", <<3, 2, 1>>)>>),
    List(<<Struct, Integer(1)>>), List(<<Value("typed", <<>>), Integer(1)>>)>>

Others == <<
    Nil, Value("true", <<>>), Value("typed", <<>>), Struct, Str(0), Str(3), Str(4), Str(16),
    Value("bytes", <<0>>), Num("float32", 255), Num("float64", 0), Num("float64", 255), Num("float64", 256)>>

MCValues == [i \in DOMAIN Bounds |-> Integer(Bounds[i])] \o Others \o Lists \o Maps

\* What a value is made of.
Parts(x) ==
    CASE x.k = "list" -> ToSet(x.v)
      [] x.k = "map" -> {x.v[i].key : i \in DOMAIN x.v} \cup {x.v[i].val : i \in DOMAIN x.v}
      [] OTHER -> {}

RECURSIVE Deep(_)
Deep(x) == IF Parts(x) = {} THEN 0 ELSE 1 + Max({Deep(y) : y \in Parts(x)})

RECURSIVE Whole(_)
Whole(S) == IF S = {} THEN {} ELSE S \cup Whole(UNION {Parts(x) : x \in S})

MCData == Whole(ToSet(MCValues))
MCDepth == [x \in MCData |-> Deep(x)]

=============================================================================
