----------------------------- MODULE CodecProofs -----------------------------
(***************************************************************************)
(* Proofs about Codec, Readers and CodecStream: what Decode answers for    *)
(* the code of a value, what a receiver has decoded at any time, and what  *)
(* the readers find in it.                                                 *)
(*                                                                         *)
(* Encode, Decode, Seen and Sound recur over nested values and over bytes. *)
(* What they are is a theorem, EncodeAnswers, DecodeAnswers, SeenIs and    *)
(* SoundIs: a value's parts are not as deep as it is (CodecAssumption), an *)
(* element's bytes are not as many as its list's. Reads(b, y) says that    *)
(* Decode takes b for y, whatever is behind it, and answers that there are *)
(* too few bytes for every front of b. SoundReads: so it is for the code   *)
(* of every value that the format carries, by induction on the depth. The  *)
(* invariant IInv says of the stream what Reads says of a code.            *)
(***************************************************************************)
EXTENDS CodecStream, Lemmas

-----------------------------------------------------------------------------
(* Numbers *)

\* The kinds of numbers, by name.
LEMMA KindsAre ==
    /\ SignedKinds = {"int", "int8", "int16", "int32", "int64"}
    /\ IntKinds = {"int", "int8", "int16", "int32", "int64",
                   "uint", "uint8", "uint16", "uint32", "uint64"}
<1>1. SignedKinds = {"int", "int8", "int16", "int32", "int64"}
  <2>1. DOMAIN Signed = 1..5 /\ Signed[1] = "int" /\ Signed[2] = "int8" /\ Signed[3] = "int16"
        /\ Signed[4] = "int32" /\ Signed[5] = "int64"
    BY DEF Signed
  <2> QED BY <2>1 DEF SignedKinds, ToSet
<1>2. ToSet(Unsigned) = {"uint", "uint8", "uint16", "uint32", "uint64"}
  <2>1. DOMAIN Unsigned = 1..5 /\ Unsigned[1] = "uint" /\ Unsigned[2] = "uint8"
        /\ Unsigned[3] = "uint16" /\ Unsigned[4] = "uint32" /\ Unsigned[5] = "uint64"
    BY DEF Unsigned
  <2> QED BY <2>1 DEF ToSet
<1> QED BY <1>1, <1>2 DEF IntKinds

\* The powers of the radix: even, and each the square of the one before.
LEMMA Powers ==
    /\ Power(1) = Radix /\ Power(2) = Power(1) * Power(1) /\ Power(4) = Power(2) * Power(2)
    /\ Power(8) = Power(4) * Power(4)
    /\ Radix \in 2..256 /\ Radix \div 2 \in 1..128 /\ Radix = 2 * (Radix \div 2)
    /\ \A w \in {1, 2, 4, 8} : Power(w) \in Nat /\ Power(w) >= 2
<1>1. /\ Power(1) = Radix /\ Power(2) = Power(1) * Power(1) /\ Power(4) = Power(2) * Power(2)
      /\ Power(8) = Power(4) * Power(4)
  BY DEF Power
<1>2. Radix \in 2..256 /\ Radix \div 2 \in 1..128 /\ Radix = 2 * (Radix \div 2)
  BY CodecAssumption
<1>3. \A r \in Nat : r >= 2 => r * r \in Nat /\ r * r >= 2
  <2> SUFFICES ASSUME NEW r \in Nat, r >= 2 PROVE r * r \in Nat /\ r * r >= 2
    OBVIOUS
  <2>1. r * r >= 2 * r
    OBVIOUS
  <2> QED BY <2>1
<1>4. Power(1) \in Nat /\ Power(1) >= 2
  BY <1>1, <1>2
<1>5. Power(2) \in Nat /\ Power(2) >= 2
  BY <1>1, <1>3, <1>4
<1>6. Power(4) \in Nat /\ Power(4) >= 2
  BY <1>1, <1>3, <1>5
<1>7. Power(8) \in Nat /\ Power(8) >= 2
  BY <1>1, <1>3, <1>6
<1> QED BY <1>1, <1>2, <1>4, <1>5, <1>6, <1>7

\* A power is twice its half.
LEMMA Halves ==
    ASSUME NEW w \in {1, 2, 4, 8}
    PROVE  Power(w) \div 2 \in Nat \ {0} /\ Power(w) = 2 * (Power(w) \div 2)
<1>1. \A h \in Nat, s \in Nat : s = 2 * h => s * s = 2 * (h * s)
  OBVIOUS
<1>2. \A s \in Nat : s >= 2 /\ (\E h \in Nat : s = 2 * h) => s \div 2 \in Nat \ {0} /\ s = 2 * (s \div 2)
  OBVIOUS
<1>3. \A h, s \in Nat : h * s \in Nat
  OBVIOUS
<1>4. \E h \in Nat : Power(1) = 2 * h
  BY Powers
<1>5. \A v \in {1, 2, 4, 8} : (\E h \in Nat : Power(v) = 2 * h) => \E h \in Nat : Power(v) * Power(v) = 2 * h
  BY <1>1, <1>3, Powers
<1>6. \E h \in Nat : Power(2) = 2 * h
  BY <1>4, <1>5, Powers
<1>7. \E h \in Nat : Power(4) = 2 * h
  BY <1>6, <1>5, Powers
<1>8. \E h \in Nat : Power(8) = 2 * h
  BY <1>7, <1>5, Powers
<1> QED BY <1>2, <1>4, <1>6, <1>7, <1>8, Powers, ZenonT(60)

\* A number is its quotient and its remainder.
LEMMA Division ==
    ASSUME NEW n \in Int, NEW S \in Nat \ {0}
    PROVE  n \div S \in Int /\ n % S \in 0..(S - 1) /\ n = S * (n \div S) + (n % S)
OBVIOUS

\* There is one way to be a quotient and a remainder.
LEMMA Remainder ==
    ASSUME NEW S \in Nat \ {0}, NEW q \in Int, NEW r \in 0..(S - 1), NEW n \in Int, n = S * q + r
    PROVE  n % S = r
<1> DEFINE p == n \div S
           t == n % S
<1>1. p \in Int /\ t \in 0..(S - 1) /\ n = S * p + t
  BY Division
<1> HIDE DEF p, t
<1>2. p = q
  <2>1. S * (p - q) = r - t
    <3>1. S * (p - q) = S * p - S * q
      BY <1>1
    <3> QED BY <1>1, <3>1
  <2>2. r - t < S /\ t - r < S
    BY <1>1
  <2>3. CASE p - q >= 1
    <3>1. S * (p - q) >= S
      BY <1>1, <2>3
    <3> QED BY <1>1, <2>1, <2>2, <3>1
  <2>4. CASE p - q <= -1
    <3>1. S * (p - q) <= -S
      BY <1>1, <2>4
    <3> QED BY <1>1, <2>1, <2>2, <3>1
  <2> QED BY <1>1, <2>3, <2>4
<1> QED BY <1>1, <1>2 DEF t

\* The two halves of a number's remainder.
LEMMA Remainders ==
    ASSUME NEW n \in Int, NEW S \in Nat \ {0}
    PROVE  /\ S * S \in Nat \ {0}
           /\ ((n \div S) % S) * S + (n % S) = n % (S * S)
           /\ ((n \div S) % S) * S + (n % S) \in 0..(S * S - 1)
<1> DEFINE p == n \div S
           r == n % S
           q == p \div S
           t == p % S
<1>1. p \in Int /\ r \in 0..(S - 1) /\ n = S * p + r
  BY Division
<1>2. q \in Int /\ t \in 0..(S - 1) /\ p = S * q + t
  <2> HIDE DEF p
  <2> QED BY <1>1, Division
<1> HIDE DEF r, q, t
<1> HIDE DEF p
<1>3. S * S \in Nat \ {0}
  <2>1. S * S >= S
    OBVIOUS
  <2> QED BY <2>1
<1>4. n = (S * S) * q + (t * S + r)
  <2>1. S * p = S * (S * q) + S * t
    <3>1. p = S * q + t
      BY <1>1, <1>2
    <3> QED BY <1>2, <3>1
  <2>2. S * (S * q) = (S * S) * q /\ S * t = t * S
    BY <1>2
  <2> QED BY <1>1, <1>2, <2>1, <2>2
<1>5. t * S + r \in 0..(S * S - 1)
  <2>1. t * S <= (S - 1) * S
    BY <1>2
  <2>2. (S - 1) * S = S * S - S
    OBVIOUS
  <2>3. t * S >= 0
    BY <1>2
  <2> QED BY <1>1, <1>2, <2>1, <2>2, <2>3
<1>6. n % (S * S) = t * S + r
  <2> DEFINE SS == S * S
             m == t * S + r
  <2>1. SS \in Nat \ {0} /\ m \in 0..(SS - 1) /\ n = SS * q + m
    BY <1>3, <1>4, <1>5
  <2> HIDE DEF SS, m
  <2>2. n % SS = m
    BY <1>2, <2>1, Remainder
  <2> QED BY <2>2 DEF SS, m
<1> QED BY <1>3, <1>5, <1>6 DEF p, r, t

\* b has the bytes d from its i-th on.
Spells(b, i, d) == \A j \in 1..Len(d) : b[i + j - 1] = d[j]

\* One byte.
LEMMA OneByte ==
    ASSUME NEW n \in Int
    PROVE  /\ Digits1(n) \in Seq(Byte) /\ Len(Digits1(n)) = 1
           /\ \A b, i : i \in Int /\ Spells(b, i, Digits1(n)) => b[i] = n % Power(1)
<1>1. n % Radix \in 0..255 /\ Power(1) = Radix
  <2>1. n % Radix \in 0..(Radix - 1)
    <3>1. Radix \in Nat \ {0}
      BY Powers
    <3> QED BY <3>1, Division
  <2> QED BY <2>1, Powers
<1>2. Digits1(n) = <<n % Radix>>
  BY DEF Digits1
<1>3. Digits1(n) \in Seq(Byte) /\ Len(Digits1(n)) = 1 /\ Digits1(n)[1] = n % Radix
  BY <1>1, <1>2 DEF Byte
<1>4. ASSUME NEW b, NEW i \in Int, Spells(b, i, Digits1(n)) PROVE b[i] = n % Radix
  <2>1. b[i + 1 - 1] = n % Radix
    BY <1>3, <1>4 DEF Spells
  <2>2. i + 1 - 1 = i
    OBVIOUS
  <2> QED BY <2>1, <2>2
<1> QED BY <1>1, <1>3, <1>4

\* A sequence that two others follow each other in has both.
LEMMA SpellsBoth ==
    ASSUME NEW c \in Seq(Byte), NEW d \in Seq(Byte), NEW b, NEW i \in Int, Spells(b, i, c \o d)
    PROVE  Spells(b, i, c) /\ Spells(b, i + Len(c), d)
<1>1. /\ Len(c \o d) = Len(c) + Len(d) /\ Len(c) \in Nat /\ Len(d) \in Nat
      /\ \A j \in 1..Len(c) : (c \o d)[j] = c[j]
      /\ \A j \in 1..Len(d) : (c \o d)[Len(c) + j] = d[j]
  OBVIOUS
<1> DEFINE e == c \o d
           l == Len(c)
           m == Len(d)
<1>2. /\ Len(e) = l + m /\ l \in Nat /\ m \in Nat
      /\ \A j \in 1..l : e[j] = c[j] /\ \A k \in 1..m : e[l + k] = d[k]
      /\ \A j \in 1..Len(e) : b[i + j - 1] = e[j]
  BY <1>1 DEF Spells
<1> HIDE DEF e
<1>3. ASSUME NEW j \in 1..Len(c) PROVE b[i + j - 1] = c[j]
  <2>1. j \in 1..l /\ j \in 1..Len(e)
    BY <1>2
  <2> QED BY <1>2, <2>1
<1>4. ASSUME NEW j \in 1..Len(d) PROVE b[(i + Len(c)) + j - 1] = d[j]
  <2>1. j \in 1..m /\ l + j \in 1..Len(e) /\ i + (l + j) - 1 = (i + l) + j - 1
    BY <1>2
  <2>2. b[i + (l + j) - 1] = e[l + j] /\ e[l + j] = d[j]
    <3> HIDE DEF l, m
    <3>1. PICK h \in 1..Len(e) : h = l + j
      BY <2>1
    <3>2. b[i + h - 1] = e[h]
      BY <1>2
    <3>3. e[l + j] = d[j]
      BY <1>1 DEF e, l
    <3> QED BY <3>1, <3>2, <3>3
  <2> QED BY <2>1, <2>2
<1> QED BY <1>3, <1>4 DEF Spells

\* Two bytes.
LEMMA TwoBytes ==
    ASSUME NEW n \in Int
    PROVE  /\ Digits2(n) \in Seq(Byte) /\ Len(Digits2(n)) = 2
           /\ \A b, i : i \in Int /\ Spells(b, i, Digits2(n)) => Number2(b, i) = n % Power(2)
<1> DEFINE c == Digits1(n \div Radix)
           d == Digits1(n)
<1>1. Radix \in Nat \ {0} /\ Power(1) = Radix /\ Power(2) = Radix * Radix
  BY Powers
<1>2. n \div Radix \in Int
  BY <1>1, Division
<1>3. /\ c \in Seq(Byte) /\ Len(c) = 1 /\ d \in Seq(Byte) /\ Len(d) = 1
      /\ \A b, i : i \in Int /\ Spells(b, i, c) => b[i] = (n \div Radix) % Radix
      /\ \A b, i : i \in Int /\ Spells(b, i, d) => b[i] = n % Radix
  BY <1>1, <1>2, OneByte
<1> HIDE DEF c, d
<1>4. Digits2(n) = c \o d
  BY DEF Digits2, c, d
<1>5. Digits2(n) \in Seq(Byte) /\ Len(Digits2(n)) = 2
  <2>1. c \in Seq(Byte) /\ d \in Seq(Byte) /\ Len(c) = 1 /\ Len(d) = 1
    BY <1>3
  <2>2. c \o d \in Seq(Byte) /\ Len(c \o d) = Len(c) + Len(d)
    BY <2>1, Parts
  <2> QED BY <1>4, <2>1, <2>2
<1>6. ASSUME NEW b, NEW i \in Int, Spells(b, i, Digits2(n))
      PROVE  Number2(b, i) = n % Power(2)
  <2>1. Spells(b, i, c) /\ Spells(b, i + 1, d)
    BY <1>3, <1>4, <1>6, SpellsBoth
  <2>2. b[i] = (n \div Radix) % Radix /\ b[i + 1] = n % Radix
    BY <1>3, <2>1
  <2>3. ((n \div Radix) % Radix) * Radix + (n % Radix) = n % (Radix * Radix)
    BY <1>1, Remainders
  <2> QED BY <1>1, <2>2, <2>3 DEF Number2
<1> QED BY <1>5, <1>6

\* Four bytes.
LEMMA FourBytes ==
    ASSUME NEW n \in Int
    PROVE  /\ Digits4(n) \in Seq(Byte) /\ Len(Digits4(n)) = 4
           /\ \A b, i : i \in Int /\ Spells(b, i, Digits4(n)) => Number4(b, i) = n % Power(4)
<1> DEFINE c == Digits2(n \div Power(2))
           d == Digits2(n)
<1>1. Power(2) \in Nat \ {0} /\ Power(4) = Power(2) * Power(2)
  BY Powers
<1>2. n \div Power(2) \in Int
  BY <1>1, Division
<1>3. /\ c \in Seq(Byte) /\ Len(c) = 2 /\ d \in Seq(Byte) /\ Len(d) = 2
      /\ \A b, i : i \in Int /\ Spells(b, i, c) => Number2(b, i) = (n \div Power(2)) % Power(2)
      /\ \A b, i : i \in Int /\ Spells(b, i, d) => Number2(b, i) = n % Power(2)
  BY <1>2, TwoBytes
<1> HIDE DEF c, d
<1>4. Digits4(n) = c \o d
  BY DEF Digits4, c, d
<1>5. Digits4(n) \in Seq(Byte) /\ Len(Digits4(n)) = 4
  <2>1. c \in Seq(Byte) /\ d \in Seq(Byte) /\ Len(c) = 2 /\ Len(d) = 2
    BY <1>3
  <2>2. c \o d \in Seq(Byte) /\ Len(c \o d) = Len(c) + Len(d)
    BY <2>1, Parts
  <2> QED BY <1>4, <2>1, <2>2
<1>6. ASSUME NEW b, NEW i \in Int, Spells(b, i, Digits4(n))
      PROVE  Number4(b, i) = n % Power(4)
  <2>1. Spells(b, i, c) /\ Spells(b, i + 2, d)
    BY <1>3, <1>4, <1>6, SpellsBoth, ZenonT(60)
  <2>2. Number2(b, i) = (n \div Power(2)) % Power(2) /\ Number2(b, i + 2) = n % Power(2)
    BY <1>3, <2>1
  <2>3. ((n \div Power(2)) % Power(2)) * Power(2) + (n % Power(2)) = n % (Power(2) * Power(2))
    BY <1>1, Remainders
  <2> QED BY <1>1, <2>2, <2>3 DEF Number4
<1> QED BY <1>5, <1>6

\* The digits of a number in as many bytes as a type has are bytes, and where they are spelt
\* the number is read, but for a multiple of what does not fit.
LEMMA DigitsAre ==
    ASSUME NEW n \in Int, NEW w \in {1, 2, 4, 8}
    PROVE  /\ Digits(n, w) \in Seq(Byte) /\ Len(Digits(n, w)) = w
           /\ \A b, i : i \in Int /\ Spells(b, i, Digits(n, w)) => NumberAt(b, i, w) = n % Power(w)
<1>1. CASE w = 1
  <2>1. Digits(n, w) = Digits1(n) /\ \A b, i : NumberAt(b, i, w) = b[i]
    BY <1>1 DEF Digits, NumberAt
  <2> QED BY <1>1, <2>1, OneByte
<1>2. CASE w = 2
  <2>1. Digits(n, w) = Digits2(n) /\ \A b, i : NumberAt(b, i, w) = Number2(b, i)
    BY <1>2 DEF Digits, NumberAt
  <2> QED BY <1>2, <2>1, TwoBytes
<1>3. CASE w = 4
  <2>1. Digits(n, w) = Digits4(n) /\ \A b, i : NumberAt(b, i, w) = Number4(b, i)
    BY <1>3 DEF Digits, NumberAt
  <2> QED BY <1>3, <2>1, FourBytes
<1>4. CASE w = 8
  <2> DEFINE c == Digits4(n \div Power(4))
             d == Digits4(n)
  <2>1. Power(4) \in Nat \ {0} /\ Power(8) = Power(4) * Power(4)
    BY Powers
  <2>2. n \div Power(4) \in Int
    BY <2>1, Division
  <2>3. /\ c \in Seq(Byte) /\ Len(c) = 4 /\ d \in Seq(Byte) /\ Len(d) = 4
        /\ \A b, i : i \in Int /\ Spells(b, i, c) => Number4(b, i) = (n \div Power(4)) % Power(4)
        /\ \A b, i : i \in Int /\ Spells(b, i, d) => Number4(b, i) = n % Power(4)
    BY <2>2, FourBytes
  <2>4. Digits(n, w) = c \o d
    BY <1>4 DEF Digits
  <2> HIDE DEF c, d
  <2>5. Digits(n, w) \in Seq(Byte) /\ Len(Digits(n, w)) = w
    <3>1. c \in Seq(Byte) /\ d \in Seq(Byte) /\ Len(c) = 4 /\ Len(d) = 4
      BY <2>3
    <3>2. c \o d \in Seq(Byte) /\ Len(c \o d) = Len(c) + Len(d)
      BY <3>1, Parts
    <3>3. Len(c \o d) = 8
      BY <3>1, <3>2
    <3> QED BY <1>4, <2>4, <3>2, <3>3
  <2>6. ASSUME NEW b, NEW i \in Int, Spells(b, i, Digits(n, w))
        PROVE  NumberAt(b, i, w) = n % Power(w)
    <3>1. Spells(b, i, c) /\ Spells(b, i + 4, d)
      BY <2>3, <2>4, <2>6, SpellsBoth, ZenonT(60)
    <3>2. Number4(b, i) = (n \div Power(4)) % Power(4) /\ Number4(b, i + 4) = n % Power(4)
      BY <2>3, <3>1
    <3>3. ((n \div Power(4)) % Power(4)) * Power(4) + (n % Power(4)) = n % (Power(4) * Power(4))
      BY <2>1, Remainders
    <3>4. NumberAt(b, i, w) = Number4(b, i) * Power(4) + Number4(b, i + 4)
      BY <1>4 DEF NumberAt
    <3> QED BY <1>4, <2>1, <3>2, <3>3, <3>4
  <2> QED BY <2>5, <2>6
<1> QED BY <1>1, <1>2, <1>3, <1>4

-----------------------------------------------------------------------------
(* The values that Decode can answer with *)

\* Those that are not made of others, those made of these, and so on.
Plain ==
    [k : {"int", "uint", "nil", "true", "false", "string", "bytes"} \cup FloatKinds, v : Seq(Int)]
        \cup {Num("int", ParseInt(s)) : s \in Seq(Byte)}

Grown(S) ==
    S \cup {Value("list", s) : s \in Seq(S)} \cup {Value("map", s) : s \in Seq([key : S, val : S])}

IsLevels(f, n) == DOMAIN f = 0..n /\ f[0] = Plain /\ \A i \in 1..n : f[i] = Grown(f[i - 1])

Level(n) == (CHOOSE f : IsLevels(f, n))[n]

Universe == UNION {Level(n) : n \in Nat}

\* There are levels up to every depth.
LEMMA LevelsExist == \A n \in Nat : \E f : IsLevels(f, n)
<1> DEFINE Bad == {n \in Nat : ~ \E f : IsLevels(f, n)}
<1>1. SUFFICES ASSUME Bad # {} PROVE FALSE
  OBVIOUS
<1>2. PICK n \in Bad : \A m \in Bad : n <= m
  <2>1. Bad \subseteq Nat
    OBVIOUS
  <2> HIDE DEF Bad
  <2> QED BY <1>1, <2>1, LeastOf
<1>3. n # 0
  <2> DEFINE f == [i \in 0..0 |-> Plain]
  <2>1. IsLevels(f, 0)
    BY DEF IsLevels
  <2> HIDE DEF f
  <2> QED BY <2>1
<1>4. n - 1 \in Nat /\ n - 1 \notin Bad /\ n \in Nat
  BY <1>2, <1>3
<1>5. PICK f : IsLevels(f, n - 1)
  BY <1>4
<1> DEFINE g == [i \in 0..n |-> IF i = n THEN Grown(f[n - 1]) ELSE f[i]]
<1>6. IsLevels(g, n)
  <2>1. DOMAIN g = 0..n /\ g[0] = Plain
    BY <1>3, <1>4, <1>5 DEF IsLevels
  <2>2. ASSUME NEW i \in 1..n PROVE g[i] = Grown(g[i - 1])
    <3>1. i - 1 \in 0..n /\ i - 1 # n /\ i \in 0..n /\ g[i - 1] = f[i - 1]
      BY <1>4
    <3>2. i # n => f[i] = Grown(f[i - 1])
      <4>1. i # n => i \in 1..(n - 1)
        BY <1>4
      <4> QED BY <1>5, <4>1 DEF IsLevels
    <3> QED BY <3>1, <3>2
  <2> HIDE DEF g
  <2> QED BY <2>1, <2>2 DEF IsLevels
<1> HIDE DEF g
<1>7. n \notin Bad
  BY <1>6
<1> QED BY <1>2, <1>7

\* They are the same however far they go.
LEMMA LevelsAgree ==
    ASSUME NEW n \in Nat, NEW m \in Nat, m <= n, NEW f, NEW g, IsLevels(f, n), IsLevels(g, m)
    PROVE  \A i \in 0..m : f[i] = g[i]
<1> DEFINE Wrong == {i \in 0..m : f[i] # g[i]}
<1>1. SUFFICES ASSUME Wrong # {} PROVE FALSE
  OBVIOUS
<1>2. PICK i \in Wrong : \A j \in Wrong : i <= j
  <2>1. Wrong \subseteq Nat
    OBVIOUS
  <2> HIDE DEF Wrong
  <2> QED BY <1>1, <2>1, LeastOf
<1>3. i \in 0..m /\ f[i] # g[i] /\ i # 0
  BY <1>2 DEF IsLevels
<1>4. i \in 1..m /\ i \in 1..n /\ i - 1 \in 0..m
  BY <1>3
<1>5. f[i] = Grown(f[i - 1]) /\ g[i] = Grown(g[i - 1])
  BY <1>4 DEF IsLevels
<1>6. i - 1 \in Wrong
  BY <1>3, <1>4, <1>5
<1> QED BY <1>2, <1>4, <1>6

\* Each level is grown from the one before.
LEMMA LevelIs == Level(0) = Plain /\ \A n \in Nat : Level(n + 1) = Grown(Level(n))
<1> DEFINE up(n) == CHOOSE f : IsLevels(f, n)
<1>1. \A n \in Nat : IsLevels(up(n), n) /\ Level(n) = up(n)[n]
  BY LevelsExist DEF Level
<1> HIDE DEF up
<1>2. Level(0) = Plain
  BY <1>1 DEF IsLevels
<1>3. ASSUME NEW n \in Nat PROVE Level(n + 1) = Grown(Level(n))
  <2>1. n + 1 \in Nat /\ n <= n + 1 /\ n \in 0..n /\ n + 1 \in 1..(n + 1) /\ (n + 1) - 1 = n
    OBVIOUS
  <2>2. IsLevels(up(n + 1), n + 1) /\ IsLevels(up(n), n)
        /\ Level(n + 1) = up(n + 1)[n + 1] /\ Level(n) = up(n)[n]
    BY <1>1, <2>1
  <2>3. up(n + 1)[n] = up(n)[n]
    BY <2>1, <2>2, LevelsAgree
  <2>4. up(n + 1)[n + 1] = Grown(up(n + 1)[(n + 1) - 1])
    BY <2>1, <2>2 DEF IsLevels
  <2> QED BY <2>1, <2>2, <2>3, <2>4
<1> QED BY <1>2, <1>3

\* A level holds those before it.
LEMMA LevelsGrow ==
    ASSUME NEW m \in Nat, NEW n \in Nat, m <= n
    PROVE  Level(m) \subseteq Level(n)
<1> DEFINE Bad == {k \in Nat : m <= k /\ ~(Level(m) \subseteq Level(k))}
<1>1. SUFFICES ASSUME Bad # {} PROVE FALSE
  OBVIOUS
<1>2. PICK k \in Bad : \A j \in Bad : k <= j
  <2>1. Bad \subseteq Nat
    OBVIOUS
  <2> HIDE DEF Bad
  <2> QED BY <1>1, <2>1, LeastOf
<1>3. k \in Nat /\ m <= k /\ ~(Level(m) \subseteq Level(k)) /\ k # m
  BY <1>2
<1>4. k - 1 \in Nat /\ m <= k - 1 /\ k - 1 \notin Bad /\ (k - 1) + 1 = k
  BY <1>2, <1>3
<1>5. Level(m) \subseteq Level(k - 1)
  BY <1>4
<1>6. Level(k) = Grown(Level(k - 1))
  BY <1>4, LevelIs
<1>7. Level(k - 1) \subseteq Level(k)
  BY <1>6 DEF Grown
<1> QED BY <1>3, <1>5, <1>7

\* A sequence of values is one of some level.
LEMMA InOneLevel ==
    ASSUME NEW s \in Seq(Universe)
    PROVE  \E n \in Nat : s \in Seq(Level(n))
<1> DEFINE Up(l, n) == \A i \in 1..l : s[i] \in Level(n)
           Bad == {l \in 0..Len(s) : ~ \E n \in Nat : Up(l, n)}
<1>0. Len(s) \in Nat
  OBVIOUS
<1>1. Bad = {}
  <2>1. SUFFICES ASSUME Bad # {} PROVE FALSE
    OBVIOUS
  <2>2. PICK l \in Bad : \A m \in Bad : l <= m
    <3>1. Bad \subseteq Nat
      BY <1>0
    <3> HIDE DEF Bad
    <3> QED BY <2>1, <3>1, LeastOf
  <2>3. l \in 0..Len(s) /\ ~ \E n \in Nat : Up(l, n)
    BY <2>2
  <2>4. l # 0
    <3>1. 0 \in Nat /\ Up(0, 0)
      OBVIOUS
    <3> HIDE DEF Up
    <3> QED BY <2>3, <3>1
  <2>5. l - 1 \in 0..Len(s) /\ l \in 1..Len(s) /\ l - 1 \notin Bad
    <3>1. l - 1 \in 0..Len(s) /\ l \in 1..Len(s) /\ ~(l <= l - 1)
      <4> HIDE DEF Up, Bad
      <4> QED BY <1>0, <2>3, <2>4
    <3> HIDE DEF Bad
    <3> QED BY <2>2, <3>1
  <2>6. PICK n \in Nat : Up(l - 1, n)
    BY <2>5
  <2>7. PICK m \in Nat : s[l] \in Level(m)
    <3>1. s[l] \in Universe
      BY <2>5
    <3> QED BY <3>1 DEF Universe
  <2>8. PICK k \in Nat : n <= k /\ m <= k
    <3>1. n + m \in Nat /\ n <= n + m /\ m <= n + m
      OBVIOUS
    <3> QED BY <3>1
  <2>9. Level(n) \subseteq Level(k) /\ Level(m) \subseteq Level(k)
    BY <2>8, LevelsGrow
  <2>10. Up(l, k)
    <3>1. \A i \in 1..l : i = l \/ i \in 1..(l - 1)
      BY <2>5
    <3> QED BY <2>6, <2>7, <2>9, <3>1
  <2> HIDE DEF Up
  <2> QED BY <2>3, <2>10
<1>2. PICK n \in Nat : Up(Len(s), n)
  <2> HIDE DEF Up
  <2>1. Len(s) \in 0..Len(s) /\ Len(s) \notin Bad
    BY <1>0, <1>1
  <2> QED BY <2>1
<1>3. s \in Seq(Level(n))
  <2>1. \A i \in 1..Len(s) : s[i] \in Level(n)
    BY <1>2
  <2>2. \A T : \A t \in Seq(Universe) : (\A i \in 1..Len(t) : t[i] \in T) => t \in Seq(T)
    <3> SUFFICES ASSUME NEW T, NEW t \in Seq(Universe), \A i \in 1..Len(t) : t[i] \in T
                 PROVE  t \in Seq(T)
      OBVIOUS
    <3> QED BY SeqDef
  <2> QED BY <2>1, <2>2
<1> QED BY <1>3

\* The values Decode can answer with: closed under lists and maps, and nothing else.
LEMMA UniverseIs ==
    /\ Plain \subseteq Universe
    /\ \A s \in Seq(Universe) : Value("list", s) \in Universe
    /\ \A s \in Seq([key : Universe, val : Universe]) : Value("map", s) \in Universe
    /\ \A x \in Universe :
            \/ x \in Plain
            \/ \E s \in Seq(Universe) : x = Value("list", s)
            \/ \E s \in Seq([key : Universe, val : Universe]) : x = Value("map", s)
<1>1. \A n \in Nat : Level(n) \subseteq Universe
  BY DEF Universe
<1>2. Plain \subseteq Universe
  BY <1>1, LevelIs
<1>3. ASSUME NEW n \in Nat, NEW x \in Grown(Level(n)) PROVE x \in Universe
  <2>1. n + 1 \in Nat /\ x \in Level(n + 1)
    BY LevelIs
  <2> QED BY <1>1, <2>1
<1>4. ASSUME NEW s \in Seq(Universe) PROVE Value("list", s) \in Universe
  <2>1. PICK n \in Nat : s \in Seq(Level(n))
    BY InOneLevel
  <2>2. Value("list", s) \in Grown(Level(n))
    BY <2>1 DEF Grown
  <2> QED BY <1>3, <2>2
<1>5. ASSUME NEW s \in Seq([key : Universe, val : Universe]) PROVE Value("map", s) \in Universe
  <2> DEFINE ks == [i \in 1..Len(s) |-> s[i].key]
             vs == [i \in 1..Len(s) |-> s[i].val]
  <2>0. Len(s) \in Nat /\ \A i \in 1..Len(s) : s[i] \in [key : Universe, val : Universe]
    <3> DEFINE T == [key : Universe, val : Universe]
    <3>1. s \in Seq(T)
      OBVIOUS
    <3> HIDE DEF T
    <3>2. Len(s) \in Nat /\ \A i \in 1..Len(s) : s[i] \in T
      BY <3>1
    <3> QED BY <3>2 DEF T
  <2>1. /\ ks \in Seq(Universe) /\ vs \in Seq(Universe)
        /\ Len(ks) = Len(s) /\ Len(vs) = Len(s)
        /\ \A i \in 1..Len(s) : ks[i] = s[i].key /\ vs[i] = s[i].val
    BY <2>0
  <2> HIDE DEF ks, vs
  <2>2. PICK n \in Nat : ks \in Seq(Level(n))
    BY <2>1, InOneLevel
  <2>3. PICK m \in Nat : vs \in Seq(Level(m))
    BY <2>1, InOneLevel
  <2>4. PICK k \in Nat : n <= k /\ m <= k
    <3>1. n + m \in Nat /\ n <= n + m /\ m <= n + m
      OBVIOUS
    <3> QED BY <3>1
  <2>5. Level(n) \subseteq Level(k) /\ Level(m) \subseteq Level(k)
    BY <2>4, LevelsGrow
  <2>6. \A i \in 1..Len(s) : s[i] \in [key : Level(k), val : Level(k)]
    <3> SUFFICES ASSUME NEW i \in 1..Len(s) PROVE s[i] \in [key : Level(k), val : Level(k)]
      OBVIOUS
    <3>1. s[i].key \in Level(n) /\ s[i].val \in Level(m)
      <4>1. i \in 1..Len(ks) /\ i \in 1..Len(vs)
        BY <2>1
      <4> QED BY <2>1, <2>2, <2>3, <4>1
    <3>2. s[i] = [key |-> s[i].key, val |-> s[i].val]
      BY <2>0
    <3> QED BY <2>5, <3>1, <3>2
  <2>7. s \in Seq([key : Level(k), val : Level(k)])
    <3> DEFINE T == [key : Level(k), val : Level(k)]
    <3>1. \A i \in 1..Len(s) : s[i] \in T
      BY <2>6
    <3>2. s = [i \in 1..Len(s) |-> s[i]]
      OBVIOUS
    <3> HIDE DEF T
    <3>3. s \in [1..Len(s) -> T]
      BY <3>1, <3>2
    <3>4. s \in Seq(T)
      BY <2>0, <3>3, SeqDef
    <3> QED BY <3>4 DEF T
  <2>8. Value("map", s) \in Grown(Level(k))
    BY <2>7 DEF Grown
  <2> QED BY <1>3, <2>8
<1>6. ASSUME NEW x \in Universe, x \notin Plain
      PROVE  \/ \E s \in Seq(Universe) : x = Value("list", s)
             \/ \E s \in Seq([key : Universe, val : Universe]) : x = Value("map", s)
  <2> DEFINE L == {n \in Nat : x \in Level(n)}
  <2>1. PICK n \in L : \A m \in L : n <= m
    <3>1. L \subseteq Nat /\ L # {}
      BY DEF Universe
    <3> HIDE DEF L
    <3> QED BY <3>1, LeastOf
  <2>2. n \in Nat /\ x \in Level(n) /\ n # 0
    BY <1>6, <2>1, LevelIs
  <2>3. n - 1 \in Nat /\ n - 1 \notin L /\ (n - 1) + 1 = n
    BY <2>1, <2>2
  <2>4. x \in Grown(Level(n - 1)) /\ x \notin Level(n - 1) /\ Level(n - 1) \subseteq Universe
    BY <1>1, <2>2, <2>3, LevelIs
  <2> DEFINE S == Level(n - 1)
  <2>5. \/ \E s \in Seq(S) : x = Value("list", s)
        \/ \E s \in Seq([key : S, val : S]) : x = Value("map", s)
    BY <2>4 DEF Grown
  <2>6. S \subseteq Universe
    BY <2>4
  <2> HIDE DEF S
  <2>7. Seq(S) \subseteq Seq(Universe)
    BY <2>6
  <2>8. [key : S, val : S] \subseteq [key : Universe, val : Universe]
    BY <2>6
  <2>9. Seq([key : S, val : S]) \subseteq Seq([key : Universe, val : Universe])
    <3> DEFINE A == [key : S, val : S]
               B == [key : Universe, val : Universe]
    <3>1. A \subseteq B
      BY <2>8
    <3> HIDE DEF A, B
    <3>2. Seq(A) \subseteq Seq(B)
      BY <3>1
    <3> QED BY <3>2 DEF A, B
  <2> QED BY <2>5, <2>7, <2>9
<1> QED BY <1>2, <1>4, <1>5, <1>6

\* What the values that Decode can answer with are made of.
LEMMA ValuesAre ==
    /\ Nil \in Universe
    /\ Value("list", <<>>) \in Universe /\ Value("map", <<>>) \in Universe
    /\ \A x \in Universe :
         /\ x = Value(x.k, x.v)
         /\ x.k \in {"int", "uint", "nil", "true", "false", "string", "bytes", "map", "list"} \cup FloatKinds
         /\ x.k = "list" => x.v \in Seq(Universe)
         /\ x.k = "map" => x.v \in Seq([key : Universe, val : Universe])
<1>1. Nil \in Universe
  <2>1. Nil \in Plain
    BY DEF Nil, Value, Plain
  <2> QED BY <2>1, UniverseIs
<1>2. Value("list", <<>>) \in Universe /\ Value("map", <<>>) \in Universe
  <2>1. \A T : <<>> \in Seq(T)
    OBVIOUS
  <2> QED BY <2>1, UniverseIs
<1>3. ASSUME NEW x \in Universe
      PROVE  /\ x = Value(x.k, x.v)
             /\ x.k \in {"int", "uint", "nil", "true", "false", "string", "bytes", "map", "list"} \cup FloatKinds
             /\ x.k = "list" => x.v \in Seq(Universe)
             /\ x.k = "map" => x.v \in Seq([key : Universe, val : Universe])
  <2>1. CASE x \in Plain
    BY <2>1 DEF Plain, Num, Value, FloatKinds
  <2>2. ASSUME NEW s \in Seq(Universe), x = Value("list", s)
        PROVE  x.k = "list" /\ x.v \in Seq(Universe) /\ x = Value(x.k, x.v)
    BY <2>2 DEF Value
  <2>3. ASSUME NEW s \in Seq([key : Universe, val : Universe]), x = Value("map", s)
        PROVE  x.k = "map" /\ x.v \in Seq([key : Universe, val : Universe]) /\ x = Value(x.k, x.v)
    BY <2>3 DEF Value
  <2> QED BY <2>1, <2>2, <2>3, UniverseIs
<1> QED BY <1>1, <1>2, <1>3

\* Put keeps the entries entries.
LEMMA PutType ==
    ASSUME NEW T, NEW s \in Seq(T), NEW e \in T
    PROVE  Put(s, e) \in Seq(T)
<1>1. Append(s, e) \in Seq(T)
  OBVIOUS
<1>2. [i \in DOMAIN s |-> IF SameKey(s[i].key, e.key) THEN e ELSE s[i]] \in Seq(T)
  <2> DEFINE same(i) == SameKey(s[i].key, e.key)
             t == [i \in 1..Len(s) |-> IF same(i) THEN e ELSE s[i]]
  <2>1. DOMAIN s = 1..Len(s) /\ Len(s) \in Nat /\ \A i \in 1..Len(s) : s[i] \in T
    OBVIOUS
  <2> HIDE DEF same
  <2>2. t \in [1..Len(s) -> T]
    BY <2>1
  <2>3. t \in Seq(T)
    <3> HIDE DEF t
    <3> QED BY <2>1, <2>2, SeqDef
  <2> QED BY <2>1, <2>3 DEF same
<1> QED BY <1>1, <1>2 DEF Put

-----------------------------------------------------------------------------
(* The loop over the elements of a list or a map *)

\* What Decode answers.
Answers == [err : {"none", "short", "empty"}, val : Universe, rest : Seq(Byte)]

\* A decoder of at most m bytes: it leaves no more than it is given.
Good(decode, m) ==
    \A b \in Seq(Byte) : Len(b) <= m => decode[b] \in Answers /\ Len(decode[b].rest) <= Len(b)

\* Two that are the same for at most m bytes.
Agree(one, other, m) == \A b \in Seq(Byte) : Len(b) <= m => one[b] = other[b]

\* How far a loop can be that began with m bytes.
Loops(m) == {a \in Answers : Len(a.rest) <= m /\ (a.val = Nil \/ a.val.k \in {"list", "map"})}

\* g is what the loop evaluates.
IsLoop(g, decode, tp, data) ==
    g = [n \in Nat |-> IF n = 0 THEN Decoded("none", Value(tp, <<>>), data)
                       ELSE Another(decode, g[n - 1])]

\* One element or entry more.
LEMMA AnotherType ==
    ASSUME NEW m \in Nat, NEW decode, Good(decode, m), NEW a \in Loops(m)
    PROVE  Another(decode, a) \in Loops(m)
<1> DEFINE kd == decode[a.rest]
           vd == decode[kd.rest]
<1>1. a \in Answers /\ a.rest \in Seq(Byte) /\ Len(a.rest) <= m /\ a.val \in Universe
      /\ (a.val = Nil \/ a.val.k \in {"list", "map"})
  BY DEF Loops, Answers
<1>2. kd \in Answers /\ kd.rest \in Seq(Byte) /\ kd.val \in Universe /\ Len(kd.rest) <= m
  <2>1. kd \in Answers /\ Len(kd.rest) <= Len(a.rest)
    BY <1>1 DEF Good
  <2>2. kd.rest \in Seq(Byte) /\ kd.val \in Universe
    BY <2>1 DEF Answers
  <2>3. Len(kd.rest) \in Nat /\ Len(a.rest) \in Nat
    BY <1>1, <2>2
  <2> QED BY <1>1, <2>1, <2>2, <2>3
<1>3. vd \in Answers /\ vd.rest \in Seq(Byte) /\ vd.val \in Universe /\ Len(vd.rest) <= m
  <2>1. vd \in Answers /\ Len(vd.rest) <= Len(kd.rest)
    BY <1>2 DEF Good
  <2>2. vd.rest \in Seq(Byte) /\ vd.val \in Universe
    BY <2>1 DEF Answers
  <2>3. Len(vd.rest) \in Nat /\ Len(kd.rest) \in Nat
    BY <1>2, <2>2, SMTT(40)
  <2> QED BY <1>2, <2>1, <2>2, <2>3
<1>4. kd.err \in {"none", "short", "empty"} /\ vd.err \in {"none", "short", "empty"}
  BY <1>2, <1>3 DEF Answers
<1>5. \A e \in {"none", "short", "empty"} : Decoded(e, Nil, <<>>) \in Loops(m)
  <2>1. <<>> \in Seq(Byte) /\ Len(<<>>) <= m
    OBVIOUS
  <2> QED BY <2>1, ValuesAre DEF Loops, Answers, Decoded
<1> HIDE DEF kd, vd
<1>6. ASSUME NEW v \in Universe, v.k \in {"list", "map"}, NEW r \in Seq(Byte), Len(r) <= m
      PROVE  Decoded("none", v, r) \in Loops(m)
  BY <1>6 DEF Loops, Answers, Decoded
<1>7. ASSUME a.val # Nil, a.val.k = "list"
      PROVE  Decoded("none", Value("list", Append(a.val.v, kd.val)), kd.rest) \in Loops(m)
  <2>1. a.val.v \in Seq(Universe)
    BY <1>1, <1>7, ValuesAre
  <2>2. Append(a.val.v, kd.val) \in Seq(Universe)
    BY <1>2, <2>1
  <2>3. Value("list", Append(a.val.v, kd.val)) \in Universe
    BY <2>2, UniverseIs
  <2>4. Value("list", Append(a.val.v, kd.val)).k = "list"
    BY DEF Value
  <2> QED BY <1>2, <1>6, <2>3, <2>4
<1>8. ASSUME a.val # Nil, a.val.k # "list"
      PROVE  Decoded("none", Value("map", Put(a.val.v, Entry(kd.val, vd.val))), vd.rest) \in Loops(m)
  <2> DEFINE E == [key : Universe, val : Universe]
  <2>1. a.val.v \in Seq(E)
    BY <1>1, <1>8, ValuesAre
  <2>2. Entry(kd.val, vd.val) \in E
    BY <1>2, <1>3 DEF Entry
  <2> HIDE DEF E
  <2>3. Put(a.val.v, Entry(kd.val, vd.val)) \in Seq(E)
    BY <2>1, <2>2, PutType
  <2>4. Value("map", Put(a.val.v, Entry(kd.val, vd.val))) \in Universe
    BY <2>3, UniverseIs DEF E
  <2>5. Value("map", Put(a.val.v, Entry(kd.val, vd.val))).k = "map"
    BY DEF Value
  <2> QED BY <1>3, <1>6, <2>4, <2>5
<1> QED BY <1>4, <1>5, <1>7, <1>8 DEF Another, Panic, kd, vd

\* The loop has a value.
LEMMA LoopExists ==
    ASSUME NEW decode, NEW data \in Seq(Byte), Good(decode, Len(data)), NEW tp \in {"list", "map"}
    PROVE  \E g \in Maps(Nat, Loops(Len(data))) : IsLoop(g, decode, tp, data)
<1> DEFINE m == Len(data)
           V == Loops(m)
           start == Decoded("none", Value(tp, <<>>), data)
           rank == [n \in Nat |-> n]
           comb == [p \in Nat \X Maps(Nat, V) |->
                      IF p[1] = 0 THEN start ELSE Another(decode, p[2][p[1] - 1])]
<1>1. m \in Nat /\ start \in V
  <2>1. Value(tp, <<>>) \in Universe /\ Value(tp, <<>>).k = tp
    BY ValuesAre DEF Value
  <2>2. m \in Nat /\ m <= m
    OBVIOUS
  <2> QED BY <2>1, <2>2 DEF Loops, Answers, Decoded
<1>2. \A a \in V : Another(decode, a) \in V
  <2> HIDE DEF m
  <2> QED BY <1>1, AnotherType DEF m
<1> HIDE DEF V, start
<1>3. \A n \in Nat : \A f \in Maps(Nat, V) :
        comb[<<n, f>>] = (IF n = 0 THEN start ELSE Another(decode, f[n - 1])) /\ comb[<<n, f>>] \in V
  <2> SUFFICES ASSUME NEW n \in Nat, NEW f \in Maps(Nat, V)
               PROVE  comb[<<n, f>>] = (IF n = 0 THEN start ELSE Another(decode, f[n - 1]))
                      /\ comb[<<n, f>>] \in V
    OBVIOUS
  <2>1. comb[<<n, f>>] = (IF n = 0 THEN start ELSE Another(decode, f[n - 1]))
    OBVIOUS
  <2>2. n # 0 => f[n - 1] \in V
    BY DEF Maps
  <2> HIDE DEF comb
  <2> QED BY <1>1, <1>2, <2>1, <2>2
<1>4. rank \in Maps(Nat, Nat) /\ comb \in Maps(Nat \X Maps(Nat, V), V)
  <2>1. \A p \in Nat \X Maps(Nat, V) : comb[p] \in V
    <3> SUFFICES ASSUME NEW p \in Nat \X Maps(Nat, V) PROVE comb[p] \in V
      OBVIOUS
    <3>1. p[1] \in Nat /\ p[2] \in Maps(Nat, V) /\ p = <<p[1], p[2]>>
      OBVIOUS
    <3> HIDE DEF comb
    <3> QED BY <1>3, <3>1
  <2> QED BY <2>1 DEF Maps
<1>5. \A n \in Nat : rank[n] = n
  OBVIOUS
<1> HIDE DEF rank, comb
<1>6. PICK g \in Maps(Nat, V) : SolvesAll(g, Nat, rank, start, comb)
  BY <1>1, <1>4, WellFounded
<1>7. ASSUME NEW n \in Nat PROVE g[n] = IF n = 0 THEN start ELSE Another(decode, g[n - 1])
  <2> DEFINE low == Below(g, Nat, rank, n, start)
  <2>1. low \in Maps(Nat, V) /\ (n # 0 => low[n - 1] = g[n - 1])
    BY <1>1, <1>5 DEF Below, Maps
  <2>2. g[n] = comb[<<n, low>>]
    BY <1>6 DEF SolvesAll
  <2> HIDE DEF low
  <2> QED BY <1>3, <2>1, <2>2
<1>8. IsLoop(g, decode, tp, data)
  <2>1. g = [n \in Nat |-> g[n]]
    BY DEF Maps
  <2> QED BY <1>7, <2>1 DEF IsLoop, start
<1> QED BY <1>8 DEF V

\* It has one value.
LEMMA LoopUnique ==
    ASSUME NEW decode, NEW data, NEW tp, NEW g, NEW h,
           IsLoop(g, decode, tp, data), IsLoop(h, decode, tp, data)
    PROVE  g = h
<1>1. /\ \A n \in Nat : g[n] = IF n = 0 THEN Decoded("none", Value(tp, <<>>), data) ELSE Another(decode, g[n - 1])
      /\ \A n \in Nat : h[n] = IF n = 0 THEN Decoded("none", Value(tp, <<>>), data) ELSE Another(decode, h[n - 1])
  BY DEF IsLoop
<1> DEFINE Bad == {n \in Nat : g[n] # h[n]}
<1>2. Bad = {}
  <2>1. SUFFICES ASSUME Bad # {} PROVE FALSE
    OBVIOUS
  <2>2. PICK n \in Bad : \A k \in Bad : n <= k
    <3>1. Bad \subseteq Nat
      OBVIOUS
    <3> HIDE DEF Bad
    <3> QED BY <2>1, <3>1, LeastOf
  <2>3. n \in Nat /\ g[n] # h[n] /\ n # 0
    BY <1>1, <2>2
  <2>4. n - 1 \in Nat /\ g[n - 1] # h[n - 1]
    BY <1>1, <2>3
  <2>5. n - 1 \in Bad
    BY <2>4
  <2> HIDE DEF Bad
  <2> QED BY <2>2, <2>3, <2>5
<1>3. DOMAIN g = Nat /\ DOMAIN h = Nat /\ g = [n \in Nat |-> g[n]] /\ h = [n \in Nat |-> h[n]]
  BY DEF IsLoop
<1>4. \A n \in Nat : g[n] = h[n]
  BY <1>2
<1> QED BY <1>3, <1>4

\* What Elements evaluates is the loop's value.
LEMMA ElementsAre ==
    ASSUME NEW decode, NEW data, NEW tp, NEW g, IsLoop(g, decode, tp, data), NEW count
    PROVE  Elements(decode, tp, count, data) = g[count]
<1> DEFINE f == CHOOSE h : IsLoop(h, decode, tp, data)
<1>1. IsLoop(f, decode, tp, data)
  OBVIOUS
<1>2. Elements(decode, tp, count, data) = f[count]
  BY DEF Elements, IsLoop
<1> HIDE DEF f
<1> QED BY <1>1, <1>2, LoopUnique

\* A decoder that is the same for what the loop can give it makes the same loop.
LEMMA LoopAgrees ==
    ASSUME NEW decode, NEW other, NEW data \in Seq(Byte), NEW tp,
           Good(decode, Len(data)), Agree(decode, other, Len(data)),
           NEW g \in Maps(Nat, Loops(Len(data))), IsLoop(g, decode, tp, data)
    PROVE  IsLoop(g, other, tp, data)
<1>1. ASSUME NEW a \in Loops(Len(data)) PROVE Another(decode, a) = Another(other, a)
  <2>1. a.rest \in Seq(Byte) /\ Len(a.rest) <= Len(data)
    BY DEF Loops, Answers
  <2>2. decode[a.rest] = other[a.rest]
    BY <2>1 DEF Agree
  <2>3. decode[a.rest].rest \in Seq(Byte) /\ Len(decode[a.rest].rest) <= Len(a.rest)
    BY <2>1 DEF Good, Answers
  <2>4. Len(decode[a.rest].rest) <= Len(data)
    <3>1. Len(decode[a.rest].rest) \in Nat /\ Len(a.rest) \in Nat /\ Len(data) \in Nat
      BY <2>1, <2>3
    <3> QED BY <2>1, <2>3, <3>1
  <2>5. decode[decode[a.rest].rest] = other[decode[a.rest].rest]
    BY <2>3, <2>4 DEF Agree
  <2> QED BY <2>2, <2>5 DEF Another
<1>2. \A n \in Nat : n # 0 => Another(decode, g[n - 1]) = Another(other, g[n - 1])
  BY <1>1 DEF Maps
<1>3. [n \in Nat |-> IF n = 0 THEN Decoded("none", Value(tp, <<>>), data)
                     ELSE Another(decode, g[n - 1])]
        = [n \in Nat |-> IF n = 0 THEN Decoded("none", Value(tp, <<>>), data)
                         ELSE Another(other, g[n - 1])]
  BY <1>2
<1> QED BY <1>3 DEF IsLoop


-----------------------------------------------------------------------------
(* Decode *)

\* How many bytes the numbers of a type have.
LEMMA Widths ==
    /\ \A k : Width(k) \in {1, 2, 4, 8}
    /\ \A tp : /\ TypeSize(tp) \in {0, 1, 2, 4, 8}
               /\ tp \in IntKinds \cup FloatKinds => TypeSize(tp) = Width(tp)
<1>1. \A k : Width(k) \in {1, 2, 4, 8}
  BY DEF Width
<1> QED BY <1>1 DEF TypeSize

\* A number converted is a number.
LEMMA Converted ==
    ASSUME NEW k, NEW n \in Int
    PROVE  Convert(k, n) \in Int
<1> DEFINE w == Width(k)
<1>1. w \in {1, 2, 4, 8}
  BY Widths
<1>2. Power(w) \in Nat \ {0} /\ n % Power(w) \in Int
  <2>1. Power(w) \in Nat \ {0}
    BY <1>1, Powers
  <2> QED BY <2>1, Division
<1> QED BY <1>2 DEF Convert, Sign, Unsign

\* A byte is a number.
LEMMA Bytes == Byte \subseteq Nat /\ \A x \in Byte : x <= 255
BY DEF Byte

\* Bytes make a number.
LEMMA NumberType ==
    ASSUME NEW b \in Seq(Byte), NEW i \in Nat \ {0}, NEW w \in {1, 2, 4, 8}, i + w - 1 <= Len(b)
    PROVE  NumberAt(b, i, w) \in Nat
<1>1. \A j \in 1..Len(b) : b[j] \in Nat
  <2> SUFFICES ASSUME NEW j \in 1..Len(b) PROVE b[j] \in Nat
    OBVIOUS
  <2>1. b[j] \in Byte
    OBVIOUS
  <2> QED BY <2>1, Bytes
<1>2. Radix \in Nat /\ Power(2) \in Nat /\ Power(4) \in Nat
  BY Powers
<1>3. \A x, y, z \in Nat : x * y + z \in Nat
  OBVIOUS
<1>4. \A j \in 1..Len(b) : j + 1 <= Len(b) => Number2(b, j) \in Nat
  <2> SUFFICES ASSUME NEW j \in 1..Len(b), j + 1 <= Len(b) PROVE Number2(b, j) \in Nat
    OBVIOUS
  <2>1. b[j] \in Nat /\ b[j + 1] \in Nat
    <3>1. j + 1 \in 1..Len(b)
      OBVIOUS
    <3> QED BY <1>1, <3>1
  <2> QED BY <1>2, <1>3, <2>1 DEF Number2
<1>5. \A j \in 1..Len(b) : j + 3 <= Len(b) => Number4(b, j) \in Nat
  <2> SUFFICES ASSUME NEW j \in 1..Len(b), j + 3 <= Len(b) PROVE Number4(b, j) \in Nat
    OBVIOUS
  <2>1. Number2(b, j) \in Nat /\ Number2(b, j + 2) \in Nat
    <3>1. j + 2 \in 1..Len(b) /\ j + 1 <= Len(b) /\ (j + 2) + 1 <= Len(b)
      OBVIOUS
    <3> QED BY <1>4, <3>1
  <2> QED BY <1>2, <1>3, <2>1 DEF Number4
<1>6. CASE w = 1
  <2>1. NumberAt(b, i, w) = b[i] /\ i \in 1..Len(b)
    BY <1>6 DEF NumberAt
  <2> QED BY <1>1, <2>1
<1>7. CASE w = 2
  <2>1. NumberAt(b, i, w) = Number2(b, i) /\ i \in 1..Len(b) /\ i + 1 <= Len(b)
    BY <1>7 DEF NumberAt
  <2> QED BY <1>4, <2>1
<1>8. CASE w = 4
  <2>1. NumberAt(b, i, w) = Number4(b, i) /\ i \in 1..Len(b) /\ i + 3 <= Len(b)
    BY <1>8 DEF NumberAt
  <2> QED BY <1>5, <2>1
<1>9. CASE w = 8
  <2>1. NumberAt(b, i, w) = Number4(b, i) * Power(4) + Number4(b, i + 4)
    BY <1>9 DEF NumberAt
  <2>2. Number4(b, i) \in Nat /\ Number4(b, i + 4) \in Nat
    <3>1. i \in 1..Len(b) /\ i + 4 \in 1..Len(b) /\ i + 3 <= Len(b) /\ (i + 4) + 3 <= Len(b)
      BY <1>9
    <3> QED BY <1>5, <3>1
  <2> QED BY <1>2, <1>3, <2>1, <2>2, SMTT(40)
<1> QED BY <1>6, <1>7, <1>8, <1>9

\* The bytes of length, and the count that they or the type announce.
LEMMA Counts ==
    ASSUME NEW bs \in Seq(Byte), bs # <<>>
    PROVE  /\ LengthSize(bs[1]) \in {0, 1, 2, 4}
           /\ Len(bs) >= 1 + LengthSize(bs[1]) => ElementCount(bs) \in Nat
<1>1. bs[1] \in Nat
  <2>1. bs[1] \in Byte
    OBVIOUS
  <2> QED BY <2>1, Bytes
<1>2. LengthSize(bs[1]) \in {0, 1, 2, 4}
  <2> DEFINE q == (bs[1] \div 32) % 4
  <2>1. q \in 0..3
    BY <1>1
  <2> HIDE DEF q
  <2>2. <<0, 1, 2, 4>>[q + 1] \in {0, 1, 2, 4}
    BY <2>1
  <2> QED BY <2>2 DEF LengthSize, q
<1>3. ASSUME Len(bs) >= 1 + LengthSize(bs[1]) PROVE ElementCount(bs) \in Nat
  <2>1. CASE LengthSize(bs[1]) = 0
    BY <2>1, Widths DEF ElementCount
  <2>2. ASSUME LengthSize(bs[1]) # 0 PROVE ElementCount(bs) \in Nat
    <3>1. LengthSize(bs[1]) \in {1, 2, 4, 8} /\ 2 + LengthSize(bs[1]) - 1 <= Len(bs) /\ 2 \in Nat \ {0}
      BY <1>2, <1>3, <2>2
    <3>2. NumberAt(bs, 2, LengthSize(bs[1])) \in Nat
      BY <3>1, NumberType
    <3> QED BY <2>2, <3>2 DEF ElementCount
  <2> QED BY <2>1, <2>2
<1> QED BY <1>2, <1>3

\* A sequence of a set's elements is one of a larger set's.
LEMMA WiderSeq == \A A, B : A \subseteq B => Seq(A) \subseteq Seq(B)
<1> SUFFICES ASSUME NEW A, NEW B, A \subseteq B, NEW s \in Seq(A) PROVE s \in Seq(B)
  OBVIOUS
<1> QED BY SeqDef

\* What is left of bytes.
LEMMA RestType ==
    ASSUME NEW b \in Seq(Byte), NEW n \in Nat
    PROVE  Rest(b, n) \in Seq(Byte) /\ Len(Rest(b, n)) <= Len(b) /\ (n >= 1 /\ b # <<>> => Len(Rest(b, n)) < Len(b))
<1>1. Len(b) \in Nat /\ (b # <<>> => Len(b) >= 1)
  OBVIOUS
<1>2. CASE n <= Len(b)
  <2>1. n + 1 \in Nat \ {0} /\ Len(b) \in 0..Len(b) /\ n + 1 <= Len(b) + 1
    BY <1>1, <1>2
  <2>2. Rest(b, n) \in Seq(Byte) /\ Len(Rest(b, n)) = Len(b) - (n + 1) + 1
    BY <2>1, Pieces DEF Rest
  <2> QED BY <1>1, <2>2
<1>3. CASE n > Len(b)
  <2>1. Rest(b, n) = <<>>
    BY <1>1, <1>3 DEF Rest
  <2> QED BY <1>1, <2>1
<1> QED BY <1>1, <1>2, <1>3

\* A value that is neither a map nor a list.
LEMMA DecodeDataType ==
    ASSUME NEW data \in Seq(Byte), NEW bs \in Seq(Byte), Len(data) <= Len(bs), NEW count \in Nat, NEW tp
    PROVE  DecodeData(tp, data, count, bs) \in Answers /\ Len(DecodeData(tp, data, count, bs).rest) <= Len(bs)
<1> DEFINE n == NumberAt(data, 1, TypeSize(tp))
           some == SubSeq(data, 1, count)
           Fine(a) == a \in Answers /\ Len(a.rest) <= Len(bs)
<1>1. ASSUME NEW v \in Universe, NEW r \in Seq(Byte), Len(r) <= Len(bs), NEW e \in {"none", "short", "empty"}
      PROVE  Fine(Decoded(e, v, r))
  BY <1>1 DEF Answers, Decoded
<1>2. Fine(Panic) /\ Fine(Short)
  <2>1. <<>> \in Seq(Byte) /\ Len(<<>>) <= Len(bs)
    OBVIOUS
  <2> HIDE DEF Fine
  <2> QED BY <1>1, <2>1, ValuesAre DEF Panic, Short
<1>3. Rest(data, count) \in Seq(Byte) /\ Len(Rest(data, count)) <= Len(bs)
  <2>1. Rest(data, count) \in Seq(Byte) /\ Len(Rest(data, count)) <= Len(data)
    BY RestType
  <2>2. Len(Rest(data, count)) \in Nat /\ Len(data) \in Nat /\ Len(bs) \in Nat
    BY <2>1
  <2> QED BY <2>1, <2>2
<1>4. ~IsShort(data, count) => some \in Seq(Byte) /\ some \in Seq(Int)
  <2>1. ~IsShort(data, count) => some \in Seq(Byte)
    <3>1. ~IsShort(data, count) => count \in 0..Len(data) /\ 1 \in Nat \ {0} /\ 1 <= count + 1
      BY DEF IsShort
    <3> QED BY <3>1, Pieces
  <2>2. Seq(Byte) \subseteq Seq(Int)
    <3>1. Byte \subseteq Int
      BY Bytes
    <3> QED BY <3>1, WiderSeq
  <2> QED BY <2>1, <2>2
<1>5. tp \in IntKinds \cup FloatKinds /\ ~(Len(data) < TypeSize(tp)) => n \in Nat
  <2> SUFFICES ASSUME tp \in IntKinds \cup FloatKinds, ~(Len(data) < TypeSize(tp)) PROVE n \in Nat
    OBVIOUS
  <2>1. TypeSize(tp) \in {1, 2, 4, 8} /\ 1 \in Nat \ {0} /\ 1 + TypeSize(tp) - 1 <= Len(data)
    <3>1. TypeSize(tp) \in {1, 2, 4, 8}
      BY Widths
    <3>2. Len(data) \in Nat
      OBVIOUS
    <3> QED BY <3>1, <3>2
  <2> QED BY <2>1, NumberType
<1>6. \A m \in Int : Num("int", m) \in Plain /\ Num("uint", m) \in Plain
  <2>1. \A m \in Int : <<m>> \in Seq(Int)
    OBVIOUS
  <2> QED BY <2>1 DEF Plain, Num, Value
<1>7. \A m \in Int : \A k \in FloatKinds : Num(k, m) \in Plain
  <2>1. \A m \in Int : <<m>> \in Seq(Int)
    OBVIOUS
  <2> QED BY <2>1 DEF Plain, Num, Value
<1>8. \A k \in {"nil", "true", "false"} : Value(k, <<>>) \in Plain
  <2>1. <<>> \in Seq(Int)
    OBVIOUS
  <2> QED BY <2>1 DEF Plain, Value
<1>9. \A k \in {"string", "bytes"} : \A s \in Seq(Int) : Value(k, s) \in Plain
  BY DEF Plain, Value
<1>10. ~IsShort(data, count) => Num("int", IF IsNumeral(some) THEN ParseInt(some) ELSE 0) \in Plain
  <2>1. ~IsShort(data, count) => Num("int", ParseInt(some)) \in Plain
    BY <1>4 DEF Plain
  <2> QED BY <1>6, <2>1
<1> HIDE DEF n, some, Fine
<1>11. \A v \in Plain : Fine(Decoded("none", v, Rest(data, count))) /\ Fine(Decoded("none", v, data))
                        /\ Fine(Decoded("none", v, bs))
  <2>1. Len(bs) <= Len(bs)
    OBVIOUS
  <2> QED BY <1>1, <1>3, <2>1, UniverseIs
<1> DEFINE is(x) == Decoded("none", x, Rest(data, count))
           dd == DecodeData(tp, data, count, bs)
<1>12. CASE IsShort(data, count) \/ Len(data) < TypeSize(tp)
  <2>1. dd = Short \/ dd = Panic
    BY <1>12 DEF DecodeData
  <2>2. Fine(dd)
    BY <1>2, <2>1
  <2> QED BY <2>2 DEF Fine
<1>13. ASSUME ~IsShort(data, count), ~(Len(data) < TypeSize(tp)) PROVE Fine(dd)
  <2>1. dd = CASE tp \in IntKinds -> is(Num(GoKind(tp), Convert(tp, n)))
               [] tp \in FloatKinds -> is(Num(tp, n))
               [] tp = "nil" -> is(Nil)
               [] tp \in {"string", "bytes"} -> is(Value(tp, some))
               [] tp \in {"true", "false"} -> Decoded("none", Value(tp, <<>>), data)
               [] tp = "bigNumber" -> is(Num("int", IF IsNumeral(some) THEN ParseInt(some) ELSE 0))
               [] OTHER -> Decoded("none", Nil, bs)
    BY <1>13 DEF DecodeData, n, some
  <2>2. ASSUME tp \in IntKinds PROVE Fine(dd)
    <3>1. dd = is(Num(GoKind(tp), Convert(tp, n)))
      BY <2>1, <2>2, KindsAre DEF FloatKinds
    <3>2. Convert(tp, n) \in Int
      BY <1>5, <1>13, <2>2, Converted
    <3> HIDE DEF dd
    <3> QED BY <1>6, <1>11, <3>1, <3>2 DEF GoKind
  <2>3. ASSUME tp \in FloatKinds PROVE Fine(dd)
    <3>1. dd = is(Num(tp, n))
      BY <2>1, <2>3, KindsAre DEF FloatKinds
    <3>2. n \in Int
      BY <1>5, <1>13, <2>3
    <3> HIDE DEF dd
    <3> QED BY <1>7, <1>11, <2>3, <3>1, <3>2
  <2>4. ASSUME tp \in {"string", "bytes"} PROVE Fine(dd)
    <3>1. dd = is(Value(tp, some))
      BY <2>1, <2>4, KindsAre DEF FloatKinds
    <3> HIDE DEF dd
    <3> QED BY <1>4, <1>9, <1>11, <1>13, <2>4, <3>1
  <2>5. ASSUME tp \in {"true", "false"} PROVE Fine(dd)
    <3>1. dd = Decoded("none", Value(tp, <<>>), data)
      BY <2>1, <2>5, KindsAre DEF FloatKinds
    <3> HIDE DEF dd
    <3> QED BY <1>8, <1>11, <2>5, <3>1
  <2>6. ASSUME tp = "bigNumber" PROVE Fine(dd)
    <3>1. dd = is(Num("int", IF IsNumeral(some) THEN ParseInt(some) ELSE 0))
      BY <2>1, <2>6, KindsAre DEF FloatKinds
    <3> HIDE DEF dd
    <3> QED BY <1>10, <1>11, <1>13, <3>1
  <2>7. ASSUME tp \notin IntKinds \cup FloatKinds, tp \notin {"string", "bytes", "true", "false", "bigNumber"}
        PROVE  Fine(dd)
    <3>1. dd = is(Nil) \/ dd = Decoded("none", Nil, bs)
      <4>1. CASE tp = "nil"
        BY <2>1, <2>7, <4>1
      <4>2. CASE tp # "nil"
        BY <2>1, <2>7, <4>2
      <4> QED BY <4>1, <4>2
    <3>2. Nil \in Plain
      BY <1>8 DEF Nil
    <3> HIDE DEF dd
    <3> QED BY <1>11, <3>1, <3>2
  <2> HIDE DEF dd
  <2> QED BY <2>2, <2>3, <2>4, <2>5, <2>6, <2>7
<1> QED BY <1>12, <1>13 DEF Fine

\* A loop over elements ends with an answer.
LEMMA ElementsType ==
    ASSUME NEW decode, NEW data \in Seq(Byte), Good(decode, Len(data)), NEW tp \in {"list", "map"},
           NEW count \in Nat
    PROVE  Elements(decode, tp, count, data) \in Loops(Len(data))
<1>1. PICK g \in Maps(Nat, Loops(Len(data))) : IsLoop(g, decode, tp, data)
  BY LoopExists
<1>2. Elements(decode, tp, count, data) = g[count]
  BY <1>1, ElementsAre
<1>3. g[count] \in Loops(Len(data))
  BY DEF Maps
<1> QED BY <1>2, <1>3

\* A decoder of fewer bytes is enough.
LEMMA GoodBelow ==
    ASSUME NEW decode, NEW m \in Int, NEW n \in Int, n <= m, Good(decode, m)
    PROVE  Good(decode, n)
<1> SUFFICES ASSUME NEW b \in Seq(Byte), Len(b) <= n
             PROVE  decode[b] \in Answers /\ Len(decode[b].rest) <= Len(b)
  BY DEF Good
<1>1. Len(b) \in Nat
  OBVIOUS
<1>2. Len(b) <= m
  BY <1>1
<1> QED BY <1>2 DEF Good

\* Decode answers if it does for fewer bytes.
LEMMA DecodeWithType ==
    ASSUME NEW bs \in Seq(Byte), NEW decode, Good(decode, Len(bs) - 1)
    PROVE  DecodeWith(decode, bs) \in Answers /\ Len(DecodeWith(decode, bs).rest) <= Len(bs)
<1> DEFINE Fine(a) == a \in Answers /\ Len(a.rest) <= Len(bs)
<1>1. ASSUME NEW v \in Universe, NEW r \in Seq(Byte), Len(r) <= Len(bs), NEW e \in {"none", "short", "empty"}
      PROVE  Fine(Decoded(e, v, r))
  BY <1>1 DEF Answers, Decoded
<1>2. Len(bs) \in Nat /\ Len(bs) <= Len(bs) /\ Nil \in Universe
  BY ValuesAre
<1>3. CASE bs = <<>>
  <2>1. DecodeWith(decode, bs) = Decoded("empty", Nil, bs)
    BY <1>3 DEF DecodeWith
  <2>2. Fine(Decoded("empty", Nil, bs))
    <3> HIDE DEF Fine
    <3> QED BY <1>1, <1>2
  <2> QED BY <2>1, <2>2
<1>4. ASSUME bs # <<>>, bs[1] < 128 PROVE Fine(DecodeWith(decode, bs))
  <2>1. DecodeWith(decode, bs) = Decoded("none", Num("int", bs[1]), Rest(bs, 1))
    BY <1>4 DEF DecodeWith
  <2>2. Num("int", bs[1]) \in Universe
    <3>1. bs[1] \in Byte
      BY <1>4
    <3>2. <<bs[1]>> \in Seq(Int)
      <4>1. bs[1] \in Nat
        BY <3>1, Bytes
      <4>2. \A m \in Nat : <<m>> \in Seq(Int)
        OBVIOUS
      <4> QED BY <4>1, <4>2
    <3>3. Num("int", bs[1]) \in Plain
      BY <3>2 DEF Plain, Num, Value
    <3> QED BY <3>3, UniverseIs
  <2>3. Rest(bs, 1) \in Seq(Byte) /\ Len(Rest(bs, 1)) <= Len(bs)
    BY RestType
  <2> HIDE DEF Fine
  <2> QED BY <1>1, <2>1, <2>2, <2>3
<1>5. ASSUME bs # <<>>, ~(bs[1] < 128) PROVE Fine(DecodeWith(decode, bs))
  <2> DEFINE size == LengthSize(bs[1])
             data == Rest(bs, 1 + size)
             tp == TypeOf(bs[1])
  <2>1. size \in Nat /\ (~(Len(bs) < 1 + size) => ElementCount(bs) \in Nat)
    BY <1>2, <1>5, Counts
  <2>2. data \in Seq(Byte) /\ Len(data) \in Nat /\ Len(data) <= Len(bs) - 1
    <3>1. 1 + size \in Nat /\ 1 + size >= 1
      BY <2>1
    <3>2. data \in Seq(Byte) /\ Len(data) < Len(bs)
      BY <1>5, <3>1, RestType
    <3>3. Len(data) \in Nat
      BY <3>2
    <3> QED BY <1>2, <3>2, <3>3
  <2>3. DecodeWith(decode, bs) =
          (IF Len(bs) < 1 + size THEN Decoded("short", Nil, bs)
           ELSE IF tp \in {"list", "map"} THEN Elements(decode, tp, ElementCount(bs), data)
           ELSE DecodeData(tp, data, ElementCount(bs), bs))
    BY <1>5 DEF DecodeWith
  <2> HIDE DEF data, tp
  <2>4. Fine(Decoded("short", Nil, bs))
    <3> HIDE DEF Fine
    <3> QED BY <1>1, <1>2
  <2>5. ASSUME tp \in {"list", "map"}, ~(Len(bs) < 1 + size)
        PROVE  Fine(Elements(decode, tp, ElementCount(bs), data))
    <3>1. Good(decode, Len(data))
      <4>1. Len(bs) - 1 \in Int /\ Len(data) \in Int
        BY <1>2, <2>2
      <4> QED BY <2>2, <4>1, GoodBelow
    <3>2. Elements(decode, tp, ElementCount(bs), data) \in Loops(Len(data))
      BY <2>1, <2>2, <2>5, <3>1, ElementsType
    <3>3. \A a \in Loops(Len(data)) : a \in Answers /\ Len(a.rest) \in Nat /\ Len(a.rest) <= Len(data)
      BY DEF Loops, Answers
    <3> QED BY <1>2, <2>2, <3>2, <3>3
  <2>6. ASSUME ~(Len(bs) < 1 + size)
        PROVE  Fine(DecodeData(tp, data, ElementCount(bs), bs))
    <3>1. Len(data) <= Len(bs) /\ ElementCount(bs) \in Nat
      BY <1>2, <2>1, <2>2, <2>6
    <3> QED BY <2>2, <3>1, DecodeDataType
  <2> HIDE DEF Fine, size
  <2> QED BY <2>3, <2>4, <2>5, <2>6
<1> QED BY <1>3, <1>4, <1>5

\* It is the same with a decoder that is the same for fewer bytes.
LEMMA DecodeWithAgrees ==
    ASSUME NEW bs \in Seq(Byte), NEW decode, NEW other,
           Good(decode, Len(bs) - 1), Agree(decode, other, Len(bs) - 1)
    PROVE  DecodeWith(decode, bs) = DecodeWith(other, bs)
<1> DEFINE size == LengthSize(bs[1])
           data == Rest(bs, 1 + size)
           tp == TypeOf(bs[1])
<1>1. ASSUME bs # <<>>, ~(bs[1] < 128), ~(Len(bs) < 1 + size), tp \in {"list", "map"}
      PROVE  Elements(decode, tp, ElementCount(bs), data) = Elements(other, tp, ElementCount(bs), data)
  <2>1. size \in Nat
    BY <1>1, Counts
  <2>2. data \in Seq(Byte) /\ Len(data) \in Nat /\ Len(bs) \in Nat /\ Len(data) <= Len(bs) - 1
    <3>1. 1 + size \in Nat /\ 1 + size >= 1
      BY <2>1
    <3>2. data \in Seq(Byte) /\ Len(data) < Len(bs)
      BY <1>1, <3>1, RestType
    <3>3. Len(data) \in Nat /\ Len(bs) \in Nat
      BY <3>2
    <3> QED BY <3>2, <3>3
  <2> HIDE DEF data, tp
  <2>3. Good(decode, Len(data))
    <3>1. Len(bs) - 1 \in Int /\ Len(data) \in Int
      BY <2>2
    <3> QED BY <2>2, <3>1, GoodBelow
  <2>4. Agree(decode, other, Len(data))
    <3> SUFFICES ASSUME NEW b \in Seq(Byte), Len(b) <= Len(data) PROVE decode[b] = other[b]
      BY DEF Agree
    <3>1. Len(b) \in Nat
      OBVIOUS
    <3>2. Len(b) <= Len(bs) - 1
      BY <2>2, <3>1
    <3> QED BY <3>2 DEF Agree
  <2>5. PICK g \in Maps(Nat, Loops(Len(data))) : IsLoop(g, decode, tp, data)
    BY <1>1, <2>2, <2>3, LoopExists
  <2>6. IsLoop(g, other, tp, data)
    BY <2>2, <2>3, <2>4, <2>5, LoopAgrees
  <2>7. /\ Elements(decode, tp, ElementCount(bs), data) = g[ElementCount(bs)]
        /\ Elements(other, tp, ElementCount(bs), data) = g[ElementCount(bs)]
    BY <2>5, <2>6, ElementsAre
  <2> QED BY <2>7
<1> QED BY <1>1 DEF DecodeWith

\* A decoder that answers whenever it does for fewer bytes always answers.
LEMMA GoodFrom ==
    ASSUME NEW f,
           \A b \in Seq(Byte) : Good(f, Len(b) - 1) => f[b] \in Answers /\ Len(f[b].rest) <= Len(b)
    PROVE  \A n \in Nat : Good(f, n - 1)
<1> DEFINE Bad == {n \in Nat : ~Good(f, n - 1)}
<1>1. SUFFICES ASSUME Bad # {} PROVE FALSE
  OBVIOUS
<1>2. PICK n \in Bad : \A m \in Bad : n <= m
  <2>1. Bad \subseteq Nat
    OBVIOUS
  <2> HIDE DEF Bad
  <2> QED BY <1>1, <2>1, LeastOf
<1>3. n \in Nat /\ ~Good(f, n - 1)
  BY <1>2
<1>4. PICK b \in Seq(Byte) : Len(b) <= n - 1 /\ ~(f[b] \in Answers /\ Len(f[b].rest) <= Len(b))
  BY <1>3 DEF Good
<1>5. Len(b) \in Nat /\ ~(n <= Len(b))
  <2>1. Len(b) \in Nat
    OBVIOUS
  <2> QED BY <1>3, <1>4, <2>1
<1>6. Len(b) \notin Bad
  <2> HIDE DEF Bad
  <2> QED BY <1>2, <1>5
<1>7. Good(f, Len(b) - 1)
  BY <1>5, <1>6
<1> QED BY <1>4, <1>7

\* f is what Decode evaluates.
IsDecode(f) == f = [bs \in Seq(Byte) |-> DecodeWith(f, bs)]

\* A solution of the recursive definition of Decode exists.
LEMMA DecodeExists == \E f : IsDecode(f)
<1> DEFINE D == Seq(Byte)
           V == Answers
           rank == [b \in D |-> Len(b)]
           comb == [p \in D \X Maps(D, V) |->
                      IF Good(p[2], Len(p[1]) - 1) THEN DecodeWith(p[2], p[1]) ELSE Panic]
<1>1. Panic \in V
  <2>1. <<>> \in Seq(Byte)
    OBVIOUS
  <2> QED BY <2>1, ValuesAre DEF Panic, Decoded, Answers
<1>2. \A b \in D : \A f \in Maps(D, V) :
        comb[<<b, f>>] = (IF Good(f, Len(b) - 1) THEN DecodeWith(f, b) ELSE Panic)
  <2> SUFFICES ASSUME NEW b \in D, NEW f \in Maps(D, V)
               PROVE  comb[<<b, f>>] = (IF Good(f, Len(b) - 1) THEN DecodeWith(f, b) ELSE Panic)
    OBVIOUS
  <2> DEFINE p == <<b, f>>
  <2>1. p \in D \X Maps(D, V) /\ p[1] = b /\ p[2] = f
    OBVIOUS
  <2> HIDE DEF p, D, V
  <2>2. comb[p] = IF Good(p[2], Len(p[1]) - 1) THEN DecodeWith(p[2], p[1]) ELSE Panic
    BY <2>1
  <2> HIDE DEF comb
  <2> QED BY <2>1, <2>2 DEF p
<1>3. rank \in Maps(D, Nat) /\ comb \in Maps(D \X Maps(D, V), V)
  <2>1. rank \in Maps(D, Nat)
    BY DEF Maps
  <2>2. \A p \in D \X Maps(D, V) : comb[p] \in V
    <3> SUFFICES ASSUME NEW p \in D \X Maps(D, V) PROVE comb[p] \in V
      OBVIOUS
    <3>1. p[1] \in D /\ p[2] \in Maps(D, V) /\ p = <<p[1], p[2]>>
      OBVIOUS
    <3>2. Good(p[2], Len(p[1]) - 1) => DecodeWith(p[2], p[1]) \in V
      <4>1. p[1] \in Seq(Byte)
        BY <3>1
      <4> QED BY <4>1, DecodeWithType
    <3> HIDE DEF comb, D, V
    <3> QED BY <1>1, <1>2, <3>1, <3>2
  <2>3. comb \in [D \X Maps(D, V) -> V]
    <3>1. comb = [p \in D \X Maps(D, V) |-> comb[p]]
      OBVIOUS
    <3> HIDE DEF comb, D, V
    <3> QED BY <2>2, <3>1
  <2> HIDE DEF comb, D, V, rank
  <2> QED BY <2>1, <2>3 DEF Maps
<1>4. \A b \in D : rank[b] = Len(b) /\ rank[b] \in Nat
  OBVIOUS
<1> HIDE DEF rank, comb, V
<1>5. PICK f \in Maps(D, V) : SolvesAll(f, D, rank, Panic, comb)
  BY <1>1, <1>3, WellFounded
<1> DEFINE low(b) == Below(f, D, rank, b, Panic)
<1>6. \A b \in D : f[b] = comb[<<b, low(b)>>] /\ low(b) \in Maps(D, V)
  BY <1>1, <1>5 DEF SolvesAll, Below, Maps
<1>7. \A b \in D : Agree(low(b), f, Len(b) - 1)
  <2> SUFFICES ASSUME NEW b \in D, NEW c \in Seq(Byte), Len(c) <= Len(b) - 1
               PROVE  low(b)[c] = f[c]
    BY DEF Agree
  <2>1. Len(c) \in Nat /\ Len(b) \in Nat
    OBVIOUS
  <2>2. rank[c] < rank[b]
    BY <1>4, <2>1
  <2> QED BY <2>2 DEF Below
<1> HIDE DEF low
<1>8. \A g, h : \A m \in Int : Good(g, m) /\ Agree(g, h, m) => Good(h, m)
  BY DEF Good, Agree
<1>8a. \A g, h : \A m \in Int : Good(h, m) /\ Agree(g, h, m) => Good(g, m)
  BY DEF Good, Agree
<1>9. \A b \in D : f[b] = (IF Good(f, Len(b) - 1) THEN DecodeWith(f, b) ELSE Panic)
  <2> SUFFICES ASSUME NEW b \in D
               PROVE  f[b] = (IF Good(f, Len(b) - 1) THEN DecodeWith(f, b) ELSE Panic)
    OBVIOUS
  <2>1. Len(b) - 1 \in Int
    OBVIOUS
  <2>2. f[b] = IF Good(low(b), Len(b) - 1) THEN DecodeWith(low(b), b) ELSE Panic
    BY <1>2, <1>6
  <2>3. Good(low(b), Len(b) - 1) <=> Good(f, Len(b) - 1)
    BY <1>7, <1>8, <1>8a, <2>1
  <2>4. Good(low(b), Len(b) - 1) => DecodeWith(low(b), b) = DecodeWith(f, b)
    BY <1>7, DecodeWithAgrees
  <2> QED BY <2>2, <2>3, <2>4
<1>10. \A n \in Nat : Good(f, n - 1)
  <2>1. \A b \in Seq(Byte) : Good(f, Len(b) - 1) => f[b] \in Answers /\ Len(f[b].rest) <= Len(b)
    <3> SUFFICES ASSUME NEW b \in Seq(Byte), Good(f, Len(b) - 1)
                 PROVE  f[b] \in Answers /\ Len(f[b].rest) <= Len(b)
      OBVIOUS
    <3>1. f[b] = DecodeWith(f, b)
      BY <1>9
    <3> QED BY <3>1, DecodeWithType
  <2> QED BY <2>1, GoodFrom
<1>11. \A b \in D : f[b] = DecodeWith(f, b)
  <2> SUFFICES ASSUME NEW b \in D PROVE f[b] = DecodeWith(f, b)
    OBVIOUS
  <2>1. Len(b) \in Nat
    OBVIOUS
  <2> QED BY <1>9, <1>10, <2>1
<1>12. f = [b \in D |-> f[b]]
  BY DEF Maps
<1>13. IsDecode(f)
  BY <1>11, <1>12 DEF IsDecode
<1> QED BY <1>13

\* Decode is what its definition says, and it answers: it never leaves more than it is given.
THEOREM DecodeAnswers ==
    /\ \A b \in Seq(Byte) : Decode[b] = DecodeWith(Decode, b)
    /\ \A b \in Seq(Byte) : Decode[b] \in Answers /\ Len(Decode[b].rest) <= Len(b)
    /\ \A m \in Nat : Good(Decode, m)
<1>1. IsDecode(Decode)
  <2> DEFINE f == CHOOSE h : IsDecode(h)
  <2>1. IsDecode(f)
    BY DecodeExists
  <2>2. Decode = f
    BY DEF Decode, IsDecode
  <2> HIDE DEF f
  <2> QED BY <2>1, <2>2
<1>2. \A b \in Seq(Byte) : Decode[b] = DecodeWith(Decode, b)
  <2> DEFINE f == Decode
  <2>1. IsDecode(f)
    BY <1>1
  <2> HIDE DEF f
  <2>2. \A b \in Seq(Byte) : f[b] = DecodeWith(f, b)
    BY <2>1 DEF IsDecode
  <2> QED BY <2>2 DEF f
<1>3. \A b \in Seq(Byte) : Good(Decode, Len(b) - 1) => Decode[b] \in Answers /\ Len(Decode[b].rest) <= Len(b)
  BY <1>2, DecodeWithType
<1>4. \A n \in Nat : Good(Decode, n - 1)
  BY <1>3, GoodFrom
<1>5. \A b \in Seq(Byte) : Len(b) \in Nat
  OBVIOUS
<1>6. \A b \in Seq(Byte) : Decode[b] \in Answers /\ Len(Decode[b].rest) <= Len(b)
  BY <1>3, <1>4, <1>5
<1> QED BY <1>2, <1>6 DEF Good

-----------------------------------------------------------------------------
(* What Encode makes of a value *)

\* The types of the format, by name.
LEMMA TypesAre ==
    ToSet(Types) = {"int8", "uint8", "int16", "uint16", "int32", "uint32", "int64", "uint64",
                    "float32", "float64", "nil", "true", "false", "string", "bytes", "map", "list",
                    "bigNumber", "reserved"}
<1>1. /\ DOMAIN Types = 1..19
      /\ Types[1] = "int8" /\ Types[2] = "uint8" /\ Types[3] = "int16" /\ Types[4] = "uint16"
      /\ Types[5] = "int32" /\ Types[6] = "uint32" /\ Types[7] = "int64" /\ Types[8] = "uint64"
      /\ Types[9] = "float32" /\ Types[10] = "float64" /\ Types[11] = "nil" /\ Types[12] = "true"
      /\ Types[13] = "false" /\ Types[14] = "string" /\ Types[15] = "bytes" /\ Types[16] = "map"
      /\ Types[17] = "list" /\ Types[18] = "bigNumber" /\ Types[19] = "reserved"
  BY DEF Types
<1>2. ToSet(Types) = {Types[i] : i \in 1..19}
  BY <1>1 DEF ToSet
<1> HIDE DEF Types
<1>3. ASSUME NEW i \in 1..19 PROVE i \in {1, 2, 3, 4, 5, 6, 7, 8, 9, 10, 11, 12, 13, 14, 15, 16, 17, 18, 19}
  OBVIOUS
<1>4. {1, 2, 3, 4, 5, 6, 7, 8, 9, 10, 11, 12, 13, 14, 15, 16, 17, 18, 19} = 1..19
  OBVIOUS
<1>5. ToSet(Types) = {Types[i] : i \in {1, 2, 3, 4, 5, 6, 7, 8, 9, 10, 11, 12, 13, 14, 15, 16, 17, 18, 19}}
  BY <1>2, <1>4
<1> QED BY <1>1, <1>5

\* A header is read as it was made.
LEMMA Headers ==
    ASSUME NEW tp \in ToSet(Types), NEW s \in 0..3
    PROVE  /\ Header(tp, s) \in 128..255 /\ Header(tp, s) \in Byte
           /\ TypeOf(Header(tp, s)) = tp
           /\ LengthSize(Header(tp, s)) = <<0, 1, 2, 4>>[s + 1]
<1> DEFINE i == CHOOSE j \in DOMAIN Types : Types[j] = tp
           h == Header(tp, s)
<1>1. i \in DOMAIN Types /\ Types[i] = tp
  BY DEF ToSet
<1>2. DOMAIN Types = 1..19
  BY DEF Types
<1>3. h = 128 + 32 * s + i
  BY DEF Header
<1>4. i \in 1..19
  BY <1>1, <1>2
<1> HIDE DEF i, h
<1>5. h \in 128..255 /\ h % 32 = i /\ (h \div 32) % 4 = s
  BY <1>3, <1>4
<1>6. TypeOf(h) = tp
  BY <1>1, <1>5 DEF TypeOf
<1>7. LengthSize(h) = <<0, 1, 2, 4>>[s + 1]
  BY <1>5 DEF LengthSize
<1> QED BY <1>5, <1>6, <1>7 DEF h, Byte

\* A value of the program, by its kind.
LEMMA DataAre ==
    ASSUME NEW x \in Data
    PROVE  /\ x = Value(x.k, x.v)
           /\ \/ x.k \in IntKinds \cup FloatKinds
              \/ x.k \in {"nil", "true", "false", "typed", "struct", "string", "bytes", "list", "map"}
           /\ x.k \in IntKinds =>
                x.v = <<x.v[1]>> /\ x.v[1] \in Int /\ Convert(x.k, x.v[1]) = x.v[1]
           /\ x.k \in FloatKinds => x.v = <<x.v[1]>> /\ x.v[1] \in 0..(Power(Width(x.k)) - 1)
           /\ x.k \in {"nil", "true", "false", "typed", "struct"} => x.v = <<>>
           /\ x.k \in {"string", "bytes"} => x.v \in Seq(Byte)
           /\ x.k = "list" => x.v \in Seq(Data) /\ \A i \in DOMAIN x.v : Depth[x.v[i]] < Depth[x]
           /\ x.k = "map" =>
                /\ x.v \in Seq([key : Data, val : Data])
                /\ \A i \in DOMAIN x.v : /\ Hashable(x.v[i].key)
                                         /\ Depth[x.v[i].key] < Depth[x]
                                         /\ Depth[x.v[i].val] < Depth[x]
<1>1. IsValue(x)
  BY CodecAssumption
<1> DEFINE list == x.v \in Seq(Data) /\ \A i \in DOMAIN x.v : Depth[x.v[i]] < Depth[x]
           map == /\ x.v \in Seq([key : Data, val : Data])
                  /\ \A i \in DOMAIN x.v : /\ Hashable(x.v[i].key)
                                           /\ Depth[x.v[i].key] < Depth[x]
                                           /\ Depth[x.v[i].val] < Depth[x]
           int == x.v = <<x.v[1]>> /\ x.v[1] \in Int /\ Convert(x.k, x.v[1]) = x.v[1]
           float == x.v = <<x.v[1]>> /\ x.v[1] \in 0..(Power(Width(x.k)) - 1)
           plain == x.v = <<>>
           bytes == x.v \in Seq(Byte)
<1>2. /\ x = Value(x.k, x.v)
      /\ CASE x.k \in IntKinds -> int
           [] x.k \in FloatKinds -> float
           [] x.k \in {"nil", "true", "false", "typed", "struct"} -> plain
           [] x.k \in {"string", "bytes"} -> bytes
           [] x.k = "list" -> list
           [] x.k = "map" -> map
           [] OTHER -> FALSE
  BY <1>1, Zenon DEF IsValue
<1> HIDE DEF list, map, int, float, plain, bytes
<1>3. /\ \/ x.k \in IntKinds \cup FloatKinds
         \/ x.k \in {"nil", "true", "false", "typed", "struct", "string", "bytes", "list", "map"}
      /\ x.k \in IntKinds => int
      /\ x.k \in FloatKinds => float
      /\ x.k \in {"nil", "true", "false", "typed", "struct"} => plain
      /\ x.k \in {"string", "bytes"} => bytes
      /\ x.k = "list" => list
      /\ x.k = "map" => map
  BY <1>2, KindsAre DEF FloatKinds
<1> QED BY <1>2, <1>3, Zenon DEF list, map, int, float, plain, bytes

\* The header hd announces n bytes, elements or entries of the type tp.
Frames(hd, tp, n) ==
    /\ hd \in Seq(Byte) /\ hd # <<>> /\ hd[1] \in 128..255
    /\ Len(hd) = 1 + LengthSize(hd[1]) /\ TypeOf(hd[1]) = tp
    /\ \A b \in Seq(Byte) : ElementCount(hd \o b) = n

\* The first byte of what begins with others.
LEMMA FirstOf ==
    ASSUME NEW c \in Seq(Byte), c # <<>>, NEW d \in Seq(Byte)
    PROVE  c \o d \in Seq(Byte) /\ c \o d # <<>> /\ (c \o d)[1] = c[1] /\ Len(c \o d) = Len(c) + Len(d)
OBVIOUS

\* A header without a length announces the size of its type.
LEMMA FramesPlain ==
    ASSUME NEW tp \in ToSet(Types)
    PROVE  Frames(<<Header(tp, 0)>>, tp, TypeSize(tp))
<1> DEFINE h == Header(tp, 0)
           hd == <<h>>
<1>1. h \in 128..255 /\ h \in Byte /\ TypeOf(h) = tp /\ LengthSize(h) = 0
  <2>1. 0 \in 0..3 /\ <<0, 1, 2, 4>>[0 + 1] = 0
    OBVIOUS
  <2> QED BY <2>1, Headers
<1> HIDE DEF h
<1>2. hd \in Seq(Byte) /\ hd # <<>> /\ hd[1] = h /\ Len(hd) = 1
  BY <1>1
<1> HIDE DEF hd
<1>3. ASSUME NEW b \in Seq(Byte) PROVE ElementCount(hd \o b) = TypeSize(tp)
  <2>1. (hd \o b)[1] = h
    BY <1>2, FirstOf
  <2> QED BY <1>1, <2>1 DEF ElementCount
<1> QED BY <1>1, <1>2, <1>3 DEF Frames, h, hd

\* A number that fits is not changed by its width.
LEMMA Fits ==
    ASSUME NEW w \in {1, 2, 4, 8}, NEW n \in Nat, n < Power(w)
    PROVE  n % Power(w) = n
<1> DEFINE S == Power(w)
<1>1. S \in Nat \ {0}
  BY Powers
<1> HIDE DEF S
<1>2. n \in 0..(S - 1) /\ 0 \in Int /\ n = S * 0 + n /\ n \in Int
  BY <1>1 DEF S
<1>3. n % S = n
  BY <1>1, <1>2, Remainder
<1> QED BY <1>3 DEF S

\* A header and a length of w bytes.
LEMMA OneLength ==
    ASSUME NEW tp \in ToSet(Types), NEW s \in 1..3, NEW w \in {1, 2, 4}, w = <<0, 1, 2, 4>>[s + 1], NEW n \in Nat
    PROVE  /\ <<Header(tp, s)>> \o Digits(n, w) \in Seq(Byte) /\ <<Header(tp, s)>> \o Digits(n, w) # <<>>
           /\ n < Power(w) => Frames(<<Header(tp, s)>> \o Digits(n, w), tp, n)
<1> DEFINE h == Header(tp, s)
           d == Digits(n, w)
           hd == <<h>> \o d
<1>1. h \in 128..255 /\ h \in Byte /\ TypeOf(h) = tp /\ LengthSize(h) = w
  <2>1. s \in 0..3
    OBVIOUS
  <2> QED BY <2>1, Headers
<1>2. d \in Seq(Byte) /\ Len(d) = w
      /\ \A b, i : i \in Int /\ Spells(b, i, d) => NumberAt(b, i, w) = n % Power(w)
  <2>1. w \in {1, 2, 4, 8} /\ n \in Int
    OBVIOUS
  <2> QED BY <2>1, DigitsAre
<1> HIDE DEF h, d
<1>3. hd \in Seq(Byte) /\ hd # <<>> /\ hd[1] = h /\ Len(hd) = 1 + w
      /\ \A j \in 1..w : hd[1 + j] = d[j]
  BY <1>1, <1>2
<1> HIDE DEF hd
<1>4. ASSUME n < Power(w), NEW b \in Seq(Byte) PROVE ElementCount(hd \o b) = n
  <2> DEFINE c == hd \o b
  <2>1. c[1] = h /\ Len(hd) \in Nat /\ Len(hd) = 1 + w
    BY <1>3, FirstOf
  <2>2. Spells(c, 2, d)
    <3> SUFFICES ASSUME NEW j \in 1..Len(d) PROVE c[2 + j - 1] = d[j]
      BY DEF Spells
    <3>1. j \in 1..w /\ 1 + j \in 1..Len(hd) /\ 2 + j - 1 = 1 + j
      BY <1>2, <2>1
    <3>2. \A k \in 1..Len(hd) : c[k] = hd[k]
      <4>1. hd \in Seq(Byte)
        BY <1>3
      <4> QED BY <4>1
    <3>3. c[1 + j] = hd[1 + j] /\ hd[1 + j] = d[j]
      BY <1>3, <3>1, <3>2
    <3> QED BY <3>1, <3>3
  <2>3. NumberAt(c, 2, w) = n % Power(w)
    BY <1>2, <2>2
  <2>4. n % Power(w) = n
    BY <1>4, Fits
  <2> HIDE DEF c
  <2>5. ElementCount(c) = NumberAt(c, 2, w)
    BY <1>1, <2>1 DEF ElementCount
  <2> QED BY <2>3, <2>4, <2>5 DEF c
<1>5. n < Power(w) => Frames(hd, tp, n)
  BY <1>1, <1>3, <1>4 DEF Frames
<1> QED BY <1>3, <1>5 DEF hd, h, d

\* A header with a length announces it, in as few bytes as there are for it.
LEMMA FramesLength ==
    ASSUME NEW tp \in ToSet(Types), NEW n \in Nat
    PROVE  /\ HeaderAndLength(tp, n) \in Seq(Byte) /\ HeaderAndLength(tp, n) # <<>>
           /\ n < Power(4) => Frames(HeaderAndLength(tp, n), tp, n)
<1>1. CASE n < Radix
  <2>1. 1 \in 1..3 /\ 1 \in {1, 2, 4} /\ 1 = <<0, 1, 2, 4>>[1 + 1]
    OBVIOUS
  <2>2. HeaderAndLength(tp, n) = <<Header(tp, 1)>> \o Digits(n, 1) /\ n < Power(1)
    BY <1>1, Powers DEF HeaderAndLength
  <2> QED BY <2>1, <2>2, OneLength
<1>2. CASE ~(n < Radix) /\ n < Power(2)
  <2>1. 2 \in 1..3 /\ 2 \in {1, 2, 4} /\ 2 = <<0, 1, 2, 4>>[2 + 1]
    OBVIOUS
  <2>2. HeaderAndLength(tp, n) = <<Header(tp, 2)>> \o Digits(n, 2)
    BY <1>2 DEF HeaderAndLength
  <2> QED BY <1>2, <2>1, <2>2, OneLength
<1>3. CASE ~(n < Radix) /\ ~(n < Power(2))
  <2>1. 3 \in 1..3 /\ 4 \in {1, 2, 4} /\ 4 = <<0, 1, 2, 4>>[3 + 1]
    OBVIOUS
  <2>2. HeaderAndLength(tp, n) = <<Header(tp, 3)>> \o Digits(n, 4)
    BY <1>3 DEF HeaderAndLength
  <2> QED BY <2>1, <2>2, OneLength
<1> QED BY <1>1, <1>2, <1>3

\* The fewest bytes that hold a number of at most 8.
LEMMA SmallestIs ==
    ASSUME NEW n \in Int, -(Power(8) \div 2) <= n, n < Power(8)
    PROVE  Smallest(n) \in {1, 2, 4, 8} /\ n \in (-(Power(Smallest(n)) \div 2))..(Power(Smallest(n)) - 1)
<1> DEFINE In(w) == n \in (-(Power(w) \div 2))..(Power(w) - 1)
           Least(w) == In(w) /\ \A x \in {1, 2, 4, 8} : x < w => ~In(x)
<1>1. In(8)
  BY Powers, Halves
<1> HIDE DEF In
<1>2. \E w \in {1, 2, 4, 8} : Least(w)
  <2>1. CASE In(1)
    BY <2>1
  <2>2. CASE ~In(1) /\ In(2)
    BY <2>2
  <2>3. CASE ~In(1) /\ ~In(2) /\ In(4)
    BY <2>3
  <2>4. CASE ~In(1) /\ ~In(2) /\ ~In(4)
    BY <1>1, <2>4
  <2> QED BY <2>1, <2>2, <2>3, <2>4
<1>3. Smallest(n) = CHOOSE w \in {1, 2, 4, 8} : Least(w)
  BY DEF Smallest, In
<1>4. Smallest(n) \in {1, 2, 4, 8} /\ Least(Smallest(n))
  <2> HIDE DEF Least
  <2> QED BY <1>2, <1>3
<1> QED BY <1>4 DEF In

\* The type of numbers of w bytes.
LEMMA IntTypeIs ==
    ASSUME NEW w \in {1, 2, 4, 8}, NEW signed \in BOOLEAN
    PROVE  /\ IntType(signed, w) \in ToSet(Types) \cap IntKinds /\ Width(IntType(signed, w)) = w
           /\ IntType(signed, w) \in SignedKinds <=> signed
<1> DEFINE is(t) == Width(t) = w /\ (t \in SignedKinds <=> signed)
<1>1. \E t \in ToSet(Types) \cap IntKinds : is(t)
  <2>1. /\ Width("int8") = 1 /\ Width("uint8") = 1 /\ Width("int16") = 2 /\ Width("uint16") = 2
        /\ Width("int32") = 4 /\ Width("uint32") = 4 /\ Width("int64") = 8 /\ Width("uint64") = 8
    BY DEF Width
  <2>2. {"int8", "uint8", "int16", "uint16", "int32", "uint32", "int64", "uint64"} \subseteq ToSet(Types) \cap IntKinds
    BY TypesAre, KindsAre
  <2>3. /\ "int8" \in SignedKinds /\ "int16" \in SignedKinds /\ "int32" \in SignedKinds
        /\ "int64" \in SignedKinds /\ "uint8" \notin SignedKinds /\ "uint16" \notin SignedKinds
        /\ "uint32" \notin SignedKinds /\ "uint64" \notin SignedKinds
    BY KindsAre
  <2>4. CASE signed
    BY <2>1, <2>2, <2>3, <2>4
  <2>5. CASE ~signed
    BY <2>1, <2>2, <2>3, <2>5
  <2> QED BY <2>4, <2>5
<1>2. IntType(signed, w) = CHOOSE t \in ToSet(Types) \cap IntKinds : is(t)
  BY Zenon DEF IntType
<1> HIDE DEF is
<1>3. IntType(signed, w) \in ToSet(Types) \cap IntKinds /\ is(IntType(signed, w))
  BY <1>1, <1>2
<1> QED BY <1>3 DEF is

\* A number that its kind holds is one of at most 8 bytes.
LEMMA Bounds ==
    ASSUME NEW k \in IntKinds, NEW n \in Int, Convert(k, n) = n
    PROVE  -(Power(8) \div 2) <= n /\ n < Power(8)
<1> DEFINE w == Width(k)
           P == Power(w)
           H == Power(w) \div 2
           u == n % P
<1>1. w \in {1, 2, 4, 8}
  BY Widths
<1>2. P \in Nat \ {0} /\ H \in Nat /\ P = 2 * H /\ Power(8) \in Nat /\ Power(8) \div 2 \in Nat
      /\ Power(8) = 2 * (Power(8) \div 2)
  <2>1. P \in Nat \ {0} /\ Power(8) \in Nat
    <3>1. \A v \in {1, 2, 4, 8} : Power(v) \in Nat \ {0}
      BY Powers
    <3> QED BY <1>1, <3>1
  <2>2. \A v \in {1, 2, 4, 8} : Power(v) \div 2 \in Nat \ {0} /\ Power(v) = 2 * (Power(v) \div 2)
    BY Halves
  <2> QED BY <1>1, <2>1, <2>2
<1>3. P <= Power(8)
  <2>1. \A s \in Nat : s >= 2 => s * s >= s
    <3> SUFFICES ASSUME NEW s \in Nat, s >= 2 PROVE s * s >= s
      OBVIOUS
    <3>1. s * s >= 2 * s
      OBVIOUS
    <3> QED BY <3>1
  <2>2. /\ Power(1) \in Nat /\ Power(2) \in Nat /\ Power(4) \in Nat /\ Power(8) \in Nat
        /\ Power(2) >= Power(1) /\ Power(4) >= Power(2) /\ Power(8) >= Power(4)
    BY <2>1, Powers
  <2> QED BY <1>1, <2>2
<1>4. u \in 0..(P - 1)
  <2> HIDE DEF P
  <2> QED BY <1>2, Division
<1>5. n = u \/ (n = u - P /\ u >= H)
  <2>1. Sign(n, w) = IF u < H THEN u ELSE u - P
    BY DEF Sign, Unsign
  <2>2. Unsign(n, w) = u
    BY DEF Unsign
  <2>3. n = Sign(n, w) \/ n = Unsign(n, w)
    BY DEF Convert
  <2> HIDE DEF u, P, H, w
  <2> QED BY <1>2, <1>4, <2>1, <2>2, <2>3
<1> HIDE DEF u, P, H, w
<1> QED BY <1>2, <1>3, <1>4, <1>5

\* A number is sent as itself, or as a header and its digits.
LEMMA EncodeIntType ==
    ASSUME NEW n \in Int, -(Power(8) \div 2) <= n, n < Power(8)
    PROVE  EncodeInt(n) \in Seq(Byte) /\ EncodeInt(n) # <<>>
<1>1. CASE n \in 0..(Radix \div 2 - 1)
  <2>1. n \in Byte
    <3>1. Radix \div 2 \in 1..128
      BY Powers
    <3> HIDE DEF Byte
    <3>2. n \in 0..255
      BY <1>1, <3>1
    <3> QED BY <3>2 DEF Byte
  <2> QED BY <1>1, <2>1 DEF EncodeInt
<1>2. CASE n \notin 0..(Radix \div 2 - 1)
  <2> DEFINE h == Header(IntType(n < 0, Smallest(n)), 0)
             d == Digits(n, Smallest(n))
  <2>1. Smallest(n) \in {1, 2, 4, 8}
    BY SmallestIs
  <2>2. d \in Seq(Byte)
    BY <2>1, DigitsAre
  <2>3. h \in Byte
    <3>1. IntType(n < 0, Smallest(n)) \in ToSet(Types)
      <4>1. (n < 0) \in BOOLEAN
        OBVIOUS
      <4> QED BY <2>1, <4>1, IntTypeIs
    <3>2. 0 \in 0..3
      OBVIOUS
    <3> QED BY <3>1, <3>2, Headers
  <2>4. EncodeInt(n) = <<h>> \o d
    BY <1>2 DEF EncodeInt
  <2> HIDE DEF h, d
  <2> QED BY <2>2, <2>3, <2>4
<1> QED BY <1>1, <1>2

\* Bits are sent with a header and their digits.
LEMMA EncodeFloatType ==
    ASSUME NEW n \in Nat
    PROVE  EncodeFloat(n) \in Seq(Byte)
<1>1. Header("float32", 0) \in Byte /\ Header("float64", 0) \in Byte
  <2>1. 0 \in 0..3 /\ "float32" \in ToSet(Types) /\ "float64" \in ToSet(Types)
    BY TypesAre
  <2> QED BY <2>1, Headers
<1>2. Digits(n, 4) \in Seq(Byte) /\ Digits(n, 8) \in Seq(Byte)
  <2>1. n \in Int
    OBVIOUS
  <2> QED BY <2>1, DigitsAre
<1> QED BY <1>1, <1>2 DEF EncodeFloat

\* t is s without some of its elements: h says which are left.
Leaves(t, s, h) ==
    /\ h \in [1..Len(t) -> 1..Len(s)]
    /\ \A i \in 1..Len(t) : t[i] = s[h[i]]
    /\ \A i, j \in 1..Len(t) : i < j => h[i] < h[j]

\* The elements of s that are in K.
Filter(s, K) == FlattenSeq([i \in DOMAIN s |-> IF s[i] \in K THEN <<s[i]>> ELSE <<>>])

\* What is left of a sequence.
LEMMA FilterIs ==
    ASSUME NEW T, NEW s \in Seq(T), NEW K
    PROVE  /\ Filter(s, K) \in Seq(T \cap K) /\ Len(Filter(s, K)) <= Len(s)
           /\ \E h : Leaves(Filter(s, K), s, h)
<1> DEFINE n == Len(s)
           e == [i \in 1..n |-> IF s[i] \in K THEN <<s[i]>> ELSE <<>>]
           F(l) == Flat(e, l)
           Which(h, l) == /\ h \in [1..Len(F(l)) -> 1..l]
                          /\ \A i \in 1..Len(F(l)) : F(l)[i] = s[h[i]]
                          /\ \A i, j \in 1..Len(F(l)) : i < j => h[i] < h[j]
           Fine(l) == Len(F(l)) <= l /\ \E h : Which(h, l)
<1>1. n \in Nat /\ DOMAIN s = 1..n /\ \A i \in 1..n : s[i] \in T
  OBVIOUS
<1>2. e \in Family(T \cap K, n)
  <2> SUFFICES ASSUME NEW i \in 1..n PROVE (IF s[i] \in K THEN <<s[i]>> ELSE <<>>) \in Seq(T \cap K)
    BY DEF Family
  <2> DEFINE U == T \cap K
  <2>1. s[i] \in K => s[i] \in U
    BY <1>1
  <2> HIDE DEF U
  <2>2. <<>> \in Seq(U) /\ \A x \in U : <<x>> \in Seq(U)
    OBVIOUS
  <2>3. (IF s[i] \in K THEN <<s[i]>> ELSE <<>>) \in Seq(U)
    BY <2>1, <2>2
  <2> QED BY <2>3 DEF U
<1>3. Filter(s, K) = F(n)
  BY <1>1 DEF Filter, Flat
<1>4. \A i \in 1..n : e[i] = IF s[i] \in K THEN <<s[i]>> ELSE <<>>
  OBVIOUS
<1> HIDE DEF e, n
<1>5. /\ F(0) = <<>>
      /\ \A l \in 0..n : F(l) \in Seq(T \cap K)
      /\ \A l \in 1..n : F(l) = F(l - 1) \o e[l]
  BY <1>1, <1>2, FlattenNext
<1> HIDE DEF F
<1>6. Fine(0)
  <2>1. Len(F(0)) = 0
    BY <1>5
  <2>2. Which([i \in 1..0 |-> 0], 0)
    BY <2>1
  <2> HIDE DEF Which
  <2> QED BY <2>1, <2>2
<1>7. ASSUME NEW l \in 1..n, Fine(l - 1) PROVE Fine(l)
  <2>1. PICK h : Which(h, l - 1)
    BY <1>7
  <2> DEFINE a == F(l - 1)
             b == F(l)
  <2>2. l \in Nat /\ l - 1 \in 0..n /\ a \in Seq(T \cap K) /\ b = a \o e[l] /\ Len(a) \in Nat /\ Len(a) <= l - 1
    <3>1. l \in Nat /\ l - 1 \in 0..n
      BY <1>1
    <3>2. a \in Seq(T \cap K) /\ b = a \o e[l]
      BY <1>5, <3>1
    <3>3. Len(a) \in Nat
      BY <3>2
    <3> QED BY <1>7, <3>1, <3>2, <3>3
  <2>3. /\ h \in [1..Len(a) -> 1..(l - 1)]
        /\ \A i \in 1..Len(a) : a[i] = s[h[i]]
        /\ \A i, j \in 1..Len(a) : i < j => h[i] < h[j]
    BY <2>1
  <2>4. ASSUME s[l] \notin K PROVE Fine(l)
    <3>1. b = a
      <4>1. e[l] = <<>>
        BY <1>4, <2>4
      <4>2. a \o <<>> = a
        <5> HIDE DEF a
        <5> QED BY <2>2
      <4> QED BY <2>2, <4>1, <4>2
    <3>2. h \in [1..Len(a) -> 1..l]
      <4>1. 1..(l - 1) \subseteq 1..l
        BY <2>2
      <4> QED BY <2>3, <4>1
    <3>3. Which(h, l)
      BY <2>3, <3>1, <3>2
    <3>4. Len(b) <= l
      <4>1. Len(b) = Len(a) /\ Len(a) \in Nat /\ l \in Nat /\ Len(a) <= l - 1
        BY <2>2, <3>1
      <4> HIDE DEF a, b
      <4> QED BY <4>1
    <3> HIDE DEF Which
    <3> QED BY <3>3, <3>4
  <2>5. ASSUME s[l] \in K PROVE Fine(l)
    <3> DEFINE m == Len(a)
               g == [i \in 1..(m + 1) |-> IF i = m + 1 THEN l ELSE h[i]]
    <3>1. Len(b) = m + 1 /\ b[m + 1] = s[l] /\ \A i \in 1..m : b[i] = a[i]
      <4>1. e[l] = <<s[l]>>
        BY <1>4, <2>5
      <4>2. b = Append(a, s[l])
        BY <2>2, <4>1
      <4> HIDE DEF a, b
      <4> QED BY <2>2, <4>2
    <3>2. m \in Nat /\ \A i \in 1..(m + 1) : i = m + 1 \/ i \in 1..m
      BY <2>2
    <3> HIDE DEF m, a, b
    <3>3. g \in [1..Len(b) -> 1..l]
      <4>1. \A i \in 1..m : h[i] \in 1..l
        <5>1. \A i \in 1..m : h[i] \in 1..(l - 1)
          BY <2>3 DEF m
        <5>2. 1..(l - 1) \subseteq 1..l
          BY <2>2
        <5> QED BY <5>1, <5>2
      <4>2. l \in 1..l
        BY <2>2
      <4> QED BY <3>1, <3>2, <4>1, <4>2
    <3>4. \A i \in 1..Len(b) : b[i] = s[g[i]]
      <4> SUFFICES ASSUME NEW i \in 1..(m + 1) PROVE b[i] = s[g[i]]
        BY <3>1
      <4>1. CASE i = m + 1
        BY <3>1, <3>2, <4>1
      <4>2. CASE i \in 1..m
        <5>1. g[i] = h[i]
          BY <3>2, <4>2
        <5>2. b[i] = a[i] /\ a[i] = s[h[i]]
          BY <2>3, <3>1, <4>2 DEF m
        <5> QED BY <5>1, <5>2
      <4> QED BY <3>2, <4>1, <4>2
    <3>5. \A i, j \in 1..Len(b) : i < j => g[i] < g[j]
      <4> SUFFICES ASSUME NEW i \in 1..(m + 1), NEW j \in 1..(m + 1), i < j PROVE g[i] < g[j]
        BY <3>1
      <4>1. i \in 1..m /\ g[i] = h[i] /\ h[i] \in 1..(l - 1)
        BY <2>3, <3>2 DEF m
      <4>2. CASE j = m + 1
        BY <2>2, <3>2, <4>1, <4>2
      <4>3. CASE j \in 1..m
        <5>1. g[j] = h[j]
          BY <3>2, <4>3
        <5>2. h[i] < h[j]
          BY <2>3, <4>1, <4>3 DEF m
        <5> QED BY <4>1, <5>1, <5>2
      <4> QED BY <3>2, <4>2, <4>3
    <3>6. Which(g, l)
      <4> HIDE DEF g
      <4> QED BY <3>3, <3>4, <3>5 DEF b
    <3>7. Len(F(l)) <= l
      <4>1. Len(F(l)) = m + 1
        BY <3>1 DEF b
      <4> QED BY <2>2, <4>1 DEF m
    <3> HIDE DEF Which, g
    <3> QED BY <3>6, <3>7
  <2> QED BY <2>4, <2>5
<1>8. Fine(n)
  <2> DEFINE Bad == {l \in 0..n : ~Fine(l)}
  <2> HIDE DEF Fine
  <2>1. SUFFICES ASSUME Bad # {} PROVE FALSE
    BY <1>1
  <2>2. PICK l \in Bad : \A m \in Bad : l <= m
    <3>1. Bad \subseteq Nat
      BY <1>1
    <3> HIDE DEF Bad
    <3> QED BY <2>1, <3>1, LeastOf
  <2>3. l \in 1..n /\ l - 1 \in 0..n /\ l - 1 \notin Bad
    BY <1>1, <1>6, <2>2
  <2> QED BY <1>7, <2>2, <2>3
<1>9. F(n) \in Seq(T \cap K) /\ Len(F(n)) <= n /\ \E h : Leaves(F(n), s, h)
  <2>1. F(n) \in Seq(T \cap K)
    BY <1>1, <1>5
  <2>2. PICK h : Which(h, n)
    BY <1>8
  <2>3. Leaves(F(n), s, h)
    BY <2>2 DEF Leaves, n
  <2>4. Len(F(n)) <= n
    BY <1>8
  <2> HIDE DEF Which, Fine
  <2> QED BY <2>1, <2>3, <2>4
<1> QED BY <1>3, <1>9 DEF n

\* What Encode answers.
Codes == [err : {"none", "unsupported"}, bytes : Seq(Byte)]

Entries == [key : Data, val : Data]

\* Sequences behind one another.
LEMMA FlattenType ==
    ASSUME NEW T, NEW n \in Nat, NEW e \in Family(T, n)
    PROVE  FlattenSeq(e) = Flat(e, n) /\ FlattenSeq(e) \in Seq(T)
<1>1. e = [j \in 1..n |-> e[j]]
  BY DEF Family
<1>2. FlattenSeq(e) = Flat(e, n)
  BY <1>1 DEF Flat
<1>3. n \in 0..n
  OBVIOUS
<1>4. Flat(e, n) \in Seq(T)
  BY <1>3, FlattenNext
<1> QED BY <1>2, <1>4

\* The entries of a map.
LEMMA EntriesAre ==
    ASSUME NEW x \in Data, x.k = "map"
    PROVE  /\ x.v \in Seq(Entries) /\ Len(x.v) \in Nat /\ DOMAIN x.v = 1..Len(x.v)
           /\ \A i \in 1..Len(x.v) :
                /\ x.v[i] \in Entries /\ x.v[i].key \in Data /\ x.v[i].val \in Data
                /\ Hashable(x.v[i].key)
                /\ Depth[x.v[i].key] < Depth[x] /\ Depth[x.v[i].val] < Depth[x]
<1>1. /\ x.v \in Seq(Entries)
      /\ \A i \in DOMAIN x.v : /\ Hashable(x.v[i].key)
                               /\ Depth[x.v[i].key] < Depth[x]
                               /\ Depth[x.v[i].val] < Depth[x]
  BY DataAre DEF Entries
<1>2. Len(x.v) \in Nat /\ DOMAIN x.v = 1..Len(x.v) /\ \A i \in 1..Len(x.v) : x.v[i] \in Entries
  BY <1>1
<1>3. \A y \in Entries : y.key \in Data /\ y.val \in Data
  BY DEF Entries
<1> QED BY <1>1, <1>2, <1>3

\* The elements of a list.
LEMMA ElementsOf ==
    ASSUME NEW x \in Data, x.k = "list"
    PROVE  /\ x.v \in Seq(Data) /\ Len(x.v) \in Nat /\ DOMAIN x.v = 1..Len(x.v)
           /\ \A i \in 1..Len(x.v) : x.v[i] \in Data /\ Depth[x.v[i]] < Depth[x]
<1>1. x.v \in Seq(Data) /\ \A i \in DOMAIN x.v : Depth[x.v[i]] < Depth[x]
  BY DataAre
<1> QED BY <1>1

\* The entries of a map that are sent.
LEMMA EncodableIs ==
    ASSUME NEW s \in Seq(Entries), NEW encode
    PROVE  Encodable(encode, s) = Filter(s, {e \in Entries : Encodes(encode, e)})
<1> DEFINE K == {e \in Entries : Encodes(encode, e)}
<1>1. \A i \in DOMAIN s : Encodes(encode, s[i]) <=> s[i] \in K
  OBVIOUS
<1>2. [i \in DOMAIN s |-> IF Encodes(encode, s[i]) THEN <<s[i]>> ELSE <<>>]
        = [i \in DOMAIN s |-> IF s[i] \in K THEN <<s[i]>> ELSE <<>>]
  BY <1>1
<1> QED BY <1>2 DEF Encodable, Filter

\* What is left of a map's entries are entries of it.
LEMMA LeftAre ==
    ASSUME NEW x \in Data, x.k = "map", NEW K
    PROVE  /\ Filter(x.v, K) \in Seq(Entries) /\ Len(Filter(x.v, K)) \in Nat
           /\ Len(Filter(x.v, K)) <= Len(x.v) /\ DOMAIN Filter(x.v, K) = 1..Len(Filter(x.v, K))
           /\ \A i \in 1..Len(Filter(x.v, K)) : Filter(x.v, K)[i] \in K
           /\ \A i \in 1..Len(Filter(x.v, K)) : \E j \in 1..Len(x.v) : Filter(x.v, K)[i] = x.v[j]
<1> DEFINE t == Filter(x.v, K)
           U == Entries \cap K
<1>1. x.v \in Seq(Entries)
  BY EntriesAre
<1>2. t \in Seq(U) /\ Len(t) <= Len(x.v) /\ \E h : Leaves(t, x.v, h)
  BY <1>1, FilterIs
<1> HIDE DEF t, U
<1>3. Len(t) \in Nat /\ DOMAIN t = 1..Len(t) /\ \A i \in 1..Len(t) : t[i] \in U
  BY <1>2
<1>4. t \in Seq(Entries)
  <2>1. U \subseteq Entries
    BY DEF U
  <2> QED BY <1>2, <2>1, WiderSeq
<1>5. \A i \in 1..Len(t) : \E j \in 1..Len(x.v) : t[i] = x.v[j]
  <2>1. PICK h : Leaves(t, x.v, h)
    BY <1>2
  <2> SUFFICES ASSUME NEW i \in 1..Len(t) PROVE \E j \in 1..Len(x.v) : t[i] = x.v[j]
    OBVIOUS
  <2>2. h[i] \in 1..Len(x.v) /\ t[i] = x.v[h[i]]
    BY <2>1 DEF Leaves
  <2> QED BY <2>2
<1>6. \A i \in 1..Len(t) : t[i] \in K
  BY <1>3 DEF U
<1> QED BY <1>2, <1>3, <1>4, <1>5, <1>6 DEF t

\* The code of a value that is not made of others.
LEMMA EncodeWithIs ==
    ASSUME NEW x, NEW encode
    PROVE  /\ x.k \in IntKinds => EncodeWith(encode, x) = Encoded("none", EncodeInt(x.v[1]))
           /\ x.k \in FloatKinds => EncodeWith(encode, x) = Encoded("none", EncodeFloat(x.v[1]))
           /\ x.k \in {"nil", "true", "false"} => EncodeWith(encode, x) = Encoded("none", <<Header(x.k, 0)>>)
           /\ x.k \in {"string", "bytes"} =>
                EncodeWith(encode, x) = Encoded("none", HeaderAndLength(x.k, Len(x.v)) \o x.v)
           /\ x.k = "typed" => EncodeWith(encode, x) = Encoded("none", <<>>)
           /\ x.k = "struct" => EncodeWith(encode, x) = Encoded("unsupported", <<>>)
<1>1. x.k \in IntKinds => EncodeWith(encode, x) = Encoded("none", EncodeInt(x.v[1]))
  BY KindsAre DEF EncodeWith, FloatKinds
<1>2. x.k \in FloatKinds => EncodeWith(encode, x) = Encoded("none", EncodeFloat(x.v[1]))
  BY KindsAre DEF EncodeWith, FloatKinds
<1>3. x.k \in {"nil", "true", "false"} => EncodeWith(encode, x) = Encoded("none", <<Header(x.k, 0)>>)
  BY KindsAre DEF EncodeWith, FloatKinds
<1>4. x.k \in {"string", "bytes"} =>
        EncodeWith(encode, x) = Encoded("none", HeaderAndLength(x.k, Len(x.v)) \o x.v)
  BY KindsAre DEF EncodeWith, FloatKinds
<1>5. x.k = "typed" => EncodeWith(encode, x) = Encoded("none", <<>>)
  BY KindsAre DEF EncodeWith, FloatKinds
<1>6. x.k = "struct" => EncodeWith(encode, x) = Encoded("unsupported", <<>>)
  BY KindsAre DEF EncodeWith, FloatKinds
<1> QED BY <1>1, <1>2, <1>3, <1>4, <1>5, <1>6

\* The code of a value, if those in it have one.
LEMMA EncodeWithType ==
    ASSUME NEW x \in Data, NEW encode, \A y \in Data : Depth[y] < Depth[x] => encode[y] \in Codes
    PROVE  EncodeWith(encode, x) \in Codes
<1>1. \A b \in Seq(Byte) : \A e \in {"none", "unsupported"} : Encoded(e, b) \in Codes
  BY DEF Encoded, Codes
<1>2. \A y \in Data : Depth[y] < Depth[x] => encode[y].bytes \in Seq(Byte)
  BY DEF Codes
<1>3. CASE x.k \in IntKinds
  <2>1. EncodeWith(encode, x) = Encoded("none", EncodeInt(x.v[1]))
    BY <1>3, EncodeWithIs
  <2>2. x.v[1] \in Int /\ Convert(x.k, x.v[1]) = x.v[1]
    BY <1>3, DataAre
  <2>3. -(Power(8) \div 2) <= x.v[1] /\ x.v[1] < Power(8)
    BY <1>3, <2>2, Bounds
  <2>4. EncodeInt(x.v[1]) \in Seq(Byte)
    BY <2>2, <2>3, EncodeIntType
  <2> QED BY <1>1, <2>1, <2>4
<1>4. CASE x.k \in FloatKinds
  <2>1. EncodeWith(encode, x) = Encoded("none", EncodeFloat(x.v[1]))
    BY <1>4, EncodeWithIs
  <2>2. x.v[1] \in Nat
    BY <1>4, DataAre
  <2> QED BY <1>1, <2>1, <2>2, EncodeFloatType
<1>5. CASE x.k \in {"nil", "true", "false"}
  <2>1. EncodeWith(encode, x) = Encoded("none", <<Header(x.k, 0)>>)
    BY <1>5, EncodeWithIs
  <2>2. Header(x.k, 0) \in Byte
    <3>1. 0 \in 0..3 /\ x.k \in ToSet(Types)
      BY <1>5, TypesAre
    <3> QED BY <3>1, Headers
  <2>3. \A h \in Byte : <<h>> \in Seq(Byte)
    OBVIOUS
  <2> QED BY <1>1, <2>1, <2>2, <2>3
<1>6. CASE x.k \in {"string", "bytes"}
  <2>1. EncodeWith(encode, x) = Encoded("none", HeaderAndLength(x.k, Len(x.v)) \o x.v)
    BY <1>6, EncodeWithIs
  <2>2. x.v \in Seq(Byte) /\ Len(x.v) \in Nat
    <3>1. x.v \in Seq(Byte)
      BY <1>6, DataAre
    <3> QED BY <3>1
  <2>3. HeaderAndLength(x.k, Len(x.v)) \in Seq(Byte)
    <3>1. x.k \in ToSet(Types)
      BY <1>6, TypesAre
    <3> QED BY <2>2, <3>1, FramesLength
  <2>4. HeaderAndLength(x.k, Len(x.v)) \o x.v \in Seq(Byte)
    BY <2>2, <2>3
  <2> QED BY <1>1, <2>1, <2>4
<1>7. CASE x.k = "list"
  <2> DEFINE n == Len(x.v)
             e == [i \in 1..n |-> encode[x.v[i]].bytes]
  <2>1. n \in Nat /\ DOMAIN x.v = 1..n /\ \A i \in 1..n : x.v[i] \in Data /\ Depth[x.v[i]] < Depth[x]
    BY <1>7, ElementsOf
  <2>2. EncodeWith(encode, x) = Encoded("none", HeaderAndLength("list", n) \o FlattenSeq(e))
    BY <1>7, <2>1, KindsAre DEF EncodeWith, FloatKinds
  <2>3. e \in Family(Byte, n)
    BY <1>2, <2>1 DEF Family
  <2> HIDE DEF e, n
  <2>4. FlattenSeq(e) \in Seq(Byte)
    BY <2>1, <2>3, FlattenType
  <2>5. HeaderAndLength("list", n) \in Seq(Byte)
    <3>1. "list" \in ToSet(Types)
      BY TypesAre
    <3> QED BY <2>1, <3>1, FramesLength
  <2>6. HeaderAndLength("list", n) \o FlattenSeq(e) \in Seq(Byte)
    BY <2>4, <2>5
  <2> QED BY <1>1, <2>2, <2>6
<1>8. CASE x.k = "map"
  <2> DEFINE es == Encodable(encode, x.v)
             n == Len(es)
             e == [i \in 1..n |-> encode[es[i].key].bytes \o encode[es[i].val].bytes]
  <2>1. n \in Nat /\ DOMAIN es = 1..n /\ \A i \in 1..n : \E j \in 1..Len(x.v) : es[i] = x.v[j]
    <3>1. x.v \in Seq(Entries)
      BY <1>8, EntriesAre
    <3>2. es = Filter(x.v, {y \in Entries : Encodes(encode, y)})
      BY <3>1, EncodableIs
    <3> DEFINE K == {y \in Entries : Encodes(encode, y)}
    <3>3. es = Filter(x.v, K)
      BY <3>2
    <3> DEFINE t == Filter(x.v, K)
    <3> HIDE DEF K
    <3>4. Len(t) \in Nat /\ DOMAIN t = 1..Len(t) /\ \A i \in 1..Len(t) : \E j \in 1..Len(x.v) : t[i] = x.v[j]
      <4>1. /\ Len(t) \in Nat /\ DOMAIN t = 1..Len(t)
            /\ \A i \in 1..Len(t) : \E j \in 1..Len(x.v) : t[i] = x.v[j]
        BY <1>8, LeftAre, Zenon
      <4> HIDE DEF t
      <4> QED BY <4>1
    <3>5. es = t
      BY <3>3
    <3> HIDE DEF es, t
    <3> QED BY <3>4, <3>5
  <2>2. \A i \in 1..n : /\ es[i].key \in Data /\ es[i].val \in Data
                        /\ Depth[es[i].key] < Depth[x] /\ Depth[es[i].val] < Depth[x]
    <3> HIDE DEF es
    <3> QED BY <1>8, <2>1, EntriesAre
  <2>3. EncodeWith(encode, x) = Encoded("none", HeaderAndLength("map", n) \o FlattenSeq(e))
    <3> DEFINE code == LET bytes(y) == encode[y.key].bytes \o encode[y.val].bytes
                       IN  Encoded("none", HeaderAndLength("map", Len(es))
                                             \o FlattenSeq([i \in DOMAIN es |-> bytes(es[i])]))
    <3>1. EncodeWith(encode, x) = code
      BY <1>8, KindsAre DEF EncodeWith, FloatKinds
    <3>2. code = Encoded("none", HeaderAndLength("map", n) \o FlattenSeq(e))
      <4> HIDE DEF es
      <4> QED BY <2>1
    <3> QED BY <3>1, <3>2
  <2> HIDE DEF es, n
  <2>4. e \in Family(Byte, n)
    <3> SUFFICES ASSUME NEW i \in 1..n PROVE encode[es[i].key].bytes \o encode[es[i].val].bytes \in Seq(Byte)
      BY DEF Family
    <3>1. encode[es[i].key].bytes \in Seq(Byte) /\ encode[es[i].val].bytes \in Seq(Byte)
      BY <1>2, <2>2
    <3> QED BY <3>1
  <2> HIDE DEF e
  <2>5. FlattenSeq(e) \in Seq(Byte)
    BY <2>1, <2>4, FlattenType
  <2>6. HeaderAndLength("map", n) \in Seq(Byte)
    <3>1. "map" \in ToSet(Types)
      BY TypesAre
    <3> QED BY <2>1, <3>1, FramesLength
  <2>7. HeaderAndLength("map", n) \o FlattenSeq(e) \in Seq(Byte)
    BY <2>5, <2>6
  <2> QED BY <1>1, <2>3, <2>7
<1>9. CASE x.k \in {"typed", "struct"}
  <2>1. EncodeWith(encode, x) = Encoded("none", <<>>) \/ EncodeWith(encode, x) = Encoded("unsupported", <<>>)
    BY <1>9, EncodeWithIs
  <2>2. <<>> \in Seq(Byte)
    OBVIOUS
  <2> QED BY <1>1, <2>1, <2>2
<1> QED BY <1>3, <1>4, <1>5, <1>6, <1>7, <1>8, <1>9, DataAre

\* Encoding is the same with what is the same for the values in a value.
LEMMA EncodeWithAgrees ==
    ASSUME NEW x \in Data, NEW encode, NEW other,
           \A y \in Data : Depth[y] < Depth[x] => encode[y] = other[y]
    PROVE  EncodeWith(encode, x) = EncodeWith(other, x)
<1>1. ASSUME x.k = "list"
      PROVE  [i \in DOMAIN x.v |-> encode[x.v[i]].bytes] = [i \in DOMAIN x.v |-> other[x.v[i]].bytes]
  BY <1>1, ElementsOf
<1>2. ASSUME x.k = "map"
      PROVE  /\ Encodable(encode, x.v) = Encodable(other, x.v)
             /\ [i \in DOMAIN Encodable(encode, x.v) |->
                    encode[Encodable(encode, x.v)[i].key].bytes \o encode[Encodable(encode, x.v)[i].val].bytes]
                  = [i \in DOMAIN Encodable(encode, x.v) |->
                        other[Encodable(encode, x.v)[i].key].bytes \o other[Encodable(encode, x.v)[i].val].bytes]
  <2> DEFINE s == x.v
             es == Encodable(encode, s)
  <2>1. \A i \in DOMAIN s : encode[s[i].key] = other[s[i].key] /\ encode[s[i].val] = other[s[i].val]
    BY <1>2, EntriesAre
  <2>2. es = Encodable(other, s)
    <3>1. \A i \in DOMAIN s : Encodes(encode, s[i]) <=> Encodes(other, s[i])
      BY <2>1 DEF Encodes
    <3>2. [i \in DOMAIN s |-> IF Encodes(encode, s[i]) THEN <<s[i]>> ELSE <<>>]
            = [i \in DOMAIN s |-> IF Encodes(other, s[i]) THEN <<s[i]>> ELSE <<>>]
      BY <3>1
    <3> QED BY <3>2 DEF Encodable
  <2>3. DOMAIN es = 1..Len(es) /\ \A i \in 1..Len(es) : \E j \in 1..Len(s) : es[i] = s[j]
    <3>1. s \in Seq(Entries)
      BY <1>2, EntriesAre
    <3>2. es = Filter(s, {y \in Entries : Encodes(encode, y)})
      BY <3>1, EncodableIs
    <3> DEFINE K == {y \in Entries : Encodes(encode, y)}
    <3>3. es = Filter(x.v, K)
      BY <3>2
    <3> DEFINE t == Filter(x.v, K)
    <3> HIDE DEF K
    <3>4. Len(t) \in Nat /\ DOMAIN t = 1..Len(t) /\ \A i \in 1..Len(t) : \E j \in 1..Len(x.v) : t[i] = x.v[j]
      <4>1. /\ Len(t) \in Nat /\ DOMAIN t = 1..Len(t)
            /\ \A i \in 1..Len(t) : \E j \in 1..Len(x.v) : t[i] = x.v[j]
        BY <1>2, LeftAre, Zenon
      <4> HIDE DEF t
      <4> QED BY <4>1
    <3>5. es = t
      BY <3>3
    <3> HIDE DEF es, t
    <3> QED BY <3>4, <3>5
  <2>4. DOMAIN s = 1..Len(s)
    BY <1>2, EntriesAre
  <2> HIDE DEF es, s
  <2>5. \A i \in DOMAIN es : encode[es[i].key] = other[es[i].key] /\ encode[es[i].val] = other[es[i].val]
    BY <2>1, <2>3, <2>4
  <2>6. [i \in DOMAIN es |-> encode[es[i].key].bytes \o encode[es[i].val].bytes]
          = [i \in DOMAIN es |-> other[es[i].key].bytes \o other[es[i].val].bytes]
    BY <2>5
  <2> QED BY <2>2, <2>6 DEF es, s
<1>3. CASE x.k = "list"
  BY <1>1, <1>3, KindsAre DEF EncodeWith, FloatKinds
<1>4. CASE x.k = "map"
  <2> DEFINE code(f) == LET es == Encodable(f, x.v)
                            bytes(y) == f[y.key].bytes \o f[y.val].bytes
                        IN  Encoded("none", HeaderAndLength("map", Len(es))
                                              \o FlattenSeq([i \in DOMAIN es |-> bytes(es[i])]))
  <2>1. EncodeWith(encode, x) = code(encode) /\ EncodeWith(other, x) = code(other)
    BY <1>4, KindsAre DEF EncodeWith, FloatKinds
  <2>2. code(encode) = code(other)
    BY <1>2, <1>4
  <2> HIDE DEF code
  <2> QED BY <2>1, <2>2
<1>5. CASE x.k \notin {"list", "map"}
  <2>1. x.k \in IntKinds \/ x.k \in FloatKinds \/ x.k \in {"nil", "true", "false"}
        \/ x.k \in {"string", "bytes"} \/ x.k = "typed" \/ x.k = "struct"
    BY <1>5, DataAre
  <2> QED BY <2>1, EncodeWithIs
<1> QED BY <1>3, <1>4, <1>5

\* f is what Encode evaluates.
IsEncode(f) == f = [x \in Data |-> EncodeWith(f, x)]

\* A solution of the recursive definition of Encode exists.
LEMMA EncodeExists == \E f \in Maps(Data, Codes) : IsEncode(f)
<1> DEFINE D == Data
           V == Codes
           d == Encoded("none", <<>>)
           comb == [p \in D \X Maps(D, V) |-> EncodeWith(p[2], p[1])]
<1>1. d \in V
  <2>1. <<>> \in Seq(Byte)
    OBVIOUS
  <2> QED BY <2>1 DEF Encoded, Codes
<1>2. \A x \in D : \A f \in Maps(D, V) : EncodeWith(f, x) \in V
  <2> SUFFICES ASSUME NEW x \in D, NEW f \in Maps(D, V) PROVE EncodeWith(f, x) \in V
    OBVIOUS
  <2>1. \A y \in Data : f[y] \in Codes
    BY DEF Maps
  <2> QED BY <2>1, EncodeWithType
<1>3. Depth \in Maps(D, Nat) /\ comb \in Maps(D \X Maps(D, V), V)
  <2>1. Depth \in Maps(D, Nat)
    BY CodecAssumption DEF Maps
  <2>2. \A p \in D \X Maps(D, V) : EncodeWith(p[2], p[1]) \in V
    BY <1>2
  <2> HIDE DEF D, V
  <2> QED BY <2>1, <2>2 DEF Maps
<1>4. \A x \in D : \A f \in Maps(D, V) : comb[<<x, f>>] = EncodeWith(f, x)
  <2> HIDE DEF D, V
  <2> QED OBVIOUS
<1> HIDE DEF comb, V, d
<1>5. PICK f \in Maps(D, V) : SolvesAll(f, D, Depth, d, comb)
  BY <1>1, <1>3, WellFounded
<1>6. ASSUME NEW x \in D PROVE f[x] = EncodeWith(f, x)
  <2> DEFINE low == Below(f, D, Depth, x, d)
  <2>1. low \in Maps(D, V) /\ \A y \in D : Depth[y] < Depth[x] => low[y] = f[y]
    BY <1>1 DEF Below, Maps
  <2>2. f[x] = comb[<<x, low>>]
    BY <1>5 DEF SolvesAll
  <2> HIDE DEF low
  <2>3. f[x] = EncodeWith(low, x)
    BY <1>4, <2>1, <2>2
  <2>4. EncodeWith(low, x) = EncodeWith(f, x)
    BY <2>1, EncodeWithAgrees
  <2> QED BY <2>3, <2>4
<1>7. f = [x \in D |-> f[x]]
  BY DEF Maps
<1>8. IsEncode(f)
  BY <1>6, <1>7 DEF IsEncode
<1> QED BY <1>5, <1>8 DEF V

\* There is one solution.
LEMMA EncodeUnique ==
    ASSUME NEW f, NEW g, IsEncode(f), IsEncode(g)
    PROVE  f = g
<1> DEFINE Bad == {n \in Nat : \E x \in Data : Depth[x] = n /\ f[x] # g[x]}
<1>1. DOMAIN f = Data /\ DOMAIN g = Data /\ f = [x \in Data |-> f[x]] /\ g = [x \in Data |-> g[x]]
  BY DEF IsEncode
<1>2. \A x \in Data : f[x] = EncodeWith(f, x) /\ g[x] = EncodeWith(g, x)
  BY DEF IsEncode
<1>3. \A x \in Data : Depth[x] \in Nat
  BY CodecAssumption
<1>4. Bad = {}
  <2>1. SUFFICES ASSUME Bad # {} PROVE FALSE
    OBVIOUS
  <2>2. PICK n \in Bad : \A m \in Bad : n <= m
    <3>1. Bad \subseteq Nat
      OBVIOUS
    <3> HIDE DEF Bad
    <3> QED BY <2>1, <3>1, LeastOf
  <2>3. PICK x \in Data : Depth[x] = n /\ f[x] # g[x]
    BY <2>2
  <2>4. \A y \in Data : Depth[y] < Depth[x] => f[y] = g[y]
    <3> SUFFICES ASSUME NEW y \in Data, Depth[y] < Depth[x], f[y] # g[y] PROVE FALSE
      OBVIOUS
    <3>1. Depth[y] \in Bad
      BY <1>3
    <3>2. Depth[x] <= Depth[y] /\ Depth[x] \in Nat /\ Depth[y] \in Nat
      <4> HIDE DEF Bad
      <4> QED BY <1>3, <2>2, <2>3, <3>1
    <3> HIDE DEF Bad
    <3> QED BY <3>2
  <2>5. EncodeWith(f, x) = EncodeWith(g, x)
    BY <2>4, EncodeWithAgrees
  <2> QED BY <1>2, <2>3, <2>5
<1>5. \A x \in Data : f[x] = g[x]
  BY <1>3, <1>4
<1> QED BY <1>1, <1>5

\* Encode is what its definition says, and what it makes of a value are bytes.
THEOREM EncodeAnswers ==
    /\ \A x \in Data : Encode[x] = EncodeWith(Encode, x)
    /\ \A x \in Data : Encode[x] \in Codes
<1>1. PICK f \in Maps(Data, Codes) : IsEncode(f)
  BY EncodeExists
<1>2. IsEncode(Encode)
  <2> DEFINE g == CHOOSE h : IsEncode(h)
  <2>1. IsEncode(g)
    BY <1>1
  <2>2. Encode = g
    BY DEF Encode, IsEncode
  <2> HIDE DEF g
  <2> QED BY <2>1, <2>2
<1>3. Encode = f
  BY <1>1, <1>2, EncodeUnique
<1>4. \A x \in Data : f[x] = EncodeWith(f, x) /\ f[x] \in Codes
  BY <1>1 DEF IsEncode, Maps
<1> QED BY <1>3, <1>4

\* What cannot be encoded is what is not supported.
LEMMA Unsupported == \A x \in Data : Encode[x].err = IF x.k = "struct" THEN "unsupported" ELSE "none"
<1> SUFFICES ASSUME NEW x \in Data PROVE Encode[x].err = IF x.k = "struct" THEN "unsupported" ELSE "none"
  OBVIOUS
<1>1. Encode[x] = EncodeWith(Encode, x)
  BY EncodeAnswers
<1>2. CASE x.k = "list"
  <2>1. \E b : EncodeWith(Encode, x) = Encoded("none", b)
    BY <1>2, KindsAre DEF EncodeWith, FloatKinds
  <2> QED BY <1>1, <1>2, <2>1 DEF Encoded
<1>3. CASE x.k = "map"
  <2>1. \E b : EncodeWith(Encode, x) = Encoded("none", b)
    BY <1>3, KindsAre DEF EncodeWith, FloatKinds
  <2> QED BY <1>1, <1>3, <2>1 DEF Encoded
<1>4. CASE x.k \notin {"list", "map"}
  <2>1. x.k \in IntKinds \/ x.k \in FloatKinds \/ x.k \in {"nil", "true", "false"}
        \/ x.k \in {"string", "bytes"} \/ x.k = "typed" \/ x.k = "struct"
    BY <1>4, DataAre
  <2>2. \A b : Encoded("none", b).err = "none" /\ Encoded("unsupported", b).err = "unsupported"
    BY DEF Encoded
  <2>3. CASE x.k = "struct"
    BY <1>1, <2>2, <2>3, EncodeWithIs
  <2>4. CASE x.k # "struct"
    <3> DEFINE f == Encode
    <3> HIDE DEF f
    <3>1. x.k \in IntKinds => \E b : EncodeWith(f, x) = Encoded("none", b)
      BY EncodeWithIs
    <3>2. x.k \in FloatKinds => \E b : EncodeWith(f, x) = Encoded("none", b)
      BY EncodeWithIs
    <3>3. x.k \in {"nil", "true", "false"} => \E b : EncodeWith(f, x) = Encoded("none", b)
      BY EncodeWithIs
    <3>4. x.k \in {"string", "bytes"} => \E b : EncodeWith(f, x) = Encoded("none", b)
      BY EncodeWithIs
    <3>5. x.k = "typed" => \E b : EncodeWith(f, x) = Encoded("none", b)
      BY EncodeWithIs
    <3>6. PICK b : EncodeWith(f, x) = Encoded("none", b)
      BY <2>1, <2>4, <3>1, <3>2, <3>3, <3>4, <3>5
    <3>7. Encode[x].err = "none"
      BY <1>1, <2>2, <3>6 DEF f
    <3> QED BY <2>4, <3>7
  <2> QED BY <2>3, <2>4
<1> QED BY <1>2, <1>3, <1>4

-----------------------------------------------------------------------------
(* What a value is when it has been decoded *)

\* What a value is seen as, by kind.
LEMMA SeenWithIs ==
    ASSUME NEW x, NEW seen
    PROVE  /\ x.k \in IntKinds =>
                SeenWith(seen, x) = Num(IF x.v[1] < Radix \div 2 THEN "int" ELSE "uint", x.v[1])
           /\ x.k \in FloatKinds => SeenWith(seen, x) = Num(IF x.v[1] = 0 THEN "float32" ELSE x.k, x.v[1])
           /\ x.k = "list" => SeenWith(seen, x) = Value("list", [i \in DOMAIN x.v |-> seen[x.v[i]]])
           /\ x.k = "map" =>
                SeenWith(seen, x) =
                    Value("map", [i \in DOMAIN Carried(x) |->
                                    Entry(seen[Carried(x)[i].key], seen[Carried(x)[i].val])])
           /\ x.k \in {"typed", "struct"} => SeenWith(seen, x) = Nil
           /\ x.k \in {"nil", "true", "false", "string", "bytes"} => SeenWith(seen, x) = x
<1>1. x.k \in IntKinds => SeenWith(seen, x) = Num(IF x.v[1] < Radix \div 2 THEN "int" ELSE "uint", x.v[1])
  BY KindsAre DEF SeenWith, FloatKinds, IsInt
<1>2. x.k \in FloatKinds => SeenWith(seen, x) = Num(IF x.v[1] = 0 THEN "float32" ELSE x.k, x.v[1])
  BY KindsAre DEF SeenWith, FloatKinds, IsInt
<1>3. x.k = "list" => SeenWith(seen, x) = Value("list", [i \in DOMAIN x.v |-> seen[x.v[i]]])
  BY KindsAre DEF SeenWith, FloatKinds, IsInt
<1>4. x.k = "map" =>
        SeenWith(seen, x) =
            Value("map", [i \in DOMAIN Carried(x) |->
                            Entry(seen[Carried(x)[i].key], seen[Carried(x)[i].val])])
  BY KindsAre DEF SeenWith, FloatKinds, IsInt
<1>5. x.k \in {"typed", "struct"} => SeenWith(seen, x) = Nil
  BY KindsAre DEF SeenWith, FloatKinds, IsInt
<1>6. x.k \in {"nil", "true", "false", "string", "bytes"} => SeenWith(seen, x) = x
  BY KindsAre DEF SeenWith, FloatKinds, IsInt
<1> QED BY <1>1, <1>2, <1>3, <1>4, <1>5, <1>6

\* The entries that the format carries.
Supported == {e \in Entries : e.val.k # "struct"}

\* What is left of a map: some of its entries, which are not as deep as it is.
LEMMA CarriedIs ==
    ASSUME NEW x \in Data, x.k = "map"
    PROVE  /\ Carried(x) = Filter(x.v, Supported)
           /\ Len(Carried(x)) \in Nat /\ Len(Carried(x)) <= Len(x.v)
           /\ DOMAIN Carried(x) = 1..Len(Carried(x))
           /\ \A i \in 1..Len(Carried(x)) :
                /\ Carried(x)[i] \in Supported
                /\ Carried(x)[i].key \in Data /\ Carried(x)[i].val \in Data
                /\ Depth[Carried(x)[i].key] < Depth[x] /\ Depth[Carried(x)[i].val] < Depth[x]
           /\ \A i \in 1..Len(Carried(x)) : \E j \in 1..Len(x.v) : Carried(x)[i] = x.v[j]
<1>1. Carried(x) = Filter(x.v, Supported)
  <2>1. \A i \in DOMAIN x.v : x.v[i] \in Entries
    BY EntriesAre
  <2>2. [i \in DOMAIN x.v |-> IF x.v[i].val.k = "struct" THEN <<>> ELSE <<x.v[i]>>]
          = [i \in DOMAIN x.v |-> IF x.v[i] \in Supported THEN <<x.v[i]>> ELSE <<>>]
    BY <2>1 DEF Supported
  <2> QED BY <2>2 DEF Carried, Filter
<1> DEFINE t == Filter(x.v, Supported)
<1>2. /\ Len(t) \in Nat /\ Len(t) <= Len(x.v) /\ DOMAIN t = 1..Len(t)
      /\ \A i \in 1..Len(t) : t[i] \in Supported
      /\ \A i \in 1..Len(t) : \E j \in 1..Len(x.v) : t[i] = x.v[j]
  BY LeftAre
<1> HIDE DEF t
<1>3. \A i \in 1..Len(t) : /\ t[i].key \in Data /\ t[i].val \in Data
                           /\ Depth[t[i].key] < Depth[x] /\ Depth[t[i].val] < Depth[x]
  BY <1>2, EntriesAre
<1>4. Carried(x) = t
  BY <1>1 DEF t
<1> QED BY <1>1, <1>2, <1>3, <1>4

\* What Decode can answer with.
LEMMA SeenWithType ==
    ASSUME NEW x \in Data, NEW seen \in Maps(Data, Universe)
    PROVE  SeenWith(seen, x) \in Universe
<1>1. \A y \in Data : seen[y] \in Universe
  BY DEF Maps
<1>2. \A n \in Int : \A k \in {"int", "uint"} \cup FloatKinds : Num(k, n) \in Universe
  <2>1. \A n \in Int : <<n>> \in Seq(Int)
    OBVIOUS
  <2>2. \A n \in Int : \A k \in {"int", "uint"} \cup FloatKinds : Num(k, n) \in Plain
    BY <2>1 DEF Plain, Num, Value
  <2> QED BY <2>2, UniverseIs
<1>3. CASE x.k \in IntKinds
  <2>1. x.v[1] \in Int
    BY <1>3, DataAre
  <2>2. SeenWith(seen, x) = Num(IF x.v[1] < Radix \div 2 THEN "int" ELSE "uint", x.v[1])
    BY <1>3, SeenWithIs
  <2> QED BY <1>2, <2>1, <2>2
<1>4. CASE x.k \in FloatKinds
  <2>1. x.v[1] \in Int
    BY <1>4, DataAre
  <2>2. SeenWith(seen, x) = Num(IF x.v[1] = 0 THEN "float32" ELSE x.k, x.v[1])
    BY <1>4, SeenWithIs
  <2>3. (IF x.v[1] = 0 THEN "float32" ELSE x.k) \in FloatKinds
    BY <1>4 DEF FloatKinds
  <2> QED BY <1>2, <2>1, <2>2, <2>3
<1>5. CASE x.k = "list"
  <2> DEFINE n == Len(x.v)
             s == [i \in 1..n |-> seen[x.v[i]]]
  <2>1. n \in Nat /\ DOMAIN x.v = 1..n /\ \A i \in 1..n : x.v[i] \in Data
    BY <1>5, ElementsOf
  <2>2. SeenWith(seen, x) = Value("list", s)
    BY <1>5, <2>1, SeenWithIs, ZenonT(60)
  <2>3. s \in [1..n -> Universe]
    BY <1>1, <2>1
  <2> HIDE DEF s, n
  <2>4. s \in Seq(Universe)
    BY <2>1, <2>3, SeqDef
  <2> QED BY <2>2, <2>4, UniverseIs
<1>6. CASE x.k = "map"
  <2> DEFINE es == Carried(x)
             n == Len(es)
             s == [i \in 1..n |-> Entry(seen[es[i].key], seen[es[i].val])]
             T == [key : Universe, val : Universe]
  <2>1. n \in Nat /\ DOMAIN es = 1..n /\ \A i \in 1..n : es[i].key \in Data /\ es[i].val \in Data
    BY <1>6, CarriedIs
  <2>2. SeenWith(seen, x) = Value("map", s)
    BY <1>6, <2>1, SeenWithIs, ZenonT(60)
  <2>3. s \in [1..n -> T]
    BY <1>1, <2>1 DEF Entry
  <2> HIDE DEF s, n, T
  <2>4. s \in Seq(T)
    BY <2>1, <2>3, SeqDef
  <2>5. Value("map", s) \in Universe
    BY <2>4, UniverseIs DEF T
  <2> QED BY <2>2, <2>5
<1>7. CASE x.k \in {"typed", "struct"}
  BY <1>7, SeenWithIs, ValuesAre
<1>8. CASE x.k \in {"nil", "true", "false", "string", "bytes"}
  <2>1. x.v \in Seq(Int) /\ x = Value(x.k, x.v)
    <3>1. x.v = <<>> \/ x.v \in Seq(Byte)
      BY <1>8, DataAre
    <3>2. Seq(Byte) \subseteq Seq(Int)
      <4>1. Byte \subseteq Int
        BY Bytes
      <4> QED BY <4>1, WiderSeq
    <3>3. <<>> \in Seq(Int)
      OBVIOUS
    <3> QED BY <3>1, <3>2, <3>3, DataAre
  <2>2. Value(x.k, x.v) \in Plain
    BY <1>8, <2>1 DEF Plain, Value
  <2>3. SeenWith(seen, x) = x
    BY <1>8, SeenWithIs
  <2> QED BY <2>1, <2>2, <2>3, UniverseIs
<1> QED BY <1>3, <1>4, <1>5, <1>6, <1>7, <1>8, DataAre

\* It is the same with what is the same for the values in a value.
LEMMA SeenWithAgrees ==
    ASSUME NEW x \in Data, NEW seen, NEW other, \A y \in Data : Depth[y] < Depth[x] => seen[y] = other[y]
    PROVE  SeenWith(seen, x) = SeenWith(other, x)
<1>1. CASE x.k = "list"
  <2>1. [i \in DOMAIN x.v |-> seen[x.v[i]]] = [i \in DOMAIN x.v |-> other[x.v[i]]]
    BY <1>1, ElementsOf
  <2>2. SeenWith(seen, x) = Value("list", [i \in DOMAIN x.v |-> seen[x.v[i]]])
    BY <1>1, SeenWithIs
  <2>3. SeenWith(other, x) = Value("list", [i \in DOMAIN x.v |-> other[x.v[i]]])
    BY <1>1, SeenWithIs
  <2> QED BY <2>1, <2>2, <2>3
<1>2. CASE x.k = "map"
  <2> DEFINE es == Carried(x)
  <2>1. DOMAIN es = 1..Len(es)
        /\ \A i \in 1..Len(es) : /\ es[i].key \in Data /\ es[i].val \in Data
                                 /\ Depth[es[i].key] < Depth[x] /\ Depth[es[i].val] < Depth[x]
    BY <1>2, CarriedIs
  <2>2. [i \in DOMAIN es |-> Entry(seen[es[i].key], seen[es[i].val])]
          = [i \in DOMAIN es |-> Entry(other[es[i].key], other[es[i].val])]
    <3> HIDE DEF es
    <3> QED BY <2>1
  <2>3. SeenWith(seen, x) = Value("map", [i \in DOMAIN es |-> Entry(seen[es[i].key], seen[es[i].val])])
    BY <1>2, SeenWithIs
  <2>4. SeenWith(other, x) = Value("map", [i \in DOMAIN es |-> Entry(other[es[i].key], other[es[i].val])])
    BY <1>2, SeenWithIs
  <2> QED BY <2>2, <2>3, <2>4
<1>3. CASE x.k \notin {"list", "map"}
  <2>1. x.k \in IntKinds \/ x.k \in FloatKinds \/ x.k \in {"typed", "struct"}
        \/ x.k \in {"nil", "true", "false", "string", "bytes"}
    BY <1>3, DataAre
  <2> QED BY <2>1, SeenWithIs
<1> QED BY <1>1, <1>2, <1>3

\* f is what Seen evaluates.
IsSeen(f) == f = [x \in Data |-> SeenWith(f, x)]

\* A solution of the recursive definition of Seen exists.
LEMMA SeenExists == \E f : IsSeen(f)
<1> DEFINE D == Data
           V == Universe
           comb == [p \in D \X Maps(D, V) |-> SeenWith(p[2], p[1])]
<1>1. Nil \in V
  BY ValuesAre
<1>2. Depth \in Maps(D, Nat) /\ comb \in Maps(D \X Maps(D, V), V)
  <2>1. Depth \in Maps(D, Nat)
    BY CodecAssumption DEF Maps
  <2>2. \A p \in D \X Maps(D, V) : SeenWith(p[2], p[1]) \in V
    BY SeenWithType
  <2> HIDE DEF D, V
  <2> QED BY <2>1, <2>2 DEF Maps
<1>3. \A x \in D : \A f \in Maps(D, V) : comb[<<x, f>>] = SeenWith(f, x)
  <2> HIDE DEF D, V
  <2> QED OBVIOUS
<1> HIDE DEF comb, V
<1>4. PICK f \in Maps(D, V) : SolvesAll(f, D, Depth, Nil, comb)
  BY <1>1, <1>2, WellFounded
<1>5. ASSUME NEW x \in D PROVE f[x] = SeenWith(f, x)
  <2> DEFINE low == Below(f, D, Depth, x, Nil)
  <2>1. low \in Maps(D, V) /\ \A y \in D : Depth[y] < Depth[x] => low[y] = f[y]
    BY <1>1 DEF Below, Maps
  <2>2. f[x] = comb[<<x, low>>]
    BY <1>4 DEF SolvesAll
  <2> HIDE DEF low
  <2>3. f[x] = SeenWith(low, x)
    BY <1>3, <2>1, <2>2
  <2>4. SeenWith(low, x) = SeenWith(f, x)
    BY <2>1, SeenWithAgrees
  <2> QED BY <2>3, <2>4
<1>6. f = [x \in D |-> f[x]]
  BY DEF Maps
<1>7. IsSeen(f)
  BY <1>5, <1>6 DEF IsSeen
<1> QED BY <1>7

\* Seen is what its definition says.
LEMMA SeenIs == \A x \in Data : Seen[x] = SeenWith(Seen, x)
<1>1. IsSeen(Seen)
  <2> DEFINE g == CHOOSE h : IsSeen(h)
  <2>1. IsSeen(g)
    BY SeenExists
  <2>2. Seen = g
    BY DEF Seen, IsSeen
  <2> HIDE DEF g
  <2> QED BY <2>1, <2>2
<1> DEFINE f == Seen
<1>2. IsSeen(f)
  BY <1>1
<1> HIDE DEF f
<1>3. \A x \in Data : f[x] = SeenWith(f, x)
  BY <1>2 DEF IsSeen
<1> QED BY <1>3 DEF f

\* Soundness is the same with what is the same for the values in a value.
LEMMA SoundWithAgrees ==
    ASSUME NEW x \in Data, NEW sound, NEW other, \A y \in Data : Depth[y] < Depth[x] => sound[y] = other[y]
    PROVE  SoundWith(sound, x) = SoundWith(other, x)
<1>1. CASE x.k = "list"
  <2>1. \A i \in DOMAIN x.v : sound[x.v[i]] = other[x.v[i]]
    BY <1>1, ElementsOf
  <2>2. (\A i \in DOMAIN x.v : sound[x.v[i]]) <=> (\A i \in DOMAIN x.v : other[x.v[i]])
    BY <2>1, Zenon
  <2> QED BY <1>1, <2>2 DEF SoundWith
<1>2. CASE x.k = "map"
  <2>1. \A i \in DOMAIN x.v : sound[x.v[i].key] = other[x.v[i].key] /\ sound[x.v[i].val] = other[x.v[i].val]
    BY <1>2, EntriesAre
  <2> DEFINE apart(i) == \A j \in 1..(i - 1) : Seen[x.v[i].key] # Seen[x.v[j].key]
             body(f) == \A i \in DOMAIN x.v : /\ f[x.v[i].key]
                                              /\ f[x.v[i].val] \/ x.v[i].val.k = "struct"
                                              /\ apart(i)
  <2> HIDE DEF apart
  <2>2. body(sound) <=> body(other)
    BY <2>1, Zenon
  <2>3. \A f : SoundWith(f, x) = /\ x.k \notin {"typed", "struct"}
                                 /\ x.k = "float64" => x.v[1] = 0 \/ x.v[1] >= Power(4)
                                 /\ x.k \in {"string", "bytes", "list", "map"} => Len(x.v) < Power(4)
                                 /\ body(f)
    BY <1>2 DEF SoundWith, apart
  <2> HIDE DEF body
  <2> QED BY <2>2, <2>3
<1>3. CASE x.k \notin {"list", "map"}
  BY <1>3 DEF SoundWith
<1> QED BY <1>1, <1>2, <1>3

\* f is what Sound evaluates.
IsSound(f) == f = [x \in Data |-> SoundWith(f, x)]

\* A solution of the recursive definition of Sound exists.
LEMMA SoundExists == \E f : IsSound(f)
<1> DEFINE D == Data
           V == BOOLEAN
           comb == [p \in D \X Maps(D, V) |-> SoundWith(p[2], p[1])]
<1>1. FALSE \in V
  OBVIOUS
<1>2. Depth \in Maps(D, Nat) /\ comb \in Maps(D \X Maps(D, V), V)
  <2>1. Depth \in Maps(D, Nat)
    BY CodecAssumption DEF Maps
  <2>2. \A p \in D \X Maps(D, V) : SoundWith(p[2], p[1]) \in V
    BY DEF SoundWith
  <2> HIDE DEF D, V
  <2> QED BY <2>1, <2>2 DEF Maps
<1>3. \A x \in D : \A f \in Maps(D, V) : comb[<<x, f>>] = SoundWith(f, x)
  <2> HIDE DEF D, V
  <2> QED OBVIOUS
<1> HIDE DEF comb, V
<1>4. PICK f \in Maps(D, V) : SolvesAll(f, D, Depth, FALSE, comb)
  BY <1>1, <1>2, WellFounded
<1>5. ASSUME NEW x \in D PROVE f[x] = SoundWith(f, x)
  <2> DEFINE low == Below(f, D, Depth, x, FALSE)
  <2>1. low \in Maps(D, V) /\ \A y \in D : Depth[y] < Depth[x] => low[y] = f[y]
    BY <1>1 DEF Below, Maps
  <2>2. f[x] = comb[<<x, low>>]
    BY <1>4 DEF SolvesAll
  <2> HIDE DEF low
  <2>3. f[x] = SoundWith(low, x)
    BY <1>3, <2>1, <2>2
  <2>4. SoundWith(low, x) = SoundWith(f, x)
    BY <2>1, SoundWithAgrees
  <2> QED BY <2>3, <2>4
<1>6. f = [x \in D |-> f[x]]
  BY DEF Maps
<1>7. IsSound(f)
  BY <1>5, <1>6 DEF IsSound
<1> QED BY <1>7

\* Sound is what its definition says.
LEMMA SoundIs == \A x \in Data : Sound[x] = SoundWith(Sound, x)
<1>1. IsSound(Sound)
  <2> DEFINE g == CHOOSE h : IsSound(h)
  <2>1. IsSound(g)
    BY SoundExists
  <2>2. Sound = g
    BY DEF Sound, IsSound
  <2> HIDE DEF g
  <2> QED BY <2>1, <2>2
<1> DEFINE f == Sound
<1>2. IsSound(f)
  BY <1>1
<1> HIDE DEF f
<1>3. \A x \in Data : f[x] = SoundWith(f, x)
  BY <1>2 DEF IsSound
<1> QED BY <1>3 DEF f

-----------------------------------------------------------------------------
(* Decode of what Encode makes *)

\* Decode takes the bytes code for y, and no other: fewer are not enough.
Reads(code, y) ==
    /\ code \in Seq(Byte) /\ code # <<>>
    /\ \A r \in Seq(Byte) : Decode[code \o r] = Decoded("none", y, r)
    /\ \A m \in 0..(Len(code) - 1) : Decode[SubSeq(code, 1, m)].err # "none"

\* The front of two sequences.
LEMMA Cuts ==
    ASSUME NEW S, NEW s \in Seq(S), NEW t \in Seq(S), NEW m \in Nat, m <= Len(s) + Len(t)
    PROVE  /\ m <= Len(s) => SubSeq(s \o t, 1, m) = SubSeq(s, 1, m)
           /\ Len(s) <= m => /\ m - Len(s) \in 0..Len(t) /\ SubSeq(t, 1, m - Len(s)) \in Seq(S)
                             /\ SubSeq(s \o t, 1, m) = s \o SubSeq(t, 1, m - Len(s))
<1> DEFINE u == s \o t
           l == Len(s)
           k == Len(t)
<1>1. /\ l \in Nat /\ k \in Nat /\ u \in Seq(S) /\ Len(u) = l + k /\ m \in Nat
      /\ \A i \in 1..l : u[i] = s[i]
      /\ \A i \in 1..k : u[l + i] = t[i]
  OBVIOUS
<1>2. /\ SubSeq(u, 1, m) \in Seq(S) /\ Len(SubSeq(u, 1, m)) = m
      /\ \A i \in 1..m : SubSeq(u, 1, m)[i] = u[i]
  <2>1. m \in 0..Len(u) /\ 1 \in Nat \ {0} /\ 1 <= m + 1
    BY <1>1
  <2> HIDE DEF u
  <2>2. /\ SubSeq(u, 1, m) \in Seq(S) /\ Len(SubSeq(u, 1, m)) = m - 1 + 1
        /\ \A i \in 1..(m - 1 + 1) : SubSeq(u, 1, m)[i] = u[1 + i - 1]
    BY <1>1, <2>1, Pieces
  <2>3. m - 1 + 1 = m /\ \A i \in Int : 1 + i - 1 = i
    BY <1>1
  <2> QED BY <2>2, <2>3
<1>3. ASSUME m <= l PROVE SubSeq(u, 1, m) = SubSeq(s, 1, m)
  <2>1. m \in 0..Len(s) /\ 1 \in Nat \ {0} /\ 1 <= m + 1
    BY <1>1, <1>3
  <2>2. /\ SubSeq(s, 1, m) \in Seq(S) /\ Len(SubSeq(s, 1, m)) = m - 1 + 1
        /\ \A i \in 1..(m - 1 + 1) : SubSeq(s, 1, m)[i] = s[1 + i - 1]
    BY <2>1, Pieces
  <2>3. m - 1 + 1 = m /\ \A i \in Int : 1 + i - 1 = i
    BY <1>1
  <2>4. Len(SubSeq(s, 1, m)) = m /\ \A i \in 1..m : SubSeq(s, 1, m)[i] = s[i] /\ i \in 1..l
    BY <1>1, <1>3, <2>2, <2>3
  <2> DEFINE a == SubSeq(u, 1, m)
             b == SubSeq(s, 1, m)
  <2>5. a \in Seq(S) /\ b \in Seq(S) /\ Len(a) = Len(b) /\ \A i \in 1..Len(a) : a[i] = b[i]
    BY <1>1, <1>2, <2>2, <2>4
  <2> HIDE DEF a, b
  <2>6. a = b
    BY <2>5, SMTT(40)
  <2> QED BY <2>6 DEF a, b
<1>4. ASSUME l <= m
      PROVE  /\ m - l \in 0..k /\ SubSeq(t, 1, m - l) \in Seq(S)
             /\ SubSeq(u, 1, m) = s \o SubSeq(t, 1, m - l)
  <2> DEFINE c == SubSeq(t, 1, m - l)
  <2>1. m - l \in 0..Len(t) /\ 1 \in Nat \ {0} /\ 1 <= (m - l) + 1
    BY <1>1, <1>4
  <2>2. /\ c \in Seq(S) /\ Len(c) = (m - l) - 1 + 1
        /\ \A i \in 1..((m - l) - 1 + 1) : c[i] = t[1 + i - 1]
    BY <2>1, Pieces
  <2>3. (m - l) - 1 + 1 = m - l /\ \A i \in Int : 1 + i - 1 = i
    BY <1>1
  <2>4. c \in Seq(S) /\ Len(c) = m - l /\ \A i \in 1..(m - l) : c[i] = t[i]
    BY <2>2, <2>3
  <2> HIDE DEF c
  <2> DEFINE a == SubSeq(u, 1, m)
             b == s \o c
  <2>5. b \in Seq(S) /\ Len(b) = m
    <3>1. b \in Seq(S) /\ Len(b) = l + Len(c)
      <4>1. c \in Seq(S)
        BY <2>4
      <4> QED BY <4>1, Parts
    <3>2. l + Len(c) = m
      BY <1>1, <2>4
    <3> HIDE DEF b
    <3> QED BY <2>4, <3>1, <3>2
  <2>6. \A i \in 1..m : a[i] = b[i]
    <3> SUFFICES ASSUME NEW i \in 1..m PROVE a[i] = b[i]
      OBVIOUS
    <3>1. CASE i <= l
      <4>1. i \in 1..l
        BY <3>1
      <4>2. b[i] = s[i]
        BY <2>4, <4>1
      <4> HIDE DEF a, b, u
      <4> QED BY <1>1, <1>2, <4>1, <4>2 DEF a
    <3>2. CASE i > l
      <4>1. PICK j \in 1..(m - l) : i = l + j
        <5>1. i - l \in 1..(m - l) /\ i = l + (i - l)
          BY <1>1, <3>2
        <5> QED BY <5>1
      <4>2. j \in 1..k
        BY <1>1, <2>1
      <4>3. a[i] = t[j]
        <5> HIDE DEF a, b, u
        <5> QED BY <1>1, <1>2, <4>1, <4>2 DEF a
      <4>4. b[i] = c[j] /\ c[j] = t[j]
        <5>1. c[j] = t[j]
          BY <2>4
        <5>2. b[l + j] = c[j]
          <6>1. j \in 1..Len(c)
            BY <2>4
          <6> QED BY <2>4, <6>1
        <5> QED BY <4>1, <5>1, <5>2
      <4> QED BY <4>3, <4>4
    <3>3. i <= l \/ i > l
      <4> HIDE DEF a, b, u
      <4> QED BY <1>1
    <3> QED BY <3>1, <3>2, <3>3
  <2>7. a \in Seq(S) /\ b \in Seq(S) /\ Len(a) = Len(b) /\ \A i \in 1..Len(a) : a[i] = b[i]
    BY <1>2, <2>5, <2>6
  <2> HIDE DEF a, b
  <2>8. a = b
    BY <2>7, SMTT(40)
  <2> QED BY <2>1, <2>4, <2>8 DEF a, b, c
<1> QED BY <1>3, <1>4

\* What Decode does behind a header.
LEMMA FramedDecode ==
    ASSUME NEW hd, NEW tp, NEW n, Frames(hd, tp, n), NEW b \in Seq(Byte)
    PROVE  Decode[hd \o b] = IF tp \in {"list", "map"} THEN Elements(Decode, tp, n, b)
                             ELSE DecodeData(tp, b, n, hd \o b)
<1> DEFINE c == hd \o b
           w == LengthSize(hd[1])
<1>1. /\ hd \in Seq(Byte) /\ hd # <<>> /\ hd[1] \in 128..255 /\ Len(hd) = 1 + w
      /\ TypeOf(hd[1]) = tp /\ ElementCount(c) = n
  BY DEF Frames
<1>2. c \in Seq(Byte) /\ c # <<>> /\ c[1] = hd[1] /\ Len(c) = Len(hd) + Len(b)
  BY <1>1, FirstOf
<1>3. Rest(c, 1 + w) = b
  <2>1. SubSeq(hd \o b, Len(hd) + 1, Len(hd \o b)) = b
    BY <1>1, Parts
  <2> QED BY <1>1, <2>1 DEF Rest
<1>4. ~(Len(c) < 1 + w)
  <2>1. Len(hd) \in Nat /\ Len(b) \in Nat
    BY <1>1
  <2> HIDE DEF c, w
  <2> QED BY <1>1, <1>2, <2>1
<1>5. Decode[c] = DecodeWith(Decode, c)
  BY <1>2, DecodeAnswers
<1>6. ~(c[1] < 128)
  <2>1. \A h \in 128..255 : ~(h < 128)
    OBVIOUS
  <2> HIDE DEF c
  <2> QED BY <1>1, <1>2, <2>1
<1>7. DecodeWith(Decode, c) =
        IF tp \in {"list", "map"} THEN Elements(Decode, tp, n, b) ELSE DecodeData(tp, b, n, c)
  <2>1. /\ c # <<>> /\ ~(c[1] < 128) /\ ~(Len(c) < 1 + LengthSize(c[1])) /\ TypeOf(c[1]) = tp
        /\ Rest(c, 1 + LengthSize(c[1])) = b /\ ElementCount(c) = n
    BY <1>1, <1>2, <1>3, <1>4, <1>6
  <2> HIDE DEF c
  <2> QED BY <2>1 DEF DecodeWith
<1> QED BY <1>5, <1>7

\* A header cut short is not enough.
LEMMA FramedCut ==
    ASSUME NEW hd, NEW tp, NEW n, Frames(hd, tp, n), NEW m \in 0..(Len(hd) - 1)
    PROVE  Decode[SubSeq(hd, 1, m)].err # "none"
<1> DEFINE c == SubSeq(hd, 1, m)
           w == LengthSize(hd[1])
<1>1. hd \in Seq(Byte) /\ hd # <<>> /\ hd[1] \in 128..255 /\ Len(hd) = 1 + w
  BY DEF Frames
<1>2. c \in Seq(Byte) /\ Len(c) = m /\ (m # 0 => c[1] = hd[1])
  <2>1. m \in 0..Len(hd) /\ 1 \in Nat \ {0} /\ 1 <= m + 1 /\ m - 1 + 1 = m
    BY <1>1
  <2>2. /\ c \in Seq(Byte) /\ Len(c) = m - 1 + 1
        /\ \A i \in 1..(m - 1 + 1) : c[i] = hd[1 + i - 1]
    BY <1>1, <2>1, Pieces
  <2>3. m # 0 => 1 \in 1..(m - 1 + 1) /\ 1 + 1 - 1 = 1
    BY <2>1
  <2> HIDE DEF c
  <2> QED BY <2>1, <2>2, <2>3
<1>3. Decode[c] = DecodeWith(Decode, c)
  BY <1>2, DecodeAnswers
<1>4. CASE m = 0
  <2>1. c = <<>>
    BY <1>2, <1>4
  <2> QED BY <1>3, <2>1 DEF DecodeWith, Decoded
<1>5. CASE m # 0
  <2>1. c # <<>> /\ ~(c[1] < 128) /\ Len(c) < 1 + LengthSize(c[1])
    <3> HIDE DEF c
    <3>1. Len(c) # 0
      BY <1>2, <1>5
    <3>2. c # <<>>
      BY <3>1
    <3>3. \A h \in 128..255 : ~(h < 128)
      OBVIOUS
    <3>4. c[1] \in 128..255 /\ LengthSize(c[1]) = w
      BY <1>1, <1>2, <1>5
    <3>5. Len(c) = m /\ m \in Int /\ m <= Len(hd) - 1 /\ Len(hd) = 1 + w /\ Len(hd) \in Nat
      BY <1>1, <1>2
    <3>6. Len(c) < 1 + LengthSize(c[1])
      <4> HIDE DEF w
      <4> QED BY <3>4, <3>5
    <3> QED BY <3>2, <3>3, <3>4, <3>6
  <2> HIDE DEF c
  <2>2. DecodeWith(Decode, c) = Decoded("short", Nil, c)
    BY <2>1 DEF DecodeWith
  <2>3. Decode[c].err # "none"
    BY <1>3, <2>2 DEF Decoded
  <2> QED BY <2>3 DEF c
<1> QED BY <1>4, <1>5

\* A header and what it announces.
LEMMA BehindHeader ==
    ASSUME NEW tp, NEW n, NEW d \in Seq(Byte), NEW hd, Frames(hd, tp, n), NEW y,
           \A r \in Seq(Byte) : Decode[hd \o (d \o r)] = Decoded("none", y, r),
           \A m \in 0..(Len(d) - 1) : Decode[hd \o SubSeq(d, 1, m)].err # "none"
    PROVE  Reads(hd \o d, y)
<1>1. hd \in Seq(Byte) /\ hd # <<>> /\ Len(hd) \in Nat /\ Len(d) \in Nat
  <2>1. hd \in Seq(Byte) /\ hd # <<>>
    BY DEF Frames
  <2> QED BY <2>1
<1>2. hd \o d \in Seq(Byte) /\ hd \o d # <<>> /\ Len(hd \o d) = Len(hd) + Len(d)
  BY <1>1, FirstOf
<1>3. ASSUME NEW r \in Seq(Byte) PROVE Decode[(hd \o d) \o r] = Decoded("none", y, r)
  <2>1. (hd \o d) \o r = hd \o (d \o r)
    BY <1>1
  <2> QED BY <2>1
<1>4. ASSUME NEW m \in 0..(Len(hd \o d) - 1) PROVE Decode[SubSeq(hd \o d, 1, m)].err # "none"
  <2>1. m \in Nat /\ m < Len(hd) + Len(d)
    BY <1>1, <1>2
  <2>2. CASE m < Len(hd)
    <3>1. SubSeq(hd \o d, 1, m) = SubSeq(hd, 1, m)
      <4>1. hd \in Seq(Byte) /\ m \in Nat /\ m <= Len(hd) + Len(d) /\ m <= Len(hd)
        BY <1>1, <2>1, <2>2
      <4> QED BY <4>1, Cuts
    <3>2. m \in 0..(Len(hd) - 1)
      BY <1>1, <2>1, <2>2
    <3>3. Decode[SubSeq(hd, 1, m)].err # "none"
      BY <3>2, FramedCut
    <3> QED BY <3>1, <3>3
  <2>3. CASE Len(hd) <= m
    <3>1. SubSeq(hd \o d, 1, m) = hd \o SubSeq(d, 1, m - Len(hd))
      <4>1. hd \in Seq(Byte) /\ m \in Nat /\ m <= Len(hd) + Len(d) /\ Len(hd) <= m
        BY <1>1, <2>1, <2>3
      <4> QED BY <4>1, Cuts
    <3>2. m - Len(hd) \in 0..(Len(d) - 1)
      BY <1>1, <2>1, <2>3
    <3> QED BY <3>1, <3>2
  <2> QED BY <1>1, <2>1, <2>2, <2>3
<1> QED BY <1>2, <1>3, <1>4 DEF Reads

\* What is neither a list nor a map, behind its header.
LEMMA FramedReads ==
    ASSUME NEW tp, tp \notin {"list", "map"}, NEW d \in Seq(Byte), NEW hd, Frames(hd, tp, Len(d)), NEW y,
           \A r, b \in Seq(Byte) : DecodeData(tp, d \o r, Len(d), b) = Decoded("none", y, r)
    PROVE  Reads(hd \o d, y)
<1>1. hd \in Seq(Byte) /\ Len(d) \in Nat
  BY DEF Frames
<1>2. ASSUME NEW r \in Seq(Byte) PROVE Decode[hd \o (d \o r)] = Decoded("none", y, r)
  <2>1. d \o r \in Seq(Byte) /\ hd \o (d \o r) \in Seq(Byte)
    BY <1>1
  <2>2. Decode[hd \o (d \o r)] = DecodeData(tp, d \o r, Len(d), hd \o (d \o r))
    BY <2>1, FramedDecode, ZenonT(60)
  <2> QED BY <2>1, <2>2
<1>3. ASSUME NEW m \in 0..(Len(d) - 1) PROVE Decode[hd \o SubSeq(d, 1, m)].err # "none"
  <2> DEFINE b == SubSeq(d, 1, m)
  <2>1. b \in Seq(Byte) /\ Len(b) < Len(d)
    <3>1. m \in 0..Len(d) /\ 1 \in Nat \ {0} /\ 1 <= m + 1
      BY <1>1
    <3>2. b \in Seq(Byte) /\ Len(b) = m - 1 + 1
      BY <3>1, Pieces
    <3> HIDE DEF b
    <3> QED BY <1>1, <3>2
  <2> HIDE DEF b
  <2>2. Decode[hd \o b] = DecodeData(tp, b, Len(d), hd \o b)
    BY <2>1, FramedDecode
  <2>3. DecodeData(tp, b, Len(d), hd \o b) = Short
    BY <2>1 DEF DecodeData, IsShort
  <2>4. Short.err # "none"
    BY DEF Short, Decoded
  <2>5. Decode[hd \o b].err # "none"
    BY <2>2, <2>3, <2>4
  <2> QED BY <2>5 DEF b
<1> QED BY <1>2, <1>3, BehindHeader

\* The data of a type that are there.
LEMMA DecodeDataIs ==
    ASSUME NEW tp, NEW data, NEW count, NEW bs, ~IsShort(data, count), ~(Len(data) < TypeSize(tp))
    PROVE  /\ tp \in IntKinds =>
                DecodeData(tp, data, count, bs) =
                    Decoded("none", Num(GoKind(tp), Convert(tp, NumberAt(data, 1, TypeSize(tp)))), Rest(data, count))
           /\ tp \in FloatKinds =>
                DecodeData(tp, data, count, bs) =
                    Decoded("none", Num(tp, NumberAt(data, 1, TypeSize(tp))), Rest(data, count))
           /\ tp = "nil" => DecodeData(tp, data, count, bs) = Decoded("none", Nil, Rest(data, count))
           /\ tp \in {"string", "bytes"} =>
                DecodeData(tp, data, count, bs) =
                    Decoded("none", Value(tp, SubSeq(data, 1, count)), Rest(data, count))
           /\ tp \in {"true", "false"} =>
                DecodeData(tp, data, count, bs) = Decoded("none", Value(tp, <<>>), data)
<1> DEFINE n == NumberAt(data, 1, TypeSize(tp))
           some == SubSeq(data, 1, count)
           is(x) == Decoded("none", x, Rest(data, count))
           dd == DecodeData(tp, data, count, bs)
<1>1. dd = CASE tp \in IntKinds -> is(Num(GoKind(tp), Convert(tp, n)))
             [] tp \in FloatKinds -> is(Num(tp, n))
             [] tp = "nil" -> is(Nil)
             [] tp \in {"string", "bytes"} -> is(Value(tp, some))
             [] tp \in {"true", "false"} -> Decoded("none", Value(tp, <<>>), data)
             [] tp = "bigNumber" -> is(Num("int", IF IsNumeral(some) THEN ParseInt(some) ELSE 0))
             [] OTHER -> Decoded("none", Nil, bs)
  BY DEF DecodeData
<1> HIDE DEF n, some, dd, is
<1>2. tp \in IntKinds => dd = is(Num(GoKind(tp), Convert(tp, n)))
  BY <1>1, KindsAre DEF FloatKinds
<1>3. tp \in FloatKinds => dd = is(Num(tp, n))
  BY <1>1, KindsAre DEF FloatKinds
<1>4. tp = "nil" => dd = is(Nil)
  BY <1>1, KindsAre DEF FloatKinds
<1>5. tp \in {"string", "bytes"} => dd = is(Value(tp, some))
  BY <1>1, KindsAre DEF FloatKinds
<1>6. tp \in {"true", "false"} => dd = Decoded("none", Value(tp, <<>>), data)
  BY <1>1, KindsAre DEF FloatKinds
<1> QED BY <1>2, <1>3, <1>4, <1>5, <1>6 DEF n, some, dd, is

\* What is behind data.
LEMMA BehindData ==
    ASSUME NEW d \in Seq(Byte), NEW r \in Seq(Byte)
    PROVE  /\ d \o r \in Seq(Byte) /\ Len(d \o r) = Len(d) + Len(r) /\ Len(d) \in Nat /\ Len(r) \in Nat
           /\ ~IsShort(d \o r, Len(d)) /\ Rest(d \o r, Len(d)) = r /\ SubSeq(d \o r, 1, Len(d)) = d
<1> DEFINE c == d \o r
<1>1. c \in Seq(Byte) /\ Len(c) = Len(d) + Len(r) /\ SubSeq(c, 1, Len(d)) = d
      /\ SubSeq(c, Len(d) + 1, Len(c)) = r
  BY Parts
<1>2. Len(d) \in Nat /\ Len(r) \in Nat
  OBVIOUS
<1> HIDE DEF c
<1>3. ~IsShort(c, Len(d)) /\ Rest(c, Len(d)) = r
  BY <1>1, <1>2 DEF IsShort, Rest
<1> QED BY <1>1, <1>2, <1>3 DEF c

\* A number behind the header of its type.
LEMMA NumberReads ==
    ASSUME NEW tp \in ToSet(Types), NEW w \in {1, 2, 4, 8}, w = Width(tp), NEW n \in Int, NEW y,
           \/ tp \in IntKinds /\ y = Num(GoKind(tp), Convert(tp, n % Power(w)))
           \/ tp \in FloatKinds /\ y = Num(tp, n % Power(w))
    PROVE  Reads(<<Header(tp, 0)>> \o Digits(n, w), y)
<1> DEFINE hd == <<Header(tp, 0)>>
           d == Digits(n, w)
<1>1. d \in Seq(Byte) /\ Len(d) = w
      /\ \A b, i : i \in Int /\ Spells(b, i, d) => NumberAt(b, i, w) = n % Power(w)
  BY DigitsAre
<1>2. TypeSize(tp) = w
  BY Widths
<1>3. Frames(hd, tp, Len(d))
  <2>1. Frames(hd, tp, TypeSize(tp))
    BY FramesPlain
  <2> HIDE DEF hd, d
  <2> QED BY <1>1, <1>2, <2>1
<1> HIDE DEF hd, d
<1>4. tp \notin {"list", "map"}
  BY KindsAre DEF FloatKinds
<1>5. ASSUME NEW r \in Seq(Byte), NEW b \in Seq(Byte)
      PROVE  DecodeData(tp, d \o r, Len(d), b) = Decoded("none", y, r)
  <2> DEFINE c == d \o r
  <2>1. /\ Len(c) = Len(d) + Len(r) /\ Len(d) \in Nat /\ Len(r) \in Nat
        /\ ~IsShort(c, Len(d)) /\ Rest(c, Len(d)) = r
    BY <1>1, BehindData
  <2>2. NumberAt(c, 1, w) = n % Power(w)
    <3>1. Spells(c, 1, d)
      <4> SUFFICES ASSUME NEW j \in 1..Len(d) PROVE c[1 + j - 1] = d[j]
        BY DEF Spells
      <4>1. 1 + j - 1 = j
        BY <2>1
      <4>2. c[j] = d[j]
        <5>1. d \in Seq(Byte)
          BY <1>1
        <5> QED BY <5>1
      <4> QED BY <4>1, <4>2
    <3> QED BY <1>1, <3>1
  <2> HIDE DEF c
  <2>3. ~(Len(c) < TypeSize(tp))
    BY <1>1, <1>2, <2>1
  <2>4. CASE tp \in IntKinds /\ y = Num(GoKind(tp), Convert(tp, n % Power(w)))
    <3>1. DecodeData(tp, c, Len(d), b) =
            Decoded("none", Num(GoKind(tp), Convert(tp, NumberAt(c, 1, TypeSize(tp)))), Rest(c, Len(d)))
      BY <2>1, <2>3, <2>4, DecodeDataIs
    <3> QED BY <1>2, <2>1, <2>2, <2>4, <3>1 DEF c
  <2>5. CASE tp \in FloatKinds /\ y = Num(tp, n % Power(w))
    <3>1. DecodeData(tp, c, Len(d), b) = Decoded("none", Num(tp, NumberAt(c, 1, TypeSize(tp))), Rest(c, Len(d)))
      BY <2>1, <2>3, <2>5, DecodeDataIs
    <3> QED BY <1>2, <2>1, <2>2, <2>5, <3>1 DEF c
  <2> QED BY <2>4, <2>5
<1>6. Reads(hd \o d, y)
  BY <1>1, <1>3, <1>4, <1>5, FramedReads
<1> QED BY <1>6 DEF hd, d

\* A negative number has the sign again that it had.
LEMMA SignsAgain ==
    ASSUME NEW w \in {1, 2, 4, 8}, NEW n \in Int, -(Power(w) \div 2) <= n, n < 0
    PROVE  Sign(n % Power(w), w) = n
<1> DEFINE P == Power(w)
           H == Power(w) \div 2
<1>1. P \in Nat \ {0} /\ H \in Nat /\ P = 2 * H
  <2>1. P \in Nat \ {0}
    BY Powers
  <2> QED BY <2>1, Halves
<1>2. -H <= n /\ n < 0
  OBVIOUS
<1>3. \A u : Sign(u, w) = IF (u % P) < H THEN u % P ELSE (u % P) - P
  BY DEF Sign, Unsign
<1> HIDE DEF P, H
<1>4. n % P = n + P
  <2>1. n + P \in 0..(P - 1) /\ -1 \in Int /\ n = P * (-1) + (n + P)
    BY <1>1, <1>2
  <2> QED BY <1>1, <2>1, Remainder
<1>5. (n + P) % P = n + P
  <2>1. n + P \in 0..(P - 1) /\ 0 \in Int /\ n + P = P * 0 + (n + P) /\ n + P \in Int
    BY <1>1, <1>2
  <2> QED BY <1>1, <2>1, Remainder
<1>6. Sign(n % P, w) = n
  <2>1. ~((n + P) < H) /\ (n + P) - P = n
    BY <1>1, <1>2
  <2> QED BY <1>3, <1>4, <1>5, <2>1
<1> QED BY <1>6 DEF P

\* A number is decoded as itself.
LEMMA IntReads ==
    ASSUME NEW n \in Int, -(Power(8) \div 2) <= n, n < Power(8)
    PROVE  Reads(EncodeInt(n), Num(IF n < Radix \div 2 THEN "int" ELSE "uint", n))
<1> DEFINE y == Num(IF n < Radix \div 2 THEN "int" ELSE "uint", n)
<1>0. Radix \div 2 \in 1..128
  BY Powers
<1>1. CASE n \in 0..(Radix \div 2 - 1)
  <2> DEFINE c == <<n>>
  <2>1. n \in Nat /\ n < 128 /\ n < Radix \div 2
    BY <1>0, <1>1
  <2>2. n \in Byte
    BY <2>1 DEF Byte
  <2>3. c \in Seq(Byte) /\ c # <<>> /\ Len(c) = 1 /\ c[1] = n
    <3>1. c \in Seq(Byte)
      BY <2>2
    <3> QED BY <3>1
  <2>4. EncodeInt(n) = c /\ y = Num("int", n)
    BY <1>1, <2>1 DEF EncodeInt
  <2> HIDE DEF c, y
  <2>5. ASSUME NEW r \in Seq(Byte) PROVE Decode[c \o r] = Decoded("none", y, r)
    <3> DEFINE b == c \o r
    <3>1. b \in Seq(Byte) /\ b # <<>> /\ b[1] = n
      BY <2>3, FirstOf
    <3>2. Rest(b, 1) = r
      <4>1. Rest(c \o r, Len(c)) = r
        BY <2>3, BehindData
      <4> QED BY <2>3, <4>1
    <3> HIDE DEF b
    <3>3. Decode[b] = DecodeWith(Decode, b)
      BY <3>1, DecodeAnswers
    <3>4. DecodeWith(Decode, b) = Decoded("none", Num("int", n), r)
      BY <2>1, <3>1, <3>2 DEF DecodeWith
    <3> QED BY <2>4, <3>3, <3>4 DEF b
  <2>6. ASSUME NEW m \in 0..(Len(c) - 1) PROVE Decode[SubSeq(c, 1, m)].err # "none"
    <3>1. m = 0
      BY <2>3
    <3>2. SubSeq(c, 1, m) = <<>>
      BY <2>3, <3>1
    <3>3. <<>> \in Seq(Byte)
      OBVIOUS
    <3>4. Decode[<<>>] = DecodeWith(Decode, <<>>)
      BY <3>3, DecodeAnswers
    <3>5. DecodeWith(Decode, <<>>) = Decoded("empty", Nil, <<>>)
      BY DEF DecodeWith
    <3>6. Decode[<<>>].err = "empty"
      BY <3>4, <3>5 DEF Decoded
    <3> QED BY <3>2, <3>6
  <2>7. Reads(c, y)
    BY <2>3, <2>5, <2>6 DEF Reads
  <2> QED BY <2>4, <2>7 DEF y
<1>2. CASE n \notin 0..(Radix \div 2 - 1)
  <2> DEFINE w == Smallest(n)
             t == IntType(n < 0, w)
  <2>1. w \in {1, 2, 4, 8} /\ -(Power(w) \div 2) <= n /\ n < Power(w)
    <3>1. w \in {1, 2, 4, 8} /\ n \in (-(Power(w) \div 2))..(Power(w) - 1)
      BY SmallestIs
    <3>2. Power(w) \in Int /\ Power(w) \div 2 \in Int
      <4>1. Power(w) \in Int
        BY <3>1, Powers
      <4> QED BY <3>1, <4>1, Halves
    <3> HIDE DEF w
    <3> QED BY <3>1, <3>2
  <2>2. EncodeInt(n) = <<Header(t, 0)>> \o Digits(n, w)
    BY <1>2 DEF EncodeInt
  <2> HIDE DEF w
  <2>3. t \in ToSet(Types) /\ t \in IntKinds /\ Width(t) = w /\ (t \in SignedKinds <=> n < 0)
    <3>1. (n < 0) \in BOOLEAN
      OBVIOUS
    <3> QED BY <2>1, <3>1, IntTypeIs
  <2> HIDE DEF t
  <2>4. y = Num(GoKind(t), Convert(t, n % Power(w)))
    <3>1. CASE n < 0
      <4>1. Convert(t, n % Power(w)) = n
        BY <2>1, <2>3, <3>1, SignsAgain DEF Convert
      <4>2. GoKind(t) = "int" /\ y = Num("int", n)
        BY <1>0, <2>3, <3>1 DEF GoKind
      <4> QED BY <4>1, <4>2
    <3>2. CASE ~(n < 0)
      <4>1. n % Power(w) = n
        <5>1. n \in Nat
          BY <3>2
        <5> QED BY <2>1, <5>1, Fits
      <4>2. Convert(t, n % Power(w)) = n
        BY <2>3, <3>2, <4>1 DEF Convert, Unsign
      <4>3. GoKind(t) = "uint"
        BY <2>3, <3>2 DEF GoKind
      <4>4. y = Num("uint", n)
        <5>1. ~(n < Radix \div 2)
          BY <1>0, <1>2, <3>2
        <5> QED BY <5>1
      <4> HIDE DEF y
      <4> QED BY <4>2, <4>3, <4>4
    <3> QED BY <3>1, <3>2
  <2> HIDE DEF y
  <2>5. Reads(<<Header(t, 0)>> \o Digits(n, w), y)
    BY <2>1, <2>3, <2>4, NumberReads
  <2> QED BY <2>2, <2>5 DEF y
<1> QED BY <1>1, <1>2

\* Bits are decoded as themselves.
LEMMA FloatReads ==
    ASSUME NEW n \in Nat, n < Power(8)
    PROVE  /\ n < Power(4) => Reads(EncodeFloat(n), Num("float32", n))
           /\ n >= Power(4) => Reads(EncodeFloat(n), Num("float64", n))
<1>1. /\ "float32" \in ToSet(Types) /\ "float64" \in ToSet(Types)
      /\ Width("float32") = 4 /\ Width("float64") = 8
      /\ "float32" \in FloatKinds /\ "float64" \in FloatKinds
      /\ Power(4) \in Nat /\ n \in Int
  <2>1. Width("float32") = 4 /\ Width("float64") = 8 /\ "float32" \in FloatKinds /\ "float64" \in FloatKinds
    BY DEF Width, FloatKinds
  <2>2. "float32" \in ToSet(Types) /\ "float64" \in ToSet(Types)
    BY TypesAre
  <2>3. Power(4) \in Nat /\ n \in Int
    BY Powers
  <2> QED BY <2>1, <2>2, <2>3
<1>2. ASSUME n < Power(4) PROVE Reads(EncodeFloat(n), Num("float32", n))
  <2>1. n % Power(4) = n
    BY <1>2, Fits
  <2>2. Reads(<<Header("float32", 0)>> \o Digits(n, 4), Num("float32", n % Power(4)))
    <3>1. 4 \in {1, 2, 4, 8}
      OBVIOUS
    <3> QED BY <1>1, <3>1, NumberReads
  <2> QED BY <1>2, <2>1, <2>2 DEF EncodeFloat
<1>3. ASSUME n >= Power(4) PROVE Reads(EncodeFloat(n), Num("float64", n))
  <2>1. n % Power(8) = n
    BY Fits
  <2>2. Reads(<<Header("float64", 0)>> \o Digits(n, 8), Num("float64", n % Power(8)))
    <3>1. 8 \in {1, 2, 4, 8}
      OBVIOUS
    <3> QED BY <1>1, <3>1, NumberReads
  <2>3. ~(n < Power(4))
    BY <1>1, <1>3
  <2> QED BY <2>1, <2>2, <2>3 DEF EncodeFloat
<1> QED BY <1>2, <1>3

\* Nil, true and false.
LEMMA PlainReads ==
    ASSUME NEW k \in {"nil", "true", "false"}
    PROVE  Reads(<<Header(k, 0)>>, Value(k, <<>>))
<1> DEFINE hd == <<Header(k, 0)>>
           d == <<>>
<1>1. k \in ToSet(Types) /\ TypeSize(k) = 0 /\ k \notin {"list", "map"}
  BY TypesAre, KindsAre DEF TypeSize, FloatKinds
<1>2. d \in Seq(Byte) /\ Len(d) = 0
  OBVIOUS
<1>3. Frames(hd, k, Len(d))
  <2>1. Frames(hd, k, TypeSize(k))
    BY <1>1, FramesPlain
  <2> QED BY <1>1, <1>2, <2>1
<1> HIDE DEF d
<1>4. ASSUME NEW r \in Seq(Byte), NEW b \in Seq(Byte)
      PROVE  DecodeData(k, d \o r, Len(d), b) = Decoded("none", Value(k, <<>>), r)
  <2> DEFINE c == d \o r
  <2>1. /\ Len(c) = Len(d) + Len(r) /\ Len(r) \in Nat
        /\ ~IsShort(c, Len(d)) /\ Rest(c, Len(d)) = r
    BY <1>2, BehindData
  <2>2. c = r
    BY DEF d
  <2>3. ~(Len(c) < TypeSize(k))
    BY <1>1, <2>1, <2>2
  <2> HIDE DEF c
  <2>4. /\ k = "nil" => DecodeData(k, c, Len(d), b) = Decoded("none", Nil, Rest(c, Len(d)))
        /\ k \in {"true", "false"} => DecodeData(k, c, Len(d), b) = Decoded("none", Value(k, <<>>), c)
    BY <2>1, <2>3, DecodeDataIs
  <2> QED BY <2>1, <2>2, <2>4 DEF Nil, c
<1> HIDE DEF hd
<1> DEFINE y == Value(k, <<>>)
<1>5. Reads(hd \o d, y)
  <2>1. \A r, b \in Seq(Byte) : DecodeData(k, d \o r, Len(d), b) = Decoded("none", y, r)
    BY <1>4
  <2>2. k \notin {"list", "map"} /\ d \in Seq(Byte)
    BY <1>1, <1>2
  <2> HIDE DEF y
  <2> QED BY <1>3, <2>1, <2>2, FramedReads
<1>6. hd \o d = hd
  <2>1. hd \in Seq(Byte)
    BY <1>3 DEF Frames
  <2> QED BY <2>1 DEF d
<1> QED BY <1>5, <1>6 DEF hd

\* A string or bytes.
LEMMA TextReads ==
    ASSUME NEW k \in {"string", "bytes"}, NEW d \in Seq(Byte), Len(d) < Power(4)
    PROVE  Reads(HeaderAndLength(k, Len(d)) \o d, Value(k, d))
<1> DEFINE hd == HeaderAndLength(k, Len(d))
<1>1. k \in ToSet(Types) /\ TypeSize(k) = 0 /\ k \notin {"list", "map"}
  BY TypesAre, KindsAre DEF TypeSize, FloatKinds
<1>2. Frames(hd, k, Len(d))
  <2>1. Len(d) \in Nat
    OBVIOUS
  <2> QED BY <1>1, <2>1, FramesLength
<1>3. ASSUME NEW r \in Seq(Byte), NEW b \in Seq(Byte)
      PROVE  DecodeData(k, d \o r, Len(d), b) = Decoded("none", Value(k, d), r)
  <2> DEFINE c == d \o r
  <2>1. /\ Len(c) = Len(d) + Len(r) /\ Len(d) \in Nat /\ Len(r) \in Nat
        /\ ~IsShort(c, Len(d)) /\ Rest(c, Len(d)) = r /\ SubSeq(c, 1, Len(d)) = d
    BY BehindData
  <2> HIDE DEF c
  <2>2. ~(Len(c) < TypeSize(k))
    BY <1>1, <2>1
  <2>3. DecodeData(k, c, Len(d), b) = Decoded("none", Value(k, SubSeq(c, 1, Len(d))), Rest(c, Len(d)))
    BY <2>1, <2>2, DecodeDataIs, SMTT(40)
  <2> QED BY <2>1, <2>3 DEF c
<1> HIDE DEF hd
<1>4. Reads(hd \o d, Value(k, d))
  BY <1>1, <1>2, <1>3, FramedReads
<1> QED BY <1>4 DEF hd

\* One iteration of Decode's loop takes the bytes code, and no other, and turns v into u.
Takes(code, v, u) ==
    /\ code \in Seq(Byte)
    /\ \A r \in Seq(Byte) : Another(Decode, Decoded("none", v, code \o r)) = Decoded("none", u, r)
    /\ \A m \in 0..(Len(code) - 1) : Another(Decode, Decoded("none", v, SubSeq(code, 1, m))).err # "none"

\* One more element of a list.
LEMMA ListTakes ==
    ASSUME NEW code, NEW y, Reads(code, y), NEW s
    PROVE  Takes(code, Value("list", s), Value("list", Append(s, y)))
<1> DEFINE v == Value("list", s)
<1>1. v # Nil /\ v.k = "list" /\ v.v = s
  BY DEF Value, Nil
<1> HIDE DEF v
<1>2. \A b : /\ Decoded("none", v, b).err = "none" /\ Decoded("none", v, b).val = v
             /\ Decoded("none", v, b).rest = b
  BY DEF Decoded
<1>3. ASSUME NEW b, Decode[b].err # "none" PROVE Another(Decode, Decoded("none", v, b)).err # "none"
  <2>1. Another(Decode, Decoded("none", v, b)) = Decoded(Decode[b].err, Nil, <<>>)
    BY <1>1, <1>2, <1>3 DEF Another
  <2> QED BY <1>3, <2>1 DEF Decoded
<1>4. ASSUME NEW b, NEW r, Decode[b] = Decoded("none", y, r)
      PROVE  Another(Decode, Decoded("none", v, b)) = Decoded("none", Value("list", Append(s, y)), r)
  <2>1. Decode[b].err = "none" /\ Decode[b].val = y /\ Decode[b].rest = r
    BY <1>4 DEF Decoded
  <2> QED BY <1>1, <1>2, <2>1 DEF Another
<1>5. /\ code \in Seq(Byte)
      /\ \A r \in Seq(Byte) : Decode[code \o r] = Decoded("none", y, r)
      /\ \A m \in 0..(Len(code) - 1) : Decode[SubSeq(code, 1, m)].err # "none"
  BY DEF Reads
<1>6. Takes(code, v, Value("list", Append(s, y)))
  BY <1>3, <1>4, <1>5 DEF Takes
<1> QED BY <1>6 DEF v

\* One more entry of a map, with a key that it does not have.
LEMMA MapTakes ==
    ASSUME NEW c, NEW d, NEW key, NEW y, Reads(c, key), Reads(d, y), Hashable(key),
           NEW s, \A i \in DOMAIN s : ~SameKey(s[i].key, key)
    PROVE  Takes(c \o d, Value("map", s), Value("map", Append(s, Entry(key, y))))
<1> DEFINE v == Value("map", s)
           u == Value("map", Append(s, Entry(key, y)))
<1>1. v # Nil /\ v.k # "list" /\ v.v = s
  BY DEF Value, Nil
<1>2. Put(s, Entry(key, y)) = Append(s, Entry(key, y))
  <2>1. Entry(key, y).key = key
    BY DEF Entry
  <2> QED BY <2>1 DEF Put
<1> HIDE DEF v
<1>3. \A b : /\ Decoded("none", v, b).err = "none" /\ Decoded("none", v, b).val = v
             /\ Decoded("none", v, b).rest = b
  BY DEF Decoded
<1>4. ASSUME NEW b, Decode[b].err # "none" PROVE Another(Decode, Decoded("none", v, b)).err # "none"
  <2>1. Another(Decode, Decoded("none", v, b)) = Decoded(Decode[b].err, Nil, <<>>)
    BY <1>1, <1>3, <1>4 DEF Another
  <2> QED BY <1>4, <2>1 DEF Decoded
<1>5. ASSUME NEW b, NEW r, Decode[b] = Decoded("none", key, r), Decode[r].err # "none"
      PROVE  Another(Decode, Decoded("none", v, b)).err # "none"
  <2>1. Decode[b].err = "none" /\ Decode[b].rest = r
    BY <1>5 DEF Decoded
  <2>2. Another(Decode, Decoded("none", v, b)) = Decoded(Decode[r].err, Nil, <<>>)
    BY <1>1, <1>3, <1>5, <2>1 DEF Another
  <2> QED BY <1>5, <2>2 DEF Decoded
<1>6. ASSUME NEW b, NEW r, NEW q, Decode[b] = Decoded("none", key, r), Decode[r] = Decoded("none", y, q)
      PROVE  Another(Decode, Decoded("none", v, b)) = Decoded("none", u, q)
  <2>1. Decode[b].err = "none" /\ Decode[b].val = key /\ Decode[b].rest = r
    BY <1>6 DEF Decoded
  <2>2. Decode[r].err = "none" /\ Decode[r].val = y /\ Decode[r].rest = q
    BY <1>6 DEF Decoded
  <2> QED BY <1>1, <1>2, <1>3, <2>1, <2>2 DEF Another
<1> HIDE DEF u
<1>7. /\ c \in Seq(Byte) /\ Len(c) \in Nat
      /\ \A r \in Seq(Byte) : Decode[c \o r] = Decoded("none", key, r)
      /\ \A m \in 0..(Len(c) - 1) : Decode[SubSeq(c, 1, m)].err # "none"
  <2>1. c \in Seq(Byte)
    BY DEF Reads
  <2> QED BY <2>1 DEF Reads
<1>8. /\ d \in Seq(Byte) /\ Len(d) \in Nat
      /\ \A r \in Seq(Byte) : Decode[d \o r] = Decoded("none", y, r)
      /\ \A m \in 0..(Len(d) - 1) : Decode[SubSeq(d, 1, m)].err # "none"
  <2>1. d \in Seq(Byte)
    BY DEF Reads
  <2> QED BY <2>1 DEF Reads
<1>9. c \o d \in Seq(Byte) /\ Len(c \o d) = Len(c) + Len(d)
  BY <1>7, <1>8, Parts
<1>10. ASSUME NEW r \in Seq(Byte) PROVE Another(Decode, Decoded("none", v, (c \o d) \o r)) = Decoded("none", u, r)
  <2>1. (c \o d) \o r = c \o (d \o r) /\ d \o r \in Seq(Byte)
    BY <1>7, <1>8
  <2>2. Decode[c \o (d \o r)] = Decoded("none", key, d \o r) /\ Decode[d \o r] = Decoded("none", y, r)
    BY <1>7, <1>8, <2>1
  <2> QED BY <1>6, <2>1, <2>2
<1>11. ASSUME NEW m \in 0..(Len(c \o d) - 1)
       PROVE  Another(Decode, Decoded("none", v, SubSeq(c \o d, 1, m))).err # "none"
  <2>1. m \in Nat /\ m < Len(c) + Len(d)
    BY <1>7, <1>8, <1>9
  <2>2. CASE m < Len(c)
    <3>1. SubSeq(c \o d, 1, m) = SubSeq(c, 1, m)
      <4>1. c \in Seq(Byte) /\ d \in Seq(Byte) /\ m \in Nat /\ m <= Len(c) + Len(d) /\ m <= Len(c)
        BY <1>7, <1>8, <2>1, <2>2
      <4> QED BY <4>1, Cuts
    <3>2. m \in 0..(Len(c) - 1)
      BY <1>7, <2>1, <2>2
    <3>3. Decode[SubSeq(c, 1, m)].err # "none"
      BY <1>7, <3>2
    <3> QED BY <1>4, <3>1, <3>3
  <2>3. CASE Len(c) <= m
    <3> DEFINE b == SubSeq(d, 1, m - Len(c))
    <3>1. SubSeq(c \o d, 1, m) = c \o b /\ b \in Seq(Byte)
      <4>1. c \in Seq(Byte) /\ d \in Seq(Byte) /\ m \in Nat /\ m <= Len(c) + Len(d) /\ Len(c) <= m
        BY <1>7, <1>8, <2>1, <2>3
      <4> QED BY <4>1, Cuts
    <3>2. m - Len(c) \in 0..(Len(d) - 1)
      BY <1>7, <1>8, <2>1, <2>3
    <3>3. Decode[b].err # "none"
      BY <1>8, <3>2
    <3> HIDE DEF b
    <3>4. Decode[c \o b] = Decoded("none", key, b)
      BY <1>7, <3>1
    <3> QED BY <1>5, <3>1, <3>3, <3>4
  <2> QED BY <1>7, <2>1, <2>2, <2>3
<1>12. Takes(c \o d, v, u)
  BY <1>9, <1>10, <1>11 DEF Takes
<1> QED BY <1>12 DEF v, u

\* What holds of 0, and of a number if of the one before, holds of all.
LEMMA Climbs ==
    ASSUME NEW n \in Nat, NEW T, 0 \in T, \A i \in 1..n : i - 1 \in T => i \in T
    PROVE  \A i \in 0..n : i \in T
<1> DEFINE Bad == {i \in 0..n : i \notin T}
<1>1. SUFFICES ASSUME Bad # {} PROVE FALSE
  OBVIOUS
<1>2. PICK l \in Bad : \A m \in Bad : l <= m
  <2>1. Bad \subseteq Nat
    OBVIOUS
  <2> HIDE DEF Bad
  <2> QED BY <1>1, <2>1, LeastOf
<1>3. l \in 1..n /\ l - 1 \in 0..n /\ l \notin T
  BY <1>2
<1>4. l - 1 \in T
  BY <1>2, <1>3
<1> QED BY <1>3, <1>4

\* Three sequences behind one another.
LEMMA Regroup ==
    ASSUME NEW S, NEW a \in Seq(S), NEW b \in Seq(S), NEW c \in Seq(S)
    PROVE  (a \o b) \o c = a \o (b \o c) /\ b \o c \in Seq(S)
OBVIOUS

\* The loop over bytes, step by step.
LEMMA LoopSteps ==
    ASSUME NEW tp \in {"list", "map"}, NEW d \in Seq(Byte)
    PROVE  \E g : /\ g[0] = Decoded("none", Value(tp, <<>>), d)
                  /\ \A i \in Nat \ {0} : g[i] = Another(Decode, g[i - 1])
                  /\ \A n : Elements(Decode, tp, n, d) = g[n]
<1>1. Len(d) \in Nat
  OBVIOUS
<1>2. Good(Decode, Len(d))
  BY <1>1, DecodeAnswers
<1>3. PICK g : IsLoop(g, Decode, tp, d)
  BY <1>2, LoopExists
<1>4. \A n : Elements(Decode, tp, n, d) = g[n]
  BY <1>3, ElementsAre
<1>5. \A n \in Nat : g[n] = IF n = 0 THEN Decoded("none", Value(tp, <<>>), d) ELSE Another(Decode, g[n - 1])
  BY <1>3 DEF IsLoop
<1>6. g[0] = Decoded("none", Value(tp, <<>>), d) /\ \A i \in Nat \ {0} : g[i] = Another(Decode, g[i - 1])
  BY <1>5
<1> QED BY <1>4, <1>6

\* What is behind a part of a stream.
LEMMA BehindIs ==
    ASSUME NEW n \in Nat, NEW e \in Family(Byte, n), NEW a \in Nat, a <= Len(Flat(e, n))
    PROVE  /\ Behind(e, n, 0, a) = SubSeq(Flat(e, n), 1, a)
           /\ Behind(e, n, 0, Len(Flat(e, n))) = Flat(e, n)
           /\ Behind(e, n, n, Len(Flat(e, n))) = <<>>
           /\ \A i \in 0..n : Len(Flat(e, i)) <= a => Behind(e, n, i, a) \in Seq(Byte)
<1> DEFINE F == Flat(e, n)
<1>1. n \in 0..n /\ 0 \in 0..n
  OBVIOUS
<1>2. F \in Seq(Byte) /\ Len(F) \in Nat /\ Len(Flat(e, 0)) = 0
  BY <1>1, Ends
<1>3. \A i \in 0..n : Len(Flat(e, i)) \in Nat
  BY Ends
<1>4. Behind(e, n, 0, a) = SubSeq(F, 1, a) /\ Behind(e, n, 0, Len(F)) = SubSeq(F, 1, Len(F))
  BY <1>2 DEF Behind
<1>5. Behind(e, n, n, Len(F)) = SubSeq(F, Len(F) + 1, Len(F))
  BY DEF Behind
<1>6. ASSUME NEW i \in 0..n, Len(Flat(e, i)) <= a PROVE Behind(e, n, i, a) \in Seq(Byte)
  <2> DEFINE c == Len(Flat(e, i))
  <2>1. c \in Nat /\ c <= a
    BY <1>3, <1>6
  <2> HIDE DEF c, F
  <2>2. c + 1 \in Nat \ {0} /\ a \in 0..Len(F) /\ c + 1 <= a + 1
    BY <1>2, <2>1 DEF F
  <2>3. SubSeq(F, c + 1, a) \in Seq(Byte)
    BY <1>2, <2>2, Pieces
  <2> QED BY <2>3 DEF Behind, F, c
<1> HIDE DEF F
<1>7. SubSeq(F, 1, Len(F)) = F /\ SubSeq(F, Len(F) + 1, Len(F)) = <<>>
  BY <1>2
<1> QED BY <1>4, <1>5, <1>6, <1>7 DEF F

\* A loop of which each iteration takes its bytes: it takes those of all, and fewer are not enough.
LEMMA LoopTakes ==
    ASSUME NEW tp \in {"list", "map"}, NEW n \in Nat, NEW e \in Family(Byte, n), NEW vals,
           vals[0] = Value(tp, <<>>), \A i \in 1..n : Takes(e[i], vals[i - 1], vals[i])
    PROVE  /\ \A r \in Seq(Byte) :
                Elements(Decode, tp, n, Flat(e, n) \o r) = Decoded("none", vals[n], r)
           /\ \A m \in 0..(Len(Flat(e, n)) - 1) :
                Elements(Decode, tp, n, SubSeq(Flat(e, n), 1, m)).err # "none"
<1> DEFINE F == Flat(e, n)
           L == Len(F)
           end(i) == Len(Flat(e, i))
<1>1. n \in 0..n /\ 0 \in 0..n /\ \A i \in 1..n : i \in 0..n /\ i - 1 \in 0..n /\ i \in Nat \ {0}
  OBVIOUS
<1>2. /\ \A i \in 0..n : end(i) \in Nat /\ end(i) <= L
      /\ \A i \in 1..n : e[i] \in Seq(Byte) /\ Len(e[i]) \in Nat /\ end(i) = end(i - 1) + Len(e[i])
      /\ end(0) = 0 /\ F \in Seq(Byte) /\ L \in Nat
  <2>1. /\ \A i \in 0..n : end(i) \in Nat
        /\ \A i \in 1..n : e[i] \in Seq(Byte) /\ Len(e[i]) \in Nat /\ end(i) = end(i - 1) + Len(e[i])
        /\ end(0) = 0
    BY Ends
  <2>2. F \in Seq(Byte) /\ L \in Nat
    BY <1>1, Ends
  <2>3. \A i \in 0..n : end(i) <= L
    BY <1>1, Fronts
  <2> QED BY <2>1, <2>2, <2>3
<1>3. \A i \in 1..n, a \in Nat : a <= L =>
        /\ end(i) <= a => Behind(e, n, i - 1, a) = e[i] \o Behind(e, n, i, a)
        /\ end(i - 1) <= a /\ a <= end(i) => Behind(e, n, i - 1, a) = SubSeq(e[i], 1, a - end(i - 1))
  BY StreamPieces
<1>4. /\ Behind(e, n, 0, L) = F /\ Behind(e, n, n, L) = <<>>
      /\ \A a \in Nat : a <= L => /\ Behind(e, n, 0, a) = SubSeq(F, 1, a)
                                  /\ \A i \in 0..n : end(i) <= a => Behind(e, n, i, a) \in Seq(Byte)
  <2>1. L <= L
    BY <1>2
  <2> QED BY <1>2, <2>1, BehindIs
<1> HIDE DEF F, L, end
<1>5. \A i \in 1..n :
        /\ \A r \in Seq(Byte) : Another(Decode, Decoded("none", vals[i - 1], e[i] \o r)) = Decoded("none", vals[i], r)
        /\ \A m \in 0..(Len(e[i]) - 1) :
                Another(Decode, Decoded("none", vals[i - 1], SubSeq(e[i], 1, m))).err # "none"
  BY DEF Takes
<1>6. ASSUME NEW r \in Seq(Byte) PROVE Elements(Decode, tp, n, F \o r) = Decoded("none", vals[n], r)
  <2>1. F \o r \in Seq(Byte)
    BY <1>2
  <2>2. PICK g : /\ g[0] = Decoded("none", Value(tp, <<>>), F \o r)
                 /\ \A i \in Nat \ {0} : g[i] = Another(Decode, g[i - 1])
                 /\ \A k : Elements(Decode, tp, k, F \o r) = g[k]
    BY <2>1, LoopSteps
  <2> DEFINE T == {i \in 0..n : g[i] = Decoded("none", vals[i], Behind(e, n, i, L) \o r)}
  <2>3. 0 \in T
    BY <1>1, <1>4, <2>2
  <2>4. ASSUME NEW i \in 1..n, i - 1 \in T PROVE i \in T
    <3>1. Behind(e, n, i - 1, L) = e[i] \o Behind(e, n, i, L) /\ Behind(e, n, i, L) \in Seq(Byte)
      <4>1. L \in Nat /\ L <= L /\ end(i) <= L
        BY <1>1, <1>2
      <4> QED BY <1>1, <1>3, <1>4, <4>1
    <3> DEFINE B == Behind(e, n, i, L)
    <3> HIDE DEF B
    <3>2. (e[i] \o B) \o r = e[i] \o (B \o r) /\ B \o r \in Seq(Byte)
      <4>1. B \in Seq(Byte) /\ e[i] \in Seq(Byte)
        BY <1>2, <3>1 DEF B
      <4>2. \A a, b, c \in Seq(Byte) : (a \o b) \o c = a \o (b \o c) /\ b \o c \in Seq(Byte)
        BY Regroup
      <4> QED BY <4>1, <4>2, Zenon
    <3>3. g[i - 1] = Decoded("none", vals[i - 1], e[i] \o (B \o r))
      BY <2>4, <3>1, <3>2 DEF B
    <3>4. g[i] = Another(Decode, g[i - 1])
      BY <1>1, <2>2
    <3>5. g[i] = Decoded("none", vals[i], B \o r)
      BY <1>5, <3>2, <3>3, <3>4
    <3> QED BY <1>1, <3>5 DEF B
  <2> HIDE DEF T
  <2>5. n \in T
    BY <1>1, <2>3, <2>4, Climbs
  <2>6. <<>> \o r = r
    OBVIOUS
  <2> QED BY <1>4, <2>2, <2>5, <2>6 DEF T
<1>7. ASSUME NEW m \in 0..(L - 1) PROVE Elements(Decode, tp, n, SubSeq(F, 1, m)).err # "none"
  <2>0. m \in Nat /\ m <= L /\ m < L
    BY <1>2
  <2> DEFINE d == SubSeq(F, 1, m)
  <2>1. d \in Seq(Byte) /\ d = Behind(e, n, 0, m)
    <3>1. end(0) <= m
      BY <1>2, <2>0
    <3> QED BY <1>1, <1>4, <2>0, <3>1
  <2> HIDE DEF d
  <2>2. PICK g : /\ g[0] = Decoded("none", Value(tp, <<>>), d)
                 /\ \A i \in Nat \ {0} : g[i] = Another(Decode, g[i - 1])
                 /\ \A k : Elements(Decode, tp, k, d) = g[k]
    BY <2>1, LoopSteps
  <2> DEFINE T == {i \in 0..n : /\ end(i) <= m => g[i] = Decoded("none", vals[i], Behind(e, n, i, m))
                                /\ m < end(i) => g[i].err # "none"}
  <2>3. 0 \in T
    <3>1. ~(m < end(0))
      BY <1>2, <2>0
    <3> QED BY <1>1, <2>1, <2>2, <3>1
  <2>4. ASSUME NEW i \in 1..n, i - 1 \in T PROVE i \in T
    <3>0. /\ end(i) \in Nat /\ end(i - 1) \in Nat /\ Len(e[i]) \in Nat
          /\ end(i) = end(i - 1) + Len(e[i]) /\ i \in 0..n
      BY <1>1, <1>2
    <3>1. g[i] = Another(Decode, g[i - 1])
      BY <1>1, <2>2
    <3>2. ASSUME end(i) <= m PROVE g[i] = Decoded("none", vals[i], Behind(e, n, i, m))
      <4>1. Behind(e, n, i - 1, m) = e[i] \o Behind(e, n, i, m) /\ Behind(e, n, i, m) \in Seq(Byte)
        BY <1>3, <1>4, <2>0, <3>0, <3>2
      <4>2. end(i - 1) <= m
        BY <2>0, <3>0, <3>2
      <4>3. g[i - 1] = Decoded("none", vals[i - 1], e[i] \o Behind(e, n, i, m))
        BY <2>4, <4>1, <4>2
      <4> QED BY <1>5, <3>1, <4>1, <4>3
    <3>3. ASSUME m < end(i) PROVE g[i].err # "none"
      <4>1. CASE m < end(i - 1)
        <5>1. g[i - 1].err # "none"
          BY <2>4, <4>1
        <5>2. g[i] = g[i - 1]
          BY <3>1, <5>1 DEF Another
        <5> QED BY <5>1, <5>2
      <4>2. CASE end(i - 1) <= m
        <5>1. Behind(e, n, i - 1, m) = SubSeq(e[i], 1, m - end(i - 1)) /\ m - end(i - 1) \in 0..(Len(e[i]) - 1)
          <6>1. m <= end(i)
            BY <2>0, <3>0, <3>3
          <6>2. m - end(i - 1) \in 0..(Len(e[i]) - 1)
            BY <2>0, <3>0, <3>3, <4>2
          <6> QED BY <1>3, <2>0, <4>2, <6>1, <6>2
        <5>2. g[i - 1] = Decoded("none", vals[i - 1], SubSeq(e[i], 1, m - end(i - 1)))
          BY <2>4, <4>2, <5>1
        <5> QED BY <1>5, <3>1, <5>1, <5>2
      <4> QED BY <2>0, <3>0, <4>1, <4>2
    <3> QED BY <3>0, <3>2, <3>3
  <2> HIDE DEF T
  <2>5. n \in T
    BY <1>1, <2>3, <2>4, Climbs
  <2>6. m < end(n)
    BY <2>0 DEF end, L, F
  <2>7. g[n].err # "none"
    BY <2>5, <2>6 DEF T
  <2> QED BY <2>2, <2>7 DEF d
<1> QED BY <1>6, <1>7 DEF F, L

\* A list or a map, behind its header.
LEMMA LoopReads ==
    ASSUME NEW tp \in {"list", "map"}, NEW n \in Nat, NEW e \in Family(Byte, n), NEW vals,
           vals[0] = Value(tp, <<>>), \A i \in 1..n : Takes(e[i], vals[i - 1], vals[i]),
           NEW hd, Frames(hd, tp, n)
    PROVE  Reads(hd \o Flat(e, n), vals[n])
<1> DEFINE F == Flat(e, n)
<1>1. n \in 0..n
  OBVIOUS
<1>2. F \in Seq(Byte) /\ Len(F) \in Nat
  BY <1>1, Ends
<1>3. /\ \A r \in Seq(Byte) : Elements(Decode, tp, n, F \o r) = Decoded("none", vals[n], r)
      /\ \A m \in 0..(Len(F) - 1) : Elements(Decode, tp, n, SubSeq(F, 1, m)).err # "none"
  BY LoopTakes
<1> HIDE DEF F
<1>4. \A b \in Seq(Byte) : Decode[hd \o b] = Elements(Decode, tp, n, b)
  BY FramedDecode
<1>5. \A r \in Seq(Byte) : Decode[hd \o (F \o r)] = Decoded("none", vals[n], r)
  <2>1. \A r \in Seq(Byte) : F \o r \in Seq(Byte)
    BY <1>2
  <2> QED BY <1>3, <1>4, <2>1
<1>6. \A m \in 0..(Len(F) - 1) : Decode[hd \o SubSeq(F, 1, m)].err # "none"
  <2>1. \A m \in 0..(Len(F) - 1) : SubSeq(F, 1, m) \in Seq(Byte)
    <3> SUFFICES ASSUME NEW m \in 0..(Len(F) - 1) PROVE SubSeq(F, 1, m) \in Seq(Byte)
      OBVIOUS
    <3>1. m \in 0..Len(F) /\ 1 \in Nat \ {0} /\ 1 <= m + 1
      BY <1>2
    <3> QED BY <1>2, <3>1, Pieces
  <2> QED BY <1>3, <1>4, <2>1
<1> DEFINE y == vals[n]
<1>7. Reads(hd \o F, y)
  <2>1. \A r \in Seq(Byte) : Decode[hd \o (F \o r)] = Decoded("none", y, r)
    BY <1>5
  <2> HIDE DEF y
  <2> QED BY <1>2, <1>6, <2>1, BehindHeader
<1> QED BY <1>7 DEF F

\* One element more of a sequence.
LEMMA OneMore ==
    ASSUME NEW s, NEW i \in Nat \ {0}
    PROVE  [j \in 1..i |-> s[j]] = Append([j \in 1..(i - 1) |-> s[j]], s[i])
<1> DEFINE t == [j \in 1..(i - 1) |-> s[j]]
           u == [j \in 1..i |-> s[j]]
<1>1. i - 1 \in Nat
  OBVIOUS
<1>2. t \in Seq({s[j] : j \in 1..i}) /\ Len(t) = i - 1 /\ \A j \in 1..(i - 1) : t[j] = s[j]
  <2>1. \A j \in 1..(i - 1) : s[j] \in {s[k] : k \in 1..i}
    BY <1>1
  <2> QED BY <1>1, <2>1
<1>3. /\ Append(t, s[i]) \in Seq({s[j] : j \in 1..i}) /\ Len(Append(t, s[i])) = i
      /\ \A j \in 1..i : Append(t, s[i])[j] = s[j]
  <2> HIDE DEF t
  <2>1. s[i] \in {s[j] : j \in 1..i}
    OBVIOUS
  <2> QED BY <1>1, <1>2, <2>1
<1>4. u \in Seq({s[j] : j \in 1..i}) /\ Len(u) = i /\ \A j \in 1..i : u[j] = s[j]
  <2>1. \A j \in 1..i : s[j] \in {s[k] : k \in 1..i}
    OBVIOUS
  <2> QED BY <2>1
<1> DEFINE a == Append(t, s[i])
<1>5. u \in Seq({s[j] : j \in 1..i}) /\ a \in Seq({s[j] : j \in 1..i}) /\ Len(u) = Len(a)
      /\ \A j \in 1..Len(u) : u[j] = a[j]
  BY <1>3, <1>4
<1> HIDE DEF a, u, t
<1>6. u = a
  BY <1>5, SeqEqual
<1> QED BY <1>6 DEF a, u, t

\* What a value is seen as is a value, and as a key of a map, one again.
LEMMA SeenShape ==
    ASSUME NEW x \in Data
    PROVE  Seen[x] = Value(Seen[x].k, Seen[x].v) /\ (Hashable(x) => Hashable(Seen[x]))
<1>1. Seen[x] = SeenWith(Seen, x)
  BY SeenIs
<1>2. \A k, v : Value(k, v).k = k /\ Value(k, v).v = v
  BY DEF Value
<1>3. \A k, n : Num(k, n) = Value(k, <<n>>)
  BY DEF Num
<1>4. ASSUME NEW k, NEW v, Seen[x] = Value(k, v), Hashable(x) => k \notin {"bytes", "map", "list"}
      PROVE  Seen[x] = Value(Seen[x].k, Seen[x].v) /\ (Hashable(x) => Hashable(Seen[x]))
  <2>1. Seen[x].k = k /\ Seen[x].v = v
    BY <1>2, <1>4
  <2> QED BY <1>4, <2>1 DEF Hashable
<1>5. CASE x.k \in IntKinds
  <2> DEFINE k == IF x.v[1] < Radix \div 2 THEN "int" ELSE "uint"
  <2>1. Seen[x] = Value(k, <<x.v[1]>>)
    BY <1>1, <1>3, <1>5, SeenWithIs
  <2>2. k \notin {"bytes", "map", "list"}
    OBVIOUS
  <2> HIDE DEF k
  <2> QED BY <1>4, <2>1, <2>2
<1>6. CASE x.k \in FloatKinds
  <2> DEFINE k == IF x.v[1] = 0 THEN "float32" ELSE x.k
  <2>1. Seen[x] = Value(k, <<x.v[1]>>)
    BY <1>1, <1>3, <1>6, SeenWithIs
  <2>2. k \notin {"bytes", "map", "list"}
    BY <1>6 DEF FloatKinds
  <2> HIDE DEF k
  <2> QED BY <1>4, <2>1, <2>2
<1>7. CASE x.k = "list"
  <2>1. ~Hashable(x)
    BY <1>7 DEF Hashable
  <2>2. \E v : Seen[x] = Value("list", v)
    BY <1>1, <1>7, SeenWithIs
  <2> QED BY <1>4, <2>1, <2>2
<1>8. CASE x.k = "map"
  <2>1. ~Hashable(x)
    BY <1>8 DEF Hashable
  <2>2. \E v : Seen[x] = Value("map", v)
    BY <1>1, <1>8, SeenWithIs
  <2> QED BY <1>4, <2>1, <2>2
<1>9. CASE x.k \in {"typed", "struct"}
  <2>1. Seen[x] = Value("nil", <<>>)
    BY <1>1, <1>9, SeenWithIs DEF Nil
  <2> QED BY <1>4, <2>1
<1>10. CASE x.k \in {"nil", "true", "false", "string", "bytes"}
  <2>1. Seen[x] = Value(x.k, x.v)
    BY <1>1, <1>10, SeenWithIs, DataAre
  <2>2. Hashable(x) => x.k \notin {"bytes", "map", "list"}
    BY DEF Hashable
  <2> QED BY <1>4, <2>1, <2>2
<1> QED BY <1>5, <1>6, <1>7, <1>8, <1>9, <1>10, DataAre

\* A value that is not made of others.
LEMMA LeafReads ==
    ASSUME NEW x \in Data, Sound[x], x.k \notin {"list", "map"}
    PROVE  Reads(Encode[x].bytes, Seen[x])
<1>1. Encode[x] = EncodeWith(Encode, x) /\ Seen[x] = SeenWith(Seen, x)
  BY EncodeAnswers, SeenIs
<1>2. /\ x.k \notin {"typed", "struct"}
      /\ x.k = "float64" => x.v[1] = 0 \/ x.v[1] >= Power(4)
      /\ x.k \in {"string", "bytes"} => Len(x.v) < Power(4)
  BY SoundIs DEF SoundWith
<1>3. \A b : Encoded("none", b).bytes = b
  BY DEF Encoded
<1>4. CASE x.k \in IntKinds
  <2>1. x.v[1] \in Int /\ Convert(x.k, x.v[1]) = x.v[1]
    BY <1>4, DataAre
  <2>2. -(Power(8) \div 2) <= x.v[1] /\ x.v[1] < Power(8)
    BY <1>4, <2>1, Bounds
  <2>3. Encode[x].bytes = EncodeInt(x.v[1]) /\ Seen[x] = Num(IF x.v[1] < Radix \div 2 THEN "int" ELSE "uint", x.v[1])
    BY <1>1, <1>3, <1>4, EncodeWithIs, SeenWithIs
  <2>4. Reads(EncodeInt(x.v[1]), Num(IF x.v[1] < Radix \div 2 THEN "int" ELSE "uint", x.v[1]))
    BY <2>1, <2>2, IntReads
  <2> QED BY <2>3, <2>4
<1>5. CASE x.k \in FloatKinds
  <2> DEFINE n == x.v[1]
  <2>1. n \in 0..(Power(Width(x.k)) - 1)
    BY <1>5, DataAre
  <2>2. Encode[x].bytes = EncodeFloat(n) /\ Seen[x] = Num(IF n = 0 THEN "float32" ELSE x.k, n)
    BY <1>1, <1>3, <1>5, EncodeWithIs, SeenWithIs
  <2> HIDE DEF n
  <2>3. Power(4) \in Nat /\ Power(4) >= 2 /\ Power(8) = Power(4) * Power(4) /\ Power(8) \in Nat
    BY Powers
  <2>4. \A a \in Nat : a >= 2 => a <= a * a
    OBVIOUS
  <2>5. Power(4) <= Power(8)
    BY <2>3, <2>4
  <2>6. CASE x.k = "float32"
    <3>1. n \in Nat /\ n < Power(4) /\ n < Power(8)
      <4>1. Width(x.k) = 4
        BY <2>6 DEF Width
      <4> QED BY <2>1, <2>3, <2>5, <4>1
    <3>2. Seen[x] = Num("float32", n)
      BY <2>2, <2>6
    <3> QED BY <2>2, <3>1, <3>2, FloatReads
  <2>7. CASE x.k = "float64"
    <3>1. n \in Nat /\ n < Power(8)
      <4>1. Width(x.k) = 8
        BY <2>7 DEF Width
      <4> QED BY <2>1, <2>3, <4>1
    <3>2. n = 0 \/ n >= Power(4)
      BY <1>2, <2>7 DEF n
    <3>3. CASE n = 0
      <4>1. n < Power(4) /\ Seen[x] = Num("float32", n)
        BY <2>2, <2>3, <3>3
      <4> QED BY <2>2, <3>1, <4>1, FloatReads
    <3>4. CASE n >= Power(4)
      <4>1. Seen[x] = Num("float64", n)
        BY <2>2, <2>3, <2>7, <3>4
      <4> QED BY <2>2, <3>1, <3>4, <4>1, FloatReads
    <3> QED BY <3>2, <3>3, <3>4
  <2> QED BY <1>5, <2>6, <2>7 DEF FloatKinds
<1>6. CASE x.k \in {"nil", "true", "false"}
  <2>1. Encode[x].bytes = <<Header(x.k, 0)>>
    BY <1>1, <1>3, <1>6, EncodeWithIs
  <2>2. Seen[x] = Value(x.k, <<>>)
    <3>1. x = Value(x.k, x.v) /\ x.v = <<>>
      BY <1>6, DataAre
    <3>2. Seen[x] = x
      BY <1>1, <1>6, SeenWithIs
    <3> QED BY <3>1, <3>2
  <2> QED BY <1>6, <2>1, <2>2, PlainReads
<1>7. CASE x.k \in {"string", "bytes"}
  <2>1. Encode[x].bytes = HeaderAndLength(x.k, Len(x.v)) \o x.v
    BY <1>1, <1>3, <1>7, EncodeWithIs
  <2>2. Seen[x] = Value(x.k, x.v) /\ x.v \in Seq(Byte)
    <3>1. x = Value(x.k, x.v) /\ x.v \in Seq(Byte)
      BY <1>7, DataAre
    <3>2. Seen[x] = x
      BY <1>1, <1>7, SeenWithIs
    <3> QED BY <3>1, <3>2
  <2> QED BY <1>2, <1>7, <2>1, <2>2, TextReads
<1> QED BY <1>2, <1>4, <1>5, <1>6, <1>7, DataAre

\* A list of values of which each is decoded.
LEMMA ListReads ==
    ASSUME NEW x \in Data, x.k = "list", Len(x.v) < Power(4),
           \A i \in 1..Len(x.v) : Reads(Encode[x.v[i]].bytes, Seen[x.v[i]])
    PROVE  Reads(Encode[x].bytes, Seen[x])
<1> DEFINE n == Len(x.v)
           hd == HeaderAndLength("list", n)
           e == [i \in 1..n |-> Encode[x.v[i]].bytes]
           s == [i \in 1..n |-> Seen[x.v[i]]]
           vals == [i \in 0..n |-> Value("list", [j \in 1..i |-> s[j]])]
<1>1. n \in Nat /\ DOMAIN x.v = 1..n /\ \A i \in 1..n : x.v[i] \in Data
  BY ElementsOf
<1>2. Encode[x].bytes = hd \o FlattenSeq(e)
  <2>1. EncodeWith(Encode, x) = Encoded("none", hd \o FlattenSeq([i \in DOMAIN x.v |-> Encode[x.v[i]].bytes]))
    BY KindsAre DEF EncodeWith, FloatKinds
  <2>2. EncodeWith(Encode, x).bytes = hd \o FlattenSeq(e)
    BY <1>1, <2>1 DEF Encoded
  <2> QED BY <2>2, EncodeAnswers
<1>3. Seen[x] = Value("list", s)
  <2>1. SeenWith(Seen, x) = Value("list", s)
    BY <1>1, SeenWithIs
  <2> QED BY <2>1, SeenIs
<1>4. e \in Family(Byte, n)
  <2>1. \A i \in 1..n : Encode[x.v[i]].bytes \in Seq(Byte)
    BY DEF Reads
  <2> QED BY <2>1 DEF Family
<1>5. Frames(hd, "list", n)
  <2>1. "list" \in ToSet(Types)
    BY TypesAre
  <2> QED BY <1>1, <2>1, FramesLength
<1>6. \A i \in 1..n : Reads(e[i], s[i])
  OBVIOUS
<1>7. \A i \in 1..n : s[i] = Seen[x.v[i]]
  OBVIOUS
<1>8. s = [j \in 1..n |-> s[j]]
  OBVIOUS
<1> HIDE DEF n, hd, e, s
<1>9. vals[0] = Value("list", <<>>) /\ vals[n] = Value("list", s)
  <2>1. 0 \in 0..n /\ n \in 0..n
    BY <1>1
  <2>2. [j \in 1..0 |-> s[j]] = <<>>
    OBVIOUS
  <2> QED BY <1>8, <2>1, <2>2
<1>10. ASSUME NEW i \in 1..n PROVE Takes(e[i], vals[i - 1], vals[i])
  <2>1. i - 1 \in 0..n /\ i \in 0..n /\ i \in Nat \ {0}
    BY <1>1
  <2> DEFINE t == [j \in 1..(i - 1) |-> s[j]]
  <2>2. vals[i - 1] = Value("list", t) /\ vals[i] = Value("list", [j \in 1..i |-> s[j]])
    BY <2>1
  <2>3. [j \in 1..i |-> s[j]] = Append(t, s[i])
    BY <2>1, OneMore
  <2> HIDE DEF t, vals
  <2>4. Takes(e[i], Value("list", t), Value("list", Append(t, s[i])))
    BY <1>6, ListTakes
  <2> QED BY <2>2, <2>3, <2>4
<1> HIDE DEF vals
<1>11. Reads(hd \o Flat(e, n), vals[n])
  <2>1. "list" \in {"list", "map"}
    OBVIOUS
  <2> QED BY <1>1, <1>4, <1>5, <1>9, <1>10, <2>1, LoopReads
<1>12. FlattenSeq(e) = Flat(e, n)
  BY <1>1, <1>4, FlattenType
<1> QED BY <1>2, <1>3, <1>9, <1>11, <1>12

\* The keys of the entries that are carried are seen as different ones.
LEMMA Apart ==
    ASSUME NEW x \in Data, x.k = "map",
           \A i, j \in 1..Len(x.v) : j < i => Seen[x.v[i].key] # Seen[x.v[j].key]
    PROVE  \A i, j \in 1..Len(Carried(x)) : i # j => Seen[Carried(x)[i].key] # Seen[Carried(x)[j].key]
<1> DEFINE t == Carried(x)
           n == Len(t)
<1>1. x.v \in Seq(Entries) /\ t = Filter(x.v, Supported) /\ n \in Nat
  BY EntriesAre, CarriedIs
<1> HIDE DEF t
<1>2. PICK h : Leaves(t, x.v, h)
  BY <1>1, FilterIs
<1>3. ASSUME NEW i \in 1..n, NEW j \in 1..n, j < i PROVE Seen[t[i].key] # Seen[t[j].key]
  <2>1. /\ h[i] \in 1..Len(x.v) /\ h[j] \in 1..Len(x.v) /\ h[j] < h[i]
        /\ t[i] = x.v[h[i]] /\ t[j] = x.v[h[j]]
    BY <1>2, <1>3 DEF Leaves
  <2>2. Seen[x.v[h[i]].key] # Seen[x.v[h[j]].key]
    BY <2>1
  <2> QED BY <2>1, <2>2
<1>4. \A i, j \in 1..n : i # j => j < i \/ i < j
  BY <1>1
<1>5. \A i, j \in 1..n : i # j => Seen[t[i].key] # Seen[t[j].key]
  BY <1>3, <1>4
<1> QED BY <1>5 DEF t

\* A map of which the keys and values that are sent are decoded, to different keys.
LEMMA MapReads ==
    ASSUME NEW x \in Data, x.k = "map", Len(x.v) < Power(4),
           \A i \in 1..Len(x.v) : x.v[i].key.k # "struct",
           \A i \in 1..Len(x.v) : Reads(Encode[x.v[i].key].bytes, Seen[x.v[i].key]),
           \A i \in 1..Len(x.v) :
                x.v[i].val.k # "struct" => Reads(Encode[x.v[i].val].bytes, Seen[x.v[i].val]),
           \A i, j \in 1..Len(x.v) : j < i => Seen[x.v[i].key] # Seen[x.v[j].key]
    PROVE  Reads(Encode[x].bytes, Seen[x])
<1> DEFINE t == Carried(x)
           n == Len(t)
           hd == HeaderAndLength("map", n)
           e == [i \in 1..n |-> Encode[t[i].key].bytes \o Encode[t[i].val].bytes]
           s == [i \in 1..n |-> Entry(Seen[t[i].key], Seen[t[i].val])]
           vals == [i \in 0..n |-> Value("map", [j \in 1..i |-> s[j]])]
<1>1. /\ Len(x.v) \in Nat /\ DOMAIN x.v = 1..Len(x.v)
      /\ x.v \in Seq(Entries)
      /\ \A i \in 1..Len(x.v) : x.v[i].key \in Data /\ x.v[i].val \in Data /\ Hashable(x.v[i].key)
  BY EntriesAre
<1>2. /\ n \in Nat /\ n <= Len(x.v) /\ DOMAIN t = 1..n
      /\ \A i \in 1..n : t[i] \in Supported
  BY CarriedIs
<1>3. \A i \in 1..n : \E j \in 1..Len(x.v) : t[i] = x.v[j]
  BY CarriedIs
<1>4. \A i, j \in 1..n : i # j => Seen[t[i].key] # Seen[t[j].key]
  BY Apart
<1>5. Encodable(Encode, x.v) = t
  <2>1. \A i \in DOMAIN x.v : Encodes(Encode, x.v[i]) <=> x.v[i].val.k # "struct"
    BY <1>1, Unsupported DEF Encodes
  <2>2. [i \in DOMAIN x.v |-> IF Encodes(Encode, x.v[i]) THEN <<x.v[i]>> ELSE <<>>]
          = [i \in DOMAIN x.v |-> IF x.v[i].val.k = "struct" THEN <<>> ELSE <<x.v[i]>>]
    BY <2>1
  <2> QED BY <2>2 DEF Encodable, Carried
<1>6. Encode[x].bytes = hd \o FlattenSeq(e)
  <2> DEFINE code == LET es == Encodable(Encode, x.v)
                         bytes(y) == Encode[y.key].bytes \o Encode[y.val].bytes
                     IN  Encoded("none", HeaderAndLength("map", Len(es))
                                           \o FlattenSeq([i \in DOMAIN es |-> bytes(es[i])]))
  <2>1. EncodeWith(Encode, x) = code
    BY KindsAre DEF EncodeWith, FloatKinds
  <2>2. code = Encoded("none", hd \o FlattenSeq(e))
    <3> HIDE DEF t
    <3> QED BY <1>2, <1>5
  <2> HIDE DEF code, hd, e
  <2>3. EncodeWith(Encode, x).bytes = hd \o FlattenSeq(e)
    BY <2>1, <2>2 DEF Encoded
  <2> QED BY <2>3, EncodeAnswers
<1>7. Seen[x] = Value("map", s)
  <2>1. SeenWith(Seen, x) = Value("map", [i \in DOMAIN t |-> Entry(Seen[t[i].key], Seen[t[i].val])])
    BY SeenWithIs
  <2>2. SeenWith(Seen, x) = Value("map", s)
    <3> HIDE DEF t
    <3> QED BY <1>2, <2>1
  <2> QED BY <2>2, SeenIs
<1> HIDE DEF t
<1>8. \A i \in 1..n : /\ t[i].key \in Data /\ Hashable(t[i].key)
                      /\ Reads(Encode[t[i].key].bytes, Seen[t[i].key])
                      /\ Reads(Encode[t[i].val].bytes, Seen[t[i].val])
  <2> SUFFICES ASSUME NEW i \in 1..n
               PROVE  /\ t[i].key \in Data /\ Hashable(t[i].key)
                      /\ Reads(Encode[t[i].key].bytes, Seen[t[i].key])
                      /\ Reads(Encode[t[i].val].bytes, Seen[t[i].val])
    OBVIOUS
  <2>1. t[i].val.k # "struct"
    BY <1>2 DEF Supported
  <2> QED BY <1>1, <1>3, <2>1
<1>9. e \in Family(Byte, n)
  <2> SUFFICES ASSUME NEW i \in 1..n PROVE Encode[t[i].key].bytes \o Encode[t[i].val].bytes \in Seq(Byte)
    BY DEF Family
  <2>1. Encode[t[i].key].bytes \in Seq(Byte) /\ Encode[t[i].val].bytes \in Seq(Byte)
    BY <1>8 DEF Reads
  <2> QED BY <2>1
<1>10. Frames(hd, "map", n)
  <2>1. "map" \in ToSet(Types)
    BY TypesAre
  <2>2. n < Power(4)
    <3>1. Power(4) \in Nat
      BY Powers
    <3> HIDE DEF n
    <3> QED BY <1>1, <1>2, <3>1
  <2> QED BY <1>2, <2>1, <2>2, FramesLength
<1>11. \A i \in 1..n : e[i] = Encode[t[i].key].bytes \o Encode[t[i].val].bytes
  OBVIOUS
<1>12. \A i \in 1..n : s[i] = Entry(Seen[t[i].key], Seen[t[i].val])
  OBVIOUS
<1>13. s = [j \in 1..n |-> s[j]]
  OBVIOUS
<1> HIDE DEF n, hd, e, s
<1>14. vals[0] = Value("map", <<>>) /\ vals[n] = Value("map", s)
  <2>1. 0 \in 0..n /\ n \in 0..n
    BY <1>2
  <2>2. [j \in 1..0 |-> s[j]] = <<>>
    OBVIOUS
  <2> QED BY <1>13, <2>1, <2>2
<1>15. ASSUME NEW i \in 1..n PROVE Takes(e[i], vals[i - 1], vals[i])
  <2>1. i - 1 \in 0..n /\ i \in 0..n /\ i \in Nat \ {0}
    BY <1>2
  <2> DEFINE p == [j \in 1..(i - 1) |-> s[j]]
             key == Seen[t[i].key]
             y == Seen[t[i].val]
  <2>2. vals[i - 1] = Value("map", p) /\ vals[i] = Value("map", [j \in 1..i |-> s[j]])
    BY <2>1
  <2>3. [j \in 1..i |-> s[j]] = Append(p, s[i])
    BY <2>1, OneMore
  <2>4. s[i] = Entry(key, y)
    BY <1>12
  <2>5. \A j \in DOMAIN p : ~SameKey(p[j].key, key)
    <3> SUFFICES ASSUME NEW j \in 1..(i - 1) PROVE ~SameKey(s[j].key, key)
      OBVIOUS
    <3>1. j \in 1..n /\ i # j
      BY <1>2, <2>1
    <3>2. s[j].key = Seen[t[j].key] /\ Seen[t[j].key] # key
      <4>1. s[j] = Entry(Seen[t[j].key], Seen[t[j].val])
        BY <1>12, <3>1
      <4>2. s[j].key = Seen[t[j].key]
        BY <4>1 DEF Entry
      <4>3. Seen[t[j].key] # key
        BY <1>4, <3>1
      <4> QED BY <4>2, <4>3
    <3>3. /\ Seen[t[j].key] = Value(Seen[t[j].key].k, Seen[t[j].key].v)
          /\ key = Value(key.k, key.v)
      BY <1>8, <3>1, SeenShape
    <3> HIDE DEF key
    <3> QED BY <3>2, <3>3 DEF SameKey
  <2>6. Hashable(key) /\ Reads(Encode[t[i].key].bytes, key) /\ Reads(Encode[t[i].val].bytes, y)
    BY <1>8, SeenShape
  <2> HIDE DEF p, vals, key, y
  <2>7. Takes(Encode[t[i].key].bytes \o Encode[t[i].val].bytes, Value("map", p),
              Value("map", Append(p, Entry(key, y))))
    BY <2>5, <2>6, MapTakes
  <2> QED BY <1>11, <2>2, <2>3, <2>4, <2>7
<1> HIDE DEF vals
<1>16. Reads(hd \o Flat(e, n), vals[n])
  <2>1. "map" \in {"list", "map"}
    OBVIOUS
  <2> QED BY <1>2, <1>9, <1>10, <1>14, <1>15, <2>1, LoopReads
<1>17. FlattenSeq(e) = Flat(e, n)
  BY <1>2, <1>9, FlattenType
<1> QED BY <1>6, <1>7, <1>14, <1>16, <1>17

\* A value that the format can carry is decoded as what it is seen as, its code is taken and no
\* byte behind it, and no front of the code is taken for a value (clove.go 176-541).
THEOREM SoundReads == \A x \in Data : Sound[x] => Reads(Encode[x].bytes, Seen[x])
<1> DEFINE Bad == {n \in Nat : \E x \in Data : Depth[x] = n /\ Sound[x] /\ ~Reads(Encode[x].bytes, Seen[x])}
<1>1. \A x \in Data : Depth[x] \in Nat
  BY CodecAssumption
<1>2. SUFFICES ASSUME Bad # {} PROVE FALSE
  BY <1>1
<1>3. PICK n \in Bad : \A m \in Bad : n <= m
  <2>1. Bad \subseteq Nat
    OBVIOUS
  <2> HIDE DEF Bad
  <2> QED BY <1>2, <2>1, LeastOf
<1>4. PICK x \in Data : Depth[x] = n /\ Sound[x] /\ ~Reads(Encode[x].bytes, Seen[x])
  BY <1>3
<1>5. ASSUME NEW y \in Data, Depth[y] < Depth[x], Sound[y] PROVE Reads(Encode[y].bytes, Seen[y])
  <2>1. SUFFICES ASSUME ~Reads(Encode[y].bytes, Seen[y]) PROVE FALSE
    OBVIOUS
  <2>2. Depth[y] \in Bad
    BY <1>1, <1>5, <2>1
  <2> HIDE DEF Bad
  <2>3. Depth[x] <= Depth[y] /\ Depth[x] \in Nat /\ Depth[y] \in Nat
    BY <1>1, <1>3, <1>4, <2>2
  <2> QED BY <1>5, <2>3
<1> HIDE DEF Bad
<1>6. /\ x.k \in {"string", "bytes", "list", "map"} => Len(x.v) < Power(4)
      /\ x.k = "list" => \A i \in DOMAIN x.v : Sound[x.v[i]]
      /\ x.k = "map" => \A i \in DOMAIN x.v :
            /\ Sound[x.v[i].key]
            /\ Sound[x.v[i].val] \/ x.v[i].val.k = "struct"
            /\ \A j \in 1..(i - 1) : Seen[x.v[i].key] # Seen[x.v[j].key]
  BY <1>4, SoundIs DEF SoundWith
<1>7. CASE x.k = "list"
  <2>1. /\ Len(x.v) < Power(4) /\ DOMAIN x.v = 1..Len(x.v)
        /\ \A i \in 1..Len(x.v) : Sound[x.v[i]] /\ x.v[i] \in Data /\ Depth[x.v[i]] < Depth[x]
    BY <1>6, <1>7, ElementsOf
  <2>2. \A i \in 1..Len(x.v) : Reads(Encode[x.v[i]].bytes, Seen[x.v[i]])
    BY <1>5, <2>1
  <2> QED BY <1>4, <1>7, <2>1, <2>2, ListReads
<1>8. CASE x.k = "map"
  <2>1. /\ Len(x.v) < Power(4) /\ DOMAIN x.v = 1..Len(x.v) /\ Len(x.v) \in Nat
        /\ \A i \in 1..Len(x.v) : /\ x.v[i].key \in Data /\ x.v[i].val \in Data
                                  /\ Depth[x.v[i].key] < Depth[x] /\ Depth[x.v[i].val] < Depth[x]
    BY <1>6, <1>8, EntriesAre
  <2>2. \A i \in 1..Len(x.v) :
            /\ Sound[x.v[i].key]
            /\ Sound[x.v[i].val] \/ x.v[i].val.k = "struct"
            /\ \A j \in 1..(i - 1) : Seen[x.v[i].key] # Seen[x.v[j].key]
    BY <1>6, <1>8, <2>1
  <2>3. \A i \in 1..Len(x.v) : Reads(Encode[x.v[i].key].bytes, Seen[x.v[i].key])
    BY <1>5, <2>1, <2>2
  <2>4. \A i \in 1..Len(x.v) : x.v[i].val.k # "struct" => Reads(Encode[x.v[i].val].bytes, Seen[x.v[i].val])
    BY <1>5, <2>1, <2>2
  <2>5. \A i \in 1..Len(x.v) : x.v[i].key.k # "struct"
    BY <2>1, <2>2, SoundIs, ZenonT(60) DEF SoundWith
  <2>6. \A i, j \in 1..Len(x.v) : j < i => Seen[x.v[i].key] # Seen[x.v[j].key]
    <3> SUFFICES ASSUME NEW i \in 1..Len(x.v), NEW j \in 1..Len(x.v), j < i
                 PROVE  Seen[x.v[i].key] # Seen[x.v[j].key]
      OBVIOUS
    <3>1. j \in 1..(i - 1)
      BY <2>1
    <3> QED BY <2>2, <3>1
  <2> QED BY <1>4, <1>8, <2>1, <2>3, <2>4, <2>5, <2>6, MapReads
<1> QED BY <1>4, <1>7, <1>8, LeafReads

-----------------------------------------------------------------------------
(* The stream *)

\* The codes of the values that were sent.
CodesOf(s) == [j \in 1..Len(s) |-> Encode[Values[s[j]]].bytes]

\* They are bytes.
LEMMA CodesType ==
    ASSUME NEW s \in Seq(DOMAIN Values)
    PROVE  /\ Len(s) \in Nat /\ CodesOf(s) \in Family(Byte, Len(s))
           /\ \A j \in 1..Len(s) : /\ s[j] \in DOMAIN Values /\ Values[s[j]] \in Data
                                   /\ CodesOf(s)[j] = Encode[Values[s[j]]].bytes
<1>1. Len(s) \in Nat /\ \A j \in 1..Len(s) : s[j] \in DOMAIN Values
  OBVIOUS
<1>2. \A i \in DOMAIN Values : Values[i] \in Data
  BY ValuesAssumption
<1>3. \A x \in Data : Encode[x].bytes \in Seq(Byte)
  BY EncodeAnswers DEF Codes
<1>4. CodesOf(s) \in [1..Len(s) -> Seq(Byte)]
  BY <1>1, <1>2, <1>3 DEF CodesOf
<1>5. \A j \in 1..Len(s) : CodesOf(s)[j] = Encode[Values[s[j]]].bytes
  BY DEF CodesOf
<1> QED BY <1>1, <1>2, <1>4, <1>5 DEF Family

\* One value more is behind the others.
LEMMA CodesAppend ==
    ASSUME NEW s \in Seq(DOMAIN Values), NEW k \in DOMAIN Values
    PROVE  /\ Append(s, k) \in Seq(DOMAIN Values) /\ Len(Append(s, k)) = Len(s) + 1
           /\ \A j \in 1..Len(s) : Append(s, k)[j] = s[j]
           /\ \A i \in 0..Len(s) : Flat(CodesOf(Append(s, k)), i) = Flat(CodesOf(s), i)
           /\ Flat(CodesOf(Append(s, k)), Len(s) + 1) = Flat(CodesOf(s), Len(s)) \o Encode[Values[k]].bytes
<1> DEFINE t == Append(s, k)
           n == Len(s)
           e == CodesOf(s)
           f == CodesOf(t)
<1>1. n \in Nat /\ t \in Seq(DOMAIN Values) /\ Len(t) = n + 1 /\ t[n + 1] = k /\ \A j \in 1..n : t[j] = s[j]
  OBVIOUS
<1> HIDE DEF t
<1>2. \A j \in 1..n : e[j] = Encode[Values[s[j]]].bytes
  BY CodesType
<1>3. f \in Family(Byte, n + 1) /\ \A j \in 1..(n + 1) : f[j] = Encode[Values[t[j]]].bytes
  BY <1>1, CodesType
<1> HIDE DEF e, f, n
<1>4. \A j \in 1..n : f[j] = e[j]
  BY <1>1, <1>2, <1>3
<1>5. \A i \in 0..n : Flat(f, i) = Flat(e, i)
  <2> SUFFICES ASSUME NEW i \in 0..n PROVE Flat(f, i) = Flat(e, i)
    OBVIOUS
  <2>1. \A j \in 1..i : f[j] = e[j]
    BY <1>1, <1>4
  <2>2. [j \in 1..i |-> f[j]] = [j \in 1..i |-> e[j]]
    BY <2>1
  <2> QED BY <2>2 DEF Flat
<1>6. Flat(f, n + 1) = Flat(f, n) \o f[n + 1]
  <2>1. n + 1 \in Nat /\ n + 1 \in 1..(n + 1) /\ (n + 1) - 1 = n
    BY <1>1
  <2>2. \A i \in 1..(n + 1) : Flat(f, i) = Flat(f, i - 1) \o f[i]
    BY <1>3, <2>1, FlattenNext
  <2> QED BY <2>1, <2>2
<1>7. f[n + 1] = Encode[Values[k]].bytes
  BY <1>1, <1>3
<1>8. Flat(f, n) = Flat(e, n)
  BY <1>1, <1>5
<1> QED BY <1>1, <1>5, <1>6, <1>7, <1>8 DEF e, f, n, t

\* Decode of what has arrived behind the o-th value: the next value if it is all there, and an
\* error if not.
LEMMA NextValue ==
    ASSUME NEW s \in Seq(DOMAIN Values), \A j \in 1..Len(s) : Sound[Values[s[j]]],
           NEW e, e = CodesOf(s), NEW o \in 0..Len(s), NEW a \in Nat,
           Len(Flat(e, o)) < a, a <= Len(Flat(e, Len(s)))
    PROVE  /\ o + 1 \in 1..Len(s)
           /\ Len(Flat(e, o + 1)) <= a =>
                Decode[Behind(e, Len(s), o, a)] =
                    Decoded("none", Seen[Values[s[o + 1]]], Behind(e, Len(s), o + 1, a))
           /\ a < Len(Flat(e, o + 1)) => Decode[Behind(e, Len(s), o, a)].err # "none"
<1> DEFINE n == Len(s)
           end(i) == Len(Flat(e, i))
           i == o + 1
<1>1. n \in Nat /\ e \in Family(Byte, n) /\ \A j \in 1..n : e[j] = Encode[Values[s[j]]].bytes /\ Values[s[j]] \in Data
  BY CodesType
<1> HIDE DEF n
<1>2. o \in 0..n /\ n \in 0..n
  BY <1>1 DEF n
<1>3. \A j \in 0..n : end(j) \in Nat
  BY <1>1, Ends
<1>4. \A j \in 1..n : e[j] \in Seq(Byte) /\ Len(e[j]) \in Nat /\ end(j) = end(j - 1) + Len(e[j])
  BY <1>1, Ends, ZenonT(60)
<1> HIDE DEF end
<1>5. o < n
  <2>1. SUFFICES ASSUME o = n PROVE FALSE
    BY <1>1, <1>2
  <2>2. end(o) < a /\ a <= end(n)
    BY DEF end, n
  <2> QED BY <1>2, <1>3, <2>1, <2>2
<1>6. i \in 1..n /\ i - 1 = o /\ i \in 0..n
  BY <1>1, <1>2, <1>5
<1> HIDE DEF i
<1>7. Reads(e[i], Seen[Values[s[i]]])
  BY <1>1, <1>6, SoundReads DEF n
<1>8. /\ end(i) <= a => Behind(e, n, i - 1, a) = e[i] \o Behind(e, n, i, a)
      /\ end(i - 1) <= a /\ a <= end(i) => Behind(e, n, i - 1, a) = SubSeq(e[i], 1, a - end(i - 1))
  <2>1. a <= Len(Flat(e, n))
    BY DEF n
  <2> QED BY <1>1, <1>6, <2>1, StreamPieces DEF end
<1>9. end(o) < a /\ end(o) \in Nat /\ end(i) \in Nat /\ end(i) = end(o) + Len(e[i]) /\ Len(e[i]) \in Nat
  BY <1>2, <1>3, <1>4, <1>6 DEF end
<1>10. ASSUME end(i) <= a
       PROVE  Decode[Behind(e, n, o, a)] = Decoded("none", Seen[Values[s[i]]], Behind(e, n, i, a))
  <2>1. Behind(e, n, i, a) \in Seq(Byte)
    <3>1. a <= Len(Flat(e, n)) /\ Len(Flat(e, i)) <= a
      BY <1>10 DEF n, end
    <3> QED BY <1>1, <1>6, <3>1, BehindIs
  <2>2. Behind(e, n, o, a) = e[i] \o Behind(e, n, i, a)
    BY <1>6, <1>8, <1>10
  <2> QED BY <1>7, <2>1, <2>2 DEF Reads
<1>11. ASSUME a < end(i) PROVE Decode[Behind(e, n, o, a)].err # "none"
  <2>1. Behind(e, n, o, a) = SubSeq(e[i], 1, a - end(o))
    BY <1>6, <1>8, <1>9, <1>11
  <2>2. a - end(o) \in 0..(Len(e[i]) - 1)
    BY <1>9, <1>11
  <2> QED BY <1>7, <2>1, <2>2 DEF Reads
<1> QED BY <1>6, <1>10, <1>11 DEF n, end, i

\* The values decoded are ones that Decode can answer with.
Shape == TypeOK /\ out \in Seq(Universe)

\* The stream is the codes of the values sent.
Streamed == stream = Flat(CodesOf(sent), Len(sent))

\* Values that the format can carry are taken one by one: what is not decoded is what has
\* arrived behind the last that was.
Follows ==
    AllSound =>
        /\ Len(out) <= Len(sent) /\ Len(Flat(CodesOf(sent), Len(out))) <= arrived
        /\ raw = SubSeq(stream, Len(Flat(CodesOf(sent), Len(out))) + 1, arrived)
        /\ \A i \in 1..Len(out) : out[i] = Seen[Sent(i)]
        /\ err # "none" => /\ Len(out) < Len(sent)
                           /\ arrived < Len(Flat(CodesOf(sent), Len(out) + 1))

IInv == Shape /\ Streamed /\ Follows

\* It holds at first.
LEMMA IInvInit == Init => IInv
<1> SUFFICES ASSUME Init PROVE IInv
  OBVIOUS
<1>1. sent = <<>> /\ stream = <<>> /\ arrived = 0 /\ raw = <<>> /\ out = <<>> /\ err = "none"
  BY DEF Init
<1>2. <<>> \in Seq(DOMAIN Values) /\ <<>> \in Seq(Byte) /\ <<>> \in Seq(Universe) /\ Len(<<>>) = 0
  OBVIOUS
<1>3. Shape
  BY <1>1, <1>2, ValuesAssumption DEF Shape, TypeOK
<1>4. Flat(CodesOf(<<>>), 0) = <<>>
  <2>1. 0 \in Nat /\ CodesOf(<<>>) \in Family(Byte, 0)
    BY <1>2, CodesType
  <2> QED BY <2>1, FlattenNext
<1>5. Streamed
  BY <1>1, <1>2, <1>4 DEF Streamed
<1>6. SubSeq(<<>>, 1, 0) = <<>>
  OBVIOUS
<1>7. Follows
  BY <1>1, <1>2, <1>4, <1>6 DEF Follows
<1> QED BY <1>3, <1>5, <1>7 DEF IInv

\* A value more.
LEMMA SendStep ==
    ASSUME IInv, NEW k \in DOMAIN Values, Send(k)
    PROVE  IInv'
<1> DEFINE c == Encode[Values[k]].bytes
           n == Len(sent)
           e == CodesOf(sent)
           f == CodesOf(sent')
<1>1. /\ Len(sent) < MaxSent /\ sent' = Append(sent, k) /\ stream' = stream \o c
      /\ arrived' = arrived /\ raw' = raw /\ out' = out /\ err' = err
  BY DEF Send
<1>2. /\ sent \in Seq(DOMAIN Values) /\ stream \in Seq(Byte) /\ arrived \in 0..Len(stream)
      /\ raw \in Seq(Byte) /\ Len(raw) <= arrived /\ out \in Seq(Universe)
      /\ Len(sent) <= MaxSent /\ MaxSent \in Nat /\ stream = Flat(e, n)
  BY ValuesAssumption DEF IInv, Shape, TypeOK, Streamed
<1>3. /\ sent' \in Seq(DOMAIN Values) /\ Len(sent') = n + 1
      /\ \A j \in 1..n : sent'[j] = sent[j]
      /\ \A i \in 0..n : Flat(f, i) = Flat(e, i)
      /\ Flat(f, n + 1) = Flat(e, n) \o c
  BY <1>1, <1>2, CodesAppend
<1>4. c \in Seq(Byte)
  <2>1. Values[k] \in Data
    BY ValuesAssumption
  <2> QED BY <2>1, EncodeAnswers DEF Codes
<1>5. /\ n \in Nat /\ Len(stream) \in Nat /\ stream' \in Seq(Byte) /\ Len(stream') = Len(stream) + Len(c)
      /\ Len(c) \in Nat /\ \A j \in 1..Len(stream) : stream'[j] = stream[j]
  BY <1>1, <1>2, <1>4
<1> HIDE DEF c, n, e, f
<1>6. Shape'
  <2>1. Len(sent') <= MaxSent
    BY <1>1, <1>2, <1>3, <1>5 DEF n
  <2>2. arrived' \in 0..Len(stream')
    BY <1>1, <1>2, <1>5
  <2> QED BY <1>1, <1>2, <1>3, <1>5, <2>1, <2>2 DEF IInv, Shape, TypeOK
<1>7. Streamed'
  BY <1>1, <1>2, <1>3 DEF Streamed, f
<1>8. Follows'
  <2> SUFFICES ASSUME AllSound'
               PROVE  /\ Len(out') <= Len(sent') /\ Len(Flat(f, Len(out'))) <= arrived'
                      /\ raw' = SubSeq(stream', Len(Flat(f, Len(out'))) + 1, arrived')
                      /\ \A i \in 1..Len(out') : out'[i] = Seen[Values[sent'[i]]]
                      /\ err' # "none" => Len(out') < Len(sent') /\ arrived' < Len(Flat(f, Len(out') + 1))
    BY DEF Follows, Sent, f
  <2>1. AllSound
    <3>1. \A i \in 1..(n + 1) : Sound[Values[sent'[i]]]
      BY <1>3 DEF AllSound, Sent
    <3>2. \A i \in 1..n : Sound[Values[sent[i]]]
      BY <1>3, <1>5, <3>1
    <3> QED BY <1>2, <3>2 DEF AllSound, Sent, n
  <2> DEFINE o == Len(out)
             a == Len(Flat(e, o)) + 1
  <2>2. /\ o <= n /\ Len(Flat(e, o)) <= arrived
        /\ raw = SubSeq(stream, a, arrived)
        /\ \A i \in 1..o : out[i] = Seen[Values[sent[i]]]
        /\ err # "none" => o < n /\ arrived < Len(Flat(e, o + 1))
    BY <2>1 DEF IInv, Follows, Sent, e, n
  <2>3. o \in Nat
    BY <1>2
  <2>4. o \in 0..n /\ (o < n => o + 1 \in 0..n)
    BY <1>5, <2>2, <2>3
  <2>5. Flat(f, o) = Flat(e, o) /\ (o < n => Flat(f, o + 1) = Flat(e, o + 1))
    BY <1>3, <2>4
  <2>6. Len(Flat(e, o)) \in Nat
    <3>1. n \in Nat /\ e \in Family(Byte, n)
      BY <1>2, CodesType DEF n, e
    <3> QED BY <2>4, <3>1, Ends
  <2> HIDE DEF o
  <2>7. SubSeq(stream', a, arrived) = SubSeq(stream, a, arrived)
    <3>1. a \in Nat \ {0} /\ arrived \in 0..Len(stream) /\ arrived \in 0..Len(stream') /\ a <= arrived + 1
      BY <1>2, <1>5, <2>2, <2>6
    <3> HIDE DEF a
    <3>2. /\ SubSeq(stream', a, arrived) \in Seq(Byte) /\ Len(SubSeq(stream', a, arrived)) = arrived - a + 1
          /\ \A k1 \in 1..(arrived - a + 1) : SubSeq(stream', a, arrived)[k1] = stream'[a + k1 - 1]
      BY <1>5, <3>1, Pieces
    <3>3. /\ SubSeq(stream, a, arrived) \in Seq(Byte) /\ Len(SubSeq(stream, a, arrived)) = arrived - a + 1
          /\ \A k1 \in 1..(arrived - a + 1) : SubSeq(stream, a, arrived)[k1] = stream[a + k1 - 1]
      BY <1>2, <3>1, Pieces
    <3>4. \A k1 \in 1..(arrived - a + 1) : stream'[a + k1 - 1] = stream[a + k1 - 1]
      <4>1. \A k1 \in 1..(arrived - a + 1) : a + k1 - 1 \in 1..Len(stream)
        BY <1>5, <3>1
      <4> QED BY <1>5, <4>1
    <3>5. \A k1 \in 1..(arrived - a + 1) : SubSeq(stream', a, arrived)[k1] = SubSeq(stream, a, arrived)[k1]
      BY <3>2, <3>3, <3>4
    <3> DEFINE p == SubSeq(stream', a, arrived)
               q == SubSeq(stream, a, arrived)
    <3>6. p \in Seq(Byte) /\ q \in Seq(Byte) /\ Len(p) = Len(q) /\ \A k1 \in 1..Len(p) : p[k1] = q[k1]
      BY <3>2, <3>3, <3>5
    <3> HIDE DEF p, q
    <3>7. p = q
      BY <3>6, SeqEqual
    <3> QED BY <3>7 DEF p, q
  <2>8. raw' = SubSeq(stream', Len(Flat(f, o)) + 1, arrived')
    BY <1>1, <2>2, <2>5, <2>7
  <2>9. \A i \in 1..o : out'[i] = Seen[Values[sent'[i]]]
    <3>1. \A i \in 1..o : i \in 1..n
      BY <1>5, <2>2, <2>3
    <3> QED BY <1>1, <1>3, <2>2, <3>1
  <2>10. o <= n + 1 /\ (o < n => o < n + 1)
    BY <1>5, <2>2, <2>3
  <2>11. Len(out') = o /\ Len(sent') = n + 1
    BY <1>1, <1>3 DEF o
  <2>12. Len(Flat(f, o)) <= arrived' /\ (err' # "none" => o < n + 1 /\ arrived' < Len(Flat(f, o + 1)))
    BY <1>1, <2>2, <2>5, <2>10
  <2> QED BY <2>8, <2>9, <2>10, <2>11, <2>12
<1> QED BY <1>6, <1>7, <1>8 DEF IInv

\* More bytes.
LEMMA ArriveStep ==
    ASSUME IInv, NEW m \in 1..Len(stream), Arrive(m)
    PROVE  IInv'
<1> DEFINE more == SubSeq(stream, arrived + 1, arrived + m)
<1>1. /\ arrived + m <= Len(stream) /\ arrived' = arrived + m /\ raw' = raw \o more /\ err' = "none"
      /\ sent' = sent /\ stream' = stream /\ out' = out
  BY DEF Arrive
<1>2. /\ sent \in Seq(DOMAIN Values) /\ stream \in Seq(Byte) /\ arrived \in 0..Len(stream)
      /\ raw \in Seq(Byte) /\ Len(raw) <= arrived /\ out \in Seq(Universe)
  BY DEF IInv, Shape, TypeOK
<1>3. m \in Nat /\ m >= 1 /\ arrived \in Nat /\ Len(stream) \in Nat /\ Len(raw) \in Nat
  BY <1>2
<1>4. more \in Seq(Byte) /\ Len(more) = m
  <2>1. arrived + 1 \in Nat \ {0} /\ arrived + m \in 0..Len(stream) /\ arrived + 1 <= (arrived + m) + 1
    BY <1>1, <1>3
  <2>2. more \in Seq(Byte) /\ Len(more) = (arrived + m) - (arrived + 1) + 1
    BY <1>2, <2>1, Pieces
  <2> HIDE DEF more
  <2> QED BY <1>3, <2>2
<1>5. Shape'
  <2>1. raw' \in Seq(Byte) /\ Len(raw') = Len(raw) + m
    <3>1. \A p, q \in Seq(Byte) : p \o q \in Seq(Byte) /\ Len(p \o q) = Len(p) + Len(q)
      OBVIOUS
    <3> HIDE DEF more
    <3> QED BY <1>1, <1>2, <1>4, <3>1
  <2>2. Len(raw') <= arrived' /\ arrived' \in 0..Len(stream')
    BY <1>1, <1>2, <1>3, <2>1
  <2> HIDE DEF more
  <2> QED BY <1>1, <1>2, <2>1, <2>2 DEF IInv, Shape, TypeOK
<1>6. Streamed'
  BY <1>1 DEF IInv, Streamed
<1>7. Follows'
  <2> DEFINE o == Len(out)
             a == Len(Flat(CodesOf(sent), o))
  <2> SUFFICES ASSUME AllSound'
               PROVE  /\ o <= Len(sent) /\ a <= arrived'
                      /\ raw' = SubSeq(stream, a + 1, arrived')
                      /\ \A i \in 1..o : out[i] = Seen[Values[sent[i]]]
    BY <1>1 DEF Follows, Sent
  <2>1. AllSound
    BY <1>1 DEF AllSound, Sent
  <2>2. /\ o <= Len(sent) /\ a <= arrived
        /\ raw = SubSeq(stream, a + 1, arrived)
        /\ \A i \in 1..o : out[i] = Seen[Values[sent[i]]]
    BY <2>1 DEF IInv, Follows, Sent
  <2>3. a \in Nat
    <3>1. /\ Len(sent) \in Nat /\ CodesOf(sent) \in Family(Byte, Len(sent)) /\ o \in 0..Len(sent)
      BY <1>2, <2>2, CodesType
    <3> QED BY <3>1, Ends
  <2> HIDE DEF a, o
  <2>4. raw \o more = SubSeq(stream, a + 1, arrived + m)
    <3>1. /\ a + 1 \in 1..(Len(stream) + 1) /\ arrived \in ((a + 1) - 1)..Len(stream)
          /\ arrived + m \in arrived..Len(stream)
      BY <1>1, <1>2, <1>3, <2>2, <2>3
    <3>2. SubSeq(stream, a + 1, arrived) \o SubSeq(stream, arrived + 1, arrived + m)
            = SubSeq(stream, a + 1, arrived + m)
      BY <1>2, <3>1, ConcatAdjacentSubSeq
    <3> QED BY <2>2, <3>2
  <2>5. a <= arrived + m
    BY <1>3, <2>2, <2>3
  <2> QED BY <1>1, <2>2, <2>4, <2>5
<1> QED BY <1>5, <1>6, <1>7 DEF IInv

\* One Decode.
LEMMA ReceiveStep ==
    ASSUME IInv, Receive
    PROVE  IInv'
<1> DEFINE d == Decode[raw]
<1>1. /\ raw # <<>> /\ err = "none" /\ err' = d.err
      /\ d.err = "none" => out' = Append(out, d.val) /\ raw' = d.rest
      /\ d.err # "none" => out' = out /\ raw' = raw
      /\ sent' = sent /\ stream' = stream /\ arrived' = arrived
  BY DEF Receive
<1>2. /\ sent \in Seq(DOMAIN Values) /\ stream \in Seq(Byte) /\ arrived \in 0..Len(stream)
      /\ raw \in Seq(Byte) /\ Len(raw) <= arrived /\ out \in Seq(Universe)
      /\ stream = Flat(CodesOf(sent), Len(sent))
  BY DEF IInv, Shape, TypeOK, Streamed
<1>3. d \in Answers /\ Len(d.rest) <= Len(raw)
  BY <1>2, DecodeAnswers DEF Good
<1> HIDE DEF d
<1>4. d.err \in {"none", "short", "empty"} /\ d.val \in Universe /\ d.rest \in Seq(Byte)
  BY <1>3 DEF Answers
<1>5. Shape'
  <2>1. raw' \in Seq(Byte) /\ Len(raw') <= Len(raw)
    BY <1>1, <1>2, <1>3, <1>4
  <2>2. out' \in Seq(Universe)
    <3>1. \A s \in Seq(Universe) : \A y \in Universe : Append(s, y) \in Seq(Universe)
      OBVIOUS
    <3> QED BY <1>1, <1>2, <1>4, <3>1
  <2>3. \A i \in DOMAIN out' :
            out'[i].k \in {"int", "uint", "nil", "true", "false", "string", "bytes", "map", "list"} \cup FloatKinds
    <3>1. \A i \in DOMAIN out' : out'[i] \in Universe
      BY <2>2
    <3> QED BY <3>1, ValuesAre
  <2>4. Len(raw') <= arrived'
    <3>1. Len(raw) \in Nat /\ Len(raw') \in Nat /\ arrived \in Nat
      BY <1>2, <2>1
    <3> QED BY <1>1, <1>2, <2>1, <3>1
  <2> QED BY <1>1, <1>4, <2>1, <2>2, <2>3, <2>4 DEF IInv, Shape, TypeOK
<1>6. Streamed'
  BY <1>1 DEF IInv, Streamed
<1>7. Follows'
  <2> DEFINE n == Len(sent)
             e == CodesOf(sent)
             end(i) == Len(Flat(e, i))
             o == Len(out)
  <2> SUFFICES ASSUME AllSound'
               PROVE  /\ Len(out') <= n /\ end(Len(out')) <= arrived
                      /\ raw' = SubSeq(stream, end(Len(out')) + 1, arrived)
                      /\ \A i \in 1..Len(out') : out'[i] = Seen[Values[sent[i]]]
                      /\ err' # "none" => Len(out') < n /\ arrived < end(Len(out') + 1)
    BY <1>1 DEF Follows, Sent
  <2>1. AllSound
    BY <1>1 DEF AllSound, Sent
  <2>2. /\ o <= n /\ end(o) <= arrived
        /\ raw = SubSeq(stream, end(o) + 1, arrived)
        /\ \A i \in 1..o : out[i] = Seen[Values[sent[i]]]
    BY <2>1 DEF IInv, Follows, Sent
  <2>3. n \in Nat /\ e \in Family(Byte, n) /\ o \in 0..n /\ n \in 0..n
    BY <1>2, <2>2, CodesType
  <2>4. \A i \in 0..n : end(i) \in Nat
    BY <2>3, Ends
  <2>5. arrived \in Nat /\ arrived <= end(n)
    BY <1>2
  <2>6. end(o) < arrived
    <3>1. SUFFICES ASSUME end(o) = arrived PROVE FALSE
      <4> HIDE DEF end, n, o
      <4> QED BY <2>2, <2>3, <2>4, <2>5
    <3>2. raw = SubSeq(stream, arrived + 1, arrived)
      BY <2>2, <3>1
    <3>3. SubSeq(stream, arrived + 1, arrived) = <<>>
      BY <1>2
    <3> QED BY <1>1, <3>2, <3>3
  <2>7. raw = Behind(e, n, o, arrived)
    BY <1>2, <2>2 DEF Behind
  <2>8. \A j \in 1..n : Sound[Values[sent[j]]]
    BY <1>2, <2>1 DEF AllSound, Sent
  <2>9. /\ o + 1 \in 1..n
        /\ end(o + 1) <= arrived =>
                d = Decoded("none", Seen[Values[sent[o + 1]]], Behind(e, n, o + 1, arrived))
        /\ arrived < end(o + 1) => d.err # "none"
    <3>1. /\ o + 1 \in 1..n
          /\ end(o + 1) <= arrived =>
                Decode[Behind(e, n, o, arrived)] =
                    Decoded("none", Seen[Values[sent[o + 1]]], Behind(e, n, o + 1, arrived))
          /\ arrived < end(o + 1) => Decode[Behind(e, n, o, arrived)].err # "none"
      BY <1>2, <2>3, <2>5, <2>6, <2>8, NextValue
    <3> QED BY <2>7, <3>1 DEF d
  <2>10. Behind(e, n, o + 1, arrived) = SubSeq(stream, end(o + 1) + 1, arrived)
    BY <1>2 DEF Behind
  <2>11. o \in Nat /\ o + 1 \in 0..n
    BY <2>3, <2>9
  <2> HIDE DEF end, n, e
  <2>12. CASE end(o + 1) <= arrived
    <3>1. d.err = "none" /\ d.val = Seen[Values[sent[o + 1]]] /\ d.rest = Behind(e, n, o + 1, arrived)
      BY <2>9, <2>12 DEF Decoded
    <3>2. out' = Append(out, d.val) /\ raw' = d.rest /\ err' = "none"
      BY <1>1, <3>1
    <3>3. Len(out') = o + 1 /\ out'[o + 1] = d.val /\ \A i \in 1..o : out'[i] = out[i]
      BY <1>2, <1>4, <3>2
    <3>4. \A i \in 1..(o + 1) : out'[i] = Seen[Values[sent[i]]]
      <4>1. \A i \in 1..(o + 1) : i \in 1..o \/ i = o + 1
        BY <2>11
      <4> HIDE DEF o
      <4> QED BY <2>2, <3>1, <3>3, <4>1
    <3>5. o + 1 <= n
      BY <2>3, <2>9
    <3> HIDE DEF o
    <3> QED BY <2>10, <2>12, <3>1, <3>2, <3>3, <3>4, <3>5
  <2>13. CASE arrived < end(o + 1)
    <3>1. d.err # "none" /\ out' = out /\ raw' = raw /\ Len(out') = o
      BY <1>1, <2>9, <2>13
    <3>2. o < n
      BY <2>3, <2>9
    <3> HIDE DEF o
    <3> QED BY <2>2, <2>13, <3>1, <3>2
  <2>14. end(o + 1) \in Nat
    BY <2>4, <2>11
  <2> QED BY <2>5, <2>12, <2>13, <2>14
<1> QED BY <1>5, <1>6, <1>7 DEF IInv

\* Where values end is where their codes do.
LEMMA EndIs ==
    ASSUME sent \in Seq(DOMAIN Values), NEW i \in 0..Len(sent)
    PROVE  End(i) = Len(Flat(CodesOf(sent), i))
<1>1. \A j \in 1..i : CodesOf(sent)[j] = Encode[Values[sent[j]]].bytes
  <2>1. Len(sent) \in Nat /\ \A j \in 1..Len(sent) : CodesOf(sent)[j] = Encode[Values[sent[j]]].bytes
    BY CodesType
  <2> QED BY <2>1
<1>2. [j \in 1..i |-> CodesOf(sent)[j]] = [j \in 1..i |-> Encode[Values[sent[j]]].bytes]
  BY <1>1
<1> QED BY <1>2 DEF End, Sent, Flat

\* The invariant holds.
THEOREM Invariance == Spec => []IInv
<1>1. IInv /\ [Next]_vars => IInv'
  <2> SUFFICES ASSUME IInv, [Next]_vars PROVE IInv'
    OBVIOUS
  <2>1. CASE \E k \in DOMAIN Values : Send(k)
    BY <2>1, SendStep
  <2>2. CASE \E m \in 1..Len(stream) : Arrive(m)
    BY <2>2, ArriveStep
  <2>3. CASE Receive
    BY <2>3, ReceiveStep
  <2>4. CASE UNCHANGED vars
    BY <2>4 DEF vars, IInv, Shape, TypeOK, Streamed, Follows, AllSound, Sent
  <2> QED BY <2>1, <2>2, <2>3, <2>4 DEF Next
<1> QED BY <1>1, IInvInit, PTL DEF Spec

\* The variables have their types, and Decode answers only with kinds that the format has
\* (clove.go 176-310).
THEOREM TypeCorrect == Spec => []TypeOK
<1>1. IInv => TypeOK
  BY DEF IInv, Shape
<1> QED BY <1>1, Invariance, PTL

\* The values decoded are those sent, in order, for all values that the format can carry
\* (clove.go 176-541).
THEOREM Survival == Spec => []ValuesSurvive
<1>1. IInv => ValuesSurvive
  <2> SUFFICES ASSUME IInv, AllSound PROVE \A i \in DOMAIN out : i \in DOMAIN sent /\ out[i] = Seen[Sent(i)]
    BY DEF ValuesSurvive
  <2>1. Len(out) <= Len(sent) /\ \A i \in 1..Len(out) : out[i] = Seen[Sent(i)]
    BY DEF IInv, Follows
  <2>2. out \in Seq(Universe) /\ sent \in Seq(DOMAIN Values)
    BY DEF IInv, Shape, TypeOK
  <2>3. DOMAIN out = 1..Len(out) /\ DOMAIN sent = 1..Len(sent) /\ Len(out) \in Nat /\ Len(sent) \in Nat
    BY <2>2
  <2>4. \A i \in 1..Len(out) : i \in 1..Len(sent)
    BY <2>1, <2>3
  <2> QED BY <2>1, <2>3, <2>4
<1> QED BY <1>1, Invariance, PTL

\* Decode takes a value's bytes and no other, and has an error only for a value that is cut
\* short, however the bytes arrive (clove.go 222, 289, 304).
THEOREM Framing == Spec => []TakesItsBytes
<1>1. IInv => TakesItsBytes
  <2> SUFFICES ASSUME IInv, AllSound
               PROVE  /\ raw = SubSeq(stream, End(Len(out)) + 1, arrived)
                      /\ err # "none" => Len(out) < Len(sent) /\ arrived < End(Len(out) + 1)
    BY DEF TakesItsBytes
  <2> DEFINE o == Len(out)
             e == CodesOf(sent)
  <2>1. /\ o <= Len(sent) /\ raw = SubSeq(stream, Len(Flat(e, o)) + 1, arrived)
        /\ err # "none" => o < Len(sent) /\ arrived < Len(Flat(e, o + 1))
    BY DEF IInv, Follows
  <2>2. out \in Seq(Universe) /\ sent \in Seq(DOMAIN Values)
    BY DEF IInv, Shape, TypeOK
  <2>3. o \in Nat /\ Len(sent) \in Nat
    BY <2>2
  <2> HIDE DEF o
  <2>4. o \in 0..Len(sent) /\ (o < Len(sent) => o + 1 \in 0..Len(sent))
    BY <2>1, <2>3
  <2>5. End(o) = Len(Flat(e, o)) /\ (o < Len(sent) => End(o + 1) = Len(Flat(e, o + 1)))
    BY <2>2, <2>4, EndIs
  <2>6. raw = SubSeq(stream, End(o) + 1, arrived)
        /\ (err # "none" => o < Len(sent) /\ arrived < End(o + 1))
    BY <2>1, <2>5
  <2> QED BY <2>6 DEF o
<1> QED BY <1>1, Invariance, PTL

-----------------------------------------------------------------------------
(* What the readers find *)

\* What a value is seen as.
LEMMA SeenAre ==
    ASSUME NEW x \in Data
    PROVE  /\ x.k \in IntKinds => Seen[x] = Num(IF x.v[1] < Radix \div 2 THEN "int" ELSE "uint", x.v[1])
           /\ x.k \in FloatKinds => Seen[x] = Num(IF x.v[1] = 0 THEN "float32" ELSE x.k, x.v[1])
           /\ x.k = "list" => Seen[x] = Value("list", [i \in DOMAIN x.v |-> Seen[x.v[i]]])
           /\ x.k = "map" =>
                Seen[x] = Value("map", [i \in DOMAIN Carried(x) |->
                                          Entry(Seen[Carried(x)[i].key], Seen[Carried(x)[i].val])])
           /\ x.k \in {"nil", "true", "false", "string", "bytes"} => Seen[x] = x
<1> DEFINE f == Seen
<1>1. Seen[x] = SeenWith(f, x)
  BY SeenIs
<1> HIDE DEF f
<1>2. x.k \in IntKinds => SeenWith(f, x) = Num(IF x.v[1] < Radix \div 2 THEN "int" ELSE "uint", x.v[1])
  BY SeenWithIs
<1>3. x.k \in FloatKinds => SeenWith(f, x) = Num(IF x.v[1] = 0 THEN "float32" ELSE x.k, x.v[1])
  BY SeenWithIs
<1>4. x.k = "list" => SeenWith(f, x) = Value("list", [i \in DOMAIN x.v |-> f[x.v[i]]])
  BY SeenWithIs
<1>5. x.k = "map" =>
        SeenWith(f, x) = Value("map", [i \in DOMAIN Carried(x) |->
                                         Entry(f[Carried(x)[i].key], f[Carried(x)[i].val])])
  BY SeenWithIs
<1>6. x.k \in {"nil", "true", "false", "string", "bytes"} => SeenWith(f, x) = x
  BY SeenWithIs
<1> QED BY <1>1, <1>2, <1>3, <1>4, <1>5, <1>6 DEF f

\* The kind of what a value is seen as: an integer, a float, and so on, as before.
LEMMA SeenKind ==
    ASSUME NEW x \in Data, x.k \notin {"typed", "struct"}
    PROVE  /\ x.k \in IntKinds =>
                Seen[x].k \in {"int", "uint"} /\ Seen[x] = Num(IF x.v[1] < Radix \div 2 THEN "int" ELSE "uint", x.v[1])
           /\ x.k \in FloatKinds => Seen[x].k \in FloatKinds /\ Seen[x].v[1] = x.v[1]
           /\ x.k \in {"list", "map"} => Seen[x].k = x.k
           /\ x.k \in {"nil", "true", "false", "string", "bytes"} => Seen[x] = x
<1>1. \A k, n : Num(k, n).k = k /\ Num(k, n).v[1] = n
  BY DEF Num, Value
<1>2. \A k, v : Value(k, v).k = k
  BY DEF Value
<1>3. ASSUME x.k \in IntKinds
      PROVE  Seen[x].k \in {"int", "uint"} /\ Seen[x] = Num(IF x.v[1] < Radix \div 2 THEN "int" ELSE "uint", x.v[1])
  <2> DEFINE k == IF x.v[1] < Radix \div 2 THEN "int" ELSE "uint"
  <2>1. Seen[x] = Num(k, x.v[1])
    BY <1>3, SeenAre
  <2>2. k \in {"int", "uint"}
    OBVIOUS
  <2> HIDE DEF k
  <2>3. Seen[x].k \in {"int", "uint"}
    BY <1>1, <2>1, <2>2
  <2> QED BY <2>1, <2>3 DEF k
<1>4. ASSUME x.k \in FloatKinds PROVE Seen[x].k \in FloatKinds /\ Seen[x].v[1] = x.v[1]
  <2>1. Seen[x] = Num(IF x.v[1] = 0 THEN "float32" ELSE x.k, x.v[1])
    BY <1>4, SeenAre
  <2>2. (IF x.v[1] = 0 THEN "float32" ELSE x.k) \in FloatKinds
    BY <1>4 DEF FloatKinds
  <2> QED BY <1>1, <2>1, <2>2
<1>5. ASSUME x.k \in {"list", "map"} PROVE Seen[x].k = x.k
  <2>1. \E v : Seen[x] = Value(x.k, v)
    <3>1. CASE x.k = "list"
      <4>1. Seen[x] = Value("list", [i \in DOMAIN x.v |-> Seen[x.v[i]]])
        BY <3>1, SeenAre
      <4> QED BY <3>1, <4>1
    <3>2. CASE x.k = "map"
      <4>1. Seen[x] = Value("map", [i \in DOMAIN Carried(x) |->
                                      Entry(Seen[Carried(x)[i].key], Seen[Carried(x)[i].val])])
        BY <3>2, SeenAre
      <4> QED BY <3>2, <4>1
    <3> QED BY <1>5, <3>1, <3>2
  <2> QED BY <1>2, <2>1
<1>6. ASSUME x.k \in {"nil", "true", "false", "string", "bytes"} PROVE Seen[x] = x
  BY <1>6, SeenAre
<1> QED BY <1>3, <1>4, <1>5, <1>6

\* What the readers by kind answer for y where they do not panic, as x says.
Alike(x, y) ==
    /\ FloatValue(y, -1) = (IF x.k \in FloatKinds THEN x.v[1] ELSE -1)
    /\ StrValue(y, <<>>) = (IF x.k = "string" THEN x.v ELSE <<>>)
    /\ BoolValue(y) = (x.k = "true")
    /\ y.k = "bytes" <=> x.k = "bytes"
    /\ x.k = "bytes" => y.v = x.v
    /\ y.k = "list" <=> x.k = "list"
    /\ y.k = "nil" <=> x.k = "nil"

\* A value is read as it was sent.
LEMMA ReadsAsSent ==
    ASSUME NEW x \in Data, x.k \notin {"typed", "struct"}
    PROVE  IntegersAs(x, Seen[x]) /\ Alike(x, Seen[x])
<1>0. /\ \A k, n : Num(k, n).k = k /\ Num(k, n).v[1] = n
      /\ \A k, v : Value(k, v).k = k /\ Value(k, v).v = v
  BY DEF Num, Value
<1> DEFINE y == Seen[x]
<1>1. CASE x.k \in IntKinds
  <2> DEFINE n == x.v[1]
  <2>1. y.k \in {"int", "uint"} /\ y.v[1] = n
    <3>1. y = Num(IF n < Radix \div 2 THEN "int" ELSE "uint", n)
      BY <1>1, SeenKind
    <3>2. y.k \in {"int", "uint"}
      BY <1>1, SeenKind
    <3> HIDE DEF y, n
    <3> QED BY <1>0, <3>1, <3>2
  <2>2. y.k \in IntKinds /\ y.k # "string"
    BY <2>1, KindsAre
  <2> HIDE DEF y
  <2>3. \A d : /\ IntValue(y, d) = Convert("int64", n) /\ UintValue(y, d) = Convert("uint64", n)
               /\ IntegerNumber(y, d) = Convert("int64", n)
    BY <2>1, <2>2 DEF IntValue, UintValue, IntegerNumber
  <2>4. FloatValue(y, -1) = -1 /\ StrValue(y, <<>>) = <<>> /\ BoolValue(y) = FALSE
    BY <2>1 DEF FloatValue, StrValue, BoolValue, FloatKinds
  <2>5. x.k \notin FloatKinds /\ x.k \notin {"string", "bytes", "true", "list", "nil"}
    BY <1>1, KindsAre DEF FloatKinds
  <2>6. IntegersAs(x, y)
    BY <1>1, <2>3 DEF IntegersAs, IsInt, Holds
  <2>7. Alike(x, y)
    BY <2>1, <2>4, <2>5 DEF Alike
  <2> QED BY <2>6, <2>7 DEF y
<1>2. CASE x.k \in FloatKinds
  <2>1. y.k \in FloatKinds /\ y.v[1] = x.v[1]
    BY <1>2, SeenKind
  <2>2. x.k \notin {"string", "bytes", "true", "list", "nil"} /\ y.k \notin {"bytes", "list", "nil"}
    BY <1>2, <2>1 DEF FloatKinds
  <2>3. x.k \notin IntKinds /\ y.k \notin IntKinds
    BY <1>2, <2>1, KindsAre DEF FloatKinds
  <2> HIDE DEF y
  <2>4. \A d : IntValue(y, d) = d /\ UintValue(y, d) = d
    BY <2>3 DEF IntValue, UintValue
  <2>5. FloatValue(y, -1) = x.v[1] /\ StrValue(y, <<>>) = <<>> /\ BoolValue(y) = FALSE
    BY <2>1 DEF FloatValue, StrValue, BoolValue, FloatKinds
  <2>6. IntegersAs(x, y)
    BY <2>3, <2>4 DEF IntegersAs, IsInt
  <2>7. Alike(x, y)
    BY <1>2, <2>2, <2>5 DEF Alike
  <2> QED BY <2>6, <2>7 DEF y
<1>3. CASE x.k \in {"list", "map"}
  <2>1. y.k = x.k
    BY <1>3, SeenKind
  <2>3. x.k \notin IntKinds /\ x.k \notin FloatKinds
    BY <1>3, KindsAre DEF FloatKinds
  <2> HIDE DEF y
  <2>4. \A d : IntValue(y, d) = d /\ UintValue(y, d) = d
    BY <2>1, <2>3 DEF IntValue, UintValue
  <2>5. FloatValue(y, -1) = -1 /\ StrValue(y, <<>>) = <<>> /\ BoolValue(y) = FALSE
    BY <1>3, <2>1, <2>3 DEF FloatValue, StrValue, BoolValue
  <2>6. IntegersAs(x, y)
    BY <2>3, <2>4 DEF IntegersAs, IsInt
  <2>7. Alike(x, y)
    BY <1>3, <2>1, <2>3, <2>5 DEF Alike
  <2> QED BY <2>6, <2>7 DEF y
<1>4. CASE x.k \in {"nil", "true", "false", "string", "bytes"}
  <2>1. y = x
    BY <1>4, SeenKind
  <2>2. x.k \notin IntKinds /\ x.k \notin FloatKinds
    BY <1>4, KindsAre DEF FloatKinds
  <2> HIDE DEF y
  <2>3. \A d : IntValue(y, d) = d /\ UintValue(y, d) = d
    BY <2>1, <2>2 DEF IntValue, UintValue
  <2>4. /\ FloatValue(y, -1) = -1 /\ BoolValue(y) = (x.k = "true")
        /\ StrValue(y, <<>>) = (IF x.k = "string" THEN x.v ELSE <<>>)
    BY <2>1, <2>2 DEF FloatValue, StrValue, BoolValue
  <2>5. IntegersAs(x, y)
    BY <2>2, <2>3 DEF IntegersAs, IsInt
  <2>6. Alike(x, y)
    BY <2>1, <2>2, <2>4 DEF Alike
  <2> QED BY <2>5, <2>6 DEF y
<1> QED BY <1>1, <1>2, <1>3, <1>4, DataAre

\* What is not there is read as the default.
LEMMA NilReads == IntegersAs(Nil, Nil) /\ Alike(Nil, Nil)
<1>1. Nil.k = "nil"
  BY DEF Nil, Value
<1>2. Nil.k \notin IntKinds /\ Nil.k \notin FloatKinds
  BY <1>1, KindsAre DEF FloatKinds
<1>3. \A d : IntValue(Nil, d) = d /\ UintValue(Nil, d) = d
  BY <1>2 DEF IntValue, UintValue
<1>4. FloatValue(Nil, -1) = -1 /\ StrValue(Nil, <<>>) = <<>> /\ BoolValue(Nil) = FALSE
  BY <1>1, <1>2 DEF FloatValue, StrValue, BoolValue
<1>5. IntegersAs(Nil, Nil)
  BY <1>2, <1>3 DEF IntegersAs, IsInt
<1>6. Alike(Nil, Nil)
  BY <1>1, <1>2, <1>4 DEF Alike
<1> QED BY <1>5, <1>6

\* Where elements are alike, so are the answers and the panics of the list's readers.
LEMMA AlikeRead ==
    ASSUME NEW s, NEW l, NEW j, Alike(TryReadIndex(s, j), TryReadIndex(l, j)), NilAt(l, j) <=> NilAt(s, j)
    PROVE  KindsAs(s, l, j)
<1> DEFINE x == TryReadIndex(s, j)
           y == TryReadIndex(l, j)
           answered(v) == IF NilAt(s, j) THEN Panicked ELSE Answered(v)
<1>1. FloatValueOf(l, j, -1) = answered(IF x.k \in FloatKinds THEN x.v[1] ELSE -1)
  BY DEF FloatValueOf, Alike
<1>2. StrValueOf(l, j, <<>>) = answered(IF x.k = "string" THEN x.v ELSE <<>>)
  BY DEF StrValueOf, Alike
<1>3. BoolValueOf(l, j) = answered(x.k = "true")
  <2>1. BoolValue(y) = (x.k = "true")
    BY Zenon DEF Alike
  <2> HIDE DEF x, y
  <2> QED BY <2>1, Zenon DEF BoolValueOf, y
<1>4. MySQLStrValueOf(l, j, <<>>) = IF x.k = "list" THEN Panicked ELSE Answered(IF x.k = "bytes" THEN x.v ELSE <<>>)
  <2>1. /\ y.k = "bytes" <=> x.k = "bytes"
        /\ x.k = "bytes" => y.v = x.v
        /\ y.k = "list" <=> x.k = "list"
    BY DEF Alike
  <2>2. MySQLStrValueOf(l, j, <<>>) = CASE y.k = "bytes" -> Answered(y.v) [] y.k = "list" -> Panicked
                                        [] OTHER -> Answered(<<>>)
    BY DEF MySQLStrValueOf
  <2> HIDE DEF x, y
  <2> QED BY <2>1, <2>2
<1> QED BY <1>1, <1>2, <1>3, <1>4, Zenon DEF KindsAs

\* A list is read as it was sent.
LEMMA ListIsRead ==
    ASSUME NEW x \in Data, Sound[x], x.k = "list", NEW j \in -1..Len(x.v)
    PROVE  IntegersAs(TryReadIndex(x, j), TryReadIndex(Seen[x], j)) /\ KindsAs(x, Seen[x], j)
<1> DEFINE n == Len(x.v)
           s == [i \in 1..n |-> Seen[x.v[i]]]
           y == Value("list", s)
<1>1. n \in Nat /\ DOMAIN x.v = 1..n /\ \A i \in 1..n : x.v[i] \in Data
  BY ElementsOf
<1>2. Seen[x] = y
  BY <1>1, SeenAre
<1>3. \A i \in 1..n : x.v[i].k \notin {"typed", "struct"}
  <2>1. \A i \in 1..n : Sound[x.v[i]]
    BY <1>1, SoundIs DEF SoundWith
  <2> QED BY <1>1, <2>1, SoundIs DEF SoundWith
<1>4. y.v = s /\ Len(s) = n /\ \A i \in 1..n : s[i] = Seen[x.v[i]]
  BY <1>1 DEF Value
<1> HIDE DEF y, s, n
<1>5. /\ IntegersAs(TryReadIndex(x, j), TryReadIndex(y, j)) /\ Alike(TryReadIndex(x, j), TryReadIndex(y, j))
      /\ NilAt(y, j) <=> NilAt(x, j)
  <2>1. CASE j \in 0..(n - 1)
    <3>1. j + 1 \in 1..n
      BY <1>1, <2>1
    <3>2. TryReadIndex(x, j) = x.v[j + 1] /\ TryReadIndex(y, j) = Seen[x.v[j + 1]]
      BY <1>4, <2>1, <3>1 DEF TryReadIndex, n
    <3>3. IntegersAs(x.v[j + 1], Seen[x.v[j + 1]]) /\ Alike(x.v[j + 1], Seen[x.v[j + 1]])
      BY <1>1, <1>3, <3>1, ReadsAsSent
    <3>4. /\ NilAt(y, j) <=> Seen[x.v[j + 1]].k = "nil"
          /\ NilAt(x, j) <=> x.v[j + 1].k = "nil"
      BY <1>4, <2>1, <3>1 DEF NilAt, n
    <3>5. Seen[x.v[j + 1]].k = "nil" <=> x.v[j + 1].k = "nil"
      BY <3>3 DEF Alike
    <3> QED BY <3>2, <3>3, <3>4, <3>5
  <2>2. CASE j \notin 0..(n - 1)
    <3>1. TryReadIndex(x, j) = Nil /\ TryReadIndex(y, j) = Nil /\ ~NilAt(y, j) /\ ~NilAt(x, j)
      BY <1>4, <2>2 DEF TryReadIndex, NilAt, n
    <3> QED BY <3>1, NilReads
  <2> QED BY <2>1, <2>2
<1> QED BY <1>2, <1>5, AlikeRead

\* The elements of a decoded list read as they were sent, under every index and beyond, and
\* the readers panic on elements sent as nil, or as a list, only (codec.go 387-545).
THEOREM ListReading == Spec => []ListsRead
<1>1. TypeOK /\ ValuesSurvive => ListsRead
  <2> SUFFICES ASSUME TypeOK, ValuesSurvive, NEW i \in DOMAIN out, AllSound, Sent(i).k = "list",
                      NEW j \in -1..Len(Sent(i).v)
               PROVE  /\ IntegersAs(TryReadIndex(Sent(i), j), TryReadIndex(out[i], j))
                      /\ KindsAs(Sent(i), out[i], j)
    BY DEF ListsRead
  <2> DEFINE x == Sent(i)
  <2>1. i \in DOMAIN sent /\ out[i] = Seen[x]
    BY DEF ValuesSurvive
  <2>2. x \in Data /\ Sound[x]
    <3>1. sent[i] \in DOMAIN Values
      BY <2>1 DEF TypeOK
    <3> QED BY <2>1, <3>1, ValuesAssumption DEF AllSound, Sent
  <2> HIDE DEF x
  <2>3. x.k = "list" /\ j \in -1..Len(x.v)
    BY DEF x
  <2>4. IntegersAs(TryReadIndex(x, j), TryReadIndex(Seen[x], j)) /\ KindsAs(x, Seen[x], j)
    BY <2>2, <2>3, ListIsRead
  <2> QED BY <2>1, <2>4 DEF x
<1> QED BY <1>1, TypeCorrect, Survival, PTL

\* The greater powers, and their halves.
LEMMA Greater ==
    ASSUME NEW w \in {1, 2, 4, 8}
    PROVE  /\ Power(w) <= Power(8) /\ Power(w) \div 2 <= Power(8) \div 2
           /\ Radix \div 2 <= Power(8) \div 2 /\ Power(8) \div 2 \in Nat /\ Power(8) \in Nat
<1>1. /\ Power(1) = Radix /\ Power(2) = Power(1) * Power(1) /\ Power(4) = Power(2) * Power(2)
      /\ Power(8) = Power(4) * Power(4)
      /\ \A v \in {1, 2, 4, 8} : Power(v) \in Nat /\ Power(v) >= 2
  BY Powers
<1>2. \A a \in Nat : a >= 2 => a <= a * a
  OBVIOUS
<1>3. Power(1) <= Power(2) /\ Power(2) <= Power(4) /\ Power(4) <= Power(8)
  BY <1>1, <1>2
<1>4. /\ Power(1) <= Power(8) /\ Power(2) <= Power(8) /\ Power(8) <= Power(8)
      /\ Power(1) \in Nat /\ Power(2) \in Nat /\ Power(4) \in Nat /\ Power(8) \in Nat
  <2>1. Power(1) \in Nat /\ Power(2) \in Nat /\ Power(4) \in Nat /\ Power(8) \in Nat
    BY <1>1
  <2> QED BY <1>3, <2>1
<1>5. Power(w) <= Power(8)
  BY <1>3, <1>4
<1>6. \A a, b \in Nat : a <= b => a \div 2 <= b \div 2
  OBVIOUS
<1>7. Power(w) \div 2 <= Power(8) \div 2
  <2>1. Power(w) \in Nat
    BY <1>1
  <2> QED BY <1>4, <1>5, <1>6, <2>1
<1>8. Radix \div 2 <= Power(8) \div 2
  BY <1>1, <1>4, <1>6
<1>9. Power(8) \div 2 \in Nat
  BY <1>4
<1> QED BY <1>4, <1>5, <1>7, <1>8, <1>9

\* A number that fits signed is not changed by its width.
LEMMA SignFits ==
    ASSUME NEW w \in {1, 2, 4, 8}, NEW n \in Int, -(Power(w) \div 2) <= n, n < Power(w) \div 2
    PROVE  Sign(n, w) = n
<1> DEFINE P == Power(w)
           H == Power(w) \div 2
<1>1. P \in Nat \ {0} /\ H \in Nat /\ P = 2 * H /\ -H <= n /\ n < H
  <2>1. P \in Nat \ {0}
    BY Powers
  <2> QED BY <2>1, Halves
<1>2. Sign(n, w) = IF (n % P) < H THEN n % P ELSE (n % P) - P
  BY DEF Sign, Unsign
<1> HIDE DEF P, H
<1>3. CASE n >= 0
  <2>1. n \in 0..(P - 1) /\ 0 \in Int /\ n = P * 0 + n
    BY <1>1, <1>3
  <2>2. n % P = n
    BY <1>1, <2>1, Remainder
  <2> QED BY <1>1, <1>2, <2>2
<1>4. CASE n < 0
  <2>1. n + P \in 0..(P - 1) /\ -1 \in Int /\ n = P * (-1) + (n + P)
    BY <1>1, <1>4
  <2>2. n % P = n + P
    BY <1>1, <2>1, Remainder
  <2>3. ~((n + P) < H) /\ (n + P) - P = n
    BY <1>1, <1>4
  <2> QED BY <1>2, <2>2, <2>3
<1> QED BY <1>3, <1>4

\* What a signed number is unsigned is what it was.
LEMMA SignUnsign ==
    ASSUME NEW w \in {1, 2, 4, 8}, NEW n \in Int
    PROVE  Unsign(Sign(n, w), w) = Unsign(n, w) /\ Unsign(Unsign(n, w), w) = Unsign(n, w)
<1> DEFINE P == Power(w)
           H == Power(w) \div 2
           u == n % P
<1>1. P \in Nat \ {0}
  BY Powers
<1>2. Sign(n, w) = IF u < H THEN u ELSE u - P
  BY DEF Sign, Unsign
<1>3. Unsign(n, w) = u /\ \A m : Unsign(m, w) = m % P
  BY DEF Unsign
<1> HIDE DEF P, H
<1>4. u \in 0..(P - 1)
  BY <1>1, Division
<1> HIDE DEF u
<1>5. u % P = u
  <2>1. 0 \in Int /\ u \in Int /\ u = P * 0 + u
    BY <1>1, <1>4
  <2> QED BY <1>1, <1>4, <2>1, Remainder
<1>6. (u - P) % P = u
  <2>1. -1 \in Int /\ u - P \in Int /\ u - P = P * (-1) + u
    BY <1>1, <1>4
  <2> QED BY <1>1, <1>4, <2>1, Remainder
<1> QED BY <1>2, <1>3, <1>5, <1>6

\* A number that a kind holds, or that is a value's, is not changed by the widest kind of its
\* sign.
LEMMA Widest ==
    ASSUME NEW k \in IntKinds, NEW n \in Int, Convert(k, n) = n
    PROVE  /\ k \in SignedKinds => Convert("int", n) = n
           /\ k \notin SignedKinds => Convert("uint", n) = n
           /\ Convert(IF n < Radix \div 2 THEN "int" ELSE "uint", n) = n
<1> DEFINE w == Width(k)
           P == Power(8)
           H == Power(8) \div 2
<1>1. w \in {1, 2, 4, 8} /\ "int" \in SignedKinds /\ "uint" \notin SignedKinds
      /\ Width("int") = 8 /\ Width("uint") = 8
  BY Widths, KindsAre DEF Width
<1>2. -H <= n /\ n < P
  BY Bounds
<1>3. /\ Power(w) <= P /\ Power(w) \div 2 <= H /\ Radix \div 2 <= H /\ H \in Nat /\ P \in Nat
      /\ Power(w) \in Nat \ {0} /\ Power(w) \div 2 \in Nat \ {0} /\ Radix \div 2 \in 1..128
      /\ Power(w) = 2 * (Power(w) \div 2)
  <2>1. /\ Power(w) <= P /\ Power(w) \div 2 <= H /\ Radix \div 2 <= H /\ H \in Nat /\ P \in Nat
    <3> HIDE DEF w
    <3> QED BY <1>1, Greater
  <2>2. Power(w) \in Nat \ {0} /\ Radix \div 2 \in 1..128
    <3> HIDE DEF w
    <3> QED BY <1>1, Powers
  <2>3. Power(w) \div 2 \in Nat \ {0} /\ Power(w) = 2 * (Power(w) \div 2)
    <3> HIDE DEF w
    <3> QED BY <1>1, Halves
  <2> QED BY <2>1, <2>2, <2>3
<1>4. ASSUME n < H PROVE Convert("int", n) = n
  <2>1. 8 \in {1, 2, 4, 8}
    OBVIOUS
  <2>2. Sign(n, 8) = n
    BY <1>2, <1>4, <2>1, SignFits
  <2> QED BY <1>1, <2>2 DEF Convert
<1>5. ASSUME n >= 0 PROVE Convert("uint", n) = n
  <2>1. 8 \in {1, 2, 4, 8} /\ n \in Nat
    BY <1>5
  <2>2. n % Power(8) = n
    BY <1>2, <2>1, Fits
  <2> QED BY <1>1, <2>2 DEF Convert, Unsign
<1>6. ASSUME k \in SignedKinds PROVE n < H
  <2>1. Sign(n, w) = n
    BY <1>6 DEF Convert
  <2>2. n = IF (n % Power(w)) < (Power(w) \div 2) THEN n % Power(w) ELSE (n % Power(w)) - Power(w)
    BY <2>1 DEF Sign, Unsign
  <2> DEFINE Q == Power(w)
             G == Power(w) \div 2
             u == n % Q
  <2>3. u \in 0..(Q - 1)
    <3> HIDE DEF Q
    <3> QED BY <1>3, Division DEF Q
  <2>4. n = IF u < G THEN u ELSE u - Q
    BY <2>2
  <2> HIDE DEF u
  <2>5. Q \in Nat \ {0} /\ G \in Nat \ {0} /\ G <= H /\ H \in Nat
    BY <1>3
  <2> HIDE DEF Q, G, H
  <2> QED BY <2>3, <2>4, <2>5
<1>7. ASSUME k \notin SignedKinds PROVE n >= 0
  <2>1. Unsign(n, w) = n
    BY <1>7 DEF Convert
  <2>2. n % Power(w) \in 0..(Power(w) - 1)
    BY <1>3, Division
  <2> QED BY <2>1, <2>2 DEF Unsign
<1> HIDE DEF H, P, w
<1>8. CASE n < Radix \div 2
  <2>1. n < H
    BY <1>3, <1>8
  <2> QED BY <1>4, <1>5, <1>7, <1>8, <2>1
<1>9. CASE ~(n < Radix \div 2)
  <2>1. n >= 0
    BY <1>3, <1>9
  <2> QED BY <1>4, <1>5, <1>6, <1>9, <2>1
<1> QED BY <1>8, <1>9

\* The keys that are tried for an integer: the number in every kind, the widest of its kind's
\* sign first, the widest of the other sixth.
LEMMA KeysTriedAre ==
    ASSUME NEW k \in IntKinds, NEW n \in Int
    PROVE  \E f : /\ KeysTried(Num(k, n)) = [i \in 1..10 |-> Num(f[i], Convert(f[i], n))]
                  /\ \A i \in 1..10 : f[i] \in IntKinds
                  /\ f[1] = (IF k \in SignedKinds THEN "int" ELSE "uint")
                  /\ f[6] = (IF k \in SignedKinds THEN "uint" ELSE "int")
                  /\ \A i \in 1..10 : f[i] \in {"int", "uint"} => i \in {1, 6}
<1>1. Num(k, n).k = k /\ Num(k, n).v[1] = n
  BY DEF Num, Value
<1>2. k # "string"
  BY KindsAre
<1> DEFINE su == Signed \o Unsigned
           us == Unsigned \o Signed
<1>3. /\ Signed \in Seq(IntKinds) /\ Len(Signed) = 5 /\ Unsigned \in Seq(IntKinds) /\ Len(Unsigned) = 5
      /\ Signed[1] = "int" /\ \A i \in 2..5 : Signed[i] \notin {"int", "uint"}
      /\ Unsigned[1] = "uint" /\ \A i \in 2..5 : Unsigned[i] \notin {"int", "uint"}
  BY KindsAre DEF Signed, Unsigned
<1>4. k \in SignedKinds \/ k \in ToSet(Unsigned)
  BY DEF IntKinds
<1>5. SignedKinds \cap ToSet(Unsigned) = {}
  BY KindsAre DEF Unsigned, ToSet
<1>6. ASSUME NEW T, NEW a \in Seq(T), NEW b \in Seq(T), Len(a) = 5, Len(b) = 5
       PROVE  /\ \A i \in 1..5 : (a \o b)[i] = a[i] /\ a[i] \in T
              /\ \A i \in 6..10 : (a \o b)[i] = b[i - 5]
  <2>1. \A i \in 1..5 : i \in 1..Len(a) /\ i \in 1..(Len(a) + Len(b)) /\ i <= Len(a)
    BY <1>6
  <2>2. \A i \in 6..10 : i \in 1..(Len(a) + Len(b)) /\ ~(i <= Len(a)) /\ i - Len(a) = i - 5
    BY <1>6
  <2>3. \A i \in 1..(Len(a) + Len(b)) : (a \o b)[i] = IF i <= Len(a) THEN a[i] ELSE b[i - Len(a)]
    OBVIOUS
  <2>4. \A i \in 1..Len(a) : a[i] \in T
    OBVIOUS
  <2> DEFINE c == a \o b
  <2> HIDE DEF c
  <2>5. ASSUME NEW i \in 1..5 PROVE c[i] = a[i] /\ a[i] \in T
    <3>1. c[i] = IF i <= Len(a) THEN a[i] ELSE b[i - Len(a)]
      BY <2>1, <2>3 DEF c
    <3> QED BY <2>1, <2>4, <3>1
  <2>6. ASSUME NEW i \in 6..10 PROVE c[i] = b[i - 5]
    <3>1. c[i] = IF i <= Len(a) THEN a[i] ELSE b[i - Len(a)]
      BY <2>2, <2>3 DEF c
    <3> QED BY <2>2, <3>1
  <2> QED BY <2>5, <2>6 DEF c
<1>7. /\ \A i \in 1..5 : su[i] = Signed[i] /\ us[i] = Unsigned[i]
      /\ \A i \in 6..10 : su[i] = Unsigned[i - 5] /\ us[i] = Signed[i - 5]
  BY <1>3, <1>6
<1>8. /\ \A i \in 1..5 : Signed[i] \in IntKinds /\ Unsigned[i] \in IntKinds
      /\ \A i \in 6..10 : i - 5 \in 1..5 /\ (i # 6 => i - 5 \in 2..5)
      /\ \A i \in 1..10 : i \in 1..5 \/ i \in 6..10
      /\ \A i \in 1..5 : i = 1 \/ i \in 2..5
  <2>1. \A i \in 1..5 : Signed[i] \in IntKinds /\ Unsigned[i] \in IntKinds
    BY <1>3, <1>6
  <2>2. /\ \A i \in 6..10 : i - 5 \in 1..5 /\ (i # 6 => i - 5 \in 2..5)
        /\ \A i \in 1..10 : i \in 1..5 \/ i \in 6..10
        /\ \A i \in 1..5 : i = 1 \/ i \in 2..5
    OBVIOUS
  <2> QED BY <2>1, <2>2
<1> HIDE DEF su, us
<1>9. CASE k \in SignedKinds
  <2>1. KeysTried(Num(k, n)) = [i \in 1..10 |-> Num(su[i], Convert(su[i], n))]
    <3> DEFINE key == Num(k, n)
    <3>1. key.k = k /\ key.v[1] = n
      BY <1>1
    <3> HIDE DEF key
    <3>2. KeysTried(key) = [i \in 1..10 |-> Num(su[i], Convert(su[i], n))]
      BY <1>2, <1>9, <1>5, <3>1 DEF KeysTried, su
    <3> QED BY <3>2 DEF key
  <2>2. su[1] = "int" /\ su[6] = "uint"
    BY <1>3, <1>7
  <2>3. \A i \in 1..10 : su[i] \in IntKinds
    BY <1>7, <1>8
  <2>4. \A i \in 1..10 : su[i] \in {"int", "uint"} => i \in {1, 6}
    BY <1>3, <1>7, <1>8
  <2> QED BY <1>9, <2>1, <2>2, <2>3, <2>4
<1>10. CASE k \notin SignedKinds
  <2>1. KeysTried(Num(k, n)) = [i \in 1..10 |-> Num(us[i], Convert(us[i], n))]
    <3> DEFINE key == Num(k, n)
    <3>1. key.k = k /\ key.v[1] = n
      BY <1>1
    <3> HIDE DEF key
    <3>2. KeysTried(key) = [i \in 1..10 |-> Num(us[i], Convert(us[i], n))]
      BY <1>2, <1>4, <1>10, <3>1 DEF KeysTried, us
    <3> QED BY <3>2 DEF key
  <2>2. us[1] = "uint" /\ us[6] = "int"
    BY <1>3, <1>7
  <2>3. \A i \in 1..10 : us[i] \in IntKinds
    BY <1>7, <1>8
  <2>4. \A i \in 1..10 : us[i] \in {"int", "uint"} => i \in {1, 6}
    BY <1>3, <1>7, <1>8
  <2> QED BY <1>10, <2>1, <2>2, <2>3, <2>4
<1> QED BY <1>9, <1>10

\* Which sent key is seen as an integer: one with that number, which alone decides the kind.
LEMMA SeenAsInt ==
    ASSUME NEW z \in Data, z.k \notin {"typed", "struct"}, NEW f \in IntKinds, NEW m \in Int
    PROVE  SameKey(Seen[z], Num(f, m)) <=>
             z.k \in IntKinds /\ z.v[1] = m /\ f = (IF m < Radix \div 2 THEN "int" ELSE "uint")
<1>1. \A k, a : Num(k, a).k = k /\ Num(k, a).v = <<a>>
  BY DEF Num, Value
<1>2. SameKey(Seen[z], Num(f, m)) <=> Seen[z].k = f /\ Seen[z].v = <<m>>
  BY <1>1 DEF SameKey
<1>3. CASE z.k \in IntKinds
  <2> DEFINE n == z.v[1]
             k == IF n < Radix \div 2 THEN "int" ELSE "uint"
  <2>1. Seen[z] = Num(k, n)
    BY <1>3, SeenAre
  <2>2. Seen[z].k = k /\ Seen[z].v = <<n>>
    <3> HIDE DEF k, n
    <3> QED BY <1>1, <2>1
  <2>3. <<n>> = <<m>> <=> n = m
    <3> HIDE DEF n
    <3> QED OBVIOUS
  <2> QED BY <1>2, <1>3, <2>2, <2>3
<1>4. CASE z.k \notin IntKinds
  <2>1. Seen[z].k \notin IntKinds
    <3>1. z.k \in FloatKinds => Seen[z].k \in FloatKinds
      BY SeenKind
    <3>2. z.k \in {"list", "map"} => Seen[z].k = z.k
      BY SeenKind
    <3>3. z.k \in {"nil", "true", "false", "string", "bytes"} => Seen[z] = z
      BY SeenKind
    <3>4. z.k \in FloatKinds \/ z.k \in {"list", "map"} \/ z.k \in {"nil", "true", "false", "string", "bytes"}
      BY <1>4, DataAre
    <3> QED BY <3>1, <3>2, <3>3, <3>4, <1>4, KindsAre DEF FloatKinds
  <2> QED BY <1>2, <1>4, <2>1
<1> QED BY <1>3, <1>4

\* The entries of a decoded map, and where a key is in it.
LEMMA EntriesSeen ==
    ASSUME NEW x \in Data, Sound[x], x.k = "map"
    PROVE  /\ Len(Carried(x)) \in Nat /\ DOMAIN Carried(x) = 1..Len(Carried(x))
           /\ Seen[x].v = [j \in 1..Len(Carried(x)) |->
                             Entry(Seen[Carried(x)[j].key], Seen[Carried(x)[j].val])]
           /\ \A j \in 1..Len(Carried(x)) :
                /\ Carried(x)[j].key \in Data /\ Carried(x)[j].key.k \notin {"typed", "struct"}
                /\ \E i \in DOMAIN x.v : Carried(x)[j] = x.v[i]
           /\ \A i, j \in 1..Len(Carried(x)) :
                i # j => Seen[Carried(x)[i].key] # Seen[Carried(x)[j].key]
<1> DEFINE t == Carried(x)
           n == Len(t)
           s == [j \in 1..n |-> Entry(Seen[t[j].key], Seen[t[j].val])]
<1>1. n \in Nat /\ DOMAIN t = 1..n
  BY CarriedIs
<1>2. \A j \in 1..n : t[j].key \in Data /\ t[j].val \in Data
  BY CarriedIs
<1>3. \A j \in 1..n : \E i \in 1..Len(x.v) : t[j] = x.v[i]
  BY CarriedIs
<1>4. DOMAIN x.v = 1..Len(x.v) /\ \A i \in 1..Len(x.v) : x.v[i].key \in Data
  BY EntriesAre
<1>5. Seen[x].v = s
  <2>1. Seen[x] = Value("map", [j \in DOMAIN t |-> Entry(Seen[t[j].key], Seen[t[j].val])])
    BY SeenAre
  <2>2. [j \in DOMAIN t |-> Entry(Seen[t[j].key], Seen[t[j].val])] = s
    BY <1>1
  <2> HIDE DEF s, t
  <2> QED BY <2>1, <2>2 DEF Value
<1>6. \A i \in 1..Len(x.v) : /\ Sound[x.v[i].key]
                             /\ \A j \in 1..(i - 1) : Seen[x.v[i].key] # Seen[x.v[j].key]
  BY <1>4, SoundIs DEF SoundWith
<1>7. \A i \in 1..Len(x.v) : x.v[i].key.k \notin {"typed", "struct"}
  BY <1>4, <1>6, SoundIs DEF SoundWith
<1>8. \A i, j \in 1..Len(x.v) : j < i => Seen[x.v[i].key] # Seen[x.v[j].key]
  <2> SUFFICES ASSUME NEW i \in 1..Len(x.v), NEW j \in 1..Len(x.v), j < i
               PROVE  Seen[x.v[i].key] # Seen[x.v[j].key]
    OBVIOUS
  <2>1. j \in 1..(i - 1)
    OBVIOUS
  <2> QED BY <1>6, <2>1
<1>9. \A i, j \in 1..n : i # j => Seen[t[i].key] # Seen[t[j].key]
  BY <1>8, Apart
<1> HIDE DEF t, n, s
<1>10. \A j \in 1..n : t[j].key.k \notin {"typed", "struct"} /\ \E i \in DOMAIN x.v : t[j] = x.v[i]
  BY <1>3, <1>4, <1>7
<1> QED BY <1>1, <1>2, <1>5, <1>9, <1>10 DEF t, n, s

\* Where a key is found, if it is only under one of those tried: in that place.
LEMMA LookupFinds ==
    ASSUME NEW m, NEW key, NEW tried, KeysTried(key) = tried, DOMAIN tried = 1..10,
           NEW h \in 1..10, NEW j, At(m, tried[h]) = {j},
           \A i \in 1..10 : i < h => At(m, tried[i]) = {}
    PROVE  TryReadValue(m, key) = m.v[j].val
<1> DEFINE hits == {i \in DOMAIN tried : At(m, tried[i]) # {}}
           first == tried[Min(hits)]
<1>1. TryReadValue(m, key) = IF hits = {} THEN Nil ELSE m.v[CHOOSE i \in At(m, first) : TRUE].val
  BY DEF TryReadValue
<1>2. h \in hits /\ hits \subseteq 1..10 /\ \A i \in hits : h <= i
  OBVIOUS
<1>3. Min(hits) = h
  <2> HIDE DEF hits
  <2>1. \A y \in hits : (\A z \in hits : y =< z) => y = h
    BY <1>2
  <2>2. \A z \in hits : h =< z
    BY <1>2
  <2>3. Min(hits) \in hits /\ \A z \in hits : Min(hits) =< z
    <3>1. \E y \in hits : \A z \in hits : y =< z
      BY <1>2, <2>2
    <3>2. Min(hits) = CHOOSE y \in hits : \A z \in hits : y =< z
      BY DEF Min
    <3> QED BY <3>1, <3>2
  <2> QED BY <2>1, <2>3
<1>4. hits # {} /\ first = tried[h]
  BY <1>2, <1>3
<1>5. (CHOOSE i \in {j} : TRUE) = j
  <2>1. j \in {j}
    OBVIOUS
  <2>2. (CHOOSE i \in {j} : TRUE) \in {j}
    BY <2>1
  <2> QED BY <2>2
<1> HIDE DEF hits, first
<1>6. At(m, first) = {j}
  BY <1>4
<1> QED BY <1>1, <1>4, <1>5, <1>6

\* What is found is under one of the keys tried.
LEMMA LookupFound ==
    ASSUME NEW m, NEW key, NEW tried, KeysTried(key) = tried, TryReadValue(m, key) # Nil
    PROVE  \E i \in DOMAIN tried : \E j \in DOMAIN m.v : SameKey(m.v[j].key, tried[i])
<1> DEFINE hits == {i \in DOMAIN tried : At(m, tried[i]) # {}}
<1>1. hits # {}
  BY DEF TryReadValue
<1>2. PICK i \in DOMAIN tried : At(m, tried[i]) # {}
  BY <1>1
<1>3. PICK j \in DOMAIN m.v : SameKey(m.v[j].key, tried[i])
  BY <1>2 DEF At
<1> QED BY <1>3

\* In a decoded map, where an integer is the key.
LEMMA AtSeen ==
    ASSUME NEW x \in Data, Sound[x], x.k = "map", NEW f \in IntKinds, NEW a \in Int
    PROVE  At(Seen[x], Num(f, a)) =
             {j \in 1..Len(Carried(x)) :
                /\ Carried(x)[j].key.k \in IntKinds /\ Carried(x)[j].key.v[1] = a
                /\ f = (IF a < Radix \div 2 THEN "int" ELSE "uint")}
<1> DEFINE t == Carried(x)
           n == Len(t)
           y == Seen[x]
           key == Num(f, a)
<1>1. n \in Nat /\ y.v = [j \in 1..n |-> Entry(Seen[t[j].key], Seen[t[j].val])]
  BY EntriesSeen
<1>2. \A j \in 1..n : t[j].key \in Data /\ t[j].key.k \notin {"typed", "struct"}
  BY EntriesSeen
<1>3. \A j \in 1..n : SameKey(Seen[t[j].key], key) <=>
        t[j].key.k \in IntKinds /\ t[j].key.v[1] = a /\ f = (IF a < Radix \div 2 THEN "int" ELSE "uint")
  BY <1>2, SeenAsInt
<1> HIDE DEF t, n, y, key
<1>4. DOMAIN y.v = 1..n /\ \A j \in 1..n : y.v[j].key = Seen[t[j].key]
  BY <1>1 DEF Entry
<1>5. At(y, key) = {j \in 1..n : SameKey(Seen[t[j].key], key)}
  BY <1>4 DEF At
<1>6. At(y, key) = {j \in 1..n : /\ t[j].key.k \in IntKinds /\ t[j].key.v[1] = a
                                 /\ f = (IF a < Radix \div 2 THEN "int" ELSE "uint")}
  BY <1>3, <1>5
<1> QED BY <1>6 DEF t, n, y, key

\* Two integers that are seen as one are one.
LEMMA SeenOnce ==
    ASSUME NEW y \in Data, NEW z \in Data, y.k \in IntKinds, z.k \in IntKinds, y.v[1] = z.v[1]
    PROVE  Seen[y] = Seen[z]
<1>1. Seen[y] = Num(IF y.v[1] < Radix \div 2 THEN "int" ELSE "uint", y.v[1])
  BY SeenAre
<1>2. Seen[z] = Num(IF z.v[1] < Radix \div 2 THEN "int" ELSE "uint", z.v[1])
  BY SeenAre
<1> QED BY <1>1, <1>2

\* A key that was sent is found under any kind that holds it.
LEMMA SentIsFound ==
    ASSUME NEW x \in Data, Sound[x], x.k = "map", NEW j \in 1..Len(Carried(x)), NEW k \in IntKinds,
           Carried(x)[j].key.k \in IntKinds, Holds(k, Carried(x)[j].key.v[1])
    PROVE  TryReadValue(Seen[x], Num(k, Carried(x)[j].key.v[1])) = Seen[Carried(x)[j].val]
<1> DEFINE t == Carried(x)
           n == t[j].key.v[1]
           y == Seen[x]
           sg == IF n < Radix \div 2 THEN "int" ELSE "uint"
           key == Num(k, n)
<1>1. /\ y.v = [i \in 1..Len(t) |-> Entry(Seen[t[i].key], Seen[t[i].val])]
      /\ \A i \in 1..Len(t) : t[i].key \in Data
      /\ \A i, l \in 1..Len(t) : i # l => Seen[t[i].key] # Seen[t[l].key]
  BY EntriesSeen
<1>2. n \in Int
  BY <1>1, DataAre
<1>3. Convert(k, n) = n
  BY DEF Holds
<1> HIDE DEF n
<1>4. /\ k \in SignedKinds => Convert("int", n) = n
      /\ k \notin SignedKinds => Convert("uint", n) = n
      /\ Convert(sg, n) = n
  BY <1>2, <1>3, Widest
<1>5. PICK f : /\ KeysTried(key) = [i \in 1..10 |-> Num(f[i], Convert(f[i], n))]
               /\ \A i \in 1..10 : f[i] \in IntKinds
               /\ f[1] = (IF k \in SignedKinds THEN "int" ELSE "uint")
               /\ f[6] = (IF k \in SignedKinds THEN "uint" ELSE "int")
               /\ \A i \in 1..10 : f[i] \in {"int", "uint"} => i \in {1, 6}
  BY <1>2, KeysTriedAre
<1> DEFINE tried == [i \in 1..10 |-> Num(f[i], Convert(f[i], n))]
<1>6. DOMAIN tried = 1..10 /\ \A i \in 1..10 : tried[i] = Num(f[i], Convert(f[i], n))
  OBVIOUS
<1>7. \A g \in IntKinds : \A a \in Int :
        At(y, Num(g, a)) = {i \in 1..Len(t) : /\ t[i].key.k \in IntKinds /\ t[i].key.v[1] = a
                                              /\ g = (IF a < Radix \div 2 THEN "int" ELSE "uint")}
  BY AtSeen
<1>8. \A g \in IntKinds : Convert(g, n) \in Int
  BY <1>2, Converted
<1>9. \A i \in 1..Len(t) : t[i].key.k \in IntKinds /\ t[i].key.v[1] = n <=> i = j
  <2> SUFFICES ASSUME NEW i \in 1..Len(t), t[i].key.k \in IntKinds, t[i].key.v[1] = n
               PROVE  i = j
    BY DEF n
  <2>1. Seen[t[i].key] = Seen[t[j].key]
    BY <1>1, SeenOnce DEF n
  <2> QED BY <1>1, <2>1
<1>10. sg \in {"int", "uint"}
  OBVIOUS
<1>11. "int" \in IntKinds /\ "uint" \in IntKinds
  BY KindsAre
<1>12. At(y, Num(sg, n)) = {j}
  <2>1. sg \in IntKinds
    BY <1>10, <1>11
  <2> QED BY <1>2, <1>7, <1>9, <2>1
<1> HIDE DEF t, y, key, tried
<1>13. y.v[j].val = Seen[t[j].val]
  <2>1. j \in 1..Len(t)
    BY DEF t
  <2>2. y.v[j] = Entry(Seen[t[j].key], Seen[t[j].val])
    BY <1>1, <2>1
  <2> QED BY <2>2 DEF Entry
<1>14. CASE f[1] = sg
  <2>1. tried[1] = Num(sg, n)
    BY <1>4, <1>6, <1>14
  <2>2. At(y, tried[1]) = {j}
    BY <1>12, <2>1
  <2>3. \A i \in 1..10 : i < 1 => At(y, tried[i]) = {}
    OBVIOUS
  <2>4. TryReadValue(y, key) = y.v[j].val
    <3>1. 1 \in 1..10 /\ KeysTried(key) = tried /\ DOMAIN tried = 1..10
      BY <1>5, <1>6 DEF tried
    <3> QED BY <2>2, <2>3, <3>1, LookupFinds
  <2> QED BY <1>13, <2>4 DEF t, y, key, n
<1>15. CASE f[1] # sg
  <2>1. f[6] = sg
    BY <1>5, <1>10, <1>15
  <2>2. tried[6] = Num(sg, n)
    BY <1>4, <1>6, <2>1
  <2>3. At(y, tried[6]) = {j}
    BY <1>12, <2>2
  <2>4. ASSUME NEW i \in 1..10, i < 6 PROVE At(y, tried[i]) = {}
    <3> DEFINE a == Convert(f[i], n)
               s == IF a < Radix \div 2 THEN "int" ELSE "uint"
    <3>1. tried[i] = Num(f[i], a) /\ f[i] \in IntKinds /\ a \in Int
      BY <1>5, <1>6, <1>8
    <3>2. At(y, tried[i]) = {l \in 1..Len(t) : t[l].key.k \in IntKinds /\ t[l].key.v[1] = a /\ f[i] = s}
      BY <1>7, <3>1
    <3>3. f[i] # s
      <4>1. CASE i = 1
        <5>1. a = n
          BY <1>4, <1>5, <4>1
        <5>2. s = sg
          BY <5>1
        <5> QED BY <1>15, <4>1, <5>2
      <4>2. CASE i # 1
        <5>1. f[i] \notin {"int", "uint"}
          BY <1>5, <2>4, <4>2
        <5> QED BY <5>1
      <4> QED BY <4>1, <4>2
    <3> HIDE DEF a, s
    <3> QED BY <3>2, <3>3
  <2>5. TryReadValue(y, key) = y.v[j].val
    <3>1. 6 \in 1..10 /\ KeysTried(key) = tried /\ DOMAIN tried = 1..10
      BY <1>5, <1>6 DEF tried
    <3> QED BY <2>3, <2>4, <3>1, LookupFinds
  <2> QED BY <1>13, <2>5 DEF t, y, key, n
<1> QED BY <1>14, <1>15

\* What is found was sent, as that number or as the one it is converted to.
LEMMA FoundWasSent ==
    ASSUME NEW x \in Data, Sound[x], x.k = "map", NEW k \in {"int", "uint"}, NEW n \in Int,
           TryReadValue(Seen[x], Num(k, n)) # Nil
    PROVE  \E j \in DOMAIN x.v : x.v[j].key.k \in IntKinds /\ Unsign(x.v[j].key.v[1], 8) = Unsign(n, 8)
<1> DEFINE t == Carried(x)
           y == Seen[x]
           key == Num(k, n)
<1>1. "int" \in SignedKinds /\ "uint" \notin SignedKinds /\ k \in IntKinds
      /\ Width("int") = 8 /\ Width("uint") = 8
  BY KindsAre DEF Width
<1>2. PICK f : /\ KeysTried(key) = [i \in 1..10 |-> Num(f[i], Convert(f[i], n))]
               /\ \A i \in 1..10 : f[i] \in IntKinds
  BY <1>1, KeysTriedAre
<1> DEFINE tried == [i \in 1..10 |-> Num(f[i], Convert(f[i], n))]
<1>3. DOMAIN tried = 1..10 /\ \A i \in 1..10 : tried[i] = Num(f[i], Convert(f[i], n))
  OBVIOUS
<1>4. DOMAIN y.v = 1..Len(t) /\ \A j \in 1..Len(t) : \E i \in DOMAIN x.v : t[j] = x.v[i]
  BY EntriesSeen
<1>5. \A g \in IntKinds : \A b \in Int :
         At(y, Num(g, b)) = {i \in 1..Len(t) : /\ t[i].key.k \in IntKinds /\ t[i].key.v[1] = b
                                               /\ g = (IF b < Radix \div 2 THEN "int" ELSE "uint")}
  BY AtSeen
<1> HIDE DEF tried, t, y, key
<1>6. PICK i \in 1..10, j \in 1..Len(t) : SameKey(y.v[j].key, tried[i])
  <2>1. KeysTried(key) = tried /\ TryReadValue(y, key) # Nil
    BY <1>2 DEF tried, y, key
  <2>2. \E i \in DOMAIN tried : \E j \in DOMAIN y.v : SameKey(y.v[j].key, tried[i])
    BY <2>1, LookupFound
  <2> QED BY <1>3, <1>4, <2>2
<1> DEFINE a == Convert(f[i], n)
           s == IF a < Radix \div 2 THEN "int" ELSE "uint"
<1>7. f[i] \in IntKinds /\ a \in Int /\ tried[i] = Num(f[i], a)
  BY <1>2, <1>3, Converted
<1>8. t[j].key.k \in IntKinds /\ t[j].key.v[1] = a /\ f[i] = s
  <2>1. At(y, Num(f[i], a)) = {l \in 1..Len(t) : t[l].key.k \in IntKinds /\ t[l].key.v[1] = a /\ f[i] = s}
    BY <1>7, <1>5
  <2>2. j \in At(y, tried[i])
    BY <1>4, <1>6 DEF At
  <2> HIDE DEF a, s
  <2> QED BY <1>7, <2>1, <2>2
<1>9. f[i] = "int" \/ f[i] = "uint"
  BY <1>8
<1>10. 8 \in {1, 2, 4, 8} /\ Unsign(Sign(n, 8), 8) = Unsign(n, 8) /\ Unsign(Unsign(n, 8), 8) = Unsign(n, 8)
  BY SignUnsign
<1>11. Unsign(a, 8) = Unsign(n, 8)
  <2>1. CASE f[i] = "int"
    <3>1. a = Sign(n, 8)
      BY <1>1, <2>1 DEF Convert
    <3> HIDE DEF a
    <3> QED BY <1>10, <3>1
  <2>2. CASE f[i] = "uint"
    <3>1. a = Unsign(n, 8)
      BY <1>1, <2>2 DEF Convert
    <3> HIDE DEF a
    <3> QED BY <1>10, <3>1
  <2> QED BY <1>9, <2>1, <2>2
<1> HIDE DEF a, s
<1>12. PICK l \in DOMAIN x.v : t[j] = x.v[l]
  BY <1>4
<1>13. x.v[l].key.k \in IntKinds /\ Unsign(x.v[l].key.v[1], 8) = Unsign(n, 8)
  BY <1>8, <1>11, <1>12
<1> QED BY <1>13

\* In a decoded map an integer key is found under every integer kind that holds it, and none is
\* found that was not sent, but for a negative one and its unsigned (codec.go 89-216).
THEOREM Lookups == Spec => []MapsRead
<1>1. TypeOK /\ ValuesSurvive => MapsRead
  <2> SUFFICES ASSUME TypeOK, ValuesSurvive PROVE MapsRead
    OBVIOUS
  <2>1. ASSUME NEW i \in SoundMaps
        PROVE  Sent(i) \in Data /\ Sound[Sent(i)] /\ Sent(i).k = "map" /\ out[i] = Seen[Sent(i)]
    <3>1. i \in DOMAIN out /\ AllSound /\ Sent(i).k = "map"
      BY <2>1 DEF SoundMaps
    <3>2. i \in DOMAIN sent /\ out[i] = Seen[Sent(i)]
      BY <3>1 DEF ValuesSurvive
    <3>3. sent[i] \in DOMAIN Values
      BY <3>2 DEF TypeOK
    <3>4. Sent(i) \in Data
      BY <3>3, ValuesAssumption DEF Sent
    <3>5. Sound[Sent(i)]
      BY <3>1, <3>2 DEF AllSound
    <3> QED BY <3>1, <3>2, <3>4, <3>5
  <2>2. KeysFound
    <3> SUFFICES ASSUME NEW i \in SoundMaps, NEW j \in DOMAIN Carried(Sent(i)), NEW k \in IntKinds,
                        IsInt(Carried(Sent(i))[j].key), Holds(k, Carried(Sent(i))[j].key.v[1])
                 PROVE  TryReadValue(out[i], Num(k, Carried(Sent(i))[j].key.v[1]))
                          = Seen[Carried(Sent(i))[j].val]
      BY DEF KeysFound
    <3> DEFINE x == Sent(i)
    <3>1. x \in Data /\ Sound[x] /\ x.k = "map" /\ out[i] = Seen[x]
      BY <2>1
    <3>2. j \in DOMAIN Carried(x) /\ Carried(x)[j].key.k \in IntKinds /\ Holds(k, Carried(x)[j].key.v[1])
      BY DEF IsInt
    <3> HIDE DEF x
    <3>3. j \in 1..Len(Carried(x))
      BY <3>1, <3>2, EntriesSeen
    <3>4. TryReadValue(Seen[x], Num(k, Carried(x)[j].key.v[1])) = Seen[Carried(x)[j].val]
      BY <3>1, <3>2, <3>3, SentIsFound
    <3> QED BY <3>1, <3>4 DEF x
  <2>3. AbsentIsNil
    <3> SUFFICES ASSUME NEW i \in SoundMaps, NEW n \in Probes, NEW k \in {"int", "uint"},
                        TryReadValue(out[i], Num(k, n)) # Nil
                 PROVE  \E j \in DOMAIN Sent(i).v :
                          /\ Sent(i).v[j].key.k \in IntKinds
                          /\ Unsign(Sent(i).v[j].key.v[1], 8) = Unsign(n, 8)
      BY DEF AbsentIsNil, IsInt
    <3> DEFINE x == Sent(i)
    <3>1. x \in Data /\ Sound[x] /\ x.k = "map" /\ out[i] = Seen[x]
      BY <2>1
    <3>2. n \in Int
      BY ValuesAssumption
    <3> HIDE DEF x
    <3>3. \E j \in DOMAIN x.v : x.v[j].key.k \in IntKinds /\ Unsign(x.v[j].key.v[1], 8) = Unsign(n, 8)
      BY <3>1, <3>2, FoundWasSent
    <3> QED BY <3>3 DEF x
  <2> QED BY <2>2, <2>3 DEF MapsRead
<1> QED BY <1>1, TypeCorrect, Survival, PTL
=============================================================================
