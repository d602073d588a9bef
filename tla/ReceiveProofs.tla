--------------------------- MODULE ReceiveProofs ---------------------------
(***************************************************************************)
(* Theorems about Receive, for peers that keep to a protocol of one packet *)
(* per message: clove packages and HTTP requests, in any number, of any    *)
(* contents, whatever formats the manager has, and wherever reads end.     *)
(*                                                                         *)
(* The argument is in two halves. One is about parsers, and has no state:  *)
(*   - ParseFromBuffer is a recursive definition; Recursion shows that it  *)
(*     has a solution, because what it calls itself on is shorter, and the *)
(*     two Equations follow;                                               *)
(*   - the bits and the bytes of a header: what Package writes there,      *)
(*     ParseFromBytes and TestMatchScore read (CloveHead, HeadOf);         *)
(*   - so that a message is Framed: it is taken off the front of whatever  *)
(*     follows it, and left alone as long as a byte of it is missing; and  *)
(*     the front of a stream of messages is Recognised.                    *)
(* The other is about streams: Segments says what a parser makes of the    *)
(* part of a stream of framed messages that is in the buffer, SteadyRead   *)
(* what parsePacket does, and SteadyInv is the inductive invariant: what   *)
(* has been received is the packets of the whole messages, and what is in  *)
(* the buffer the rest of what has been read.                              *)
(***************************************************************************)
EXTENDS Receive, Lemmas

-----------------------------------------------------------------------------
(* Bytes *)

\* A byte is a number.
LEMMA ByteIsNat == \A x \in Byte : x \in Nat /\ x <= 255
BY DEF Byte

\* The weights of a byte's bits.
LEMMA Weights ==
    /\ \A i \in 1..8 : Weight[i] \in Nat \ {0}
    /\ Weight[1] = 1 /\ Weight[2] = 2 /\ Weight[3] = 4 /\ Weight[4] = 8
    /\ Weight[5] = 16 /\ Weight[6] = 32 /\ Weight[7] = 64 /\ Weight[8] = 128
BY DEF Weight

\* The sum of the weights up to the i-th bit.
LEMMA BitsUpTo ==
    ASSUME NEW B \in SUBSET (1..8), NEW i \in 1..8
    PROVE  /\ OfBits(B \cap 1..(i - 1)) \in Nat
           /\ OfBits(B \cap 1..i) =
                OfBits(B \cap 1..(i - 1)) + IF i \in B THEN Weight[i] ELSE 0
<1> DEFINE S == B \cap 1..i
           U == B \cap 1..(i - 1)
<1>1. IsFiniteSet(S) /\ IsFiniteSet(U)
  <2>1. S \in SUBSET Nat /\ U \in SUBSET Nat /\ 8 \in Nat /\ \A x \in S \cup U : x <= 8
    OBVIOUS
  <2> HIDE DEF S, U
  <2> QED BY <2>1, FS_BoundedSetOfNaturals
<1>2. \A x \in S \cup U : Weight[x] \in Nat
  BY Weights
<1>3. SumFunctionOnSet(Weight, U) \in Nat
  BY <1>1, <1>2, SumType
<1>4. CASE i \in B
  <2>1. i \in S /\ S \ {i} = U
    BY <1>4
  <2>2. SumFunctionOnSet(Weight, S) = Weight[i] + SumFunctionOnSet(Weight, S \ {i})
    BY <1>1, <1>2, <2>1, SumSplit
  <2> QED BY <1>3, <1>4, <2>1, <2>2, Weights DEF OfBits
<1>5. CASE i \notin B
  <2>1. S = U
    BY <1>5
  <2>2. SumFunctionOnSet(Weight, S) = SumFunctionOnSet(Weight, U)
    BY <2>1
  <2> HIDE DEF S, U
  <2>3. OfBits(S) = OfBits(U) /\ OfBits(U) \in Nat
    BY <1>3, <2>2 DEF OfBits
  <2>4. OfBits(S) = OfBits(U) + IF i \in B THEN Weight[i] ELSE 0
    BY <1>5, <2>3
  <2> QED BY <2>3, <2>4 DEF S, U
<1> QED BY <1>4, <1>5

\* A byte of bits, weight by weight.
LEMMA OfBitsIs ==
    ASSUME NEW B \in SUBSET (1..8)
    PROVE  OfBits(B) =
             (IF 1 \in B THEN 1 ELSE 0) + (IF 2 \in B THEN 2 ELSE 0)
               + (IF 3 \in B THEN 4 ELSE 0) + (IF 4 \in B THEN 8 ELSE 0)
               + (IF 5 \in B THEN 16 ELSE 0) + (IF 6 \in B THEN 32 ELSE 0)
               + (IF 7 \in B THEN 64 ELSE 0) + (IF 8 \in B THEN 128 ELSE 0)
<1> DEFINE sum(i) == OfBits(B \cap 1..i)
<1>1. sum(0) = 0
  <2>1. B \cap 1..0 = {}
    OBVIOUS
  <2>2. SumFunctionOnSet(Weight, {}) = 0
    BY FS_EmptySet, SumType
  <2> QED BY <2>1, <2>2 DEF OfBits
<1>2. \A i \in 1..8 : sum(i) = sum(i - 1) + IF i \in B THEN Weight[i] ELSE 0
  BY BitsUpTo
<1>3. sum(8) = OfBits(B)
  <2>1. B \cap 1..8 = B
    OBVIOUS
  <2> QED BY <2>1
<1> HIDE DEF sum
<1>4. /\ sum(1) = IF 1 \in B THEN 1 ELSE 0
      /\ sum(2) = sum(1) + IF 2 \in B THEN 2 ELSE 0
      /\ sum(3) = sum(2) + IF 3 \in B THEN 4 ELSE 0
      /\ sum(4) = sum(3) + IF 4 \in B THEN 8 ELSE 0
      /\ sum(5) = sum(4) + IF 5 \in B THEN 16 ELSE 0
      /\ sum(6) = sum(5) + IF 6 \in B THEN 32 ELSE 0
      /\ sum(7) = sum(6) + IF 7 \in B THEN 64 ELSE 0
      /\ sum(8) = sum(7) + IF 8 \in B THEN 128 ELSE 0
  BY <1>1, <1>2, Weights
<1> QED BY <1>3, <1>4

\* A byte is the byte of its bits.
LEMMA ByteOfItsBits == \A x \in Byte : OfBits(Bits(x)) = x
<1> SUFFICES ASSUME NEW x \in Byte PROVE OfBits(Bits(x)) = x
  OBVIOUS
<1>1. Bits(x) \in SUBSET (1..8)
  BY DEF Bits
<1>2. /\ 1 \in Bits(x) <=> x % 2 = 1
      /\ 2 \in Bits(x) <=> (x \div 2) % 2 = 1
      /\ 3 \in Bits(x) <=> (x \div 4) % 2 = 1
      /\ 4 \in Bits(x) <=> (x \div 8) % 2 = 1
      /\ 5 \in Bits(x) <=> (x \div 16) % 2 = 1
      /\ 6 \in Bits(x) <=> (x \div 32) % 2 = 1
      /\ 7 \in Bits(x) <=> (x \div 64) % 2 = 1
      /\ 8 \in Bits(x) <=> (x \div 128) % 2 = 1
  <2>1. \A i \in 1..8 : i \in Bits(x) <=> (x \div Weight[i]) % 2 = 1
    BY DEF Bits
  <2>2. x \div 1 = x
    BY DEF Byte
  <2> QED BY <2>1, <2>2, Weights
<1>3. OfBits(Bits(x)) =
          (IF x % 2 = 1 THEN 1 ELSE 0) + (IF (x \div 2) % 2 = 1 THEN 2 ELSE 0)
            + (IF (x \div 4) % 2 = 1 THEN 4 ELSE 0) + (IF (x \div 8) % 2 = 1 THEN 8 ELSE 0)
            + (IF (x \div 16) % 2 = 1 THEN 16 ELSE 0) + (IF (x \div 32) % 2 = 1 THEN 32 ELSE 0)
            + (IF (x \div 64) % 2 = 1 THEN 64 ELSE 0) + (IF (x \div 128) % 2 = 1 THEN 128 ELSE 0)
  BY <1>1, <1>2, OfBitsIs
<1> QED BY <1>3 DEF Byte

\* The bits of a byte of bits.
LEMMA BitsOfByte == \A B \in SUBSET (1..8) : OfBits(B) \in Byte /\ Bits(OfBits(B)) = B
<1> SUFFICES ASSUME NEW B \in SUBSET (1..8) PROVE OfBits(B) \in Byte /\ Bits(OfBits(B)) = B
  OBVIOUS
<1> DEFINE x == OfBits(B)
<1>1. x = (IF 1 \in B THEN 1 ELSE 0) + (IF 2 \in B THEN 2 ELSE 0)
            + (IF 3 \in B THEN 4 ELSE 0) + (IF 4 \in B THEN 8 ELSE 0)
            + (IF 5 \in B THEN 16 ELSE 0) + (IF 6 \in B THEN 32 ELSE 0)
            + (IF 7 \in B THEN 64 ELSE 0) + (IF 8 \in B THEN 128 ELSE 0)
  BY OfBitsIs
<1> HIDE DEF x
<1>2. x \in Byte
  BY <1>1 DEF Byte
<1>3. /\ 1 \in B <=> x % 2 = 1
      /\ 2 \in B <=> (x \div 2) % 2 = 1
      /\ 3 \in B <=> (x \div 4) % 2 = 1
      /\ 4 \in B <=> (x \div 8) % 2 = 1
      /\ 5 \in B <=> (x \div 16) % 2 = 1
      /\ 6 \in B <=> (x \div 32) % 2 = 1
      /\ 7 \in B <=> (x \div 64) % 2 = 1
      /\ 8 \in B <=> (x \div 128) % 2 = 1
  BY <1>1
<1>4. \A i \in 1..8 : i \in B <=> (x \div Weight[i]) % 2 = 1
  BY <1>2, <1>3, Weights DEF Byte
<1>5. Bits(x) = B
  BY <1>4 DEF Bits
<1> QED BY <1>2, <1>5 DEF x

-----------------------------------------------------------------------------
(* Recursion *)

\* f solves a recursive definition over D up to the length n: what stops is given by base, and
\* the rest by comb from the value of a shorter sequence.
Solves(f, n, D, stop, base, next, comb) ==
    \A b \in D : Len(b) <= n =>
        f[b] = IF b \in stop THEN base[b] ELSE comb[<<b, f[next[b]]>>]

\* f solves it for every length.
Solution(f, D, stop, base, next, comb) ==
    \A b \in D : f[b] = IF b \in stop THEN base[b] ELSE comb[<<b, f[next[b]]>>]

\* The recursive call is on a shorter sequence.
Shortens(D, stop, next) == \A b \in D : Len(b) \in Nat /\ (b \notin stop => Len(next[b]) < Len(b))

\* A recursive definition over sequences whose recursive call is on a shorter one has a
\* solution. The parsers are such definitions: what they call themselves on is what is left.
LEMMA Recursion ==
    ASSUME NEW D, NEW V, NEW stop, NEW base \in Maps(D, V), NEW next \in Maps(D, D),
           NEW comb \in Maps(D \X V, V), Shortens(D, stop, next)
    PROVE  \E f \in Maps(D, V) : Solution(f, D, stop, base, next, comb)
<1>0. base \in [D -> V] /\ next \in [D -> D] /\ comb \in [D \X V -> V]
      /\ \A b \in D : Len(b) \in Nat /\ (b \notin stop => Len(next[b]) < Len(b))
  BY DEF Maps, Shortens
<1> USE <1>0
<1> DEFINE Solved(f, n) == Solves(f, n, D, stop, base, next, comb)
           Bad == {n \in Nat : ~ \E f \in [D -> V] : Solved(f, n)}
           Better(g) == [b \in D |-> IF b \in stop THEN base[b] ELSE comb[<<b, g[next[b]]>>]]
<1>1. \A g \in [D -> V] : Better(g) \in [D -> V]
  OBVIOUS
<1>2. 0 \notin Bad
  <2>1. base \in [D -> V] /\ Better(base) \in [D -> V]
    BY <1>1
  <2>2. Solved(Better(base), 0)
    <3>1. \A b \in D : Len(b) <= 0 => b \in stop
      OBVIOUS
    <3> QED BY <3>1 DEF Solves
  <2> QED BY <2>1, <2>2
<1>3. ASSUME NEW n \in Nat, NEW g \in [D -> V], Solved(g, n)
      PROVE  Solved(Better(g), n + 1)
  <2>1. ASSUME NEW b \in D, Len(b) <= n + 1, b \notin stop
        PROVE  Better(g)[next[b]] = g[next[b]]
    <3>1. next[b] \in D /\ Len(next[b]) <= n
      BY <2>1
    <3> QED BY <1>3, <3>1 DEF Solves
  <2> QED BY <2>1 DEF Solves
<1> HIDE DEF Solved, Better
<1>4. Bad = {}
  <2>1. SUFFICES ASSUME Bad # {} PROVE FALSE
    OBVIOUS
  <2>2. PICK n \in Bad : \A m \in Bad : n <= m
    <3>1. Bad \subseteq Nat
      OBVIOUS
    <3> HIDE DEF Bad
    <3> QED BY <2>1, <3>1, LeastOf
  <2>3. n - 1 \in Nat /\ n - 1 \notin Bad
    BY <1>2, <2>2
  <2>4. PICK g \in [D -> V] : Solved(g, n - 1)
    BY <2>3
  <2>5. Solved(Better(g), (n - 1) + 1)
    BY <1>3, <2>3, <2>4
  <2> QED BY <1>1, <2>2, <2>4, <2>5
<1>5. \A n \in Nat : \E g \in [D -> V] : Solved(g, n)
  BY <1>4
<1>6. ASSUME NEW m \in Nat, NEW n \in Nat, NEW g \in [D -> V], NEW h \in [D -> V],
             Solved(g, m), Solved(h, n)
      PROVE  \A b \in D : Len(b) <= m /\ Len(b) <= n => g[b] = h[b]
  <2> DEFINE Wrong(b) == Len(b) <= m /\ Len(b) <= n /\ g[b] # h[b]
             L == {k \in Nat : \E b \in D : Wrong(b) /\ Len(b) = k}
  <2>1. SUFFICES ASSUME L # {} PROVE FALSE
    OBVIOUS
  <2>2. PICK k \in L : \A j \in L : k <= j
    <3>1. L \subseteq Nat
      OBVIOUS
    <3> HIDE DEF L
    <3> QED BY <2>1, <3>1, LeastOf
  <2>3. PICK b \in D : Wrong(b) /\ Len(b) = k
    BY <2>2
  <2>4. b \notin stop /\ g[next[b]] # h[next[b]]
    BY <1>6, <2>3 DEF Solved, Solves
  <2>5. next[b] \in D /\ Len(next[b]) < k /\ Len(next[b]) \in Nat
    BY <2>3, <2>4
  <2>6. Wrong(next[b])
    BY <2>3, <2>4, <2>5
  <2>7. Len(next[b]) \in L
    BY <2>5, <2>6
  <2>8. k \in Nat
    OBVIOUS
  <2> HIDE DEF L, Wrong
  <2> QED BY <2>2, <2>5, <2>7, <2>8
<1> DEFINE sol(n) == CHOOSE g \in [D -> V] : Solved(g, n)
           f == [b \in D |-> sol(Len(b))[b]]
<1>7. \A n \in Nat : sol(n) \in [D -> V] /\ Solved(sol(n), n)
  BY <1>5
<1> HIDE DEF sol
<1>8. f \in [D -> V]
  BY <1>7
<1>9. ASSUME NEW b \in D
      PROVE  f[b] = IF b \in stop THEN base[b] ELSE comb[<<b, f[next[b]]>>]
  <2>0. Len(b) \in Nat /\ sol(Len(b)) \in [D -> V] /\ Solved(sol(Len(b)), Len(b))
    BY <1>7
  <2>1. sol(Len(b))[b] = IF b \in stop THEN base[b] ELSE comb[<<b, sol(Len(b))[next[b]]>>]
    BY <2>0 DEF Solved, Solves
  <2>2. ASSUME b \notin stop
        PROVE  sol(Len(b))[next[b]] = sol(Len(next[b]))[next[b]]
    <3>1. next[b] \in D /\ Len(next[b]) \in Nat /\ Len(b) \in Nat /\ Len(next[b]) <= Len(b)
      BY <2>2
    <3>2. sol(Len(next[b])) \in [D -> V] /\ Solved(sol(Len(next[b])), Len(next[b]))
      BY <1>7, <3>1
    <3>3. \A c \in D : Len(c) <= Len(b) /\ Len(c) <= Len(next[b])
                       => sol(Len(b))[c] = sol(Len(next[b]))[c]
      <4> HIDE DEF f
      <4> QED BY <1>6, <2>0, <3>1, <3>2
    <3> QED BY <3>1, <3>3
  <2> QED BY <2>1, <2>2
<1> QED BY <1>8, <1>9 DEF Maps, Solution

-----------------------------------------------------------------------------
(* What the clove parser does *)

\* What the parsers answer.
Errors == {"none", "notReady", "damage", "noMatch", "request"}

Parse == [err : Errors, pcks : Seq(Packet), rest : Seq(Byte)]

\* The length that a header announces is a number.
LEMMA AnnouncedType ==
    ASSUME NEW b \in Seq(Byte), Len(b) >= HeaderLength
    PROVE  Announced(b) \in Nat
<1>1. b[3] \in 0..255 /\ b[4] \in 0..255 /\ b[5] \in 0..255
  <2>1. 3 \in 1..Len(b) /\ 4 \in 1..Len(b) /\ 5 \in 1..Len(b)
    BY DEF HeaderLength
  <2>2. b[3] \in Byte /\ b[4] \in Byte /\ b[5] \in Byte
    BY <2>1, ElementOfSeq
  <2> QED BY <2>2 DEF Byte
<1>2. PICK x \in 0..255, y \in 0..255, z \in 0..255 : x = b[3] /\ y = b[4] /\ z = b[5]
  BY <1>1
<1>3. x * 65536 + y * 256 + z \in Nat
  OBVIOUS
<1> QED BY <1>2, <1>3 DEF Announced

\* What follows the first bytes of a buffer is bytes.
LEMMA FromType ==
    ASSUME NEW b \in Seq(Byte), NEW i \in Nat \ {0}
    PROVE  From(b, i) \in Seq(Byte) /\ (i <= Len(b) + 1 => Len(From(b, i)) = Len(b) + 1 - i)
BY DEF From

\* The & of two bytes is a byte.
LEMMA AndType == \A x, y : And(x, y) \in Byte
BY BitsOfByte DEF And, Bits

\* A sequence of one packet.
LEMMA PacketType ==
    ASSUME NEW type \in Types, NEW flags \in Byte, NEW proto \in Byte, NEW raw \in Seq(Byte)
    PROVE  <<[type |-> type, flags |-> flags, proto |-> proto, raw |-> raw]>> \in Seq(Packet)
BY DEF Packet

\* A parse without an error has one packet.
LEMMA CloveParseType ==
    ASSUME NEW in \in Seq(Byte)
    PROVE  /\ CloveParse(in).err \in Errors
           /\ CloveParse(in).err = "none" => Len(in) >= HeaderLength /\ CloveParse(in).pcks \in Seq(Packet)
<1>1. CloveParse(in).err \in {"none", "notReady", "damage", "noMatch"}
  BY DEF CloveParse, Parsed
<1>2. ASSUME CloveParse(in).err = "none"
      PROVE  /\ Len(in) >= HeaderLength /\ Announced(in) >= HeaderLength /\ ~(Announced(in) > Len(in))
             /\ CloveParse(in).pcks = <<Binary(And(in[1], MaskFlags), in[2], SubSeq(in, 6, Announced(in)))>>
  <2>1. Len(in) \in Nat /\ ~(Len(in) < HeaderLength)
    BY <1>2 DEF CloveParse, Parsed
  <2>2. Announced(in) \in Nat
    BY <2>1, AnnouncedType DEF HeaderLength
  <2>3. ~(Announced(in) < HeaderLength) /\ Featured(in) /\ ~(Announced(in) > Len(in))
    BY <1>2, <2>1 DEF CloveParse, Parsed
  <2> QED BY <2>1, <2>2, <2>3 DEF CloveParse, Parsed, HeaderLength
<1>3. ASSUME CloveParse(in).err = "none" PROVE CloveParse(in).pcks \in Seq(Packet)
  <2>1. Announced(in) \in Nat
    BY <1>2, <1>3, AnnouncedType
  <2>2. Announced(in) \in 0..Len(in) /\ 6 \in Nat \ {0} /\ 6 <= Announced(in) + 1 /\ 2 \in 1..Len(in)
    BY <1>2, <1>3, <2>1 DEF HeaderLength
  <2>3. in[2] \in Byte /\ And(in[1], MaskFlags) \in Byte /\ SubSeq(in, 6, Announced(in)) \in Seq(Byte)
    BY <2>2, Pieces, ElementOfSeq, AndType
  <2> DEFINE pck == Binary(And(in[1], MaskFlags), in[2], SubSeq(in, 6, Announced(in)))
  <2>4. <<pck>> \in Seq(Packet)
    <3>1. "binary" \in Types
      BY DEF Types
    <3> QED BY <2>3, <3>1, PacketType DEF Binary
  <2> HIDE DEF pck
  <2>5. CloveParse(in).pcks = <<pck>>
    BY <1>2, <1>3 DEF pck
  <2> QED BY <2>4, <2>5
<1>4. CloveParse(in).err \in Errors
  BY <1>1 DEF Errors
<1> QED BY <1>2, <1>3, <1>4

\* The recursive equation of CloveParseBuffer.
LEMMA CloveEquation ==
    \A b \in Seq(Byte) : CloveParseBuffer[b] =
        IF CloveIncomplete(b) THEN Parsed("none", <<>>, b)
        ELSE LET parse == CloveParse(SubSeq(b, 1, Announced(b)))
                 rest == From(b, Announced(b) + 1)
             IN  IF parse.err = "none" THEN After(parse.pcks, CloveParseBuffer[rest])
                 ELSE Parsed(IF parse.err = "notReady" THEN "none" ELSE parse.err, <<>>, rest)
<1> DEFINE D == Seq(Byte)
           parse(b) == CloveParse(SubSeq(b, 1, Announced(b)))
           rest(b) == From(b, Announced(b) + 1)
           stop == {b \in D : CloveIncomplete(b) \/ parse(b).err # "none"}
           base == [b \in D |->
                      IF CloveIncomplete(b) THEN Parsed("none", <<>>, b)
                      ELSE IF b \in stop
                      THEN Parsed(IF parse(b).err = "notReady" THEN "none" ELSE parse(b).err, <<>>, rest(b))
                      ELSE Parsed("none", <<>>, b)]
           next == [b \in D |-> IF b \in stop THEN b ELSE rest(b)]
           comb == [x \in D \X Parse |-> IF x[1] \in stop THEN x[2] ELSE After(parse(x[1]).pcks, x[2])]
           Is(f) == f = [b \in Seq(Byte) |->
                IF CloveIncomplete(b) THEN Parsed("none", <<>>, b)
                ELSE LET prs == CloveParse(SubSeq(b, 1, Announced(b)))
                         rst == From(b, Announced(b) + 1)
                     IN  IF prs.err = "none" THEN After(prs.pcks, f[rst])
                         ELSE Parsed(IF prs.err = "notReady" THEN "none" ELSE prs.err, <<>>, rst)]
<1>1. ASSUME NEW b \in D, ~CloveIncomplete(b)
      PROVE  /\ Len(b) >= HeaderLength /\ Announced(b) \in Nat /\ Announced(b) <= Len(b)
             /\ rest(b) \in D /\ Len(rest(b)) = Len(b) - Announced(b)
             /\ SubSeq(b, 1, Announced(b)) \in Seq(Byte)
             /\ Len(SubSeq(b, 1, Announced(b))) = Announced(b)
  <2>1. Len(b) >= HeaderLength /\ Announced(b) \in Nat
    BY <1>1, AnnouncedType DEF CloveIncomplete, HeaderLength
  <2>2. Announced(b) <= Len(b)
    BY <1>1, <2>1 DEF CloveIncomplete
  <2>3. Announced(b) \in 0..Len(b) /\ 1 \in Nat \ {0} /\ 1 <= Announced(b) + 1
    BY <2>1, <2>2
  <2>4. /\ SubSeq(b, 1, Announced(b)) \in Seq(Byte)
        /\ Len(SubSeq(b, 1, Announced(b))) = Announced(b) - 1 + 1
    BY <2>3, Pieces
  <2>5. rest(b) \in D /\ Len(rest(b)) = Len(b) + 1 - (Announced(b) + 1)
    <3>1. Announced(b) + 1 \in Nat \ {0} /\ Announced(b) + 1 <= Len(b) + 1
      BY <2>1, <2>2
    <3> QED BY <3>1, FromType
  <2> QED BY <2>1, <2>2, <2>4, <2>5
<1>2. ASSUME NEW b \in D, ~CloveIncomplete(b)
      PROVE  /\ parse(b).err \in Errors
             /\ parse(b).err = "none" => parse(b).pcks \in Seq(Packet) /\ Announced(b) >= HeaderLength
  BY <1>1, <1>2, CloveParseType
<1>3. base \in [D -> Parse]
  <2> SUFFICES ASSUME NEW b \in D PROVE base[b] \in Parse
    OBVIOUS
  <2>1. \A e \in Errors, r \in D : Parsed(e, <<>>, r) \in Parse
    BY DEF Parsed, Parse
  <2>2. ASSUME ~CloveIncomplete(b)
        PROVE  rest(b) \in D /\ (IF parse(b).err = "notReady" THEN "none" ELSE parse(b).err) \in Errors
    <3>1. rest(b) \in D
      BY <1>1, <2>2
    <3>2. parse(b).err \in Errors
      BY <1>2, <2>2
    <3>3. "none" \in Errors
      BY DEF Errors
    <3> HIDE DEF parse, rest, D
    <3> QED BY <3>1, <3>2, <3>3
  <2>3. "none" \in Errors
    BY DEF Errors
  <2> HIDE DEF parse, rest, stop, D
  <2> QED BY <2>1, <2>2, <2>3
<1>4. next \in [D -> D]
  BY <1>1
<1>5. comb \in [D \X Parse -> Parse]
  <2> SUFFICES ASSUME NEW b \in D, NEW v \in Parse, b \notin stop PROVE After(parse(b).pcks, v) \in Parse
    OBVIOUS
  <2>1. parse(b).pcks \in Seq(Packet)
    BY <1>2
  <2>2. v.pcks \in Seq(Packet)
    BY DEF Parse
  <2>3. parse(b).pcks \o v.pcks \in Seq(Packet)
    BY <2>1, <2>2
  <2> HIDE DEF parse
  <2> QED BY <2>3 DEF After, Parse, Parsed
<1>6. \A b \in D : Len(b) \in Nat
  OBVIOUS
<1>7. \A b \in D \ stop : Len(next[b]) < Len(b)
  <2> SUFFICES ASSUME NEW b \in D \ stop PROVE Len(next[b]) < Len(b)
    OBVIOUS
  <2>1. ~CloveIncomplete(b) /\ parse(b).err = "none" /\ next[b] = rest(b)
    OBVIOUS
  <2>2. Len(rest(b)) = Len(b) - Announced(b) /\ Announced(b) >= HeaderLength /\ Announced(b) \in Nat
    BY <1>1, <1>2, <2>1
  <2> HIDE DEF rest, next
  <2> QED BY <2>1, <2>2 DEF HeaderLength
<1> HIDE DEF base, next, comb, stop, D, parse, rest
<1>8. PICK f \in [D -> Parse] : \A b \in D :
            f[b] = IF b \in stop THEN base[b] ELSE comb[<<b, f[next[b]]>>]
  <2>1. base \in Maps(D, Parse) /\ next \in Maps(D, D) /\ comb \in Maps(D \X Parse, Parse)
    BY <1>3, <1>4, <1>5 DEF Maps
  <2>2. Shortens(D, stop, next)
    BY <1>6, <1>7 DEF Shortens
  <2>3. \E f \in Maps(D, Parse) : Solution(f, D, stop, base, next, comb)
    BY <2>1, <2>2, Recursion
  <2> QED BY <2>3 DEF Maps, Solution
<1> DEFINE Body(b) ==
               IF CloveIncomplete(b) THEN Parsed("none", <<>>, b)
               ELSE IF parse(b).err = "none" THEN After(parse(b).pcks, f[rest(b)])
               ELSE Parsed(IF parse(b).err = "notReady" THEN "none" ELSE parse(b).err, <<>>, rest(b))
<1>9. Is(f)
  <2>1. ASSUME NEW b \in D PROVE f[b] = Body(b)
    <3>1. ASSUME b \in stop
          PROVE  f[b] = Body(b)
      <4>1. f[b] = base[b] /\ (CloveIncomplete(b) \/ parse(b).err # "none")
        BY <1>8, <3>1 DEF stop
      <4> QED BY <3>1, <4>1 DEF base
    <3>2. ASSUME b \notin stop
          PROVE  f[b] = Body(b)
      <4>1. f[b] = comb[<<b, f[next[b]]>>] /\ ~CloveIncomplete(b) /\ parse(b).err = "none"
        BY <1>8, <3>2 DEF stop
      <4>2. next[b] = rest(b) /\ rest(b) \in D
        BY <1>1, <3>2, <4>1 DEF next, D
      <4>3. f[rest(b)] \in Parse
        BY <4>2
      <4>4. comb[<<b, f[rest(b)]>>] = After(parse(b).pcks, f[rest(b)])
        BY <3>2, <4>3 DEF comb
      <4> QED BY <4>1, <4>2, <4>4
    <3> QED BY <3>1, <3>2
  <2> HIDE DEF Body
  <2>2. f = [b \in D |-> Body(b)]
    BY <2>1
  <2> QED BY <2>2 DEF Body, D, parse, rest
<1>10. Is(CloveParseBuffer)
  BY <1>9 DEF CloveParseBuffer
<1> QED BY <1>10

-----------------------------------------------------------------------------
(* Clove packages *)

\* The bits of a constant.
LEMMA ConstantBits == Bits(0) = {} /\ Bits(7) = {1, 2, 3} /\ Bits(136) = {4, 8}
<1>1. \A x : Bits(x) = {i \in 1..8 : (x \div Weight[i]) % 2 = 1}
  BY DEF Bits
<1>2. \A i \in 1..8 : i \in {1, 2, 3, 4, 5, 6, 7, 8}
  OBVIOUS
<1>3. \A i \in 1..8 : (0 \div Weight[i]) % 2 # 1
  BY <1>2, Weights
<1>4. \A i \in 1..8 : (7 \div Weight[i]) % 2 = 1 <=> i \in {1, 2, 3}
  BY <1>2, Weights
<1>5. \A i \in 1..8 : (136 \div Weight[i]) % 2 = 1 <=> i \in {4, 8}
  BY <1>2, Weights
<1> QED BY <1>1, <1>3, <1>4, <1>5

\* The flag byte of a package carries the feature and the flags, and is no method's first byte.
LEMMA FlagByte ==
    ASSUME NEW flags \in 0..7
    PROVE  LET x == Or(MaskFeature, flags)
           IN  /\ x \in Byte /\ x \notin Methods
               /\ And(x, MaskFeature) = MaskFeature /\ And(x, MaskFlags) = flags
<1> DEFINE x == Or(136, flags)
<1>1. Bits(flags) \in SUBSET {1, 2, 3}
  <2>1. \A i \in 4..8 : (flags \div Weight[i]) % 2 # 1
    <3>1. \A i \in 4..8 : i \in {4, 5, 6, 7, 8}
      OBVIOUS
    <3>2. \A i \in 4..8 : Weight[i] \in {8, 16, 32, 64, 128}
      BY <3>1, Weights
    <3>3. /\ flags \div 8 = 0 /\ flags \div 16 = 0 /\ flags \div 32 = 0
          /\ flags \div 64 = 0 /\ flags \div 128 = 0
      OBVIOUS
    <3>4. \A w \in {8, 16, 32, 64, 128} : (flags \div w) % 2 # 1
      BY <3>3
    <3> QED BY <3>2, <3>4
  <2>2. \A i \in 1..8 : i \in {1, 2, 3} \/ i \in 4..8
    OBVIOUS
  <2> QED BY <2>1, <2>2 DEF Bits
<1>2. x \in Byte /\ Bits(x) = {4, 8} \cup Bits(flags)
  <2>1. {4, 8} \cup Bits(flags) \in SUBSET (1..8)
    BY <1>1
  <2> QED BY <2>1, BitsOfByte, ConstantBits DEF Or
<1> HIDE DEF x
<1>3. And(x, 136) = 136
  <2>1. Bits(x) \cap Bits(136) = Bits(136)
    BY <1>2, ConstantBits
  <2>2. OfBits(Bits(136)) = 136
    BY ByteOfItsBits DEF Byte
  <2> QED BY <2>1, <2>2 DEF And
<1>4. And(x, 7) = flags
  <2>1. Bits(x) \cap Bits(7) = Bits(flags)
    BY <1>1, <1>2, ConstantBits
  <2>2. OfBits(Bits(flags)) = flags
    BY ByteOfItsBits DEF Byte
  <2> QED BY <2>1, <2>2 DEF And
<1>5. x \notin Methods
  <2>1. (x \div 128) % 2 = 1
    <3>1. 8 \in Bits(x) /\ Weight[8] = 128
      BY <1>2, Weights
    <3> QED BY <3>1 DEF Bits
  <2> QED BY <1>2, <2>1 DEF Methods, Byte
<1> QED BY <1>2, <1>3, <1>4, <1>5 DEF x, MaskFeature, MaskFlags

\* The bytes of a number of 24 bits.
LEMMA NumberOf24Bits ==
    ASSUME NEW n \in Nat, n < 16777216
    PROVE  /\ n \div 16777216 = 0
           /\ (n \div 65536) % 256 \in Byte /\ (n \div 256) % 256 \in Byte /\ n % 256 \in Byte
           /\ ((n \div 65536) % 256) * 65536 + ((n \div 256) % 256) * 256 + (n % 256) = n
<1>1. n \div 16777216 = 0
  OBVIOUS
<1>2. (n \div 65536) % 256 \in Byte /\ (n \div 256) % 256 \in Byte /\ n % 256 \in Byte
  BY DEF Byte
<1>3. n \div 65536 < 256 /\ n \div 65536 \in Nat
  OBVIOUS
<1>4. (n \div 65536) % 256 = n \div 65536
  BY <1>3
<1>5. n = (n \div 65536) * 65536 + ((n \div 256) % 256) * 256 + (n % 256)
  OBVIOUS
<1> QED BY <1>1, <1>2, <1>4, <1>5

\* A package: the flag byte, the protocol, the length, the payload.
LEMMA ClovePackageIs ==
    ASSUME NEW pck \in ClovePackets
    PROVE  /\ ClovePackage(pck) \in Seq(Byte)
           /\ Len(pck.raw) \in Nat /\ Len(ClovePackage(pck)) = Len(pck.raw) + HeaderLength
           /\ ClovePackage(pck)[1] = Or(MaskFeature, pck.flags)
           /\ ClovePackage(pck)[2] = pck.proto
           /\ Announced(ClovePackage(pck)) = Len(pck.raw) + HeaderLength
           /\ SubSeq(ClovePackage(pck), 6, Len(ClovePackage(pck))) = pck.raw
<1> DEFINE n == Len(pck.raw) + HeaderLength
           x == Or(MaskFeature, pck.flags)
           head == <<x, pck.proto, (n \div 65536) % 256, (n \div 256) % 256, n % 256>>
<1>1. pck.flags \in 0..7 /\ pck.proto \in Protos /\ pck.raw \in Payloads
  BY DEF ClovePackets
<1>2. n \in Nat /\ n < 16777216 /\ n >= HeaderLength /\ pck.raw \in Seq(Byte) /\ Len(pck.raw) \in Nat
  BY <1>1 DEF Payloads, HeaderLength
<1>3. x \in Byte /\ pck.proto \in Byte
  BY <1>1, FlagByte DEF Protos
<1>4. Or(0, pck.proto) = pck.proto
  <2>1. Bits(0) \cup Bits(pck.proto) = Bits(pck.proto)
    BY ConstantBits
  <2> QED BY <1>3, <2>1, ByteOfItsBits DEF Or
<1>5. ClovePackage(pck) = head \o pck.raw
  <2>1. n \div 16777216 = 0
    BY <1>2, NumberOf24Bits
  <2> QED BY <1>4, <2>1 DEF ClovePackage
<1> HIDE DEF n, x
<1>6. /\ head \in Seq(Byte) /\ Len(head) = 5 /\ head[1] = x /\ head[2] = pck.proto
      /\ head[3] * 65536 + head[4] * 256 + head[5] = n
  <2>1. (n \div 65536) % 256 \in Byte /\ (n \div 256) % 256 \in Byte /\ n % 256 \in Byte
    BY <1>2, NumberOf24Bits
  <2>2. head \in Seq(Byte)
    BY <1>3, <2>1
  <2>3. ((n \div 65536) % 256) * 65536 + ((n \div 256) % 256) * 256 + (n % 256) = n
    BY <1>2, NumberOf24Bits
  <2> QED BY <2>2, <2>3
<1> HIDE DEF head
<1>7. /\ head \o pck.raw \in Seq(Byte) /\ Len(head \o pck.raw) = 5 + Len(pck.raw)
      /\ \A i \in 1..5 : (head \o pck.raw)[i] = head[i]
  <2>1. head \in Seq(Byte) /\ Len(head) = 5 /\ pck.raw \in Seq(Byte) /\ Len(pck.raw) \in Nat
    BY <1>2, <1>6
  <2>2. /\ head \o pck.raw \in Seq(Byte) /\ Len(head \o pck.raw) = Len(head) + Len(pck.raw)
        /\ \A i \in 1..(Len(head) + Len(pck.raw)) :
             (head \o pck.raw)[i] = IF i <= Len(head) THEN head[i] ELSE pck.raw[i - Len(head)]
    BY <2>1, ConcatProperties
  <2> QED BY <2>1, <2>2
<1>8. SubSeq(head \o pck.raw, 6, Len(head \o pck.raw)) = pck.raw
  <2>1. head \in Seq(Byte) /\ pck.raw \in Seq(Byte) /\ 6 = Len(head) + 1
    BY <1>2, <1>6
  <2>2. \A i : i = Len(head) + 1 => SubSeq(head \o pck.raw, i, Len(head \o pck.raw)) = pck.raw
    BY <2>1, Parts
  <2> QED BY <2>1, <2>2
<1>9. Announced(ClovePackage(pck)) = n
  <2> DEFINE b == head \o pck.raw
  <2>1. b[3] = head[3] /\ b[4] = head[4] /\ b[5] = head[5]
    BY <1>7
  <2> HIDE DEF b
  <2>2. Announced(b) = n
    BY <1>6, <2>1 DEF Announced
  <2> QED BY <1>5, <2>2 DEF b
<1> QED BY <1>2, <1>5, <1>6, <1>7, <1>8, <1>9 DEF n, x, HeaderLength

\* What the header of a package says, wherever the bytes behind it end.
LEMMA CloveHead ==
    ASSUME NEW pck \in ClovePackets, NEW b \in Seq(Byte), Len(b) >= HeaderLength,
           \A i \in 1..5 : b[i] = ClovePackage(pck)[i]
    PROVE  /\ Announced(b) = Len(pck.raw) + HeaderLength /\ Featured(b) /\ b[1] \notin Methods
           /\ And(b[1], MaskFlags) = pck.flags /\ b[2] = pck.proto
<1>1. b[1] = Or(MaskFeature, pck.flags) /\ b[2] = pck.proto /\ Announced(b) = Len(pck.raw) + HeaderLength
  BY ClovePackageIs DEF Announced
<1>2. pck.flags \in 0..7
  BY DEF ClovePackets
<1> QED BY <1>1, <1>2, FlagByte DEF Featured

-----------------------------------------------------------------------------
(* Framing *)

\* The parser of the format tag takes the packets pcks out of bytes, whatever follows them in
\* the buffer, and takes nothing as long as one of them is missing.
Framed(tag, bytes, pcks) ==
    /\ bytes \in Seq(Byte) /\ bytes # <<>> /\ pcks \in Seq(Packet)
    /\ \A rest \in Seq(Byte) : ParseBuffer(tag, rest).err = "none"
         => ParseBuffer(tag, bytes \o rest) = After(pcks, ParseBuffer(tag, rest))
    /\ \A k \in 0..(Len(bytes) - 1) :
         ParseBuffer(tag, SubSeq(bytes, 1, k)) = Parsed("none", <<>>, SubSeq(bytes, 1, k))

\* What Package makes of a packet is framed: ParseFromBuffer undoes it.
LEMMA CloveFramed ==
    ASSUME NEW pck \in ClovePackets
    PROVE  Framed("clove", ClovePackage(pck), <<pck>>)
<1> DEFINE p == ClovePackage(pck)
           n == Len(p)
<1>1. /\ p \in Seq(Byte) /\ n \in Nat /\ n = Len(pck.raw) + HeaderLength /\ n >= HeaderLength
      /\ Announced(p) = n /\ SubSeq(p, 6, n) = pck.raw
  BY ClovePackageIs DEF HeaderLength
<1>2. p # <<>> /\ <<pck>> \in Seq(Packet)
  <2>1. pck.raw \in Seq(Byte)
    BY DEF ClovePackets, Payloads
  <2>2. pck = [type |-> pck.type, flags |-> pck.flags, proto |-> pck.proto, raw |-> pck.raw]
    BY DEF ClovePackets
  <2>3. pck.type \in Types /\ pck.flags \in Byte /\ pck.proto \in Byte
    BY DEF ClovePackets, Protos, Types, Byte
  <2>4. <<pck>> \in Seq(Packet)
    BY <2>1, <2>2, <2>3, PacketType
  <2>5. p # <<>>
    BY <1>1 DEF HeaderLength
  <2> QED BY <2>4, <2>5
<1>3. pck = Binary(pck.flags, pck.proto, pck.raw)
  BY DEF ClovePackets, Binary
<1> HIDE DEF p
<1>4. CloveParse(p) = Parsed("none", <<pck>>, <<>>)
  <2>1. Featured(p) /\ And(p[1], MaskFlags) = pck.flags /\ p[2] = pck.proto
    BY <1>1, CloveHead DEF p
  <2>2. From(p, n + 1) = <<>>
    BY <1>1 DEF From
  <2>3. ~(Len(p) < HeaderLength) /\ ~(Announced(p) < HeaderLength) /\ ~(Announced(p) > Len(p))
    BY <1>1 DEF HeaderLength
  <2>4. CloveParse(p) = Parsed("none", <<Binary(And(p[1], MaskFlags), p[2], SubSeq(p, 6, Announced(p)))>>,
                               From(p, Announced(p) + 1))
    BY <2>1, <2>3 DEF CloveParse
  <2>5. Binary(And(p[1], MaskFlags), p[2], SubSeq(p, 6, Announced(p))) = pck
    BY <1>1, <1>3, <2>1
  <2>6. From(p, Announced(p) + 1) = <<>>
    BY <1>1, <2>2
  <2> QED BY <2>4, <2>5, <2>6
<1>5. ASSUME NEW rest \in Seq(Byte)
      PROVE  CloveParseBuffer[p \o rest] = After(<<pck>>, CloveParseBuffer[rest])
  <2> DEFINE b == p \o rest
  <2>1. /\ b \in Seq(Byte) /\ Len(b) = n + Len(rest) /\ Len(rest) \in Nat
        /\ SubSeq(b, 1, n) = p /\ From(b, n + 1) = rest
    <3>1. p \in Seq(Byte) /\ rest \in Seq(Byte) /\ n + 1 = Len(p) + 1
      BY <1>1
    <3>2. /\ b \in Seq(Byte) /\ Len(b) = Len(p) + Len(rest)
          /\ SubSeq(b, 1, Len(p)) = p
          /\ \A i : i = Len(p) + 1 => SubSeq(b, i, Len(b)) = rest
      BY <3>1, Parts
    <3>3. Len(rest) \in Nat
      OBVIOUS
    <3> HIDE DEF b
    <3> QED BY <3>1, <3>2, <3>3 DEF From
  <2>2. \A i \in 1..5 : b[i] = p[i]
    <3>1. \A i \in 1..(Len(p) + Len(rest)) : (p \o rest)[i] = IF i <= Len(p) THEN p[i] ELSE rest[i - Len(p)]
      BY <1>1, ConcatProperties
    <3> QED BY <1>1, <2>1, <3>1 DEF HeaderLength
  <2> HIDE DEF b
  <2>3. Announced(b) = n
    <3>1. Len(b) >= HeaderLength /\ \A i \in 1..5 : b[i] = ClovePackage(pck)[i]
      BY <1>1, <2>1, <2>2 DEF p, HeaderLength
    <3>2. Announced(b) = Len(pck.raw) + HeaderLength
      BY <2>1, <3>1, CloveHead
    <3> QED BY <1>1, <3>2
  <2>4. ~CloveIncomplete(b)
    BY <1>1, <2>1, <2>3 DEF CloveIncomplete, HeaderLength
  <2>5. CloveParse(SubSeq(b, 1, Announced(b))) = Parsed("none", <<pck>>, <<>>) /\ From(b, Announced(b) + 1) = rest
    BY <1>4, <2>1, <2>3
  <2>6. CloveParseBuffer[b] = After(<<pck>>, CloveParseBuffer[rest])
    <3>1. CloveParseBuffer[b] =
             IF CloveParse(SubSeq(b, 1, Announced(b))).err = "none"
             THEN After(CloveParse(SubSeq(b, 1, Announced(b))).pcks, CloveParseBuffer[From(b, Announced(b) + 1)])
             ELSE Parsed(IF CloveParse(SubSeq(b, 1, Announced(b))).err = "notReady" THEN "none"
                         ELSE CloveParse(SubSeq(b, 1, Announced(b))).err, <<>>, From(b, Announced(b) + 1))
      BY <2>1, <2>4, CloveEquation
    <3>2. Parsed("none", <<pck>>, <<>>).err = "none" /\ Parsed("none", <<pck>>, <<>>).pcks = <<pck>>
      BY DEF Parsed
    <3> QED BY <2>5, <3>1, <3>2
  <2> QED BY <2>6 DEF b
<1>6. ASSUME NEW k \in 0..(n - 1)
      PROVE  CloveParseBuffer[SubSeq(p, 1, k)] = Parsed("none", <<>>, SubSeq(p, 1, k))
  <2> DEFINE b == SubSeq(p, 1, k)
  <2>1. b \in Seq(Byte) /\ Len(b) = k /\ \A i \in 1..k : b[i] = p[i]
    <3>1. 1 \in Nat \ {0} /\ k \in 0..Len(p) /\ 1 <= k + 1
      BY <1>1
    <3>2. /\ b \in Seq(Byte) /\ Len(b) = k - 1 + 1 /\ \A i \in 1..(k - 1 + 1) : b[i] = p[1 + i - 1]
      BY <1>1, <3>1, Pieces
    <3> HIDE DEF b
    <3> QED BY <3>1, <3>2
  <2> HIDE DEF b
  <2>2. Len(b) >= HeaderLength => Announced(b) = n
    <3>1. Len(b) >= HeaderLength => \A i \in 1..5 : b[i] = ClovePackage(pck)[i]
      BY <1>1, <2>1 DEF p, HeaderLength
    <3>2. Len(b) >= HeaderLength => Announced(b) = Len(pck.raw) + HeaderLength
      BY <2>1, <3>1, CloveHead
    <3> QED BY <1>1, <3>2
  <2>3. CloveIncomplete(b)
    BY <1>1, <2>1, <2>2 DEF CloveIncomplete, HeaderLength
  <2>4. CloveParseBuffer[b] = Parsed("none", <<>>, b)
    BY <2>1, <2>3, CloveEquation
  <2> QED BY <2>4 DEF b
<1>7. \A b : ParseBuffer("clove", b) = CloveParseBuffer[b]
  BY DEF ParseBuffer
<1> QED BY <1>1, <1>2, <1>5, <1>6, <1>7 DEF Framed, p

-----------------------------------------------------------------------------
(* Streams *)

\* The parser takes the messages that a segment of a stream of framed messages completes, and
\* leaves the part of the next one: k messages are parsed, and c are complete within a bytes.
Takes(tag, B, P, n, a, c, k) ==
    \E pcks \in Seq(Packet) :
        /\ ParseBuffer(tag, Behind(B, n, k, a)) = Parsed("none", pcks, Behind(B, n, c, a))
        /\ Flat(P, k) \o pcks = Flat(P, c)

\* The parser of framed messages takes them so, from wherever it begins: by induction from the
\* last whole message down.
LEMMA Segments ==
    ASSUME NEW tag, NEW n \in Nat, NEW B \in Family(Byte, n), NEW P \in Family(Packet, n),
           ParseBuffer(tag, <<>>) = Parsed("none", <<>>, <<>>),
           \A i \in 1..n : Framed(tag, B[i], P[i]),
           NEW c \in 0..n, NEW a \in Nat, a <= Len(Flat(B, n)),
           Len(Flat(B, c)) <= a, c < n => a < Len(Flat(B, c + 1))
    PROVE  \A k \in 0..c : Takes(tag, B, P, n, a, c, k)
<1> DEFINE Bad == {d \in 0..c : ~Takes(tag, B, P, n, a, c, c - d)}
<1>1. /\ \A i \in 0..n : Flat(B, i) \in Seq(Byte) /\ Len(Flat(B, i)) \in Nat /\ Flat(P, i) \in Seq(Packet)
      /\ \A i \in 1..n : /\ B[i] \in Seq(Byte) /\ Len(B[i]) \in Nat
                         /\ Len(Flat(B, i)) = Len(Flat(B, i - 1)) + Len(B[i])
                         /\ P[i] \in Seq(Packet) /\ Flat(P, i) = Flat(P, i - 1) \o P[i]
  BY Ends, FlattenNext
<1>2. Takes(tag, B, P, n, a, c, c)
  <2> DEFINE s == Behind(B, n, c, a)
  <2>1. ParseBuffer(tag, s) = Parsed("none", <<>>, s)
    <3>1. CASE c = n
      <4>1. s = <<>>
        BY <1>1, <3>1 DEF Behind
      <4> HIDE DEF s
      <4> QED BY <4>1
    <3>2. CASE c < n
      <4>0. PICK i \in 1..n : i = c + 1
        BY <3>2
      <4> DEFINE x == Len(Flat(B, i - 1))
                 y == Len(B[i])
                 z == Len(Flat(B, i))
      <4>1. i \in 1..n /\ i - 1 = c
        BY <4>0
      <4>2. x \in Nat /\ y \in Nat /\ z = x + y /\ x <= a /\ a < z
        <5>1. i - 1 \in 0..n
          BY <4>1
        <5>2. x \in Nat /\ y \in Nat /\ z = x + y
          BY <1>1, <4>1, <5>1
        <5>3. a < z
          BY <3>2, <4>0
        <5> QED BY <4>1, <5>2, <5>3
      <4>3. x <= a /\ a <= z /\ a - x \in 0..(y - 1)
        <5> HIDE DEF x, y, z
        <5> QED BY <4>2
      <4>4. Behind(B, n, i - 1, a) = SubSeq(B[i], 1, a - x)
        <5>1. Len(Flat(B, i - 1)) <= a /\ a <= Len(Flat(B, i))
                => Behind(B, n, i - 1, a) = SubSeq(B[i], 1, a - Len(Flat(B, i - 1)))
          BY StreamPieces
        <5> QED BY <4>3, <5>1
      <4>5. s = SubSeq(B[i], 1, a - x)
        BY <4>1, <4>4
      <4> HIDE DEF s, x
      <4> QED BY <4>1, <4>3, <4>5 DEF Framed
    <3> QED BY <3>1, <3>2
  <2>2. <<>> \in Seq(Packet) /\ Flat(P, c) \o <<>> = Flat(P, c)
    BY <1>1, ConcatEmptySeq
  <2> QED BY <2>1, <2>2 DEF Takes
<1>3. ASSUME NEW k \in 1..c, Takes(tag, B, P, n, a, c, k)
      PROVE  Takes(tag, B, P, n, a, c, k - 1)
  <2> DEFINE s == Behind(B, n, k, a)
             rest == Behind(B, n, c, a)
  <2>1. PICK pcks \in Seq(Packet) :
            ParseBuffer(tag, s) = Parsed("none", pcks, rest) /\ Flat(P, k) \o pcks = Flat(P, c)
    BY <1>3 DEF Takes
  <2>2. k \in 1..n /\ k - 1 \in 0..n
    OBVIOUS
  <2>3. Behind(B, n, k - 1, a) = B[k] \o s
    <3>1. Len(Flat(B, k)) <= a
      <4>1. Len(Flat(B, k)) <= Len(Flat(B, c)) /\ k \in 0..n
        BY <2>2, Fronts
      <4> QED BY <1>1, <4>1
    <3> QED BY <2>2, <3>1, StreamPieces
  <2>4. s \in Seq(Byte)
    <3>1. /\ Flat(B, n) \in Seq(Byte) /\ Len(Flat(B, k)) + 1 \in Nat \ {0} /\ a \in 0..Len(Flat(B, n))
          /\ Len(Flat(B, k)) + 1 <= a + 1
      <4>1. Len(Flat(B, k)) <= Len(Flat(B, c)) /\ k \in 0..n
        BY <2>2, Fronts
      <4> QED BY <1>1, <4>1
    <3> QED BY <3>1, Pieces DEF Behind
  <2> HIDE DEF s, rest
  <2>5. ParseBuffer(tag, B[k] \o s) = After(P[k], Parsed("none", pcks, rest))
    <3>1. ParseBuffer(tag, s).err = "none"
      BY <2>1 DEF Parsed
    <3> QED BY <2>1, <2>2, <2>4, <3>1 DEF Framed
  <2>6. After(P[k], Parsed("none", pcks, rest)) = Parsed("none", P[k] \o pcks, rest)
    BY DEF After, Parsed
  <2>7. P[k] \o pcks \in Seq(Packet) /\ Flat(P, k - 1) \o (P[k] \o pcks) = Flat(P, c)
    <3>1. P[k] \in Seq(Packet) /\ Flat(P, k - 1) \in Seq(Packet) /\ Flat(P, k) = Flat(P, k - 1) \o P[k]
      BY <1>1, <2>2
    <3> DEFINE x == Flat(P, k - 1)
               y == P[k]
    <3>2. x \in Seq(Packet) /\ y \in Seq(Packet) /\ pcks \in Seq(Packet)
      BY <2>1, <3>1
    <3>5. (x \o y) \o pcks = Flat(P, c)
      BY <2>1, <3>1
    <3> HIDE DEF x, y
    <3>3. (x \o y) \o pcks = x \o (y \o pcks)
      BY <3>2, ConcatAssociative, SMTT(40)
    <3>4. y \o pcks \in Seq(Packet) /\ x \o (y \o pcks) = Flat(P, c)
      BY <3>2, <3>3, <3>5
    <3> QED BY <3>4 DEF x, y
  <2> QED BY <2>3, <2>5, <2>6, <2>7 DEF Takes, s, rest
<1>4. Bad = {}
  <2> SUFFICES ASSUME Bad # {} PROVE FALSE
    OBVIOUS
  <2>1. PICK d \in Bad : \A h \in Bad : d <= h
    <3>1. Bad \subseteq Nat
      OBVIOUS
    <3> HIDE DEF Bad
    <3> QED BY <3>1, LeastOf
  <2>2. d \in 0..c /\ ~Takes(tag, B, P, n, a, c, c - d)
        /\ \A h \in 0..c : ~Takes(tag, B, P, n, a, c, c - h) => d <= h
    BY <2>1
  <2> HIDE DEF Bad
  <2>3. d # 0
    <3>1. c - 0 = c
      OBVIOUS
    <3> QED BY <1>2, <2>2, <3>1
  <2>4. d - 1 \in 0..c /\ ~(d <= d - 1) /\ c - (d - 1) \in 1..c /\ (c - (d - 1)) - 1 = c - d
    BY <2>2, <2>3
  <2>5. Takes(tag, B, P, n, a, c, c - (d - 1))
    BY <2>2, <2>4
  <2>6. Takes(tag, B, P, n, a, c, (c - (d - 1)) - 1)
    BY <1>3, <2>4, <2>5
  <2> QED BY <2>2, <2>4, <2>6
<1>5. ASSUME NEW k \in 0..c PROVE Takes(tag, B, P, n, a, c, k)
  <2>1. c - k \in 0..c /\ c - (c - k) = k
    OBVIOUS
  <2>2. c - k \notin Bad
    BY <1>4
  <2>3. Takes(tag, B, P, n, a, c, c - (c - k))
    BY <2>1, <2>2
  <2> QED BY <2>1, <2>3
<1> QED BY <1>5

-----------------------------------------------------------------------------
(* Identification *)

\* Max is the greatest element of a set.
LEMMA MaxIs ==
    ASSUME NEW S \in SUBSET Int, NEW x \in S, \A y \in S : y <= x
    PROVE  Max(S) = x
<1> DEFINE Greatest(z) == z \in S /\ \A y \in S : z >= y
           z == CHOOSE y : Greatest(y)
<1>1. Greatest(x)
  OBVIOUS
<1>2. Greatest(z)
  BY <1>1
<1>3. Max(S) = z
  BY DEF Max
<1> HIDE DEF z
<1> QED BY <1>2, <1>3

\* Determine when every format but fmt sees nothing of its own in the buffer b.
LEMMA Determined ==
    ASSUME NEW m \in SUBSET Tags, NEW fmt \in m \ {"text"}, NEW b,
           \A tag \in m \ {"text"} : Score(tag, b) \in Int /\ Score(tag, b) >= -1,
           \A tag \in m \ {"text", fmt} : Score(tag, b) <= 0
    PROVE  /\ Score(fmt, b) >= 90 => Determine(m, b) = fmt
           /\ Score(fmt, b) < 90 /\ (\E tag \in m \ {"text"} : Score(tag, b) >= 0)
                => Determine(m, b) = "nil"
           /\ (\A tag \in m \ {"text"} : Score(tag, b) = -1)
                => Determine(m, b) = IF "text" \in m THEN "text" ELSE "nil"
<1> DEFINE tried == m \ {"text"}
           S == {-1} \cup {Score(tag, b) : tag \in tried}
           best == Max(S)
<1>1. /\ S \in SUBSET Int /\ \A x \in S : x >= -1
      /\ fmt \in tried /\ Score(fmt, b) \in S
      /\ \A tag \in tried : Score(tag, b) \in S
      /\ \A x \in S : x = Score(fmt, b) \/ x <= 0
  OBVIOUS
<1>2. Determine(m, b) =
          IF best < 0 THEN IF "text" \in m THEN "text" ELSE "nil"
          ELSE IF best < 90 THEN "nil"
          ELSE CHOOSE tag \in tried : Score(tag, b) = best
  BY DEF Determine
<1>3. ASSUME Score(fmt, b) >= 90 PROVE Determine(m, b) = fmt
  <2>1. best = Score(fmt, b)
    <3> HIDE DEF S
    <3>1. Score(fmt, b) \in S /\ \A y \in S : y <= Score(fmt, b)
      BY <1>1, <1>3
    <3> QED BY <1>1, <3>1, MaxIs
  <2>2. \A tag \in tried : Score(tag, b) = Score(fmt, b) => tag = fmt
    BY <1>1, <1>3
  <2> HIDE DEF best, tried
  <2>3. (CHOOSE tag \in tried : Score(tag, b) = Score(fmt, b)) = fmt
    BY <1>1, <2>2
  <2> QED BY <1>1, <1>2, <1>3, <2>1, <2>3
<1>4. ASSUME Score(fmt, b) < 90, NEW tag \in tried, Score(tag, b) >= 0
      PROVE  Determine(m, b) = "nil"
  <2> DEFINE x == IF Score(fmt, b) > 0 THEN Score(fmt, b) ELSE 0
  <2>1. x \in S /\ (\A y \in S : y <= x) /\ x >= 0 /\ x < 90
    <3>1. tag = fmt \/ Score(tag, b) <= 0
      OBVIOUS
    <3>2. Score(tag, b) \in S /\ Score(fmt, b) \in Int /\ Score(tag, b) \in Int
      BY <1>1
    <3> HIDE DEF S, tried
    <3> QED BY <1>1, <1>4, <3>1, <3>2
  <2>2. best = x
    <3> HIDE DEF S, x
    <3> QED BY <1>1, <2>1, MaxIs
  <2>3. x \in Int
    BY <1>1, <2>1
  <2> HIDE DEF best, tried, x, S
  <2> QED BY <1>2, <2>1, <2>2, <2>3
<1>5. ASSUME \A tag \in tried : Score(tag, b) = -1
      PROVE  Determine(m, b) = IF "text" \in m THEN "text" ELSE "nil"
  <2>1. -1 \in S /\ \A y \in S : y <= -1
    BY <1>5
  <2>2. best = -1
    <3> HIDE DEF S
    <3> QED BY <1>1, <2>1, MaxIs
  <2> HIDE DEF best, tried
  <2> QED BY <1>2, <2>2
<1> QED BY <1>3, <1>4, <1>5

\* What a manager with the format fmt makes of the bytes b with which a peer begins, when its
\* first message has n bytes.
Recognised(m, fmt, b, n) ==
    \/ "text" \in m /\ Len(b) < (IF "clove" \in m THEN HeaderLength ELSE HeadMin)
    \/ Determine(m, b) = fmt
    \/ Determine(m, b) = "nil" /\ Len(b) < n

\* The front of a clove package is not taken for anything else.
LEMMA CloveRecognised ==
    ASSUME NEW m \in SUBSET Tags, "clove" \in m, NEW pck \in ClovePackets, NEW b \in Seq(Byte), b # <<>>,
           \A i \in 1..Len(b) : i <= Len(ClovePackage(pck)) => b[i] = ClovePackage(pck)[i]
    PROVE  Recognised(m, "clove", b, Len(ClovePackage(pck)))
<1> DEFINE p == ClovePackage(pck)
<1>1. /\ p \in Seq(Byte) /\ Len(p) = Len(pck.raw) + HeaderLength /\ Len(pck.raw) \in Nat
      /\ p[1] \notin Methods /\ Len(b) \in Nat /\ Len(b) >= 1
  <2>1. /\ p \in Seq(Byte) /\ Len(p) = Len(pck.raw) + HeaderLength /\ Len(pck.raw) \in Nat
        /\ p[1] = Or(MaskFeature, pck.flags)
    BY ClovePackageIs
  <2>2. pck.flags \in 0..7
    BY DEF ClovePackets
  <2>3. Len(b) \in Nat /\ Len(b) >= 1
    OBVIOUS
  <2> HIDE DEF p
  <2> QED BY <2>1, <2>2, <2>3, FlagByte
<1>2. b[1] \notin Methods
  <2>1. 1 \in 1..Len(b) /\ 1 <= Len(p)
    BY <1>1 DEF HeaderLength
  <2>2. b[1] = p[1]
    BY <2>1
  <2> QED BY <1>1, <2>2
<1>3. HttpScore(b) = -1 /\ WsScore(b) = -1
  BY <1>2 DEF HttpScore, WsScore
<1>4. Len(b) >= HeaderLength =>
         /\ Announced(b) = Len(p) /\ Featured(b) /\ b[2] \div 16 # 0 /\ b[2] % 16 # 0
  <2> SUFFICES ASSUME Len(b) >= HeaderLength
               PROVE  /\ Announced(b) = Len(p) /\ Featured(b) /\ b[2] \div 16 # 0 /\ b[2] % 16 # 0
    OBVIOUS
  <2>1. \A i \in 1..5 : i \in 1..Len(b) /\ i <= Len(p)
    BY <1>1 DEF HeaderLength
  <2>2. \A i \in 1..5 : b[i] = p[i]
    BY <2>1
  <2>3. Announced(b) = Len(pck.raw) + HeaderLength /\ Featured(b) /\ b[2] = pck.proto
    BY <2>2, CloveHead
  <2>4. pck.proto \div 16 # 0 /\ pck.proto % 16 # 0
    BY DEF ClovePackets, Protos
  <2> QED BY <1>1, <2>3, <2>4
<1>5. CloveScore(b) = IF Len(b) < HeaderLength THEN -1 ELSE IF Len(p) > Len(b) THEN 50 ELSE 99
  <2> HIDE DEF p
  <2>1. ~(Len(b) < HeaderLength) => Len(b) >= HeaderLength
    BY <1>1 DEF HeaderLength
  <2>2. ~(Len(b) < HeaderLength) =>
           /\ ~(0 \in {b[2] \div 16, b[2] % 16}) /\ ~(Announced(b) < HeaderLength) /\ Featured(b)
           /\ Announced(b) = Len(p)
    BY <1>1, <1>4, <2>1 DEF HeaderLength
  <2> QED BY <2>2 DEF CloveScore
<1>6. /\ \A tag \in m \ {"text"} : Score(tag, b) \in Int /\ Score(tag, b) >= -1
      /\ \A tag \in m \ {"text", "clove"} : Score(tag, b) = -1
      /\ Score("clove", b) = CloveScore(b)
  BY <1>3, <1>5 DEF Score, Tags
<1> HIDE DEF p
<1>7. /\ Score("clove", b) >= 90 => Determine(m, b) = "clove"
      /\ Score("clove", b) < 90 /\ (\E tag \in m \ {"text"} : Score(tag, b) >= 0)
           => Determine(m, b) = "nil"
      /\ (\A tag \in m \ {"text"} : Score(tag, b) = -1)
           => Determine(m, b) = IF "text" \in m THEN "text" ELSE "nil"
  <2>1. "clove" \in m \ {"text"}
    OBVIOUS
  <2>2. \A tag \in m \ {"text", "clove"} : Score(tag, b) <= 0
    BY <1>6
  <2> QED BY <1>6, <2>1, <2>2, Determined
<1>8. CASE Len(b) < HeaderLength
  <2>1. \A tag \in m \ {"text"} : Score(tag, b) = -1
    BY <1>5, <1>6, <1>8
  <2>2. Len(b) < Len(p)
    BY <1>1, <1>8 DEF HeaderLength
  <2> QED BY <1>7, <1>8, <2>1, <2>2 DEF Recognised, p
<1>9. CASE ~(Len(b) < HeaderLength) /\ Len(p) > Len(b)
  <2>1. Score("clove", b) = 50
    BY <1>5, <1>6, <1>9
  <2>2. Determine(m, b) = "nil" /\ Len(b) < Len(p)
    BY <1>1, <1>7, <1>9, <2>1
  <2> QED BY <2>2 DEF Recognised, p
<1>10. CASE ~(Len(b) < HeaderLength) /\ ~(Len(p) > Len(b))
  <2>1. Score("clove", b) = 99
    BY <1>5, <1>6, <1>10
  <2>2. Determine(m, b) = "clove"
    BY <1>7, <2>1
  <2> QED BY <2>2 DEF Recognised, p
<1> QED BY <1>8, <1>9, <1>10 DEF p

-----------------------------------------------------------------------------
(* A peer whose messages are framed and recognised *)

\* The messages of n that a bytes complete.
Count(e, n, a) == Cardinality({i \in 1..n : Len(Flat(e, i)) <= a})

\* The count is the number of the last message that ends within a bytes.
LEMMA CountIs ==
    ASSUME NEW T, NEW n \in Nat, NEW e \in Family(T, n), NEW a \in Nat
    PROVE  \E c \in 0..n : /\ Count(e, n, a) = c /\ Len(Flat(e, c)) <= a
                           /\ c < n => a < Len(Flat(e, c + 1))
<1> DEFINE Over == {i \in 1..n : ~(Len(Flat(e, i)) <= a)}
           Done == {i \in 1..n : Len(Flat(e, i)) <= a}
<1>1. Len(Flat(e, 0)) = 0 /\ \A i \in 0..n : Len(Flat(e, i)) \in Nat
  BY Ends
<1>2. \E c \in 0..n : Done = 1..c /\ Len(Flat(e, c)) <= a /\ (c < n => a < Len(Flat(e, c + 1)))
  <2>1. CASE Over = {}
    <3>1. Done = 1..n
      BY <2>1
    <3>2. Len(Flat(e, n)) <= a
      <4>1. n = 0 \/ n \in 1..n
        OBVIOUS
      <4>2. Len(Flat(e, 0)) <= a
        BY <1>1
      <4> QED BY <2>1, <4>1, <4>2
    <3> HIDE DEF Done
    <3> QED BY <3>1, <3>2
  <2>2. CASE Over # {}
    <3>1. PICK j \in Over : \A h \in Over : j <= h
      <4>1. Over \subseteq Nat
        OBVIOUS
      <4> HIDE DEF Over
      <4> QED BY <2>2, <4>1, LeastOf
    <3>2. PICK i \in 1..n : i = j
      BY <3>1
    <3>3. ~(Len(Flat(e, i)) <= a) /\ \A h \in 1..n : ~(Len(Flat(e, h)) <= a) => i <= h
      BY <3>1, <3>2
    <3>4. PICK c \in 0..n : c = i - 1
      OBVIOUS
    <3>5. Len(Flat(e, c)) <= a
      <4>1. c = 0 \/ c \in 1..n
        OBVIOUS
      <4>2. c = 0 => Len(Flat(e, c)) <= a
        BY <1>1
      <4>3. c \in 1..n /\ ~(Len(Flat(e, c)) <= a) => i <= c
        BY <3>3
      <4> QED BY <3>4, <4>1, <4>2, <4>3
    <3>6. a < Len(Flat(e, c + 1))
      <4>1. c + 1 = i /\ i \in 0..n
        BY <3>4
      <4> QED BY <1>1, <3>3, <4>1
    <3>7. ASSUME NEW h \in 1..n PROVE Len(Flat(e, h)) <= a <=> h <= c
      <4>1. CASE h <= c
        <5>1. c \in 0..n /\ h \in 0..c /\ h \in 0..n
          BY <4>1
        <5>2. Len(Flat(e, h)) <= Len(Flat(e, c))
          BY <5>1, Fronts
        <5>3. Len(Flat(e, h)) \in Nat /\ Len(Flat(e, c)) \in Nat
          BY <1>1, <5>1
        <5> QED BY <3>5, <4>1, <5>2, <5>3
      <4>2. CASE ~(h <= c)
        <5>1. h \in 0..n /\ i \in 0..h /\ i \in 0..n
          BY <3>4, <4>2
        <5>2. Len(Flat(e, i)) <= Len(Flat(e, h))
          BY <5>1, Fronts
        <5>3. Len(Flat(e, h)) \in Nat /\ Len(Flat(e, i)) \in Nat
          BY <1>1, <5>1
        <5> QED BY <3>3, <4>2, <5>2, <5>3
      <4> QED BY <4>1, <4>2
    <3>8. Done = 1..c
      BY <3>7
    <3> HIDE DEF Done
    <3> QED BY <3>5, <3>6, <3>8
  <2> QED BY <2>1, <2>2
<1>3. PICK c \in 0..n : Done = 1..c /\ Len(Flat(e, c)) <= a /\ (c < n => a < Len(Flat(e, c + 1)))
  BY <1>2
<1>4. Cardinality(1..c) = c
  <2>1. c \in Int /\ 1 \in Int /\ (1 <= c => c - 1 + 1 = c) /\ (~(1 <= c) => c = 0)
    OBVIOUS
  <2>2. Cardinality(1..c) = IF 1 > c THEN 0 ELSE c - 1 + 1
    BY <2>1, FS_Interval
  <2> QED BY <2>1, <2>2
<1>5. Count(e, n, a) = c
  BY <1>3, <1>4 DEF Count
<1> QED BY <1>3, <1>5

\* The bytes and the packets of a peer's messages.
Bytes(s) == [i \in 1..Len(s.msgs) |-> s.msgs[i].bytes]
Packets(s) == [i \in 1..Len(s.msgs) |-> s.msgs[i].pcks]
All(s) == Flat(Bytes(s), Len(s.msgs))
Ended(s, a) == Count(Bytes(s), Len(s.msgs), a)
Left(s, a) == Behind(Bytes(s), Len(s.msgs), Ended(s, a), a)

\* The messages of s are framed, and a manager with the formats m recognises them.
Steady(s, m) ==
    /\ m \in SUBSET Tags /\ s.fmt \in m \ {"text", "ws"}
    /\ Len(s.msgs) \in Nat /\ DOMAIN s.msgs = 1..Len(s.msgs)
    /\ ParseBuffer(s.fmt, <<>>) = Parsed("none", <<>>, <<>>)
    /\ \A i \in 1..Len(s.msgs) : Framed(s.fmt, s.msgs[i].bytes, s.msgs[i].pcks)
    /\ \A a \in 1..Len(All(s)) : Recognised(m, s.fmt, SubSeq(All(s), 1, a), Len(Flat(Bytes(s), 1)))

\* The families of a steady peer's messages, and what has been said of such families.
LEMMA SteadyFamilies ==
    ASSUME NEW s, NEW m, Steady(s, m)
    PROVE  /\ Len(s.msgs) \in Nat
           /\ Bytes(s) \in Family(Byte, Len(s.msgs)) /\ Packets(s) \in Family(Packet, Len(s.msgs))
           /\ \A i \in 1..Len(s.msgs) : Framed(s.fmt, Bytes(s)[i], Packets(s)[i])
           /\ All(s) \in Seq(Byte) /\ Len(All(s)) \in Nat
<1>1. Len(s.msgs) \in Nat /\ \A i \in 1..Len(s.msgs) : Framed(s.fmt, s.msgs[i].bytes, s.msgs[i].pcks)
  BY DEF Steady
<1>2. \A i \in 1..Len(s.msgs) : Framed(s.fmt, Bytes(s)[i], Packets(s)[i])
  BY <1>1 DEF Bytes, Packets
<1>3. Bytes(s) \in Family(Byte, Len(s.msgs)) /\ Packets(s) \in Family(Packet, Len(s.msgs))
  BY <1>1 DEF Bytes, Packets, Family, Framed
<1>4. Len(s.msgs) \in 0..Len(s.msgs)
  BY <1>1
<1>5. All(s) \in Seq(Byte) /\ Len(All(s)) \in Nat
  BY <1>1, <1>3, <1>4, Ends DEF All
<1> QED BY <1>1, <1>2, <1>3, <1>5

\* The messages that a bytes of a steady peer complete.
LEMMA EndedIs ==
    ASSUME NEW s, NEW m, Steady(s, m), NEW a \in Nat, a <= Len(All(s))
    PROVE  \E c \in 0..Len(s.msgs) :
             /\ Ended(s, a) = c /\ Len(Flat(Bytes(s), c)) \in Nat /\ Len(Flat(Bytes(s), c)) <= a
             /\ c < Len(s.msgs) => a < Len(Flat(Bytes(s), c + 1))
<1> DEFINE n == Len(s.msgs)
           B == Bytes(s)
<1>1. n \in Nat /\ B \in Family(Byte, n)
  BY SteadyFamilies
<1>2. PICK c \in 0..n : Count(B, n, a) = c /\ Len(Flat(B, c)) <= a /\ (c < n => a < Len(Flat(B, c + 1)))
  BY <1>1, CountIs
<1>3. Len(Flat(B, c)) \in Nat
  BY <1>1, Ends
<1> QED BY <1>2, <1>3 DEF Ended

\* The buffer of a steady peer when more is read.
LEMMA Longer ==
    ASSUME NEW s, NEW m, Steady(s, m), NEW a \in Nat, NEW b \in Nat, a <= b, b <= Len(All(s))
    PROVE  Left(s, a) \o SubSeq(All(s), a + 1, b) = Behind(Bytes(s), Len(s.msgs), Ended(s, a), b)
<1>1. All(s) \in Seq(Byte) /\ Len(All(s)) \in Nat
  BY SteadyFamilies
<1>2. PICK e \in Nat : e = Len(Flat(Bytes(s), Ended(s, a))) /\ e <= a
  <2>1. a <= Len(All(s))
    BY <1>1
  <2> QED BY <2>1, EndedIs
<1>3. e + 1 \in 1..(Len(All(s)) + 1) /\ a \in ((e + 1) - 1)..Len(All(s)) /\ b \in a..Len(All(s))
  BY <1>1, <1>2
<1>4. SubSeq(All(s), e + 1, a) \o SubSeq(All(s), a + 1, b) = SubSeq(All(s), e + 1, b)
  BY <1>1, <1>3, ConcatAdjacentSubSeq
<1> QED BY <1>2, <1>4 DEF Left, Behind, All

\* What its format's parser makes of the buffer.
LEMMA SteadyParse ==
    ASSUME NEW s, NEW m, Steady(s, m), NEW a \in Nat, NEW b \in Nat, a <= b, b <= Len(All(s))
    PROVE  \E pcks \in Seq(Packet) :
             /\ ParseBuffer(s.fmt, Behind(Bytes(s), Len(s.msgs), Ended(s, a), b))
                  = Parsed("none", pcks, Left(s, b))
             /\ Flat(Packets(s), Ended(s, a)) \o pcks = Flat(Packets(s), Ended(s, b))
<1> DEFINE n == Len(s.msgs)
           B == Bytes(s)
           P == Packets(s)
<1>1. /\ n \in Nat /\ B \in Family(Byte, n) /\ P \in Family(Packet, n)
      /\ \A i \in 1..n : Framed(s.fmt, B[i], P[i])
      /\ ParseBuffer(s.fmt, <<>>) = Parsed("none", <<>>, <<>>)
      /\ All(s) = Flat(B, n) /\ Len(All(s)) \in Nat
  BY SteadyFamilies DEF Steady, All
<1>2. PICK c \in 0..n : /\ Ended(s, b) = c /\ Len(Flat(B, c)) <= b
                        /\ c < n => b < Len(Flat(B, c + 1))
  BY EndedIs
<1>3. PICK k \in 0..n : Ended(s, a) = k /\ Len(Flat(B, k)) <= a
  <2>1. a <= Len(All(s))
    BY <1>1
  <2> QED BY <2>1, EndedIs
<1> HIDE DEF n, B, P
<1>4. k \in 0..c
  <2>1. CASE k <= c
    BY <2>1
  <2>2. CASE ~(k <= c)
    <3>1. c < n /\ c + 1 \in 0..k /\ k \in 0..n /\ c + 1 \in 0..n
      BY <1>1, <2>2
    <3>2. Len(Flat(B, c + 1)) <= Len(Flat(B, k))
      BY <1>1, <3>1, Fronts
    <3>3. Len(Flat(B, c + 1)) \in Nat /\ Len(Flat(B, k)) \in Nat
      BY <1>1, <3>1, Ends
    <3> QED BY <1>2, <1>3, <3>1, <3>2, <3>3
  <2> QED BY <2>1, <2>2
<1>5. b <= Len(Flat(B, n))
  BY <1>1
<1>6. Takes(s.fmt, B, P, n, b, c, k)
  BY <1>1, <1>2, <1>4, <1>5, Segments
<1>7. Left(s, b) = Behind(B, n, c, b)
  BY <1>2 DEF Left, B, n
<1> QED BY <1>2, <1>3, <1>6, <1>7 DEF Takes, B, P, n

\* What parsePacket makes of the buffer, with the format tag, when the first read was long enough.
ReadsOn(s, m, tag, a, b) ==
    LET result == ParsePacket(m, tag, Behind(Bytes(s), Len(s.msgs), Ended(s, a), b))
    IN  /\ result.tag \in {"nil", s.fmt} /\ (result.tag = "nil" => Ended(s, b) = 0)
        /\ result.parse.err = "none" /\ result.parse.rest = Left(s, b)
        /\ Flat(Packets(s), Ended(s, a)) \o result.parse.pcks = Flat(Packets(s), Ended(s, b))

\* Unless the first read was too short, a read of a steady peer takes the packets of the messages
\* it completes.
LEMMA SteadyRead ==
    ASSUME NEW s, NEW m, Steady(s, m), NEW a \in Nat, NEW b \in Nat, a < b, b <= Len(All(s)),
           NEW tag \in {"nil", s.fmt}, tag = "nil" => Ended(s, a) = 0,
           tag = "nil" => ~("text" \in m /\ b < (IF "clove" \in m THEN HeaderLength ELSE HeadMin))
    PROVE  ReadsOn(s, m, tag, a, b)
<1> DEFINE buf == Behind(Bytes(s), Len(s.msgs), Ended(s, a), b)
           result == ParsePacket(m, tag, buf)
<1>1. PICK pcks \in Seq(Packet) :
            /\ ParseBuffer(s.fmt, buf) = Parsed("none", pcks, Left(s, b))
            /\ Flat(Packets(s), Ended(s, a)) \o pcks = Flat(Packets(s), Ended(s, b))
  <2>1. a <= b
    OBVIOUS
  <2> QED BY <2>1, SteadyParse
<1>2. s.fmt \in Tags /\ s.fmt # "ws" /\ s.fmt # "nil"
  BY DEF Steady, Tags
<1>3. ASSUME tag = s.fmt \/ (tag = "nil" /\ Determine(m, buf) = s.fmt)
      PROVE  result.tag = s.fmt /\ result.parse = Parsed("none", pcks, Left(s, b))
  <2> HIDE DEF buf
  <2> QED BY <1>1, <1>2, <1>3 DEF ParsePacket, ParseAs, Outcome, Parsed
<1>4. ASSUME tag = "nil" PROVE Determine(m, buf) = s.fmt \/ (Determine(m, buf) = "nil" /\ Ended(s, b) = 0)
  <2>1. Ended(s, a) = 0 /\ buf = SubSeq(All(s), 1, b)
    <3>1. Ended(s, a) = 0 /\ Len(Flat(Bytes(s), 0)) = 0
      <4>1. PICK n \in Nat : Bytes(s) \in Family(Byte, n)
        BY SteadyFamilies
      <4>2. Len(Flat(Bytes(s), 0)) = 0
        BY <4>1, Ends
      <4> QED BY <1>4, <4>2
    <3> QED BY <3>1 DEF Behind, All
  <2>2. Len(buf) = b
    <3>1. All(s) \in Seq(Byte) /\ 1 \in Nat \ {0} /\ b \in 0..Len(All(s)) /\ 1 <= b + 1
      BY SteadyFamilies
    <3>2. Len(SubSeq(All(s), 1, b)) = b - 1 + 1
      BY <3>1, Pieces
    <3> HIDE DEF buf
    <3> QED BY <2>1, <3>2
  <2>3. Recognised(m, s.fmt, buf, Len(Flat(Bytes(s), 1)))
    <3>1. b \in 1..Len(All(s))
      BY SteadyFamilies
    <3> HIDE DEF buf
    <3> QED BY <2>1, <3>1 DEF Steady
  <2> HIDE DEF buf
  <2>4. Determine(m, buf) = s.fmt \/ (Determine(m, buf) = "nil" /\ b < Len(Flat(Bytes(s), 1)))
    BY <1>4, <2>2, <2>3 DEF Recognised
  <2>5. b < Len(Flat(Bytes(s), 1)) => Ended(s, b) = 0
    <3>1. PICK c \in 0..Len(s.msgs) : /\ Ended(s, b) = c /\ Len(Flat(Bytes(s), c)) \in Nat
                                      /\ Len(Flat(Bytes(s), c)) <= b
      BY EndedIs
    <3>2. ASSUME c # 0 PROVE Len(Flat(Bytes(s), 1)) <= b
      <4>1. 1 \in 0..c /\ c \in 0..Len(s.msgs) /\ 1 \in 0..Len(s.msgs)
        BY <3>2, SteadyFamilies
      <4>2. Len(Flat(Bytes(s), 1)) <= Len(Flat(Bytes(s), c)) /\ Len(Flat(Bytes(s), 1)) \in Nat
        BY <4>1, SteadyFamilies, Fronts, Ends
      <4> QED BY <3>1, <4>2
    <3>3. b < Len(Flat(Bytes(s), 1)) /\ c # 0 => Len(Flat(Bytes(s), 1)) \in Nat
      <4>1. c # 0 => 1 \in 0..Len(s.msgs)
        BY SteadyFamilies
      <4> QED BY <4>1, SteadyFamilies, Ends
    <3> QED BY <3>1, <3>2, <3>3
  <2> QED BY <2>4, <2>5
<1>5. ASSUME tag = "nil", Determine(m, buf) = "nil", Ended(s, b) = 0
      PROVE  result.tag = "nil" /\ result.parse = Parsed("none", <<>>, Left(s, b))
  <2>1. buf = Left(s, b)
    BY <1>5 DEF Left
  <2> HIDE DEF buf
  <2> QED BY <1>5, <2>1 DEF ParsePacket, ParseAs, Outcome, Parsed
<1>6. CASE tag = s.fmt \/ (tag = "nil" /\ Determine(m, buf) = s.fmt)
  <2>1. result.tag = s.fmt /\ result.parse = Parsed("none", pcks, Left(s, b))
    <3> HIDE DEF buf, result
    <3> QED BY <1>3, <1>6
  <2> HIDE DEF result
  <2> QED BY <1>1, <1>2, <2>1 DEF Parsed, result, ReadsOn
<1>7. CASE tag = "nil" /\ Determine(m, buf) = "nil" /\ Ended(s, b) = 0
  <2>1. result.tag = "nil" /\ result.parse = Parsed("none", <<>>, Left(s, b))
    BY <1>5, <1>7
  <2>2. Flat(Packets(s), 0) = <<>>
    <3>1. Len(s.msgs) \in Nat /\ Packets(s) \in Family(Packet, Len(s.msgs))
      BY SteadyFamilies
    <3> QED BY <3>1, FlattenNext
  <2>3. <<>> \o <<>> = <<>>
    OBVIOUS
  <2>4. Ended(s, a) = 0 /\ Ended(s, b) = 0
    BY <1>7
  <2>5. /\ result.parse.err = "none" /\ result.parse.rest = Left(s, b)
        /\ Flat(Packets(s), Ended(s, a)) \o result.parse.pcks = Flat(Packets(s), Ended(s, b))
    <3> HIDE DEF result
    <3> QED BY <2>1, <2>2, <2>3, <2>4 DEF Parsed
  <2> HIDE DEF buf, result
  <2> QED BY <1>7, <2>1, <2>5 DEF result, buf, ReadsOn
<1> QED BY <1>4, <1>6, <1>7

\* The module's names for them.
LEMMA StreamIs ==
    ASSUME Steady(script, mgr)
    PROVE  /\ Stream = All(script) /\ Complete = Ended(script, arrived)
           /\ arrived \in Nat /\ arrived <= Len(All(script)) =>
                 /\ Meant = Flat(Packets(script), Ended(script, arrived)) /\ Meant \in Seq(Packet)
<1> DEFINE n == Len(script.msgs)
<1>1. n \in Nat /\ DOMAIN script.msgs = 1..n
  BY DEF Steady
<1>2. ASSUME NEW i \in 0..n
      PROVE  /\ Upto(i) = Flat(Bytes(script), i)
             /\ FlattenSeq([j \in 1..i |-> script.msgs[j].pcks]) = Flat(Packets(script), i)
  <2>1. \A j \in 1..i : Bytes(script)[j] = script.msgs[j].bytes /\ Packets(script)[j] = script.msgs[j].pcks
    BY <1>1 DEF Bytes, Packets
  <2>2. /\ [j \in 1..i |-> Bytes(script)[j]] = [j \in 1..i |-> script.msgs[j].bytes]
        /\ [j \in 1..i |-> Packets(script)[j]] = [j \in 1..i |-> script.msgs[j].pcks]
    BY <2>1
  <2> QED BY <2>2 DEF Upto, Flat
<1>3. Stream = All(script)
  <2>1. n \in 0..n
    BY <1>1
  <2> QED BY <1>2, <2>1 DEF Stream, All
<1>4. Complete = Ended(script, arrived)
  <2>1. \A i \in 1..n : i \in 0..n
    BY <1>1
  <2>2. \A i \in 1..n : End(i) = Len(Flat(Bytes(script), i))
    BY <1>2, <2>1 DEF End
  <2>3. {i \in DOMAIN script.msgs : End(i) <= arrived}
          = {i \in 1..n : Len(Flat(Bytes(script), i)) <= arrived}
    BY <1>1, <2>2
  <2> QED BY <2>3 DEF Complete, Ended, Count
<1>5. ASSUME arrived \in Nat, arrived <= Len(All(script))
      PROVE  /\ Meant = Flat(Packets(script), Ended(script, arrived)) /\ Meant \in Seq(Packet)
  <2>1. PICK c \in 0..n : Ended(script, arrived) = c
    BY <1>5, EndedIs
  <2>2. Meant = Flat(Packets(script), c)
    BY <1>2, <1>4, <2>1 DEF Meant
  <2>3. Flat(Packets(script), c) \in Seq(Packet)
    BY SteadyFamilies, FlattenNext
  <2> QED BY <2>1, <2>2, <2>3
<1> QED BY <1>3, <1>4, <1>5

\* What has been read of a steady peer has been parsed as far as it goes.
Caught ==
    /\ err = "none"
    /\ received = Flat(Packets(script), Ended(script, arrived))
    /\ bufRecv = Left(script, arrived)
    /\ packetFmt \in {"nil", script.fmt} /\ (packetFmt = "nil" => Ended(script, arrived) = 0)

\* Of a steady peer, the first read was too short to tell its format, or all has been caught.
SteadyInv ==
    Steady(script, mgr) =>
        /\ arrived \in Nat /\ arrived <= Len(All(script))
        /\ arrived > 0 => first \in 1..arrived
        /\ (arrived > 0 /\ TooShort) \/ Caught

\* Before the first read no message is complete.
LEMMA NothingRead ==
    ASSUME NEW s, NEW m, Steady(s, m)
    PROVE  Ended(s, 0) = 0 /\ Left(s, 0) = <<>> /\ Flat(Packets(s), 0) = <<>>
<1>1. PICK n \in Nat : /\ n = Len(s.msgs) /\ Bytes(s) \in Family(Byte, n) /\ Packets(s) \in Family(Packet, n)
                       /\ \A i \in 1..n : Framed(s.fmt, Bytes(s)[i], Packets(s)[i])
  BY SteadyFamilies
<1>2. Len(Flat(Bytes(s), 0)) = 0 /\ Flat(Packets(s), 0) = <<>>
  <2>1. Len(Flat(Bytes(s), 0)) = 0
    BY <1>1, Ends
  <2>2. Flat(Packets(s), 0) = <<>>
    BY <1>1, FlattenNext
  <2> QED BY <2>1, <2>2
<1>3. PICK c \in 0..n : Ended(s, 0) = c /\ Len(Flat(Bytes(s), c)) <= 0
  <2>1. 0 \in Nat /\ 0 <= Len(All(s))
    BY SteadyFamilies
  <2> QED BY <1>1, <2>1, EndedIs
<1>4. ASSUME c # 0 PROVE FALSE
  <2>1. 1 \in 1..n /\ 1 - 1 = 0 /\ 1 \in 0..c /\ c \in 0..n /\ 1 \in 0..n
    BY <1>4
  <2>2. Len(Flat(Bytes(s), 1)) <= Len(Flat(Bytes(s), c)) /\ Len(Flat(Bytes(s), c)) \in Nat
    BY <1>1, <2>1, Fronts, Ends
  <2>3. /\ Len(Flat(Bytes(s), 1)) = Len(Flat(Bytes(s), 1 - 1)) + Len(Bytes(s)[1])
        /\ Bytes(s)[1] \in Seq(Byte)
    <3>1. \A i \in 1..n : /\ Bytes(s)[i] \in Seq(Byte)
                          /\ Len(Flat(Bytes(s), i)) = Len(Flat(Bytes(s), i - 1)) + Len(Bytes(s)[i])
      <4>1. Bytes(s) \in Family(Byte, n)
        BY <1>1
      <4> QED BY <4>1, Ends
    <3> QED BY <2>1, <3>1
  <2>4. Bytes(s)[1] # <<>>
    BY <1>1, <2>1 DEF Framed
  <2>5. Len(Bytes(s)[1]) \in Nat \ {0}
    BY <2>3, <2>4, EmptySeq
  <2> QED BY <1>2, <1>3, <2>1, <2>2, <2>3, <2>5
<1>5. Left(s, 0) = <<>>
  <2>1. Ended(s, 0) = 0
    BY <1>3, <1>4
  <2> QED BY <1>2, <2>1 DEF Left, Behind
<1> QED BY <1>2, <1>3, <1>4, <1>5

\* The initial states satisfy SteadyInv.
LEMMA SteadyInit == Init => SteadyInv
<1> SUFFICES ASSUME Init, Steady(script, mgr)
             PROVE  /\ arrived \in Nat /\ arrived <= Len(All(script))
                    /\ arrived > 0 => first \in 1..arrived
                    /\ Caught
  BY DEF SteadyInv
<1>1. arrived = 0 /\ bufRecv = <<>> /\ received = <<>> /\ packetFmt = "nil" /\ err = "none"
  BY DEF Init
<1>2. Ended(script, 0) = 0 /\ Left(script, 0) = <<>> /\ Flat(Packets(script), 0) = <<>>
  BY NothingRead
<1>3. Caught
  BY <1>1, <1>2 DEF Caught
<1>4. Len(All(script)) \in Nat
  BY SteadyFamilies
<1> QED BY <1>1, <1>3, <1>4

\* A read preserves SteadyInv.
LEMMA SteadyStep == SteadyInv /\ [Next]_vars => SteadyInv'
<1> SUFFICES ASSUME SteadyInv, [Next]_vars PROVE SteadyInv'
  OBVIOUS
<1>1. CASE UNCHANGED vars
  BY <1>1 DEF SteadyInv, vars, Caught, TooShort
<1>2. ASSUME NEW k \in 1..Len(Stream), Read(k) PROVE SteadyInv'
  <2> SUFFICES ASSUME Steady(script, mgr)
               PROVE  /\ arrived' \in Nat /\ arrived' <= Len(All(script))
                      /\ arrived' > 0 => first' \in 1..arrived'
                      /\ (arrived' > 0 /\ TooShort') \/ Caught'
    <3>1. script' = script /\ mgr' = mgr
      BY <1>2 DEF Read
    <3> QED BY <3>1 DEF SteadyInv
  <2> DEFINE b == arrived + k
             buf == bufRecv \o SubSeq(Stream, arrived + 1, b)
             result == ParsePacket(mgr, packetFmt, buf)
             shortest == IF "clove" \in mgr THEN HeaderLength ELSE HeadMin
  <2>1. /\ script' = script /\ mgr' = mgr /\ arrived' = b
        /\ packetFmt' = result.tag /\ bufRecv' = result.parse.rest
        /\ received' = received \o result.parse.pcks /\ err' = result.parse.err
        /\ first' = IF arrived = 0 THEN k ELSE first
        /\ b <= Sendable
    BY <1>2 DEF Read
  <2>2. /\ arrived \in Nat /\ (arrived > 0 => first \in 1..arrived)
        /\ (arrived > 0 /\ TooShort) \/ Caught
    BY DEF SteadyInv
  <2>3. Stream = All(script) /\ Len(All(script)) \in Nat
    BY StreamIs, SteadyFamilies
  <2>4. k \in Nat \ {0} /\ b \in Nat /\ arrived < b /\ b <= Len(All(script))
    <3>1. Sendable = Len(Stream)
      BY DEF Sendable, Steady
    <3>2. k \in Nat \ {0}
      BY <2>3
    <3> QED BY <2>1, <2>2, <2>3, <3>1, <3>2
  <2> HIDE DEF result, buf
  <2>5. arrived' > 0 /\ first' \in 1..b
    <3>1. CASE arrived = 0
      BY <2>1, <2>4, <3>1
    <3>2. CASE arrived # 0
      <4>1. arrived > 0 /\ first' = first
        BY <2>1, <2>2, <3>2
      <4> QED BY <2>1, <2>2, <2>4, <4>1
    <3> QED BY <3>1, <3>2
  <2>6. shortest \in Nat
    BY HttpAssumption DEF HeaderLength
  <2>7. TooShort <=> "text" \in mgr /\ first < shortest
    BY DEF TooShort
  <2>8. TooShort' <=> "text" \in mgr /\ first' < shortest
    BY <2>1 DEF TooShort
  <2> HIDE DEF shortest
  <2>9. CASE arrived > 0 /\ TooShort
    <3>1. TooShort'
      BY <2>1, <2>7, <2>8, <2>9
    <3> QED BY <2>1, <2>4, <2>5, <3>1
  <2>10. CASE "text" \in mgr /\ b < shortest
    <3>1. TooShort'
      BY <2>4, <2>5, <2>6, <2>8, <2>10
    <3> QED BY <2>1, <2>4, <2>5, <3>1
  <2>11. CASE Caught /\ ~("text" \in mgr /\ b < shortest)
    <3>1. buf = Behind(Bytes(script), Len(script.msgs), Ended(script, arrived), b)
      <4>1. arrived <= b
        BY <2>2, <2>4
      <4>2. bufRecv = Left(script, arrived)
        BY <2>11 DEF Caught
      <4> HIDE DEF b
      <4> QED BY <2>2, <2>3, <2>4, <4>1, <4>2, Longer DEF buf
    <3>2. /\ result.tag \in {"nil", script.fmt} /\ (result.tag = "nil" => Ended(script, b) = 0)
          /\ result.parse.err = "none" /\ result.parse.rest = Left(script, b)
          /\ Flat(Packets(script), Ended(script, arrived)) \o result.parse.pcks
               = Flat(Packets(script), Ended(script, b))
      <4>1. packetFmt \in {"nil", script.fmt} /\ (packetFmt = "nil" => Ended(script, arrived) = 0)
        BY <2>11 DEF Caught
      <4>2. ~("text" \in mgr /\ b < (IF "clove" \in mgr THEN HeaderLength ELSE HeadMin))
        BY <2>11 DEF shortest
      <4> HIDE DEF b
      <4>3. ReadsOn(script, mgr, packetFmt, arrived, b)
        BY <2>2, <2>4, <4>1, <4>2, SteadyRead
      <4> QED BY <3>1, <4>3 DEF result, ReadsOn
    <3>3. Caught'
      <4> HIDE DEF b
      <4> QED BY <2>1, <2>11, <3>2 DEF Caught
    <3> QED BY <2>1, <2>4, <2>5, <3>3
  <2> QED BY <2>2, <2>9, <2>10, <2>11
<1> QED BY <1>1, <1>2 DEF Next

-----------------------------------------------------------------------------
(* HTTP requests *)

\* The head of a request ends with the first HeadEnd behind its three first bytes.
LEMMA HeadLengthIs ==
    ASSUME NEW b \in Seq(Byte)
    PROVE  \/ /\ HeadLength(b) \in 4..Len(b) /\ b[HeadLength(b)] = HeadEnd
              /\ \A i \in 4..Len(b) : b[i] = HeadEnd => HeadLength(b) <= i
           \/ HeadLength(b) = 0 /\ \A i \in 4..Len(b) : b[i] # HeadEnd
<1> DEFINE I == {i \in 4..Len(b) : b[i] = HeadEnd}
           least == CHOOSE x \in I : \A y \in I : x <= y
<1>1. HeadLength(b) = IF I # {} THEN least ELSE 0
  BY DEF HeadLength, SelectInSubSeq, Min
<1>2. CASE I = {}
  <2>1. \A i \in 4..Len(b) : b[i] # HeadEnd
    BY <1>2
  <2> HIDE DEF I, least
  <2> QED BY <1>1, <1>2, <2>1
<1>3. CASE I # {}
  <2>1. \E x \in I : \A y \in I : x <= y
    <3>1. I \subseteq Nat
      OBVIOUS
    <3> HIDE DEF I
    <3> QED BY <1>3, <3>1, LeastOf
  <2>2. least \in I /\ \A y \in I : least <= y
    <3> HIDE DEF I
    <3> QED BY <2>1
  <2> HIDE DEF least
  <2>3. /\ least \in 4..Len(b) /\ b[least] = HeadEnd
        /\ \A i \in 4..Len(b) : b[i] = HeadEnd => least <= i
    BY <2>2
  <2> HIDE DEF I
  <2> QED BY <1>1, <1>3, <2>3
<1> QED BY <1>2, <1>3

\* A HeadEnd with none before it is where the head ends.
LEMMA HeadLengthAt ==
    ASSUME NEW b \in Seq(Byte), NEW h \in 4..Len(b), b[h] = HeadEnd, \A i \in 4..(h - 1) : b[i] # HeadEnd
    PROVE  HeadLength(b) = h
<1>1. h \in Nat /\ Len(b) \in Nat
  OBVIOUS
<1>2. HeadLength(b) \in 4..Len(b) /\ b[HeadLength(b)] = HeadEnd /\ HeadLength(b) <= h
  BY HeadLengthIs
<1>3. HeadLength(b) \notin 4..(h - 1)
  BY <1>2
<1> QED BY <1>1, <1>2, <1>3

\* What HttpParseBuffer makes of b, when it makes then of what follows the first request.
HttpOn(b, then) ==
    IF Len(b) < HeadMin THEN Parsed("none", <<>>, b)
    ELSE IF b[1] \notin Methods THEN Parsed("noMatch", <<>>, b)
    ELSE IF HeadLength(b) = 0 THEN Parsed("none", <<>>, b)
    ELSE IF ~ReadRequest(b).ok THEN Parsed("request", <<>>, b)
    ELSE IF ReadRequest(b).length \in (BodyMax + 1)..Len(b) THEN Parsed("damage", <<>>, b)
    ELSE IF ~RequestReady(b) THEN Parsed("none", <<>>, b)
    ELSE IF then.err = "none"
    THEN After(<<HttpPacket(SubSeq(b, 1, HeadLength(b) + ReadRequest(b).length))>>, then) ELSE then

\* HttpParseBuffer satisfies its definition.
LEMMA HttpEquation ==
    \A b \in Seq(Byte) : HttpParseBuffer[b] =
        HttpOn(b, HttpParseBuffer[From(b, HeadLength(b) + ReadRequest(b).length + 1)])
<1> DEFINE D == Seq(Byte)
           total(b) == HeadLength(b) + ReadRequest(b).length
           rest(b) == From(b, total(b) + 1)
           pck(b) == HttpPacket(SubSeq(b, 1, total(b)))
           Ready(b) == /\ ~(Len(b) < HeadMin) /\ b[1] \in Methods /\ HeadLength(b) # 0 /\ ReadRequest(b).ok
                       /\ ReadRequest(b).length \notin (BodyMax + 1)..Len(b) /\ RequestReady(b)
           stop == {b \in D : ~Ready(b)}
           none == Parsed("none", <<>>, <<>>)
           base == [b \in D |-> IF b \in stop THEN HttpOn(b, none) ELSE none]
           next == [b \in D |-> IF b \in stop THEN b ELSE rest(b)]
           comb == [x \in D \X Parse |-> IF x[1] \in stop THEN x[2]
                                         ELSE IF x[2].err = "none" THEN After(<<pck(x[1])>>, x[2]) ELSE x[2]]
           Is(f) == f = [b \in Seq(Byte) |->
                IF Len(b) < HeadMin THEN Parsed("none", <<>>, b)
                ELSE IF b[1] \notin Methods THEN Parsed("noMatch", <<>>, b)
                ELSE IF HeadLength(b) = 0 THEN Parsed("none", <<>>, b)
                ELSE IF ~ReadRequest(b).ok THEN Parsed("request", <<>>, b)
                ELSE IF ReadRequest(b).length \in (BodyMax + 1)..Len(b) THEN Parsed("damage", <<>>, b)
                ELSE IF ~RequestReady(b) THEN Parsed("none", <<>>, b)
                ELSE LET tot == HeadLength(b) + ReadRequest(b).length
                         nxt == f[From(b, tot + 1)]
                     IN  IF nxt.err = "none" THEN After(<<HttpPacket(SubSeq(b, 1, tot))>>, nxt) ELSE nxt]
<1>1. ASSUME NEW b \in D, Ready(b)
      PROVE  /\ total(b) \in Nat \ {0} /\ total(b) <= Len(b) /\ rest(b) \in D
             /\ Len(rest(b)) = Len(b) - total(b)
             /\ <<pck(b)>> \in Seq(Packet)
  <2>1. HeadLength(b) \in 4..Len(b) /\ Len(b) \in Nat
    BY <1>1, HeadLengthIs
  <2>2. b[3] \in Byte /\ ReadRequest(b).length = b[3] /\ b[3] \in Nat
    <3>1. 3 \in 1..Len(b)
      BY <2>1
    <3>2. b[3] \in Byte
      BY <3>1, ElementOfSeq
    <3>3. ReadRequest(b).length = b[3]
      BY DEF ReadRequest
    <3>4. b[3] \in Nat
      BY <3>2, ByteIsNat
    <3> QED BY <3>2, <3>3, <3>4
  <2>3. total(b) <= Len(b)
    BY <1>1 DEF RequestReady
  <2>4. total(b) \in Nat \ 0..3
    BY <2>1, <2>2
  <2> HIDE DEF total
  <2>5. rest(b) \in D /\ Len(rest(b)) = Len(b) + 1 - (total(b) + 1)
    <3>1. total(b) + 1 \in Nat \ {0} /\ total(b) + 1 <= Len(b) + 1
      BY <2>1, <2>3, <2>4
    <3> QED BY <3>1, FromType
  <2>6. <<pck(b)>> \in Seq(Packet)
    <3> DEFINE in == SubSeq(b, 1, total(b))
    <3>1. 1 \in Nat \ {0} /\ total(b) \in 0..Len(b) /\ 1 <= total(b) + 1
      BY <2>1, <2>3, <2>4
    <3>2. in \in Seq(Byte) /\ Len(in) = total(b) - 1 + 1
      BY <3>1, Pieces
    <3> HIDE DEF in
    <3>3. 1 \in 1..Len(in) /\ 3 \in 1..Len(in)
      BY <2>4, <3>2
    <3>4. in[1] \in Byte /\ in[3] \in Byte /\ <<>> \in Seq(Byte) /\ "http" \in Types
      BY <3>2, <3>3, ElementOfSeq DEF Types
    <3>5. <<HttpPacket(in)>> \in Seq(Packet)
      BY <3>4, PacketType DEF HttpPacket, ReadRequest
    <3> QED BY <3>5 DEF in
  <2> HIDE DEF rest, pck
  <2> QED BY <2>1, <2>3, <2>4, <2>5, <2>6
<1>2. ASSUME NEW b \in D, ~Ready(b), NEW v
      PROVE  HttpOn(b, v) = HttpOn(b, none) /\ HttpOn(b, none) \in Parse
  <2>1. \A e \in Errors : Parsed(e, <<>>, b) \in Parse
    BY DEF Parsed, Parse
  <2>2. {"none", "noMatch", "request", "damage"} \subseteq Errors
    BY DEF Errors
  <2> HIDE DEF D
  <2> QED BY <1>2, <2>1, <2>2 DEF HttpOn
<1>3. ASSUME NEW b \in D, Ready(b), NEW v
      PROVE  HttpOn(b, v) = IF v.err = "none" THEN After(<<pck(b)>>, v) ELSE v
  BY <1>3 DEF HttpOn
<1> HIDE DEF Ready, total, rest, pck
<1>4. base \in [D -> Parse]
  <2>1. none \in Parse
    BY DEF Parsed, Parse, Errors
  <2> HIDE DEF none
  <2> QED BY <1>2, <2>1
<1>5. next \in [D -> D]
  BY <1>1
<1>6. comb \in [D \X Parse -> Parse]
  <2> SUFFICES ASSUME NEW b \in D, NEW v \in Parse, b \notin stop
               PROVE  v.err = "none" => After(<<pck(b)>>, v) \in Parse
    OBVIOUS
  <2>1. <<pck(b)>> \in Seq(Packet)
    BY <1>1
  <2>2. v.pcks \in Seq(Packet)
    BY DEF Parse
  <2>3. <<pck(b)>> \o v.pcks \in Seq(Packet)
    BY <2>1, <2>2, ConcatProperties
  <2> QED BY <2>3 DEF After, Parse, Parsed
<1>7. Shortens(D, stop, next)
  <2> SUFFICES ASSUME NEW b \in D, b \notin stop PROVE Len(next[b]) < Len(b)
    BY DEF Shortens
  <2>1. Ready(b) /\ next[b] = rest(b)
    OBVIOUS
  <2>2. Len(rest(b)) = Len(b) - total(b) /\ total(b) \in Nat \ {0} /\ Len(b) \in Nat
    BY <1>1, <2>1
  <2> HIDE DEF next
  <2> QED BY <2>1, <2>2
<1> HIDE DEF base, next, comb, stop, D
<1>8. PICK f \in [D -> Parse] : \A b \in D :
            f[b] = IF b \in stop THEN base[b] ELSE comb[<<b, f[next[b]]>>]
  <2>1. base \in Maps(D, Parse) /\ next \in Maps(D, D) /\ comb \in Maps(D \X Parse, Parse)
    BY <1>4, <1>5, <1>6 DEF Maps
  <2>2. \E f \in Maps(D, Parse) : Solution(f, D, stop, base, next, comb)
    BY <1>7, <2>1, Recursion
  <2> QED BY <2>2 DEF Maps, Solution
<1>9. ASSUME NEW b \in D PROVE f[b] = HttpOn(b, f[rest(b)])
  <2>1. ASSUME b \in stop
        PROVE  f[b] = HttpOn(b, f[rest(b)])
    <3>1. f[b] = base[b] /\ ~Ready(b)
      BY <1>8, <2>1 DEF stop
    <3>2. base[b] = HttpOn(b, none)
      BY <2>1 DEF base
    <3> QED BY <1>2, <3>1, <3>2
  <2>2. ASSUME b \notin stop
        PROVE  f[b] = HttpOn(b, f[rest(b)])
    <3>1. f[b] = comb[<<b, f[next[b]]>>] /\ Ready(b)
      BY <1>8, <2>2 DEF stop
    <3>2. next[b] = rest(b) /\ rest(b) \in D
      BY <1>1, <2>2, <3>1 DEF next
    <3>3. f[rest(b)] \in Parse
      BY <3>2
    <3>4. comb[<<b, f[rest(b)]>>] =
             IF f[rest(b)].err = "none" THEN After(<<pck(b)>>, f[rest(b)]) ELSE f[rest(b)]
      BY <2>2, <3>3 DEF comb
    <3> QED BY <1>3, <3>1, <3>2, <3>4
  <2> QED BY <2>1, <2>2
<1>10. Is(f)
  <2>1. f = [b \in D |-> HttpOn(b, f[rest(b)])]
    BY <1>9
  <2> QED BY <2>1 DEF HttpOn, D, rest, total
<1>11. Is(HttpParseBuffer)
  BY <1>10 DEF HttpParseBuffer
<1> QED BY <1>11 DEF HttpOn

\* What follows a request does not move the end of its head: b begins with the request p, as far
\* as b goes.
LEMMA HeadOf ==
    ASSUME NEW p \in HttpRequests, NEW b \in Seq(Byte),
           \A i \in 1..Len(b) : i <= Len(p) => b[i] = p[i]
    PROVE  /\ p \in Seq(Byte) /\ HeadLength(p) \in Nat /\ HeadLength(p) >= HeadMin
           /\ p[3] \in 0..BodyMax /\ Len(p) = HeadLength(p) + p[3]
           /\ \A i \in 1..3 : i <= Len(b) => b[i] = p[i]
           /\ p[1] \in Methods /\ p[2] = Plain
           /\ HeadLength(b) = IF Len(b) < HeadLength(p) THEN 0 ELSE HeadLength(p)
<1> DEFINE h == HeadLength(p)
           k == Len(b)
           n == Len(p)
<1>1. /\ p \in Seq(Byte) /\ h >= HeadMin /\ p[3] <= BodyMax /\ n = h + p[3]
      /\ p[1] \in Methods /\ p[2] = Plain
  BY DEF HttpRequests
<1>2. h \in 4..n /\ p[h] = HeadEnd /\ \A i \in 4..n : p[i] = HeadEnd => h <= i
  <2>1. 0 < HeadMin /\ HeadMin \in Nat
    BY HttpAssumption
  <2>2. h # 0
    BY <1>1, <2>1
  <2> QED BY <1>1, <2>2, HeadLengthIs
<1>3. k \in Nat /\ n \in Nat
  BY <1>1
<1>4. p[3] \in 0..BodyMax
  <2>1. 3 \in 1..n
    BY <1>2, <1>3
  <2>2. p[3] \in Nat
    BY <1>1, <2>1, ElementOfSeq, ByteIsNat
  <2> QED BY <1>1, <2>2, HttpAssumption
<1> HIDE DEF h, k, n
<1>5. \A i \in 1..3 : i <= k => b[i] = p[i]
  <2>1. \A i \in 1..3 : i <= k => i \in 1..k /\ i <= n
    BY <1>2, <1>3
  <2> QED BY <2>1 DEF k, n
<1>6. CASE k < h
  <2>1. \A i \in 4..k : i \in 4..n /\ ~(h <= i) /\ i \in 1..k /\ i <= n
    BY <1>2, <1>3, <1>6
  <2>2. \A i \in 4..k : b[i] # HeadEnd
    BY <1>2, <2>1 DEF k, n
  <2>3. HeadLength(b) = 0
    BY <2>2, HeadLengthIs DEF k
  <2> QED BY <1>1, <1>2, <1>4, <1>5, <1>6, <2>3 DEF h, k, n
<1>7. CASE ~(k < h)
  <2>1. h \in 4..k /\ h \in 1..k /\ h <= n /\ h \in Nat
    BY <1>2, <1>3, <1>7
  <2>2. \A i \in 4..(h - 1) : i \in 4..n /\ ~(h <= i) /\ i \in 1..k /\ i <= n
    BY <1>2, <1>3, <2>1
  <2>3. b[h] = HeadEnd /\ \A i \in 4..(h - 1) : b[i] # HeadEnd
    BY <1>2, <2>1, <2>2 DEF k, n
  <2>4. HeadLength(b) = h
    BY <2>1, <2>3, HeadLengthAt DEF k
  <2> QED BY <1>1, <1>4, <1>5, <1>7, <2>1, <2>4 DEF h, k, n
<1> QED BY <1>6, <1>7

\* What ReadRequest finds in such bytes.
LEMMA RequestOf ==
    ASSUME NEW p \in HttpRequests, NEW b \in Seq(Byte), Len(b) >= HeadLength(p),
           \A i \in 1..Len(b) : i <= Len(p) => b[i] = p[i]
    PROVE  /\ ReadRequest(b).ok /\ ReadRequest(b).asks = Plain
           /\ ReadRequest(b).length = p[3] /\ b[1] = p[1]
<1>1. /\ HeadLength(p) \in Nat /\ HeadLength(p) >= HeadMin
      /\ \A i \in 1..3 : i <= Len(b) => b[i] = p[i]
      /\ p[2] = Plain /\ p[3] = p[3]
      /\ HeadLength(b) = IF Len(b) < HeadLength(p) THEN 0 ELSE HeadLength(p)
  BY HeadOf
<1>2. Len(b) \in Nat /\ Len(b) >= 4 /\ HeadLength(p) > 0 /\ ~(Len(b) < HeadLength(p))
  <2> DEFINE x == Len(b)
             y == HeadLength(p)
  <2>1. x \in Nat /\ y \in Nat /\ x >= y /\ y >= HeadMin
    BY <1>1
  <2> HIDE DEF x, y
  <2>2. x >= 4 /\ y > 0 /\ ~(x < y)
    BY <2>1, HttpAssumption
  <2> QED BY <2>1, <2>2 DEF x, y
<1>3. b[1] = p[1] /\ b[2] = Plain /\ b[3] = p[3]
  <2>1. 1 \in 1..3 /\ 2 \in 1..3 /\ 3 \in 1..3 /\ 1 <= Len(b) /\ 2 <= Len(b) /\ 3 <= Len(b)
    BY <1>2
  <2> QED BY <1>1, <2>1
<1>4. HeadLength(b) > 0
  BY <1>1, <1>2
<1>5. b[2] # Malformed
  BY <1>3 DEF Plain, Malformed
<1>6. ReadRequest(b).ok = (HeadLength(b) > 0 /\ b[2] # Malformed)
  BY Zenon DEF ReadRequest
<1>7. ReadRequest(b).asks = b[2] /\ ReadRequest(b).length = b[3]
  BY DEF ReadRequest
<1> QED BY <1>3, <1>4, <1>5, <1>6, <1>7

\* A request that is not all there is left in the buffer.
LEMMA HttpWaits ==
    ASSUME NEW b, NEW v,
           \/ Len(b) < HeadMin
           \/ b[1] \in Methods /\ HeadLength(b) = 0
           \/ /\ b[1] \in Methods /\ ReadRequest(b).ok /\ ~RequestReady(b)
              /\ ReadRequest(b).length \notin (BodyMax + 1)..Len(b)
    PROVE  HttpOn(b, v) = Parsed("none", <<>>, b)
BY DEF HttpOn

\* A request is framed: its packet is taken when its last byte has come, and not before.
LEMMA HttpFramed ==
    ASSUME NEW p \in HttpRequests
    PROVE  Framed("http", p, <<HttpPacket(p)>>)
<1> DEFINE h == HeadLength(p)
           y == p[3]
           pck == HttpPacket(p)
<1>1. /\ p \in Seq(Byte) /\ h \in Nat /\ y \in Nat /\ Len(p) = h + y
      /\ h >= HeadMin /\ h >= 4 /\ y <= BodyMax
      /\ p[1] \in Methods
  <2>1. p \in Seq(Byte)
    BY DEF HttpRequests
  <2>2. /\ h \in Nat /\ h >= HeadMin /\ y \in 0..BodyMax /\ Len(p) = h + y
        /\ p[1] \in Methods
    BY <2>1, HeadOf
  <2> HIDE DEF h, y
  <2>3. h >= 4 /\ y \in Nat /\ y <= BodyMax
    BY <2>2, HttpAssumption
  <2> QED BY <2>1, <2>2, <2>3
<1>2. p # <<>> /\ <<pck>> \in Seq(Packet)
  <2>1. Len(p) \in Nat /\ Len(p) >= 4
    <3> HIDE DEF h, y
    <3> QED BY <1>1
  <2>2. p # <<>> /\ 1 \in 1..Len(p) /\ 3 \in 1..Len(p)
    BY <2>1
  <2>3. p[1] \in Byte /\ p[3] \in Byte /\ <<>> \in Seq(Byte) /\ "http" \in Types
    BY <1>1, <2>2, ElementOfSeq DEF Types
  <2>4. <<pck>> \in Seq(Packet)
    BY <2>3, PacketType DEF HttpPacket, ReadRequest
  <2> QED BY <2>2, <2>4
<1> HIDE DEF h, y, pck
<1>4. ASSUME NEW rest \in Seq(Byte)
      PROVE  HttpParseBuffer[p \o rest] =
                 IF HttpParseBuffer[rest].err = "none" THEN After(<<pck>>, HttpParseBuffer[rest])
                 ELSE HttpParseBuffer[rest]
  <2> DEFINE b == p \o rest
             z == Len(b)
             r == Len(rest)
  <2>1. /\ b \in Seq(Byte) /\ Len(b) = Len(p) + Len(rest)
        /\ SubSeq(b, 1, Len(p)) = p
        /\ \A i : i = Len(p) + 1 => SubSeq(b, i, Len(b)) = rest
    <3>1. p \in Seq(Byte) /\ rest \in Seq(Byte)
      BY <1>1
    <3> QED BY <3>1, Parts
  <2>2. \A i \in 1..Len(b) : i <= Len(p) => b[i] = p[i]
    <3>1. \A i \in 1..(Len(p) + Len(rest)) : (p \o rest)[i] = IF i <= Len(p) THEN p[i] ELSE rest[i - Len(p)]
      BY <1>1, ConcatProperties
    <3> QED BY <2>1, <3>1
  <2>3. z \in Nat /\ r \in Nat /\ z = (h + y) + r
    <3>1. r \in Nat /\ Len(b) \in Nat
      BY <2>1
    <3>2. Len(b) = (h + y) + r
      BY <1>1, <2>1
    <3> QED BY <3>1, <3>2
  <2>4. z >= h /\ ~(z < HeadMin) /\ ~(z < h) /\ h # 0 /\ h > 0 /\ y <= z /\ h + y <= z /\ ~(z < h)
        /\ y \notin (BodyMax + 1)..z
    <3> HIDE DEF b, z, r
    <3> QED BY <1>1, <2>3, HttpAssumption
  <2> HIDE DEF b
  <2>5. /\ ReadRequest(b).ok /\ ReadRequest(b).length = y /\ b[1] = p[1]
        /\ HeadLength(b) = h
    <3>1. \A i \in 1..Len(b) : i <= Len(p) => b[i] = p[i]
      BY <2>2
    <3>2. HeadLength(b) = IF Len(b) < HeadLength(p) THEN 0 ELSE HeadLength(p)
      BY <2>1, <3>1, HeadOf
    <3>3. ReadRequest(b).ok /\ ReadRequest(b).length = p[3] /\ b[1] = p[1]
      BY <2>1, <2>4, <3>1, RequestOf DEF h
    <3> QED BY <2>4, <3>2, <3>3 DEF h, y
  <2>6. SubSeq(b, 1, HeadLength(b) + ReadRequest(b).length) = p
    BY <1>1, <2>1, <2>5
  <2>7. From(b, HeadLength(b) + ReadRequest(b).length + 1) = rest
    BY <1>1, <2>1, <2>5 DEF From
  <2>8. RequestReady(b)
    BY <2>4, <2>5 DEF RequestReady
  <2>9. HttpParseBuffer[b] = HttpOn(b, HttpParseBuffer[rest])
    BY <2>1, <2>7, HttpEquation
  <2>10. /\ ~(Len(b) < HeadMin) /\ b[1] \in Methods /\ HeadLength(b) # 0 /\ ReadRequest(b).ok
         /\ ReadRequest(b).length \notin (BodyMax + 1)..Len(b)
    BY <1>1, <2>4, <2>5
  <2>11. HttpParseBuffer[b] = IF HttpParseBuffer[rest].err = "none" THEN After(<<pck>>, HttpParseBuffer[rest])
                              ELSE HttpParseBuffer[rest]
    <3> HIDE DEF z
    <3> QED BY <2>6, <2>8, <2>9, <2>10 DEF HttpOn, pck
  <2> QED BY <2>11 DEF b
<1>5. ASSUME NEW k \in 0..(Len(p) - 1)
      PROVE  HttpParseBuffer[SubSeq(p, 1, k)] = Parsed("none", <<>>, SubSeq(p, 1, k))
  <2> DEFINE b == SubSeq(p, 1, k)
             n == Len(p)
  <2>0. n \in Nat /\ n = h + y /\ k \in 0..n /\ k < n /\ k \in Nat /\ 1 <= k + 1
    <3>1. n \in Nat /\ n = h + y /\ k \in 0..(n - 1)
      <4>1. n = h + y /\ h \in Nat /\ y \in Nat
        BY <1>1
      <4>2. k \in 0..(n - 1)
        OBVIOUS
      <4> HIDE DEF n
      <4> QED BY <4>1, <4>2
    <3> HIDE DEF n
    <3> QED BY <3>1
  <2>1. b \in Seq(Byte) /\ Len(b) = k /\ \A i \in 1..k : b[i] = p[i]
    <3>1. 1 \in Nat \ {0} /\ k \in 0..Len(p) /\ 1 <= k + 1
      <4>1. k \in 0..n /\ 1 <= k + 1
        BY <2>0
      <4> QED BY <4>1
    <3>2. /\ b \in Seq(Byte) /\ Len(b) = k - 1 + 1 /\ \A i \in 1..(k - 1 + 1) : b[i] = p[1 + i - 1]
      BY <1>1, <3>1, Pieces
    <3>3. k - 1 + 1 = k /\ \A i \in 1..k : 1 + i - 1 = i
      BY <2>0
    <3> HIDE DEF b
    <3> QED BY <3>2, <3>3
  <2> HIDE DEF b
  <2>2. \A i \in 1..Len(b) : i <= Len(p) => b[i] = p[i]
    BY <2>1
  <2>3. \A i \in 1..3 : i <= Len(b) => b[i] = p[i]
    BY <2>1, <2>2, HeadOf
  <2>4. HeadLength(b) = IF Len(b) < HeadLength(p) THEN 0 ELSE HeadLength(p)
    BY <2>1, <2>2, HeadOf
  <2>5. HttpParseBuffer[b] = HttpOn(b, HttpParseBuffer[From(b, HeadLength(b) + ReadRequest(b).length + 1)])
    BY <2>1, HttpEquation
  <2>6. ASSUME k < HeadMin
        PROVE  HttpParseBuffer[b] = Parsed("none", <<>>, b)
    BY <2>1, <2>5, <2>6, HttpWaits
  <2>7. ASSUME ~(k < HeadMin)
        PROVE  HttpParseBuffer[b] = Parsed("none", <<>>, b)
    <3>1. b[1] \in Methods
      <4>1. 1 <= k
        BY <2>0, <2>7, HttpAssumption
      <4> QED BY <1>1, <2>1, <2>3, <4>1
    <3>2. CASE k < h
      <4>1. HeadLength(b) = 0
        BY <2>1, <2>4, <3>2 DEF h
      <4> QED BY <2>5, <3>1, <4>1, HttpWaits
    <3>3. CASE ~(k < h)
      <4>1. HeadLength(b) = h /\ ReadRequest(b).ok /\ ReadRequest(b).length = y
        <5>1. Len(b) >= HeadLength(p)
          <6>1. k >= h
            BY <1>1, <2>0, <3>3
          <6> QED BY <2>1, <6>1 DEF h
        <5>2. ReadRequest(b).ok /\ ReadRequest(b).length = p[3]
          BY <2>1, <2>2, <5>1, RequestOf
        <5> QED BY <2>1, <2>4, <3>3, <5>2 DEF h, y
      <4>2. h # 0 /\ ~(h + y <= k) /\ y \notin (BodyMax + 1)..k
        <5> HIDE DEF n
        <5> QED BY <1>1, <2>0, HttpAssumption
      <4>3. ~RequestReady(b)
        BY <2>1, <4>1, <4>2 DEF RequestReady
      <4>4. ReadRequest(b).length \notin (BodyMax + 1)..Len(b)
        BY <2>1, <4>1, <4>2
      <4> QED BY <2>5, <3>1, <4>1, <4>3, <4>4, HttpWaits
    <3> QED BY <3>2, <3>3
  <2> QED BY <2>6, <2>7 DEF b
<1>6. \A b : ParseBuffer("http", b) = HttpParseBuffer[b]
  BY DEF ParseBuffer
<1> QED BY <1>1, <1>2, <1>4, <1>5, <1>6 DEF Framed, pck

\* No method's first byte has a clove frame's features.
LEMMA MethodsHaveNoFeature == \A x \in Methods : x \in Byte /\ And(x, MaskFeature) # MaskFeature
<1> SUFFICES ASSUME NEW x \in Methods, And(x, MaskFeature) = MaskFeature PROVE FALSE
  BY DEF Methods, Byte
<1>1. Bits(x) \cap Bits(136) = Bits(136)
  <2>1. OfBits(Bits(x) \cap Bits(136)) = 136
    BY DEF And, MaskFeature
  <2>2. Bits(x) \cap Bits(136) \in SUBSET (1..8)
    BY DEF Bits
  <2> QED BY <2>1, <2>2, BitsOfByte
<1>2. 4 \in Bits(x)
  BY <1>1, ConstantBits
<1>3. (x \div 8) % 2 = 1
  <2>1. (x \div Weight[4]) % 2 = 1
    BY <1>2 DEF Bits
  <2> QED BY <2>1, Weights
<1> QED BY <1>3 DEF Methods

\* The front of a request is not taken for anything else.
LEMMA HttpRecognised ==
    ASSUME NEW m \in SUBSET Tags, "http" \in m, NEW p \in HttpRequests, NEW b \in Seq(Byte), b # <<>>,
           \A i \in 1..Len(b) : i <= Len(p) => b[i] = p[i]
    PROVE  Recognised(m, "http", b, Len(p))
<1> DEFINE n == Len(p)
           k == Len(b)
           h == HeadLength(p)
           y == p[3]
<1>1. /\ k \in Nat /\ k >= 1 /\ h \in Nat /\ y \in Nat /\ y <= BodyMax /\ n = h + y
      /\ h >= HeadMin /\ h >= 4 /\ HeadMin \in Nat /\ HeadMin >= 4 /\ BodyMax \in Nat
  <2>1. h \in Nat /\ h >= HeadMin /\ y \in 0..BodyMax /\ n = h + y
    BY HeadOf
  <2>2. k \in Nat /\ k >= 1
    OBVIOUS
  <2> HIDE DEF n, k, h, y
  <2> QED BY <2>1, <2>2, HttpAssumption
<1>2. /\ \A i \in 1..3 : i <= k => b[i] = p[i]
      /\ p[1] \in Methods /\ p[2] = Plain
      /\ HeadLength(b) = IF k < h THEN 0 ELSE h
  BY HeadOf
<1>3. b[1] \in Methods
  <2>1. 1 \in 1..3 /\ 1 <= k
    BY <1>1
  <2> HIDE DEF k
  <2> QED BY <1>2, <2>1
<1>4. k >= h => /\ ReadRequest(b).ok /\ ReadRequest(b).asks = Plain /\ ReadRequest(b).length = y
  BY RequestOf
<1>5. k < h => ~ReadRequest(b).ok
  <2>1. ReadRequest(b).ok = (HeadLength(b) > 0 /\ b[2] # Malformed)
    BY Zenon DEF ReadRequest
  <2>2. k < h => ~(HeadLength(b) > 0)
    BY <1>2
  <2> QED BY <2>1, <2>2
<1> HIDE DEF n, h, y
<1>6. HttpScore(b) = IF k < HeadMin THEN -1 ELSE IF k < h THEN 0 ELSE 90
  <2>1. CASE k < HeadMin
    BY <2>1 DEF HttpScore
  <2>2. CASE ~(k < HeadMin) /\ k < h
    BY <1>3, <1>5, <2>2 DEF HttpScore
  <2>3. CASE ~(k < HeadMin) /\ ~(k < h)
    <3>1. ReadRequest(b).ok /\ ReadRequest(b).asks = Plain /\ ReadRequest(b).length \notin (BodyMax + 1)..Len(b)
      <4>1. k >= h /\ y \notin (BodyMax + 1)..Len(b)
        <5> HIDE DEF k
        <5> QED BY <1>1, <2>3
      <4> QED BY <1>4, <4>1
    <3> QED BY <1>3, <2>3, <3>1 DEF HttpScore
  <2> QED BY <2>1, <2>2, <2>3
<1>7. WsScore(b) = IF k < HeadMin THEN -1 ELSE 0
  <2>1. CASE k < HeadMin
    BY <2>1 DEF WsScore
  <2>2. CASE ~(k < HeadMin)
    <3>1. k >= h \/ k < h
      <4> HIDE DEF k
      <4> QED BY <1>1
    <3>2. ~(ReadRequest(b).ok /\ ReadRequest(b).asks \in {WsUpgrade, WsRefused})
      BY <1>4, <1>5, <3>1 DEF Plain, WsUpgrade, WsRefused
    <3> QED BY <1>3, <2>2, <3>2 DEF WsScore
  <2> QED BY <2>1, <2>2
<1>8. CloveScore(b) = IF k < HeaderLength THEN -1 ELSE 0
  <2>1. ~Featured(b)
    BY <1>3, MethodsHaveNoFeature DEF Featured
  <2> QED BY <2>1 DEF CloveScore
<1> HIDE DEF k
<1>9. /\ \A tag \in m \ {"text"} : Score(tag, b) \in Int /\ Score(tag, b) >= -1
      /\ \A tag \in m \ {"text", "http"} : Score(tag, b) <= 0
      /\ Score("http", b) = HttpScore(b) /\ Score("ws", b) = WsScore(b) /\ Score("clove", b) = CloveScore(b)
  <2>1. Score("http", b) = HttpScore(b) /\ Score("ws", b) = WsScore(b) /\ Score("clove", b) = CloveScore(b)
    BY DEF Score
  <2>2. \A tag \in m \ {"text"} : tag \in {"clove", "http", "ws"}
    BY DEF Tags
  <2>3. /\ HttpScore(b) \in Int /\ HttpScore(b) >= -1
        /\ WsScore(b) \in Int /\ WsScore(b) >= -1 /\ WsScore(b) <= 0
        /\ CloveScore(b) \in Int /\ CloveScore(b) >= -1 /\ CloveScore(b) <= 0
    BY <1>6, <1>7, <1>8
  <2> QED BY <2>1, <2>2, <2>3
<1>10. /\ Score("http", b) >= 90 => Determine(m, b) = "http"
       /\ Score("http", b) < 90 /\ (\E tag \in m \ {"text"} : Score(tag, b) >= 0)
            => Determine(m, b) = "nil"
       /\ (\A tag \in m \ {"text"} : Score(tag, b) = -1)
            => Determine(m, b) = IF "text" \in m THEN "text" ELSE "nil"
  <2>1. "http" \in m \ {"text"}
    OBVIOUS
  <2> QED BY <1>9, <2>1, Determined
<1>11. CASE ~(k < h)
  <2>1. Score("http", b) = 90
    BY <1>1, <1>6, <1>9, <1>11
  <2> QED BY <1>10, <2>1 DEF Recognised
<1>12. CASE k < h
  <2>1. k < n /\ Score("http", b) < 90
    BY <1>1, <1>6, <1>9, <1>12
  <2>2. CASE \E tag \in m \ {"text"} : Score(tag, b) >= 0
    BY <1>10, <2>1, <2>2 DEF Recognised, n, k
  <2>3. CASE ~\E tag \in m \ {"text"} : Score(tag, b) >= 0
    <3>1. \A tag \in m \ {"text"} : Score(tag, b) = -1
      BY <1>9, <2>3
    <3>2. k < HeadMin /\ ("clove" \in m => k < HeaderLength)
      <4>1. "http" \in m \ {"text"} /\ ("clove" \in m => "clove" \in m \ {"text"})
        OBVIOUS
      <4>2. Score("http", b) = -1 /\ ("clove" \in m => Score("clove", b) = -1)
        BY <3>1, <4>1
      <4> QED BY <1>6, <1>8, <1>9, <4>2
    <3> QED BY <1>10, <2>1, <3>1, <3>2 DEF Recognised, n, k
  <2> QED BY <2>2, <2>3
<1> QED BY <1>11, <1>12

-----------------------------------------------------------------------------
(* Peers that keep to their protocol *)

\* An empty buffer has no packet.
LEMMA EmptyBuffer ==
    /\ ParseBuffer("clove", <<>>) = Parsed("none", <<>>, <<>>)
    /\ ParseBuffer("http", <<>>) = Parsed("none", <<>>, <<>>)
<1>1. <<>> \in Seq(Byte) /\ Len(<<>>) = 0
  OBVIOUS
<1>2. CloveParseBuffer[<<>>] = Parsed("none", <<>>, <<>>)
  <2>1. CloveIncomplete(<<>>)
    BY <1>1 DEF CloveIncomplete, HeaderLength
  <2> QED BY <1>1, <2>1, CloveEquation
<1>3. HttpParseBuffer[<<>>] = Parsed("none", <<>>, <<>>)
  <2>1. Len(<<>>) < HeadMin
    BY <1>1, HttpAssumption
  <2>2. \A v : HttpOn(<<>>, v) = Parsed("none", <<>>, <<>>)
    BY <2>1, HttpWaits
  <2> QED BY <1>1, <2>2, HttpEquation
<1> QED BY <1>2, <1>3 DEF ParseBuffer

\* Every message of such a peer is framed.
LEMMA KeptFramed ==
    ASSUME NEW s, KeepsToIt(s)
    PROVE  /\ Len(s.msgs) \in Nat /\ DOMAIN s.msgs = 1..Len(s.msgs)
           /\ \A i \in 1..Len(s.msgs) : Framed(s.fmt, s.msgs[i].bytes, s.msgs[i].pcks)
<1>1. CASE s.fmt = "clove" /\ s.msgs \in Seq(CloveMessages)
  <2>1. ASSUME NEW i \in 1..Len(s.msgs)
        PROVE  Framed(s.fmt, s.msgs[i].bytes, s.msgs[i].pcks)
    <3> DEFINE msg == s.msgs[i]
    <3>1. msg \in CloveMessages
      BY <1>1, ElementOfSeq
    <3> HIDE DEF msg
    <3>2. /\ Len(msg.pcks) = 1 /\ msg.pcks \in Seq(Packet)
          /\ msg.pcks[1] \in ClovePackets /\ msg.bytes = ClovePackage(msg.pcks[1])
      BY <3>1 DEF CloveMessages, Message
    <3>3. msg.pcks = <<msg.pcks[1]>>
      BY <3>2
    <3>4. Framed("clove", ClovePackage(msg.pcks[1]), <<msg.pcks[1]>>)
      BY <3>2, CloveFramed
    <3>5. Framed("clove", msg.bytes, msg.pcks)
      BY <3>2, <3>3, <3>4
    <3> QED BY <1>1, <3>5 DEF msg
  <2> QED BY <1>1, <2>1
<1>2. CASE s.fmt = "http" /\ s.msgs \in Seq(HttpMessages)
  <2>1. ASSUME NEW i \in 1..Len(s.msgs)
        PROVE  Framed(s.fmt, s.msgs[i].bytes, s.msgs[i].pcks)
    <3> DEFINE msg == s.msgs[i]
    <3>1. msg \in HttpMessages
      BY <1>2, ElementOfSeq
    <3> HIDE DEF msg
    <3>2. msg.bytes \in HttpRequests /\ msg.pcks = <<HttpPacket(msg.bytes)>>
      BY <3>1 DEF HttpMessages
    <3>3. Framed("http", msg.bytes, msg.pcks)
      BY <3>2, HttpFramed
    <3> QED BY <1>2, <3>3 DEF msg
  <2> QED BY <1>2, <2>1
<1> QED BY <1>1, <1>2 DEF KeepsToIt

\* Such a peer is steady with every manager that has its format.
LEMMA KeptSteady ==
    ASSUME NEW s, KeepsToIt(s), NEW m \in SUBSET Tags, s.fmt \in m
    PROVE  Steady(s, m)
<1> DEFINE n == Len(s.msgs)
<1>1. /\ n \in Nat /\ DOMAIN s.msgs = 1..n
      /\ \A i \in 1..n : Framed(s.fmt, s.msgs[i].bytes, s.msgs[i].pcks)
  BY KeptFramed
<1>2. s.fmt \in {"clove", "http"}
  BY DEF KeepsToIt
<1>3. Bytes(s) \in Family(Byte, n)
  BY <1>1 DEF Bytes, Family, Framed
<1>4. ASSUME NEW a \in 1..Len(All(s))
      PROVE  Recognised(m, s.fmt, SubSeq(All(s), 1, a), Len(Flat(Bytes(s), 1)))
  <2> DEFINE b == SubSeq(All(s), 1, a)
             p == s.msgs[1].bytes
  <2>1. All(s) \in Seq(Byte) /\ Len(All(s)) \in Nat /\ All(s) = Flat(Bytes(s), n)
    <3>1. n \in 0..n
      BY <1>1
    <3> QED BY <1>1, <1>3, <3>1, Ends DEF All
  <2>2. n # 0
    <3>1. n = 0 => Len(Flat(Bytes(s), n)) = 0
      BY <1>1, <1>3, Ends
    <3> HIDE DEF n
    <3> QED BY <2>1, <3>1
  <2>3. 1 \in 1..n /\ 1 \in 0..n /\ n \in 0..n /\ 1 \in 0..n
    BY <1>1, <2>2
  <2>4. Flat(Bytes(s), 1) = p
    <3>1. Flat(Bytes(s), 0) = <<>> /\ Flat(Bytes(s), 1) = Flat(Bytes(s), 0) \o Bytes(s)[1]
      <4>1. \A i \in 1..n : Flat(Bytes(s), i) = Flat(Bytes(s), i - 1) \o Bytes(s)[i]
        BY <1>1, <1>3, FlattenNext
      <4>2. Flat(Bytes(s), 0) = <<>>
        BY <1>1, <1>3, FlattenNext
      <4>3. 1 - 1 = 0
        OBVIOUS
      <4> QED BY <2>3, <4>1, <4>2, <4>3
    <3>2. Bytes(s)[1] = p /\ p \in Seq(Byte)
      BY <1>1, <2>3 DEF Bytes, Framed
    <3> HIDE DEF p
    <3>3. <<>> \o p = p
      BY <3>2, ConcatEmptySeq
    <3> QED BY <3>1, <3>2, <3>3
  <2>5. Len(p) <= Len(All(s)) /\ \A k \in 1..Len(p) : All(s)[k] = p[k]
    <3>1. /\ Len(Flat(Bytes(s), 1)) <= Len(Flat(Bytes(s), n))
          /\ \A k \in 1..Len(Flat(Bytes(s), 1)) : Flat(Bytes(s), n)[k] = Flat(Bytes(s), 1)[k]
      BY <1>1, <1>3, <2>3, Fronts
    <3> QED BY <2>1, <2>4, <3>1
  <2>6. b \in Seq(Byte) /\ Len(b) = a /\ \A i \in 1..a : b[i] = All(s)[i]
    <3>1. 1 \in Nat \ {0} /\ a \in 0..Len(All(s)) /\ 1 <= a + 1
      BY <2>1
    <3>2. /\ b \in Seq(Byte) /\ Len(b) = a - 1 + 1
          /\ \A i \in 1..(a - 1 + 1) : b[i] = All(s)[1 + i - 1]
      BY <2>1, <3>1, Pieces
    <3>3. a - 1 + 1 = a /\ \A i \in 1..a : 1 + i - 1 = i
      BY <2>1
    <3> HIDE DEF b
    <3> QED BY <3>2, <3>3
  <2> HIDE DEF b
  <2>7. b # <<>> /\ \A i \in 1..Len(b) : i <= Len(p) => b[i] = p[i]
    <3>1. b # <<>>
      BY <2>1, <2>6
    <3>2. \A i \in 1..a : i <= Len(p) => i \in 1..Len(p)
      <4>1. Len(p) \in Nat
        BY <1>1, <2>3 DEF Framed
      <4> HIDE DEF p
      <4> QED BY <2>1, <4>1
    <3> HIDE DEF p
    <3> QED BY <2>5, <2>6, <3>1, <3>2
  <2>8. Recognised(m, s.fmt, b, Len(p))
    <3>1. CASE s.fmt = "clove" /\ s.msgs \in Seq(CloveMessages)
      <4>1. s.msgs[1] \in CloveMessages
        BY <2>3, <3>1, ElementOfSeq
      <4>2. PICK pck \in ClovePackets : p = ClovePackage(pck)
        BY <4>1 DEF CloveMessages
      <4> HIDE DEF p
      <4>3. Recognised(m, "clove", b, Len(ClovePackage(pck)))
        BY <2>6, <2>7, <3>1, <4>2, CloveRecognised
      <4> QED BY <3>1, <4>2, <4>3
    <3>2. CASE s.fmt = "http" /\ s.msgs \in Seq(HttpMessages)
      <4>1. s.msgs[1] \in HttpMessages
        BY <2>3, <3>2, ElementOfSeq
      <4>2. p \in HttpRequests
        BY <4>1 DEF HttpMessages
      <4> HIDE DEF p
      <4> QED BY <2>6, <2>7, <3>2, <4>2, HttpRecognised
    <3> QED BY <3>1, <3>2 DEF KeepsToIt
  <2> QED BY <2>4, <2>8 DEF b
<1>5. ParseBuffer(s.fmt, <<>>) = Parsed("none", <<>>, <<>>)
  BY <1>2, EmptyBuffer
<1>6. s.fmt \in m \ {"text", "ws"}
  BY <1>2
<1> QED BY <1>1, <1>4, <1>5, <1>6 DEF Steady

-----------------------------------------------------------------------------
(* The theorems *)

\* The manager of a connection knows its peer's format.
MgrInv == mgr \in SUBSET Tags /\ script.fmt \in mgr

\* SteadyInv and MgrInv are inductive.
LEMMA Invariance == Spec => [](SteadyInv /\ MgrInv)
<1>1. Init => MgrInv
  BY ManagersAssumption DEF Init, MgrInv
<1>2. MgrInv /\ [Next]_vars => MgrInv'
  BY DEF MgrInv, Next, Read, vars
<1> QED BY <1>1, <1>2, SteadyInit, SteadyStep, PTL DEF Spec

\* What they say of a peer that keeps to its protocol: unless its first read was too short, its
\* format is found, and the packets of its whole messages have been received.
LEMMA Kept ==
    ASSUME SteadyInv, MgrInv, KeepsToIt(script)
    PROVE  /\ script.fmt # "text"
           /\ TooShort \/ /\ packetFmt \in {"nil", script.fmt} /\ err = "none"
                          /\ received = Meant /\ Meant \in Seq(Packet)
<1>1. Steady(script, mgr)
  BY KeptSteady DEF MgrInv
<1>2. /\ arrived \in Nat /\ arrived <= Len(All(script))
      /\ (arrived > 0 /\ TooShort) \/ Caught
  BY <1>1 DEF SteadyInv
<1>3. Meant = Flat(Packets(script), Ended(script, arrived)) /\ Meant \in Seq(Packet)
  BY <1>1, <1>2, StreamIs
<1>4. script.fmt # "text"
  BY <1>1 DEF Steady
<1> QED BY <1>2, <1>3, <1>4 DEF Caught

\* A peer that sends clove packages, or HTTP requests, is taken for no other: whatever the
\* formats registered with the manager, the packets, and the pieces their bytes arrive in.
THEOREM Identified == Spec => [](KeepsToIt(script) => IdentifiedRight)
<1>1. SteadyInv /\ MgrInv => (KeepsToIt(script) => IdentifiedRight)
  BY Kept DEF IdentifiedRight
<1> QED BY <1>1, Invariance, PTL

\* The packets of such a peer are received, whole and in order, each with the read that
\* completes its message, and nothing closes the connection.
THEOREM ReceivedExactly == Spec => [](KeepsToIt(script) => Exact)
<1>1. SteadyInv /\ MgrInv => (KeepsToIt(script) => Exact)
  BY Kept DEF Exact
<1> QED BY <1>1, Invariance, PTL

\* What is received of such a peer is what it meant, in order.
THEOREM InventsNothing == Spec => [](KeepsToIt(script) => NothingInvented)
<1>1. SteadyInv /\ MgrInv => (KeepsToIt(script) => NothingInvented)
  <2> SUFFICES ASSUME SteadyInv, MgrInv, KeepsToIt(script) PROVE NothingInvented
    OBVIOUS
  <2>1. script.fmt # "text"
    BY Kept
  <2>2. CASE TooShort
    BY <2>1, <2>2 DEF NothingInvented
  <2>3. CASE ~TooShort
    <3>1. received = Meant /\ Meant \in Seq(Packet)
      BY <2>3, Kept
    <3>2. Len(Meant) \in Nat /\ IsPrefix(received, Meant)
      BY <3>1 DEF IsPrefix
    <3> QED BY <2>1, <3>2 DEF NothingInvented
  <2> QED BY <2>2, <2>3
<1> QED BY <1>1, Invariance, PTL

=============================================================================
