------------------------------ MODULE UdpProofs ------------------------------
(***************************************************************************)
(* Theorems about Udp, for any users, peers, lengths of packets, fragment  *)
(* size, word and capacity of the queue.                                   *)
(*                                                                         *)
(* TypeOK is not inductive: that waitg stays in Nat needs what it counts   *)
(* (WaitCount). SentWhole needs what a sendTo knows between two of its     *)
(* fragments (Cut): the bytes left are the packet's less the full          *)
(* fragments on the wire, and the index has not reached the total, which   *)
(* is why it cannot wrap. That the total is the number of fragments, and   *)
(* not only a bound of it, is arithmetic: CeilingIs.                       *)
(***************************************************************************)
EXTENDS Udp, TLAPS

One(started) == IF started THEN 1 ELSE 0

\* waitg counts the goroutines that have added themselves and not yet called Done.
WaitCount ==
    waitg = One(pcR \notin {"new", "done"}) + One(pcW \notin {"new", "done"})
            + One(pcP \notin {"new", "done"})

\* What a sender has cut off its packet and put on the wire.
Cut(s) ==
    LET x == send[s]
    IN  /\ x.pc \in {"new", "permit"} => wire[s] = <<>> /\ x.idx = 0
        /\ x.pc \in {"read", "write"} =>
             /\ Len(wire[s]) = x.idx /\ x.total = Total(x.len)
             /\ x.rest > 0 /\ x.len = x.idx * FragmentSize + x.rest
             /\ \A k \in 1..x.idx :
                  wire[s][k] = [idx |-> k - 1, total |-> Total(x.len), n |-> FragmentSize]
        /\ x.pc = "write" => x.idx < x.total

IInv == TypeOK /\ WaitCount /\ (\A s \in Senders : Cut(s)) /\ SentWhole

-----------------------------------------------------------------------------
(* Arithmetic *)

\* Min of two numbers.
LEMMA MinOfTwo ==
    ASSUME NEW a \in Nat, NEW b \in Nat
    PROVE  Min({a, b}) = IF a <= b THEN a ELSE b
<1> DEFINE m == IF a <= b THEN a ELSE b
<1>1. m \in {a, b} /\ \A y \in {a, b} : m <= y
  OBVIOUS
<1>2. \A x \in {a, b} : (\A y \in {a, b} : x <= y) => x = m
  OBVIOUS
<1> HIDE DEF m
<1>3. Min({a, b}) = m
  BY <1>1, <1>2 DEF Min
<1> QED BY <1>3 DEF m

\* Division and its remainder.
LEMMA DivMod ==
    ASSUME NEW d \in Nat \ {0}, NEW x \in Nat
    PROVE  /\ x \div d \in Nat /\ x % d \in 0..(d - 1)
           /\ x = (x \div d) * d + (x % d)
OBVIOUS

\* Multiplication by a positive number is monotonic.
LEMMA TimesGrows ==
    ASSUME NEW d \in Nat \ {0}, NEW a \in Nat, NEW b \in Nat, a <= b
    PROVE  a * d <= b * d
<1>1. b * d = a * d + (b - a) * d
  OBVIOUS
<1>2. (b - a) * d >= 0
  OBVIOUS
<1> QED BY <1>1, <1>2

\* A remainder is no more than the number, and is the number itself below the modulus.
LEMMA Remainder ==
    ASSUME NEW w \in Nat \ {0}, NEW x \in Nat
    PROVE  x % w \in 0..(w - 1) /\ x % w <= x /\ (x < w => x % w = x)
<1> DEFINE q == x \div w
           r == x % w
<1>1. q \in Nat /\ r \in 0..(w - 1) /\ x = q * w + r
  BY DivMod
<1> HIDE DEF q, r
<1>2. q * w \in Nat /\ q * w >= 0
  BY <1>1
<1>3. q >= 1 => q * w >= 1 * w
  BY <1>1, TimesGrows
<1>4. q = 0 => q * w = 0
  BY <1>1
<1>5. r \in 0..(w - 1) /\ r <= x /\ (x < w => r = x)
  BY <1>1, <1>2, <1>3, <1>4
<1> QED BY <1>5 DEF r

\* The number of fragments is the one number of them that holds all the bytes and would not
\* without the last.
LEMMA CeilingIs ==
    ASSUME NEW d \in Nat \ {0}, NEW x \in Nat, NEW k \in Nat, k * d < x, x <= (k + 1) * d
    PROVE  x \div d + (IF x % d > 0 THEN 1 ELSE 0) = k + 1
<1> DEFINE q == x \div d
           r == x % d
<1>1. q \in Nat /\ r \in 0..(d - 1) /\ x = q * d + r
  BY DivMod
<1> HIDE DEF q, r
<1>2. (q + 1) * d = q * d + d /\ (k + 1) * d = k * d + d
  BY <1>1
<1>3. q * d \in Nat /\ k * d \in Nat
  BY <1>1
<1>4. q >= k
  <2>1. q + 1 <= k => (q + 1) * d <= k * d
    BY <1>1, TimesGrows
  <2> QED BY <1>1, <1>2, <1>3, <2>1
<1>5. q <= k + 1
  <2>1. k + 2 <= q => (k + 2) * d <= q * d
    BY <1>1, TimesGrows
  <2>2. (k + 2) * d = (k + 1) * d + d
    OBVIOUS
  <2> QED BY <1>1, <1>2, <1>3, <2>1, <2>2
<1>6. q = k => r > 0
  BY <1>1, <1>3
<1>7. q = k + 1 => r = 0
  BY <1>1, <1>2, <1>3
<1>8. q + (IF r > 0 THEN 1 ELSE 0) = k + 1
  BY <1>1, <1>4, <1>5, <1>6, <1>7
<1> QED BY <1>8 DEF q, r

\* What Total announces is a uint16, no more than the fragments there are.
LEMMA TotalIs ==
    ASSUME NEW len \in Nat
    PROVE  /\ Total(len) \in 0..(Word - 1)
           /\ \A k \in Nat : k * FragmentSize < len /\ len <= (k + 1) * FragmentSize
                               /\ k < Total(len) => Total(len) = k + 1
<1> USE UdpAssumption
<1> DEFINE c == len \div FragmentSize + (IF len % FragmentSize > 0 THEN 1 ELSE 0)
<1>1. c \in Nat /\ Total(len) = c % Word
  BY DivMod DEF Total
<1>2. \A k \in Nat : k * FragmentSize < len /\ len <= (k + 1) * FragmentSize => c = k + 1
  BY CeilingIs
<1> HIDE DEF c
<1>3. c % Word \in 0..(Word - 1) /\ c % Word <= c
  BY <1>1, Remainder
<1> QED BY <1>1, <1>2, <1>3

\* The fragment that carries what is left, when that is no more than a fragment, is the one
\* whose number the total announces.
LEMMA LastFragment ==
    ASSUME NEW len \in Nat, NEW idx \in Nat, NEW rest \in Nat,
           len = idx * FragmentSize + rest, rest > 0, rest <= FragmentSize, idx < Total(len)
    PROVE  /\ Total(len) = idx + 1
           /\ (idx + 1) * FragmentSize >= len
           /\ len - idx * FragmentSize = rest
<1> USE UdpAssumption
<1>1. idx * FragmentSize \in Nat /\ (idx + 1) * FragmentSize = idx * FragmentSize + FragmentSize
  OBVIOUS
<1>2. idx * FragmentSize < len /\ len <= (idx + 1) * FragmentSize
  BY <1>1
<1>3. \A k \in Nat : k * FragmentSize < len /\ len <= (k + 1) * FragmentSize /\ k < Total(len) =>
        Total(len) = k + 1
  BY TotalIs
<1>4. Total(len) = idx + 1
  BY <1>2, <1>3
<1> QED BY <1>1, <1>2, <1>4

\* A full fragment leaves the rest of the packet behind it.
LEMMA FullFragment ==
    ASSUME NEW len \in Nat, NEW idx \in Nat, NEW rest \in Nat,
           len = idx * FragmentSize + rest, rest > FragmentSize
    PROVE  len = (idx + 1) * FragmentSize + (rest - FragmentSize)
<1> USE UdpAssumption
<1>1. idx * FragmentSize \in Nat /\ (idx + 1) * FragmentSize = idx * FragmentSize + FragmentSize
  OBVIOUS
<1> QED BY <1>1

-----------------------------------------------------------------------------
(* Each step keeps the invariant *)

\* A controller just created satisfies the invariant.
LEMMA InitIInv == Init => IInv
<1> SUFFICES ASSUME Init PROVE IInv
  OBVIOUS
<1> USE UdpAssumption
<1>1. /\ packetFmt \in Formats /\ exit = FALSE /\ sock = "open" /\ pcR = "new" /\ pcW = "new"
      /\ pcP = "new" /\ item = "packet" /\ waitg = 0 /\ chReceived = <<>> /\ closed = {}
      /\ drains = 0
  BY DEF Init
<1>2. exit \in BOOLEAN
  BY <1>1
<1>3. closing \in [Callers -> {"idle", "wait", "done"}]
  BY DEF Init
<1>4. fragments \in [Peers -> SUBSET (Indices \X Totals)] /\ count \in [Peers -> Totals \cup {0}]
  BY DEF Init
<1>5. send \in [Senders -> Sends] /\ wire \in [Senders -> Seq(Datagrams)]
  BY DEF Init, Sends
<1>6. TypeOK
  BY <1>1, <1>2, <1>3, <1>4, <1>5 DEF TypeOK, Items
<1>7. WaitCount
  BY <1>1 DEF WaitCount, One
<1>8. (\A s \in Senders : Cut(s)) /\ SentWhole
  BY DEF Init, Cut, SentWhole
<1> QED BY <1>6, <1>7, <1>8 DEF IInv

\* What the senders have cut depends on nothing but their own state.
LEMMA StillCut ==
    ASSUME \A s \in Senders : Cut(s), SentWhole, UNCHANGED sending
    PROVE  (\A s \in Senders : Cut(s))' /\ SentWhole'
BY DEF Cut, SentWhole, sending

\* AddFragment and the total it leaves the pipeline with are of the pipeline's types.
LEMMA PipelineTypes ==
    ASSUME TypeOK, NEW p \in Peers, NEW i \in Indices, NEW n \in Totals
    PROVE  Added(p, i, n) \in SUBSET (Indices \X Totals) /\ NewCount(p, n) \in Totals \cup {0}
<1>1. fragments[p] \in SUBSET (Indices \X Totals)
  BY DEF TypeOK
<1>2. {<<i, n>>} \in SUBSET (Indices \X Totals)
  OBVIOUS
<1> QED BY <1>1, <1>2 DEF Added, NewCount

\* A step of R keeps the invariant.
LEMMA RStep == IInv /\ RNext => IInv'
<1> SUFFICES ASSUME IInv, RNext PROVE IInv'
  OBVIOUS
<1> USE UdpAssumption DEF IInv, RGoto, exceptR
<1>1. UNCHANGED exceptR /\ UNCHANGED sending
  BY DEF RNext, RStart, RReadPacket, RPush, RReadFail, RDrain, RClose, RDone, RReadFragment
<1>2. (\A s \in Senders : Cut(s))' /\ SentWhole'
  BY <1>1, StillCut
<1>3. ASSUME TypeOK', WaitCount' PROVE IInv'
  BY <1>2, <1>3
<1>4. CASE RStart \/ RReadPacket \/ RReadFail \/ RClose \/ RDone
  <2> USE <1>4 DEF RStart, RReadPacket, RReadFail, RClose, RDone, pipelines, sending
  <2>1. WaitCount' /\ waitg' \in Nat
    BY DEF WaitCount, One
  <2>2. TypeOK'
    BY <2>1 DEF TypeOK, Items
  <2> QED BY <1>3, <2>1, <2>2
<1>5. CASE RPush
  <2> USE <1>5 DEF RPush, pipelines, sending
  <2>1. WaitCount'
    BY DEF WaitCount, One
  <2>2. chReceived' \in Seq(Items) /\ Len(chReceived') <= QCap
    BY DEF TypeOK
  <2>3. TypeOK'
    BY <2>2 DEF TypeOK
  <2> QED BY <1>3, <2>1, <2>3
<1>6. CASE RDrain
  <2> USE <1>6 DEF RDrain, pipelines, sending
  <2>1. WaitCount'
    BY DEF WaitCount, One
  <2>2. chReceived' \in Seq(Items) /\ Len(chReceived') <= QCap
    BY DEF TypeOK
  <2>3. TypeOK'
    BY <2>2 DEF TypeOK
  <2> QED BY <1>3, <2>1, <2>3
<1>7. ASSUME NEW p \in Peers, NEW i \in Indices, NEW n \in Totals, RReadFragment(p, i, n)
      PROVE  IInv'
  <2> DEFINE result == Combined(Added(p, i, n), NewCount(p, n))
  <2>1. /\ fragments' = [fragments EXCEPT ![p] = IF result = "error" THEN {} ELSE Added(p, i, n)]
        /\ count' = [count EXCEPT ![p] = IF result = "error" THEN 0 ELSE NewCount(p, n)]
        /\ item' = IF result \in Items THEN result ELSE item
        /\ pcR = "read" /\ pcR' \in {"drain", "push", "read"}
        /\ UNCHANGED <<waitg, chReceived, closed>>
    BY <1>7 DEF RReadFragment
  <2> HIDE DEF result
  <2>2. fragments' \in [Peers -> SUBSET (Indices \X Totals)] /\ count' \in [Peers -> Totals \cup {0}]
    BY <2>1, PipelineTypes DEF TypeOK
  <2>3. item' \in Items
    BY <2>1 DEF TypeOK
  <2>4. TypeOK'
    BY <1>1, <2>1, <2>2, <2>3 DEF TypeOK, sending
  <2>5. WaitCount'
    BY <1>1, <2>1 DEF WaitCount, One
  <2> QED BY <1>3, <2>4, <2>5
<1> QED BY <1>4, <1>5, <1>6, <1>7 DEF RNext

\* A step of W keeps the invariant.
LEMMA WStep == IInv /\ WNext => IInv'
<1> SUFFICES ASSUME IInv, WNext PROVE IInv'
  OBVIOUS
<1> USE DEF IInv, WGoto, exceptW, WNext, WStart, WCheck, WPark, WClose, WDone, pipelines
<1>1. (\A s \in Senders : Cut(s))' /\ SentWhole'
  BY StillCut
<1>2. WaitCount' /\ waitg' \in Nat
  BY DEF WaitCount, One
<1>3. TypeOK'
  BY <1>2 DEF TypeOK, sending
<1> QED BY <1>1, <1>2, <1>3

\* A step of P keeps the invariant.
LEMMA PStep == IInv /\ PNext => IInv'
<1> SUFFICES ASSUME IInv, PNext PROVE IInv'
  OBVIOUS
<1> USE DEF IInv, PGoto, exceptP, PNext, PStart, PTake, PTakeClosed, PCallback, PEnd, pipelines
<1>1. (\A s \in Senders : Cut(s))' /\ SentWhole'
  BY StillCut
<1>2. WaitCount' /\ waitg' \in Nat
  BY DEF WaitCount, One
<1>3. chReceived' \in Seq(Items) /\ Len(chReceived') <= QCap
  <2>1. chReceived' = chReceived \/ (chReceived # <<>> /\ chReceived' = Tail(chReceived))
    OBVIOUS
  <2>2. chReceived \in Seq(Items) /\ Len(chReceived) <= QCap
    BY DEF TypeOK
  <2> HIDE DEF PNext, PStart, PTake, PTakeClosed, PCallback, PEnd
  <2>3. /\ Tail(chReceived) \in Seq(Items) \/ chReceived = <<>>
        /\ chReceived # <<>> => Len(Tail(chReceived)) <= Len(chReceived)
    BY <2>2
  <2> QED BY <2>1, <2>2, <2>3, UdpAssumption
<1>4. exit' \in BOOLEAN
  BY DEF TypeOK
<1>5. TypeOK'
  BY <1>2, <1>3, <1>4 DEF TypeOK, sending
<1> QED BY <1>1, <1>2, <1>5

\* A step of Close, or of its goroutine, keeps the invariant.
LEMMA CloseStep ==
    ASSUME IInv, Drain \/ \E k \in Callers : Close(k) \/ CloseReturns(k)
    PROVE  IInv'
<1> USE DEF IInv, Drain, Close, MayClose, CloseReturns, closeRest, pipelines
<1>1. (\A s \in Senders : Cut(s))' /\ SentWhole'
  BY StillCut
<1>2. WaitCount'
  BY DEF WaitCount, One
<1>3. closing' \in [Callers -> {"idle", "wait", "done"}]
  BY DEF TypeOK
<1>4. exit' \in BOOLEAN
  BY DEF TypeOK
<1>5. drains' \in Nat
  BY DEF TypeOK
<1>6. pcW' \in {"new", "check", "offer", "parked", "close", "leaving", "done"}
  BY DEF TypeOK
<1>7. sock' \in {"open", "closed"}
  BY DEF TypeOK
<1>8. TypeOK'
  BY <1>3, <1>4, <1>5, <1>6, <1>7 DEF TypeOK, sending
<1> QED BY <1>1, <1>2, <1>8

\* A step of sender s that leaves the others' packets and fragments alone keeps the invariant
\* if it keeps the types and what s has cut.
LEMMA SenderSteps ==
    ASSUME IInv, NEW s \in Senders, UNCHANGED exceptS,
           pcW' = pcW \/ (pcW = "parked" /\ pcW' = "check"),
           NEW x \in Sends, send' = [send EXCEPT ![s] = x],
           NEW w \in Seq(Datagrams), wire' = [wire EXCEPT ![s] = w],
           Cut(s)',
           x.pc = "sent" =>
             /\ Len(w) * FragmentSize >= x.len
             /\ \A k \in 1..Len(w) : w[k] =
                  [idx |-> k - 1, total |-> Len(w),
                   n |-> IF k < Len(w) THEN FragmentSize ELSE x.len - (k - 1) * FragmentSize]
    PROVE  IInv'
<1> USE DEF IInv, exceptS, pipelines
<1>1. send' \in [Senders -> Sends] /\ wire' \in [Senders -> Seq(Datagrams)]
  BY DEF TypeOK
<1>2. TypeOK'
  BY <1>1 DEF TypeOK
<1>3. WaitCount'
  BY DEF WaitCount, One
<1>4. send'[s] = x /\ wire'[s] = w
  BY DEF TypeOK
<1>5. ASSUME NEW t \in Senders, t # s PROVE send'[t] = send[t] /\ wire'[t] = wire[t]
  BY <1>5 DEF TypeOK
<1>6. ASSUME NEW t \in Senders PROVE Cut(t)'
  BY <1>5, <1>6 DEF Cut
<1>7. SentWhole'
  BY <1>4, <1>5 DEF SentWhole
<1> QED BY <1>2, <1>3, <1>6, <1>7

\* SendWrite puts the next fragment on the wire: a full one if there is more to send, and
\* otherwise the last, whose number is the total.
LEMMA WriteStep ==
    ASSUME IInv, NEW s \in Senders, SendWrite(s)
    PROVE  IInv'
<1> PICK x \in Sends : x = send[s]
  BY DEF IInv, TypeOK
<1> PICK w \in Seq(Datagrams) : w = wire[s]
  BY DEF IInv, TypeOK
<1> DEFINE n == IF FragmentSize <= x.rest THEN FragmentSize ELSE x.rest
           more == x.rest > n
           d == [idx |-> x.idx, total |-> x.total, n |-> n]
           y == [x EXCEPT !.pc = IF more THEN "read" ELSE "sent",
                          !.rest = x.rest - n, !.idx = x.idx + 1]
           v == Append(w, d)
<1>1. /\ x.len \in Nat /\ x.rest \in Nat /\ x.idx \in Nat /\ Len(w) \in Nat
      /\ x.idx \in 0..(Word - 1) /\ x.total \in 0..(Word - 1) /\ x.len \in Lens \cup {0}
  <2>1. /\ x.rest \in Nat /\ x.len \in Lens \cup {0}
        /\ x.idx \in 0..(Word - 1) /\ x.total \in 0..(Word - 1)
    BY DEF Sends
  <2>2. x.idx \in Nat /\ x.len \in Nat
    <3>1. Lens \cup {0} \subseteq Nat
      BY UdpAssumption
    <3>2. 0..(Word - 1) \subseteq Nat
      BY UdpAssumption
    <3> QED BY <2>1, <3>1, <3>2
  <2>3. Len(w) \in Nat
    OBVIOUS
  <2> QED BY <2>1, <2>2, <2>3
<1>2. /\ x.pc = "write" /\ Len(w) = x.idx /\ x.total = Total(x.len) /\ x.rest > 0
      /\ x.len = x.idx * FragmentSize + x.rest /\ x.idx < x.total
      /\ \A k \in 1..x.idx :
           w[k] = [idx |-> k - 1, total |-> Total(x.len), n |-> FragmentSize]
  BY DEF IInv, Cut, SendWrite
<1>3. (x.idx + 1) % Word = x.idx + 1 /\ x.idx + 1 \in 0..(Word - 1)
  <2>1. x.idx + 1 \in Nat /\ x.idx + 1 < Word
    BY <1>1, <1>2, UdpAssumption
  <2> QED BY <2>1, Remainder, UdpAssumption
<1>4. Min({FragmentSize, x.rest}) = n
  BY <1>1, MinOfTwo, UdpAssumption
<1>5. n \in 1..FragmentSize /\ n <= x.rest /\ x.rest - n \in Nat
  <2>1. CASE FragmentSize <= x.rest
    BY <1>1, <2>1, UdpAssumption
  <2>2. CASE ~(FragmentSize <= x.rest)
    BY <1>1, <1>2, <2>2, UdpAssumption
  <2> QED BY <2>1, <2>2
<1>6. d \in Datagrams
  BY <1>1, <1>5 DEF Datagrams
<1>7. y \in Sends
  BY <1>1, <1>3, <1>5 DEF Sends
<1>8. /\ y.pc = IF more THEN "read" ELSE "sent"
      /\ y.len = x.len /\ y.rest = x.rest - n /\ y.idx = x.idx + 1 /\ y.total = x.total
  BY DEF Sends
<1>9. UNCHANGED <<pcW, exceptS>> /\ wire' = [wire EXCEPT ![s] = v]
  BY <1>4 DEF SendWrite
<1>10. send' = [send EXCEPT ![s] = y]
  BY <1>3, <1>4 DEF SendWrite, IInv, TypeOK, Sends
<1>11. /\ v \in Seq(Datagrams) /\ Len(v) = x.idx + 1 /\ v[x.idx + 1] = d
       /\ \A k \in 1..x.idx : v[k] = w[k]
  BY <1>1, <1>2, <1>6
<1>12. send'[s] = y /\ wire'[s] = v
  BY <1>9, <1>10 DEF IInv, TypeOK
<1>13. \A k \in 1..(x.idx + 1) : k \in 1..x.idx \/ k = x.idx + 1
  BY <1>1
<1> HIDE DEF y, v
<1>14. Cut(s)'
  <2>1. CASE more
    <3>1. n = FragmentSize /\ x.rest > FragmentSize
      BY <1>1, <2>1, UdpAssumption
    <3>2. x.len = (x.idx + 1) * FragmentSize + (x.rest - FragmentSize)
      BY <1>1, <1>2, <3>1, FullFragment
    <3>3. x.rest - FragmentSize > 0
      BY <1>1, <3>1, UdpAssumption
    <3>4. d = [idx |-> x.idx, total |-> Total(x.len), n |-> FragmentSize]
      BY <1>2, <3>1
    <3>5. (x.idx + 1) - 1 = x.idx
      BY <1>1
    <3> HIDE DEF n, d
    <3>6. \A k \in 1..(x.idx + 1) :
            v[k] = [idx |-> k - 1, total |-> Total(x.len), n |-> FragmentSize]
      BY <1>2, <1>11, <1>13, <3>4, <3>5
    <3> QED BY <1>2, <1>8, <1>11, <1>12, <2>1, <3>1, <3>2, <3>3, <3>6 DEF Cut
  <2>2. CASE ~more
    BY <1>8, <1>12, <2>2 DEF Cut
  <2> QED BY <2>1, <2>2
<1>15. ASSUME y.pc = "sent"
       PROVE  /\ Len(v) * FragmentSize >= y.len
              /\ \A k \in 1..Len(v) : v[k] =
                   [idx |-> k - 1, total |-> Len(v),
                    n |-> IF k < Len(v) THEN FragmentSize ELSE y.len - (k - 1) * FragmentSize]
  <2>1. n = x.rest /\ x.rest <= FragmentSize
    BY <1>1, <1>8, <1>15, UdpAssumption
  <2>2. /\ Total(x.len) = x.idx + 1 /\ (x.idx + 1) * FragmentSize >= x.len
        /\ x.len - x.idx * FragmentSize = x.rest
    BY <1>1, <1>2, <2>1, LastFragment
  <2>3. d = [idx |-> x.idx, total |-> x.idx + 1, n |-> x.len - x.idx * FragmentSize]
    BY <1>2, <2>1, <2>2
  <2>4. (x.idx + 1) - 1 = x.idx /\ ~(x.idx + 1 < x.idx + 1)
    BY <1>1
  <2> HIDE DEF n, d, more
  <2>5. ASSUME NEW k \in 1..x.idx
        PROVE  v[k] = [idx |-> k - 1, total |-> x.idx + 1, n |-> FragmentSize] /\ k < x.idx + 1
    <3>1. k < x.idx + 1
      BY <1>1
    <3> QED BY <1>2, <1>11, <2>2, <3>1
  <2>6. \A k \in 1..(x.idx + 1) : v[k] =
          [idx |-> k - 1, total |-> x.idx + 1,
           n |-> IF k < x.idx + 1 THEN FragmentSize ELSE x.len - (k - 1) * FragmentSize]
    BY <1>11, <1>13, <2>3, <2>4, <2>5
  <2> QED BY <1>8, <1>11, <2>2, <2>6
<1> QED BY <1>7, <1>9, <1>10, <1>11, <1>14, <1>15, SenderSteps

\* A step of SendPacket or of its goroutine that puts nothing on the wire keeps the invariant.
LEMMA QuietSenderStep ==
    ASSUME IInv, NEW s \in Senders,
           SendPacket(s) \/ SendAllowed(s) \/ SendDenied(s) \/ SendRead(s) \/ SendWriteFail(s)
    PROVE  IInv'
<1> PICK x \in Sends : x = send[s]
  BY DEF IInv, TypeOK
<1>1. Cut(s) /\ wire[s] \in Seq(Datagrams) /\ wire' = [wire EXCEPT ![s] = wire[s]]
      /\ UNCHANGED exceptS /\ wire' = wire
  BY DEF IInv, TypeOK, SendPacket, SendAllowed, SendDenied, SendRead, SendWriteFail
<1>2. 0 \in 0..(Word - 1) /\ Lens \cup {0} \subseteq Nat
  BY UdpAssumption
<1>3. ASSUME NEW y \in Sends, send' = [send EXCEPT ![s] = y], Cut(s)', y.pc # "sent",
             pcW' = pcW \/ (pcW = "parked" /\ pcW' = "check")
      PROVE  IInv'
  BY <1>1, <1>3, SenderSteps
<1>4. ASSUME x.pc \in {"new", "permit", "read", "write"},
             send' = [send EXCEPT ![s] = [x EXCEPT !.pc = "failed"]],
             pcW' = pcW \/ (pcW = "parked" /\ pcW' = "check")
      PROVE  IInv'
  <2>1. [x EXCEPT !.pc = "failed"] \in Sends /\ [x EXCEPT !.pc = "failed"].pc = "failed"
    BY DEF Sends
  <2>2. Cut(s)'
    <3>1. send'[s] = [x EXCEPT !.pc = "failed"]
      BY <1>4 DEF IInv, TypeOK
    <3> QED BY <2>1, <3>1 DEF Cut
  <2> QED BY <1>3, <1>4, <2>1, <2>2
<1>5. CASE SendPacket(s)
  <2>1. x.pc = "new" /\ pcW' = pcW
    BY <1>5 DEF SendPacket
  <2>2. ASSUME NEW n \in Lens, send' = [send EXCEPT ![s].pc = "permit", ![s].len = n] PROVE IInv'
    <3> DEFINE y == [x EXCEPT !.pc = "permit", !.len = n]
    <3>1. y \in Sends /\ y.pc = "permit" /\ y.idx = x.idx
      BY DEF Sends
    <3>2. send' = [send EXCEPT ![s] = y]
      BY <2>2
    <3>3. send'[s] = y
      BY <3>2 DEF IInv, TypeOK
    <3>4. wire[s] = <<>> /\ x.idx = 0
      BY <1>1, <2>1 DEF Cut
    <3> HIDE DEF y
    <3>5. Cut(s)'
      BY <1>1, <3>1, <3>3, <3>4 DEF Cut
    <3> QED BY <1>3, <2>1, <3>1, <3>2, <3>5
  <2>3. CASE send' = [send EXCEPT ![s].pc = "failed"]
    BY <1>4, <2>1, <2>3
  <2> QED BY <1>5, <2>2, <2>3 DEF SendPacket
<1>6. CASE SendAllowed(s)
  <2>1. x.pc = "permit" /\ pcW = "parked" /\ pcW' = "check"
    BY <1>6 DEF SendAllowed
  <2>2. wire[s] = <<>> /\ x.idx = 0 /\ x.len \in Nat /\ x.len \in Lens \cup {0}
    BY <1>1, <1>2, <2>1 DEF Cut, Sends
  <2>3. CASE send' = [send EXCEPT ![s].pc = IF send[s].len > 0 THEN "read" ELSE "sent",
                                  ![s].rest = send[s].len, ![s].total = Total(send[s].len)]
    <3> DEFINE y == [x EXCEPT !.pc = IF x.len > 0 THEN "read" ELSE "sent",
                              !.rest = x.len, !.total = Total(x.len)]
    <3>1. send' = [send EXCEPT ![s] = y]
      BY <2>3
    <3>2. send'[s] = y
      BY <3>1 DEF IInv, TypeOK
    <3>3. Total(x.len) \in 0..(Word - 1)
      BY <2>2, TotalIs
    <3>4. y \in Sends
      BY <2>2, <3>3 DEF Sends
    <3>5. /\ y.pc = IF x.len > 0 THEN "read" ELSE "sent"
          /\ y.len = x.len /\ y.rest = x.len /\ y.idx = 0 /\ y.total = Total(x.len)
      BY <2>2 DEF Sends
    <3>6. 0 * FragmentSize = 0 /\ Len(<<>>) = 0
      BY UdpAssumption
    <3> HIDE DEF y
    <3>7. Cut(s)'
      BY <1>1, <2>2, <3>2, <3>5, <3>6 DEF Cut
    <3>8. y.pc = "sent" => Len(wire[s]) * FragmentSize >= y.len /\ 1..Len(wire[s]) = {}
      BY <2>2, <3>5, <3>6
    <3> QED BY <1>1, <2>1, <3>1, <3>4, <3>7, <3>8, SenderSteps
  <2>4. CASE send' = [send EXCEPT ![s].pc = "failed"]
    BY <1>4, <2>1, <2>4
  <2> QED BY <1>6, <2>3, <2>4 DEF SendAllowed
<1>7. CASE SendRead(s)
  <2> DEFINE y == [x EXCEPT !.pc = IF x.idx >= x.total THEN "failed" ELSE "write"]
  <2>1. x.pc = "read" /\ pcW' = pcW /\ send' = [send EXCEPT ![s] = y]
    BY <1>7 DEF SendRead
  <2>2. send'[s] = y
    BY <2>1 DEF IInv, TypeOK
  <2>3. /\ y \in Sends /\ y.pc = IF x.idx >= x.total THEN "failed" ELSE "write"
        /\ y.len = x.len /\ y.rest = x.rest /\ y.idx = x.idx /\ y.total = x.total
    BY DEF Sends
  <2>4. x.idx >= x.total \/ x.idx < x.total
    <3>1. 0..(Word - 1) \subseteq Int
      OBVIOUS
    <3> QED BY <3>1 DEF Sends
  <2> HIDE DEF y
  <2>5. Cut(s)'
    BY <1>1, <2>1, <2>2, <2>3, <2>4 DEF Cut
  <2> QED BY <1>3, <2>1, <2>3, <2>5
<1>8. CASE SendDenied(s) \/ SendWriteFail(s)
  BY <1>4, <1>8 DEF SendDenied, SendWriteFail
<1> QED BY <1>5, <1>6, <1>7, <1>8

-----------------------------------------------------------------------------
(* The theorems *)

\* The invariant holds throughout: no step of R, W, P, of Close or of a sender breaks it
\* (udp/controller.go 77-96, 138-370).
THEOREM Invariance == Spec => []IInv
<1>1. IInv /\ [Next]_vars => IInv'
  <2> SUFFICES ASSUME IInv, [Next]_vars PROVE IInv'
    OBVIOUS
  <2>1. CASE Next
    BY <2>1, RStep, WStep, PStep, CloseStep, QuietSenderStep, WriteStep DEF Next, Sending
  <2>2. CASE UNCHANGED vars
    <3> USE <2>2 DEF vars, pipelines, sending, IInv
    <3>1. TypeOK'
      BY DEF TypeOK
    <3>2. WaitCount'
      BY DEF WaitCount
    <3>3. (\A s \in Senders : Cut(s))' /\ SentWhole'
      BY StillCut
    <3> QED BY <3>1, <3>2, <3>3
  <2> QED BY <2>1, <2>2
<1> QED BY InitIInv, <1>1, PTL DEF Spec

\* Every variable keeps its type: the WaitGroup's counter, which Go panics below 0, and the
\* uint16 index and total of every fragment included.
THEOREM TypeCorrect == Spec => []TypeOK
BY Invariance, PTL DEF IInv

\* Whatever the length and the fragment size, a packet is sent whole or sendTo reports an
\* error (udp/controller.go 196-209).
THEOREM Whole == Spec => []SentWhole
BY Invariance, PTL DEF IInv

=============================================================================
