----------------------------- MODULE UnixProofs -----------------------------
(***************************************************************************)
(* Theorems about Unix, for any users, any number of datagrams and any     *)
(* capacity of the queue.                                                  *)
(*                                                                         *)
(* None of the properties is inductive by itself. OncePlaced needs to know *)
(* nothing more than how sequences and their elements relate, but          *)
(* MessagesInOrder needs the order inside the queue and between the queue, *)
(* R's hands and the callback (InLine), and that a format other than       *)
(* binary starts no delivery goroutine (ByFormat); ClosedIsQuiet needs     *)
(* what the WaitGroup's counter counts (WaitCount) and what a caller of    *)
(* Close knows from the moment its Wait returns (Quiet).                   *)
(***************************************************************************)
EXTENDS Unix, TLAPS

One(started) == IF started THEN 1 ELSE 0

\* waitg counts the goroutines that have added themselves and not yet called Done.
WaitCount == waitg = One(pcR \notin {"new", "done"}) + One(pcP \notin {"new", "done"})

\* A caller of Close whose Wait has returned found every goroutine done, or was early.
Quiet ==
    \A k \in Closers :
        closing[k] \in {"waited", "done"} /\ k \notin early => pcR = "done" /\ pcP = "done"

\* Only datagrams of a binary format have delivery goroutines, and only they can panic; only
\* descriptor messages are pushed by R itself.
ByFormat ==
    /\ delivering # {} \/ crashed => packetFmt = "binary"
    /\ pcR = "push" => packetFmt = "unixmsg"

\* OncePlaced, spelled out: R's hands are the number `reads' while R is at the push.
InR == IF pcR = "push" THEN {reads} ELSE {}

Apart ==
    /\ delivering \cap InR = {} /\ delivering \cap ToSet(chReceived) = {}
    /\ delivering \cap ToSet(handled) = {} /\ delivering \cap dropped = {}
    /\ InR \cap ToSet(chReceived) = {} /\ InR \cap ToSet(handled) = {} /\ InR \cap dropped = {}
    /\ ToSet(chReceived) \cap ToSet(handled) = {} /\ ToSet(chReceived) \cap dropped = {}
    /\ ToSet(handled) \cap dropped = {}

Placed ==
    /\ delivering \cup InR \cup ToSet(chReceived) \cup ToSet(handled) \cup dropped = 1..reads
    /\ Apart
    /\ IsInjective(handled) /\ IsInjective(chReceived)

Increasing(s) == \A i, j \in DOMAIN s : i < j => s[i] < s[j]

\* Descriptor messages stand in line: what is handled came before what is queued.
InLine ==
    packetFmt = "unixmsg" =>
        /\ Increasing(handled) /\ Increasing(chReceived)
        /\ \A i \in DOMAIN handled, j \in DOMAIN chReceived : handled[i] < chReceived[j]

IInv == TypeOK /\ WaitCount /\ Quiet /\ ByFormat /\ Placed /\ InLine

-----------------------------------------------------------------------------
(* Sequences and their elements *)

\* What Append adds to a sequence, and when it keeps it free of duplicates and increasing.
LEMMA Appended ==
    ASSUME NEW S, NEW s \in Seq(S), NEW e \in S
    PROVE  /\ Append(s, e) \in Seq(S)
           /\ Len(Append(s, e)) = Len(s) + 1
           /\ ToSet(Append(s, e)) = ToSet(s) \cup {e}
           /\ IsInjective(s) /\ e \notin ToSet(s) => IsInjective(Append(s, e))
<1>1. /\ Append(s, e) \in Seq(S) /\ Len(Append(s, e)) = Len(s) + 1
      /\ DOMAIN Append(s, e) = 1..(Len(s) + 1) /\ DOMAIN s = 1..Len(s) /\ Len(s) \in Nat
      /\ Append(s, e)[Len(s) + 1] = e
      /\ \A i \in 1..Len(s) : Append(s, e)[i] = s[i]
  OBVIOUS
<1>2. ToSet(Append(s, e)) = ToSet(s) \cup {e}
  BY <1>1 DEF ToSet
<1>3. ASSUME IsInjective(s), e \notin ToSet(s) PROVE IsInjective(Append(s, e))
  BY <1>1, <1>3 DEF IsInjective, ToSet
<1> QED BY <1>1, <1>2, <1>3

\* What taking the head leaves of a sequence.
LEMMA Taken ==
    ASSUME NEW S, NEW s \in Seq(S), s # <<>>
    PROVE  /\ Tail(s) \in Seq(S) /\ Head(s) \in S
           /\ Len(Tail(s)) = Len(s) - 1
           /\ ToSet(s) = {Head(s)} \cup ToSet(Tail(s))
           /\ IsInjective(s) => IsInjective(Tail(s)) /\ Head(s) \notin ToSet(Tail(s))
<1>1. /\ Len(s) \in Nat \ {0} /\ DOMAIN s = 1..Len(s) /\ Head(s) = s[1] /\ s[1] \in S
      /\ Tail(s) \in Seq(S) /\ Len(Tail(s)) = Len(s) - 1 /\ DOMAIN Tail(s) = 1..(Len(s) - 1)
      /\ \A i \in 1..(Len(s) - 1) : Tail(s)[i] = s[i + 1]
  OBVIOUS
<1>2. ToSet(s) = {Head(s)} \cup ToSet(Tail(s))
  <2>1. ASSUME NEW i \in 1..Len(s) PROVE s[i] \in {Head(s)} \cup ToSet(Tail(s))
    <3>1. CASE i = 1
      BY <1>1, <3>1
    <3>2. CASE i # 1
      <4>1. i - 1 \in 1..(Len(s) - 1) /\ Tail(s)[i - 1] = s[i]
        BY <1>1, <3>2
      <4> QED BY <1>1, <4>1 DEF ToSet
    <3> QED BY <3>1, <3>2
  <2>2. ASSUME NEW i \in 1..(Len(s) - 1) PROVE Tail(s)[i] \in ToSet(s)
    BY <1>1 DEF ToSet
  <2>3. Head(s) \in ToSet(s)
    BY <1>1 DEF ToSet
  <2>4. ToSet(s) \subseteq {Head(s)} \cup ToSet(Tail(s))
    BY <1>1, <2>1 DEF ToSet
  <2>5. ToSet(Tail(s)) \subseteq ToSet(s)
    BY <1>1, <2>2 DEF ToSet
  <2> QED BY <2>3, <2>4, <2>5
<1>3. ASSUME IsInjective(s) PROVE IsInjective(Tail(s)) /\ Head(s) \notin ToSet(Tail(s))
  BY <1>1, <1>3 DEF IsInjective, ToSet
<1> QED BY <1>1, <1>2, <1>3


-----------------------------------------------------------------------------
(* Each step keeps the invariant *)

\* A controller just created satisfies the invariant.
LEMMA InitIInv == Init => IInv
<1> SUFFICES ASSUME Init PROVE IInv
  OBVIOUS
<1> USE UnixAssumption
<1>1. /\ exit = FALSE /\ closed = FALSE /\ crashed = FALSE /\ file = TRUE /\ sock = "open"
      /\ packetFmt \in Formats /\ pcR = "new" /\ pcP = "new" /\ waitg = 0 /\ reads = 0
      /\ delivering = {} /\ dropped = {} /\ chReceived = <<>> /\ handled = <<>> /\ early = {}
  BY DEF Init
<1>2. closing \in [Closers -> {"idle", "exit", "wait", "waited", "done"}]
  BY DEF Init
<1>3. send \in [Senders -> {"new", "write", "true", "false"}]
  BY DEF Init
<1>4. exit \in BOOLEAN /\ closed \in BOOLEAN /\ crashed \in BOOLEAN /\ file \in BOOLEAN
  BY <1>1
<1>5. TypeOK
  BY <1>1, <1>2, <1>3, <1>4 DEF TypeOK
<1>6. WaitCount /\ ByFormat /\ InLine
  BY <1>1 DEF WaitCount, One, ByFormat, InLine, Increasing
<1>7. Quiet
  BY DEF Init, Quiet
<1>8. ToSet(<<>>) = {} /\ IsInjective(<<>>)
  BY DEF ToSet, IsInjective
<1>9. Placed
  BY <1>1, <1>8 DEF Placed, Apart, InR
<1> QED BY <1>5, <1>6, <1>7, <1>9 DEF IInv

\* A step that moves no datagram keeps every one in its place.
LEMMA StillPlaced ==
    ASSUME Placed, InLine, UNCHANGED <<reads, delivering, dropped, chReceived, handled>>,
           packetFmt' = packetFmt, (pcR' = "push") = (pcR = "push")
    PROVE  Placed' /\ InLine'
BY DEF Placed, Apart, InR, InLine

\* R moves to a place other than the ones between which it holds a datagram.
LEMMA RMoves ==
    ASSUME IInv, NEW from \in {"new", "read", "drain", "close", "leaving"},
           NEW to \in {"read", "drain", "close", "leaving", "done"}, RGoto(from, to),
           UNCHANGED <<reads, delivering, dropped, chReceived>>, closed' \in BOOLEAN,
           from = "new" => to # "done" /\ waitg' = waitg + 1,
           to = "done" => from # "new" /\ waitg' = waitg - 1,
           from # "new" /\ to # "done" => waitg' = waitg
    PROVE  IInv'
<1> USE UnixAssumption DEF IInv, RGoto, exceptR, userState
<1>1. WaitCount'
  BY DEF WaitCount, One, TypeOK
<1>2. waitg' \in Nat
  BY <1>1 DEF WaitCount, One
<1>3. TypeOK'
  BY <1>2 DEF TypeOK
<1>4. Quiet'
  BY DEF Quiet
<1>5. ByFormat'
  BY DEF ByFormat
<1>6. Placed' /\ InLine'
  BY StillPlaced
<1> QED BY <1>1, <1>3, <1>4, <1>5, <1>6

\* A step of R keeps the invariant.
LEMMA RStep == IInv /\ RNext => IInv'
<1> SUFFICES ASSUME IInv, RNext PROVE IInv'
  OBVIOUS
<1> USE UnixAssumption DEF IInv
<1>1. CASE RStart
  BY <1>1, RMoves DEF RStart, readState, RGoto, TypeOK
<1>2. CASE RNoFormat \/ RUnsupported \/ RReadFail
  BY <1>2, RMoves DEF RNoFormat, RUnsupported, RReadFail, readState, TypeOK
<1>3. CASE RClose
  BY <1>3, RMoves DEF RClose
<1>4. CASE RDone
  BY <1>4, RMoves DEF RDone, readState, TypeOK
<1>5. CASE RReadDatagram
  <2> USE <1>5 DEF RReadDatagram, RGoto, exceptR, userState
  <2>1. reads' = reads + 1 /\ reads' \in Datagrams /\ 1..reads' = 1..reads \cup {reads'}
        /\ reads' \notin 1..reads
    BY DEF TypeOK, Datagrams
  <2>2. TypeOK'
    BY <2>1 DEF TypeOK, Datagrams
  <2>3. WaitCount' /\ Quiet' /\ ByFormat'
    BY DEF WaitCount, Quiet, ByFormat
  <2>4. Placed'
    BY <2>1 DEF Placed, Apart, InR
  <2>5. InLine'
    BY DEF InLine
  <2> QED BY <2>2, <2>3, <2>4, <2>5
<1>6. CASE RReadMsg
  <2> USE <1>6 DEF RReadMsg, RGoto, exceptR, userState
  <2>1. reads' = reads + 1 /\ reads' \in Datagrams /\ 1..reads' = 1..reads \cup {reads'}
        /\ reads' \notin 1..reads
    BY DEF TypeOK, Datagrams
  <2>2. TypeOK'
    BY <2>1 DEF TypeOK
  <2>3. WaitCount' /\ Quiet' /\ ByFormat'
    BY DEF WaitCount, Quiet, ByFormat, One
  <2>4. Placed'
    BY <2>1 DEF Placed, Apart, InR
  <2>5. InLine'
    BY DEF InLine
  <2> QED BY <2>2, <2>3, <2>4, <2>5
<1>7. CASE RPush
  <2> USE <1>7 DEF RPush, RGoto, exceptR, userState
  <2>1. reads \in Datagrams /\ reads \in InR
    <3>1. reads \in InR
      BY DEF InR
    <3>2. reads \in 1..reads
      BY <3>1 DEF Placed
    <3> QED BY <3>1, <3>2 DEF TypeOK, Datagrams
  <2>2. chReceived \in Seq(Datagrams) /\ chReceived' = Append(chReceived, reads)
    BY DEF TypeOK
  <2>3. /\ chReceived' \in Seq(Datagrams) /\ Len(chReceived') = Len(chReceived) + 1
        /\ ToSet(chReceived') = ToSet(chReceived) \cup {reads}
        /\ IsInjective(chReceived) /\ reads \notin ToSet(chReceived) => IsInjective(chReceived')
    BY <2>1, <2>2, Appended
  <2>4. TypeOK'
    BY <2>3 DEF TypeOK
  <2>5. WaitCount' /\ Quiet' /\ ByFormat'
    BY DEF WaitCount, Quiet, ByFormat, One
  <2>6. InR = {reads} /\ InR' = {}
    BY DEF InR
  <2>7. Placed'
    BY <2>3, <2>6 DEF Placed, Apart
  <2>8. InLine'
    <3>1. \A i \in DOMAIN chReceived : chReceived[i] \in 1..reads /\ chReceived[i] # reads
      BY <2>1 DEF Placed, Apart, ToSet
    <3>2. \A i \in DOMAIN handled : handled[i] \in 1..reads /\ handled[i] # reads
      BY <2>1 DEF Placed, Apart, ToSet
    <3>3. \A n \in 1..reads : n # reads => n < reads
      BY DEF TypeOK
    <3>4. /\ DOMAIN chReceived = 1..Len(chReceived) /\ Len(chReceived) \in Nat
          /\ DOMAIN chReceived' = 1..(Len(chReceived) + 1)
          /\ chReceived'[Len(chReceived) + 1] = reads
          /\ \A i \in 1..Len(chReceived) : chReceived'[i] = chReceived[i]
      BY <2>1, <2>2
    <3>5. Increasing(chReceived) => Increasing(chReceived')
      BY <3>1, <3>3, <3>4 DEF Increasing
    <3> QED BY <3>2, <3>3, <3>4, <3>5 DEF InLine
  <2> QED BY <2>4, <2>5, <2>7, <2>8
<1>8. CASE RDrain
  <2>1. CASE chReceived = <<>>
    <3>1. chReceived' = chReceived /\ dropped' = dropped
      BY <1>8, <2>1 DEF RDrain, ToSet
    <3> QED BY <1>8, <2>1, <3>1, RMoves DEF RDrain, TypeOK
  <2>2. CASE chReceived # <<>>
    <3> USE <1>8, <2>2 DEF RDrain, RGoto, exceptR, userState
    <3>1. chReceived \in Seq(Datagrams) /\ chReceived' = Tail(chReceived)
      BY DEF TypeOK
    <3>2. /\ chReceived' \in Seq(Datagrams) /\ Len(chReceived') = Len(chReceived) - 1
          /\ ToSet(chReceived) = {Head(chReceived)} \cup ToSet(chReceived')
          /\ IsInjective(chReceived) =>
               IsInjective(chReceived') /\ Head(chReceived) \notin ToSet(chReceived')
          /\ Head(chReceived) \in Datagrams
      BY <3>1, Taken
    <3>3. dropped' = dropped \cup {Head(chReceived)}
      BY <3>2 DEF Placed
    <3>4. TypeOK'
      BY <3>2, <3>3 DEF TypeOK
    <3>5. WaitCount' /\ Quiet' /\ ByFormat'
      BY DEF WaitCount, Quiet, ByFormat, One
    <3>6. Placed'
      BY <3>2, <3>3 DEF Placed, Apart, InR
    <3>7. InLine'
      <4>1. \A i \in DOMAIN chReceived' :
              i + 1 \in DOMAIN chReceived /\ chReceived'[i] = chReceived[i + 1] /\ i \in Int
        BY <3>1
      <4> QED BY <4>1 DEF InLine, Increasing
    <3> QED BY <3>4, <3>5, <3>6, <3>7
  <2> QED BY <2>1, <2>2
<1> QED BY <1>1, <1>2, <1>3, <1>4, <1>5, <1>6, <1>7, <1>8 DEF RNext

\* P moves without touching the queue.
LEMMA PMoves ==
    ASSUME IInv, NEW from \in {"new", "loop", "callback", "ending"},
           NEW to \in {"loop", "ending", "done"}, PGoto(from, to),
           UNCHANGED <<chReceived, handled>>, exit' \in BOOLEAN,
           from = "new" => to # "done" /\ waitg' = waitg + 1,
           to = "done" => from # "new" /\ waitg' = waitg - 1,
           from # "new" /\ to # "done" => waitg' = waitg
    PROVE  IInv'
<1> USE UnixAssumption DEF IInv, PGoto, exceptP, userState
<1>1. WaitCount'
  BY DEF WaitCount, One, TypeOK
<1>2. waitg' \in Nat
  BY <1>1 DEF WaitCount, One
<1>3. TypeOK'
  BY <1>2 DEF TypeOK
<1>4. Quiet' /\ ByFormat'
  BY DEF Quiet, ByFormat
<1>5. Placed' /\ InLine'
  BY StillPlaced
<1> QED BY <1>1, <1>3, <1>4, <1>5

\* A step of P keeps the invariant.
LEMMA PStep == IInv /\ PNext => IInv'
<1> SUFFICES ASSUME IInv, PNext PROVE IInv'
  OBVIOUS
<1> USE UnixAssumption DEF IInv
<1>1. CASE PStart
  BY <1>1, PMoves DEF PStart, TypeOK
<1>2. CASE PTakeClosed
  BY <1>2, PMoves DEF PTakeClosed, TypeOK
<1>3. CASE PCallback
  BY <1>3, PMoves DEF PCallback, TypeOK
<1>4. CASE PEnd
  BY <1>4, PMoves DEF PEnd
<1>5. CASE PTake
  <2> USE <1>5 DEF PTake, PGoto, exceptP, userState
  <2>1. /\ chReceived \in Seq(Datagrams) /\ chReceived # <<>> /\ chReceived' = Tail(chReceived)
        /\ handled \in Seq(Datagrams) /\ handled' = Append(handled, Head(chReceived))
    BY DEF TypeOK
  <2>2. /\ chReceived' \in Seq(Datagrams) /\ Len(chReceived') = Len(chReceived) - 1
        /\ ToSet(chReceived) = {Head(chReceived)} \cup ToSet(chReceived')
        /\ IsInjective(chReceived) =>
             IsInjective(chReceived') /\ Head(chReceived) \notin ToSet(chReceived')
        /\ Head(chReceived) \in Datagrams
    BY <2>1, Taken
  <2>3. /\ handled' \in Seq(Datagrams)
        /\ ToSet(handled') = ToSet(handled) \cup {Head(chReceived)}
        /\ IsInjective(handled) /\ Head(chReceived) \notin ToSet(handled) =>
             IsInjective(handled')
    BY <2>1, <2>2, Appended
  <2>4. TypeOK'
    BY <2>2, <2>3 DEF TypeOK
  <2>5. WaitCount' /\ Quiet' /\ ByFormat'
    BY DEF WaitCount, Quiet, ByFormat, One
  <2>6. Placed'
    BY <2>2, <2>3 DEF Placed, Apart, InR
  <2>7. InLine'
    <3>1. /\ DOMAIN chReceived = 1..Len(chReceived) /\ Len(chReceived) \in Nat \ {0}
          /\ Head(chReceived) = chReceived[1]
          /\ \A i \in DOMAIN chReceived' :
               i + 1 \in DOMAIN chReceived /\ chReceived'[i] = chReceived[i + 1] /\ i \in Nat \ {0}
      BY <2>1
    <3>2. /\ DOMAIN handled = 1..Len(handled) /\ Len(handled) \in Nat
          /\ DOMAIN handled' = 1..(Len(handled) + 1)
          /\ handled'[Len(handled) + 1] = Head(chReceived)
          /\ \A i \in 1..Len(handled) : handled'[i] = handled[i]
      BY <2>1, <2>2
    <3>3. ASSUME packetFmt = "unixmsg"
          PROVE  /\ Increasing(chReceived')
                 /\ \A j \in DOMAIN chReceived' : chReceived[1] < chReceived'[j]
      BY <3>1, <3>3 DEF InLine, Increasing
    <3>4. ASSUME packetFmt = "unixmsg" PROVE Increasing(handled')
      BY <3>1, <3>2, <3>4 DEF InLine, Increasing
    <3>5. ASSUME packetFmt = "unixmsg", NEW i \in DOMAIN handled', NEW j \in DOMAIN chReceived'
          PROVE  handled'[i] < chReceived'[j]
      BY <3>1, <3>2, <3>3, <3>5 DEF InLine
    <3> QED BY <3>3, <3>4, <3>5 DEF InLine
  <2> QED BY <2>4, <2>5, <2>6, <2>7
<1> QED BY <1>1, <1>2, <1>3, <1>4, <1>5 DEF PNext

\* A delivery goroutine keeps the invariant, and so does its panic.
LEMMA DeliveryStep ==
    ASSUME IInv, NEW d \in Datagrams, Delivery(d)
    PROVE  IInv'
<1> USE UnixAssumption DEF IInv, userState
<1>1. CASE Deliver(d)
  <2> USE <1>1 DEF Deliver, exceptR
  <2>1. chReceived \in Seq(Datagrams) /\ chReceived' = Append(chReceived, d)
    BY DEF TypeOK
  <2>2. /\ chReceived' \in Seq(Datagrams) /\ Len(chReceived') = Len(chReceived) + 1
        /\ ToSet(chReceived') = ToSet(chReceived) \cup {d}
        /\ IsInjective(chReceived) /\ d \notin ToSet(chReceived) => IsInjective(chReceived')
    BY <2>1, Appended
  <2>3. TypeOK'
    BY <2>2 DEF TypeOK
  <2>4. WaitCount' /\ Quiet' /\ ByFormat'
    BY DEF WaitCount, Quiet, ByFormat
  <2>5. Placed'
    BY <2>2 DEF Placed, Apart, InR
  <2>6. InLine'
    BY DEF InLine, ByFormat
  <2> QED BY <2>3, <2>4, <2>5, <2>6
<1>2. CASE DeliverPanics(d)
  <2> USE <1>2 DEF DeliverPanics, readState
  <2>1. TypeOK'
    BY DEF TypeOK
  <2>2. WaitCount' /\ Quiet' /\ ByFormat'
    BY DEF WaitCount, Quiet, ByFormat
  <2>3. Placed' /\ InLine'
    BY StillPlaced
  <2> QED BY <2>1, <2>2, <2>3
<1> QED BY <1>1, <1>2 DEF Delivery

\* A step of Close keeps the invariant: a Wait that returns has counted to 0, so R and P are
\* done, unless one of them has yet to start.
LEMMA CloseStep ==
    ASSUME IInv, NEW k \in Closers, CloseExit(k) \/ Closing(k)
    PROVE  IInv'
<1> USE UnixAssumption DEF IInv, CloseGoto, exceptClose, readState
<1> USE DEF Closing, CloseExit, CloseConn, CloseWaited, CloseUnlink
<1>1. TypeOK'
  <2>1. closing' \in [Closers -> {"idle", "exit", "wait", "waited", "done"}]
    BY DEF TypeOK
  <2>2. early' \subseteq Closers
    BY DEF TypeOK
  <2>3. exit' \in BOOLEAN /\ file' \in BOOLEAN
    BY DEF TypeOK
  <2>4. sock' \in {"open", "closed"}
    BY DEF TypeOK
  <2> QED BY <2>1, <2>2, <2>3, <2>4 DEF TypeOK
<1>2. WaitCount' /\ ByFormat'
  BY DEF WaitCount, ByFormat
<1>3. Placed' /\ InLine'
  BY StillPlaced
<1>4. CASE CloseWaited(k)
  <2>1. pcR \in {"new", "done"} /\ pcP \in {"new", "done"}
    BY <1>4 DEF WaitCount, One
  <2> QED BY <1>1, <1>2, <1>3, <1>4, <2>1 DEF Quiet, TypeOK
<1>5. CASE CloseExit(k) \/ CloseConn(k) \/ CloseUnlink(k)
  <2>1. Quiet'
    BY <1>5 DEF Quiet, TypeOK
  <2> QED BY <1>1, <1>2, <1>3, <2>1
<1> QED BY <1>4, <1>5

\* A step of SendPacket keeps the invariant.
LEMMA SendStep ==
    ASSUME IInv, NEW s \in Senders,
           SendRefused(s) \/ SendPackaged(s) \/ SendUnpackaged(s) \/ SendNoFormat(s) \/ Sending(s)
    PROVE  IInv'
<1> USE UnixAssumption DEF IInv, SendGoto, exceptSend, readState
<1> USE DEF SendRefused, SendPackaged, SendUnpackaged, SendNoFormat, Sending, SendWrite, SendWriteFail
<1>1. TypeOK'
  BY DEF TypeOK
<1>2. WaitCount' /\ Quiet' /\ ByFormat'
  BY DEF WaitCount, Quiet, ByFormat
<1>3. Placed' /\ InLine'
  BY StillPlaced
<1> QED BY <1>1, <1>2, <1>3

-----------------------------------------------------------------------------
(* The theorems *)

\* The invariant holds throughout: no step of R, of P, of a delivery goroutine or of a user
\* breaks it (unix/controller.go 67-79, 108-325).
THEOREM Invariance == Spec => []IInv
<1>1. IInv /\ [Next]_vars => IInv'
  <2> SUFFICES ASSUME IInv, [Next]_vars PROVE IInv'
    OBVIOUS
  <2>1. CASE Next
    BY <2>1, RStep, PStep, DeliveryStep, CloseStep, SendStep DEF Next
  <2>2. CASE UNCHANGED vars
    <3> USE <2>2 DEF vars, readState, userState, IInv
    <3>1. TypeOK'
      BY DEF TypeOK
    <3>2. WaitCount' /\ Quiet' /\ ByFormat'
      BY DEF WaitCount, Quiet, ByFormat
    <3>3. Placed' /\ InLine'
      BY StillPlaced
    <3> QED BY <3>1, <3>2, <3>3
  <2> QED BY <2>1, <2>2
<1> QED BY InitIInv, <1>1, PTL DEF Spec

\* Every variable keeps its type, the WaitGroup's counter, which Go panics below 0, included.
THEOREM TypeCorrect == Spec => []TypeOK
BY Invariance, PTL DEF IInv

\* No datagram is lost or handled twice, whoever closes what when (unix/controller.go 224-226,
\* 255, 287, 304; base/queue.go 11-18).
THEOREM EachPlacedOnce == Spec => []OncePlaced
<1>1. IInv => OncePlaced
  <2> SUFFICES ASSUME IInv PROVE OncePlaced
    OBVIOUS
  <2> DEFINE placed == <<delivering, InR, ToSet(chReceived), ToSet(handled), dropped>>
  <2>1. DOMAIN placed = 1..5
    OBVIOUS
  <2>2. ToSet(placed) = {delivering, InR, ToSet(chReceived), ToSet(handled), dropped}
    BY <2>1 DEF ToSet
  <2>3. UNION ToSet(placed) = 1..reads
    BY <2>2 DEF IInv, Placed
  <2>4. \A i, j \in DOMAIN placed : i < j => placed[i] \cap placed[j] = {}
    BY <2>1 DEF IInv, Placed, Apart
  <2>5. IsInjective(handled) /\ IsInjective(chReceived)
    BY DEF IInv, Placed
  <2> HIDE DEF placed
  <2>6. OncePlaced <=>
          /\ UNION ToSet(placed) = 1..reads
          /\ \A i, j \in DOMAIN placed : i < j => placed[i] \cap placed[j] = {}
          /\ IsInjective(handled) /\ IsInjective(chReceived)
    BY DEF OncePlaced, placed, InR
  <2> QED BY <2>3, <2>4, <2>5, <2>6
<1> QED BY Invariance, <1>1, PTL

\* Descriptor messages are handled in the order of their arrival and never end the process
\* (unix/controller.go 255).
THEOREM InArrivalOrder == Spec => []MessagesInOrder
<1>1. IInv => MessagesInOrder
  BY DEF IInv, InLine, Increasing, ByFormat, MessagesInOrder
<1> QED BY Invariance, <1>1, PTL

\* After a Close that was not early no callback runs, whatever else is going on
\* (unix/controller.go 76-78).
THEOREM QuietAfterClose == Spec => []ClosedIsQuiet
<1>1. IInv => ClosedIsQuiet
  BY DEF IInv, Quiet, ClosedIsQuiet
<1> QED BY Invariance, <1>1, PTL

=============================================================================
