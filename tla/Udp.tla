-------------------------------- MODULE Udp --------------------------------
(***************************************************************************)
(* One UDP controller: udp/controller.go and udp/udp.go.                   *)
(*                                                                         *)
(* CreateController starts three goroutines:                               *)
(*   R  processRead   reads datagrams, files fragments, closes chReceived; *)
(*   W  processWrite  offers a permit on chSend until exit, closes chSend; *)
(*   P  process       runs the packet callback; closes when it stops.      *)
(* SendPacket starts a goroutine that takes one permit and sends the       *)
(* fragments of its packet. Close, called by users and by P, raises exit,  *)
(* tries from a goroutine of its own to take the permit W may be blocked   *)
(* on, closes the socket and waits for R, W and P.                         *)
(*                                                                         *)
(* Close up to its Wait is one step: each of its three effects is read by  *)
(* a different goroutine, and the attempt to take a permit is a step of    *)
(* its own.                                                                *)
(*                                                                         *)
(* Bounds: packets of the lengths Lens, fragments of FragmentSize bytes,   *)
(* counts and indices modulo Word (2^16 in the code), peers that send      *)
(* fragments with the totals Totals, QCap packets in chReceived (32).      *)
(***************************************************************************)
EXTENDS Naturals, Sequences, FiniteSetsExt

CONSTANTS
    Senders,        \* goroutines of SendPacket
    Closers,        \* goroutines that call Close
    Peers,          \* remote addresses
    Totals,         \* Count fields the peers send
    Lens,           \* lengths of packaged packets
    FragmentSize,
    Word,
    QCap

Proc == "process"               \* P as a caller of Close
Callers == Closers \cup {Proc}

\* "framed": bytes without a complete packet yield none (clove, http, ws); "text": whatever
\* is there is one text packet; "none": no format has the controller's tag.
Formats == {"framed", "text", "none"}

ASSUME UdpAssumption ==
    /\ Proc \notin Closers
    /\ Totals \subseteq Nat /\ Lens \subseteq Nat
    /\ FragmentSize \in Nat \ {0} /\ Word \in Nat \ {0} /\ QCap \in Nat \ {0}

Indices == UNION {0..(n - 1) : n \in Totals}

VARIABLES
    packetFmt,      \* what c.packetFmt makes of bytes; set once, when the controller is created
    exit,           \* c.exit
    sock,           \* the socket: "open" or "closed"
    pcR, pcW, pcP,
    item,           \* what R is about to push
    waitg,          \* the WaitGroup's counter
    chReceived,     \* queue of what R pushed
    closed,         \* the channels that have been closed
    closing,        \* where each caller of Close is
    drains,         \* goroutines of Close that have not yet looked at chSend
    fragments,      \* fragments of each peer's pipeline, as pairs <<index, total>>
    count,          \* FragmentPipeline.count of each peer
    send,           \* where each sender is: pc, bytes left, index, total
    wire            \* the fragments each sender has put on the wire (history)

vars == <<packetFmt, exit, sock, pcR, pcW, pcP, item, waitg, chReceived, closed, closing,
          drains, fragments, count, send, wire>>

pipelines == <<fragments, count>>
sending == <<send, wire>>
exceptR == <<packetFmt, exit, sock, pcW, pcP, closing, drains, sending>>
exceptW == <<packetFmt, exit, sock, pcR, pcP, item, chReceived, closing, drains, pipelines,
             sending>>
exceptP == <<packetFmt, sock, pcR, pcW, item, closed, closing, drains, pipelines, sending>>
exceptS == <<packetFmt, exit, sock, pcR, pcP, item, waitg, chReceived, closed, closing, drains,
             pipelines>>

Items == {"packet", "nil"}
Sends == [pc : {"new", "permit", "read", "write", "sent", "failed"},
          len : Lens \cup {0}, rest : Nat, idx : 0..(Word - 1), total : 0..(Word - 1)]
Datagrams == [idx : 0..(Word - 1), total : 0..(Word - 1), n : 1..FragmentSize]

TypeOK ==
    /\ packetFmt \in Formats
    /\ exit \in BOOLEAN
    /\ sock \in {"open", "closed"}
    /\ pcR \in {"new", "read", "push", "drain", "close", "leaving", "done"}
    /\ pcW \in {"new", "check", "offer", "parked", "close", "leaving", "done"}
    /\ pcP \in {"new", "loop", "callback", "ending", "done"}
    /\ item \in Items
    /\ waitg \in Nat
    /\ chReceived \in Seq(Items) /\ Len(chReceived) <= QCap
    /\ closed \subseteq {"chReceived", "chSend"}
    /\ closing \in [Callers -> {"idle", "wait", "done"}]
    /\ drains \in Nat
    /\ fragments \in [Peers -> SUBSET (Indices \X Totals)]
    /\ count \in [Peers -> Totals \cup {0}]
    /\ send \in [Senders -> Sends]
    /\ wire \in [Senders -> Seq(Datagrams)]

Init ==
    /\ packetFmt \in Formats
    /\ exit = FALSE
    /\ sock = "open"
    /\ pcR = "new" /\ pcW = "new" /\ pcP = "new"
    /\ item = "packet"
    /\ waitg = 0
    /\ chReceived = <<>>
    /\ closed = {}
    /\ closing = [k \in Callers |-> "idle"]
    /\ drains = 0
    /\ fragments = [p \in Peers |-> {}]
    /\ count = [p \in Peers |-> 0]
    /\ send = [s \in Senders |-> [pc |-> "new", len |-> 0, rest |-> 0, idx |-> 0, total |-> 0]]
    /\ wire = [s \in Senders |-> <<>>]

-----------------------------------------------------------------------------
(* R: processRead *)

RGoto(from, to) == pcR = from /\ pcR' = to /\ UNCHANGED exceptR

RStart ==
    /\ RGoto("new", "read")
    /\ waitg' = waitg + 1
    /\ UNCHANGED <<item, chReceived, closed, pipelines>>

\* A datagram that is not a well-formed fragment is a packet.
RReadPacket ==
    /\ sock = "open"
    /\ RGoto("read", "push")
    /\ item' = "packet"
    /\ UNCHANGED <<waitg, chReceived, closed, pipelines>>

\* AddFragment: what peer p's pipeline holds after fragment i of n.
Added(p, i, n) ==
    IF (\E m \in Totals : <<i, m>> \in fragments[p]) \/ (count[p] > 0 /\ count[p] # n)
    THEN {<<i, n>>}
    ELSE fragments[p] \cup {<<i, n>>}

\* The total a pipeline knows is set only where it is replaced, and it starts at 0.
NewCount(p, n) == IF count[p] > 0 THEN n ELSE 0

\* Combine: fewer fragments than count, or an index missing, or no format; otherwise what the
\* format's parser makes of the joined bytes, of which there are none while count is 0.
Combined(frags, cnt) ==
    IF Cardinality(frags) < cnt THEN "notEnough"
    ELSE IF packetFmt = "none" \/ \E i \in 0..(cnt - 1) : \A n \in Totals : <<i, n>> \notin frags
    THEN "error"
    ELSE IF cnt > 0 THEN "packet"
    ELSE IF packetFmt = "text" THEN "nil" ELSE "nothing"

\* A fragment is filed and the pipeline combined. An error forgets the pipeline and ends R; a
\* packet that is not binary has become nil (udp.go:88-95).
RReadFragment(p, i, n) ==
    LET result == Combined(Added(p, i, n), NewCount(p, n))
    IN  /\ sock = "open"
        /\ RGoto("read", CASE result = "error" -> "drain"
                           [] result \in Items -> "push"
                           [] OTHER -> "read")
        /\ item' = IF result \in Items THEN result ELSE item
        /\ fragments' = [fragments EXCEPT ![p] = IF result = "error" THEN {} ELSE Added(p, i, n)]
        /\ count' = [count EXCEPT ![p] = IF result = "error" THEN 0 ELSE NewCount(p, n)]
        /\ UNCHANGED <<waitg, chReceived, closed>>

RPush ==
    /\ RGoto("push", "read")
    /\ Len(chReceived) < QCap
    /\ chReceived' = Append(chReceived, item)
    /\ UNCHANGED <<item, waitg, closed, pipelines>>

\* The read fails: the socket is closed, or the system reports an error.
RReadFail ==
    /\ RGoto("read", "drain")
    /\ UNCHANGED <<item, waitg, chReceived, closed, pipelines>>

\* ChannelQueue.Close: receive until the queue is found empty, then close it.
RDrain ==
    /\ RGoto("drain", IF chReceived = <<>> THEN "close" ELSE "drain")
    /\ chReceived' = IF chReceived = <<>> THEN <<>> ELSE Tail(chReceived)
    /\ UNCHANGED <<item, waitg, closed, pipelines>>

\* Mutant: the queue is left open.
RCloseNot ==
    /\ RGoto("close", "leaving")
    /\ UNCHANGED <<item, waitg, chReceived, closed, pipelines>>

RClose ==
    /\ RGoto("close", "leaving")
    /\ closed' = closed \cup {"chReceived"}
    /\ UNCHANGED <<item, waitg, chReceived, pipelines>>

RDone ==
    /\ RGoto("leaving", "done")
    /\ waitg' = waitg - 1
    /\ UNCHANGED <<item, chReceived, closed, pipelines>>

-----------------------------------------------------------------------------
(* W: processWrite *)

WGoto(from, to) == pcW = from /\ pcW' = to /\ UNCHANGED exceptW

\* Mutant: waitg.Add is forgotten.
WStartNoAdd ==
    /\ WGoto("new", "check")
    /\ UNCHANGED <<waitg, closed>>

WStart ==
    /\ WGoto("new", "check")
    /\ waitg' = waitg + 1
    /\ UNCHANGED closed

WCheck ==
    /\ WGoto("check", IF exit THEN "close" ELSE "offer")
    /\ UNCHANGED <<waitg, closed>>

\* W reaches its send on chSend; a receive that does not wait finds it only from here on.
WPark ==
    /\ WGoto("offer", "parked")
    /\ UNCHANGED <<waitg, closed>>

\* Mutant: chSend is left open.
WCloseNot ==
    /\ WGoto("close", "leaving")
    /\ UNCHANGED <<waitg, closed>>

WClose ==
    /\ WGoto("close", "leaving")
    /\ closed' = closed \cup {"chSend"}
    /\ UNCHANGED waitg

WDone ==
    /\ WGoto("leaving", "done")
    /\ waitg' = waitg - 1
    /\ UNCHANGED closed

-----------------------------------------------------------------------------
(* P: process *)

PGoto(from, to) == pcP = from /\ pcP' = to /\ UNCHANGED exceptP

PStart ==
    /\ PGoto("new", "loop")
    /\ waitg' = waitg + 1
    /\ UNCHANGED <<exit, chReceived>>

\* A packet goes to the callback; a nil one ends the loop.
PTake ==
    /\ chReceived # <<>>
    /\ PGoto("loop", IF Head(chReceived) = "nil" THEN "ending" ELSE "callback")
    /\ chReceived' = Tail(chReceived)
    /\ UNCHANGED <<exit, waitg>>

PTakeClosed ==
    /\ chReceived = <<>> /\ "chReceived" \in closed
    /\ PGoto("loop", "ending")
    /\ UNCHANGED <<exit, waitg, chReceived>>

\* The callback succeeds, or fails, which ends the loop.
PCallback ==
    /\ PGoto("callback", "loop") \/ PGoto("callback", "ending")
    /\ UNCHANGED <<exit, waitg, chReceived>>

\* The deferred calls: exit, waitg.Done; Close follows.
PEnd ==
    /\ PGoto("ending", "done")
    /\ exit' = TRUE
    /\ waitg' = waitg - 1
    /\ UNCHANGED chReceived

-----------------------------------------------------------------------------
(* Close *)

MayClose(k) == closing[k] = "idle" /\ (k = Proc => pcP = "done")

closeRest == <<packetFmt, pcR, pcP, item, waitg, chReceived, closed, pipelines, sending>>

\* Mutant: the socket stays open.
CloseNoSocket(k) ==
    /\ MayClose(k)
    /\ exit' = TRUE
    /\ drains' = drains + 1
    /\ closing' = [closing EXCEPT ![k] = "wait"]
    /\ UNCHANGED <<sock, pcW, closeRest>>

Close(k) ==
    /\ MayClose(k)
    /\ exit' = TRUE
    /\ drains' = drains + 1
    /\ sock' = "closed"
    /\ closing' = [closing EXCEPT ![k] = "wait"]
    /\ UNCHANGED <<pcW, closeRest>>

\* The goroutine of Close takes the permit if W is blocked on it now, and otherwise nothing.
Drain ==
    /\ drains > 0
    /\ drains' = drains - 1
    /\ pcW' = IF pcW = "parked" THEN "check" ELSE pcW
    /\ UNCHANGED <<exit, sock, closing, closeRest>>

CloseReturns(k) ==
    /\ closing[k] = "wait" /\ waitg = 0
    /\ closing' = [closing EXCEPT ![k] = "done"]
    /\ UNCHANGED <<exit, sock, drains, pcW, closeRest>>

-----------------------------------------------------------------------------
(* SendPacket and sendTo *)

\* Mutant: one more fragment is announced even when the last one is full.
TotalOneMore(len) == (len \div FragmentSize + 1) % Word

\* The number of fragments, in a uint16.
Total(len) == (len \div FragmentSize + (IF len % FragmentSize > 0 THEN 1 ELSE 0)) % Word

\* The packet is packaged, and its goroutine asks for a permit, or it cannot be.
SendPacket(s) ==
    /\ send[s].pc = "new"
    /\ \/ \E n \in Lens : send' = [send EXCEPT ![s].pc = "permit", ![s].len = n]
       \/ send' = [send EXCEPT ![s].pc = "failed"]
    /\ UNCHANGED <<pcW, wire, exceptS>>

\* W's permit; sendTo resolves the address and counts the fragments.
SendAllowed(s) ==
    /\ send[s].pc = "permit" /\ pcW = "parked"
    /\ pcW' = "check"
    /\ \/ LET len == send[s].len
          IN  send' = [send EXCEPT ![s].pc = IF len > 0 THEN "read" ELSE "sent",
                                   ![s].rest = len, ![s].total = Total(len)]
       \/ send' = [send EXCEPT ![s].pc = "failed"]
    /\ UNCHANGED <<wire, exceptS>>

SendDenied(s) ==
    /\ send[s].pc = "permit" /\ "chSend" \in closed
    /\ send' = [send EXCEPT ![s].pc = "failed"]
    /\ UNCHANGED <<pcW, wire, exceptS>>

\* The next bytes are taken, and must belong to a fragment that was announced.
SendRead(s) ==
    /\ send[s].pc = "read"
    /\ send' = [send EXCEPT ![s].pc = IF send[s].idx >= send[s].total THEN "failed" ELSE "write"]
    /\ UNCHANGED <<pcW, wire, exceptS>>

SendWrite(s) ==
    LET n == Min({FragmentSize, send[s].rest})
        more == send[s].rest > n
    IN  /\ send[s].pc = "write" /\ sock = "open"
        /\ wire' = [wire EXCEPT ![s] =
                      Append(@, [idx |-> send[s].idx, total |-> send[s].total, n |-> n])]
        /\ send' = [send EXCEPT ![s].pc = IF more THEN "read" ELSE "sent",
                                ![s].rest = @ - n, ![s].idx = (@ + 1) % Word]
        /\ UNCHANGED <<pcW, exceptS>>

\* The socket is closed, or the write fails or times out.
SendWriteFail(s) ==
    /\ send[s].pc = "write"
    /\ send' = [send EXCEPT ![s].pc = "failed"]
    /\ UNCHANGED <<pcW, wire, exceptS>>

-----------------------------------------------------------------------------

RNext ==
    \/ RStart \/ RReadPacket \/ RPush \/ RReadFail \/ RDrain \/ RClose \/ RDone
    \/ \E p \in Peers, i \in Indices, n \in Totals : RReadFragment(p, i, n)

WNext == WStart \/ WCheck \/ WPark \/ WClose \/ WDone

PNext == PStart \/ PTake \/ PTakeClosed \/ PCallback \/ PEnd

Sending(s) == SendAllowed(s) \/ SendDenied(s) \/ SendRead(s) \/ SendWrite(s) \/ SendWriteFail(s)

Next ==
    \/ RNext \/ WNext \/ PNext \/ Drain
    \/ \E k \in Callers : Close(k) \/ CloseReturns(k)
    \/ \E s \in Senders : SendPacket(s) \/ Sending(s)

Spec == Init /\ [][Next]_vars

\* Every goroutine that can run does; a sender that waits for a permit is not passed over for
\* ever. Datagrams and the calls of the user are not forced; a read of a closed socket fails.
Fairness ==
    /\ WF_vars(RNext /\ pcR # "read") /\ WF_vars(sock = "closed" /\ RReadFail)
    /\ WF_vars(WNext) /\ WF_vars(PNext) /\ WF_vars(Drain) /\ WF_vars(Close(Proc))
    /\ \A k \in Callers : WF_vars(CloseReturns(k))
    /\ \A s \in Senders : WF_vars(Sending(s)) /\ SF_vars(SendAllowed(s))

FairSpec == Spec /\ Fairness

-----------------------------------------------------------------------------
(* Properties *)

\* A sendTo that reports no error has cut all its bytes into fragments that are full but for
\* the last, numbered from 0, and that all announce how many they are: at every length, at
\* multiples of the fragment size and where the number of fragments no longer fits its uint16
\* (lines 196-209).
SentWhole ==
    \A s \in Senders : send[s].pc = "sent" =>
        LET sent == Len(wire[s])
            bytes == send[s].len
        IN  /\ sent * FragmentSize >= bytes
            /\ \A k \in 1..sent : wire[s][k] =
                 [idx |-> k - 1, total |-> sent,
                  n |-> IF k < sent THEN FragmentSize ELSE bytes - (k - 1) * FragmentSize]

\* udp.go:52: when totals do not match, the container is initialised anew.
OneTotal == \A p \in Peers : \A f, g \in fragments[p] : f[2] = g[2]

\* W is blocked on a permit after exit, and no goroutine of Close is left to take it.
WriterStuck == exit /\ pcW = "parked" /\ drains = 0

\* R is blocked on a full queue whose consumer has stopped.
ReaderStuck == pcR = "push" /\ Len(chReceived) = QCap /\ pcP \in {"ending", "done"}

\* Close returns (line 95), unless its only attempt to take the permit came before W was
\* blocked on it (line 83), or R is blocked behind a P that has stopped (line 282).
CloseEnds ==
    \A k \in Callers :
        closing[k] = "wait" ~> closing[k] = "done" \/ WriterStuck \/ ReaderStuck

\* A SendPacket waiting for a permit gets one, or learns that there is none to come.
SendersEnd == \A s \in Senders : send[s].pc = "permit" ~> send[s].pc \in {"sent", "failed"}

\* Once the socket is closed, P stops: R drains and closes the queue under it.
ProcessorEnds == sock = "closed" ~> pcP = "done"

=============================================================================
