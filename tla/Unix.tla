-------------------------------- MODULE Unix --------------------------------
(***************************************************************************)
(* One Unix-datagram controller: unix/controller.go.                       *)
(*                                                                         *)
(* CreateController binds the socket and starts two goroutines:            *)
(*   R  processRead  reads datagrams or descriptor messages, then closes   *)
(*                   chReceived;                                           *)
(*   P  process      runs the packet callback until the queue is closed or *)
(*                   a callback fails.                                     *)
(* A datagram is pushed by a goroutine of its own, without recover; a      *)
(* descriptor message by R itself. Close raises exit, closes the socket,   *)
(* waits for R and P and removes the socket's file. Unlike its UDP         *)
(* counterpart P does not call Close when it stops.                        *)
(*                                                                         *)
(* Bounds: MaxReads datagrams are read, QCap packets fit chReceived (32).  *)
(***************************************************************************)
EXTENDS Naturals, Sequences, FiniteSets, SequencesExt

CONSTANTS
    Senders,        \* goroutines that call SendPacket
    Closers,        \* goroutines that call Close
    MaxReads,
    QCap

ASSUME UnixAssumption == MaxReads \in Nat /\ QCap \in Nat \ {0}

\* The type of the format whose tag the creator gave: clove, fd, one that is neither, or no
\* format at all.
Formats == {"binary", "unixmsg", "other", "none"}

VARIABLES
    packetFmt,      \* c.packetFmt; set once, when the controller is created
    exit,           \* c.exit
    sock,           \* the socket: "open" or "closed"
    file,           \* whether the socket's file exists
    pcR, pcP,
    waitg,          \* the WaitGroup's counter
    reads,          \* datagrams R has read, numbered from 1
    delivering,     \* datagrams whose goroutine has yet to push them
    chReceived,     \* the queue
    closed,         \* whether chReceived has been closed
    crashed,        \* a panic nothing recovers has ended the process
    handled,        \* datagrams given to the callback, in order (history)
    dropped,        \* datagrams ChannelQueue.Close has drained (history)
    closing,        \* where each caller of Close is
    early,          \* calls of Close that found R or P not yet counted (history)
    send            \* where each call of SendPacket is, and what it has answered

readState == <<reads, delivering, chReceived, closed, dropped>>
userState == <<file, closing, early, send>>
vars == <<packetFmt, exit, sock, pcR, pcP, waitg, crashed, handled, readState, userState>>

exceptR == <<packetFmt, exit, sock, pcP, crashed, handled, userState>>
exceptP == <<packetFmt, sock, pcR, crashed, reads, delivering, closed, dropped, userState>>
exceptClose == <<packetFmt, pcR, pcP, waitg, crashed, handled, readState, send>>
exceptSend == <<packetFmt, exit, sock, pcR, pcP, waitg, crashed, handled, readState, file,
                closing, early>>

Datagrams == 1..MaxReads

TypeOK ==
    /\ packetFmt \in Formats
    /\ exit \in BOOLEAN /\ closed \in BOOLEAN /\ crashed \in BOOLEAN /\ file \in BOOLEAN
    /\ sock \in {"open", "closed"}
    /\ pcR \in {"new", "read", "push", "drain", "close", "leaving", "done"}
    /\ pcP \in {"new", "loop", "callback", "ending", "done"}
    /\ waitg \in Nat
    /\ reads \in 0..MaxReads
    /\ delivering \subseteq Datagrams /\ dropped \subseteq Datagrams
    /\ chReceived \in Seq(Datagrams) /\ Len(chReceived) <= QCap
    /\ handled \in Seq(Datagrams)
    /\ closing \in [Closers -> {"idle", "exit", "wait", "waited", "done"}]
    /\ early \subseteq Closers
    /\ send \in [Senders -> {"new", "write", "true", "false"}]

Init ==
    /\ packetFmt \in Formats
    /\ exit = FALSE /\ closed = FALSE /\ crashed = FALSE
    /\ sock = "open" /\ file = TRUE
    /\ pcR = "new" /\ pcP = "new"
    /\ waitg = 0
    /\ reads = 0
    /\ delivering = {} /\ dropped = {}
    /\ chReceived = <<>> /\ handled = <<>>
    /\ closing = [k \in Closers |-> "idle"] /\ early = {}
    /\ send = [s \in Senders |-> "new"]

-----------------------------------------------------------------------------
(* R: processRead *)

RGoto(from, to) == pcR = from /\ pcR' = to /\ UNCHANGED exceptR

RStart ==
    /\ RGoto("new", "read")
    /\ waitg' = waitg + 1
    /\ UNCHANGED readState

\* No format: the dereference panics, and the deferred call that recovers also skips the close
\* of the queue.
RNoFormat ==
    /\ packetFmt = "none"
    /\ RGoto("read", "leaving")
    /\ UNCHANGED <<waitg, readState>>

\* A format that unixgram does not support.
RUnsupported ==
    /\ packetFmt = "other"
    /\ RGoto("read", "drain")
    /\ UNCHANGED <<waitg, readState>>

\* read: a packet, for which a delivery goroutine is started.
RReadDatagram ==
    /\ packetFmt = "binary" /\ sock = "open" /\ reads < MaxReads
    /\ RGoto("read", "read")
    /\ reads' = reads + 1
    /\ delivering' = delivering \cup {reads'}
    /\ UNCHANGED <<waitg, chReceived, closed, dropped>>

\* Mutant: a descriptor message gets a delivery goroutine too.
RReadMsgAsync ==
    /\ packetFmt = "unixmsg" /\ sock = "open" /\ reads < MaxReads
    /\ RGoto("read", "read")
    /\ reads' = reads + 1
    /\ delivering' = delivering \cup {reads'}
    /\ UNCHANGED <<waitg, chReceived, closed, dropped>>

\* readMsg: a descriptor message, which R will push.
RReadMsg ==
    /\ packetFmt = "unixmsg" /\ sock = "open" /\ reads < MaxReads
    /\ RGoto("read", "push")
    /\ reads' = reads + 1
    /\ UNCHANGED <<waitg, delivering, chReceived, closed, dropped>>

RPush ==
    /\ RGoto("push", "read")
    /\ Len(chReceived) < QCap
    /\ chReceived' = Append(chReceived, reads)
    /\ UNCHANGED <<waitg, reads, delivering, closed, dropped>>

\* Mutant: after a failed read R leaves without closing the queue.
RReadFailLeave ==
    /\ packetFmt \in {"binary", "unixmsg"}
    /\ RGoto("read", "leaving")
    /\ UNCHANGED <<waitg, readState>>

\* The read fails (the socket is closed, or the system reports an error), or the bytes of the
\* datagram are no packet: both end R.
RReadFail ==
    /\ packetFmt \in {"binary", "unixmsg"}
    /\ RGoto("read", "drain")
    /\ UNCHANGED <<waitg, readState>>

\* ChannelQueue.Close: receive until the queue is found empty, then close it.
RDrain ==
    /\ RGoto("drain", IF chReceived = <<>> THEN "close" ELSE "drain")
    /\ chReceived' = IF chReceived = <<>> THEN <<>> ELSE Tail(chReceived)
    /\ dropped' = dropped \cup (ToSet(chReceived) \ ToSet(chReceived'))
    /\ UNCHANGED <<waitg, reads, delivering, closed>>

\* Mutant: the queue is drained and left open.
RCloseNot ==
    /\ RGoto("close", "leaving")
    /\ UNCHANGED <<waitg, readState>>

RClose ==
    /\ RGoto("close", "leaving")
    /\ closed' = TRUE
    /\ UNCHANGED <<waitg, reads, delivering, chReceived, dropped>>

RDone ==
    /\ RGoto("leaving", "done")
    /\ waitg' = waitg - 1
    /\ UNCHANGED readState

\* The delivery goroutine of datagram d.
Deliver(d) ==
    /\ d \in delivering
    /\ ~closed /\ Len(chReceived) < QCap
    /\ chReceived' = Append(chReceived, d)
    /\ delivering' = delivering \ {d}
    /\ UNCHANGED <<pcR, waitg, reads, closed, dropped, exceptR>>

\* A send on the closed queue: nothing recovers.
DeliverPanics(d) ==
    /\ d \in delivering /\ closed
    /\ crashed' = TRUE
    /\ UNCHANGED <<packetFmt, exit, sock, pcR, pcP, waitg, handled, readState, userState>>

-----------------------------------------------------------------------------
(* P: process *)

PGoto(from, to) == pcP = from /\ pcP' = to /\ UNCHANGED exceptP

\* Mutant: waitg.Add is forgotten, and Done with it.
PStartNoAdd ==
    /\ PGoto("new", "loop")
    /\ UNCHANGED <<exit, waitg, chReceived, handled>>

PStart ==
    /\ PGoto("new", "loop")
    /\ waitg' = waitg + 1
    /\ UNCHANGED <<exit, chReceived, handled>>

\* Mutant: the packet is looked at before it is taken.
PPeek ==
    /\ chReceived # <<>>
    /\ PGoto("loop", "callback")
    /\ handled' = Append(handled, Head(chReceived))
    /\ UNCHANGED <<exit, waitg, chReceived>>

PTake ==
    /\ chReceived # <<>>
    /\ PGoto("loop", "callback")
    /\ handled' = Append(handled, Head(chReceived))
    /\ chReceived' = Tail(chReceived)
    /\ UNCHANGED <<exit, waitg>>

PTakeClosed ==
    /\ chReceived = <<>> /\ closed
    /\ PGoto("loop", "ending")
    /\ UNCHANGED <<exit, waitg, chReceived, handled>>

\* The callback succeeds, or fails, which ends the loop.
PCallback ==
    /\ PGoto("callback", "loop") \/ PGoto("callback", "ending")
    /\ UNCHANGED <<exit, waitg, chReceived, handled>>

\* The deferred calls. The socket stays open.
PEnd ==
    /\ PGoto("ending", "done")
    /\ exit' = TRUE
    /\ waitg' = waitg - 1
    /\ UNCHANGED <<chReceived, handled>>

-----------------------------------------------------------------------------
(* Close *)

CloseGoto(k, from, to) ==
    /\ closing[k] = from
    /\ closing' = [closing EXCEPT ![k] = to]
    /\ UNCHANGED exceptClose

CloseExit(k) ==
    /\ CloseGoto(k, "idle", "exit")
    /\ exit' = TRUE
    /\ UNCHANGED <<sock, file, early>>

CloseConn(k) ==
    /\ CloseGoto(k, "exit", "wait")
    /\ sock' = "closed"
    /\ UNCHANGED <<exit, file, early>>

\* Mutant: Close does not wait.
CloseWaitedNot(k) ==
    /\ CloseGoto(k, "wait", "waited")
    /\ early' = IF "new" \in {pcR, pcP} THEN early \cup {k} ELSE early
    /\ UNCHANGED <<exit, sock, file>>

CloseWaited(k) ==
    /\ CloseGoto(k, "wait", "waited")
    /\ waitg = 0
    /\ early' = IF "new" \in {pcR, pcP} THEN early \cup {k} ELSE early
    /\ UNCHANGED <<exit, sock, file>>

CloseUnlink(k) ==
    /\ CloseGoto(k, "waited", "done")
    /\ file' = FALSE
    /\ UNCHANGED <<exit, sock, early>>

-----------------------------------------------------------------------------
(* SendPacket *)

SendGoto(s, from, to) ==
    /\ send[s] = from
    /\ send' = [send EXCEPT ![s] = to]
    /\ UNCHANGED exceptSend

SendRefused(s) == exit /\ SendGoto(s, "new", "false")

\* A packet that the controller's format packages, or a descriptor message.
SendPackaged(s) == ~exit /\ SendGoto(s, "new", "write")

\* The format, or with none yet the one of the packet's type, cannot package it: nothing is sent,
\* and the answer is yes.
SendUnpackaged(s) == ~exit /\ SendGoto(s, "new", "true")

\* There is no format to package it with.
SendNoFormat(s) == ~exit /\ packetFmt = "none" /\ SendGoto(s, "new", "false")

SendWrite(s) == sock = "open" /\ SendGoto(s, "write", "true")

\* The socket is closed, or the peer is gone, or the write times out or is short.
SendWriteFail(s) == SendGoto(s, "write", "false")

-----------------------------------------------------------------------------

RNext ==
    \/ RStart \/ RNoFormat \/ RUnsupported \/ RReadDatagram \/ RReadMsg \/ RPush
    \/ RReadFail \/ RDrain \/ RClose \/ RDone

PNext == PStart \/ PTake \/ PTakeClosed \/ PCallback \/ PEnd

Delivery(d) == Deliver(d) \/ DeliverPanics(d)

Closing(k) == CloseConn(k) \/ CloseWaited(k) \/ CloseUnlink(k)

Sending(s) == SendWrite(s) \/ SendWriteFail(s)

Next ==
    /\ ~crashed
    /\ \/ RNext \/ PNext
       \/ \E d \in Datagrams : Delivery(d)
       \/ \E k \in Closers : CloseExit(k) \/ Closing(k)
       \/ \E s \in Senders :
            SendRefused(s) \/ SendPackaged(s) \/ SendUnpackaged(s) \/ SendNoFormat(s) \/ Sending(s)

Spec == Init /\ [][Next]_vars

\* Every goroutine that can run does. Datagrams and the calls of the user are not forced; a
\* read of a closed socket fails.
Fairness ==
    /\ WF_vars(~crashed /\ RNext /\ (pcR = "read" => packetFmt \in {"other", "none"}))
    /\ WF_vars(~crashed /\ sock = "closed" /\ RReadFail)
    /\ WF_vars(~crashed /\ PNext)
    /\ \A d \in Datagrams : WF_vars(~crashed /\ Delivery(d))
    /\ \A k \in Closers : WF_vars(~crashed /\ Closing(k))
    /\ \A s \in Senders : WF_vars(~crashed /\ Sending(s))

FairSpec == Spec /\ Fairness

-----------------------------------------------------------------------------
(* Properties *)

\* Every datagram R has read is in exactly one place: with its delivery goroutine, in R's hands,
\* in the queue, with the callback, or drained by the close of the queue (lines 224-226, 255,
\* 287, 304; base/queue.go 11-18). None is lost or handled twice, whoever closes what when.
OncePlaced ==
    LET inR == IF pcR = "push" THEN {reads} ELSE {}
        placed == <<delivering, inR, ToSet(chReceived), ToSet(handled), dropped>>
    IN  /\ UNION ToSet(placed) = 1..reads
        /\ \A i, j \in DOMAIN placed : i < j => placed[i] \cap placed[j] = {}
        /\ IsInjective(handled) /\ IsInjective(chReceived)

\* Descriptor messages reach the callback in the order of their arrival, and their delivery
\* never ends the process: it is R, who also closes the queue, that pushes them (line 255).
\* Datagrams have neither guarantee (lines 224-226).
MessagesInOrder ==
    packetFmt = "unixmsg" =>
        /\ ~crashed
        /\ \A i, j \in DOMAIN handled : i < j => handled[i] < handled[j]

\* When Close has removed the socket's file no callback runs and none will (lines 76-78), unless
\* it found a goroutine that had not yet added itself to the WaitGroup (lines 266, 301).
ClosedIsQuiet ==
    \A k \in Closers : closing[k] = "done" /\ k \notin early => pcR = "done" /\ pcP = "done"

\* R is blocked on a full queue whose consumer has stopped.
ReaderStuck == pcR = "push" /\ Len(chReceived) = QCap /\ pcP \in {"ending", "done"}

\* R has panicked on the missing format, and nobody will close the queue P waits for.
NobodyCloses == packetFmt = "none" /\ pcR \in {"leaving", "done"} /\ pcP = "loop"

\* Close returns and the file goes, unless R is blocked behind a P that has stopped (line 255),
\* P waits for a queue nobody closes (line 269), or the process has ended (line 225).
CloseEnds ==
    \A k \in Closers :
        closing[k] = "exit" ~> closing[k] = "done" \/ ReaderStuck \/ NobodyCloses \/ crashed

\* A datagram that is no packet, a failed read or an unsupported format ends R; P then stops
\* too and SendPacket refuses (line 298), though the socket stays open until Close.
EndsTogether == pcR \in {"drain", "close"} ~> crashed \/ (pcP = "done" /\ exit)

=============================================================================
