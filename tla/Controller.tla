----------------------------- MODULE Controller -----------------------------
(***************************************************************************)
(* One TCP connection: tcp/controller.go.                                  *)
(*                                                                         *)
(* CreateController starts three goroutines:                               *)
(*   R  processRead  reads the socket, frames packets, closes on failure;  *)
(*   T  tryAlive     closes a connection that stays silent or unknown;     *)
(*   P  process      writes, runs the packet callback, closes at the end.  *)
(* R starts one delivery goroutine per batch of packets (ReceivePackets)   *)
(* and one notifier (ExitAndNotify). User goroutines call                  *)
(* SendPacketsAndClose, Exit and SetPacketFormat at any time.              *)
(*                                                                         *)
(* The flag word is not guarded by a lock: |= is a load and a store. Exit  *)
(* is one step: its effect (socket closed, aliveChecking off) is           *)
(* idempotent and never undone, so a gap between its test and its effect   *)
(* adds no outcome. A dead local variable is cleared.                      *)
(*                                                                         *)
(* Bounds: MaxBatches non-empty reads of at most BatchSize packets;        *)
(* chReceived holds QCap packets (32 in the code); each sender makes one   *)
(* SendPacketsAndClose call of at most MaxPackets packets of PacketSizes   *)
(* bytes; a clock with the two thresholds tryAlive compares with.          *)
(***************************************************************************)
EXTENDS Naturals, Sequences, Functions

CONSTANTS
    Senders,        \* goroutines that call SendPacketsAndClose
    Setters,        \* goroutines that call SetPacketFormat
    PacketSizes,    \* lengths of a packaged packet (0: an empty text packet)
    MaxPackets,     \* packets per SendPacketsAndClose
    MaxBatches,     \* reads that yield packets
    BatchSize,      \* packets per read
    QCap            \* capacity of chReceived

Reader == "reader"              \* R as a caller of SendBytes and a writer of flag
Callers == Senders \cup {Reader}
Updaters == Setters \cup {Reader}
Batches == 1..MaxBatches

ASSUME ControllerAssumption ==
    /\ Reader \notin Senders /\ Reader \notin Setters
    /\ PacketSizes \subseteq Nat
    /\ MaxPackets \in Nat /\ MaxBatches \in Nat /\ BatchSize \in Nat
    /\ QCap \in Nat \ {0}

VARIABLES
    flag,           \* controller.flag, as the set of its bits
    aliveChecking,  \* controller.aliveChecking
    sock,           \* the connection's socket: "open" or "closed" by this side
    clock,          \* age: 0 up to timeoutReceived, 1 up to timeoutDeterminePacketFormat, 2 more
    packetFmt,      \* controller.packetFmt: "nil", "plain" or "ws" (it has a Preprocessor)
    pcR, pcT, pcP,  \* where R, T and P are
    upd,            \* setDataReceivedFlag or setReadyedFlag in progress, per updater
    waitg,          \* the WaitGroup's counter
    bufSend,        \* bytes in the send buffer
    send,           \* SendBytes in progress, per caller
    job,            \* SendPacketsAndClose of each sender
    setter,         \* SetPacketFormat of each setter
    chReceived,     \* queue of packets; a packet is <<batch, index>>
    batch,          \* what each delivery goroutine still has to push
    nBatches,       \* delivery goroutines started
    notifiers,      \* goroutines that wait to send on chClosed
    closed,         \* the channels that have been closed
    token,          \* the length P took from chSend
    packet,         \* the packet P took from chReceived
    served,         \* index of the last packet of each batch handed to the callback (history)
    left            \* calls of ControllerLeave (history)

vars == <<flag, aliveChecking, sock, clock, packetFmt, pcR, pcT, pcP, upd, waitg, bufSend,
          send, job, setter, chReceived, batch, nBatches, notifiers, closed, token, packet,
          served, left>>

\* What each goroutine leaves alone in all its steps.
conn == <<aliveChecking, sock>>
rest == <<clock, job, setter, served, left>>
exceptR == <<flag, pcT, pcP, bufSend, chReceived, closed, token, packet, rest>>
exceptT == <<flag, packetFmt, pcR, pcP, upd, bufSend, send, chReceived, batch, nBatches,
             notifiers, closed, token, packet, rest>>
exceptP == <<clock, packetFmt, pcR, pcT, upd, job, setter, batch, nBatches>>
pLife == <<flag, waitg, closed, left>>
pSend == <<bufSend, send, token>>
pRecv == <<chReceived, packet, served>>
pRest == <<conn, notifiers, pLife, pSend, pRecv>>
inP == <<pcP, token, packet, served, left>>
inR == <<packetFmt, pcR, batch, nBatches>>

Flags == {"Opened", "Closing", "Closed", "DataReceived", "Readyed"}
Channels == {"chReceived", "chSend", "chClosed"}
Packets == Batches \X (1..BatchSize)

Updates == [pc : {"idle", "test", "bit", "load", "store", "log", "panic"},
            bit : {"DataReceived", "Readyed"}, val : SUBSET Flags]
Sends == [pc : {"idle", "test", "write", "chan"}, n : Nat]
Jobs == [pc : {"new", "run", "done"}, todo : 0..MaxPackets, close : BOOLEAN]
Deliveries == [next : 1..(BatchSize + 1), n : 0..BatchSize]

NoUpdate == [pc |-> "idle", bit |-> "DataReceived", val |-> {}]
NoSend == [pc |-> "idle", n |-> 0]
NoPacket == <<0, 0>>

RPCs == {"new", "read", "got", "determine", "handshake", "ack", "ready", "leaving", "done"}
TPCs == {"new", "check", "exit", "leaving", "done"}
PPCs == {"new", "loop", "select", "token", "write", "callback", "exiting", "reset", "drain",
         "closeReceived", "closeSend", "closeClosed", "wait", "leave", "done"}

TypeOK ==
    /\ flag \subseteq Flags
    /\ aliveChecking \in BOOLEAN
    /\ sock \in {"open", "closed"}
    /\ clock \in 0..2
    /\ packetFmt \in {"nil", "plain", "ws"}
    /\ pcR \in RPCs /\ pcT \in TPCs /\ pcP \in PPCs
    /\ upd \in [Updaters -> Updates]
    /\ waitg \in Nat
    /\ bufSend \in Nat
    /\ send \in [Callers -> Sends]
    /\ job \in [Senders -> Jobs]
    /\ setter \in [Setters -> {"new", "received", "done"}]
    /\ chReceived \in Seq(Packets)
    /\ Len(chReceived) <= QCap
    /\ batch \in [Batches -> Deliveries]
    /\ nBatches \in 0..MaxBatches
    /\ notifiers \in Nat
    /\ closed \subseteq Channels
    /\ token \in Nat
    /\ packet \in Packets \cup {NoPacket}
    /\ served \in [Batches -> Nat]
    /\ left \in Nat

Init ==
    /\ flag = {"Opened"}
    /\ aliveChecking = TRUE
    /\ sock = "open"
    /\ clock = 0
    /\ packetFmt = "nil"
    /\ pcR = "new" /\ pcT = "new" /\ pcP = "new"
    /\ upd = [t \in Updaters |-> NoUpdate]
    /\ waitg = 0
    /\ bufSend = 0
    /\ send = [t \in Callers |-> NoSend]
    /\ job = [s \in Senders |-> [pc |-> "new", todo |-> 0, close |-> FALSE]]
    /\ setter = [s \in Setters |-> "new"]
    /\ chReceived = <<>>
    /\ batch = [b \in Batches |-> [next |-> 1, n |-> 0]]
    /\ nBatches = 0
    /\ notifiers = 0
    /\ closed = {}
    /\ token = 0
    /\ packet = NoPacket
    /\ served = [b \in Batches |-> 0]
    /\ left = 0

-----------------------------------------------------------------------------
(* Closing the socket *)

\* Exit: a connection that is Opened stops checking its age and closes its socket.
Exit ==
    IF "Opened" \in flag
    THEN aliveChecking' = FALSE /\ sock' = "closed"
    ELSE UNCHANGED conn

\* ExitAndNotify also tells P, from a goroutine of its own.
ExitAndNotify ==
    /\ Exit
    /\ notifiers' = notifiers + (IF "Opened" \in flag THEN 1 ELSE 0)

-----------------------------------------------------------------------------
(* The flag word: setDataReceivedFlag and setReadyedFlag, run by R and by SetPacketFormat *)

StartUpdate(t, bit) == upd' = [upd EXCEPT ![t] = [pc |-> "test", bit |-> bit, val |-> {}]]

updRest == <<sock, notifiers, waitg, send, bufSend, chReceived, closed, clock, job, setter,
             pcT, inR, inP>>

\* Two reads of the flag: is it open, is the bit not set?
UpdateTest(t) ==
    /\ \/ /\ upd[t].pc = "test"
          /\ upd' = [upd EXCEPT ![t] = IF "Opened" \in flag THEN [@ EXCEPT !.pc = "bit"] ELSE NoUpdate]
       \/ /\ upd[t].pc = "bit"
          /\ upd' = [upd EXCEPT ![t] = IF @.bit \in flag THEN NoUpdate ELSE [@ EXCEPT !.pc = "load"]]
    /\ UNCHANGED <<flag, aliveChecking, updRest>>

UpdateLoad(t) ==
    /\ upd[t].pc = "load"
    /\ upd' = [upd EXCEPT ![t].pc = "store", ![t].val = flag]
    /\ UNCHANGED <<flag, aliveChecking, updRest>>

\* setReadyedFlag also ends the age checks.
UpdateStore(t) ==
    /\ upd[t].pc = "store"
    /\ flag' = upd[t].val \cup {upd[t].bit}
    /\ IF upd[t].bit = "Readyed"
       THEN aliveChecking' = FALSE /\ upd' = [upd EXCEPT ![t].pc = "log", ![t].val = {}]
       ELSE UNCHANGED aliveChecking /\ upd' = [upd EXCEPT ![t] = NoUpdate]
    /\ UNCHANGED updRest

\* setReadyedFlag ends by reading packetFmt.Tag for the log: a nil dereference when R has
\* overwritten the format of a concurrent SetPacketFormat with nil (line 156).
UpdateLog(t) ==
    /\ upd[t].pc = "log"
    /\ upd' = IF packetFmt = "nil"
              THEN [upd EXCEPT ![t].pc = "panic"] ELSE [upd EXCEPT ![t] = NoUpdate]
    /\ UNCHANGED <<flag, aliveChecking, updRest>>

-----------------------------------------------------------------------------
(* SendBytes: a subroutine of the senders and, for the handshake, of R *)

StartSend(t, n) == send' = [send EXCEPT ![t] = [pc |-> "test", n |-> n]]

sendRest == <<conn, notifiers, waitg, upd, flag, chReceived, closed, rest, pcT, pcP, token,
              packet, inR>>

SendTest(t) ==
    /\ send[t].pc = "test"
    /\ send' = IF "Opened" \in flag
               THEN [send EXCEPT ![t].pc = "write"] ELSE [send EXCEPT ![t] = NoSend]
    /\ UNCHANGED <<bufSend, sendRest>>

SendWrite(t) ==
    /\ send[t].pc = "write"
    /\ bufSend' = bufSend + send[t].n
    /\ send' = [send EXCEPT ![t].pc = "chan"]
    /\ UNCHANGED sendRest

\* The send on the closed chSend panics; the deferred recover turns it into a return.
SendRecover(t) ==
    /\ send[t].pc = "chan"
    /\ "chSend" \in closed
    /\ send' = [send EXCEPT ![t] = NoSend]
    /\ UNCHANGED <<bufSend, sendRest>>

-----------------------------------------------------------------------------
(* The user's goroutines *)

userRest == <<notifiers, waitg, bufSend, flag, chReceived, closed, clock, pcR, pcT, inP, batch,
              nBatches>>

\* SendPacketsAndClose: nothing unless Opened, otherwise a goroutine that packages and sends.
SendPacketsAndClose(s) ==
    /\ job[s].pc = "new"
    /\ IF "Opened" \in flag
       THEN \E todo \in 0..MaxPackets, close \in BOOLEAN :
              job' = [job EXCEPT ![s] = [pc |-> "run", todo |-> todo, close |-> close]]
       ELSE job' = [job EXCEPT ![s].pc = "done"]
    /\ UNCHANGED <<conn, packetFmt, upd, send, setter, userRest>>

\* The next packet is packaged and sent, or skipped when no format packages it.
SendNext(s) ==
    /\ job[s].pc = "run" /\ send[s].pc = "idle"
    /\ job[s].todo > 0
    /\ \/ \E n \in PacketSizes : StartSend(s, n)
       \/ UNCHANGED send
    /\ job' = [job EXCEPT ![s].todo = @ - 1]
    /\ UNCHANGED <<conn, packetFmt, upd, setter, userRest>>

\* After the last packet: the empty send that asks P to close, or nothing.
SendEnd(s) ==
    /\ job[s].pc = "run" /\ send[s].pc = "idle"
    /\ job[s].todo = 0
    /\ IF job[s].close THEN StartSend(s, 0) ELSE UNCHANGED send
    /\ job' = [job EXCEPT ![s].pc = "done", ![s].close = FALSE]
    /\ UNCHANGED <<conn, packetFmt, upd, setter, userRest>>

\* Exit called by the user or by StandardPool.CloseController.
UserExit ==
    /\ "Opened" \in flag
    /\ Exit
    /\ UNCHANGED <<packetFmt, upd, send, job, setter, userRest>>

SetPacketFormat(s) ==
    /\ setter[s] = "new"
    /\ \E f \in {"plain", "ws"} : packetFmt' = f
    /\ StartUpdate(s, "DataReceived")
    /\ setter' = [setter EXCEPT ![s] = "received"]
    /\ UNCHANGED <<conn, send, job, userRest>>

SetPacketFormat2(s) ==
    /\ setter[s] = "received" /\ upd[s].pc = "idle"
    /\ StartUpdate(s, "Readyed")
    /\ setter' = [setter EXCEPT ![s] = "done"]
    /\ UNCHANGED <<conn, packetFmt, send, job, userRest>>

-----------------------------------------------------------------------------
(* R: processRead *)

\* Mutant: waitg.Add is forgotten.
RStartNoAdd ==
    /\ pcR = "new"
    /\ pcR' = "read"
    /\ UNCHANGED <<conn, packetFmt, upd, send, batch, nBatches, notifiers, waitg, exceptR>>

RStart ==
    /\ pcR = "new"
    /\ waitg' = waitg + 1
    /\ pcR' = "read"
    /\ UNCHANGED <<conn, packetFmt, upd, send, batch, nBatches, notifiers, exceptR>>

RGoto(from, to) ==
    /\ pcR = from /\ pcR' = to
    /\ UNCHANGED <<waitg, batch, nBatches, exceptR>>

\* Read returns bytes: they are buffered and the connection is no longer silent.
RRead ==
    /\ sock = "open"
    /\ RGoto("read", "got")
    /\ StartUpdate(Reader, "DataReceived")
    /\ UNCHANGED <<conn, packetFmt, send, notifiers>>

\* Mutant: P is told, but the socket stays open.
RFailNoClose(from) ==
    /\ RGoto(from, "leaving")
    /\ notifiers' = notifiers + 1
    /\ UNCHANGED <<conn, packetFmt, upd, send>>

RFail(from) ==
    /\ RGoto(from, "leaving")
    /\ ExitAndNotify
    /\ UNCHANGED <<packetFmt, upd, send>>

\* Mutant: no break after ExitAndNotify, R goes on to parse.
RReadFailNoBreak ==
    /\ RGoto("read", "got")
    /\ ExitAndNotify
    /\ UNCHANGED <<packetFmt, upd, send>>

\* Mutant: the flag is updated after P has been told.
RReadFailLateUpdate ==
    /\ RGoto("read", "leaving")
    /\ ExitAndNotify
    /\ StartUpdate(Reader, "DataReceived")
    /\ UNCHANGED <<packetFmt, send>>

\* Read fails: the peer closed or reset the connection, or this side closed the socket.
RReadFail == RFail("read")

\* parsePacket with a format: packets go to a delivery goroutine; there are none for an
\* incomplete packet, and none beyond the bound MaxBatches.
RParse ==
    /\ pcR = "got" /\ upd[Reader].pc = "idle" /\ packetFmt # "nil"
    /\ \/ UNCHANGED <<batch, nBatches>>
       \/ /\ nBatches < MaxBatches
          /\ nBatches' = nBatches + 1
          /\ \E n \in 1..BatchSize :
               batch' = [batch EXCEPT ![nBatches + 1] = [next |-> 1, n |-> n]]
    /\ pcR' = "read"
    /\ UNCHANGED <<conn, packetFmt, upd, send, notifiers, waitg, exceptR>>

\* parsePacket with a format, on damaged data.
RParseFail ==
    /\ upd[Reader].pc = "idle" /\ packetFmt # "nil"
    /\ RFail("got")

\* parsePacket without one: R is past the test of line 145 and will overwrite packetFmt.
RUnknown ==
    /\ upd[Reader].pc = "idle" /\ packetFmt = "nil"
    /\ RGoto("got", "determine")
    /\ UNCHANGED <<conn, packetFmt, upd, send, notifiers>>

\* DetermineFromBuffer: not yet; or a format without a Preprocessor, whose packets are parsed
\* once the connection is Readyed; or one that starts with a handshake.
RDetermine ==
    /\ \/ /\ RGoto("determine", "read")
          /\ packetFmt' = "nil"
          /\ UNCHANGED upd
       \/ /\ RGoto("determine", "got")
          /\ packetFmt' = "plain"
          /\ StartUpdate(Reader, "Readyed")
       \/ /\ RGoto("determine", "handshake")
          /\ packetFmt' = "ws"
          /\ UNCHANGED upd
    /\ UNCHANGED <<conn, send, notifiers>>

\* HandshakeAck: answered through SendBytes, which blocks R until P takes the answer.
RHandshake ==
    /\ RGoto("handshake", "ack")
    /\ \E n \in PacketSizes \ {0} : StartSend(Reader, n)
    /\ UNCHANGED <<conn, packetFmt, upd, notifiers>>

RHandshakeFail == RFail("handshake")

RAcked ==
    /\ send[Reader].pc = "idle"
    /\ RGoto("ack", "ready")
    /\ StartUpdate(Reader, "Readyed")
    /\ UNCHANGED <<conn, packetFmt, send, notifiers>>

RReady ==
    /\ upd[Reader].pc = "idle"
    /\ RGoto("ready", "read")
    /\ UNCHANGED <<conn, packetFmt, upd, send, notifiers>>

RDone ==
    /\ pcR = "leaving"
    /\ waitg' = waitg - 1
    /\ pcR' = "done"
    /\ UNCHANGED <<conn, packetFmt, upd, send, batch, nBatches, notifiers, exceptR>>

-----------------------------------------------------------------------------
(* The goroutines R starts *)

deliverRest == <<conn, notifiers, waitg, upd, flag, bufSend, send, closed, clock, job, setter,
                 packetFmt, pcR, pcT, inP, nBatches>>

\* Mutant: the last packets of a batch are pushed first.
DeliverReversed(b) ==
    /\ batch[b].next <= batch[b].n
    /\ "chReceived" \notin closed
    /\ Len(chReceived) < QCap
    /\ chReceived' = Append(chReceived, <<b, batch[b].n + 1 - batch[b].next>>)
    /\ batch' = [batch EXCEPT ![b].next = @ + 1]
    /\ UNCHANGED deliverRest

\* ReceivePackets: a batch's goroutine pushes its packets in order.
Deliver(b) ==
    /\ batch[b].next <= batch[b].n
    /\ "chReceived" \notin closed
    /\ Len(chReceived) < QCap
    /\ chReceived' = Append(chReceived, <<b, batch[b].next>>)
    /\ batch' = [batch EXCEPT ![b].next = @ + 1]
    /\ UNCHANGED deliverRest

\* A push on the closed queue panics; the goroutine recovers and ends.
DeliverRecover(b) ==
    /\ batch[b].next <= batch[b].n
    /\ "chReceived" \in closed
    /\ batch' = [batch EXCEPT ![b].next = batch[b].n + 1]
    /\ UNCHANGED <<chReceived, deliverRest>>

-----------------------------------------------------------------------------
(* T: tryAlive *)

\* Time passes one of the two thresholds.
Tick ==
    /\ clock < 2
    /\ clock' = clock + 1
    /\ UNCHANGED <<conn, notifiers, waitg, upd, flag, bufSend, send, chReceived, closed, job,
                   setter, pcT, inR, inP>>

TStart ==
    /\ pcT = "new"
    /\ waitg' = waitg + 1
    /\ pcT' = "check"
    /\ UNCHANGED <<conn, exceptT>>

Identified == {"DataReceived", "Readyed"} \subseteq flag

\* Mutant: only silence is timed.
OverdueSilentOnly == "DataReceived" \notin flag /\ clock >= 1

\* Silent beyond timeoutReceived, or unidentified beyond timeoutDeterminePacketFormat.
Overdue == IF "DataReceived" \notin flag THEN clock >= 1 ELSE clock = 2

\* One round of the loop; the 500ms sleep is the time until the next step.
TCheck ==
    /\ pcT = "check"
    /\ pcT' = IF ~aliveChecking \/ Identified THEN "leaving"
              ELSE IF Overdue THEN "exit" ELSE "check"
    /\ UNCHANGED <<waitg, conn, exceptT>>

\* Mutant: T, too, tells P.
TExitNotify ==
    /\ pcT = "exit"
    /\ ExitAndNotify
    /\ pcT' = "leaving"
    /\ UNCHANGED <<waitg, upd, flag, bufSend, send, chReceived, closed, token, packet, rest, inR,
                   pcP>>

TExit ==
    /\ pcT = "exit"
    /\ Exit
    /\ pcT' = "leaving"
    /\ UNCHANGED <<waitg, exceptT>>

TDone ==
    /\ pcT = "leaving"
    /\ waitg' = waitg - 1
    /\ pcT' = "done"
    /\ UNCHANGED <<conn, exceptT>>

-----------------------------------------------------------------------------
(* P: process *)

PGoto(from, to) == pcP = from /\ pcP' = to /\ UNCHANGED exceptP

PStart ==
    /\ PGoto("new", "loop")
    /\ waitg' = waitg + 1
    /\ UNCHANGED <<conn, notifiers, pSend, pRecv, flag, closed, left>>

PLoop ==
    /\ PGoto("loop", IF "Opened" \in flag THEN "select" ELSE "exiting")
    /\ UNCHANGED pRest

\* select, first case: a length from a caller blocked on chSend, whose SendBytes returns.
PTakeSend(t) ==
    /\ PGoto("select", "token")
    /\ send[t].pc = "chan"
    /\ token' = send[t].n
    /\ send' = [send EXCEPT ![t] = NoSend]
    /\ UNCHANGED <<conn, notifiers, pLife, pRecv, bufSend>>

\* Mutant: everything that is buffered leaves the buffer.
TakeAllBytes == bufSend' = IF token = 0 THEN bufSend ELSE 0

\* SyncBuffer.Next(token).
TakeBytes == bufSend' = IF bufSend < token THEN 0 ELSE bufSend - token

\* A length of 0 closes; otherwise that many bytes, which must be there, leave the buffer.
PToken ==
    /\ PGoto("token", IF token = 0 \/ bufSend < token THEN "loop" ELSE "write")
    /\ IF token = 0 \/ bufSend < token THEN Exit ELSE UNCHANGED conn
    /\ TakeBytes
    /\ token' = 0
    /\ UNCHANGED <<notifiers, pLife, pRecv, send>>

\* conn.Write of the whole chunk.
PWrite ==
    /\ sock = "open"
    /\ PGoto("write", "loop")
    /\ UNCHANGED pRest

\* It fails on a closed socket, and may fail on an open one (reset, or timeoutWrited).
PWriteFail ==
    /\ PGoto("write", "loop")
    /\ Exit
    /\ UNCHANGED <<notifiers, pLife, pSend, pRecv>>

\* select, second case: the packet at the head of chReceived goes to the callback.
PTakePacket ==
    /\ PGoto("select", "callback")
    /\ chReceived # <<>>
    /\ packet' = Head(chReceived)
    /\ chReceived' = Tail(chReceived)
    /\ UNCHANGED <<conn, notifiers, pLife, pSend, served>>

CallbackReturns ==
    /\ PGoto("callback", "loop")
    /\ served' = [served EXCEPT ![packet[1]] = packet[2]]
    /\ packet' = NoPacket
    /\ UNCHANGED <<notifiers, pLife, pSend, chReceived>>

PCallback == CallbackReturns /\ UNCHANGED conn

\* The callback returns an error; or the packet was nil (line 434), and there was no callback.
PCallbackFail == CallbackReturns /\ Exit

\* select, third case: a notifier's send on chClosed.
PTakeClosed ==
    /\ PGoto("select", "loop")
    /\ notifiers > 0
    /\ notifiers' = notifiers - 1
    /\ flag' = {"Closing"}
    /\ UNCHANGED <<conn, pSend, pRecv, waitg, closed, left>>

\* The deferred calls of P: waitg.Done, then Close, which does nothing unless Closing.
PExiting ==
    /\ PGoto("exiting", IF "Closing" \in flag THEN "reset" ELSE "done")
    /\ waitg' = waitg - 1
    /\ UNCHANGED <<conn, notifiers, pSend, pRecv, flag, closed, left>>

\* Close, in order: reset the buffers, drain and close chReceived, close the other channels,
\* wait for R and T, leave.
PReset ==
    /\ PGoto("reset", "drain")
    /\ bufSend' = 0
    /\ UNCHANGED <<conn, notifiers, pLife, pRecv, send, token>>

\* ChannelQueue.Close receives until the queue is found empty, then closes it.
PDrain ==
    /\ PGoto("drain", IF chReceived = <<>> THEN "closeReceived" ELSE "drain")
    /\ chReceived' = IF chReceived = <<>> THEN <<>> ELSE Tail(chReceived)
    /\ UNCHANGED <<conn, notifiers, pLife, pSend, packet, served>>

CloseChannel(ch) ==
    /\ closed' = closed \cup {ch}
    /\ UNCHANGED <<conn, notifiers, pSend, pRecv, flag, waitg, left>>

\* Mutants: a channel is left open.
PCloseReceivedNot == PGoto("closeReceived", "closeSend") /\ UNCHANGED pRest
PCloseSendNot == PGoto("closeSend", "closeClosed") /\ UNCHANGED pRest

PCloseReceived == PGoto("closeReceived", "closeSend") /\ CloseChannel("chReceived")
PCloseSend == PGoto("closeSend", "closeClosed") /\ CloseChannel("chSend")
PCloseClosed == PGoto("closeClosed", "wait") /\ CloseChannel("chClosed")

\* Mutant: P does not wait for R and T.
PWaitNot == PGoto("wait", "leave") /\ UNCHANGED pRest

PWait ==
    /\ PGoto("wait", "leave")
    /\ waitg = 0
    /\ UNCHANGED pRest

PLeave ==
    /\ PGoto("leave", "done")
    /\ flag' = {"Closed"}
    /\ left' = left + 1
    /\ UNCHANGED <<conn, notifiers, pSend, pRecv, waitg, closed>>

-----------------------------------------------------------------------------

RNext ==
    \/ RStart \/ RRead \/ RReadFail \/ RParse \/ RParseFail \/ RUnknown \/ RDetermine
    \/ RHandshake \/ RHandshakeFail \/ RAcked \/ RReady \/ RDone

TNext == TStart \/ TCheck \/ TExit \/ TDone

PNext ==
    \/ PStart \/ PLoop \/ PToken \/ PWrite \/ PWriteFail
    \/ PTakePacket \/ PCallback \/ PCallbackFail \/ PTakeClosed
    \/ PExiting \/ PReset \/ PDrain \/ PCloseReceived \/ PCloseSend \/ PCloseClosed
    \/ PWait \/ PLeave
    \/ \E t \in Callers : PTakeSend(t)

SendBytes(t) == SendTest(t) \/ SendWrite(t) \/ SendRecover(t)

Update(t) == UpdateTest(t) \/ UpdateLoad(t) \/ UpdateStore(t) \/ UpdateLog(t)

Next ==
    \/ RNext \/ TNext \/ PNext \/ Tick \/ UserExit
    \/ \E t \in Callers : SendBytes(t)
    \/ \E t \in Updaters : Update(t)
    \/ \E b \in Batches : Deliver(b) \/ DeliverRecover(b)
    \/ \E s \in Senders : SendPacketsAndClose(s) \/ SendNext(s) \/ SendEnd(s)
    \/ \E s \in Setters : SetPacketFormat(s) \/ SetPacketFormat2(s)

Spec == Init /\ [][Next]_vars

\* Every goroutine that can run does run, time passes, and a select does not pass over one
\* of its cases for ever (Go picks at random among the ready ones). Data, the peer's failures
\* and the user's calls are not forced, but a read of a closed socket returns.
Fairness ==
    /\ WF_vars(Tick)
    /\ WF_vars(RNext /\ pcR # "read") /\ WF_vars(sock = "closed" /\ RReadFail)
    /\ WF_vars(TNext)
    /\ WF_vars(PNext) /\ SF_vars(PTakeClosed) /\ SF_vars(PTakePacket)
    /\ \A t \in Callers : WF_vars(SendBytes(t)) /\ SF_vars(PTakeSend(t))
    /\ \A t \in Updaters : WF_vars(Update(t))
    /\ \A b \in Batches : WF_vars(DeliverRecover(b)) /\ SF_vars(Deliver(b))
    /\ \A s \in Senders : WF_vars(SendNext(s) \/ SendEnd(s))
    /\ \A s \in Setters : WF_vars(SetPacketFormat2(s))

FairSpec == Spec /\ Fairness

-----------------------------------------------------------------------------
(* Safety *)

ClosingPCs == {"exiting", "reset", "drain", "closeReceived", "closeSend", "closeClosed", "wait",
               "leave", "done"}

\* A notifier never sends on the closed chClosed: its goroutine (line 207) recovers nothing, so
\* that send would end the process. It holds because only R notifies, once, and P closes the
\* channel after it has taken that one notification.
NotifierNeverPanics == "chClosed" \in closed => notifiers = 0

\* From P's last turn of the loop on, R has stopped parsing: Close resets bufRecv (line 224),
\* which has no lock, while R may still be between its notification and its waitg.Done.
ReadBufferFree == pcP \in ClosingPCs => pcR \in {"leaving", "done"}

\* ControllerLeave is called at most once, when R has ended, the socket is closed and no
\* notification is pending (lines 229-231).
LeaveIsLast ==
    /\ left <= 1
    /\ left = 1 => pcR = "done" /\ sock = "closed" /\ notifiers = 0

\* Until Close resets it, the send buffer holds exactly the bytes announced on chSend and not
\* taken yet: a token always finds its bytes (the branch of line 396 is never taken), and a
\* close token of a sole sender finds the buffer empty.
SendBufferAccounted ==
    pcP \in PPCs \ ClosingPCs =>
      bufSend = token + SumFunctionOnSet([t \in Callers |-> send[t].n],
                                         {t \in Callers : send[t].pc = "chan"})

\* The packets of one read reach the callback in order, without gap or repetition, however
\* the delivery goroutines interleave (lines 298-305).
BatchInOrder == pcP = "callback" => packet[2] = served[packet[1]] + 1

\* No step opens again a connection that is no longer Opened: its goroutines and its channels
\* are gone. The flag updates of R and of P's line 450 share no lock.
NeverReopened == [][~("Opened" \notin flag /\ "Opened" \in flag')]_flag

-----------------------------------------------------------------------------
(* Liveness *)

\* A SendBytes blocked on chSend returns, whatever happens to the connection meanwhile
\* (line 251; P's select, or the close of line 227).
SendReturns == \A t \in Callers : send[t].pc = "chan" ~> send[t].pc # "chan"

\* A connection whose format has not been determined in time is closed (lines 350-361).
UnidentifiedIsClosed ==
    ("Opened" \in flag /\ "Readyed" \notin flag) ~> (sock = "closed" \/ "Readyed" \in flag)

\* Every goroutine of a closed connection ends, the delivery goroutines blocked on a full
\* chReceived included (line 226).
GoroutinesEnd ==
    sock = "closed" ~>
      /\ pcR = "done" /\ pcT = "done" /\ pcP = "done" /\ notifiers = 0
      /\ \A b \in Batches : batch[b].next > batch[b].n
      /\ \A s \in Senders : job[s].pc # "run" /\ send[s].pc = "idle"

-----------------------------------------------------------------------------
(* Refinement *)

\* What the manager sees of the connection.
SessionOf == INSTANCE Session WITH
    phase <- IF left > 0 THEN "left" ELSE IF sock = "closed" THEN "dropped" ELSE "open",
    calling <- pcP = "callback"

\* The connection's goroutines together keep the promise of Session: one callback at a time,
\* one ControllerLeave, after the socket is closed and after every callback, and it comes.
ImplementsSession == SessionOf!Spec

=============================================================================
