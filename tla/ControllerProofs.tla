-------------------------- MODULE ControllerProofs --------------------------
(***************************************************************************)
(* Theorems about Controller, for every set of senders and setters and     *)
(* every bound.                                                            *)
(*                                                                         *)
(* The inductive invariant ties three things no single line of the code    *)
(* relates: how far R is, whether a notification is pending, and how far P *)
(* has gone in closing. Until R has failed (Ended) there is no notifier    *)
(* and the flag is Opened; a flag without Opened, in the word or in a      *)
(* value some updater has loaded, means that P has taken R's only          *)
(* notification; and P passes Wait only when R has called waitg.Done.      *)
(*                                                                         *)
(* The second part is about the data that passes through a Controller: the *)
(* packets on their way to the callback and the bytes on their way to the  *)
(* socket, with an invariant of its own.                                   *)
(***************************************************************************)
EXTENDS Controller, Lemmas

Ended == {"leaving", "done"}
AfterDone == ClosingPCs \ {"exiting"}

One(b) == IF b THEN 1 ELSE 0

\* The WaitGroup counts the goroutines between their Add and their Done.
WaitCount ==
    waitg = One(pcR \notin {"new", "done"}) + One(pcT \notin {"new", "done"})
              + One(pcP \notin {"new"} \cup AfterDone)

\* R notifies once, when it ends, after it has closed the socket.
Notified ==
    /\ notifiers <= 1
    /\ pcR \notin Ended => notifiers = 0
    /\ pcR \in Ended => sock = "closed"

\* The flag has lost Opened, in the word or in a value about to be stored.
Unopened ==
    \/ "Opened" \notin flag
    \/ \E t \in Updaters : upd[t].pc = "store" /\ "Opened" \notin upd[t].val

\* P has taken the notification before Opened is lost, and stops only then.
Taken == Unopened \/ pcP \in ClosingPCs => pcR \in Ended /\ notifiers = 0

\* P closes its channels in its last steps, leaves after R, and once.
Departure ==
    /\ closed # {} => pcP \in ClosingPCs
    /\ pcP = "leave" => pcR = "done"
    /\ left = 0 \/ (left = 1 /\ pcP = "done" /\ pcR = "done")

\* R updates the flag only while it parses.
ReaderUpdates == upd[Reader].pc # "idle" => pcR \in {"got", "ready"}

IInv == TypeOK /\ WaitCount /\ Notified /\ Taken /\ Departure /\ ReaderUpdates

-----------------------------------------------------------------------------
(* Types *)

\* A new connection satisfies the invariant.
LEMMA InitIInv == Init => IInv
<1> USE ControllerAssumption
<1>1. Init => TypeOK
  BY DEF Init, TypeOK, Flags, RPCs, TPCs, PPCs, NoUpdate, NoSend, NoPacket, Updaters, Callers,
         Packets, Batches, Updates, Sends, Jobs, Deliveries
<1>2. Init => WaitCount /\ Notified /\ Taken /\ Departure /\ ReaderUpdates
  BY DEF Init, WaitCount, One, Notified, Taken, Unopened, Departure, ReaderUpdates, NoUpdate,
         ClosingPCs, AfterDone, Ended, Updaters
<1> QED BY <1>1, <1>2 DEF IInv

\* R updates the flag and calls SendBytes.
LEMMA ReaderIs == Reader \in Updaters /\ Reader \in Callers
BY DEF Updaters, Callers

\* Starting setDataReceivedFlag or setReadyedFlag keeps the type of upd.
LEMMA StartUpdateType ==
    ASSUME TypeOK, NEW t \in Updaters, NEW bit \in {"DataReceived", "Readyed"},
           StartUpdate(t, bit)
    PROVE  upd' \in [Updaters -> Updates]
<1>1. [pc |-> "test", bit |-> bit, val |-> {}] \in Updates
  BY DEF Updates
<1> QED BY <1>1 DEF TypeOK, StartUpdate

\* Starting SendBytes keeps the type of send.
LEMMA StartSendType ==
    ASSUME TypeOK, NEW t \in Callers, NEW n \in Nat, StartSend(t, n)
    PROVE  send' \in [Callers -> Sends]
<1>1. [pc |-> "test", n |-> n] \in Sends
  BY DEF Sends
<1> QED BY <1>1 DEF TypeOK, StartSend

\* Exit and ExitAndNotify keep the types of what they change.
LEMMA ExitType == TypeOK /\ Exit => aliveChecking' \in BOOLEAN /\ sock' \in {"open", "closed"}
BY DEF TypeOK, Exit, conn

\* ExitAndNotify keeps the types of what it changes.
LEMMA ExitAndNotifyType ==
    TypeOK /\ ExitAndNotify =>
      aliveChecking' \in BOOLEAN /\ sock' \in {"open", "closed"} /\ notifiers' \in Nat
BY ExitType DEF TypeOK, ExitAndNotify

\* R: every step keeps the types and the count.
LEMMA RTypes == TypeOK /\ WaitCount /\ RNext => TypeOK' /\ WaitCount'
<1> SUFFICES ASSUME TypeOK, WaitCount, RNext PROVE TypeOK' /\ WaitCount'
  OBVIOUS
<1>1. WaitCount'
  BY DEF RNext, RStart, RRead, RReadFail, RParse, RParseFail, RUnknown, RDetermine, RHandshake,
         RHandshakeFail, RFail, RAcked, RReady, RDone, RGoto, exceptR, WaitCount, One, TypeOK
<1>2. TypeOK'
  <2> USE DEF TypeOK, RPCs, exceptR, rest, conn, RGoto
  <2>1. CASE RStart
    BY <2>1 DEF RStart
  <2>2. CASE RRead
    BY <2>2, ReaderIs, StartUpdateType DEF RRead
  <2>3. CASE RReadFail \/ RParseFail \/ RHandshakeFail
    BY <2>3, ExitAndNotifyType DEF RReadFail, RParseFail, RHandshakeFail, RFail
  <2>4. CASE RParse
    <3>1. CASE UNCHANGED <<batch, nBatches>>
      BY <2>4, <3>1 DEF RParse
    <3>2. CASE nBatches < MaxBatches /\ nBatches' = nBatches + 1
      <4>1. PICK n \in 1..BatchSize : batch' = [batch EXCEPT ![nBatches + 1] = [next |-> 1, n |-> n]]
        BY <2>4, <3>2 DEF RParse
      <4>2. [next |-> 1, n |-> n] \in Deliveries
        BY ControllerAssumption DEF Deliveries
      <4>3. batch' \in [Batches -> Deliveries]
        BY <4>1, <4>2
      <4>4. nBatches' \in 0..MaxBatches
        BY <3>2, ControllerAssumption
      <4> QED BY <2>4, <4>3, <4>4 DEF RParse
    <3> QED BY <2>4, <3>1, <3>2 DEF RParse
  <2>5. CASE RUnknown
    BY <2>5 DEF RUnknown
  <2>6. CASE RDetermine
    BY <2>6, ReaderIs, StartUpdateType DEF RDetermine
  <2>7. CASE RHandshake
    BY <2>7, ReaderIs, StartSendType, ControllerAssumption DEF RHandshake
  <2>8. CASE RAcked
    BY <2>8, ReaderIs, StartUpdateType DEF RAcked
  <2>9. CASE RReady
    BY <2>9 DEF RReady
  <2>10. CASE RDone
    BY <2>10 DEF RDone, WaitCount, One
  <2> QED BY <2>1, <2>2, <2>3, <2>4, <2>5, <2>6, <2>7, <2>8, <2>9, <2>10 DEF RNext
<1> QED BY <1>1, <1>2

\* T likewise.
LEMMA TTypes == TypeOK /\ WaitCount /\ TNext => TypeOK' /\ WaitCount'
<1> SUFFICES ASSUME TypeOK, WaitCount, TNext PROVE TypeOK' /\ WaitCount'
  OBVIOUS
<1>1. WaitCount'
  BY DEF TNext, TStart, TCheck, TExit, TDone, exceptT, WaitCount, One, TypeOK
<1>2. TypeOK'
  <2> USE DEF TypeOK, TPCs, exceptT, rest, conn
  <2>1. CASE TStart
    BY <2>1 DEF TStart
  <2>2. CASE TCheck
    BY <2>2 DEF TCheck
  <2>3. CASE TExit
    BY <2>3, ExitType DEF TExit
  <2>4. CASE TDone
    BY <2>4 DEF TDone, WaitCount, One
  <2> QED BY <2>1, <2>2, <2>3, <2>4 DEF TNext
<1> QED BY <1>1, <1>2

\* P likewise.
LEMMA PTypes == TypeOK /\ WaitCount /\ PNext => TypeOK' /\ WaitCount'
<1> SUFFICES ASSUME TypeOK, WaitCount, PNext PROVE TypeOK' /\ WaitCount'
  OBVIOUS
<1>1. WaitCount'
  BY DEF PNext, PStart, PLoop, PTakeSend, PToken, PWrite, PWriteFail, PTakePacket, PCallback,
         PCallbackFail, CallbackReturns, PTakeClosed, PExiting, PReset, PDrain, PCloseReceived,
         PCloseSend, PCloseClosed, CloseChannel, PWait, PLeave, PGoto, exceptP, pLife, pRest,
         WaitCount, One, AfterDone, ClosingPCs, TypeOK
<1>2. TypeOK'
  <2> USE DEF TypeOK, PPCs, PGoto, exceptP, pRest, pLife, pSend, pRecv, conn
  <2>1. CASE PStart
    BY <2>1 DEF PStart
  <2>2. CASE PLoop
    BY <2>2 DEF PLoop
  <2>3. CASE \E t \in Callers : PTakeSend(t)
    BY <2>3 DEF PTakeSend, NoSend, Sends
  <2>4. CASE PToken
    BY <2>4, ExitType DEF PToken, TakeBytes
  <2>5. CASE PWrite
    BY <2>5 DEF PWrite
  <2>6. CASE PWriteFail
    BY <2>6, ExitType DEF PWriteFail
  <2>7. CASE PTakePacket
    <3>1. /\ packet' \in Packets
          /\ chReceived' \in Seq(Packets) /\ Len(chReceived') <= QCap
      BY <2>7, HeadTailProperties, ControllerAssumption DEF PTakePacket
    <3> QED BY <2>7, <3>1 DEF PTakePacket
  <2>8. CASE PCallback \/ PCallbackFail
    <3> USE <2>8 DEF PCallback, PCallbackFail, CallbackReturns
    <3>1. packet[2] \in Nat
      BY ControllerAssumption DEF Packets, NoPacket
    <3>2. served' \in [Batches -> Nat]
      BY <3>1
    <3>3. aliveChecking' \in BOOLEAN /\ sock' \in {"open", "closed"}
      BY ExitType
    <3> QED BY <3>2, <3>3
  <2>9. CASE PTakeClosed
    BY <2>9 DEF PTakeClosed, Flags
  <2>10. CASE PExiting
    BY <2>10 DEF PExiting, WaitCount, One, AfterDone, ClosingPCs
  <2>11. CASE PReset
    BY <2>11 DEF PReset
  <2>12. CASE PDrain
    <3>1. chReceived' \in Seq(Packets) /\ Len(chReceived') <= QCap
      BY <2>12, HeadTailProperties, ControllerAssumption DEF PDrain
    <3> QED BY <2>12, <3>1 DEF PDrain
  <2>13. CASE PCloseReceived \/ PCloseSend \/ PCloseClosed
    BY <2>13 DEF PCloseReceived, PCloseSend, PCloseClosed, CloseChannel, Channels
  <2>14. CASE PWait
    BY <2>14 DEF PWait
  <2>15. CASE PLeave
    BY <2>15 DEF PLeave, Flags
  <2> QED BY <2>1, <2>2, <2>3, <2>4, <2>5, <2>6, <2>7, <2>8, <2>9, <2>10, <2>11, <2>12, <2>13,
      <2>14, <2>15 DEF PNext
<1> QED BY <1>1, <1>2

\* Steps of the callers, the updaters, the delivery goroutines, the users and the clock.
OtherNext ==
    \/ Tick \/ UserExit
    \/ \E t \in Callers : SendBytes(t)
    \/ \E t \in Updaters : Update(t)
    \/ \E b \in Batches : Deliver(b) \/ DeliverRecover(b)
    \/ \E s \in Senders : SendPacketsAndClose(s) \/ SendNext(s) \/ SendEnd(s)
    \/ \E s \in Setters : SetPacketFormat(s) \/ SetPacketFormat2(s)

\* The steps of the users, of the delivery goroutines, of SendBytes and of the flag updates
\* keep the types and the WaitGroup's count.
LEMMA OtherTypes == TypeOK /\ WaitCount /\ OtherNext => TypeOK' /\ WaitCount'
<1> SUFFICES ASSUME TypeOK, WaitCount, OtherNext PROVE TypeOK' /\ WaitCount'
  OBVIOUS
<1>1. WaitCount'
  BY DEF OtherNext, Tick, UserExit, SendBytes, SendTest, SendWrite, SendRecover, Update,
         UpdateTest, UpdateLoad, UpdateStore, UpdateLog, Deliver, DeliverRecover,
         SendPacketsAndClose, SendNext, SendEnd, SetPacketFormat, SetPacketFormat2, sendRest,
         updRest, deliverRest, userRest, inP, inR, WaitCount
<1>2. TypeOK'
  <2> USE DEF TypeOK, conn, rest, inP, inR
  <2>1. CASE Tick
    BY <2>1 DEF Tick
  <2>2. CASE UserExit
    BY <2>2, ExitType DEF UserExit, userRest
  <2>3. ASSUME NEW t \in Callers, SendBytes(t) PROVE TypeOK'
    <3>1. NoSend \in Sends /\ send[t] \in Sends /\ send[t].n \in Nat
      BY DEF NoSend, Sends
    <3>2. \A p \in {"write", "chan"} : [send[t] EXCEPT !.pc = p] \in Sends
      BY <3>1 DEF Sends
    <3>3. send' \in [Callers -> Sends]
      BY <2>3, <3>1, <3>2 DEF SendBytes, SendTest, SendWrite, SendRecover
    <3>4. bufSend' \in Nat
      BY <2>3, <3>1 DEF SendBytes, SendTest, SendWrite, SendRecover
    <3> QED BY <2>3, <3>3, <3>4 DEF SendBytes, SendTest, SendWrite, SendRecover, sendRest
  <2>4. ASSUME NEW t \in Updaters, Update(t) PROVE TypeOK'
    <3>1. NoUpdate \in Updates /\ upd[t] \in Updates
      BY DEF NoUpdate, Updates
    <3>2. upd[t].val \subseteq Flags /\ upd[t].bit \in Flags
      BY <3>1 DEF Updates, Flags
    <3>a. \A p \in {"bit", "load", "panic"} : [upd[t] EXCEPT !.pc = p] \in Updates
      BY <3>1 DEF Updates
    <3>b. \A p \in {"store", "log"}, v \in SUBSET Flags :
            [upd[t] EXCEPT !.pc = p, !.val = v] \in Updates
      BY <3>1 DEF Updates
    <3>3. upd' \in [Updaters -> Updates]
      <4>1. CASE UpdateTest(t) \/ UpdateLog(t)
        BY <4>1, <3>1, <3>a DEF UpdateTest, UpdateLog
      <4>2. CASE UpdateLoad(t)
        BY <4>2, <3>b DEF UpdateLoad
      <4>3. CASE UpdateStore(t)
        <5>1. {} \in SUBSET Flags /\ [upd[t] EXCEPT !.pc = "log", !.val = {}] \in Updates
          BY <3>b
        <5> QED BY <4>3, <3>1, <5>1 DEF UpdateStore
      <4> QED BY <2>4, <4>1, <4>2, <4>3 DEF Update
    <3>4. flag' \subseteq Flags /\ aliveChecking' \in BOOLEAN
      BY <2>4, <3>2 DEF Update, UpdateTest, UpdateLoad, UpdateStore, UpdateLog
    <3> QED BY <2>4, <3>3, <3>4 DEF Update, UpdateTest, UpdateLoad, UpdateStore, UpdateLog, updRest
  <2>5. ASSUME NEW b \in Batches, Deliver(b) \/ DeliverRecover(b) PROVE TypeOK'
    <3>1. batch[b] \in Deliveries /\ <<b, batch[b].next>> \in Packets
      BY <2>5, ControllerAssumption DEF Deliver, DeliverRecover, Packets, Deliveries
    <3>a. /\ [batch[b] EXCEPT !.next = batch[b].next + 1] \in Deliveries
          /\ [batch[b] EXCEPT !.next = batch[b].n + 1] \in Deliveries
      <4>1. \A k \in 1..(BatchSize + 1) : [batch[b] EXCEPT !.next = k] \in Deliveries
        BY <3>1 DEF Deliveries
      <4>2. /\ batch[b].next \in 1..(BatchSize + 1) /\ batch[b].n \in 0..BatchSize
            /\ batch[b].next <= batch[b].n
        BY <2>5, <3>1 DEF Deliver, DeliverRecover, Deliveries
      <4>3. /\ batch[b].next + 1 \in 1..(BatchSize + 1)
            /\ batch[b].n + 1 \in 1..(BatchSize + 1)
        BY <4>2, ControllerAssumption
      <4> QED BY <4>1, <4>3
    <3>2. batch' \in [Batches -> Deliveries]
      BY <2>5, <3>a DEF Deliver, DeliverRecover
    <3>3. chReceived' \in Seq(Packets) /\ Len(chReceived') <= QCap
      <4>1. CASE Deliver(b)
        <5>1. Append(chReceived, <<b, batch[b].next>>) \in Seq(Packets)
          BY <3>1, AppendProperties
        <5>2. Len(Append(chReceived, <<b, batch[b].next>>)) = Len(chReceived) + 1
          BY <3>1, AppendProperties
        <5>3. Len(chReceived) \in Nat
          BY LenProperties
        <5> QED BY <4>1, <5>1, <5>2, <5>3, ControllerAssumption DEF Deliver
      <4>2. CASE DeliverRecover(b)
        BY <4>2 DEF DeliverRecover
      <4> QED BY <2>5, <4>1, <4>2
    <3> QED BY <2>5, <3>2, <3>3 DEF Deliver, DeliverRecover, deliverRest
  <2>6. ASSUME NEW s \in Senders, SendPacketsAndClose(s) \/ SendNext(s) \/ SendEnd(s) PROVE TypeOK'
    <3>1. s \in Callers /\ 0 \in Nat /\ PacketSizes \subseteq Nat
      BY ControllerAssumption DEF Callers
    <3>2. send' \in [Callers -> Sends]
      BY <2>6, <3>1, StartSendType DEF SendPacketsAndClose, SendNext, SendEnd
    <3>3. job' \in [Senders -> Jobs]
      <4>1. job[s] \in Jobs
        OBVIOUS
      <4>2. CASE SendPacketsAndClose(s)
        <5>1. [job[s] EXCEPT !.pc = "done"] \in Jobs
          BY <4>1 DEF Jobs
        <5>2. \A k \in 0..MaxPackets, c \in BOOLEAN :
                [pc |-> "run", todo |-> k, close |-> c] \in Jobs
          BY DEF Jobs
        <5> QED BY <4>2, <5>1, <5>2 DEF SendPacketsAndClose
      <4>3. CASE SendNext(s)
        <5>1. [job[s] EXCEPT !.todo = job[s].todo - 1] \in Jobs
          <6>1. \A k \in 0..MaxPackets : [job[s] EXCEPT !.todo = k] \in Jobs
            BY <4>1 DEF Jobs
          <6>2. job[s].todo \in 0..MaxPackets /\ job[s].todo > 0
            BY <4>1, <4>3 DEF Jobs, SendNext
          <6>3. job[s].todo - 1 \in 0..MaxPackets
            BY <6>2, ControllerAssumption
          <6> QED BY <6>1, <6>3
        <5> QED BY <4>3, <5>1 DEF SendNext
      <4>4. CASE SendEnd(s)
        <5>1. [job[s] EXCEPT !.pc = "done", !.close = FALSE] \in Jobs
          BY <4>1 DEF Jobs
        <5> QED BY <4>4, <5>1 DEF SendEnd
      <4> QED BY <2>6, <4>2, <4>3, <4>4
    <3> QED BY <2>6, <3>2, <3>3 DEF SendPacketsAndClose, SendNext, SendEnd, userRest
  <2>7. ASSUME NEW s \in Setters, SetPacketFormat(s) \/ SetPacketFormat2(s) PROVE TypeOK'
    <3>1. upd' \in [Updaters -> Updates]
      BY <2>7, StartUpdateType DEF SetPacketFormat, SetPacketFormat2, Updaters
    <3> QED BY <2>7, <3>1 DEF SetPacketFormat, SetPacketFormat2, userRest
  <2> QED BY <2>1, <2>2, <2>3, <2>4, <2>5, <2>6, <2>7 DEF OtherNext
<1> QED BY <1>1, <1>2

\* So does every step.
LEMMA TypesStep == TypeOK /\ WaitCount /\ [Next]_vars => TypeOK' /\ WaitCount'
<1> SUFFICES ASSUME TypeOK, WaitCount, [Next]_vars PROVE TypeOK' /\ WaitCount'
  OBVIOUS
<1>1. CASE UNCHANGED vars
  BY <1>1 DEF TypeOK, WaitCount, vars
<1>2. CASE RNext \/ TNext \/ PNext \/ OtherNext
  BY <1>2, RTypes, TTypes, PTypes, OtherTypes
<1> QED BY <1>1, <1>2 DEF Next, OtherNext

-----------------------------------------------------------------------------
(* The invariant *)

\* The flag loses Opened only when it is stored to, or when a value without it is loaded.
LEMMA StillOpened ==
    ASSUME flag' = flag,
           \A u \in Updaters : upd'[u].pc = "store" =>
                                 upd[u].pc = "store" /\ upd'[u].val = upd[u].val
    PROVE  Unopened' => Unopened
BY DEF Unopened

\* R fails only while Opened and unnotified: its step to "leaving" closes the socket and
\* starts the one notifier.
LEMMA RLife == IInv /\ RNext => (Notified /\ Taken /\ Departure /\ ReaderUpdates)'
<1> SUFFICES ASSUME IInv, RNext PROVE (Notified /\ Taken /\ Departure /\ ReaderUpdates)'
  OBVIOUS
<1> USE DEF IInv, Notified, Taken, Departure, ReaderUpdates, Ended
<1>1. ASSUME NEW from \in {"read", "got", "handshake"}, RFail(from), upd[Reader].pc = "idle"
      PROVE  (Notified /\ Taken /\ Departure /\ ReaderUpdates)'
  <2>1. "Opened" \in flag /\ notifiers = 0 /\ pcP \notin ClosingPCs /\ ~Unopened
    BY <1>1 DEF RFail, RGoto, Unopened
  <2>2. notifiers' = 1 /\ sock' = "closed" /\ pcR' = "leaving" /\ UNCHANGED <<flag, upd, pcP, closed, left>>
    BY <1>1, <2>1 DEF RFail, RGoto, ExitAndNotify, Exit, exceptR, rest
  <2>3. ~Unopened'
    BY <2>1, <2>2 DEF Unopened
  <2> QED BY <1>1, <2>1, <2>2, <2>3 DEF ClosingPCs
<1>2. CASE RReadFail \/ RParseFail \/ RHandshakeFail
  BY <1>2, <1>1 DEF RReadFail, RParseFail, RHandshakeFail, RFail, RGoto
<1>3. CASE RRead \/ RDetermine \/ RAcked
  <2> USE <1>3 DEF RRead, RDetermine, RAcked, RGoto, exceptR, rest, conn
  <2>1. pcR' \notin Ended /\ pcR \notin Ended /\ UNCHANGED <<notifiers, sock, flag, pcP, closed, left>>
    OBVIOUS
  <2>2. upd' = upd \/ (pcR' \in {"got", "ready"} /\ \E bit \in {"DataReceived", "Readyed"} : StartUpdate(Reader, bit))
    OBVIOUS
  <2>3. Unopened' => Unopened
    <3>1. upd \in [Updaters -> Updates]
      BY DEF TypeOK
    <3>2. \A u \in Updaters : upd'[u] = upd[u] \/ upd'[u].pc = "test"
      BY <2>2, <3>1 DEF StartUpdate
    <3> QED BY <2>1, <3>2, StillOpened
  <2>4. ReaderUpdates'
    BY <2>1, <2>2
  <2> QED BY <2>1, <2>3, <2>4
<1>4. CASE RStart \/ RParse \/ RUnknown \/ RHandshake \/ RReady
  <2> USE <1>4 DEF RStart, RParse, RUnknown, RHandshake, RReady, RGoto, exceptR, rest, conn
  <2>1. /\ pcR' \notin Ended /\ pcR \notin Ended
        /\ UNCHANGED <<notifiers, sock, flag, upd, pcP, closed, left>>
    OBVIOUS
  <2>2. Unopened' = Unopened
    BY <2>1 DEF Unopened
  <2>3. upd[Reader].pc = "idle"
    OBVIOUS
  <2> QED BY <2>1, <2>2, <2>3
<1>5. CASE RDone
  <2>1. pcR = "leaving" /\ pcR' = "done" /\ UNCHANGED <<notifiers, sock, flag, upd, pcP, closed, left>>
    BY <1>5 DEF RDone, exceptR, rest, conn
  <2>2. Unopened' = Unopened
    BY <2>1 DEF Unopened
  <2> QED BY <2>1, <2>2
<1> QED BY <1>2, <1>3, <1>4, <1>5 DEF RNext

\* T touches none of it: Exit closes the socket and tells nobody.
LEMMA TLife == IInv /\ TNext => (Notified /\ Taken /\ Departure /\ ReaderUpdates)'
<1> SUFFICES ASSUME IInv, TNext PROVE (Notified /\ Taken /\ Departure /\ ReaderUpdates)'
  OBVIOUS
<1>1. UNCHANGED <<notifiers, flag, upd, pcR, pcP, closed, left>> /\ (sock = "closed" => sock' = "closed")
  BY DEF TNext, TStart, TCheck, TExit, TDone, exceptT, rest, conn, Exit
<1>2. Unopened' = Unopened
  BY <1>1 DEF Unopened
<1> QED BY <1>1, <1>2 DEF IInv, Notified, Taken, Departure, ReaderUpdates

\* P takes the notification, stops when it is no longer Opened, and leaves when R has ended.
LEMMA PLife == IInv /\ PNext => (Notified /\ Taken /\ Departure /\ ReaderUpdates)'
<1> SUFFICES ASSUME IInv, PNext PROVE (Notified /\ Taken /\ Departure /\ ReaderUpdates)'
  OBVIOUS
<1> USE DEF IInv, Notified, Taken, Departure, ReaderUpdates, Ended, PGoto, exceptP, pLife, pRest, conn
<1>1. CASE PTakeClosed
  BY <1>1 DEF PTakeClosed, TypeOK, ClosingPCs
<1>2. CASE PLeave
  BY <1>2 DEF PLeave, ClosingPCs
<1>3. CASE PWait
  <2>1. pcR = "done"
    BY <1>3 DEF PWait, ClosingPCs, WaitCount, One
  <2>2. Unopened' = Unopened
    BY <1>3 DEF PWait, Unopened
  <2> QED BY <1>3, <2>1, <2>2 DEF PWait, ClosingPCs
<1>4. CASE PLoop
  <2>1. Unopened' = Unopened
    BY <1>4 DEF PLoop, Unopened
  <2>2. "Opened" \notin flag => Unopened
    BY DEF Unopened
  <2> QED BY <1>4, <2>1, <2>2 DEF PLoop, ClosingPCs
<1>5. CASE PExiting \/ PReset \/ PDrain \/ PCloseReceived \/ PCloseSend \/ PCloseClosed
  <2> USE <1>5 DEF PExiting, PReset, PDrain, PCloseReceived, PCloseSend, PCloseClosed, CloseChannel
  <2>1. /\ pcP \in ClosingPCs \ {"done"} /\ pcP' \in ClosingPCs \ {"leave"}
        /\ UNCHANGED <<notifiers, sock, flag, upd, pcR, left>>
    BY DEF ClosingPCs
  <2>2. Unopened' = Unopened
    BY <2>1 DEF Unopened
  <2> QED BY <2>1, <2>2
<1>6. CASE \/ PStart \/ PToken \/ PWrite \/ PWriteFail \/ PTakePacket \/ PCallback \/ PCallbackFail
           \/ \E t \in Callers : PTakeSend(t)
  <2> USE <1>6 DEF PStart, PToken, PWrite, PWriteFail, PTakePacket, PCallback, PCallbackFail,
                   CallbackReturns, PTakeSend, Exit
  <2>1. /\ pcP \notin ClosingPCs /\ pcP' \notin ClosingPCs /\ pcP # "leave" /\ pcP' # "leave" /\ pcP # "done"
        /\ UNCHANGED <<notifiers, flag, upd, pcR, closed, left>>
        /\ sock = "closed" => sock' = "closed"
    BY DEF ClosingPCs
  <2>2. Unopened' = Unopened
    BY <2>1 DEF Unopened
  <2> QED BY <2>1, <2>2
<1> QED BY <1>1, <1>2, <1>3, <1>4, <1>5, <1>6 DEF PNext

\* The others: an update stores a value that was loaded from the flag.
LEMMA OtherLife == IInv /\ OtherNext => (Notified /\ Taken /\ Departure /\ ReaderUpdates)'
<1> SUFFICES ASSUME IInv, OtherNext PROVE (Notified /\ Taken /\ Departure /\ ReaderUpdates)'
  OBVIOUS
<1> USE DEF IInv, Notified, Taken, Departure, ReaderUpdates, Ended
<1>1. ASSUME NEW t \in Updaters, Update(t)
      PROVE  (Notified /\ Taken /\ Departure /\ ReaderUpdates)'
  <2>1. UNCHANGED <<notifiers, sock, pcR, pcP, closed, left>>
    BY <1>1 DEF Update, UpdateTest, UpdateLoad, UpdateStore, UpdateLog, updRest, inR, inP
  <2>2. upd[t].pc # "idle" /\ \A u \in Updaters \ {t} : upd'[u] = upd[u]
    BY <1>1 DEF Update, UpdateTest, UpdateLoad, UpdateStore, UpdateLog, TypeOK
  <2>3. Unopened' => Unopened
    <3>0. upd \in [Updaters -> Updates]
      BY DEF TypeOK
    <3>1. CASE UpdateStore(t)
      <4>1. upd'[t].pc # "store"
        BY <3>0, <3>1 DEF UpdateStore, NoUpdate, Updates
      <4>2. CASE "Opened" \in upd[t].val
        BY <3>1, <2>2, <4>1, <4>2 DEF UpdateStore, Unopened
      <4>3. CASE "Opened" \notin upd[t].val
        BY <3>1, <4>3 DEF UpdateStore, Unopened
      <4> QED BY <4>2, <4>3
    <3>2. CASE UpdateLoad(t)
      <4>1. flag' = flag /\ upd'[t].val = flag
        BY <3>0, <3>2 DEF UpdateLoad
      <4> QED BY <4>1, <2>2 DEF Unopened
    <3>3. CASE UpdateTest(t) \/ UpdateLog(t)
      <4>1. flag' = flag /\ upd'[t].pc # "store"
        BY <3>0, <3>3 DEF UpdateTest, UpdateLog, NoUpdate, Updates
      <4> QED BY <4>1, <2>2, StillOpened
    <3> QED BY <1>1, <3>1, <3>2, <3>3 DEF Update
  <2> QED BY <2>1, <2>2, <2>3, ReaderIs
<1>2. ASSUME NEW s \in Setters, SetPacketFormat(s) \/ SetPacketFormat2(s)
      PROVE  (Notified /\ Taken /\ Departure /\ ReaderUpdates)'
  <2> USE <1>2 DEF SetPacketFormat, SetPacketFormat2, StartUpdate, userRest, inP, conn
  <2>1. UNCHANGED <<notifiers, sock, flag, pcR, pcP, closed, left>>
    OBVIOUS
  <2>2. upd'[Reader] = upd[Reader]
    BY ControllerAssumption, ReaderIs DEF TypeOK
  <2>3. Unopened' => Unopened
    <3>1. upd \in [Updaters -> Updates]
      BY DEF TypeOK
    <3>2. \A u \in Updaters : upd'[u] = upd[u] \/ upd'[u].pc = "test"
      BY <3>1
    <3> QED BY <2>1, <3>2, StillOpened
  <2> QED BY <2>1, <2>2, <2>3
<1>3. CASE \/ Tick \/ UserExit
           \/ \E t \in Callers : SendBytes(t)
           \/ \E b \in Batches : Deliver(b) \/ DeliverRecover(b)
           \/ \E s \in Senders : SendPacketsAndClose(s) \/ SendNext(s) \/ SendEnd(s)
  <2>1. /\ UNCHANGED <<notifiers, flag, upd, pcR, pcP, closed, left>>
        /\ sock = "closed" => sock' = "closed"
    BY <1>3 DEF Tick, UserExit, Exit, SendBytes, SendTest, SendWrite, SendRecover, Deliver,
                DeliverRecover, SendPacketsAndClose, SendNext, SendEnd, sendRest, deliverRest,
                userRest, conn, rest, inP, inR
  <2>2. Unopened' = Unopened
    BY <2>1 DEF Unopened
  <2> QED BY <2>1, <2>2
<1> QED BY <1>1, <1>2, <1>3 DEF OtherNext

\* The invariant holds in every reachable state, for every number of senders, setters, batches
\* and packets: what R, T, P and the users interleave never breaks the close sequence.
THEOREM Invariance == Spec => []IInv
<1>1. IInv /\ [Next]_vars => IInv'
  <2> SUFFICES ASSUME IInv, [Next]_vars PROVE IInv'
    OBVIOUS
  <2>1. TypeOK' /\ WaitCount'
    BY TypesStep DEF IInv
  <2>2. CASE UNCHANGED vars
    BY <2>1, <2>2 DEF vars, IInv, Notified, Taken, Unopened, Departure, ReaderUpdates
  <2>3. CASE RNext \/ TNext \/ PNext \/ OtherNext
    BY <2>1, <2>3, RLife, TLife, PLife, OtherLife DEF IInv
  <2> QED BY <2>2, <2>3 DEF Next, OtherNext
<1> QED BY <1>1, InitIInv, PTL DEF Spec

-----------------------------------------------------------------------------
(* Safety *)

\* Every variable keeps its type; in particular the WaitGroup never goes below zero, which
\* would be a panic of waitg.Done, and chReceived never exceeds its capacity.
THEOREM TypeCorrect == Spec => []TypeOK
<1>1. IInv => TypeOK
  BY DEF IInv
<1> QED BY <1>1, Invariance, PTL

\* No notifier is left to send on chClosed when P closes it (lines 207 and 228).
THEOREM NotifierSafe == Spec => []NotifierNeverPanics
<1>1. IInv => NotifierNeverPanics
  BY DEF IInv, Departure, Taken, NotifierNeverPanics
<1> QED BY <1>1, Invariance, PTL

\* R has stopped using bufRecv when P resets it (line 224).
THEOREM ReadBufferSafe == Spec => []ReadBufferFree
<1>1. IInv => ReadBufferFree
  BY DEF IInv, Taken, Ended, ReadBufferFree
<1> QED BY <1>1, Invariance, PTL

\* ControllerLeave is the last that is heard of a connection (line 231).
THEOREM LeavesLast == Spec => []LeaveIsLast
<1>1. IInv => LeaveIsLast
  BY DEF IInv, TypeOK, Departure, Taken, Notified, Ended, ClosingPCs, LeaveIsLast
<1> QED BY <1>1, Invariance, PTL

\* Without a concurrent SetPacketFormat no flag update overlaps P's store of cFlagClosing
\* (line 450), so that a connection is never opened again.
THEOREM StaysClosed == Setters = {} => (Spec => NeverReopened)
<1> SUFFICES ASSUME Setters = {} PROVE Spec => NeverReopened
  OBVIOUS
<1>1. IInv /\ [Next]_vars => [~("Opened" \notin flag /\ "Opened" \in flag')]_flag
  <2> SUFFICES ASSUME IInv, [Next]_vars, "Opened" \notin flag PROVE "Opened" \notin flag' \/ flag' = flag
    OBVIOUS
  <2>1. Unopened
    BY DEF Unopened
  <2>2. upd[Reader].pc = "idle"
    BY <2>1 DEF IInv, Taken, ReaderUpdates, Ended
  <2>3. CASE UNCHANGED vars
    BY <2>3 DEF vars
  <2>4. CASE RNext
    BY <2>4 DEF RNext, RStart, RRead, RReadFail, RParse, RParseFail, RUnknown, RDetermine,
                RHandshake, RHandshakeFail, RFail, RAcked, RReady, RDone, RGoto, exceptR
  <2>5. CASE TNext
    BY <2>5 DEF TNext, TStart, TCheck, TExit, TDone, exceptT
  <2>6. CASE PNext
    BY <2>6 DEF PNext, PStart, PLoop, PTakeSend, PToken, PWrite, PWriteFail, PTakePacket,
                PCallback, PCallbackFail, CallbackReturns, PTakeClosed, PExiting, PReset, PDrain,
                PCloseReceived, PCloseSend, PCloseClosed, CloseChannel, PWait, PLeave, pLife, pRest
  <2>7. CASE \E t \in Updaters : Update(t)
    BY <2>7, <2>2 DEF Updaters, Update, UpdateTest, UpdateLoad, UpdateStore, UpdateLog
  <2>8. CASE OtherNext /\ ~\E t \in Updaters : Update(t)
    BY <2>8 DEF OtherNext, Tick, UserExit, SendBytes, SendTest, SendWrite, SendRecover, Deliver,
                DeliverRecover, SendPacketsAndClose, SendNext, SendEnd, SetPacketFormat,
                SetPacketFormat2, sendRest, deliverRest, userRest
  <2> QED BY <2>3, <2>4, <2>5, <2>6, <2>7, <2>8 DEF Next, OtherNext
<1> QED BY <1>1, Invariance, PTL DEF Spec, NeverReopened

-----------------------------------------------------------------------------
(* Refinement *)

\* A step that keeps the socket's state or closes it, and neither leaves nor calls back, is a
\* Drop of Session or stutters.
LEMMA DropOrStutter ==
    ASSUME TypeOK, left' = left, sock' = sock \/ sock' = "closed",
           (pcP' = "callback") = (pcP = "callback")
    PROVE  [SessionOf!Next]_(SessionOf!vars)
BY DEF SessionOf!Next, SessionOf!Drop, SessionOf!vars, TypeOK

\* Controller implements the safety of Session for every value of the constants; that the
\* connection does leave is checked by TLC.
THEOREM SessionSafe == Spec => SessionOf!Init /\ [][SessionOf!Next]_(SessionOf!vars)
<1>1. Init => SessionOf!Init
  BY DEF Init, SessionOf!Init
<1>2. IInv /\ [Next]_vars => [SessionOf!Next]_(SessionOf!vars)
  <2> SUFFICES ASSUME IInv, [Next]_vars PROVE [SessionOf!Next]_(SessionOf!vars)
    OBVIOUS
  <2>0. TypeOK
    BY DEF IInv
  <2>1. CASE UNCHANGED vars
    BY <2>0, <2>1, DropOrStutter DEF vars
  <2>2. CASE RNext
    BY <2>0, <2>2, DropOrStutter
       DEF RNext, RStart, RRead, RReadFail, RParse, RParseFail, RUnknown, RDetermine,
           RHandshake, RHandshakeFail, RFail, RAcked, RReady, RDone, RGoto, exceptR, rest, conn,
           ExitAndNotify, Exit
  <2>3. CASE TNext
    BY <2>0, <2>3, DropOrStutter DEF TNext, TStart, TCheck, TExit, TDone, exceptT, rest, conn, Exit
  <2>4. CASE OtherNext
    BY <2>0, <2>4, DropOrStutter
       DEF OtherNext, Tick, UserExit, Exit, SendBytes, SendTest, SendWrite, SendRecover, Update,
           UpdateTest, UpdateLoad, UpdateStore, UpdateLog, Deliver, DeliverRecover,
           SendPacketsAndClose, SendNext, SendEnd, SetPacketFormat, SetPacketFormat2, sendRest,
           updRest, deliverRest, userRest, rest, conn, inP
  <2>5. CASE PTakePacket
    <3>1. left = 0
      BY <2>5 DEF PTakePacket, PGoto, IInv, Departure
    <3> QED BY <2>5, <3>1 DEF PTakePacket, PGoto, pLife, conn, SessionOf!Next, SessionOf!Call
  <2>6. CASE PCallback \/ PCallbackFail
    <3>1. left = 0
      BY <2>6 DEF PCallback, PCallbackFail, CallbackReturns, PGoto, IInv, Departure
    <3>2. UNCHANGED left /\ pcP = "callback" /\ pcP' = "loop"
      BY <2>6 DEF PCallback, PCallbackFail, CallbackReturns, PGoto, pLife
    <3>3. sock' = sock \/ sock' = "closed"
      BY <2>6 DEF PCallback, PCallbackFail, Exit, conn
    <3> QED BY <2>0, <3>1, <3>2, <3>3 DEF SessionOf!Next, SessionOf!Return, SessionOf!ReturnAndDrop, TypeOK
  <2>7. CASE PLeave
    <3>1. left = 0 /\ sock = "closed"
      BY <2>7 DEF PLeave, PGoto, IInv, Departure, Notified, Ended
    <3> QED BY <2>7, <3>1 DEF PLeave, PGoto, pRest, conn, SessionOf!Next, SessionOf!Leave
  <2>8. CASE PNext /\ ~(PTakePacket \/ PCallback \/ PCallbackFail \/ PLeave)
    BY <2>0, <2>8, DropOrStutter
       DEF PNext, PStart, PLoop, PTakeSend, PToken, PWrite, PWriteFail, PTakeClosed, PExiting,
           PReset, PDrain, PCloseReceived, PCloseSend, PCloseClosed, CloseChannel, PWait, PGoto,
           pLife, pRest, conn, Exit
  <2> QED BY <2>1, <2>2, <2>3, <2>4, <2>5, <2>6, <2>7, <2>8 DEF Next, OtherNext, PNext
<1> QED BY <1>1, <1>2, Invariance, PTL DEF Spec

-----------------------------------------------------------------------------
(* The data.                                                               *)
(*                                                                         *)
(* BatchInOrder speaks of the packet in P's hands alone. What makes it     *)
(* true is a property of the whole queue: of every batch it holds exactly  *)
(* the packets between the last one P took and the next one the batch's    *)
(* goroutine will push, in order (Queued). SendBufferAccounted needs to    *)
(* know that P holds a token only between two steps (TokenHeld) and that R *)
(* calls SendBytes once at a time (ReaderSends), as the users do by their  *)
(* guards. Both hold until P begins to close, which discards what is left. *)

\* The index of the last packet of batch b that P has taken from the queue.
LastTaken(b) == IF packet[1] = b THEN packet[2] ELSE served[b]

\* P holds a packet while the callback runs, and the batch's next one at that.
InHand ==
    IF pcP = "callback"
    THEN packet \in Packets /\ packet[2] = served[packet[1]] + 1
    ELSE packet = NoPacket

\* Every queued packet lies between the last taken and the next to be pushed of its batch, the
\* packets of a batch are queued in order, and none of them is missing.
Queued ==
    /\ \A b \in Batches : LastTaken(b) < batch[b].next
    /\ \A b \in Batches, i \in DOMAIN chReceived :
         chReceived[i][1] = b => LastTaken(b) < chReceived[i][2] /\ chReceived[i][2] < batch[b].next
    /\ \A i, j \in DOMAIN chReceived :
         i < j /\ chReceived[i][1] = chReceived[j][1] => chReceived[i][2] < chReceived[j][2]
    /\ \A b \in Batches, k \in Nat :
         LastTaken(b) < k /\ k < batch[b].next =>
           \E i \in DOMAIN chReceived : chReceived[i] = <<b, k>>

\* A batch that R has not read has nothing to push.
NotRead == \A b \in Batches : b > nBatches => batch[b].next = 1 /\ batch[b].n = 0

QInv == NotRead /\ (pcP \notin ClosingPCs => InHand /\ Queued)

Waiting == {t \in Callers : send[t].pc = "chan"}

Announced == SumFunctionOnSet([t \in Callers |-> send[t].n], Waiting)

\* P holds a token only between its receive from chSend and the use it makes of it.
TokenHeld == pcP # "token" => token = 0

\* R is in SendBytes only while it answers a handshake.
ReaderSends == send[Reader].pc # "idle" => pcR = "ack"

SInv ==
    /\ TokenHeld /\ ReaderSends /\ IsFiniteSet(Waiting)
    /\ pcP \notin ClosingPCs => bufSend = token + Announced

DInv == QInv /\ SInv

-----------------------------------------------------------------------------
(* P does not come back from closing *)

\* Once P has begun to close it never takes another packet or token.
LEMMA ClosingStays == IInv /\ [Next]_vars /\ pcP \in ClosingPCs => pcP' \in ClosingPCs
<1> SUFFICES ASSUME IInv, [Next]_vars, pcP \in ClosingPCs PROVE pcP' \in ClosingPCs
  OBVIOUS
<1>1. CASE PNext
  BY <1>1 DEF PNext, PStart, PLoop, PTakeSend, PToken, PWrite, PWriteFail, PTakePacket, PCallback,
              PCallbackFail, CallbackReturns, PTakeClosed, PExiting, PReset, PDrain,
              PCloseReceived, PCloseSend, PCloseClosed, PWait, PLeave, PGoto, ClosingPCs
<1>2. CASE RNext \/ TNext \/ OtherNext \/ UNCHANGED vars
  <2>1. pcP' = pcP
    BY <1>2 DEF RNext, RStart, RRead, RReadFail, RParse, RParseFail, RUnknown, RDetermine,
                RHandshake, RHandshakeFail, RFail, RAcked, RReady, RDone, RGoto, exceptR,
                TNext, TStart, TCheck, TExit, TDone, exceptT, OtherNext, Tick, UserExit,
                SendBytes, SendTest, SendWrite, SendRecover, Update, UpdateTest, UpdateLoad,
                UpdateStore, UpdateLog, Deliver, DeliverRecover, SendPacketsAndClose, SendNext,
                SendEnd, SetPacketFormat, SetPacketFormat2, sendRest, updRest, deliverRest,
                userRest, inP, vars
  <2> QED BY <2>1
<1> QED BY <1>1, <1>2 DEF Next, OtherNext

-----------------------------------------------------------------------------
(* Packets *)

\* A step that moves no packet keeps what is known of the queue.
LEMMA QueueKept ==
    ASSUME IInv, QInv, [Next]_vars, UNCHANGED <<batch, nBatches>>,
           pcP' \notin ClosingPCs =>
             UNCHANGED <<chReceived, packet, served>> /\ (pcP' = "callback") = (pcP = "callback")
    PROVE  QInv'
<1>1. NotRead'
  BY DEF QInv, NotRead
<1>2. ASSUME pcP' \notin ClosingPCs PROVE InHand' /\ Queued'
  <2>1. InHand /\ Queued
    BY <1>2, ClosingStays DEF QInv
  <2>2. InHand'
    BY <1>2, <2>1 DEF InHand
  <2>3. Queued'
    BY <1>2, <2>1 DEF Queued, LastTaken
  <2> QED BY <2>2, <2>3
<1> QED BY <1>1, <1>2 DEF QInv

\* Batches and queued packets are of their types.
LEMMA PacketTypes ==
    ASSUME IInv
    PROVE  /\ \A b \in Batches : batch[b].next \in Nat \ {0} /\ batch[b].n \in Nat /\ served[b] \in Nat
           /\ Batches \subseteq Nat \ {0} /\ NoPacket[1] \notin Batches
           /\ Packets = Batches \X (1..BatchSize) /\ 1..BatchSize \subseteq Nat \ {0}
           /\ Len(chReceived) \in Nat /\ DOMAIN chReceived = 1..Len(chReceived)
           /\ \A i \in DOMAIN chReceived : chReceived[i] \in Packets
           /\ \A q \in Packets : q[1] \in Batches /\ q[2] \in Nat \ {0} /\ q = <<q[1], q[2]>>
<1> USE ControllerAssumption
<1>1. ASSUME NEW b \in Batches
      PROVE  batch[b].next \in Nat \ {0} /\ batch[b].n \in Nat /\ served[b] \in Nat
  <2>1. batch[b] \in Deliveries /\ served[b] \in Nat
    BY DEF IInv, TypeOK
  <2>2. 1..(BatchSize + 1) \subseteq Nat \ {0} /\ 0..BatchSize \subseteq Nat
    OBVIOUS
  <2> QED BY <2>1, <2>2 DEF Deliveries
<1>2. Batches \subseteq Nat \ {0} /\ NoPacket[1] \notin Batches
  BY DEF Batches, NoPacket
<1>3. 1..BatchSize \subseteq Nat \ {0}
  OBVIOUS
<1>4. chReceived \in Seq(Packets)
  BY DEF IInv, TypeOK
<1>5. \A q \in Packets : q[1] \in Batches /\ q[2] \in Nat \ {0} /\ q = <<q[1], q[2]>>
  BY <1>3 DEF Packets
<1>6. /\ Len(chReceived) \in Nat /\ DOMAIN chReceived = 1..Len(chReceived)
      /\ \A i \in DOMAIN chReceived : chReceived[i] \in Packets
  BY <1>4
<1>7. Packets = Batches \X (1..BatchSize)
  BY DEF Packets
<1> QED BY <1>1, <1>2, <1>3, <1>5, <1>6, <1>7

\* Parsing gives a new batch to a goroutine of its own, which has pushed nothing.
LEMMA ParseKeeps == IInv /\ QInv /\ RParse => QInv'
<1> SUFFICES ASSUME IInv, QInv, RParse PROVE QInv'
  OBVIOUS
<1>1. UNCHANGED <<chReceived, packet, served, pcP>>
  BY DEF RParse, exceptR, rest
<1>2. nBatches \in Nat /\ batch \in [Batches -> Deliveries] /\ MaxBatches \in Nat
  BY ControllerAssumption DEF IInv, TypeOK
<1>3. NotRead' /\ \A b \in Batches : batch'[b].next = batch[b].next
  <2>1. CASE UNCHANGED <<batch, nBatches>>
    BY <2>1 DEF QInv, NotRead
  <2>2. ASSUME nBatches' = nBatches + 1, nBatches < MaxBatches, NEW n \in 1..BatchSize,
               batch' = [batch EXCEPT ![nBatches + 1] = [next |-> 1, n |-> n]]
        PROVE  NotRead' /\ \A b \in Batches : batch'[b].next = batch[b].next
    <3>1. nBatches + 1 \in Batches /\ batch[nBatches + 1].next = 1
      BY <1>2, <2>2 DEF QInv, NotRead, Batches
    <3>2. batch'[nBatches + 1].next = 1
      BY <1>2, <2>2, <3>1
    <3>3. \A b \in Batches : b # nBatches + 1 => batch'[b] = batch[b]
      BY <1>2, <2>2
    <3>4. \A b \in Batches : b > nBatches + 1 => b > nBatches /\ b # nBatches + 1
      BY <1>2 DEF Batches
    <3> QED BY <2>2, <3>1, <3>2, <3>3, <3>4 DEF QInv, NotRead
  <2> QED BY <2>1, <2>2 DEF RParse
<1>4. ASSUME pcP \notin ClosingPCs PROVE InHand' /\ Queued'
  <2>1. InHand'
    BY <1>1, <1>4 DEF QInv, InHand
  <2>2. \A i \in DOMAIN chReceived : chReceived[i][1] \in Batches
    BY PacketTypes
  <2>3. Queued'
    BY <1>1, <1>3, <1>4, <2>2 DEF QInv, Queued, LastTaken
  <2> QED BY <2>1, <2>3
<1> QED BY <1>1, <1>3, <1>4 DEF QInv

\* A push adds the batch's next packet behind all that it has pushed before.
LEMMA DeliverKeeps ==
    ASSUME IInv, QInv, NEW b \in Batches, Deliver(b)
    PROVE  QInv'
<1> DEFINE x == batch[b].next
           q == <<b, x>>
           N == Len(chReceived)
<1>1. /\ UNCHANGED <<packet, served, pcP, nBatches>> /\ chReceived' = Append(chReceived, q)
      /\ batch' = [batch EXCEPT ![b].next = @ + 1] /\ x <= batch[b].n
  BY DEF Deliver, deliverRest, inP
<1>2. /\ batch \in [Batches -> Deliveries] /\ x \in Nat \ {0} /\ batch[b].n \in 0..BatchSize
      /\ BatchSize \in Nat
  BY PacketTypes, ControllerAssumption DEF IInv, TypeOK, Deliveries
<1>3. q \in Packets
  BY <1>1, <1>2 DEF Packets
<1>4. /\ DOMAIN chReceived' = 1..(N + 1) /\ chReceived'[N + 1] = q /\ N \in Nat
      /\ DOMAIN chReceived = 1..N /\ \A i \in 1..N : chReceived'[i] = chReceived[i]
  <2>1. chReceived \in Seq(Packets)
    BY DEF IInv, TypeOK
  <2> QED BY <1>1, <1>3, <2>1
<1>5. batch'[b].next = x + 1 /\ batch'[b].n = batch[b].n
  BY <1>1, <1>2 DEF Deliveries
<1>6. \A d \in Batches : d # b => batch'[d] = batch[d]
  BY <1>1, <1>2
<1>7. NotRead'
  <2>1. ~(b > nBatches)
    BY <1>1, <1>2 DEF QInv, NotRead
  <2> QED BY <1>1, <1>6, <2>1 DEF QInv, NotRead
<1>8. ASSUME pcP \notin ClosingPCs PROVE InHand' /\ Queued'
  <2>1. InHand' /\ InHand /\ Queued
    BY <1>1, <1>8 DEF QInv, InHand
  <2>2. \A d \in Batches : LastTaken(d)' = LastTaken(d)
    BY <1>1 DEF LastTaken
  <2>3. \A i \in 1..N : chReceived[i][1] \in Batches /\ chReceived[i][2] \in Nat
    BY <1>4, PacketTypes
  <2>4. \A d \in Batches : LastTaken(d) \in Nat
    <3>1. packet \in Packets \cup {NoPacket}
      BY DEF IInv, TypeOK
    <3>2. packet[2] \in Nat
      BY <3>1, PacketTypes DEF NoPacket
    <3> QED BY <3>2, PacketTypes DEF LastTaken
  <2>5. q[1] = b /\ q[2] = x
    OBVIOUS
  <2>6. \A d \in Batches : batch[d].next \in Nat
    BY PacketTypes
  <2> HIDE DEF x, q, N
  <2>7. \A d \in Batches : LastTaken(d)' < batch'[d].next
    BY <1>2, <1>5, <1>6, <2>1, <2>2, <2>4, <2>6 DEF Queued, x
  <2>8. ASSUME NEW d \in Batches, NEW i \in DOMAIN chReceived', chReceived'[i][1] = d
        PROVE  LastTaken(d)' < chReceived'[i][2] /\ chReceived'[i][2] < batch'[d].next
    <3>1. CASE i = N + 1
      <4>1. d = b /\ chReceived'[i][2] = x
        BY <1>4, <2>5, <2>8, <3>1
      <4> QED BY <1>2, <1>5, <2>1, <2>2, <4>1 DEF Queued, x
    <3>2. CASE i \in 1..N
      <4>1. LastTaken(d) < chReceived[i][2] /\ chReceived[i][2] < batch[d].next
        BY <1>4, <2>1, <2>8, <3>2 DEF Queued
      <4>2. chReceived[i][2] < batch'[d].next
        BY <1>2, <1>5, <1>6, <2>3, <2>6, <3>2, <4>1 DEF x
      <4> QED BY <1>4, <2>2, <3>2, <4>1, <4>2
    <3> QED BY <1>4, <3>1, <3>2
  <2>9. ASSUME NEW i \in DOMAIN chReceived', NEW j \in DOMAIN chReceived', i < j,
               chReceived'[i][1] = chReceived'[j][1]
        PROVE  chReceived'[i][2] < chReceived'[j][2]
    <3>1. i \in 1..N
      BY <1>4, <2>9
    <3>2. CASE j = N + 1
      BY <1>4, <2>1, <2>5, <2>9, <3>1, <3>2 DEF Queued, x
    <3>3. CASE j \in 1..N
      BY <1>4, <2>1, <2>9, <3>1, <3>3 DEF Queued
    <3> QED BY <1>4, <3>2, <3>3
  <2>10. ASSUME NEW d \in Batches, NEW k \in Nat, LastTaken(d)' < k, k < batch'[d].next
         PROVE  \E i \in DOMAIN chReceived' : chReceived'[i] = <<d, k>>
    <3>1. CASE d = b /\ k = x
      <4>1. N + 1 \in DOMAIN chReceived' /\ chReceived'[N + 1] = <<d, k>>
        BY <1>4, <3>1 DEF q
      <4> QED BY <4>1
    <3>2. CASE ~(d = b /\ k = x)
      <4>1. LastTaken(d) < k /\ k < batch[d].next
        BY <1>2, <1>5, <1>6, <2>2, <2>10, <3>2 DEF x
      <4>2. PICK i \in DOMAIN chReceived : chReceived[i] = <<d, k>>
        BY <2>1, <4>1 DEF Queued
      <4>3. i \in DOMAIN chReceived' /\ chReceived'[i] = <<d, k>>
        BY <1>4, <4>2
      <4> QED BY <4>3
    <3> QED BY <3>1, <3>2
  <2> QED BY <2>1, <2>7, <2>8, <2>9, <2>10 DEF Queued
<1> QED BY <1>1, <1>7, <1>8 DEF QInv

\* A push gives up only when the queue has been closed, and then P is closing.
LEMMA RecoverKeeps ==
    ASSUME IInv, QInv, NEW b \in Batches, DeliverRecover(b)
    PROVE  QInv'
<1>1. /\ UNCHANGED <<pcP, nBatches>> /\ pcP \in ClosingPCs /\ batch[b].next <= batch[b].n
      /\ batch' = [batch EXCEPT ![b].next = batch[b].n + 1]
  BY DEF DeliverRecover, deliverRest, inP, IInv, Departure
<1>2. batch[b].next \in Nat \ {0} /\ batch[b].n \in Nat
  BY PacketTypes
<1>3. ~(b > nBatches)
  BY <1>1, <1>2 DEF QInv, NotRead
<1>4. \A d \in Batches : d # b => batch'[d] = batch[d]
  BY <1>1 DEF IInv, TypeOK
<1> QED BY <1>1, <1>3, <1>4 DEF QInv, NotRead

\* P takes the packet at the head, which is its batch's next.
LEMMA TakeKeeps == IInv /\ QInv /\ PTakePacket => QInv'
<1> SUFFICES ASSUME IInv, QInv, PTakePacket PROVE QInv'
  OBVIOUS
<1> DEFINE q == Head(chReceived)
           N == Len(chReceived)
<1>1. /\ pcP = "select" /\ pcP' = "callback" /\ pcP \notin ClosingPCs /\ chReceived # <<>>
      /\ packet' = q /\ chReceived' = Tail(chReceived) /\ UNCHANGED <<served, batch, nBatches>>
  BY DEF PTakePacket, PGoto, exceptP, ClosingPCs
<1>2. packet = NoPacket /\ Queued
  BY <1>1 DEF QInv, InHand
<1>3. /\ q = chReceived[1] /\ N \in Nat \ {0} /\ DOMAIN chReceived = 1..N
      /\ DOMAIN chReceived' = 1..(N - 1)
      /\ \A i \in 1..(N - 1) : chReceived'[i] = chReceived[i + 1] /\ i + 1 \in 1..N
  <2>1. chReceived \in Seq(Packets)
    BY DEF IInv, TypeOK
  <2> QED BY <1>1, <2>1
<1>4. q \in Packets /\ q[1] \in Batches /\ q[2] \in Nat \ {0} /\ q = <<q[1], q[2]>>
  BY <1>3, PacketTypes
<1>5. \A d \in Batches : LastTaken(d) = served[d] /\ served[d] \in Nat /\ batch[d].next \in Nat
  BY <1>2, PacketTypes DEF LastTaken
<1>6. \A d \in Batches : LastTaken(d)' = IF d = q[1] THEN q[2] ELSE served[d]
  BY <1>1 DEF LastTaken
<1>7. \A i \in DOMAIN chReceived : chReceived[i][1] \in Batches /\ chReceived[i][2] \in Nat
  BY PacketTypes
<1> HIDE DEF q, N
<1>8. served[q[1]] < q[2] /\ q[2] < batch[q[1]].next
  BY <1>2, <1>3, <1>4, <1>5 DEF Queued
<1>9. q[2] = served[q[1]] + 1
  <2>1. SUFFICES ASSUME q[2] # served[q[1]] + 1 PROVE FALSE
    OBVIOUS
  <2>2. served[q[1]] + 1 \in Nat /\ served[q[1]] + 1 < q[2] /\ served[q[1]] < served[q[1]] + 1
    BY <1>4, <1>5, <1>8, <2>1
  <2>3. served[q[1]] + 1 < batch[q[1]].next
    BY <1>4, <1>5, <1>8, <2>2
  <2>4. PICK i \in DOMAIN chReceived : chReceived[i] = <<q[1], served[q[1]] + 1>>
    BY <1>2, <1>4, <1>5, <2>2, <2>3 DEF Queued
  <2>5. i # 1 /\ 1 \in DOMAIN chReceived
    BY <1>3, <2>2, <2>4
  <2>6. q[2] < chReceived[i][2]
    <3>1. 1 < i /\ chReceived[1][1] = chReceived[i][1]
      BY <1>3, <2>4, <2>5
    <3> QED BY <1>2, <1>3, <2>5, <3>1 DEF Queued
  <2> QED BY <1>4, <2>2, <2>4, <2>6
<1>10. InHand'
  BY <1>1, <1>4, <1>9 DEF InHand
<1>11. \A d \in Batches : LastTaken(d)' < batch'[d].next
  BY <1>1, <1>2, <1>5, <1>6, <1>8 DEF Queued
<1>12. ASSUME NEW d \in Batches, NEW i \in DOMAIN chReceived', chReceived'[i][1] = d
       PROVE  LastTaken(d)' < chReceived'[i][2] /\ chReceived'[i][2] < batch'[d].next
  <2>1. /\ i + 1 \in DOMAIN chReceived /\ chReceived'[i] = chReceived[i + 1]
        /\ 1 \in DOMAIN chReceived /\ 1 < i + 1
    BY <1>3
  <2>2. served[d] < chReceived[i + 1][2] /\ chReceived[i + 1][2] < batch[d].next
    BY <1>2, <1>5, <1>12, <2>1 DEF Queued
  <2>3. d = q[1] => q[2] < chReceived[i + 1][2]
    BY <1>2, <1>3, <1>12, <2>1 DEF Queued
  <2> QED BY <1>1, <1>6, <2>1, <2>2, <2>3
<1>13. ASSUME NEW i \in DOMAIN chReceived', NEW j \in DOMAIN chReceived', i < j,
              chReceived'[i][1] = chReceived'[j][1]
       PROVE  chReceived'[i][2] < chReceived'[j][2]
  <2>1. /\ i + 1 \in DOMAIN chReceived /\ chReceived'[i] = chReceived[i + 1]
        /\ j + 1 \in DOMAIN chReceived /\ chReceived'[j] = chReceived[j + 1] /\ i + 1 < j + 1
    BY <1>3, <1>13
  <2> QED BY <1>2, <1>13, <2>1 DEF Queued
<1>14. ASSUME NEW d \in Batches, NEW k \in Nat, LastTaken(d)' < k, k < batch'[d].next
       PROVE  \E i \in DOMAIN chReceived' : chReceived'[i] = <<d, k>>
  <2>1. served[d] < k /\ k < batch[d].next /\ <<d, k>> # q
    BY <1>1, <1>4, <1>5, <1>6, <1>8, <1>14
  <2>2. PICK i \in DOMAIN chReceived : chReceived[i] = <<d, k>>
    BY <1>2, <1>5, <2>1 DEF Queued
  <2>3. i - 1 \in DOMAIN chReceived' /\ chReceived'[i - 1] = chReceived[(i - 1) + 1] /\ (i - 1) + 1 = i
    BY <1>3, <2>1, <2>2
  <2> QED BY <2>2, <2>3
<1>15. Queued'
  BY <1>11, <1>12, <1>13, <1>14 DEF Queued
<1> QED BY <1>1, <1>10, <1>15 DEF QInv, NotRead

\* The callback returns: the packet is served.
LEMMA CallbackKeeps == IInv /\ QInv /\ CallbackReturns => QInv'
<1> SUFFICES ASSUME IInv, QInv, CallbackReturns PROVE QInv'
  OBVIOUS
<1>1. /\ pcP = "callback" /\ pcP' = "loop" /\ pcP \notin ClosingPCs /\ packet' = NoPacket
      /\ served' = [served EXCEPT ![packet[1]] = packet[2]]
      /\ UNCHANGED <<chReceived, batch, nBatches>>
  BY DEF CallbackReturns, PGoto, exceptP, ClosingPCs
<1>2. Queued /\ packet \in Packets
  BY <1>1 DEF QInv, InHand
<1>3. \A d \in Batches : LastTaken(d)' = LastTaken(d)
  BY <1>1, <1>2, PacketTypes DEF LastTaken, IInv, TypeOK
<1>4. Queued'
  BY <1>1, <1>2, <1>3 DEF Queued
<1>5. InHand'
  BY <1>1 DEF InHand
<1> QED BY <1>1, <1>4, <1>5 DEF QInv, NotRead

\* Every other step of R, T, P and of the users moves no packet, unless P is closing.
LEMMA QueueStep == IInv /\ QInv /\ [Next]_vars => QInv'
<1> SUFFICES ASSUME IInv, QInv, [Next]_vars PROVE QInv'
  OBVIOUS
<1>1. CASE RParse
  BY <1>1, ParseKeeps
<1>2. CASE \E b \in Batches : Deliver(b) \/ DeliverRecover(b)
  BY <1>2, DeliverKeeps, RecoverKeeps
<1>3. CASE PTakePacket \/ PCallback \/ PCallbackFail
  BY <1>3, TakeKeeps, CallbackKeeps DEF PCallback, PCallbackFail
<1>4. CASE PDrain
  <2>1. pcP' \in ClosingPCs /\ UNCHANGED <<batch, nBatches>>
    BY <1>4 DEF PDrain, PGoto, exceptP, ClosingPCs
  <2> QED BY <2>1, QueueKept
<1>5. CASE \/ PStart \/ PLoop \/ PToken \/ PWrite \/ PWriteFail \/ PTakeClosed \/ PExiting
           \/ PReset \/ PCloseReceived \/ PCloseSend \/ PCloseClosed \/ PWait \/ PLeave
           \/ \E t \in Callers : PTakeSend(t)
  <2>1. /\ UNCHANGED <<batch, nBatches, chReceived, packet, served>>
        /\ pcP # "callback" /\ pcP' # "callback"
    BY <1>5 DEF PStart, PLoop, PToken, PWrite, PWriteFail, PTakeClosed, PExiting, PReset,
                PCloseReceived, PCloseSend, PCloseClosed, CloseChannel, PWait, PLeave, PTakeSend,
                PGoto, exceptP, pRecv, pRest
  <2> QED BY <2>1, QueueKept
<1>6. CASE (RNext /\ ~RParse) \/ TNext \/ UNCHANGED vars
  <2>1. UNCHANGED <<batch, nBatches, chReceived, packet, served, pcP>>
    BY <1>6 DEF RNext, RStart, RRead, RReadFail, RParseFail, RUnknown, RDetermine,
                RHandshake, RHandshakeFail, RFail, RAcked, RReady, RDone, RGoto, exceptR,
                TNext, TStart, TCheck, TExit, TDone, exceptT, rest, inR, vars
  <2> QED BY <2>1, QueueKept
<1>7. CASE OtherNext /\ ~\E b \in Batches : Deliver(b) \/ DeliverRecover(b)
  <2>1. UNCHANGED <<batch, nBatches, chReceived, packet, served, pcP>>
    BY <1>7 DEF OtherNext, Tick, UserExit,
                SendBytes, SendTest, SendWrite, SendRecover, Update, UpdateTest, UpdateLoad,
                UpdateStore, UpdateLog, SendPacketsAndClose, SendNext, SendEnd, SetPacketFormat,
                SetPacketFormat2, sendRest, updRest, userRest, inP, inR, rest
  <2> QED BY <2>1, QueueKept
<1> QED BY <1>1, <1>2, <1>3, <1>4, <1>5, <1>6, <1>7 DEF Next, OtherNext, PNext

-----------------------------------------------------------------------------
(* Bytes *)

\* What the sum ranges over is natural.
LEMMA SendTypes ==
    ASSUME IInv
    PROVE  /\ send \in [Callers -> Sends] /\ \A t \in Callers : send[t].n \in Nat
           /\ bufSend \in Nat /\ token \in Nat
<1>1. send \in [Callers -> Sends] /\ bufSend \in Nat /\ token \in Nat
  BY DEF IInv, TypeOK
<1> QED BY <1>1 DEF Sends

\* What is announced is a natural number, and nothing when nobody waits.
LEMMA AnnouncedType ==
    ASSUME IInv, IsFiniteSet(Waiting)
    PROVE  Announced \in Nat
<1> DEFINE f == [t \in Callers |-> send[t].n]
<1>1. \A t \in Waiting : f[t] \in Nat
  BY SendTypes DEF Waiting
<1> HIDE DEF f
<1>2. SumFunctionOnSet(f, Waiting) \in Nat
  BY <1>1, SumType
<1> QED BY <1>2 DEF Announced, f

\* While the same callers wait with the same lengths, the sum is the same.
LEMMA AnnouncedKept ==
    ASSUME IInv, IsFiniteSet(Waiting), Waiting' = Waiting,
           \A t \in Waiting : send'[t].n = send[t].n
    PROVE  Announced' = Announced
<1> DEFINE f == [t \in Callers |-> send[t].n]
           e == [t \in Callers |-> send'[t].n]
<1>1. \A t \in Waiting : f[t] \in Nat /\ e[t] = f[t]
  BY SendTypes DEF Waiting
<1> HIDE DEF f, e
<1>2. SumFunctionOnSet(f, Waiting) = SumFunctionOnSet(e, Waiting)
  BY <1>1, SumSame
<1>3. Announced = SumFunctionOnSet(f, Waiting)
  BY DEF Announced, f
<1>4. Announced' = SumFunctionOnSet(e, Waiting)
  BY DEF Announced, e
<1> QED BY <1>2, <1>3, <1>4

\* A caller that was not and is not blocked on chSend changes who waits for what in no way.
LEMMA OthersWait ==
    ASSUME IInv, NEW t \in Callers, send[t].pc # "chan", NEW new \in Sends, new.pc # "chan",
           send' = [send EXCEPT ![t] = new]
    PROVE  Waiting' = Waiting /\ \A u \in Waiting : send'[u].n = send[u].n
<1>1. send'[t] = new /\ \A u \in Callers : u # t => send'[u] = send[u]
  BY SendTypes
<1> QED BY <1>1 DEF Waiting

\* A caller that comes to wait adds its length.
LEMMA AnnouncedAdds ==
    ASSUME IInv, IsFiniteSet(Waiting), NEW t \in Callers, send[t].pc # "chan",
           send' = [send EXCEPT ![t].pc = "chan"]
    PROVE  IsFiniteSet(Waiting)' /\ Announced' = Announced + send[t].n
<1> DEFINE f == [u \in Callers |-> send[u].n]
           e == [u \in Callers |-> send'[u].n]
<1>1. send'[t].pc = "chan" /\ send'[t].n = send[t].n
  BY SendTypes DEF Sends
<1>2. \A u \in Callers : u # t => send'[u] = send[u]
  BY SendTypes
<1>3. Waiting' = Waiting \cup {t} /\ t \notin Waiting
  BY <1>1, <1>2 DEF Waiting
<1>4. IsFiniteSet(Waiting')
  BY <1>3, FS_AddElement
<1>5. \A u \in Waiting \cup {t} : f[u] \in Nat /\ e[u] = f[u]
  BY <1>1, <1>2, SendTypes DEF Waiting
<1>6. Announced = SumFunctionOnSet(f, Waiting) /\ f[t] = send[t].n
  BY DEF Announced
<1>7. Announced' = SumFunctionOnSet(e, Waiting \cup {t})
  BY <1>3 DEF Announced
<1> HIDE DEF f, e
<1>8. SumFunctionOnSet(f, Waiting \cup {t}) = f[t] + SumFunctionOnSet(f, Waiting)
  BY <1>3, <1>5, SumAdd
<1>9. SumFunctionOnSet(f, Waiting \cup {t}) = SumFunctionOnSet(e, Waiting \cup {t})
  BY <1>3, <1>4, <1>5, SumSame
<1>10. Announced \in Nat /\ send[t].n \in Nat
  BY AnnouncedType, SendTypes
<1> QED BY <1>4, <1>6, <1>7, <1>8, <1>9, <1>10

\* A caller that stops waiting takes its length away.
LEMMA AnnouncedDrops ==
    ASSUME IInv, IsFiniteSet(Waiting), NEW t \in Callers, send[t].pc = "chan",
           send' = [send EXCEPT ![t] = NoSend]
    PROVE  IsFiniteSet(Waiting)' /\ Announced = send[t].n + Announced'
<1> DEFINE f == [u \in Callers |-> send[u].n]
           e == [u \in Callers |-> send'[u].n]
<1>1. send'[t].pc # "chan"
  BY SendTypes DEF NoSend
<1>2. \A u \in Callers : u # t => send'[u] = send[u]
  BY SendTypes
<1>3. Waiting' = Waiting \ {t} /\ t \in Waiting
  BY <1>1, <1>2 DEF Waiting
<1>4. IsFiniteSet(Waiting')
  BY <1>3, FS_Subset
<1>5. \A u \in Waiting : f[u] \in Nat
  BY SendTypes DEF Waiting
<1>6. \A u \in Waiting \ {t} : f[u] \in Nat /\ e[u] = f[u]
  BY <1>2, <1>5 DEF Waiting
<1>7. Announced = SumFunctionOnSet(f, Waiting) /\ f[t] = send[t].n
  BY DEF Announced
<1>8. Announced' = SumFunctionOnSet(e, Waiting \ {t})
  BY <1>3 DEF Announced
<1> HIDE DEF f, e
<1>9. SumFunctionOnSet(f, Waiting) = f[t] + SumFunctionOnSet(f, Waiting \ {t})
  BY <1>3, <1>5, SumSplit
<1>10. SumFunctionOnSet(f, Waiting \ {t}) = SumFunctionOnSet(e, Waiting \ {t})
  BY <1>3, <1>4, <1>6, SumSame
<1> QED BY <1>4, <1>7, <1>8, <1>9, <1>10

\* A step that leaves the buffer, the token and those who wait alone keeps the account.
LEMMA AccountKept ==
    ASSUME IInv, SInv, [Next]_vars, ReaderSends', UNCHANGED <<bufSend, token>>,
           pcP = "token" => pcP' = "token", Waiting' = Waiting, \A t \in Waiting : send'[t].n = send[t].n
    PROVE  SInv'
<1>1. Announced' = Announced
  BY AnnouncedKept DEF SInv
<1>2. TokenHeld' /\ IsFiniteSet(Waiting)'
  BY DEF SInv, TokenHeld
<1>3. pcP' \notin ClosingPCs => pcP \notin ClosingPCs
  BY ClosingStays
<1> QED BY <1>1, <1>2, <1>3 DEF SInv

\* R's own SendBytes, for a handshake, starts when it is in no other.
LEMMA RAccount == IInv /\ SInv /\ RNext => SInv'
<1> SUFFICES ASSUME IInv, SInv, RNext PROVE SInv'
  OBVIOUS
<1>1. [Next]_vars
  BY DEF Next
<1>2. UNCHANGED <<bufSend, token, pcP>>
  BY DEF RNext, RStart, RRead, RReadFail, RParse, RParseFail, RUnknown, RDetermine, RHandshake,
         RHandshakeFail, RFail, RAcked, RReady, RDone, RGoto, exceptR
<1>3. CASE RHandshake
  <2>1. pcR = "handshake" /\ pcR' = "ack"
    BY <1>3 DEF RHandshake, RGoto
  <2>2. PICK n \in PacketSizes \ {0} : StartSend(Reader, n)
    BY <1>3 DEF RHandshake
  <2>3. send[Reader].pc = "idle"
    BY <2>1 DEF SInv, ReaderSends
  <2>4. [pc |-> "test", n |-> n] \in Sends
    BY ControllerAssumption DEF Sends
  <2>5. Waiting' = Waiting /\ \A t \in Waiting : send'[t].n = send[t].n
    BY <2>2, <2>3, <2>4, OthersWait, ReaderIs DEF StartSend
  <2>6. ReaderSends'
    BY <2>1 DEF ReaderSends
  <2> QED BY <1>1, <1>2, <2>5, <2>6, AccountKept
<1>4. CASE ~RHandshake
  <2>1. send' = send /\ (pcR = "ack" => pcR' = "ack" \/ send[Reader].pc = "idle")
    BY <1>4 DEF RNext, RStart, RRead, RReadFail, RParse, RParseFail, RUnknown, RDetermine,
                RHandshakeFail, RFail, RAcked, RReady, RDone, RGoto
  <2>2. ReaderSends'
    BY <2>1 DEF SInv, ReaderSends
  <2>3. Waiting' = Waiting
    BY <2>1 DEF Waiting
  <2> QED BY <1>1, <1>2, <2>1, <2>2, <2>3, AccountKept
<1> QED BY <1>3, <1>4

\* SendBytes adds its bytes to the buffer when it comes to wait; it gives up waiting only when
\* chSend has been closed, and then P is closing.
LEMMA CallerAccount ==
    ASSUME IInv, SInv, NEW t \in Callers, SendBytes(t)
    PROVE  SInv'
<1>1. [Next]_vars /\ UNCHANGED <<token, pcP, pcR>>
  BY DEF Next, SendBytes, SendTest, SendWrite, SendRecover, sendRest, inR
<1>2. send \in [Callers -> Sends]
  BY SendTypes
<1>3. send[t].pc # "idle" /\ \A u \in Callers : u # t => send'[u] = send[u]
  BY <1>2 DEF SendBytes, SendTest, SendWrite, SendRecover
<1>4. ReaderSends'
  BY <1>1, <1>3, ReaderIs DEF SInv, ReaderSends
<1>5. CASE SendTest(t)
  <2>1. PICK new \in Sends : new.pc # "chan" /\ send' = [send EXCEPT ![t] = new]
    <3>1. [send[t] EXCEPT !.pc = "write"] \in Sends /\ [send[t] EXCEPT !.pc = "write"].pc # "chan"
      BY <1>2 DEF Sends
    <3>2. NoSend \in Sends /\ NoSend.pc # "chan"
      BY DEF NoSend, Sends
    <3>3. \/ send' = [send EXCEPT ![t] = [send[t] EXCEPT !.pc = "write"]]
          \/ send' = [send EXCEPT ![t] = NoSend]
      BY <1>5 DEF SendTest
    <3> QED BY <3>1, <3>2, <3>3
  <2>2. send[t].pc # "chan" /\ UNCHANGED bufSend
    BY <1>5 DEF SendTest
  <2>3. Waiting' = Waiting /\ \A u \in Waiting : send'[u].n = send[u].n
    BY <2>1, <2>2, OthersWait
  <2> QED BY <1>1, <1>4, <2>2, <2>3, AccountKept
<1>6. CASE SendWrite(t)
  <2>1. send[t].pc # "chan" /\ bufSend' = bufSend + send[t].n
    BY <1>6 DEF SendWrite
  <2>2. IsFiniteSet(Waiting)' /\ Announced' = Announced + send[t].n
    BY <1>6, <2>1, AnnouncedAdds DEF SInv, SendWrite
  <2>3. Announced \in Nat /\ send[t].n \in Nat /\ token \in Nat
    BY AnnouncedType, SendTypes DEF SInv
  <2>4. pcP' \notin ClosingPCs => bufSend' = token' + Announced'
    BY <1>1, <2>1, <2>2, <2>3 DEF SInv
  <2>5. TokenHeld'
    BY <1>1 DEF SInv, TokenHeld
  <2> QED BY <1>4, <2>2, <2>4, <2>5 DEF SInv
<1>7. CASE SendRecover(t)
  <2>1. send[t].pc = "chan" /\ pcP' \in ClosingPCs
    BY <1>1, <1>7 DEF SendRecover, IInv, Departure
  <2>2. IsFiniteSet(Waiting)'
    BY <1>7, <2>1, AnnouncedDrops DEF SendRecover, SInv
  <2>3. TokenHeld'
    BY <1>1 DEF SInv, TokenHeld
  <2> QED BY <1>4, <2>1, <2>2, <2>3 DEF SInv
<1> QED BY <1>5, <1>6, <1>7 DEF SendBytes

\* P takes a length from a caller, and then that many bytes out of the buffer.
LEMMA PAccount == IInv /\ SInv /\ PNext => SInv'
<1> SUFFICES ASSUME IInv, SInv, PNext PROVE SInv'
  OBVIOUS
<1>1. [Next]_vars /\ UNCHANGED pcR
  BY DEF Next, PNext, PStart, PLoop, PTakeSend, PToken, PWrite, PWriteFail, PTakePacket,
         PCallback, PCallbackFail, CallbackReturns, PTakeClosed, PExiting, PReset, PDrain,
         PCloseReceived, PCloseSend, PCloseClosed, PWait, PLeave, PGoto, exceptP
<1>2. send \in [Callers -> Sends] /\ bufSend \in Nat /\ token \in Nat
  BY SendTypes
<1>3. ASSUME NEW t \in Callers, PTakeSend(t) PROVE SInv'
  <2>1. /\ pcP = "select" /\ pcP' = "token" /\ send[t].pc = "chan" /\ token' = send[t].n
        /\ send' = [send EXCEPT ![t] = NoSend] /\ UNCHANGED bufSend
    BY <1>3 DEF PTakeSend, PGoto
  <2>2. IsFiniteSet(Waiting)' /\ Announced = send[t].n + Announced'
    BY <2>1, AnnouncedDrops DEF SInv
  <2>3. token = 0 /\ pcP \notin ClosingPCs /\ bufSend = Announced + token
    BY <1>2, <2>1, AnnouncedType DEF SInv, TokenHeld, ClosingPCs
  <2>4. bufSend' = token' + Announced'
    BY <1>2, <2>1, <2>2, <2>3
  <2>5. send'[Reader] = send[Reader] \/ send'[Reader].pc = "idle"
    BY <1>2, <2>1, ReaderIs DEF NoSend
  <2>6. ReaderSends'
    BY <1>1, <2>5 DEF SInv, ReaderSends
  <2> QED BY <2>1, <2>2, <2>4, <2>6 DEF SInv, TokenHeld
<1>4. CASE PToken
  <2>1. UNCHANGED send /\ pcP = "token" /\ token' = 0 /\ TakeBytes
    BY <1>4 DEF PToken, PGoto
  <2>2. Waiting' = Waiting /\ Announced' = Announced /\ IsFiniteSet(Waiting)'
    BY <2>1, AnnouncedKept DEF SInv, Waiting
  <2>3. Announced \in Nat /\ bufSend = token + Announced
    BY <2>1, AnnouncedType DEF SInv, ClosingPCs
  <2>4. bufSend' = token' + Announced'
    BY <1>2, <2>1, <2>2, <2>3 DEF TakeBytes
  <2> QED BY <1>1, <2>1, <2>2, <2>4 DEF SInv, TokenHeld, ReaderSends
<1>5. CASE PReset
  <2>1. UNCHANGED <<send, token>> /\ pcP # "token" /\ pcP' \in ClosingPCs
    BY <1>5 DEF PReset, PGoto, ClosingPCs
  <2>2. Waiting' = Waiting
    BY <2>1 DEF Waiting
  <2> QED BY <1>1, <2>1, <2>2 DEF SInv, TokenHeld, ReaderSends
<1>6. CASE ~(PToken \/ PReset \/ \E t \in Callers : PTakeSend(t))
  <2>1. UNCHANGED <<bufSend, send, token>> /\ pcP # "token"
    BY <1>6 DEF PNext, PStart, PLoop, PWrite, PWriteFail, PTakePacket, PCallback, PCallbackFail,
                CallbackReturns, PTakeClosed, PExiting, PDrain, PCloseReceived, PCloseSend,
                PCloseClosed, CloseChannel, PWait, PLeave, PGoto, pSend, pRest
  <2>2. Waiting' = Waiting /\ ReaderSends'
    BY <1>1, <2>1 DEF Waiting, SInv, ReaderSends
  <2> QED BY <1>1, <2>1, <2>2, AccountKept
<1> QED BY <1>3, <1>4, <1>5, <1>6

\* A sender calls SendBytes again when its last call has returned.
LEMMA SenderAccount ==
    ASSUME IInv, SInv, NEW s \in Senders, SendNext(s) \/ SendEnd(s)
    PROVE  SInv'
<1>1. [Next]_vars /\ UNCHANGED <<bufSend, token, pcP, pcR>> /\ s \in Callers /\ s # Reader
  BY ControllerAssumption DEF Next, SendNext, SendEnd, userRest, inP, Callers
<1>2. CASE UNCHANGED send
  <2>1. Waiting' = Waiting /\ ReaderSends'
    BY <1>1, <1>2 DEF Waiting, SInv, ReaderSends
  <2> QED BY <1>1, <1>2, <2>1, AccountKept
<1>3. CASE \E n \in PacketSizes \cup {0} : StartSend(s, n)
  <2>1. PICK n \in PacketSizes \cup {0} : StartSend(s, n)
    BY <1>3
  <2>2. [pc |-> "test", n |-> n] \in Sends
    BY ControllerAssumption DEF Sends
  <2>3. send[s].pc = "idle"
    BY DEF SendNext, SendEnd
  <2>4. Waiting' = Waiting /\ \A t \in Waiting : send'[t].n = send[t].n
    BY <1>1, <2>1, <2>2, <2>3, OthersWait DEF StartSend
  <2>5. send'[Reader] = send[Reader]
    BY <1>1, <2>1 DEF StartSend, IInv, TypeOK
  <2>6. ReaderSends'
    BY <1>1, <2>5 DEF SInv, ReaderSends
  <2> QED BY <1>1, <2>4, <2>6, AccountKept
<1> QED BY <1>2, <1>3 DEF SendNext, SendEnd

\* The account is kept by every step.
LEMMA AccountStep == IInv /\ SInv /\ [Next]_vars => SInv'
<1> SUFFICES ASSUME IInv, SInv, [Next]_vars PROVE SInv'
  OBVIOUS
<1>1. CASE RNext \/ PNext
  BY <1>1, RAccount, PAccount
<1>2. CASE \E t \in Callers : SendBytes(t)
  BY <1>2, CallerAccount
<1>3. CASE \E s \in Senders : SendNext(s) \/ SendEnd(s)
  BY <1>3, SenderAccount
<1>4. CASE \/ TNext \/ UNCHANGED vars
           \/ /\ OtherNext
              /\ ~\E t \in Callers : SendBytes(t)
              /\ ~\E s \in Senders : SendNext(s) \/ SendEnd(s)
  <2>1. UNCHANGED <<bufSend, token, send, pcP, pcR>>
    BY <1>4 DEF TNext, TStart, TCheck, TExit, TDone, exceptT, OtherNext, Tick, UserExit, Update,
                UpdateTest, UpdateLoad, UpdateStore, UpdateLog, Deliver, DeliverRecover,
                SendPacketsAndClose, SetPacketFormat, SetPacketFormat2, updRest, deliverRest,
                userRest, inP, inR, vars
  <2>2. Waiting' = Waiting /\ ReaderSends'
    BY <2>1 DEF Waiting, SInv, ReaderSends
  <2> QED BY <2>1, <2>2, AccountKept
<1> QED BY <1>1, <1>2, <1>3, <1>4 DEF Next, OtherNext

-----------------------------------------------------------------------------
(* Theorems *)

\* A new connection has neither packets nor bytes.
LEMMA InitDInv == Init => DInv
<1> SUFFICES ASSUME Init PROVE DInv
  OBVIOUS
<1>1. NotRead /\ InHand
  BY DEF Init, NotRead, InHand
<1>2. Queued
  <2>1. DOMAIN chReceived = {}
    BY DEF Init
  <2>2. NoPacket[1] \notin Batches /\ \A b \in Batches : served[b] = 0 /\ batch[b].next = 1
    BY ControllerAssumption DEF Init, NoPacket, Batches
  <2>3. \A b \in Batches : LastTaken(b) = 0
    BY <2>2 DEF Init, LastTaken
  <2> QED BY <2>1, <2>2, <2>3 DEF Queued
<1>3. Waiting = {} /\ IsFiniteSet(Waiting)
  BY FS_EmptySet DEF Init, Waiting, NoSend
<1>4. TokenHeld /\ ReaderSends
  BY ReaderIs DEF Init, TokenHeld, ReaderSends, NoSend
<1>5. bufSend = token + Announced
  <2>1. SumFunctionOnSet([t \in Callers |-> send[t].n], {}) = 0
    BY FS_EmptySet, SumType
  <2> QED BY <1>3, <2>1 DEF Announced, Init
<1> QED BY <1>1, <1>2, <1>3, <1>4, <1>5 DEF DInv, QInv, SInv

\* What is known of the queue and of the send buffer holds in every reachable state.
THEOREM DataInvariance == Spec => []DInv
<1>1. IInv /\ DInv /\ [Next]_vars => DInv'
  BY QueueStep, AccountStep DEF DInv
<1> QED BY <1>1, InitDInv, Invariance, PTL DEF Spec

\* The callback gets the packets of every read in order, without gap or repetition, for any
\* number of reads, packets per read and any capacity of chReceived.
THEOREM InOrder == Spec => []BatchInOrder
<1>1. DInv => BatchInOrder
  BY DEF DInv, QInv, InHand, BatchInOrder, ClosingPCs
<1> QED BY <1>1, DataInvariance, PTL

\* A token finds its bytes in the send buffer, whatever the number of senders and the sizes of
\* their packets.
THEOREM Accounted == Spec => []SendBufferAccounted
<1>1. DInv => SendBufferAccounted
  BY DEF DInv, SInv, Announced, Waiting, SendBufferAccounted
<1> QED BY <1>1, DataInvariance, PTL

\* In particular the branch of line 396 is dead: P never closes a connection for want of the
\* bytes that a sender has announced.
THEOREM TokenFindsBytes == Spec => [](pcP = "token" => token <= bufSend)
<1>1. IInv /\ DInv => (pcP = "token" => token <= bufSend)
  <2> SUFFICES ASSUME IInv, DInv, pcP = "token" PROVE token <= bufSend
    OBVIOUS
  <2>1. Announced \in Nat /\ token \in Nat /\ bufSend = token + Announced
    BY AnnouncedType, SendTypes DEF DInv, SInv, ClosingPCs
  <2> QED BY <2>1
<1> QED BY <1>1, Invariance, DataInvariance, PTL

=============================================================================
