------------------------------ MODULE Receive ------------------------------
(***************************************************************************)
(* The bytes of a peer on their way to packets: the loop of processRead in *)
(* tcp/controller.go over its receive buffer. A read returns any part of   *)
(* what is on its way (at most 512 bytes in the code), so that a message   *)
(* may arrive in any number of pieces, and a piece hold many.              *)
(*                                                                         *)
(* A peer is a script: its format, and its messages as the bytes it sends  *)
(* and the packets it means by them. A message of several WebSocket frames *)
(* says where its last frame begins. A clean peer keeps to its protocol,   *)
(* and to the part of it that this library supports.                       *)
(***************************************************************************)
EXTENDS Formats

CONSTANTS
    Scripts,        \* what peers may send
    Managers        \* sets of registered formats

ASSUME ManagersAssumption == Managers \subseteq SUBSET Tags

VARIABLES
    script,         \* the peer
    mgr,            \* the formats registered with the connection's manager
    arrived,        \* number of bytes read
    bufRecv,        \* controller.bufRecv
    packetFmt,      \* controller.packetFmt
    received,       \* the packets given to ReceivePackets, in order
    err,            \* the error that closes the connection, or "none"
    first,          \* bytes in the first read (history)
    cut             \* a read has ended inside the last frame of several (history)

vars == <<script, mgr, arrived, bufRecv, packetFmt, received, err, first, cut>>

\* The bytes of the first i messages, and of all.
Upto(i) == FlattenSeq([j \in 1..i |-> script.msgs[j].bytes])
Stream == Upto(Len(script.msgs))

\* Where the i-th message ends in the stream.
End(i) == Len(Upto(i))

Complete == Cardinality({i \in DOMAIN script.msgs : End(i) <= arrived})

\* The packets the peer means by the messages that have arrived whole.
Meant == FlattenSeq([j \in 1..Complete |-> script.msgs[j].pcks])

\* A WebSocket client sends nothing before the answer to its handshake.
Sendable == IF script.fmt = "ws" /\ packetFmt # "ws" THEN End(1) ELSE Len(Stream)

\* A read ends behind the first byte of the last of several frames, and not behind its last.
InLastFrame(n) ==
    \E i \in DOMAIN script.msgs :
        script.msgs[i].last > 0 /\ n \in (End(i - 1) + script.msgs[i].last)..(End(i) - 1)

Init ==
    /\ script \in Scripts /\ mgr \in {m \in Managers : script.fmt \in m}
    /\ arrived = 0 /\ first = 0
    /\ bufRecv = <<>> /\ received = <<>>
    /\ packetFmt = "nil" /\ err = "none"
    /\ cut = FALSE

\* One turn of processRead's loop: n bytes, and parsePacket.
Read(n) ==
    LET result == ParsePacket(mgr, packetFmt, bufRecv \o SubSeq(Stream, arrived + 1, arrived + n))
    IN  /\ err = "none"
        /\ arrived + n <= Sendable
        /\ arrived' = arrived + n
        /\ packetFmt' = result.tag
        /\ bufRecv' = result.parse.rest
        /\ received' = received \o result.parse.pcks
        /\ err' = result.parse.err
        /\ first' = IF arrived = 0 THEN n ELSE first
        /\ cut' = (cut \/ InLastFrame(arrived + n))
        /\ UNCHANGED <<script, mgr>>

Next == \E n \in 1..Len(Stream) : Read(n)

Spec == Init /\ [][Next]_vars

-----------------------------------------------------------------------------
(* Peers that keep to a protocol of one packet per message *)

Message == [bytes : Seq(Byte), pcks : Seq(Packet), last : Nat]

\* The packets that Package is given: CloveHeader's flags, a protocol whose type and version
\* TestMatchScore recognises, and no more than the 24 bits of a length can say.
Protos == {x \in Byte : x \div 16 # 0 /\ x % 16 # 0}
Payloads == {raw \in Seq(Byte) : Len(raw) + HeaderLength < 16777216}
ClovePackets == [type : {"binary"}, flags : 0..7, proto : Protos, raw : Payloads]

\* Requests that ask for no upgrade: a head, and as many bytes as it says.
HttpRequests ==
    {b \in Seq(Byte) :
        /\ HeadLength(b) >= HeadMin /\ b[1] \in Methods /\ b[2] = Plain
        /\ b[3] <= BodyMax /\ Len(b) = HeadLength(b) + b[3]}

CloveMessages ==
    {msg \in Message :
        Len(msg.pcks) = 1 /\ msg.pcks[1] \in ClovePackets /\ msg.bytes = ClovePackage(msg.pcks[1])}

HttpMessages == {msg \in Message : msg.bytes \in HttpRequests /\ msg.pcks = <<HttpPacket(msg.bytes)>>}

KeepsToIt(s) ==
    \/ s.fmt = "clove" /\ s.msgs \in Seq(CloveMessages)
    \/ s.fmt = "http" /\ s.msgs \in Seq(HttpMessages)

-----------------------------------------------------------------------------
(* Properties *)

\* The first read is too short for the one format that looks at the fewest bytes.
TooShort == "text" \in mgr /\ first < (IF "clove" \in mgr THEN HeaderLength ELSE HeadMin)

\* No format looks for the upgrade that an HTTP request asks for (http.go 159).
Unanswered == script.fmt = "http" /\ ReadRequest(Stream).asks = OtherUpgrade /\ "ws" \notin mgr

\* A peer is never taken for one of another format, unless its first read was so short, or its
\* request so unusual, that the default format was chosen for good (packet.go 194).
IdentifiedRight == packetFmt \in {"nil", script.fmt} \/ TooShort \/ Unanswered

\* The packets of a clean peer are received, whole and in order, as its messages complete, in
\* whatever pieces they arrive, and nothing closes the connection (clove.go 82-120, http.go
\* 69-135, ws.go 156-271). Unless a read ended inside the last frame of a WebSocket message of
\* several: the code then takes the frames before it for the whole message, or unmasks them twice.
Exact == script.clean /\ ~TooShort /\ ~cut => received = Meant /\ err = "none"

RawBytes(pcks) == FlattenSeq([j \in DOMAIN pcks |-> pcks[j].raw])

\* Whatever a peer sends, what is received is a part of what it meant, in order: a damaged
\* stream loses packets and invents none. Not so a clove length below its header's (clove.go
\* 103), after which payload is read as a header, nor the cut of Exact. Text has no packets of
\* its own, but no byte of it is lost or repeated (text.go 34-41).
NothingInvented ==
    IF script.fmt = "text" THEN RawBytes(received) \o bufRecv = SubSeq(Stream, 1, arrived)
    ELSE script.resync \/ cut \/ TooShort \/ Unanswered \/ IsPrefix(received, Meant)

=============================================================================
