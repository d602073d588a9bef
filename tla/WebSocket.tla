----------------------------- MODULE WebSocket -----------------------------
(***************************************************************************)
(* The WebSocket packet format, network/ws.go, over buffers of bytes: the  *)
(* handshake, the frames and their fragments.                              *)
(*                                                                         *)
(* A parse sees the whole receive buffer and unmasks payloads in place,    *)
(* also those of frames it then leaves there. Index errors on a frame's    *)
(* header panic; the recover of ParseFromBytes turns them into "nothing    *)
(* yet".                                                                   *)
(***************************************************************************)
EXTENDS Http

Continuation == 0
Text == 1
BinaryFrame == 2
CloseFrame == 8
Ping == 9
Pong == 10

\* A 64-bit length is cut to its low 32 bits.
LengthAt(b, i, n) == FoldLeft(LAMBDA v, x : v * 256 + x, 0, SubSeq(b, i, i + n - 1))

-----------------------------------------------------------------------------

\* getFrameLengths: of the header, with its masking key if there is one.
FrameHead(b) ==
    (IF b[2] >= 128 THEN 4 ELSE 0)
        + (CASE b[2] % 128 = 126 -> 4 [] b[2] % 128 = 127 -> 10 [] OTHER -> 2)

\* getFrameLengths: of the whole frame, once its header is there.
FrameLength(b) ==
    FrameHead(b) + (CASE b[2] % 128 = 126 -> LengthAt(b, 3, 2)
                      [] b[2] % 128 = 127 -> LengthAt(b, 7, 4)
                      [] OTHER -> b[2] % 128)

FrameThere(b) == Len(b) >= FrameHead(b) /\ Len(b) >= FrameLength(b)

\* getPayloadData: b with the payload of its first frame unmasked.
Unmasked(b) ==
    [i \in DOMAIN b |->
        IF b[2] >= 128 /\ i \in (FrameHead(b) + 1)..FrameLength(b)
        THEN Xor(b[i], b[FrameHead(b) - 3 + ((i - FrameHead(b) - 1) % 4)])
        ELSE b[i]]

\* checkFinishFrame: past the frames that are there, one that has begun is a last one. At the
\* end of the buffer, and one byte before it, the code panics.
FinishFrame[b \in Seq(Byte)] ==
    /\ b # <<>>
    /\ \/ b[1] >= 128
       \/ Len(b) >= 2 /\ FrameThere(b) /\ FinishFrame[From(b, FrameLength(b) + 1)]

Frame(type, raw) == [type |-> type, flags |-> 0, proto |-> 0, raw |-> raw]

\* The packet that a frame of opcode op makes of the packet so far (<<>> when there is none).
Recombined(op, recombining, pck, payload) ==
    CASE op = Continuation /\ recombining /\ pck # <<>> -> <<[pck[1] EXCEPT !.raw = @ \o payload]>>
      [] op = Text -> <<Frame("text", payload)>>
      [] op = BinaryFrame -> <<Frame("binary", payload)>>
      [] op = Ping -> <<Frame("ping", payload)>>
      [] OTHER -> <<>>

\* The loop of ParseFromBytes over the frames b, after the frames seen. The packet so far is
\* the answer when the next frame is not all there.
ParseFrames[seen \in Seq(Byte), b \in Seq(Byte), recombining \in BOOLEAN, pck \in Seq(Packet)] ==
    IF Len(b) < 2 THEN Parsed("none", <<>>, seen \o b)
    ELSE IF ~FrameThere(b) THEN Parsed("none", pck, b)
    ELSE LET op == b[1] % 16
             fragment == recombining \/ b[1] < 128
             clear == Unmasked(b)
             end == FrameLength(b)
             next == Recombined(op, fragment, pck, SubSeq(clear, FrameHead(b) + 1, end))
         IN  IF op = CloseFrame THEN Parsed("disconnect", <<>>, seen \o clear)
             ELSE IF next = <<>> THEN Parsed("damage", <<>>, seen \o clear)
             ELSE IF b[1] >= 128 THEN Parsed("none", next, From(clear, end + 1))
             ELSE ParseFrames[seen \o SubSeq(clear, 1, end), From(clear, end + 1), fragment, next]

\* ParseFromBytes.
WsParse(b) ==
    IF Len(b) >= 2 /\ FinishFrame[b] THEN ParseFrames[<<>>, b, FALSE, <<>>]
    ELSE Parsed("none", <<>>, b)

\* ParseFromBuffer: until there is no packet, or an error.
WsParseBuffer[b \in Seq(Byte)] ==
    LET parse == WsParse(b)
    IN  IF parse.err = "none" /\ parse.pcks # <<>>
        THEN After(parse.pcks, WsParseBuffer[parse.rest])
        ELSE parse

\* Package, for the payloads its 7-bit and 16-bit lengths hold. A ping is answered.
WsPackage(pck) ==
    LET len == Len(pck.raw)
        op == CASE pck.type = "text" -> Text [] pck.type = "binary" -> BinaryFrame
                [] pck.type = "ping" -> Pong
    IN  <<128 + op>>
            \o (IF len <= 125 THEN <<len>> ELSE <<126, len \div 256, len % 256>>)
            \o pck.raw

\* HandshakeAck. What follows the request in the buffer goes with it.
Handshake(b) ==
    IF Len(b) < HeadMin THEN Parsed("notReady", <<>>, b)
    ELSE IF b[1] \notin Methods THEN Parsed("noMatch", <<>>, b)
    ELSE IF HeadLength(b) = 0 THEN Parsed("notReady", <<>>, b)
    ELSE IF ~ReadRequest(b).ok THEN Parsed("request", <<>>, b)
    ELSE IF ReadRequest(b).length \in (BodyMax + 1)..Len(b) THEN Parsed("damage", <<>>, b)
    ELSE IF ~RequestReady(b) THEN Parsed("notReady", <<>>, b)
    ELSE IF ReadRequest(b).asks = WsRefused THEN Parsed("damage", <<>>, b)
    ELSE Parsed("none", <<>>, <<>>)

\* TestMatchScore.
WsScore(b) ==
    IF Len(b) < HeadMin \/ b[1] \notin Methods THEN -1
    ELSE IF /\ ReadRequest(b).ok
            /\ ReadRequest(b).length <= Len(b) /\ ReadRequest(b).length <= BodyMax
            /\ ReadRequest(b).asks \in {WsUpgrade, WsRefused}
    THEN 99 ELSE 0

=============================================================================
