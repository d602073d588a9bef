------------------------------ MODULE Formats ------------------------------
(***************************************************************************)
(* The packet format manager, network/packet.go, and the part of a         *)
(* connection that uses it: parsePacket in tcp/controller.go.              *)
(***************************************************************************)
EXTENDS WebSocket

Tags == {"clove", "http", "text", "ws"}

Score(tag, b) ==
    CASE tag = "clove" -> CloveScore(b) [] tag = "http" -> HttpScore(b) [] tag = "ws" -> WsScore(b)

\* Mutant: the best score is enough, however low.
DetermineAny(mgr, b) ==
    LET tried == mgr \ {"text"}
        best == Max({-1} \cup {Score(tag, b) : tag \in tried})
    IN  IF best < 0 THEN IF "text" \in mgr THEN "text" ELSE "nil"
        ELSE CHOOSE tag \in tried : Score(tag, b) = best

\* DetermineFromBuffer with the registered formats mgr: the best score if it is at least 90;
\* the default format if no format finds anything to say.
Determine(mgr, b) ==
    LET tried == mgr \ {"text"}
        best == Max({-1} \cup {Score(tag, b) : tag \in tried})
    IN  IF best < 0 THEN IF "text" \in mgr THEN "text" ELSE "nil"
        ELSE IF best < 90 THEN "nil"
        ELSE CHOOSE tag \in tried : Score(tag, b) = best

ParseBuffer(tag, b) ==
    CASE tag = "clove" -> CloveParseBuffer[b] [] tag = "http" -> HttpParseBuffer[b]
      [] tag = "text" -> TextParseBuffer(b) [] tag = "ws" -> WsParseBuffer[b]

\* parsePacket, once the format is found: what it makes of the buffer.
ParseAs(tag, found, b) ==
    CASE found = "nil" -> Parsed("none", <<>>, b)
      [] tag = "nil" /\ found = "ws" -> Handshake(b)
      [] OTHER -> ParseBuffer(found, b)

\* Packets that come with an error are not received.
Outcome(found, parse) ==
    [tag |-> found, parse |-> IF parse.err = "none" THEN parse ELSE [parse EXCEPT !.pcks = <<>>]]

\* parsePacket, with the format tag ("nil" as long as there is none): the format it leaves and
\* what it makes of the buffer.
ParsePacket(mgr, tag, b) ==
    LET found == IF tag = "nil" THEN Determine(mgr, b) ELSE tag
    IN  Outcome(found, ParseAs(tag, found, b))

=============================================================================
