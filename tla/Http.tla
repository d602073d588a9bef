-------------------------------- MODULE Http --------------------------------
(***************************************************************************)
(* The HTTP packet format, network/http.go, over buffers of bytes.         *)
(*                                                                         *)
(* The text of a request's head is abstracted: its first byte is that of   *)
(* the method, as in the code; the second says what the headers ask for,   *)
(* the third is the content length; behind them one byte, HeadEnd, stands  *)
(* for the empty line that ends it. ReadRequest is net/http's. A chunked   *)
(* request has length 0 here: its ContentLength is -1, which every test of *)
(* the code takes as it takes 0.                                           *)
(***************************************************************************)
EXTENDS SequencesExt, CloveFraming

CONSTANTS
    HeadMin,        \* HttpHeaderMinLength: 16
    BodyMax         \* HttpMaxLengthSupported: 2^20

ASSUME HttpAssumption == HeadMin \in Nat \ 0..3 /\ BodyMax \in Nat

Methods == {71, 80}         \* G and P
HeadEnd == 13

\* What the headers of a request ask for: nothing more, a WebSocket, a WebSocket with a
\* sub-protocol or from another origin, another upgrade; or they are malformed.
Plain == 0
WsUpgrade == 1
WsRefused == 2
OtherUpgrade == 3
Malformed == 4

\* The length of the head, 0 as long as its end is missing.
HeadLength(b) == SelectInSubSeq(b, 4, Len(b), LAMBDA x : x = HeadEnd)

\* http.ReadRequest on the head at the front of b.
ReadRequest(b) ==
    [ok |-> HeadLength(b) > 0 /\ b[2] # Malformed, asks |-> b[2], length |-> b[3]]

\* ParseFromBytes: the packet of the request that fills in. Its body is asked for with one
\* Read, which answers EOF with the last bytes of a body: Body is set only for a body longer
\* than bufio's buffer, and these are not modelled.
HttpPacket(in) ==
    [type |-> "http", flags |-> in[1], proto |-> ReadRequest(in).length, raw |-> <<>>]

\* The tests that precede a request's removal, and the handshake: are all its bytes there?
RequestReady(b) ==
    /\ HeadLength(b) > 0
    /\ ReadRequest(b).length <= Len(b)
    /\ HeadLength(b) + ReadRequest(b).length <= Len(b)

\* ParseFromBuffer. An error forgets the requests that precede it in the buffer.
HttpParseBuffer[b \in Seq(Byte)] ==
    IF Len(b) < HeadMin THEN Parsed("none", <<>>, b)
    ELSE IF b[1] \notin Methods THEN Parsed("noMatch", <<>>, b)
    ELSE IF HeadLength(b) = 0 THEN Parsed("none", <<>>, b)
    ELSE IF ~ReadRequest(b).ok THEN Parsed("request", <<>>, b)
    ELSE IF ReadRequest(b).length \in (BodyMax + 1)..Len(b) THEN Parsed("damage", <<>>, b)
    ELSE IF ~RequestReady(b) THEN Parsed("none", <<>>, b)
    ELSE LET total == HeadLength(b) + ReadRequest(b).length
             next == HttpParseBuffer[From(b, total + 1)]
         IN  IF next.err = "none" THEN After(<<HttpPacket(SubSeq(b, 1, total))>>, next) ELSE next

\* TestMatchScore: 90 whatever the length; a request for an upgrade is not HTTP's.
HttpScore(b) ==
    IF Len(b) < HeadMin \/ b[1] \notin Methods THEN -1
    ELSE IF ~ReadRequest(b).ok THEN 0
    ELSE IF ReadRequest(b).asks # Plain THEN -1
    ELSE IF ReadRequest(b).length \in (BodyMax + 1)..Len(b) THEN 0
    ELSE 90

=============================================================================
