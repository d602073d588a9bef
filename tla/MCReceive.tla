----------------------------- MODULE MCReceive -----------------------------
(***************************************************************************)
(* Peers for Receive: clean ones of every format, and damaged streams.     *)
(***************************************************************************)
EXTENDS Receive

Msg(bytes, pcks) == [bytes |-> bytes, pcks |-> pcks, last |-> 0]

Peer(fmt, clean, msgs) == [fmt |-> fmt, clean |-> clean, resync |-> FALSE, msgs |-> msgs]

\* A message the library's own packager makes.
CloveMsg(pck) == Msg(ClovePackage(pck), <<pck>>)

Request(method, asks, body) ==
    <<method, asks, Len(body), 32, 32, 32, HeadEnd>> \o body

HttpMsg(method, body) ==
    Msg(Request(method, Plain, body),
        <<[type |-> "http", flags |-> method, proto |-> Len(body), raw |-> <<>>]>>)

Upgrade == Msg(Request(71, WsUpgrade, <<>>), <<>>)

Key == <<1, 2, 3, 4>>

\* A client's frame, masked, with its length in form 0 (7 bits), 126 or 127.
ClientFrame(fin, op, form, raw) ==
    <<(IF fin THEN 128 ELSE 0) + op, 128 + (IF form = 0 THEN Len(raw) ELSE form)>>
        \o (CASE form = 0 -> <<>> [] form = 126 -> <<0, Len(raw)>>
              [] form = 127 -> <<0, 0, 0, 0, 0, 0, 0, Len(raw)>>)
        \o Key \o [i \in DOMAIN raw |-> Xor(raw[i], Key[i])]

Whole(op, type, form, raw) == Msg(ClientFrame(TRUE, op, form, raw), <<Frame(type, raw)>>)

\* A message in three frames, the last of which begins behind n bytes.
Fragmented(op, type, a, b, c) ==
    LET begin == ClientFrame(FALSE, op, 126, a) \o ClientFrame(FALSE, Continuation, 0, b)
    IN  [bytes |-> begin \o ClientFrame(TRUE, Continuation, 0, c),
         pcks |-> <<Frame(type, a \o b \o c)>>, last |-> Len(begin) + 1]

TextMsg(raw) == Msg(raw, <<TextPacket(raw)>>)

Good == CloveMsg(Binary(1, 17, <<136, 17, 0>>))

CleanPeers == {
    Peer("clove", TRUE, <<CloveMsg(Binary(0, 18, <<>>)), Good, CloveMsg(Binary(7, 255, <<0>>))>>),
    Peer("http", TRUE, <<HttpMsg(71, <<>>), HttpMsg(80, <<71, 13, 9>>), HttpMsg(71, <<>>)>>),
    Peer("ws", TRUE, <<Upgrade, Whole(Text, "text", 0, <<65, 66>>), Whole(BinaryFrame, "binary", 127, <<7>>),
                       Whole(Ping, "ping", 0, <<>>), Msg(WsPackage(Frame("text", <<67>>)), <<Frame("text", <<67>>)>>)>>),
    Peer("ws", TRUE, <<Upgrade, Fragmented(Text, "text", <<65>>, <<>>, <<66, 67>>),
                       Whole(BinaryFrame, "binary", 126, <<9, 8>>)>>),
    Peer("text", FALSE, <<TextMsg(<<72, 101, 108>>), TextMsg(<<108, 111, 32>>)>>)}

\* Damage: a flag byte, lengths 0 and 7 of which payload is left; a protocol of version 0; a
\* second request that is none, too long a body, no request; the refused and the other upgrade,
\* a handshake with a body; a close, a pong, a continuation of nothing, a ping amid fragments.
DamagedPeers == {
    Peer("clove", FALSE, <<Good, Msg(<<8, 17, 0, 0, 6, 1>>, <<>>), Good>>),
    [Peer("clove", FALSE, <<Good, Msg(<<136, 17, 0, 0, 3, 136, 17, 0, 0, 5>>, <<>>)>>)
        EXCEPT !.resync = TRUE],
    Peer("clove", FALSE, <<Good, Msg(<<136, 17, 0, 0, 0>>, <<>>), Good>>),
    Peer("clove", FALSE, <<CloveMsg(Binary(0, 16, <<1>>))>>),
    Peer("http", FALSE, <<HttpMsg(71, <<>>), Msg(Request(71, Malformed, <<>>), <<>>)>>),
    Peer("http", FALSE, <<HttpMsg(71, <<>>), Msg(Request(80, Plain, <<1, 1, 1, 1, 1, 1, 1, 1, 1>>), <<>>)>>),
    Peer("http", FALSE, <<HttpMsg(71, <<>>), Msg(<<1, 2, 3, 4, 5, 6, 7>>, <<>>)>>),
    Peer("http", FALSE, <<Msg(Request(71, OtherUpgrade, <<>>), <<>>)>>),
    Peer("ws", FALSE, <<Msg(Request(71, WsRefused, <<>>), <<>>), Whole(Text, "text", 0, <<65>>)>>),
    Peer("ws", FALSE, <<Msg(Request(71, WsUpgrade, <<1, 2>>), <<>>), Whole(Text, "text", 0, <<65>>)>>),
    Peer("ws", FALSE, <<Upgrade, Whole(Text, "text", 0, <<65>>), Msg(ClientFrame(TRUE, CloseFrame, 0, <<>>), <<>>)>>),
    Peer("ws", FALSE, <<Upgrade, Whole(Text, "text", 0, <<65>>), Msg(ClientFrame(TRUE, Pong, 0, <<>>), <<>>)>>),
    Peer("ws", FALSE, <<Upgrade, Msg(ClientFrame(TRUE, Continuation, 0, <<65>>), <<>>)>>)}

Peers == CleanPeers \cup DamagedPeers

\* The theorems about peers that keep to their protocol are about some of these, and the damaged
\* ones do not keep to theirs.
ASSUME PeersAssumption ==
    /\ \A peer \in CleanPeers : KeepsToIt(peer) <=> peer.fmt \in {"clove", "http"}
    /\ \A peer \in DamagedPeers : ~KeepsToIt(peer)

\* Bound: text in at most three pieces.
FewTexts == packetFmt = "text" => Len(received) <= 3

AllManagers == {Tags, {"clove"}, {"http", "text"}, {"http", "ws"}}

=============================================================================
