# clove2 in TLA+

clove2 is a Go library for network services: TCP, UDP and Unix-datagram
controllers that read, frame, deliver and send packets, a pool of TCP
connections, packet formats (clove binary, text, HTTP, WebSocket), codecs, and
small utilities. Its core, and the part that is hard to test, is the life of a
TCP connection: three goroutines, a handful of short-lived ones and any number of
user goroutines share a flag word without a lock, two buffers and three channels, and
must close all of them in the right order. Around it: the pool of such connections, the
UDP and Unix controllers, the way from a peer's bytes to packets, the codec of the packets'
contents, and the concurrent map the rest is kept in.

## Inventory

| component | state | operations | interacts with |
|---|---|---|---|
| TCP connection, `tcp/controller.go` | `flag`, `aliveChecking`, `packetFmt`, `bufRecv`, `bufSend`, `chReceived`, `chSend`, `chClosed`, `waitg` | `CreateController`, `processRead` (R), `tryAlive` (T), `process` (P), `SendBytes`, `SendPacketsAndClose`, `ReceivePackets`, `Exit`, `ExitAndNotify`, `Close`, `SetPacketFormat` | its manager through `ControllerPacketReceived` and `ControllerLeave`; the formats through `DetermineFromBuffer`, `ParseFromBuffer`, `HandshakeAck` |
| TCP pool, `tcp/pool.go` | `controllers` (a `sync.Map`), `curr`, `limit` | `AddConnection`, `ControllerEnter`, `ControllerLeave`, `CloseController`, `GetController`, `Broadcast`, `Multicast`, `Close` | listener and connector call `AddConnection`; controllers call back; the user's `OnController...` functions |
| listener, connector, `tcp/listener.go`, `tcp/connector.go` | the listening socket | `Start`, `Stop`, `Connect`, `ConnectWithTimeout` | the pool |
| send buffer and queue, `base/buffer.go`, `base/queue.go` | a `bytes.Buffer` under a lock; a channel | `Write`, `Next`, `Peek`, `Reset`; `Close` | the controllers |
| UDP controller, `udp/` | fragment pipelines, `chReceived`, the permits `chSend`, `exit` | `read`, `sendTo`, `SendPacket`, `AddFragment`, `Combine`, `Close` | the user's callback |
| Unix controller, `unix/` | `chReceived`, `exit`, the socket's file | `read`, `readMsg`, `SendPacket`, `Close` | the user's callback |
| packet formats, `network/` | registered formats, sorted | `DetermineFromBuffer`, `TestMatchScore`, `ParseFromBuffer`, `Package`, the WebSocket handshake | the controllers |
| codecs, `codec/` | none | `Encode`, `Decode`, the readers of maps and lists | packet processors |
| concurrent map, `base/map.go` | a map, an `RWMutex` | `Get`, `Set`, `Pop`, `Clear`, `Keys`, `Values`, `Items`, `IterItems` | users of the library |
| `base/id.go`, `base/pid.go`, log, signals, daemon; `errors/` | a seed; a file | | everything |

What is hard, and what must hold nevertheless:

- *Interleaving.* `flag |= x` is a load and a store, next to tests of the same word
  in other goroutines; `ExitAndNotify` may be followed by more packets, writes and
  callbacks until P takes the notification; each read starts its own delivery
  goroutine. The connection must leave once, last, after its reader; a batch stays
  in order; the bytes announced are the bytes buffered.
- *Blocking.* `chSend` is unbuffered and `chReceived` holds 32 packets: senders,
  R's handshake answer and delivery goroutines block on P, which may stop. Each must
  end.
- *Closing.* Channels are closed under goroutines that still use them: those that
  recover may panic, the notifier may not.
- *Timeouts.* T races R's identification of the format.
- *The registry.* A controller runs before it is stored, and its id can be given
  again while it lives.
- *Segmentation.* A stream is cut into reads anywhere: what is recognised, parsed and
  decoded must not depend on where. The format is chosen once, from the first bytes.
- *Width.* Numbers are sent in as few bytes as hold them and come back as another kind.
- *A lock held for a consumer.* `IterItems` reads under the lock as long as its loop likes.

`PROJECT.json` lists each hazard at its line with the properties that cover it.

## Modules

| module | what it is |
|---|---|
| `Session` | what a connection promises to its manager: one callback at a time, one `ControllerLeave`, after the socket is closed and after every callback, and it comes |
| `Controller` | `tcp/controller.go`, one action per step of each goroutine |
| `ControllerProofs` | theorems about `Controller`: its closing; its packets and bytes |
| `Lemmas` | lemmas of several components: sums over finite sets, sequences joined, solutions of recursive definitions |
| `Pool` | pool, listener and connector, over connections that behave as `Session` |
| `PoolProofs`, `MCPool` | theorems about `Pool`; its instances |
| `Udp` | one UDP controller, `udp/`: its goroutines, permits, `Close`, fragments |
| `UdpProofs`, `MCUdp` | theorems about `Udp`; its instances |
| `Unix` | one Unix-datagram controller, `unix/`: its goroutines, both kinds of reads, `Close` |
| `UnixProofs`, `MCUnix` | theorems about `Unix`; its instances |
| `CloveFraming` | the clove and the text format, `network/clove.go`, `text.go` |
| `Http`, `WebSocket` | `network/http.go`, `network/ws.go` |
| `Formats` | `DetermineFromBuffer` and `parsePacket` over them |
| `Receive`, `MCReceive` | the reading loop of a connection over `Formats`; its peers |
| `ReceiveProofs` | theorems about `Receive`: the parsers of clove and HTTP, and the loop over them |
| `Codec`, `Readers` | `codec/clove.go`; the readers of `codec/codec.go` |
| `CodecStream`, `MCCodec` | values encoded, cut and decoded; its values |
| `CodecProofs` | theorems about `Codec`, `Readers` and `CodecStream` |
| `AtomicMap` | what the concurrent map promises: every call acts at one instant |
| `Dict` | `base/map.go` and the goroutines that call it |
| `DictProofs`, `MCDict` | theorems about `Dict`; its calls |

### Controller

`pcR`, `pcT`, `pcP` say where the three goroutines are; `upd[t]` is a
`setDataReceivedFlag` or `setReadyedFlag` in progress (the two tests, each reading the flag, load,
store, log) of R or of a setter; `send[t]` a `SendBytes` in progress (test, write, blocked on `chSend`) of a
sender or of R; `batch[b]` a delivery goroutine; `notifiers` counts goroutines that
wait to send on `chClosed`; `closed` is the set of closed channels. `flag` is the set of
its bits. `bufSend` is a number of bytes. P's `select` is one action per case.
The deferred `Close` is seven actions, in the order of its lines.

Abstractions:

- `Exit` is one step. Between its test of the flag and the close of the socket only
  P can change the flag, and what Exit does is idempotent and never undone, so a gap
  would add no outcome. The farewell a WebSocket format writes is left out.
- Bytes read are "some packets", "no complete packet yet" or "damaged"; the format
  is "nil", "plain" (parsed at once) or "ws" (has a `Preprocessor`).
- The clock has the two thresholds of `tryAlive`; each may be passed at any time.
- A write ends: it succeeds on an open socket or fails (reset, `timeoutWrited`). Whether the deadline of
  line 408 fires once `pf.Fd()` (72) has put the descriptor, shared with the connection, in blocking mode
  depends on Go's runtime and the kernel, and is outside the model.
- `waitg` is a counter, and P waits until it reads 0. `sync.WaitGroup` may also panic when an `Add` from 0
  (T's, line 348, when T starts late) meets a `Wait` that is returning (229); in the model T's
  `Add` just comes before or after.

### Pool

`add[c]` is where the caller of `AddConnection` is with socket `c`; `phase[c]` and
`calling[c]` are a `Session` per controller. `Leave` is `ControllerLeave`: the delete, then
`LeaveCount`. An id is any number that no open duplicate has: `CollectFile` is the
finalizer of the `os.File` that `CreateController` drops. `lateStore` and `closed` are
history variables. `Pool` uses of a controller only what `Session` promises, and
`ImplementsSession`, in the run `controller_delivery`, shows that `Controller` keeps that promise.

### Udp

`pcR`, `pcW`, `pcP` are `processRead`, `processWrite` and `process`; `send[s]` is a goroutine
of `SendPacket` with what it has still to send; `closing[k]` a call of `Close`, by a user or
by P when it stops; `drains` the goroutines `Close` starts to take W's permit. W is
`"offer"` between its test of `exit` and its send, and `"parked"` once it is blocked in it:
a `select` with a `default` sees only the latter, and this gap is where `Close` hangs.
`fragments` and `count` are the pipelines; `Added`, `NewCount` and `Combined` translate
`AddFragment` and `Combine`, also the parts that `count` being 0 makes dead. Bytes are
lengths; `packetFmt` is chosen in `Init`, as it is when the controller is created, among
what formats make of an empty buffer. The model does not show which bytes two
overlapping `sendTo` put in the shared `fragmentData` (a hazard, listed).

### Unix

`pcR` and `pcP` are `processRead` and `process`; `delivering` the goroutines of `read` (line 224),
one per datagram; a descriptor message R pushes itself, hence `"push"`. A datagram is the number
of its read, and the packet's type is that of the controller's format, chosen in `Init`. Unlike
the UDP controller, P does not call `Close`: the socket stays open until a user does.
`crashed` is the panic of a delivery goroutine on the closed queue, which nothing recovers and
after which nothing runs. A panic in R (no format) skips the close of the queue.

### From bytes to packets

`CloveFraming`, `Http`, `WebSocket` and `Formats` are operators: every parse answers with an error,
packets and what is left in the buffer, as the parsers of `network/` do through their
`base.Buffer`. A buffer is a sequence of bytes; masks, xor and lengths are computed on them.
`ParsePacket` is `parsePacket`: the format is determined as long as there is none, a WebSocket
gets its handshake in the same turn, and packets that come with an error are lost.
`Receive` is the loop of `processRead` over it: a peer's script is its messages, as bytes and as
the packets they mean, and a read takes any number of the bytes not yet read.
`Controller` abstracts a read to "some packets", "no complete packet yet" or "damaged";
`Receive` says when each of them happens.

The text of an HTTP head is abstracted: the method's first letter, which is what the code looks
at, a byte for what the headers ask for, a byte for the content length, and a byte that ends it.
`HeadMin` (16) and `BodyMax` (2^20) are constants, small in the run. A body's bytes never reach the
packet: `ParseFromBytes` keeps what one `Read` answers only if it comes without EOF (http.go 54).
Panics a parser recovers (an index past the buffer's end in `getFrameLengths`) are its answer: no
packet yet, nothing taken. A chunked request has length 0 in the model: its `ContentLength` is -1, which each test of
http.go (104-115) and ws.go (85-97) takes as it takes 0.

`Exact` is about peers that keep to their protocol and to the part of it that is supported.
`TooShort`, `Unanswered`, `cut` and `resync` name what the code does not guarantee: a first read shorter
than the shortest header makes the peer a text peer for good (packet.go 194); an HTTP request
for an upgrade that no format knows is likewise text; a read that ends inside the last of several WebSocket frames
delivers the frames before it, or unmasks twice (ws.go 253-271, 309-336); a clove length below 5 is
taken out of the buffer and its error dropped (clove.go 103-113). All are reachable in the run.

### Codec

A value is a record of its kind and its number, bytes, elements or entries. `Data` is the values of the
program, closed under what they are made of, and `Depth` says how deep each is nested: a value is
deeper than its parts (`CodecAssumption`), since one that contains itself is never encoded. `Encode` and
`Decode` are recursive functions, on `Data` and on bytes, one case per type (`EncodeWith`, `DecodeWith`: what a
call does, given what the nested calls do); a map's entries come in the order of one
iteration, and `Another` is one turn of the loop that decodes a map or a list. `Radix` is the radix of numbers of several
bytes: 256 in the code, 4 in the run, so that
the bounds of 1, 2, 4 and 8 bytes are numbers TLC can hold (and a length of 4, 16 needs 2, 3
bytes); the proofs are for any even one up to 256. An int64 has eight digits of that radix, also where
`ParseInt` tests whether a numeral, with its sign, is in its range. Floats are their bits: arithmetic on them is left out. `Decode`'s
`recover` answers nil with no error and nothing left (`Panic`).

`CodecStream` encodes values one behind the other, cuts the stream anywhere and decodes what is
there. `Seen` is what a value is when it has been decoded. `Sound` says which values the format carries; it leaves out, because the code does not
carry them: a list with an element that cannot be encoded, counted all the same (clove.go 535);
a map or list whose elements are not interfaces, nothing at all inside another; a float64 whose
bits fit in 32, sent as a float32; two keys that are one number; more elements or bytes than a length of
4 bytes can say (clove.go 157). The properties are about streams of such values only: behind one that
is not, nothing that is decoded need be what was sent, a map that the format carries included.

`Readers` is `CloveMapReader` and `CloveSliceReader`. Four readers of a list may panic on what a peer sent, and
answer `Answered(v)` or `Panicked`: `StrValueOf`, `FloatValueOf` and `BoolValueOf` ask a nil element for its type
(codec.go 505, 530, 541), and `MySQLStrValueOf` calls `Bytes()` on any slice, also one that is a list (522). The map's
readers test for nil and do not panic.

### Dict

`pc` is, for each client, where its call and its `IterItems` goroutine are; a read holds `todo` and
`seen`, and `Look` is one turn of its loop over the map, or for an iteration one item sent on the
unbuffered channel. `writer` is the owner of the mutex inside `sync.RWMutex`, which is modelled
as the library is used here: a reader that finds a writer waits (`rWait`), a writer waits for the readers that
were there (`drain`), and its unlock lets every waiting reader in (`Unlock`): they hold the lock from then on
(`woken`, `Holders`), whenever they come to run (`Enter`). `Set` and `Pop` are one step (`Write`), a `Pop` keeps
what it answers in `seen`; `Clear` deletes key by key (`ClearOne`, `Cleared`). `broken` records that a
loop was left early or called the map itself, after which calls need not return.

`AtomicMap` is a map on which each call acts in one step between its invocation and its return. The refinement
mapping says when: a read when it has the lock (its answer is what it has seen and what it has still to visit), `Set` and
`Pop` when they write, and `Clear` when it has shut the readers out, hence `MapSeen`, which is empty while it
deletes.

## Runs

| run | instance | shows |
|---|---|---|
| `controller_safety` | 1 sender (1 packet of 0 or 2 bytes, may close), R's answer, 2 reads of up to 2 packets, queue of 1 | types; the close sequence; packets of a read in order; bytes buffered and announced agree; the flag never reopens |
| `controller_setter` | 1 sender, 1 `SetPacketFormat` | the close sequence under the setter's flag races |
| `controller_delivery` | 2 reads of 1 packet, queue of 1, fairness | timeouts, end of all goroutines, refinement of `Session` |
| `controller_send` | 1 sender, R's answer, fairness | blocked senders return |
| `pool` | 2 sockets, 2 ids, fairness | what the registry finds; a refused connection ends |
| `pool_limit` | limit 1, **expected violation** | `CreateStandardPoolWithLimit(1)` lets a second controller in |
| `udp` | 1 sender, 1 closing user, 1 peer, packets of 3, 4 and 9 bytes in fragments of 2, counts modulo 4, every kind of format, fairness | what is sent is whole; senders and P end; the two ways `Close` may not return |
| `udp_totals` | fragments of totals 1 and 2, **expected violation** | a pipeline mixes totals |
| `unix` | every kind of format, 2 closing users, 1 sender, 3 datagrams, queue of 1, fairness | every datagram in one place; descriptor messages in order; after `Close` nothing runs; the three ways `Close` may not return; R and P end together |
| `receive` | 18 peers (4 clean, 1 of text, 13 damaged), 4 sets of registered formats, every segmentation | the format is recognised; a clean peer's packets are exact; a damaged one's are never invented |
| `codec` | 2 of 41 values, radix 4, cut anywhere | a value's bytes and no others are taken; it comes back; readers find it, or panic for a nil or a list in a list |
| `dict` | 2 clients, 2 calls each out of 7 and iterations, 2 keys, 2 values, fairness | a read sees one state; every call acts at one instant (`AtomicMap`); calls return |

Bounds. A queue of 1 blocks delivery goroutines as one of 32 does, with two reads;
one packet behind another in a read is enough for its order; a sender and R's handshake
answer are the kinds of callers, and interleave their writes and announcements; two ids that the
garbage collector frees give two sockets the same id or different ones, and the proofs
cover more of both. For UDP, 3 bytes leave a short last fragment, 4 fill it, and 9 need five
fragments, more than the counter (4) can say. For Unix, three
datagrams on a queue of one leave two delivery goroutines or R blocked while the queue closes. In `receive` a
peer sends up to five messages, and reads may end anywhere, so that every boundary of a message is met inside,
at and behind the end of a read; text, which any cut makes different packets of, is cut in three at most (the constraint
`FewTexts`). `codec` sends two values, enough for one to be decoded with another's first bytes behind it,
and its values lie on both sides of every bound. In `dict` two clients are a reader and a writer, two
writers, a loop and the call inside it. Symmetry is not used. Deadlock checking is disabled where what
is modelled stops: a connection that has ended, a stream that has been read, clients that have made
their calls; the pool never stops.

Fairness. Every goroutine that can run does (Go's scheduler is preemptive and
`select` picks at random among ready cases, hence strong fairness for the cases
that are intermittently ready: the notification, a packet, a blocked sender, a
push on a full queue). Time passes. Data, failures of the peer and calls of the
user are never forced; callbacks return (the code requires it, `tcp/pool.go:41`), and
a read of a socket this side has closed returns an error. For `Dict` the writers' mutex is strongly
fair (`sync.Mutex` hands itself to a waiter that starves), and a loop over `IterItems` that is not left
goes on receiving.

`CloseEnds` of `Udp` is stated with its exceptions: `WriterStuck` (the drain came before W
was blocked, and W now waits for a taker for ever) and `ReaderStuck` (R blocked on a full queue
whose consumer has stopped). Both states are reachable; the run shows there is no third. `CloseEnds` of
`Unix` has three exceptions: `ReaderStuck`, `NobodyCloses` (R panicked on a missing format and left the queue
open under P) and the crash of a delivery goroutine.

Mutants. Each property has a mutated action, a plausible bug next to the
original in the module, under which TLC finds it violated.

## Proofs

`ControllerProofs` holds for every set of senders and setters, every bound and
capacity. `LeaveIsLast`, `NotifierNeverPanics` and `ReadBufferFree` are not inductive:
that P is closing says nothing about R unless P is closing *because of* R. The
invariant `IInv` says so: the WaitGroup counts the goroutines between `Add` and `Done`
(`WaitCount`); R notifies once, when it ends (`Notified`); the flag loses `Opened`, in
the word or in a value some updater is about to store, only after P has taken that
notification (`Taken`); P closes in order and passes `Wait` only when R is done
(`Departure`); R updates the flag only while it parses (`ReaderUpdates`).
`StaysClosed` adds the hypothesis that there are no setters: with one, the setter
loads `{Opened}`, P stores `{Closing}`, and the setter stores `{Opened, DataReceived}`:
the connection is open again, its reader gone, and it never leaves.
`SessionSafe` is the safety half of the refinement.

Its second part adds the data, on top of `IInv`. `BatchInOrder` speaks of one packet; what makes it
true is the whole queue (`Queued`): of each batch it holds exactly the packets between the last one P took
and the next one the batch's goroutine will push, once each and in order, and P takes the head. `NotRead`
says that a batch not yet read has nothing to push, `InHand` that P holds a packet only during the
callback. `SendBufferAccounted` is an equation about a sum over the callers blocked on `chSend`. Every step
changes that sum by one caller or not at all, which `Lemmas` states (`SumAdd`, `SumSplit`, `SumSame`) and proves
from the definition of the community modules' fold. The equation needs that P holds a token only between its
receive and its use (`TokenHeld`), that R sends only while it answers a handshake (`ReaderSends`: a second
`SendBytes` of R would overwrite the first), and that finitely many callers wait. Both
invariants hold until P closes, which discards what is left. `TokenFindsBytes` is the consequence that
matters to the code: the close of line 396 cannot happen.

`PoolProofs` proves the registry's invariants for any number of connections and
ids and any limit, from `PoolAssumption` (there is an id; `NoConn` is no connection).
`Created` is the strengthening: a caller of `AddConnection` is past
`CreateController` exactly when there is a controller, so an id never changes
under a registered connection.

`DictProofs` proves for any clients, keys, values and calls, from `DictAssumption` (the calls are calls;
`None` is neither value nor thread), that a read sees one state (`Snapshot`) and that every step of `Dict` is a step of `AtomicMap` or changes nothing a
caller sees (`Atomicity`, all of `ImplementsMap`: it has no fairness). `Snapshot` needs to know that nobody writes under a
reader: `OneWriter` ties the mutex to the one thread between `lock` and `unlock`, and `Excluded` says that once the
readers have been drained nobody holds the lock, since a reader that finds the mutex taken waits. `Atomicity` adds
that a thread that waits for the lock as a reader is in a read (`Kinds`), and that one that does not read has nothing to visit
(`Unread`), so that what others write does not change its answer. Only the owner of the mutex can be in
`clear`, so `MapSeen` changes once for each `Clear`.

`ReceiveProofs` proves the three properties of `Receive` for every peer that keeps to a protocol of one packet per
message (`KeepsToIt`): clove packages of any flags, protocol and payload, or HTTP requests of any head and body, in any number,
for any registered formats, and wherever the reads end. `MCReceive` has TLC check which of its peers these are.
The argument has a half without state. `ParseFromBuffer` is a recursive function; no theorem of the library says what such
a definition computes, so `Recursion` proves that it has a solution (a least length at which there is none leads to a
contradiction, since what it calls itself on is shorter), and `CloveEquation` and `HttpEquation` follow. Bits are sums of weights
(`OfBitsIs`), so that the masks of the flag byte can be computed (`FlagByte`); the 24 bits of the length survive
(`NumberOf24Bits`). With these `Package` and `ParseFromBytes` are inverses, and every message is `Framed`: taken off the front of
whatever follows it, and left alone while a byte of it is missing. The front of a stream is `Recognised`: no format of another
kind scores above 0 on it, and until its own scores 90 `DetermineFromBuffer` answers nil and the bytes stay. The other half is
about streams: `Segments` says what a parser takes from the part of a stream that is in the buffer, by induction from the last
whole message down, and `SteadyInv` is the inductive invariant. Its exception is a first read too short to tell the format, with
the text format registered (`TooShort`), as in the properties. `HttpAssumption` is used: a head has more than three bytes.

`CodecProofs` proves the five invariants of `CodecStream`, for any values nested to any depth, any number of them sent, any cut of
the stream and any even radix up to 256, from `CodecAssumption` and `ValuesAssumption`. The argument has three layers.
*Recursion*: `Encode`, `Decode`, `Seen`, `Sound` are what their definitions say (`EncodeAnswers`, `DecodeAnswers`, `SeenIs`,
`SoundIs`). `WellFounded` gives each a solution, because a nested call is about a part that is not as deep, or about
fewer bytes. For `Decode` this must be proved together with what it answers: the loop over a list calls it on what the turn before
has left, and that a turn never leaves more than it was given (`Good`) is what makes the bytes fewer.
*Codes*: `Reads(b, y)` says that `Decode` takes exactly `b` for `y` whatever follows, and has an error on every proper front of it.
`SoundReads`: the code of every value that the format carries is so read. Numbers need that the digits of a number in the
fewest bytes are the number again (`NumberAt` of `Digits`), signed or not; headers, that type and length size
are found again in their byte; lists and maps, that each turn of the loop takes one element's
code (`Takes`), so that the whole loop takes all, and a loop cut short has the error of the turn it was cut in
(`LoopTakes`, `LoopReads`). The induction is on `Depth`. For maps one must know that the keys are still different when they have been decoded (`Apart`),
or an entry would replace another. *Streams*: `IInv` says that what is undecoded is what has arrived behind the codes of the
values decoded (`Follows`), and a receive that adds one value, or that has an error for a value not yet
whole, keeps it. The stronger `Shape` says that the values decoded are values that `Decode` can answer with.
From `out[i] = Seen[Sent(i)]` the readers' properties follow: `ListReading` case by case, the panics included: a nil decodes to nil, and of what is sent only a list decodes to a list; `Lookups` because a decoded
integer is under one kind only, decided by its number, and that kind, the widest of its sign, is the first or the sixth of
those tried, the only ones that can hit.

`UdpProofs` proves, for any senders, peers, lengths, fragment size and word, that what `sendTo` reports as sent is the
whole packet. Between two fragments (`Cut`) the packet is the full fragments on the wire and the bytes left, and
the index is below the total, so that it cannot wrap. That the loop ends at the announced total needs that `Total` is the
least number of fragments that covers the packet, and that it fits the counter or the loop ends in an error
(`CeilingIs`, `TotalIs`, `LastFragment`): arithmetic of division by a constant the provers know nothing of.

`UnixProofs` proves the Unix controller's invariants for any closers, senders, number of datagrams and capacity, from
`UnixAssumption`. `OncePlaced` is inductive once it is written out for the five places (`Placed`). `MessagesInOrder` needs the
order of the queue, and of the callback's packets before it (`InLine`), and that only the binary format has
delivery goroutines (`ByFormat`). `ClosedIsQuiet` needs what the WaitGroup counts (`WaitCount`), and that a caller whose `Wait`
has returned found both goroutines done unless it came before they had added themselves (`Quiet`).

`controller_setter` checks only the last of the three properties of the close sequence: the theorems
`NotifierSafe`, `ReadBufferSafe` and `LeavesLast` prove all three for any setters.

Only model-checked: liveness (`SendReturns`, `UnidentifiedIsClosed`, `GoroutinesEnd`,
`RefusedLeaves`, `CloseEnds`, `SendersEnd`, `ProcessorEnds`, `EndsTogether`, `CallsReturn`, the liveness of `Session`), because the
prover does not reason about fairness; and the properties of `Receive` for the peers the theorems leave out: WebSocket peers, whose
frames may be cut into several messages, text peers, and damaged streams. Which of the run's values satisfy
`CodecAssumption` is no question: TLC evaluates it, and computes `Depth`.

## Findings

`pool.curr` is decremented at every leave and incremented nowhere
(`tcp/pool.go:87,160`): the limit of `CreateStandardPoolWithLimit` ("supports a maximum
of n controllers", `tcp/pool.go:67`) has no effect. Run `pool_limit`.

`FragmentPipeline.count` is 0 when created and is assigned only where it is already
positive (`udp/udp.go:51-54`): the reset its comment announces when totals do not match never
happens (run `udp_totals`), and `Combine` joins no fragment at all, so a message sent
by `SendPacket`, always in fragments, is never delivered by another controller.

## Plan

1. Proofs about the rest of `Receive`: a WebSocket client's frames that are not cut, framed as `Framed` says once the
   handshake has been answered, and what a damaged clove stream loses.
2. The array behind a buffer: the slice `Next` hands out while `Write` goes on, the receive buffer
   that a clove packet's `Raw` aliases, the shared `fragmentData` of UDP. Each needs the growth policy of
   `bytes.Buffer` as an external model.
3. `Broadcast` and `Multicast`, whose walk over the registry races departures.

## Not modelled

The JSON codec, access controllers and the head's text belong to Go's libraries or to users. Ids are one
constant per process but for the descriptor's number, which `Pool` has: `NextId` never stores its seed
(`base/id.go` 46), and the machine id is a hash. The pid file is read, truncated and rewritten without a
lock (`base/pid.go` 28). Descriptor passing is two system calls, logging, signals, daemon and error stacks are I/O
and formatting. `Listener.Stop` has a value receiver and stops nothing (`tcp/listener.go` 75). Floating-point
arithmetic, in the codec's readers, is outside TLC's integers.
