-------------------------------- MODULE Dict --------------------------------
(***************************************************************************)
(* The concurrent map, base/map.go, made with block = true, and the        *)
(* goroutines that call it. Each client may also range over IterItems,     *)
(* whose goroutine holds the read lock while it sends item after item on   *)
(* an unbuffered channel to a loop that may do anything between two of     *)
(* them, or stop.                                                          *)
(*                                                                         *)
(* sync.RWMutex: a writer takes a mutex, from then on readers wait, and it *)
(* waits for those that were there; its unlock hands the lock to all       *)
(* readers that wait, before another writer.                               *)
(*                                                                         *)
(* The map implements AtomicMap.                                           *)
(***************************************************************************)
EXTENDS Naturals

CONSTANTS
    Clients,        \* goroutines that use the map
    Keys, Values,
    Ops,            \* the calls made
    None,           \* no value, no writer
    MaxCalls        \* bound: calls and iterations of a client

Writing == {"Set", "Pop", "Clear"}
Reading == {"Get", "Items"}     \* also HasKey and GetWithDefault; Count, Keys and Values

Op == [name : Writing \cup Reading, key : Keys, val : Values]

Thread == Clients \X {"call", "iter"}
Call(c) == <<c, "call">>
Iter(c) == <<c, "iter">>

ASSUME DictAssumption ==
    /\ Ops \subseteq Op /\ Ops # {}
    /\ None \notin Values /\ None \notin Thread
    /\ MaxCalls \in Nat

VARIABLES
    m,              \* dict.m; None for a key that is not there
    writer,         \* who holds the writers' mutex of dict.rw
    pc,             \* of each client's call and of its iterator
    op,             \* the call of each client
    todo,           \* keys a reader has not come to
    seen,           \* the items it has; of a Pop, what it took
    ranging,        \* clients in a loop over IterItems
    calls,          \* calls made
    broken          \* a loop was left early, or called the map itself (history)

vars == <<m, writer, pc, op, todo, seen, ranging, calls, broken>>

Readers == {t \in Thread : pc[t] \in {"read", "closed"}}

\* Who holds the lock for reading: also a waiter that was let in and has not run yet.
Holders == {t \in Thread : pc[t] \in {"woken", "read", "closed"}}

Present == {k \in Keys : m[k] # None}

\* Mutant: Get does not ask whether the key is there.
AskedAnyway(t) == IF t[2] = "call" /\ op[t[1]].name = "Get" THEN {op[t[1]].key} ELSE Present

\* The keys that thread t looks at.
Asked(t) == IF t[2] = "call" /\ op[t[1]].name = "Get" THEN Present \cap {op[t[1]].key} ELSE Present

TypeOK ==
    /\ m \in [Keys -> Values \cup {None}]
    /\ writer \in Thread \cup {None}
    /\ pc \in [Thread -> {"idle", "rLock", "rWait", "woken", "read", "closed",
                          "lock", "drain", "write", "clear", "unlock"}]
    /\ op \in [Clients -> Op]
    /\ todo \in [Thread -> SUBSET Keys]
    /\ seen \in [Thread -> SUBSET (Keys \X Values)]
    /\ ranging \in [Clients -> BOOLEAN]
    /\ calls \in [Clients -> 0..MaxCalls]
    /\ broken \in BOOLEAN

\* NewSyncCloveMap.
Init ==
    /\ m = [k \in Keys |-> None]
    /\ writer = None
    /\ pc = [t \in Thread |-> "idle"]
    /\ op = [c \in Clients |-> CHOOSE o \in Ops : TRUE]
    /\ todo = [t \in Thread |-> {}]
    /\ seen = [t \in Thread |-> {}]
    /\ ranging = [c \in Clients |-> FALSE]
    /\ calls = [c \in Clients |-> 0]
    /\ broken = FALSE

-----------------------------------------------------------------------------
(* Clients *)

Start(c, o) ==
    /\ pc[Call(c)] = "idle" /\ calls[c] < MaxCalls
    /\ pc' = [pc EXCEPT ![Call(c)] = IF o.name \in Writing THEN "lock" ELSE "rLock"]
    /\ op' = [op EXCEPT ![c] = o]
    /\ calls' = [calls EXCEPT ![c] = @ + 1]
    /\ broken' = (broken \/ ranging[c])
    /\ UNCHANGED <<m, writer, todo, seen, ranging>>

\* A range over IterItems.
IterItems(c) ==
    /\ pc[Call(c)] = "idle" /\ pc[Iter(c)] = "idle" /\ ~ranging[c] /\ calls[c] < MaxCalls
    /\ pc' = [pc EXCEPT ![Iter(c)] = "rLock"]
    /\ ranging' = [ranging EXCEPT ![c] = TRUE]
    /\ calls' = [calls EXCEPT ![c] = @ + 1]
    /\ UNCHANGED <<m, writer, op, todo, seen, broken>>

\* The loop is left before the channel is closed.
Abandon(c) ==
    /\ ranging[c] /\ pc[Call(c)] = "idle" /\ pc[Iter(c)] \in {"rLock", "rWait", "woken", "read"}
    /\ ranging' = [ranging EXCEPT ![c] = FALSE]
    /\ broken' = TRUE
    /\ UNCHANGED <<m, writer, pc, op, todo, seen, calls>>

\* The channel is closed.
Ranged(c) ==
    /\ ranging[c] /\ pc[Call(c)] = "idle" /\ pc[Iter(c)] \in {"closed", "idle"}
    /\ ranging' = [ranging EXCEPT ![c] = FALSE]
    /\ UNCHANGED <<m, writer, pc, op, todo, seen, calls, broken>>

-----------------------------------------------------------------------------
(* Readers *)

\* Mutant: readers come in while a writer waits for the others, or writes.
RLockAlways(t) ==
    /\ pc[t] = "rLock"
    /\ pc' = [pc EXCEPT ![t] = "read"]
    /\ todo' = [todo EXCEPT ![t] = Asked(t)]
    /\ seen' = [seen EXCEPT ![t] = {}]
    /\ UNCHANGED <<m, writer, op, ranging, calls, broken>>

\* rLock.
RLock(t) ==
    /\ pc[t] = "rLock"
    /\ IF writer = None
       THEN /\ pc' = [pc EXCEPT ![t] = "read"]
            /\ todo' = [todo EXCEPT ![t] = Asked(t)]
            /\ seen' = [seen EXCEPT ![t] = {}]
       ELSE pc' = [pc EXCEPT ![t] = "rWait"] /\ UNCHANGED <<todo, seen>>
    /\ UNCHANGED <<m, writer, op, ranging, calls, broken>>

\* A reader that waited goes on from rLock.
Enter(t) ==
    /\ pc[t] = "woken"
    /\ pc' = [pc EXCEPT ![t] = "read"]
    /\ todo' = [todo EXCEPT ![t] = Asked(t)]
    /\ UNCHANGED <<m, writer, op, seen, ranging, calls, broken>>

\* One key of a read: a turn of its loop over the map.
Look(t) ==
    /\ pc[t] = "read"
    /\ \E k \in todo[t] :
        /\ seen' = [seen EXCEPT ![t] = @ \cup {<<k, m[k]>>}]
        /\ todo' = [todo EXCEPT ![t] = @ \ {k}]
    /\ UNCHANGED <<m, writer, pc, op, ranging, calls, broken>>

\* Get, HasKey, Count, Keys, Values, Items.
LookUp(c) == Look(Call(c))

\* The send of IterItems meets the receive of the loop.
Receive(c) == ranging[c] /\ pc[Call(c)] = "idle" /\ Look(Iter(c))

\* The deferred rUnlock of a read.
RUnlock(c) ==
    /\ pc[Call(c)] = "read" /\ todo[Call(c)] = {}
    /\ pc' = [pc EXCEPT ![Call(c)] = "idle"]
    /\ seen' = [seen EXCEPT ![Call(c)] = {}]
    /\ UNCHANGED <<m, writer, op, todo, ranging, calls, broken>>

\* IterItems: close(iv).
CloseIter(c) ==
    /\ pc[Iter(c)] = "read" /\ todo[Iter(c)] = {}
    /\ pc' = [pc EXCEPT ![Iter(c)] = "closed"]
    /\ UNCHANGED <<m, writer, op, todo, seen, ranging, calls, broken>>

\* Mutant: the lock is not given back.
IterRUnlockNot(c) == FALSE /\ UNCHANGED vars

\* The deferred rUnlock of IterItems.
IterRUnlock(c) ==
    /\ pc[Iter(c)] = "closed"
    /\ pc' = [pc EXCEPT ![Iter(c)] = "idle"]
    /\ seen' = [seen EXCEPT ![Iter(c)] = {}]
    /\ UNCHANGED <<m, writer, op, todo, ranging, calls, broken>>

-----------------------------------------------------------------------------
(* Writers *)

\* lock: the writers' mutex, and the announcement to readers.
Lock(c) ==
    /\ pc[Call(c)] = "lock" /\ writer = None
    /\ writer' = Call(c)
    /\ pc' = [pc EXCEPT ![Call(c)] = "drain"]
    /\ UNCHANGED <<m, op, todo, seen, ranging, calls, broken>>

\* lock: the readers that were there have left.
Drained(c) ==
    /\ pc[Call(c)] = "drain" /\ Holders = {}
    /\ pc' = [pc EXCEPT ![Call(c)] = IF op[c].name = "Clear" THEN "clear" ELSE "write"]
    /\ UNCHANGED <<m, writer, op, todo, seen, ranging, calls, broken>>

\* Mutant: Pop looks the value up after it has deleted the key.
PopAfter(c) ==
    /\ pc[Call(c)] = "write"
    /\ m' = [m EXCEPT ![op[c].key] = IF op[c].name = "Set" THEN op[c].val ELSE None]
    /\ pc' = [pc EXCEPT ![Call(c)] = "unlock"]
    /\ UNCHANGED <<writer, op, todo, seen, ranging, calls, broken>>

\* Set, and Pop with the value it answers.
Write(c) ==
    /\ pc[Call(c)] = "write"
    /\ m' = [m EXCEPT ![op[c].key] = IF op[c].name = "Set" THEN op[c].val ELSE None]
    /\ seen' = [seen EXCEPT ![Call(c)] =
                    {<<k, m[k]>> : k \in {x \in Present : op[c].name = "Pop" /\ x = op[c].key}}]
    /\ pc' = [pc EXCEPT ![Call(c)] = "unlock"]
    /\ UNCHANGED <<writer, op, todo, ranging, calls, broken>>

\* A turn of the loop of Clear.
ClearOne(c) ==
    /\ pc[Call(c)] = "clear"
    /\ \E k \in Present : m' = [m EXCEPT ![k] = None]
    /\ UNCHANGED <<writer, pc, op, todo, seen, ranging, calls, broken>>

\* The end of that loop.
Cleared(c) ==
    /\ pc[Call(c)] = "clear" /\ Present = {}
    /\ pc' = [pc EXCEPT ![Call(c)] = "unlock"]
    /\ UNCHANGED <<m, writer, op, todo, seen, ranging, calls, broken>>

\* The deferred unlock: the readers that wait have the lock.
Unlock(c) ==
    /\ pc[Call(c)] = "unlock"
    /\ writer' = None
    /\ pc' = [t \in Thread |-> IF t = Call(c) THEN "idle" ELSE IF pc[t] = "rWait" THEN "woken" ELSE pc[t]]
    /\ seen' = [seen EXCEPT ![Call(c)] = {}]
    /\ UNCHANGED <<m, op, todo, ranging, calls, broken>>

-----------------------------------------------------------------------------

Next ==
    \/ \E c \in Clients, o \in Ops : Start(c, o)
    \/ \E c \in Clients : IterItems(c) \/ Abandon(c) \/ Ranged(c)
    \/ \E t \in Thread : RLock(t) \/ Enter(t)
    \/ \E c \in Clients : LookUp(c) \/ Receive(c) \/ RUnlock(c) \/ CloseIter(c) \/ IterRUnlock(c)
    \/ \E c \in Clients : Lock(c) \/ Drained(c) \/ Write(c) \/ ClearOne(c) \/ Cleared(c) \/ Unlock(c)

Spec == Init /\ [][Next]_vars

\* The scheduler runs what can run; the mutex of the writers is fair (sync.Mutex starves
\* nobody); a loop over IterItems that is not left goes on receiving.
FairSpec ==
    /\ Spec
    /\ \A t \in Thread : WF_vars(RLock(t)) /\ WF_vars(Enter(t))
    /\ \A c \in Clients :
        /\ WF_vars(LookUp(c)) /\ WF_vars(Receive(c)) /\ WF_vars(RUnlock(c))
        /\ WF_vars(CloseIter(c)) /\ WF_vars(IterRUnlock(c)) /\ WF_vars(Ranged(c))
        /\ SF_vars(Lock(c)) /\ WF_vars(Drained(c)) /\ WF_vars(Write(c)) /\ WF_vars(Unlock(c))
        /\ WF_vars(ClearOne(c)) /\ WF_vars(Cleared(c))

-----------------------------------------------------------------------------
(* Properties *)

\* A read sees one state of the map, however many steps it takes and whatever its consumer
\* does meanwhile: what it has and what it has still to visit are the items of the map as it
\* is, until it unlocks (map.go 134-182).
Snapshot ==
    \A t \in Readers :
        /\ todo[t] \subseteq Asked(t)
        /\ seen[t] = {<<k, m[k]>> : k \in Asked(t) \ todo[t]}

\* What a client sees of a call: a read takes effect when it has the lock, a Set or Pop where
\* it writes, and a Clear when it has shut the readers out, before it deletes the first key.
Iteration == [name |-> "IterItems"]

MapSeen == IF \E t \in Thread : pc[t] = "clear" THEN [k \in Keys |-> None] ELSE m

Stage == [t \in Thread |-> CASE pc[t] = "idle" -> "idle"
                            [] pc[t] \in {"read", "closed", "clear", "unlock"} -> "done"
                            [] OTHER -> "called"]

Asking == [t \in Thread |-> IF t[2] = "call" THEN op[t[1]] ELSE Iteration]

Answering == [t \in Thread |-> seen[t] \cup {<<k, m[k]>> : k \in todo[t]}]

Atomic == INSTANCE AtomicMap WITH
    Threads <- Thread, Ops <- Ops \cup {Iteration},
    map <- MapSeen, stage <- Stage, op <- Asking, answer <- Answering

\* Every call, a Clear key by key and an iteration with its stops included, acts as if at one
\* instant between its invocation and its return, for all goroutines at once, and answers
\* from the map of that instant: Pop gives each value to one caller, no read sees a map half
\* cleared (map.go 79-182).
ImplementsMap == Atomic!Spec

\* Every call returns and every iteration gives its lock back, as long as no loop over
\* IterItems is left early and none calls the map itself: either may block every writer, and
\* then every reader, for good (map.go 159-168).
CallsReturn == \A t \in Thread : pc[t] # "idle" ~> (pc[t] = "idle" \/ broken)

=============================================================================
