-------------------------------- MODULE Pool --------------------------------
(***************************************************************************)
(* The TCP pool and those who feed it: tcp/pool.go, listener.go and        *)
(* connector.go, over connections that behave as Session promises.         *)
(*                                                                         *)
(* The goroutine of a Listener or of a user of Connector takes one socket  *)
(* through AddConnection: limit, controller, OnControllerEnter, registry.  *)
(* The controller's goroutines run from the moment it is created, so a     *)
(* connection may be dropped, and leave, at any of those steps.            *)
(*                                                                         *)
(* A connection's id is the number of a duplicated descriptor (tc.File,    *)
(* controller.go:71) that nothing keeps: a garbage collection closes it,   *)
(* and the number is free again while the connection lives. Which free     *)
(* number the next duplicate gets depends on every file of the process,    *)
(* and is any of them here.                                                *)
(***************************************************************************)
EXTENDS Integers, FiniteSets

CONSTANTS
    Conns,          \* sockets accepted or dialled
    Ids,            \* descriptor numbers
    Limit,          \* pool.limit, not positive: no limit
    NoConn          \* an absent registry entry

ASSUME PoolAssumption == Limit \in Int /\ NoConn \notin Conns /\ Ids # {}

VARIABLES
    add,            \* where the caller of AddConnection is, per socket
    phase, calling, \* Session of each controller; phase is "none" before it is created
    id,             \* the controller's session id
    held,           \* ids whose duplicated descriptor is still open
    hungUp,         \* sockets closed by the caller, after AddConnection returned an error
    registry,       \* pool.controllers
    curr,           \* pool.curr
    uncounted,      \* controllers between the two steps of ControllerLeave
    target,         \* what CloseController has loaded and is about to Exit
    sweep,          \* keys StandardPool.Close has still to delete
    lateStore,      \* controllers stored after they had left (history)
    closed          \* StandardPool.Close has been called (history)

vars == <<add, phase, calling, id, held, hungUp, registry, curr, uncounted, target, sweep,
          lateStore, closed>>
sessions == <<phase, calling>>
pool == <<registry, curr, uncounted, sweep, lateStore, closed>>

AddPCs == {"new", "create", "enter", "store", "added", "fail", "failed"}

S(c) == INSTANCE Session WITH phase <- phase[c], calling <- calling[c]

TypeOK ==
    /\ add \in [Conns -> AddPCs]
    /\ phase \in [Conns -> {"none", "open", "dropped", "left"}]
    /\ calling \in [Conns -> BOOLEAN]
    /\ id \in [Conns -> Ids]
    /\ held \subseteq Conns
    /\ hungUp \subseteq Conns
    /\ registry \in [Ids -> Conns \cup {NoConn}]
    /\ curr \in Int
    /\ uncounted \subseteq Conns
    /\ target \in Conns \cup {NoConn}
    /\ sweep \subseteq Ids
    /\ lateStore \subseteq Conns
    /\ closed \in BOOLEAN

Init ==
    /\ add = [c \in Conns |-> "new"]
    /\ phase = [c \in Conns |-> "none"]
    /\ calling = [c \in Conns |-> FALSE]
    /\ id = [c \in Conns |-> CHOOSE i \in Ids : TRUE]
    /\ held = {}
    /\ hungUp = {}
    /\ registry = [i \in Ids |-> NoConn]
    /\ curr = 0
    /\ uncounted = {}
    /\ target = NoConn
    /\ sweep = {}
    /\ lateStore = {}
    /\ closed = FALSE

-----------------------------------------------------------------------------
(* AddConnection, in the goroutine of the listener or of the connector's user *)

AddGoto(c, from, to) == add[c] = from /\ add' = [add EXCEPT ![c] = to]

CheckLimit == Limit <= 0 \/ curr < Limit

AddConnection(c) ==
    /\ AddGoto(c, "new", IF CheckLimit THEN "create" ELSE "fail")
    /\ UNCHANGED <<sessions, id, held, hungUp, pool, target>>

\* CreateController: the descriptor is duplicated, its number is the id, the goroutines start.
CreateController(c) ==
    /\ AddGoto(c, "create", "enter")
    /\ \E i \in Ids \ {id[d] : d \in held} : id' = [id EXCEPT ![c] = i]
    /\ held' = held \cup {c}
    /\ phase' = [phase EXCEPT ![c] = "open"]
    /\ UNCHANGED <<calling, hungUp, pool, target>>

\* Mutant: the seed is not tested, and the controller gets the id 0.
CreateUnchecked(c) ==
    /\ AddGoto(c, "create", "enter")
    /\ id' = [id EXCEPT ![c] = 0]
    /\ phase' = [phase EXCEPT ![c] = "open"]
    /\ UNCHANGED <<calling, held, hungUp, pool, target>>

\* The descriptor cannot be duplicated: no controller.
CreateFails(c) ==
    /\ AddGoto(c, "create", "fail")
    /\ UNCHANGED <<sessions, id, held, hungUp, pool, target>>

\* Mutant: the controller is registered before it is asked about.
ControllerEnterStored(c) ==
    /\ \/ AddGoto(c, "enter", "store")
       \/ AddGoto(c, "enter", "fail")
    /\ registry' = [registry EXCEPT ![id[c]] = c]
    /\ UNCHANGED <<sessions, id, held, hungUp, curr, uncounted, sweep, lateStore, closed, target>>

\* OnControllerEnter accepts or rejects the controller.
ControllerEnter(c) ==
    /\ \/ AddGoto(c, "enter", "store")
       \/ AddGoto(c, "enter", "fail")
    /\ UNCHANGED <<sessions, id, held, hungUp, pool, target>>

Store(c) ==
    /\ AddGoto(c, "store", "added")
    /\ registry' = [registry EXCEPT ![id[c]] = c]
    /\ lateStore' = IF phase[c] = "left" THEN lateStore \cup {c} ELSE lateStore
    /\ UNCHANGED <<sessions, id, held, hungUp, curr, uncounted, sweep, target, closed>>

\* Mutant: the caller forgets to close the socket.
CallerForgets(c) ==
    /\ AddGoto(c, "fail", "failed")
    /\ UNCHANGED <<sessions, id, held, hungUp, pool, target>>

\* AddConnection returned an error: its caller closes the socket.
CallerCloses(c) ==
    /\ AddGoto(c, "fail", "failed")
    /\ hungUp' = hungUp \cup {c}
    /\ UNCHANGED <<sessions, id, held, pool, target>>

\* The finalizer of the forgotten os.File closes the duplicate.
CollectFile(c) ==
    /\ c \in held
    /\ held' = held \ {c}
    /\ UNCHANGED <<add, sessions, id, hungUp, pool, target>>

-----------------------------------------------------------------------------
(* The controllers, as Session lets them behave *)

\* A step of controller c that takes it to phase p and callback state k.
Moves(c, p, k) ==
    /\ phase' = [phase EXCEPT ![c] = p]
    /\ calling' = [calling EXCEPT ![c] = k]

Session(c) ==
    /\ phase[c] # "none"
    /\ \E p \in {"open", "dropped"}, k \in BOOLEAN : Moves(c, p, k) /\ S(c)!Next
    /\ UNCHANGED <<add, id, held, hungUp, pool, target>>

\* R's read of a socket that its caller has closed fails, and R drops the connection.
HangUp(c) ==
    /\ c \in hungUp
    /\ Moves(c, "dropped", calling[c]) /\ S(c)!Drop
    /\ UNCHANGED <<add, id, held, hungUp, pool, target>>

\* Mutant: ControllerLeave leaves the registry alone.
LeaveNoDelete(c) ==
    /\ Moves(c, "left", calling[c]) /\ S(c)!Leave
    /\ uncounted' = uncounted \cup {c}
    /\ UNCHANGED <<add, id, held, hungUp, registry, curr, target, sweep, lateStore, closed>>

\* ControllerLeave, called by P: Delete, then the counter, then OnControllerLeave.
Leave(c) ==
    /\ Moves(c, "left", calling[c]) /\ S(c)!Leave
    /\ registry' = [registry EXCEPT ![id[c]] = NoConn]
    /\ uncounted' = uncounted \cup {c}
    /\ UNCHANGED <<add, id, held, hungUp, curr, target, sweep, lateStore, closed>>

LeaveCount(c) ==
    /\ c \in uncounted
    /\ uncounted' = uncounted \ {c}
    /\ curr' = curr - 1
    /\ UNCHANGED <<add, sessions, id, held, hungUp, registry, target, sweep,
                   lateStore, closed>>

-----------------------------------------------------------------------------
(* The pool's user *)

\* Mutant: CloseController also forgets the controller it exits.
CloseControllerDelete ==
    /\ target # NoConn
    /\ target' = NoConn
    /\ registry' = [registry EXCEPT ![id[target]] = NoConn]
    /\ IF phase[target] = "open"
       THEN Moves(target, "dropped", calling[target])
       ELSE UNCHANGED sessions
    /\ UNCHANGED <<add, id, held, hungUp, curr, uncounted, sweep, lateStore, closed>>

\* CloseController(i): Load, then Exit of what was loaded.
CloseController(i) ==
    /\ target = NoConn /\ registry[i] # NoConn
    /\ target' = registry[i]
    /\ UNCHANGED <<add, sessions, id, held, hungUp, pool>>

CloseControllerExit ==
    /\ target # NoConn
    /\ target' = NoConn
    /\ IF phase[target] = "open"
       THEN Moves(target, "dropped", calling[target])
       ELSE UNCHANGED sessions
    /\ UNCHANGED <<add, id, held, hungUp, pool>>

\* Close waits for a WaitGroup nothing adds to, then deletes the keys one by one; it closes
\* no connection.
Close ==
    /\ sweep = {}
    /\ sweep' = {i \in Ids : registry[i] # NoConn}
    /\ closed' = TRUE
    /\ UNCHANGED <<add, sessions, id, held, hungUp, registry, curr, uncounted, target, lateStore>>

CloseDelete(i) ==
    /\ i \in sweep
    /\ sweep' = sweep \ {i}
    /\ registry' = [registry EXCEPT ![i] = NoConn]
    /\ UNCHANGED <<add, sessions, id, held, hungUp, curr, uncounted, target, lateStore, closed>>

-----------------------------------------------------------------------------

Adding(c) ==
    \/ AddConnection(c) \/ CreateController(c) \/ CreateFails(c) \/ ControllerEnter(c)
    \/ Store(c) \/ CallerCloses(c)

Leaving(c) == Leave(c) \/ LeaveCount(c)

Next ==
    \/ \E c \in Conns : Adding(c) \/ CollectFile(c) \/ Session(c) \/ HangUp(c) \/ Leaving(c)
    \/ \E i \in Ids : CloseController(i) \/ CloseDelete(i)
    \/ CloseControllerExit \/ Close

Spec == Init /\ [][Next]_vars

\* The callers of AddConnection go on, callbacks return, a read of a closed socket fails, and
\* a dropped connection leaves (the liveness of Session).
Fairness ==
    \A c \in Conns :
      /\ WF_vars(Adding(c)) /\ WF_vars(HangUp(c)) /\ WF_vars(LeaveCount(c))
      /\ WF_vars(Session(c) /\ calling[c] /\ ~calling'[c])
      /\ SF_vars(Leave(c))

FairSpec == Spec /\ Fairness

-----------------------------------------------------------------------------
(* Properties *)

\* The registry finds under an id only controllers that have that id and that
\* OnControllerEnter accepted: AddConnection stores after the answer, never before.
RegisteredEntered ==
    \A i \in Ids : registry[i] # NoConn => id[registry[i]] = i /\ add[registry[i]] = "added"

\* A connection that left is gone from the registry, but for one that left before
\* AddConnection stored it: P deleted nothing then, and nothing deletes it later.
DeadOnlyIfLate ==
    \A i \in Ids :
        registry[i] # NoConn /\ phase[registry[i]] = "left" => registry[i] \in lateStore

\* Until the pool is closed, a live connection that was added is found under its id, however
\* additions and departures interleave, provided no other controller was given the same id.
LiveIsFound ==
    \A c \in Conns :
        /\ add[c] = "added" /\ phase[c] \in {"open", "dropped"} /\ ~closed
        /\ \A d \in Conns \ {c} : phase[d] # "none" => id[d] # id[c]
        => registry[id[c]] = c

\* Of a connection AddConnection refuses, every controller created for it leaves, although
\* the pool never knew it: the listener (listener.go:64) and the connector close the socket.
RefusedLeaves == \A c \in Conns : add[c] = "failed" ~> phase[c] \in {"none", "left"}

\* pool.go:67: the pool "supports a maximum of n controllers".
LimitRespected ==
    Limit > 0 =>
        Cardinality({c \in Conns : add[c] = "added" /\ phase[c] # "left"}) <= Limit

=============================================================================
