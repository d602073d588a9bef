----------------------------- MODULE PoolProofs -----------------------------
(***************************************************************************)
(* Theorems about Pool, for every set of connections and ids, any limit    *)
(* and any user.                                                           *)
(*                                                                         *)
(* The registry alone is not inductive: what AddConnection is about to     *)
(* store must be a controller that exists (Created), or a later            *)
(* CreateController could change the id of a registered one, and a key is  *)
(* deleted by Close only after Close was called (Swept).                   *)
(***************************************************************************)
EXTENDS Pool, TLAPS

\* The caller of AddConnection is past CreateController exactly when there is a controller.
Created ==
    \A c \in Conns :
        /\ add[c] \in {"new", "create"} => phase[c] = "none"
        /\ add[c] \in {"enter", "store", "added"} => phase[c] # "none"

Swept == sweep # {} => closed

IInv == TypeOK /\ Created /\ Swept /\ RegisteredEntered /\ DeadOnlyIfLate /\ LiveIsFound

-----------------------------------------------------------------------------
(* What the steps have in common *)

\* The empty pool satisfies the invariant.
LEMMA InitIInv == Init => IInv
<1> SUFFICES ASSUME Init PROVE IInv
  OBVIOUS
<1> USE PoolAssumption
<1>1. id \in [Conns -> Ids]
  <2>1. \E i \in Ids : TRUE
    OBVIOUS
  <2>2. (CHOOSE i \in Ids : TRUE) \in Ids
    BY <2>1
  <2> QED BY <2>2 DEF Init
<1>2. add \in [Conns -> AddPCs] /\ phase \in [Conns -> {"none", "open", "dropped", "left"}]
  BY DEF Init, AddPCs
<1>3. calling \in [Conns -> BOOLEAN] /\ registry \in [Ids -> Conns \cup {NoConn}]
  BY DEF Init
<1>4. /\ held \subseteq Conns /\ hungUp \subseteq Conns /\ uncounted \subseteq Conns
      /\ lateStore \subseteq Conns /\ sweep \subseteq Ids
      /\ curr \in Int /\ target \in Conns \cup {NoConn} /\ closed \in BOOLEAN
  <2>1. held = {} /\ hungUp = {} /\ uncounted = {} /\ lateStore = {} /\ sweep = {}
    BY DEF Init
  <2>2. curr = 0 /\ target = NoConn /\ closed = FALSE
    BY DEF Init
  <2>3. /\ held \subseteq Conns /\ hungUp \subseteq Conns /\ uncounted \subseteq Conns
        /\ lateStore \subseteq Conns /\ sweep \subseteq Ids
    BY <2>1
  <2>4. curr \in Int /\ target \in Conns \cup {NoConn}
    BY <2>2
  <2>5. closed \in BOOLEAN
    BY <2>2
  <2> QED BY <2>3, <2>4, <2>5
<1>5. TypeOK
  BY <1>1, <1>2, <1>3, <1>4 DEF TypeOK
<1>6. Created /\ Swept /\ RegisteredEntered /\ DeadOnlyIfLate /\ LiveIsFound
  BY DEF Init, Created, Swept, RegisteredEntered, DeadOnlyIfLate, LiveIsFound
<1> QED BY <1>5, <1>6 DEF IInv

\* Every action keeps the types.
LEMMA TypesKept == TypeOK /\ [Next]_vars => TypeOK'
<1> SUFFICES ASSUME TypeOK, [Next]_vars PROVE TypeOK'
  OBVIOUS
<1> USE PoolAssumption DEF TypeOK, AddPCs, pool, sessions
<1>1. ASSUME NEW c \in Conns, Adding(c) PROVE TypeOK'
  BY <1>1 DEF Adding, AddGoto, AddConnection, CreateController, CreateFails, ControllerEnter,
              Store, CallerCloses
<1>2. ASSUME NEW c \in Conns, CollectFile(c) PROVE TypeOK'
  BY <1>2 DEF CollectFile
<1>3. ASSUME NEW c \in Conns, Session(c) PROVE TypeOK'
  BY <1>3 DEF Session, Moves
<1>4. ASSUME NEW c \in Conns, HangUp(c) PROVE TypeOK'
  BY <1>4 DEF HangUp, Moves
<1>5. ASSUME NEW c \in Conns, Leaving(c) PROVE TypeOK'
  BY <1>5 DEF Leaving, Leave, LeaveCount, Moves
<1>6. ASSUME NEW i \in Ids, CloseController(i) \/ CloseDelete(i) PROVE TypeOK'
  BY <1>6 DEF CloseController, CloseDelete
<1>7. CASE CloseControllerExit \/ Close
  BY <1>7 DEF CloseControllerExit, Close, Moves
<1>8. CASE UNCHANGED vars
  BY <1>8 DEF vars
<1> QED BY <1>1, <1>2, <1>3, <1>4, <1>5, <1>6, <1>7, <1>8 DEF Next

-----------------------------------------------------------------------------
(* What the registry says *)

Registry == Created /\ Swept /\ RegisteredEntered /\ DeadOnlyIfLate /\ LiveIsFound

\* A step that leaves AddConnection, ids and registry alone, and at most moves one live
\* controller between "open" and "dropped", keeps what the registry says.
LEMMA MoveKeeps ==
    ASSUME TypeOK, Registry,
           \/ phase' = phase
           \/ \E c \in Conns, p \in {"open", "dropped"} :
                phase[c] \in {"open", "dropped"} /\ phase' = [phase EXCEPT ![c] = p],
           UNCHANGED <<add, id, registry, sweep, lateStore, closed>>
    PROVE  Registry'
<1> USE DEF Registry
<1>1. \A c \in Conns : /\ phase'[c] = "none" <=> phase[c] = "none"
                       /\ phase'[c] = "left" <=> phase[c] = "left"
                       /\ phase'[c] \in {"open", "dropped"} <=> phase[c] \in {"open", "dropped"}
  BY DEF TypeOK
<1>2. Created' /\ Swept'
  BY <1>1 DEF Created, Swept
<1>3. RegisteredEntered'
  BY DEF RegisteredEntered
<1>4. DeadOnlyIfLate'
  BY <1>1 DEF DeadOnlyIfLate, TypeOK
<1>5. LiveIsFound'
  BY <1>1 DEF LiveIsFound
<1> QED BY <1>2, <1>3, <1>4, <1>5

\* A step of AddConnection before Store and short of CreateController keeps it: the caller is
\* not at "added" and the controller, if it is to be stored, exists.
LEMMA AddKeeps ==
    ASSUME TypeOK, Registry, NEW c \in Conns, NEW from \in AddPCs, NEW to \in AddPCs,
           AddGoto(c, from, to), from # "added", to # "added",
           to \in {"new", "create"} => from = "new",
           to \in {"enter", "store"} => from = "enter",
           UNCHANGED <<phase, id, registry, sweep, lateStore, closed>>
    PROVE  Registry'
<1> USE DEF Registry, AddGoto, TypeOK
<1>1. Created'
  BY DEF Created, AddPCs
<1>2. RegisteredEntered' /\ Swept' /\ DeadOnlyIfLate'
  BY DEF RegisteredEntered, Swept, DeadOnlyIfLate
<1>3. LiveIsFound'
  BY DEF LiveIsFound
<1> QED BY <1>1, <1>2, <1>3

\* CreateController gives an id to a controller nobody has registered.
LEMMA CreateKeeps ==
    ASSUME TypeOK, Registry, NEW c \in Conns, CreateController(c)
    PROVE  Registry'
<1> USE DEF Registry, CreateController, AddGoto, TypeOK, pool
<1>1. phase[c] = "none" /\ \A i \in Ids : registry[i] # NoConn => registry[i] # c
  BY DEF Created, RegisteredEntered
<1>2. Created'
  BY DEF Created, AddPCs
<1>3. RegisteredEntered' /\ Swept' /\ DeadOnlyIfLate'
  BY <1>1 DEF RegisteredEntered, Swept, DeadOnlyIfLate
<1>4. ASSUME NEW e \in Conns, add'[e] = "added", phase'[e] \in {"open", "dropped"}, ~closed',
             \A d \in Conns \ {e} : phase'[d] # "none" => id'[d] # id'[e]
      PROVE  registry'[id'[e]] = e
  <2>1. e # c /\ id'[e] = id[e] /\ phase'[e] = phase[e] /\ add[e] = "added"
    BY <1>4
  <2>2. \A d \in Conns \ {e} : phase[d] # "none" => id[d] # id[e]
    BY <1>1, <1>4, <2>1
  <2> QED BY <1>4, <2>1, <2>2 DEF LiveIsFound
<1>5. LiveIsFound'
  BY <1>4 DEF LiveIsFound
<1> QED BY <1>2, <1>3, <1>5

\* Store puts an accepted controller under its id; a namesake it replaces loses its claim.
LEMMA StoreKeeps ==
    ASSUME TypeOK, Registry, NEW c \in Conns, Store(c)
    PROVE  Registry'
<1> USE PoolAssumption DEF Registry, Store, AddGoto, TypeOK, sessions
<1>1. Created'
  BY DEF Created, AddPCs
<1>2. RegisteredEntered' /\ Swept'
  BY DEF RegisteredEntered, Swept
<1>3. DeadOnlyIfLate'
  BY DEF DeadOnlyIfLate
<1>4. ASSUME NEW e \in Conns, add'[e] = "added", phase'[e] \in {"open", "dropped"}, ~closed',
             \A d \in Conns \ {e} : phase'[d] # "none" => id'[d] # id'[e]
      PROVE  registry'[id'[e]] = e
  <2>1. CASE e = c
    BY <2>1
  <2>2. CASE e # c
    <3>1. phase[c] # "none"
      BY DEF Created
    <3>2. id[c] # id[e] /\ add[e] = "added"
      BY <1>4, <2>2, <3>1
    <3> QED BY <1>4, <2>2, <3>2 DEF LiveIsFound
  <2> QED BY <2>1, <2>2
<1>5. LiveIsFound'
  BY <1>4 DEF LiveIsFound
<1> QED BY <1>1, <1>2, <1>3, <1>5

\* ControllerLeave deletes under the leaver's id: itself, or a namesake.
LEMMA LeaveKeeps ==
    ASSUME TypeOK, Registry, NEW c \in Conns, Leave(c)
    PROVE  Registry'
<1> USE PoolAssumption DEF Registry, Leave, Moves, TypeOK
<1>1. phase[c] = "dropped" /\ phase' = [phase EXCEPT ![c] = "left"]
  BY DEF S!Leave
<1>2. Created' /\ Swept'
  BY <1>1 DEF Created, Swept
<1>3. RegisteredEntered'
  BY DEF RegisteredEntered
<1>4. DeadOnlyIfLate'
  BY <1>1 DEF DeadOnlyIfLate, RegisteredEntered
<1>5. ASSUME NEW e \in Conns, add'[e] = "added", phase'[e] \in {"open", "dropped"}, ~closed',
             \A d \in Conns \ {e} : phase'[d] # "none" => id'[d] # id'[e]
      PROVE  registry'[id'[e]] = e
  <2>1. e # c /\ phase'[c] # "none"
    BY <1>1, <1>5
  <2>2. id[c] # id[e]
    BY <1>5, <2>1
  <2>3. \A d \in Conns \ {e} : phase[d] # "none" => id[d] # id[e]
    BY <1>1, <1>5
  <2> QED BY <1>1, <1>5, <2>1, <2>2, <2>3 DEF LiveIsFound
<1>6. LiveIsFound'
  BY <1>5 DEF LiveIsFound
<1> QED BY <1>2, <1>3, <1>4, <1>6

\* Close deletes keys only after it was called, when LiveIsFound promises nothing.
LEMMA CloseKeeps ==
    ASSUME TypeOK, Registry, Close \/ \E i \in Ids : CloseDelete(i)
    PROVE  Registry'
<1> USE PoolAssumption DEF Registry, TypeOK, sessions
<1>1. CASE Close
  BY <1>1 DEF Close, Created, Swept, RegisteredEntered, DeadOnlyIfLate, LiveIsFound
<1>2. ASSUME NEW i \in Ids, CloseDelete(i) PROVE Registry'
  BY <1>2 DEF CloseDelete, Created, Swept, RegisteredEntered, DeadOnlyIfLate, LiveIsFound
<1> QED BY <1>1, <1>2

\* Every step keeps what the registry says.
LEMMA RegistryKept ==
    ASSUME TypeOK, Registry, [Next]_vars
    PROVE  Registry'
<1> USE DEF sessions, pool
<1>1. ASSUME NEW c \in Conns, Adding(c) PROVE Registry'
  <2>1. CASE AddConnection(c)
    BY <2>1, AddKeeps DEF AddConnection, AddPCs
  <2>2. CASE CreateController(c)
    BY <2>2, CreateKeeps
  <2>3. CASE CreateFails(c) \/ ControllerEnter(c) \/ CallerCloses(c)
    BY <2>3, AddKeeps DEF CreateFails, ControllerEnter, CallerCloses, AddPCs
  <2>4. CASE Store(c)
    BY <2>4, StoreKeeps
  <2> QED BY <1>1, <2>1, <2>2, <2>3, <2>4 DEF Adding
<1>2. ASSUME NEW c \in Conns, Session(c) PROVE Registry'
  <2>1. PICK p \in {"open", "dropped"}, k \in BOOLEAN : Moves(c, p, k) /\ S(c)!Next
    BY <1>2 DEF Session
  <2>2. phase[c] # "left"
    BY <2>1 DEF Moves, TypeOK, S!Next, S!Drop, S!Call, S!Return, S!ReturnAndDrop, S!Leave
  <2>3. phase[c] \in {"open", "dropped"} /\ phase' = [phase EXCEPT ![c] = p]
    BY <1>2, <2>1, <2>2 DEF Session, Moves, TypeOK
  <2> QED BY <1>2, <2>3, MoveKeeps DEF Session
<1>3. ASSUME NEW c \in Conns, HangUp(c) PROVE Registry'
  BY <1>3, MoveKeeps DEF HangUp, Moves, S!Drop
<1>4. ASSUME NEW c \in Conns, CollectFile(c) \/ LeaveCount(c) PROVE Registry'
  BY <1>4, MoveKeeps DEF CollectFile, LeaveCount
<1>5. ASSUME NEW i \in Ids, CloseController(i) PROVE Registry'
  BY <1>5, MoveKeeps DEF CloseController
<1>6. CASE CloseControllerExit
  BY <1>6, MoveKeeps DEF CloseControllerExit, Moves, TypeOK
<1>7. CASE UNCHANGED vars
  BY <1>7, MoveKeeps DEF vars
<1> QED BY <1>1, <1>2, <1>3, <1>4, <1>5, <1>6, <1>7, LeaveKeeps, CloseKeeps DEF Next, Leaving

-----------------------------------------------------------------------------
(* Theorems *)

\* The invariant holds in every reachable state, whatever listeners, users, the garbage
\* collector and the connections do.
THEOREM Invariance == Spec => []IInv
<1>1. IInv /\ [Next]_vars => IInv'
  BY TypesKept, RegistryKept DEF IInv, Registry
<1> QED BY InitIInv, <1>1, PTL DEF Spec

\* Pool's variables keep their types.
THEOREM TypeCorrect == Spec => []TypeOK
BY Invariance, PTL DEF IInv

\* GetController, Broadcast and CloseController reach only controllers that OnControllerEnter
\* accepted, each under its own id.
THEOREM OnlyEntered == Spec => []RegisteredEntered
BY Invariance, PTL DEF IInv

\* The only controllers the pool keeps for ever are those that left before they were stored.
THEOREM DeadAreLate == Spec => []DeadOnlyIfLate
BY Invariance, PTL DEF IInv

\* A live connection with an id of its own is found until the pool is closed.
THEOREM LiveFound == Spec => []LiveIsFound
BY Invariance, PTL DEF IInv

=============================================================================
