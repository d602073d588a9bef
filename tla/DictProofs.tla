----------------------------- MODULE DictProofs -----------------------------
(***************************************************************************)
(* Proofs about Dict, for any clients, keys, values and calls: a read sees *)
(* one state of the map, and every call acts as if at one instant.         *)
(***************************************************************************)
EXTENDS Dict, TLAPS

Owning == {"drain", "write", "clear", "unlock"}

\* The owner of the writers' mutex is the one thread between lock and unlock.
OneWriter == \A t \in Thread : pc[t] \in Owning <=> writer = t

\* Nobody holds the lock for reading once a writer has drained the readers.
Excluded == (\E t \in Thread : pc[t] \in {"write", "clear", "unlock"}) => Holders = {}

\* Only a read is in the readers' part of the lock, only a write in the writers'.
Kinds ==
    \A c \in Clients :
        /\ pc[Call(c)] \in {"rLock", "rWait", "woken"} => op[c].name \in Reading
        /\ pc[Call(c)] \in {"lock", "drain"} => op[c].name \in Writing
        /\ pc[Call(c)] = "write" => op[c].name \in {"Set", "Pop"}

\* A thread that does not read has nothing to visit, and has items only to return them.
Unread ==
    \A t \in Thread :
        /\ pc[t] # "read" => todo[t] = {}
        /\ pc[t] \notin {"read", "closed", "unlock"} => seen[t] = {}

\* The inductive invariant.
IInv == TypeOK /\ OneWriter /\ Excluded /\ Kinds /\ Unread /\ Snapshot

\* The steps of a client between its calls.
Client(c) == (\E o \in Ops : Start(c, o)) \/ IterItems(c) \/ Abandon(c) \/ Ranged(c)

\* A thread is a client's call or its iterator, never both, and never None.
LEMMA ThreadsOf ==
    /\ \A c \in Clients : Call(c) \in Thread /\ Iter(c) \in Thread /\ Call(c) # Iter(c)
    /\ \A t \in Thread : t[1] \in Clients
    /\ \A c, d \in Clients : Call(c) # Iter(d) /\ (Call(c) = Call(d) => c = d)
    /\ None \notin Thread /\ None \notin Values
BY DictAssumption DEF Thread, Call, Iter

\* The map of NewSyncCloveMap, unlocked and unread.
LEMMA InitInvariant == Init => IInv
<1> SUFFICES ASSUME Init PROVE IInv
  OBVIOUS
<1>1. op \in [Clients -> Op]
  <2>1. (CHOOSE o \in Ops : TRUE) \in Ops
    BY DictAssumption, Zenon
  <2>2. (CHOOSE o \in Ops : TRUE) \in Op
    BY <2>1, DictAssumption
  <2> QED
    BY <2>2 DEF Init
<1>2. broken \in BOOLEAN /\ ranging \in [Clients -> BOOLEAN]
  BY DEF Init
<1>3. TypeOK
  BY <1>1, <1>2, DictAssumption DEF Init, TypeOK
<1>4. Readers = {} /\ Holders = {}
  BY DEF Init, Readers, Holders
<1>5. OneWriter /\ Excluded /\ Kinds /\ Unread
  BY <1>4, ThreadsOf DEF Init, OneWriter, Excluded, Kinds, Unread, Owning
<1>6. Snapshot
  BY <1>4 DEF Snapshot
<1> QED
  BY <1>3, <1>5, <1>6 DEF IInv

-----------------------------------------------------------------------------
(* The steps *)

\* Beginning or leaving a call or a loop takes no lock and reads nothing.
LEMMA ClientStep ==
    ASSUME IInv, NEW c \in Clients, Client(c)
    PROVE  IInv'
<1> USE ThreadsOf DEF IInv
<1>1. UNCHANGED <<m, writer, todo, seen>> /\ Readers' = Readers /\ Holders' = Holders
  BY DEF Client, Start, IterItems, Abandon, Ranged, Readers, Holders, TypeOK
<1>2. op' \in [Clients -> Op] /\ calls' \in [Clients -> 0..MaxCalls]
  <2>1. op' \in [Clients -> Op]
    BY DictAssumption DEF Client, Start, IterItems, Abandon, Ranged, TypeOK
  <2>2. calls' = calls \/ (calls[c] < MaxCalls /\ calls' = [calls EXCEPT ![c] = @ + 1])
    BY DEF Client, Start, IterItems, Abandon, Ranged
  <2>3. calls' \in [Clients -> 0..MaxCalls]
    BY <2>2, DictAssumption DEF TypeOK
  <2> QED
    BY <2>1, <2>3
<1>3. pc' \in [Thread -> {"idle", "rLock", "rWait", "woken", "read", "closed",
                         "lock", "drain", "write", "clear", "unlock"}]
  BY DEF Client, Start, IterItems, Abandon, Ranged, TypeOK
<1>4. ranging' \in [Clients -> BOOLEAN]
  BY DEF Client, Start, IterItems, Abandon, Ranged, TypeOK
<1>5. broken' \in BOOLEAN
  BY DEF Client, Start, IterItems, Abandon, Ranged, TypeOK
<1>6. TypeOK'
  BY <1>1, <1>2, <1>3, <1>4, <1>5 DEF TypeOK
<1>7. \A t \in Thread : pc'[t] = pc[t] \/ (pc[t] = "idle" /\ pc'[t] \in {"lock", "rLock"})
  BY DEF Client, Start, IterItems, Abandon, Ranged, TypeOK
<1>8. OneWriter' /\ Excluded' /\ Unread'
  BY <1>1, <1>7 DEF OneWriter, Excluded, Unread, Owning
<1>11. Kinds'
  BY DictAssumption DEF Client, Start, IterItems, Abandon, Ranged, TypeOK, Kinds, Op
<1>9. \A t \in Readers : Asked(t)' = Asked(t)
  <2> SUFFICES ASSUME NEW t \in Readers PROVE Asked(t)' = Asked(t)
    OBVIOUS
  <2>1. t \in Thread /\ pc[t] # "idle"
    BY DEF Readers
  <2>2. t[2] = "call" => t = Call(t[1])
    BY <2>1 DEF Thread, Call
  <2>3. t[2] = "call" => op'[t[1]] = op[t[1]]
    BY <2>1, <2>2 DEF Client, Start, IterItems, Abandon, Ranged, TypeOK
  <2> QED
    BY <1>1, <2>3 DEF Asked, Present
<1>10. Snapshot'
  BY <1>1, <1>9 DEF Snapshot
<1> QED
  BY <1>6, <1>8, <1>10, <1>11

\* A reader that comes in finds no writer, or waits for the one there is, and goes on when
\* that one has unlocked.
LEMMA EnterStep ==
    ASSUME IInv, NEW t \in Thread, RLock(t) \/ Enter(t)
    PROVE  IInv'
<1> USE ThreadsOf DEF IInv
<1>1. \A u \in Thread : Asked(u)' = Asked(u) /\ Asked(u) \subseteq Keys
  BY DEF RLock, Enter, Asked, Present
<1>2. TypeOK'
  <2>1. todo' = todo \/ todo' = [todo EXCEPT ![t] = Asked(t)]
    BY DEF RLock, Enter
  <2>2. todo' \in [Thread -> SUBSET Keys]
    BY <1>1, <2>1 DEF TypeOK
  <2>3. pc' = [pc EXCEPT ![t] = "read"] \/ pc' = [pc EXCEPT ![t] = "rWait"]
    BY DEF RLock, Enter
  <2>4. seen' = seen \/ seen' = [seen EXCEPT ![t] = {}]
    BY DEF RLock, Enter
  <2> QED
    BY <2>2, <2>3, <2>4 DEF RLock, Enter, TypeOK
<1>3. OneWriter' /\ Unread'
  <2>1. CASE RLock(t)
    BY <2>1 DEF RLock, TypeOK, OneWriter, Unread, Owning
  <2>2. CASE Enter(t)
    BY <2>2 DEF Enter, TypeOK, OneWriter, Unread, Owning
  <2> QED
    BY <2>1, <2>2
<1>4. Excluded'
  <2>1. CASE RLock(t)
    BY <2>1 DEF RLock, TypeOK, OneWriter, Owning, Excluded, Holders
  <2>2. CASE Enter(t)
    BY <2>2 DEF Enter, TypeOK, Excluded, Holders
  <2> QED
    BY <2>1, <2>2
<1>5. Kinds'
  BY DEF RLock, Enter, TypeOK, Kinds
<1>6. Snapshot'
  <2> SUFFICES ASSUME NEW u \in Readers'
               PROVE  todo'[u] \subseteq Asked(u)' /\ seen'[u] = {<<k, m'[k]>> : k \in Asked(u)' \ todo'[u]}
    BY DEF Snapshot
  <2>1. CASE u # t
    <3>1. u \in Readers /\ todo'[u] = todo[u] /\ seen'[u] = seen[u] /\ m' = m
      BY <2>1 DEF Readers, RLock, Enter, TypeOK
    <3> QED
      BY <1>1, <3>1 DEF Snapshot, Readers
  <2>2. CASE u = t
    <3>1. todo'[u] = Asked(u) /\ seen'[u] = {}
      BY <2>2 DEF Readers, RLock, Enter, TypeOK, Unread
    <3> QED
      BY <1>1, <2>2, <3>1
  <2> QED
    BY <2>1, <2>2
<1> QED
  BY <1>2, <1>3, <1>4, <1>5, <1>6

\* A key looked at goes from what is to be seen to what is.
LEMMA LookStep ==
    ASSUME IInv, NEW t \in Thread, Look(t)
    PROVE  IInv'
<1> USE ThreadsOf DEF IInv
<1>1. PICK k \in todo[t] : /\ seen' = [seen EXCEPT ![t] = @ \cup {<<k, m[k]>>}]
                           /\ todo' = [todo EXCEPT ![t] = @ \ {k}]
  BY DEF Look
<1>2. UNCHANGED <<m, writer, pc, op, ranging, calls, broken>> /\ t \in Readers /\ Readers' = Readers
  BY DEF Look, Readers
<1>3. k \in Asked(t) /\ k \in Keys /\ m[k] \in Values
  BY <1>2 DEF Snapshot, Asked, Present, TypeOK
<1>4. TypeOK'
  BY <1>1, <1>2, <1>3 DEF TypeOK
<1>5. OneWriter' /\ Excluded' /\ Kinds'
  BY <1>2 DEF OneWriter, Excluded, Kinds, Holders
<1>8. Unread'
  BY <1>1, <1>2 DEF Look, Unread, TypeOK
<1>6. \A u \in Thread : Asked(u)' = Asked(u)
  BY <1>2 DEF Asked, Present
<1>7. Snapshot'
  <2> SUFFICES ASSUME NEW u \in Readers
               PROVE  todo'[u] \subseteq Asked(u) /\ seen'[u] = {<<x, m[x]>> : x \in Asked(u) \ todo'[u]}
    BY <1>2, <1>6 DEF Snapshot, Readers
  <2>1. u \in Thread /\ todo[u] \subseteq Asked(u) /\ seen[u] = {<<x, m[x]>> : x \in Asked(u) \ todo[u]}
    BY DEF Snapshot, Readers
  <2>2. CASE u # t
    BY <1>1, <2>1, <2>2 DEF TypeOK
  <2>3. CASE u = t
    <3>1. seen'[u] = seen[u] \cup {<<k, m[k]>>} /\ todo'[u] = todo[u] \ {k}
      BY <1>1, <2>1, <2>3 DEF TypeOK
    <3>2. Asked(u) \ todo'[u] = (Asked(u) \ todo[u]) \cup {k}
      BY <1>3, <2>1, <2>3, <3>1
    <3> QED
      BY <2>1, <3>1, <3>2
  <2> QED
    BY <2>2, <2>3
<1> QED
  BY <1>4, <1>5, <1>7, <1>8

\* A reader that leaves, or an iterator that closes its channel.
LEMMA LeaveStep ==
    ASSUME IInv, NEW c \in Clients, RUnlock(c) \/ CloseIter(c) \/ IterRUnlock(c)
    PROVE  IInv'
<1> USE ThreadsOf DEF IInv
<1>1. TypeOK'
  BY DEF RUnlock, CloseIter, IterRUnlock, TypeOK
<1>2. /\ UNCHANGED <<m, writer, op, todo>> /\ Readers' \subseteq Readers /\ Holders' \subseteq Holders
      /\ \A t \in Readers' : seen'[t] = seen[t]
  BY DEF RUnlock, CloseIter, IterRUnlock, TypeOK, Readers, Holders
<1>3. OneWriter' /\ Excluded' /\ Kinds'
  BY <1>2 DEF RUnlock, CloseIter, IterRUnlock, TypeOK, OneWriter, Excluded, Kinds, Owning
<1>6. Unread'
  BY DEF RUnlock, CloseIter, IterRUnlock, TypeOK, Unread
<1>4. \A t \in Thread : Asked(t)' = Asked(t)
  BY <1>2 DEF Asked, Present
<1>5. Snapshot'
  BY <1>2, <1>4 DEF Snapshot, Readers
<1> QED
  BY <1>1, <1>3, <1>5, <1>6

\* A writer takes its mutex when it is free, goes on when the readers have left, and leaves
\* the loop of Clear.
LEMMA LockStep ==
    ASSUME IInv, NEW c \in Clients, Lock(c) \/ Drained(c) \/ Cleared(c)
    PROVE  IInv'
<1> USE ThreadsOf DEF IInv
<1>1. TypeOK'
  BY DEF Lock, Drained, Cleared, TypeOK
<1>2. UNCHANGED <<m, op, todo, seen>> /\ Readers' = Readers /\ Holders' = Holders
  BY DEF Lock, Drained, Cleared, TypeOK, Readers, Holders
<1>3. OneWriter' /\ Unread'
  <2>1. CASE Lock(c)
    BY <2>1, SMTT(30) DEF Lock, TypeOK, OneWriter, Unread, Owning
  <2>2. CASE Drained(c) \/ Cleared(c)
    BY <2>2, SMTT(30) DEF Drained, Cleared, TypeOK, OneWriter, Unread, Owning
  <2> QED
    BY <2>1, <2>2
<1>4. Excluded'
  BY <1>2 DEF Lock, Drained, Cleared, TypeOK, Excluded
<1>5. Kinds'
  BY DEF Lock, Drained, Cleared, TypeOK, Kinds, Writing
<1>6. \A t \in Thread : Asked(t)' = Asked(t)
  BY <1>2 DEF Asked, Present
<1>7. Snapshot'
  BY <1>2, <1>6 DEF Snapshot, Readers
<1> QED
  BY <1>1, <1>3, <1>4, <1>5, <1>7

\* The map is changed while nobody reads.
LEMMA WriteStep ==
    ASSUME IInv, NEW c \in Clients, Write(c) \/ ClearOne(c)
    PROVE  IInv'
<1> USE ThreadsOf DEF IInv
<1>1. m' \in [Keys -> Values \cup {None}]
  BY DEF Write, ClearOne, TypeOK, Op
<1>2. seen' \in [Thread -> SUBSET (Keys \X Values)]
  BY DEF Write, ClearOne, TypeOK, Present
<1>3. TypeOK'
  BY <1>1, <1>2 DEF Write, ClearOne, TypeOK
<1>4. Readers = {} /\ Holders = {} /\ Readers' = {} /\ Holders' = {}
  BY DEF Write, ClearOne, TypeOK, Excluded, Readers, Holders
<1>5. OneWriter' /\ Unread' /\ Kinds'
  BY DEF Write, ClearOne, TypeOK, OneWriter, Unread, Kinds, Owning
<1> QED
  BY <1>3, <1>4, <1>5 DEF Excluded, Snapshot

\* The lock is handed to the readers that waited; nobody else has it.
LEMMA UnlockStep ==
    ASSUME IInv, NEW c \in Clients, Unlock(c)
    PROVE  IInv'
<1> USE ThreadsOf DEF IInv
<1>1. TypeOK'
  BY DEF Unlock, TypeOK
<1>2. Readers = {} /\ Readers' = {}
  BY DEF Unlock, Excluded, TypeOK, Readers, Holders
<1>3. \A t \in Thread : pc'[t] \notin Owning
  BY DEF Unlock, OneWriter, Owning, TypeOK
<1>4. OneWriter' /\ Excluded'
  BY <1>3 DEF Unlock, OneWriter, Owning, Excluded
<1>5. Kinds' /\ Unread'
  BY DEF Unlock, TypeOK, Kinds, Unread
<1> QED
  BY <1>1, <1>2, <1>4, <1>5 DEF Snapshot

-----------------------------------------------------------------------------
(* The theorems *)

\* The invariant of the lock and of its readers is inductive, whatever the clients do: base/map.go.
THEOREM Invariance == Spec => []IInv
<1>1. IInv /\ [Next]_vars => IInv'
  <2> SUFFICES ASSUME IInv, [Next]_vars PROVE IInv'
    OBVIOUS
  <2>1. ASSUME NEW c \in Clients, Client(c) PROVE IInv'
    BY <2>1, ClientStep
  <2>2. ASSUME NEW t \in Thread, RLock(t) \/ Enter(t) PROVE IInv'
    BY <2>2, EnterStep
  <2>3. ASSUME NEW c \in Clients, LookUp(c) \/ Receive(c) PROVE IInv'
    BY <2>3, LookStep, ThreadsOf DEF LookUp, Receive
  <2>4. ASSUME NEW c \in Clients, RUnlock(c) \/ CloseIter(c) \/ IterRUnlock(c) PROVE IInv'
    BY <2>4, LeaveStep
  <2>5. ASSUME NEW c \in Clients, Lock(c) \/ Drained(c) \/ Write(c) \/ ClearOne(c) \/ Cleared(c) \/ Unlock(c) PROVE IInv'
    BY <2>5, LockStep, WriteStep, UnlockStep
  <2>6. CASE UNCHANGED vars
    BY <2>6 DEF vars, IInv, TypeOK, OneWriter, Excluded, Kinds, Unread, Snapshot, Readers, Holders,
                   Asked, Present
  <2> QED
    BY <2>1, <2>2, <2>3, <2>4, <2>5, <2>6 DEF Next, Client
<1> QED
  BY InitInvariant, <1>1, PTL DEF Spec

\* Dict's variables keep their types; in particular no read has an item without a value.
THEOREM TypeCorrect == Spec => []TypeOK
BY Invariance, PTL DEF IInv

\* A read, an iteration with its stops included, sees the map as it was at one instant
\* (map.go 134-182).
THEOREM ReadsOneState == Spec => []Snapshot
BY Invariance, PTL DEF IInv

-----------------------------------------------------------------------------
(* The map is atomic *)

\* A map that nobody has used is AtomicMap's.
LEMMA InitAtomic == Init => Atomic!Init
<1> SUFFICES ASSUME Init PROVE Atomic!Init
  OBVIOUS
<1>1. MapSeen = [k \in Keys |-> None]
  BY DEF Init, MapSeen
<1>2. Stage = [t \in Thread |-> "idle"]
  BY DEF Init, Stage
<1>3. Answering = [t \in Thread |-> {}]
  BY DEF Init, Answering
<1>4. Asking \in [Thread -> Ops \cup {Iteration}]
  <2>1. (CHOOSE o \in Ops : TRUE) \in Ops
    BY DictAssumption, Zenon
  <2>2. \A t \in Thread : op[t[1]] \in Ops
    BY <2>1, ThreadsOf DEF Init
  <2> QED
    BY <2>2 DEF Asking
<1> QED
  BY <1>1, <1>2, <1>3, <1>4 DEF Atomic!Init

\* What the map shows changes with the map and with the loops of Clear only.
LEMMA SameMap ==
    ASSUME m' = m, \A t \in Thread : pc'[t] = "clear" <=> pc[t] = "clear"
    PROVE  MapSeen' = MapSeen
BY DEF MapSeen

\* Answers that change for one caller only.
LEMMA AnsweringExcept ==
    ASSUME NEW t \in Thread, NEW a,
           \A u \in Thread : u # t => Answering'[u] = Answering[u],
           Answering'[t] = a
    PROVE  Answering' = [Answering EXCEPT ![t] = a]
<1>1. Answering' = [u \in Thread |-> Answering'[u]] /\ Answering = [u \in Thread |-> Answering[u]]
  BY DEF Answering
<1> QED
  BY <1>1

\* Invocations: Start and IterItems; nothing is seen of the rest.
LEMMA ClientAtomic ==
    ASSUME IInv, NEW c \in Clients, Client(c)
    PROVE  Atomic!Next \/ UNCHANGED <<MapSeen, Stage, Asking, Answering>>
<1> USE ThreadsOf DEF IInv
<1>1. MapSeen' = MapSeen
  BY SameMap DEF Client, Start, IterItems, Abandon, Ranged, TypeOK
<1>2. Answering' = Answering
  BY DEF Client, Start, IterItems, Abandon, Ranged, Answering
<1>3. ASSUME NEW o \in Ops, Start(c, o) PROVE Atomic!Invoke(Call(c), o)
  <2>1. Stage[Call(c)] = "idle"
    BY <1>3 DEF Start, Stage
  <2>2. Stage' = [Stage EXCEPT ![Call(c)] = "called"]
    BY <1>3 DEF Start, Stage, TypeOK
  <2>3. Asking' = [Asking EXCEPT ![Call(c)] = o]
    <3>1. op' = [op EXCEPT ![c] = o]
      BY <1>3 DEF Start
    <3>2. \A t \in Thread : t[2] = "call" /\ t[1] = c <=> t = Call(c)
      BY DEF Thread, Call
    <3> QED
      BY <3>1, <3>2 DEF Asking, TypeOK
  <2> QED
    BY <1>1, <1>2, <2>1, <2>2, <2>3 DEF Atomic!Invoke
<1>4. ASSUME IterItems(c) PROVE Atomic!Invoke(Iter(c), Iteration)
  <2>1. Stage[Iter(c)] = "idle"
    BY <1>4 DEF IterItems, Stage
  <2>2. Stage' = [Stage EXCEPT ![Iter(c)] = "called"]
    BY <1>4 DEF IterItems, Stage, TypeOK
  <2>3. Asking' = [Asking EXCEPT ![Iter(c)] = Iteration]
    BY <1>4 DEF IterItems, Asking, Iter
  <2> QED
    BY <1>1, <1>2, <2>1, <2>2, <2>3 DEF Atomic!Invoke
<1>5. ASSUME Abandon(c) \/ Ranged(c) PROVE UNCHANGED <<Stage, Asking>>
  BY <1>5 DEF Abandon, Ranged, Stage, Asking
<1> QED
  BY <1>1, <1>2, <1>3, <1>4, <1>5 DEF Client, Atomic!Next

\* A read takes effect when it has the lock: what it will visit is its answer.
LEMMA EnterAtomic ==
    ASSUME IInv, NEW t \in Thread, RLock(t) \/ Enter(t)
    PROVE  Atomic!Effect(t) \/ UNCHANGED <<MapSeen, Stage, Asking, Answering>>
<1> USE ThreadsOf DEF IInv
<1>1. MapSeen' = MapSeen
  BY SameMap DEF RLock, Enter, TypeOK
<1>2. Asking' = Asking
  BY DEF RLock, Enter, Asking
<1>3. ASSUME RLock(t), writer # None PROVE UNCHANGED <<Stage, Answering>>
  BY <1>3 DEF RLock, Stage, Answering, TypeOK
<1>4. ASSUME (RLock(t) /\ writer = None) \/ Enter(t) PROVE Atomic!Effect(t)
  <2>1. \A u \in Thread : pc[u] # "clear"
    <3>1. CASE RLock(t)
      BY <1>4, <3>1 DEF RLock, Enter, OneWriter, Owning
    <3>2. CASE Enter(t)
      BY <3>2 DEF Enter, Excluded, Holders
    <3> QED
      BY <3>1, <3>2
  <2>2. MapSeen = m
    BY <2>1 DEF MapSeen
  <2>3. Stage[t] = "called" /\ Stage' = [Stage EXCEPT ![t] = "done"]
    <3>1. pc[t] \in {"rLock", "woken"} /\ pc' = [pc EXCEPT ![t] = "read"]
      BY <1>4 DEF RLock, Enter
    <3>2. Stage[t] = "called"
      BY <3>1 DEF Stage
    <3>3. Stage'[t] = "done"
      BY <3>1 DEF Stage, TypeOK
    <3>4. \A u \in Thread : u # t => Stage'[u] = Stage[u]
      BY <3>1 DEF Stage, TypeOK
    <3>5. Stage = [u \in Thread |-> Stage[u]] /\ Stage' = [u \in Thread |-> Stage'[u]]
      BY ZenonT(30) DEF Stage
    <3>6. Stage' = [u \in Thread |-> IF u = t THEN "done" ELSE Stage[u]]
      BY <3>3, <3>4, <3>5
    <3> QED
      BY <3>2, <3>5, <3>6
  <2>4. /\ todo' = [todo EXCEPT ![t] = Asked(t)] /\ seen'[t] = {} /\ m' = m
        /\ \A u \in Thread : u # t => seen'[u] = seen[u]
    BY <1>4 DEF RLock, Enter, Unread, TypeOK
  <2>8. Answering' = [Answering EXCEPT ![t] = {<<k, m[k]>> : k \in Asked(t)}]
    <3>1. \A u \in Thread : u # t => Answering'[u] = Answering[u]
      BY <2>4 DEF Answering, TypeOK
    <3>2. todo'[t] = Asked(t)
      BY <2>4 DEF TypeOK
    <3>3. Answering'[t] = {<<k, m[k]>> : k \in Asked(t)}
      BY <2>4, <3>2 DEF Answering
    <3> QED
      BY <3>1, <3>3, AnsweringExcept
  <2>5. PICK c \in Clients : t = Call(c) \/ t = Iter(c)
    BY DEF Thread, Call, Iter
  <2>6. CASE t = Call(c)
    <3>1. Asking[t] = op[c] /\ op[c].name \in Reading
      BY <1>4, <2>6 DEF RLock, Enter, Kinds, Asking, Call
    <3>2. Atomic!Answer(Asking[t]) = {<<k, m[k]>> : k \in Asked(t)}
      BY <2>2, <2>6, <3>1 DEF Atomic!Answer, Asked, Present, Reading, Call
    <3>3. Atomic!After(Asking[t]) = m
      BY <2>2, <3>1 DEF Atomic!After, Reading, TypeOK
    <3> QED
      BY <1>1, <1>2, <2>2, <2>3, <2>8, <3>2, <3>3 DEF Atomic!Effect
  <2>7. CASE t = Iter(c)
    <3>1. Asking[t] = Iteration
      BY <2>7 DEF Asking, Iter
    <3>2. Atomic!Answer(Asking[t]) = {<<k, m[k]>> : k \in Asked(t)}
      BY <2>2, <2>7, <3>1 DEF Atomic!Answer, Asked, Present, Iteration, Iter
    <3>3. Atomic!After(Asking[t]) = m
      BY <2>2, <3>1 DEF Atomic!After, Iteration, TypeOK
    <3> QED
      BY <1>1, <1>2, <2>2, <2>3, <2>8, <3>2, <3>3 DEF Atomic!Effect
  <2> QED
    BY <2>5, <2>6, <2>7
<1> QED
  BY <1>1, <1>2, <1>3, <1>4

\* A key looked at goes from what is to be visited to what has been: the same answer.
LEMMA LookAtomic ==
    ASSUME IInv, NEW t \in Thread, Look(t)
    PROVE  UNCHANGED <<MapSeen, Stage, Asking, Answering>>
<1> USE ThreadsOf DEF IInv
<1>1. MapSeen' = MapSeen
  BY SameMap DEF Look
<1>2. Stage' = Stage /\ Asking' = Asking
  BY DEF Look, Stage, Asking
<1>3. PICK k \in todo[t] : /\ seen' = [seen EXCEPT ![t] = @ \cup {<<k, m[k]>>}]
                           /\ todo' = [todo EXCEPT ![t] = @ \ {k}]
  BY DEF Look
<1>4. \A u \in Thread : seen'[u] \cup {<<x, m'[x]>> : x \in todo'[u]}
                        = seen[u] \cup {<<x, m[x]>> : x \in todo[u]}
  <2> SUFFICES ASSUME NEW u \in Thread
               PROVE  seen'[u] \cup {<<x, m[x]>> : x \in todo'[u]} = seen[u] \cup {<<x, m[x]>> : x \in todo[u]}
    BY DEF Look
  <2>1. CASE u # t
    BY <1>3, <2>1 DEF TypeOK
  <2>2. CASE u = t
    <3>1. seen'[u] = seen[u] \cup {<<k, m[k]>>} /\ todo'[u] = todo[u] \ {k}
      BY <1>3, <2>2 DEF TypeOK
    <3> QED
      BY <2>2, <3>1
  <2> QED
    BY <2>1, <2>2
<1>5. Answering' = Answering
  BY <1>4 DEF Answering
<1> QED
  BY <1>1, <1>2, <1>5

\* A read that unlocks returns.
LEMMA LeaveAtomic ==
    ASSUME IInv, NEW c \in Clients, RUnlock(c) \/ CloseIter(c) \/ IterRUnlock(c)
    PROVE  Atomic!Next \/ UNCHANGED <<MapSeen, Stage, Asking, Answering>>
<1> USE ThreadsOf DEF IInv
<1>1. MapSeen' = MapSeen
  BY SameMap DEF RUnlock, CloseIter, IterRUnlock, TypeOK
<1>2. Asking' = Asking
  BY DEF RUnlock, CloseIter, IterRUnlock, Asking
<1>3. ASSUME CloseIter(c) PROVE UNCHANGED <<Stage, Answering>>
  BY <1>3 DEF CloseIter, Stage, Answering, TypeOK
<1>4. ASSUME NEW t \in Thread,
             pc[t] \in {"read", "closed"}, todo[t] = {}, UNCHANGED <<m, todo>>,
             pc' = [pc EXCEPT ![t] = "idle"], seen' = [seen EXCEPT ![t] = {}]
      PROVE  Atomic!Return(t)
  <2>1. Stage[t] = "done" /\ Stage' = [Stage EXCEPT ![t] = "idle"]
    BY <1>4 DEF Stage, TypeOK
  <2>2. \A u \in Thread : u # t => Answering'[u] = Answering[u]
    BY <1>4 DEF Answering, TypeOK
  <2>3. Answering'[t] = {}
    BY <1>4 DEF Answering, TypeOK
  <2>4. Answering' = [Answering EXCEPT ![t] = {}]
    BY <2>2, <2>3, AnsweringExcept
  <2> QED
    BY <1>1, <1>2, <2>1, <2>4 DEF Atomic!Return
<1>5. ASSUME RUnlock(c) PROVE Atomic!Return(Call(c))
  BY <1>4, <1>5 DEF RUnlock
<1>6. ASSUME IterRUnlock(c) PROVE Atomic!Return(Iter(c))
  BY <1>4, <1>6 DEF IterRUnlock, Unread
<1> QED
  BY <1>1, <1>2, <1>3, <1>5, <1>6 DEF Atomic!Next

\* Clear takes effect when the readers have left, before its loop.
LEMMA LockAtomic ==
    ASSUME IInv, NEW c \in Clients, Lock(c) \/ Drained(c) \/ Cleared(c)
    PROVE  Atomic!Effect(Call(c)) \/ UNCHANGED <<MapSeen, Stage, Asking, Answering>>
<1> USE ThreadsOf DEF IInv
<1> DEFINE t == Call(c)
<1>1. Asking' = Asking /\ Answering' = Answering
  BY DEF Lock, Drained, Cleared, Asking, Answering
<1>2. ASSUME Lock(c) PROVE UNCHANGED <<MapSeen, Stage>>
  <2>1. MapSeen' = MapSeen
    BY <1>2, SameMap DEF Lock, TypeOK
  <2> QED
    BY <1>2, <2>1 DEF Lock, Stage, TypeOK
<1>3. ASSUME Cleared(c) PROVE UNCHANGED <<MapSeen, Stage>>
  <2>1. \A u \in Thread : pc'[u] # "clear"
    BY <1>3 DEF Cleared, OneWriter, Owning, TypeOK
  <2>2. MapSeen = [k \in Keys |-> None] /\ MapSeen' = m'
    BY <1>3, <2>1 DEF Cleared, MapSeen
  <2>3. m' = [k \in Keys |-> None]
    BY <1>3 DEF Cleared, Present, TypeOK
  <2>4. Stage' = Stage
    BY <1>3 DEF Cleared, Stage, TypeOK
  <2> QED
    BY <2>2, <2>3, <2>4
<1>4. ASSUME Drained(c), op[c].name # "Clear" PROVE UNCHANGED <<MapSeen, Stage>>
  <2>1. MapSeen' = MapSeen
    BY <1>4, SameMap DEF Drained, TypeOK
  <2> QED
    BY <1>4, <2>1 DEF Drained, Stage, TypeOK
<1>5. ASSUME Drained(c), op[c].name = "Clear" PROVE Atomic!Effect(t)
  <2>1. Asking[t] = op[c]
    BY DEF Asking, Call
  <2>2. MapSeen' = [k \in Keys |-> None]
    BY <1>5 DEF Drained, MapSeen, TypeOK
  <2>3. Atomic!After(Asking[t]) = [k \in Keys |-> None]
    BY <1>5, <2>1 DEF Atomic!After
  <2>4. Atomic!Answer(Asking[t]) = {}
    BY <1>5, <2>1 DEF Atomic!Answer
  <2>5. Answering[t] = {}
    BY <1>5 DEF Drained, Answering, Unread
  <2>6. Stage[t] = "called" /\ Stage' = [Stage EXCEPT ![t] = "done"]
    BY <1>5 DEF Drained, Stage, TypeOK
  <2>7. Answering' = [Answering EXCEPT ![t] = {}]
    BY <1>1, <2>5 DEF Answering
  <2> QED
    BY <1>1, <2>2, <2>3, <2>4, <2>6, <2>7 DEF Atomic!Effect
<1> QED
  BY <1>1, <1>2, <1>3, <1>4, <1>5

\* Set and Pop take effect where they write, for nobody has visits to make; what Clear
\* deletes is already gone.
LEMMA WriteAtomic ==
    ASSUME IInv, NEW c \in Clients, Write(c) \/ ClearOne(c)
    PROVE  Atomic!Effect(Call(c)) \/ UNCHANGED <<MapSeen, Stage, Asking, Answering>>
<1> USE ThreadsOf DEF IInv
<1> DEFINE t == Call(c)
<1>1. Asking' = Asking
  BY DEF Write, ClearOne, Asking
<1>2. \A u \in Thread : todo[u] = {} /\ todo'[u] = {}
  BY DEF Write, ClearOne, Excluded, Holders, Unread
<1>3. Answering = [u \in Thread |-> seen[u]] /\ Answering' = [u \in Thread |-> seen'[u]]
  BY <1>2 DEF Answering
<1>4. ASSUME ClearOne(c) PROVE UNCHANGED <<MapSeen, Stage, Answering>>
  BY <1>3, <1>4 DEF ClearOne, MapSeen, Stage
<1>5. ASSUME Write(c) PROVE Atomic!Effect(t)
  <2>1. Asking[t] = op[c] /\ op[c] \in Op /\ op[c].name \in {"Set", "Pop"}
    BY <1>5 DEF Write, Asking, Call, Kinds, TypeOK
  <2>2. \A u \in Thread : pc[u] # "clear" /\ pc'[u] # "clear"
    BY <1>5 DEF Write, OneWriter, Owning, TypeOK
  <2>3. MapSeen = m /\ MapSeen' = m'
    BY <2>2 DEF MapSeen
  <2>4. Atomic!After(Asking[t]) = m'
    BY <1>5, <2>1, <2>3 DEF Atomic!After, Write, TypeOK, Op
  <2>5. Atomic!Answer(Asking[t]) = {<<k, m[k]>> : k \in {x \in Present : op[c].name = "Pop" /\ x = op[c].key}}
    BY <2>1, <2>3 DEF Atomic!Answer, Present
  <2>6. Answering' = [Answering EXCEPT ![t] = Atomic!Answer(Asking[t])]
    BY <1>3, <1>5, <2>5 DEF Write, TypeOK
  <2>7. Stage[t] = "called" /\ Stage' = [Stage EXCEPT ![t] = "done"]
    BY <1>5 DEF Write, Stage, TypeOK
  <2> QED
    BY <1>1, <2>3, <2>4, <2>6, <2>7 DEF Atomic!Effect
<1> QED
  BY <1>1, <1>4, <1>5

\* A writer that unlocks returns; a reader that it wakes has seen nothing yet.
LEMMA UnlockAtomic ==
    ASSUME IInv, NEW c \in Clients, Unlock(c)
    PROVE  Atomic!Return(Call(c))
<1> USE ThreadsOf DEF IInv
<1>1. Asking' = Asking
  BY DEF Unlock, Asking
<1>2. MapSeen' = MapSeen
  BY SameMap DEF Unlock, TypeOK
<1>3. Stage[Call(c)] = "done" /\ Stage' = [Stage EXCEPT ![Call(c)] = "idle"]
  BY DEF Unlock, Stage, TypeOK
<1>4. Answering' = [Answering EXCEPT ![Call(c)] = {}]
  <2>1. \A u \in Thread : u # Call(c) => Answering'[u] = Answering[u]
    BY DEF Unlock, Answering, TypeOK
  <2>2. Answering'[Call(c)] = {}
    BY DEF Unlock, Answering, Unread, TypeOK
  <2> QED
    BY <2>1, <2>2, AnsweringExcept
<1> QED
  BY <1>1, <1>2, <1>3, <1>4 DEF Atomic!Return

\* Every call acts as if at one instant, whoever else calls: each step of Dict is one of
\* AtomicMap, or changes nothing that a caller sees (map.go 79-182).
THEOREM Atomicity == Spec => ImplementsMap
<1>1. IInv /\ [Next]_vars => [Atomic!Next]_<<MapSeen, Stage, Asking, Answering>>
  <2> SUFFICES ASSUME IInv, [Next]_vars
               PROVE  Atomic!Next \/ UNCHANGED <<MapSeen, Stage, Asking, Answering>>
    OBVIOUS
  <2> USE ThreadsOf
  <2>1. ASSUME NEW t \in Thread, Atomic!Effect(t) \/ Atomic!Return(t) PROVE Atomic!Next
    BY <2>1 DEF Atomic!Next
  <2>2. ASSUME NEW c \in Clients, Client(c)
        PROVE  Atomic!Next \/ UNCHANGED <<MapSeen, Stage, Asking, Answering>>
    BY <2>2, ClientAtomic
  <2>3. ASSUME NEW t \in Thread, RLock(t) \/ Enter(t)
        PROVE  Atomic!Next \/ UNCHANGED <<MapSeen, Stage, Asking, Answering>>
    BY <2>1, <2>3, EnterAtomic
  <2>4. ASSUME NEW c \in Clients, LookUp(c) \/ Receive(c)
        PROVE  UNCHANGED <<MapSeen, Stage, Asking, Answering>>
    BY <2>4, LookAtomic DEF LookUp, Receive
  <2>5. ASSUME NEW c \in Clients, RUnlock(c) \/ CloseIter(c) \/ IterRUnlock(c)
        PROVE  Atomic!Next \/ UNCHANGED <<MapSeen, Stage, Asking, Answering>>
    BY <2>5, LeaveAtomic
  <2>6. ASSUME NEW c \in Clients, Lock(c) \/ Drained(c) \/ Cleared(c)
        PROVE  Atomic!Next \/ UNCHANGED <<MapSeen, Stage, Asking, Answering>>
    BY <2>1, <2>6, LockAtomic
  <2>7. ASSUME NEW c \in Clients, Write(c) \/ ClearOne(c)
        PROVE  Atomic!Next \/ UNCHANGED <<MapSeen, Stage, Asking, Answering>>
    BY <2>1, <2>7, WriteAtomic
  <2>8. ASSUME NEW c \in Clients, Unlock(c) PROVE Atomic!Next
    BY <2>1, <2>8, UnlockAtomic
  <2>9. CASE UNCHANGED vars
    BY <2>9 DEF vars, MapSeen, Stage, Asking, Answering
  <2> QED
    BY <2>2, <2>3, <2>4, <2>5, <2>6, <2>7, <2>8, <2>9 DEF Next, Client
<1> QED
  BY InitAtomic, Invariance, <1>1, PTL DEF Spec, ImplementsMap, Atomic!Spec, Atomic!vars

=============================================================================
