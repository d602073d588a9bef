------------------------------ MODULE AtomicMap ------------------------------
(***************************************************************************)
(* What a CloveMap made with block = true promises to the goroutines that  *)
(* share it (base/map.go): each call, from Set to a whole iteration over   *)
(* IterItems, reads or changes the map at one instant between its          *)
(* invocation and its return, and answers from the map of that instant.    *)
(*                                                                         *)
(* Dict implements this module.                                            *)
(***************************************************************************)

CONSTANTS
    Threads,        \* who calls
    Keys, Values,
    Ops,            \* the calls made
    None            \* no value

VARIABLES
    map,            \* None for a key that is not there
    stage,          \* of the call of each thread: "idle", "called", "done"
    op,             \* the call
    answer          \* the items it answers with, or is about

vars == <<map, stage, op, answer>>

\* The items that call o answers with, from map.
Answer(o) ==
    {<<k, map[k]>> : k \in {x \in Keys : /\ map[x] # None
                                         /\ \/ o.name \in {"Items", "IterItems"}
                                            \/ o.name \in {"Get", "Pop"} /\ x = o.key}}

\* The map after call o.
After(o) ==
    [k \in Keys |->
        CASE o.name = "Clear"                -> None
          [] o.name = "Set" /\ k = o.key     -> o.val
          [] o.name = "Pop" /\ k = o.key     -> None
          [] OTHER                           -> map[k]]

Init ==
    /\ map = [k \in Keys |-> None]
    /\ stage = [t \in Threads |-> "idle"]
    /\ op \in [Threads -> Ops]
    /\ answer = [t \in Threads |-> {}]

Invoke(t, o) ==
    /\ stage[t] = "idle"
    /\ stage' = [stage EXCEPT ![t] = "called"]
    /\ op' = [op EXCEPT ![t] = o]
    /\ UNCHANGED <<map, answer>>

\* The one instant.
Effect(t) ==
    /\ stage[t] = "called"
    /\ stage' = [stage EXCEPT ![t] = "done"]
    /\ map' = After(op[t])
    /\ answer' = [answer EXCEPT ![t] = Answer(op[t])]
    /\ UNCHANGED op

Return(t) ==
    /\ stage[t] = "done"
    /\ stage' = [stage EXCEPT ![t] = "idle"]
    /\ answer' = [answer EXCEPT ![t] = {}]
    /\ UNCHANGED <<map, op>>

Next == \E t \in Threads : (\E o \in Ops : Invoke(t, o)) \/ Effect(t) \/ Return(t)

Spec == Init /\ [][Next]_vars

=============================================================================
