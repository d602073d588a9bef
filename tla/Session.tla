------------------------------ MODULE Session ------------------------------
(***************************************************************************)
(* What one TCP connection promises to the manager that created it         *)
(* (tcp.ControllerManager), whatever its goroutines do:                    *)
(*                                                                         *)
(*   - the manager's packet callback runs one packet at a time             *)
(*     (controller.go:439, one goroutine);                                 *)
(*   - ControllerLeave (controller.go:231) is called at most once, after   *)
(*     the socket has been closed, and never during or before a packet     *)
(*     callback: once the manager saw the connection leave, it hears no    *)
(*     more of it;                                                         *)
(*   - a connection whose socket has been closed does leave.               *)
(*                                                                         *)
(* Controller implements this module, and Pool is built over it.           *)
(***************************************************************************)

VARIABLES
    phase,      \* "open": usable; "dropped": socket closed; "left": ControllerLeave called
    calling     \* the packet callback is running

vars == <<phase, calling>>

Phases == {"open", "dropped", "left"}

TypeOK == phase \in Phases /\ calling \in BOOLEAN

Init == phase = "open" /\ calling = FALSE

\* Exit and ExitAndNotify: the socket is closed (forceClose, controller.go:188).
Drop ==
    /\ phase = "open"
    /\ phase' = "dropped"
    /\ UNCHANGED calling

\* The processing goroutine hands a packet to ControllerPacketReceived. Packets that were
\* read before the socket was closed may still be handed over.
Call ==
    /\ phase # "left"
    /\ ~calling
    /\ calling' = TRUE
    /\ UNCHANGED phase

Return ==
    /\ calling
    /\ calling' = FALSE
    /\ UNCHANGED phase

\* A callback that fails: its return and the close of the socket (controller.go:443).
ReturnAndDrop ==
    /\ calling
    /\ calling' = FALSE
    /\ phase' = IF phase = "open" THEN "dropped" ELSE phase

Leave ==
    /\ phase = "dropped"
    /\ ~calling
    /\ phase' = "left"
    /\ UNCHANGED calling

Next == Drop \/ Call \/ Return \/ ReturnAndDrop \/ Leave

Spec == Init /\ [][Next]_vars /\ WF_vars(Return \/ ReturnAndDrop) /\ SF_vars(Leave)

=============================================================================
