----------------------------- MODULE Lifecycle -----------------------------
(***************************************************************************)
(* What a supervised process promises to whoever reads its status, without *)
(* saying how the status is computed.  `phase` is the status the daemon    *)
(* shows; `live` says whether the operating system still runs the child    *)
(* the status is about.                                                    *)
(*                                                                         *)
(* The promise: a crash is reported only for a child that is gone and that *)
(* nobody asked to stop, "stopped" is shown only once a requested stop has *)
(* really ended the child, and neither verdict is ever taken back except   *)
(* by launching again.  Process.tla (a child this daemon started) and the  *)
(* objects of Manager.tla implement this specification.                    *)
(***************************************************************************)
VARIABLES
    phase,      \* "stopped", "running", "stopping" or "crashed"
    live        \* TRUE while the child exists

vars == <<phase, live>>

Phases == {"stopped", "running", "stopping", "crashed"}

Init == phase = "stopped" /\ live = FALSE

Launch ==
    /\ phase \in {"stopped", "crashed"}
    /\ phase' = "running"
    /\ live' = TRUE

Exit ==
    /\ live
    /\ live' = FALSE
    /\ UNCHANGED phase

RequestStop ==
    /\ phase = "running"
    /\ phase' = "stopping"
    /\ UNCHANGED live

(* A requested stop is over only when the child is gone. *)
Finish ==
    /\ phase = "stopping" /\ ~live
    /\ phase' = "stopped"
    /\ UNCHANGED live

(* An exit nobody asked for. *)
Report ==
    /\ phase = "running" /\ ~live
    /\ phase' = "crashed"
    /\ UNCHANGED live

Next == Launch \/ Exit \/ RequestStop \/ Finish \/ Report

Spec == Init /\ [][Next]_vars
=============================================================================
