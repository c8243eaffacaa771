-------------------------------- MODULE Rpc ---------------------------------
(***************************************************************************)
(* What a client of the daemon may conclude from the end of its request,   *)
(* over the socket (internal/ipc/client.go:23-56) or over HTTP             *)
(* (client/client.go:112-148): an answer tells what the operation did, a   *)
(* refusal that it was not and will not be attempted, and anything else    *)
(* nothing.  An operation is done at most once.                            *)
(***************************************************************************)
CONSTANTS Requests

VARIABLES
    effect,    \* what became of the operation in the daemon
    reply      \* what the client was told

vars == <<effect, reply>>

Init ==
    /\ effect = [r \in Requests |-> "none"]
    /\ reply = [r \in Requests |-> "none"]

Execute(r) ==
    /\ effect[r] = "none" /\ reply[r] # "refused"
    /\ \E e \in {"ok", "error"} : effect' = [effect EXCEPT ![r] = e]
    /\ UNCHANGED reply

Answer(r) ==
    /\ effect[r] # "none" /\ reply[r] = "none"
    /\ reply' = [reply EXCEPT ![r] = effect[r]]
    /\ UNCHANGED effect

Refuse(r) ==
    /\ effect[r] = "none" /\ reply[r] = "none"
    /\ reply' = [reply EXCEPT ![r] = "refused"]
    /\ UNCHANGED effect

(* The connection broke, or the client did not wait any longer. *)
GiveUp(r) ==
    /\ reply[r] = "none"
    /\ reply' = [reply EXCEPT ![r] = "unknown"]
    /\ UNCHANGED effect

Next == \E r \in Requests : Execute(r) \/ Answer(r) \/ Refuse(r) \/ GiveUp(r)

Spec == Init /\ [][Next]_vars
=============================================================================
