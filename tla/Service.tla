------------------------------ MODULE Service -------------------------------
(***************************************************************************)
(* The daemon as its clients meet it: daemons that are spawned, listen on  *)
(* the socket and on the port of the web API, answer requests, are told to *)
(* shut down, or die (internal/daemon/daemon.go:68-111, internal/ipc,      *)
(* internal/web/server.go); the commands `nanny daemon start` and `stop`   *)
(* (cmd/daemon.go:23-80); and the two kinds of client, which reach the     *)
(* same operations: the command line over the socket, without a time limit *)
(* (internal/ipc/client.go), and the Go library over HTTP, which waits     *)
(* five seconds (client/client.go).                                        *)
(*                                                                         *)
(* What an operation does to the processes is in Manager.tla, what a       *)
(* daemon does before it listens in Boot.tla.                              *)
(***************************************************************************)
EXTENDS Api

CONSTANTS
    Daemons,     \* daemon processes there may be
    Requests,    \* requests of clients
    Calls,       \* what clients ask for
    Nobody,      \* no daemon
    MaxDials,    \* BOUND: uses of `nanny daemon start`
    MaxFaults    \* BOUND: deaths by a crash or a signal, and hanging operations

ASSUME NobodyAssumption == Nobody \notin Daemons
ASSUME CallAssumption == Calls \subseteq SocketCalls
ASSUME BoundAssumption == MaxDials \in Nat /\ MaxFaults \in Nat

VARIABLES
    daemon,      \* how far each daemon is, and whether it was told to stop
    socket,      \* whose socket the path names, alive or not
    port,        \* who holds 127.0.0.1:7070
    request,     \* each request: where the daemon is with it, and its client
    advice,      \* history: how far somebody is with "daemon stop && daemon start"
    dials, faults

vars == <<daemon, socket, port, request, advice, dials, faults>>

Vias == {"ipc", "http"}
Fresh == [pc |-> "idle", via |-> "ipc", call |-> Refused, at |-> Nobody,
          effect |-> "none", reply |-> "none"]

TypeOK ==
    /\ daemon \in [Daemons ->
          [pc : {"unborn", "boot", "unlinked", "serve", "closed", "dead", "failed"},
           told : BOOLEAN]]
    /\ socket \in Daemons \cup {Nobody} /\ port \in Daemons \cup {Nobody}
    /\ request \in [Requests ->
          [pc : {"idle", "sent", "run", "hung", "ran", "over"},
           via : Vias, call : Calls \cup {Refused}, at : Daemons \cup {Nobody},
           effect : {"none", "ok", "error"},
           reply : {"none", "ok", "error", "refused", "unknown"}]]
    /\ advice \in {"none", "stopped", "started"}
    /\ dials \in 0..MaxDials /\ faults \in 0..MaxFaults

Init ==
    /\ daemon = [d \in Daemons |-> [pc |-> "unborn", told |-> FALSE]]
    /\ socket = Nobody /\ port = Nobody
    /\ request = [r \in Requests |-> Fresh]
    /\ advice = "none" /\ dials = 0 /\ faults = 0

Is(d, place) == daemon[d].pc = place
Lives(d) == daemon[d].pc \in {"boot", "unlinked", "serve", "closed"}
Goto(d, place) == daemon' = [daemon EXCEPT ![d].pc = place]

(* A dial of the socket succeeds from Listen to Close. *)
Listens(d) == d # Nobody /\ Is(d, "serve")
Reachable == Listens(socket)

Fault == faults < MaxFaults /\ faults' = faults + 1

-----------------------------------------------------------------------------
(* nanny daemon start: a dial, and then perhaps a new daemon.  launchd may *)
(* spawn one without asking (launchd/plist.go).                            *)
DaemonStart ==
    /\ dials < MaxDials /\ dials' = dials + 1
    /\ advice' = IF advice = "stopped" THEN "started" ELSE advice
    /\ IF Reachable
       THEN UNCHANGED daemon                     \* "daemon is already running"
       ELSE \E d \in Daemons : Is(d, "unborn") /\ Goto(d, "boot")
    /\ UNCHANGED <<socket, port, request, faults>>

(* Mutant: the socket of a daemon that died is left where it is. *)
KeepStaleSocket(d) ==
    /\ Is(d, "boot") /\ Goto(d, "unlinked")
    /\ UNCHANGED <<socket, port, request, advice, dials, faults>>

(* Run, after Boot.tla: os.Remove(socketPath), whoever listens there, ... *)
RemoveStale(d) ==
    /\ Is(d, "boot") /\ Goto(d, "unlinked")
    /\ socket' = Nobody
    /\ UNCHANGED <<port, request, advice, dials, faults>>

(* ... net.Listen, the IPC server, and the web server if it gets the port. *)
Listen(d) ==
    /\ Is(d, "unlinked")
    /\ IF socket = Nobody
       THEN /\ Goto(d, "serve") /\ socket' = d
            /\ port' = IF port = Nobody THEN d ELSE port
       ELSE Goto(d, "failed") /\ UNCHANGED <<socket, port>>
    /\ UNCHANGED <<request, advice, dials, faults>>

(* The signal is taken from sigCh.  Closing the listener removes what its  *)
(* path names by now ...                                                   *)
Close(d) ==
    /\ Is(d, "serve") /\ daemon[d].told
    /\ Goto(d, "closed") /\ socket' = Nobody
    /\ UNCHANGED <<port, request, advice, dials, faults>>

Released(d) == IF port = d THEN Nobody ELSE port

(* ... and so does os.Remove, before Run returns and the process ends.     *)
Exit(d) ==
    /\ Is(d, "closed") /\ Goto(d, "dead")
    /\ socket' = Nobody /\ port' = Released(d)
    /\ UNCHANGED <<request, advice, dials, faults>>

(* SIGTERM from outside, and a crash. *)
Signal(d) ==
    /\ Is(d, "serve") /\ ~daemon[d].told /\ Fault
    /\ daemon' = [daemon EXCEPT ![d].told = TRUE]
    /\ UNCHANGED <<socket, port, request, advice, dials>>

Crash(d) ==
    /\ Lives(d) /\ Fault
    /\ Goto(d, "dead") /\ port' = Released(d)
    /\ UNCHANGED <<socket, request, advice, dials>>

-----------------------------------------------------------------------------
(* Requests.  A client that was told something stays with it. *)
Tell(q, reply) == IF q.reply = "none" THEN [q EXCEPT !.reply = reply] ELSE q
Update(r, q) == request' = [request EXCEPT ![r] = q]

(* Dial and send. *)
Offers(via) == IF via = "ipc" THEN Calls ELSE Calls \cap LibraryCalls

Issue(r) ==
    /\ request[r].pc = "idle"
    /\ \E via \in Vias : \E c \in Offers(via) :
          LET to == IF via = "http" THEN port ELSE IF Reachable THEN socket ELSE Nobody
              q == [request[r] EXCEPT !.via = via, !.call = c]
          IN  Update(r, IF to = Nobody
                        THEN Tell([q EXCEPT !.pc = "over"], "refused")
                        ELSE [q EXCEPT !.pc = "sent", !.at = to])
    /\ UNCHANGED <<daemon, socket, port, advice, dials, faults>>

Served(q) == IF q.via = "ipc" THEN ServedBySocket(q.call) ELSE ServedByHttp(q.call)

(* handleConn, or the mux.  Closing the listener of the socket leaves that *)
(* of the port alone, until the process ends.                              *)
Accept(r) ==
    LET q == request[r] IN
    /\ q.pc = "sent" /\ (Is(q.at, "serve") \/ (Is(q.at, "closed") /\ q.via = "http"))
    /\ Update(r, IF Served(q) = q.call THEN [q EXCEPT !.pc = "run"]
                             ELSE Tell([q EXCEPT !.pc = "over"], "refused"))
    /\ UNCHANGED <<daemon, socket, port, advice, dials, faults>>

(* The handler does the operation; shutdown sends the signal and succeeds. *)
Handle(r) ==
    LET q == request[r]
        op == q.call.op
    IN  /\ q.pc = "run" /\ Lives(q.at)
        /\ \E e \in IF op \in Actions THEN {"ok", "error"} ELSE {"ok"} :
              Update(r, [q EXCEPT !.pc = "ran", !.effect = e])
        /\ daemon' = IF op = "shutdown" THEN [daemon EXCEPT ![q.at].told = TRUE]
                                        ELSE daemon
        /\ UNCHANGED <<socket, port, advice, dials, faults>>

(* An operation need not come back: see StopReturns in Process.tla. *)
Hang(r) ==
    /\ request[r].pc = "run" /\ request[r].call.op \in Actions /\ Fault
    /\ Update(r, [request[r] EXCEPT !.pc = "hung"])
    /\ UNCHANGED <<daemon, socket, port, advice, dials>>

Answer(r) ==
    LET q == request[r] IN
    /\ q.pc = "ran" /\ Lives(q.at)
    /\ Update(r, Tell([q EXCEPT !.pc = "over"], q.effect))
    /\ advice' = IF q.call.op = "shutdown" THEN "stopped" ELSE advice
    /\ UNCHANGED <<daemon, socket, port, dials, faults>>

UnderWay(q) == q.pc \in {"sent", "run", "hung", "ran"}

(* Mutant: a client that stops waiting takes the request for refused. *)
TimeOutRefuses(r) ==
    /\ UnderWay(request[r]) /\ request[r].via = "http" /\ request[r].reply = "none"
    /\ Update(r, Tell(request[r], "refused"))
    /\ UNCHANGED <<daemon, socket, port, advice, dials, faults>>

(* Mutant: the limit is on the dial, and not on the whole request. *)
TimeOutDials(r) ==
    /\ request[r].pc = "sent" /\ request[r].via = "http" /\ request[r].reply = "none"
    /\ Update(r, Tell(request[r], "unknown"))
    /\ UNCHANGED <<daemon, socket, port, advice, dials, faults>>

(* The library stops waiting; the handler does not. *)
TimeOut(r) ==
    /\ UnderWay(request[r]) /\ request[r].via = "http" /\ request[r].reply = "none"
    /\ Update(r, Tell(request[r], "unknown"))
    /\ UNCHANGED <<daemon, socket, port, advice, dials, faults>>

(* The connection ends with the daemon, or with the listener that has not  *)
(* accepted it: "send request", "decode response".                         *)
Break(r) ==
    LET q == request[r] IN
    /\ UnderWay(q)
    /\ ~Lives(q.at) \/ (Is(q.at, "closed") /\ q.pc = "sent" /\ q.via = "ipc")
    /\ Update(r, Tell([q EXCEPT !.pc = "over"], "unknown"))
    /\ UNCHANGED <<daemon, socket, port, advice, dials, faults>>

-----------------------------------------------------------------------------
DaemonStep(d) == RemoveStale(d) \/ Listen(d) \/ Close(d) \/ Exit(d)
RequestStep(r) == Accept(r) \/ Handle(r) \/ Answer(r) \/ Break(r)

Next ==
    \/ DaemonStart
    \/ \E d \in Daemons : DaemonStep(d) \/ Signal(d) \/ Crash(d)
    \/ \E r \in Requests : Issue(r) \/ RequestStep(r) \/ Hang(r) \/ TimeOut(r)

Spec == Init /\ [][Next]_vars

(* A daemon goes on by itself, each request has its own goroutine, and a   *)
(* client of the library has a clock.  Nobody has to issue a request.      *)
Fairness ==
    /\ \A d \in Daemons : WF_vars(DaemonStep(d))
    /\ \A r \in Requests : WF_vars(RequestStep(r)) /\ WF_vars(TimeOut(r))

FairSpec == Spec /\ Fairness

-----------------------------------------------------------------------------
(* Where a daemon can be reached, every call arrives at the operation, the *)
(* project and the process it names (client/client.go:190-247), except for *)
(* the shadowed names.                                                     *)
CallsArrive == /\ Reachable => SocketArrives
               /\ port # Nobody => HttpArrives

(* "Start starts a registered project, or one named process within it"     *)
(* (client/client.go:190), whatever the name.                              *)
EveryNameArrives ==
    port # Nobody => \A c \in LibraryCalls : ServedByHttp(c) = c

(* What clients are told is true: an answer means the operation was done   *)
(* once with that outcome, a refusal ("daemon is not running", "unknown    *)
(* method") that it is never done, whatever daemons come and go meanwhile. *)
R == INSTANCE Rpc WITH
        effect <- [r \in Requests |-> request[r].effect],
        reply <- [r \in Requests |-> request[r].reply]

ImplementsRpc == R!Spec

(* Every request comes to an end for its client, also when the daemon is   *)
(* shut down or dies under it, unless the operation itself hangs and the   *)
(* client is one without a time limit (ipc/client.go:42).                  *)
EveryRequestAnswered ==
    \A r \in Requests :
        (request[r].pc = "sent")
          ~> \/ request[r].reply # "none"
             \/ request[r].pc = "hung" /\ request[r].via = "ipc"

(* A daemon that is spawned while no other lives comes to be reachable,    *)
(* also at a path where a daemon that was killed has left its socket       *)
(* (daemon.go:68-74), unless it dies or another one is spawned.            *)
Alone(d) == \A e \in Daemons \ {d} : ~Lives(e)

LoneDaemonReachable ==
    \A d \in Daemons :
        (Is(d, "boot") /\ Alone(d))
          ~> (Listens(d) /\ socket = d) \/ Is(d, "dead") \/ ~Alone(d)

(* After "nanny daemon stop && nanny daemon start" (cmd/daemon.go:104) a   *)
(* daemon is there, or comes.                                              *)
StopThenStart == (advice = "started") ~> (Reachable \/ advice = "stopped")
=============================================================================
