-------------------------------- MODULE Api ---------------------------------
(***************************************************************************)
(* The two ways into the daemon, as functions from a call to the operation *)
(* that is done for it: over the socket, where a method is looked up in a  *)
(* map (internal/ipc/server.go:37-62, internal/daemon/daemon.go:117-242),  *)
(* and over HTTP, where the Go library builds a path (client/client.go:    *)
(* 163-247) and the mux takes it apart (internal/web/handlers.go:59-237,   *)
(* internal/web/sse.go:70-111).                                            *)
(*                                                                         *)
(* Names are strings without "/"; a path is the sequence of its segments   *)
(* after /api/v1.  Bodies and queries are left out: where a name travels   *)
(* in one, it is taken to be the caller's.                                 *)
(***************************************************************************)
EXTENDS Naturals, Sequences

CONSTANTS
    ProjectNames,    \* names of projects
    ProcessNames     \* names of processes

ASSUME NameAssumption == "" \notin ProjectNames \cup ProcessNames

Actions == {"start", "stop", "restart"}
Reads == {"logs", "errors"}

(* process is "" in a call for a whole project, and project is "" in one   *)
(* for the daemon.                                                         *)
Call(op, project, process) == [op |-> op, project |-> project, process |-> process]

(* What the Go library offers, and what the command line does. *)
LibraryCalls ==
    [op : Actions \cup Reads, project : ProjectNames,
     process : ProcessNames \cup {""}]
    \cup [op : {"status", "add", "remove"}, project : ProjectNames, process : {""}]
    \cup [op : {"ps", "version"}, project : {""}, process : {""}]

SocketCalls ==
    LibraryCalls \cup [op : {"shutdown", "gc"}, project : {""}, process : {""}]

(* Nothing is done: no such method, no such route, or not with this verb. *)
Refused == Call("refused", "", "")

-----------------------------------------------------------------------------
(* The socket. *)
Methods == {"add", "remove", "start", "stop", "restart", "ps", "shutdown",
            "version", "logs", "errors", "status", "gc"}

ServedBySocket(c) == IF c.op \in Methods THEN c ELSE Refused

-----------------------------------------------------------------------------
(* The library: the verb and the path of a call. *)
Verb(c) == IF c.op \in Actions \cup {"add", "remove"} THEN "POST" ELSE "GET"

Key(c) == IF c.process = "" THEN <<c.project>> ELSE <<c.project, c.process>>

Path(c) ==
    IF c.op \in Actions THEN Key(c) \o <<c.op>>
    ELSE IF c.op \in Reads THEN <<c.op>> \o Key(c)
    ELSE IF c.op = "status" THEN <<c.op, c.project>>
    ELSE <<c.op>>

(* The mux: the longest pattern decides, and a pattern that ends with "/"  *)
(* takes everything below it.  body is the name in the body.               *)
Subtrees == {"status", "config", "logs", "errors"}

KeyCall(op, key) ==
    IF Len(key) \in {1, 2}
    THEN Call(op, key[1], IF Len(key) = 2 THEN key[2] ELSE "")
    ELSE Refused

(* Mutant: a path below a project always means the whole project. *)
RouteOfProject(path) ==
    IF Len(path) \in {2, 3} /\ path[Len(path)] \in Actions
    THEN Call(path[Len(path)], path[1], "") ELSE Refused

(* POST /<name>/action and /<name>/<process>/action *)
RouteAction(path) ==
    IF Len(path) \in {2, 3} /\ path[Len(path)] \in Actions
    THEN KeyCall(path[Len(path)], SubSeq(path, 1, Len(path) - 1)) ELSE Refused

RouteSubtree(verb, path) ==
    LET key == SubSeq(path, 2, Len(path)) IN
    IF path[1] = "config"
    THEN IF Len(key) = 1 THEN Call("config", key[1], "") ELSE Refused
    ELSE IF verb # "GET" THEN Refused
    ELSE IF path[1] = "logs" /\ Len(key) > 1 /\ key[Len(key)] = "stream"
    THEN KeyCall("stream", SubSeq(key, 1, Len(key) - 1))
    ELSE IF path[1] = "status" /\ Len(key) # 1 THEN Refused
    ELSE KeyCall(path[1], key)

Route(verb, path, body) ==
    IF Len(path) = 1
    THEN IF \/ path[1] = "version"
            \/ path[1] = "ps" /\ verb = "GET"
         THEN Call(path[1], "", "")
         ELSE IF path[1] \in {"add", "remove"} /\ verb = "POST"
              THEN Call(path[1], body, "") ELSE Refused
    ELSE IF path[1] \in Subtrees THEN RouteSubtree(verb, path)
    ELSE IF verb = "POST" THEN RouteAction(path) ELSE Refused

ServedByHttp(c) == Route(Verb(c), Path(c), c.project)

-----------------------------------------------------------------------------
(* Names by which the mux takes a call for another one: a project that is  *)
(* called like a subtree cannot be started or stopped, and the logs of a   *)
(* process called "stream" cannot be asked for.                            *)
Shadowed(c) ==
    \/ c.op \in Actions /\ c.project \in Subtrees
    \/ c.op = "logs" /\ c.process = "stream"

(* A call reaches its operation, with the project and the process it       *)
(* names, also if these are called like a verb, an exact route or an       *)
(* action of the API; over HTTP only the shadowed ones do not.             *)
SocketArrives == \A c \in SocketCalls : ServedBySocket(c) = c
HttpArrives == \A c \in LibraryCalls : ServedByHttp(c) = c <=> ~Shadowed(c)
=============================================================================
