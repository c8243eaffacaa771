----------------------------- MODULE MCService ------------------------------
(* The values the service*.cfg files use: ordinary names, and all that     *)
(* mean something in a path of the API.                                    *)
EXTENDS Service

CONSTANTS d1, d2, d3, r1, r2

SomeProjects == {"a", "logs", "errors", "status", "config", "add", "remove", "ps",
                 "version", "stream", "start", "stop", "restart", "gc"}
SomeProcesses == {"b", "logs", "stream", "start", "stop", "config"}

(* An operation; one the library cannot reach; and the shutdown. *)
SomeCalls == {Call("start", "a", ""), Call("stop", "logs", "b"),
              Call("shutdown", "", "")}
=============================================================================
