----------------------------- MODULE MCManager -----------------------------
(* The definitions the manager_*.cfg files give the constants of Manager.  *)
EXTENDS Manager, TLC

CONSTANTS a, ab,          \* two projects; in some runs "ab" extends "a"
          x, y,           \* two process names
          o1, o2, o3,     \* objects
          o4, o5, o6,
          c1, c2          \* clients

(* Objects are not: StartPrepare picks one by CHOOSE. *)
Interchangeable == Permutations(Clients)

Toml(ports, restart, max) == [port |-> ports, restart |-> restart, max |-> max]

One(port, restart, max) == Toml([n \in {x} |-> port], restart, max)
Two(restart, max) == Toml([n \in {x, y} |-> 0], restart, max)

(* Tomls of one process that is never restarted, with two ports or none. *)
NeverTomls == {One(0, "never", 1), One(1, "never", 1), One(2, "never", 1)}
PortTomls == {One(1, "never", 1), One(2, "never", 1)}
OnePort == {One(1, "never", 1)}
LoopTomls == {One(0, "on-failure", 2)}
FailureTomls == {One(0, "on-failure", 1)}
MixedTomls == {One(0, "never", 1), One(0, "on-failure", 1)}
TwoTomls == {Two("never", 1)}

NoExtension == {}
AbExtendsA == {<<a, ab>>}

Request(ops, names) == [op : ops, project : Projects, names : {names}]

AllRequests == Request(Ops, Names)
AddRemoveStartStop == Request(Ops \ {"restart"}, Names)
StartStopRestart == Request({"start", "stop", "restart"}, Names)
StartStop == Request({"start", "stop"}, Names)
Starts == Request({"start"}, Names)
StartRemove == Request({"start", "remove"}, Names)
EachNameRestart ==
    UNION {Request({"start", "stop", "restart"}, S) : S \in {Names, {x}, {y}}}
=============================================================================
