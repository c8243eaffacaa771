------------------------------ MODULE Manager ------------------------------
(***************************************************************************)
(* The process manager of internal/daemon/manager.go: the operations that  *)
(* HTTP and IPC requests run concurrently (Add, Remove, Start, Stop,       *)
(* Restart), the goroutine that restarts a crashed process after a         *)
(* backoff, the state these share under m.mu, and runtime.json.            *)
(*                                                                         *)
(* One step is one critical section, one child started or ended, or one    *)
(* file read or written; everything between two steps belongs to one       *)
(* goroutine.  A Process object keeps only what Lifecycle.tla promises of  *)
(* it (Process.tla has its inside): status, whether the child lives, and   *)
(* its watcher.  An object also stands for its pid, so runtime and         *)
(* runtime.json map a key to the object whose pid and pgid they hold.      *)
(*                                                                         *)
(* The restart goroutine started by the crash of object o is the thread o: *)
(* an object crashes at most once.                                         *)
(***************************************************************************)
EXTENDS Integers

CONSTANTS
    Projects,      \* project names
    Names,         \* process names within a project
    Extensions,    \* pairs <<p, q>>: the name q starts with the name p
    Configs,       \* the app-nanny.toml contents a project may have
    NoConfig,      \* a toml that is missing or refused; an absent map entry
    Procs,         \* Process objects (with their children)
    NoProc,        \* an absent map entry
    Clients,       \* goroutines that serve requests
    Requests,      \* what clients may ask: [op, project, names]
    MaxCalls,      \* BOUND: requests per client
    MaxEdits,      \* BOUND: edits of toml files
    EarlyExits,    \* BOOLEAN: a child may exit before Start tracks it
    LongRuns,      \* SUBSET BOOLEAN: may a crashed child have run > 1 minute
    Faults         \* what may fail: "spawn" a child, open a "log" file,
                   \* "save" the registry or runtime.json

Keys == Projects \X Names
ProjectOf(k) == k[1]
NameOf(k) == k[2]
Threads == Clients \cup Procs

Ops == {"add", "remove", "start", "stop", "restart"}

(* port is a function from the declared process names; 0 is no port. *)
ASSUME ConfigAssumption ==
    \A c \in Configs : /\ DOMAIN c.port \subseteq Names
                       /\ \A n \in DOMAIN c.port : c.port[n] \in Nat
                       /\ c.restart \in {"never", "on-failure"}
                       /\ c.max \in Nat \ {0}
ASSUME SentinelAssumption == NoConfig \notin Configs /\ NoProc \notin Procs
ASSUME ThreadAssumption == Clients \cap Procs = {}
ASSUME RequestAssumption ==
    Requests \subseteq [op : Ops, project : Projects, names : SUBSET Names]
ASSUME BoundAssumption ==
    /\ MaxCalls \in Nat /\ MaxEdits \in Nat
    /\ EarlyExits \in BOOLEAN /\ Faults \subseteq {"spawn", "log", "save"}
    /\ LongRuns \subseteq BOOLEAN /\ LongRuns # {}

VARIABLES
    toml,        \* the app-nanny.toml of each project, on disk
    disk,        \* runtime.json
    registry,    \* the registered projects
    configs,     \* m.configs
    activeToml,  \* m.activeToml
    processes,   \* m.processes
    loggers,     \* m.loggers: whose output the key's Logger receives
    runtime,     \* m.runtime.entries
    proc,        \* the Process objects
    thread,      \* the goroutines
    calls, edits,\* how much of the bounds is used up
    halted,      \* history: keys stopped since a client last started them
    autos,       \* history: automatic restarts since then
    bare         \* history: projects registered without a configuration

memory == <<registry, configs, activeToml, processes, loggers, runtime>>
env == <<toml, edits, calls>>
history == <<halted, autos, bare>>
vars == <<toml, disk, registry, configs, activeToml, processes, loggers,
          runtime, proc, thread, calls, edits, halted, autos, bare>>

-----------------------------------------------------------------------------
Idle == [pc |-> "idle", op |-> "none", project |-> "none", names |-> {},
         todo |-> {}, key |-> <<>>, hand |-> NoProc, cfg |-> NoConfig,
         count |-> 0, snap |-> [k \in Keys |-> NoProc]]

Unused == [key |-> <<>>, cfg |-> NoConfig, status |-> "stopped",
           live |-> FALSE, watch |-> "off", restarts |-> 0, stdio |-> FALSE]

Places == {"idle", "load", "register", "configure", "remove",
           "lookup", "install", "each", "inherit", "prepare", "spawn", "track",
           "targets", "stopEach", "halt", "settle", "forget", "write",
           "decide", "backoff"}

Objects == [key : Keys \cup {<<>>}, cfg : Configs \cup {NoConfig},
            status : {"stopped", "running", "stopping", "crashed"},
            live : BOOLEAN, watch : {"off", "wait", "report", "done"},
            restarts : Nat,
            stdio : BOOLEAN]     \* its output goes to a Logger

Goroutines == [pc : Places, op : Ops \cup {"none"},
               project : Projects \cup {"none"}, names : SUBSET Names,
               todo : SUBSET Keys, key : Keys \cup {<<>>},
               hand : Procs \cup {NoProc}, cfg : Configs \cup {NoConfig},
               count : Nat, snap : [Keys -> Procs \cup {NoProc}]]

TypeOK ==
    /\ toml \in [Projects -> Configs \cup {NoConfig}]
    /\ disk \in [Keys -> Procs \cup {NoProc}]
    /\ registry \subseteq Projects
    /\ configs \in [Projects -> Configs \cup {NoConfig}]
    /\ activeToml \in [Projects -> Configs \cup {NoConfig}]
    /\ processes \in [Keys -> Procs \cup {NoProc}]
    /\ loggers \in [Keys -> Procs \cup {NoProc}]
    /\ runtime \in [Keys -> Procs \cup {NoProc}]
    /\ proc \in [Procs -> Objects]
    /\ thread \in [Threads -> Goroutines]
    /\ calls \in [Clients -> 0..MaxCalls] /\ edits \in 0..MaxEdits
    /\ halted \subseteq Keys /\ autos \in [Keys -> Nat]
    /\ bare \subseteq Projects

(* LoadAll leaves a project whose toml it cannot load without a            *)
(* configuration, and registered.                                          *)
Init ==
    /\ toml \in [Projects -> Configs \cup {NoConfig}]
    /\ registry = Projects
    /\ configs = toml                      \* LoadAll
    /\ bare = {p \in Projects : toml[p] = NoConfig}
    /\ activeToml = [p \in Projects |-> NoConfig]
    /\ processes = [k \in Keys |-> NoProc]
    /\ loggers = [k \in Keys |-> NoProc]
    /\ runtime = [k \in Keys |-> NoProc]
    /\ disk = [k \in Keys |-> NoProc]
    /\ proc = [o \in Procs |-> Unused]
    /\ thread = [t \in Threads |-> Idle]
    /\ calls = [c \in Clients |-> 0] /\ edits = 0
    /\ halted = {} /\ autos = [k \in Keys |-> 0]

-----------------------------------------------------------------------------
At(t, place) == thread[t].pc = place
Become(t, g) == thread' = [thread EXCEPT ![t] = g]
Goto(t, place) == Become(t, [thread[t] EXCEPT !.pc = place])
Return(t) == Become(t, Idle)
Change(o, r) == proc' = [proc EXCEPT ![o] = r]

(* About to execute m.Start. *)
Starting(project, names) ==
    [Idle EXCEPT !.pc = "lookup", !.op = "start",
                 !.project = project, !.names = names]

Running(k) == processes[k] # NoProc /\ proc[processes[k]].status = "running"

Entry == [add |-> "load", remove |-> "remove", start |-> "lookup",
          stop |-> "targets", restart |-> "targets"]

(* The keys a request is about, as its author understands it. *)
Asked(project, names) == {k \in Keys : ProjectOf(k) = project /\ NameOf(k) \in names}

(* A request arrives; names is Names when it names no process, so that a   *)
(* run with Extensions needs two Names to tell the two forms apart.        *)
ClientCalls(c) ==
    /\ At(c, "idle") /\ calls[c] < MaxCalls
    /\ \E r \in Requests :
         /\ Become(c, [thread[c] EXCEPT !.pc = Entry[r.op],
                                        !.op = r.op,
                                        !.project = r.project,
                                        !.names = r.names])
         /\ IF r.op \in {"start", "restart"}
            THEN /\ halted' = halted \ Asked(r.project, r.names)
                 /\ autos' = [k \in Keys |-> IF k \in Asked(r.project, r.names)
                                             THEN 0 ELSE autos[k]]
            ELSE UNCHANGED <<halted, autos>>
    /\ calls' = [calls EXCEPT ![c] = @ + 1]
    /\ UNCHANGED <<toml, edits, disk, memory, proc, bare>>

(* Somebody edits, removes or restores a project's toml. *)
EditToml ==
    /\ edits < MaxEdits
    /\ \E p \in Projects, c \in Configs \cup {NoConfig} :
         toml[p] # c /\ toml' = [toml EXCEPT ![p] = c]
    /\ edits' = edits + 1
    /\ UNCHANGED <<calls, disk, memory, proc, thread, history>>

-----------------------------------------------------------------------------
(* Add *)

AddLoad(t) ==
    /\ At(t, "load")
    /\ LET cfg == toml[thread[t].project]
       IN IF cfg = NoConfig
          THEN Return(t)
          ELSE Become(t, [thread[t] EXCEPT !.pc = "register", !.cfg = cfg])
    /\ UNCHANGED <<env, disk, memory, proc, history>>

(* Mutant: Add registers the project and leaves its configuration to the *)
(* first Start.                                                           *)
RegisterOnly(t) ==
    /\ At(t, "register")
    /\ registry' = registry \cup {thread[t].project}
    /\ Return(t)
    /\ UNCHANGED <<env, disk, configs, activeToml, processes, loggers, runtime,
                   proc, history>>

(* Without m.mu. *)
AddRegister(t) ==
    /\ At(t, "register")
    /\ registry' = registry \cup {thread[t].project}
    /\ Goto(t, "configure")
    /\ UNCHANGED <<env, disk, configs, activeToml, processes, loggers, runtime,
                   proc, history>>

(* The registry cannot be written, but has the project in memory by then. *)
AddUnsaved(t) ==
    /\ At(t, "register") /\ "save" \in Faults
    /\ registry' = registry \cup {thread[t].project}
    /\ bare' = bare \cup {thread[t].project}
    /\ Return(t)
    /\ UNCHANGED <<env, disk, configs, activeToml, processes, loggers, runtime,
                   proc, halted, autos>>

AddInstall(t) ==
    /\ At(t, "configure")
    /\ configs' = [configs EXCEPT ![thread[t].project] = thread[t].cfg]
    /\ bare' = bare \ {thread[t].project}
    /\ Return(t)
    /\ UNCHANGED <<env, disk, registry, activeToml, processes, loggers, runtime,
                   proc, halted, autos>>

-----------------------------------------------------------------------------
(* Remove and Stop compare a project name with keys by strings.HasPrefix, *)
(* without the "/" that ends a project name.                              *)
Matches(p, k) == ProjectOf(k) = p \/ <<p, ProjectOf(k)>> \in Extensions

(* Mutant: Remove does not look for running processes. *)
NeverBusy(p) == FALSE

(* Remove is one critical section.  It leaves runtime and activeToml alone, *)
(* and forgets objects and loggers even of a project it then fails to find. *)
Busy(p) == \E k \in Keys : Matches(p, k) /\ Running(k)

Drop(map, p) == [k \in Keys |-> IF Matches(p, k) THEN NoProc ELSE map[k]]

RemoveProject(t) ==
    /\ At(t, "remove")
    /\ LET p == thread[t].project
       IN IF Busy(p)
          THEN UNCHANGED <<processes, loggers, configs, registry, bare>>
          ELSE /\ processes' = Drop(processes, p)
               /\ loggers' = Drop(loggers, p)
               /\ configs' = [configs EXCEPT ![p] = NoConfig]
               /\ registry' = registry \ {p}
               /\ bare' = bare \ {p}
    /\ Return(t)
    /\ UNCHANGED <<env, disk, activeToml, runtime, proc, halted, autos>>

-----------------------------------------------------------------------------
(* Start *)

(* registry.Get under the lock, then LoadProject. *)
StartLoad(t) ==
    /\ At(t, "lookup")
    /\ LET p == thread[t].project
       IN IF p \notin registry \/ toml[p] = NoConfig
          THEN Return(t)
          ELSE Become(t, [thread[t] EXCEPT !.pc = "install", !.cfg = toml[p]])
    /\ UNCHANGED <<env, disk, memory, proc, history>>

(* The toml is read once more, for the console to compare with. *)
StartInstall(t) ==
    /\ At(t, "install")
    /\ LET p == thread[t].project
           cfg == thread[t].cfg
       IN /\ configs' = [configs EXCEPT ![p] = cfg]
          /\ activeToml' = [activeToml EXCEPT ![p] = toml[p]]
          /\ bare' = bare \ {p}
          /\ Become(t,
                    [thread[t] EXCEPT
                       !.pc = "each",
                       !.todo = Asked(p, thread[t].names \cap DOMAIN cfg.port)])
    /\ UNCHANGED <<env, disk, registry, processes, loggers, runtime, proc,
                   halted, autos>>

(* Mutant: only siblings of the same project can conflict. *)
SiblingConflict(k, port) ==
    /\ port # 0
    /\ \E j \in Keys \ {k} :
         Running(j) /\ ProjectOf(j) = ProjectOf(k)
           /\ configs[ProjectOf(j)].port[NameOf(j)] = port

(* checkPortConflictLocked: against the configurations loaded last. *)
Conflict(k, port) ==
    /\ port # 0
    /\ \E j \in Keys \ {k} :
         /\ Running(j)
         /\ configs[ProjectOf(j)] # NoConfig
         /\ NameOf(j) \in DOMAIN configs[ProjectOf(j)].port
         /\ configs[ProjectOf(j)].port[NameOf(j)] = port

(* Mutant: Start is not idempotent. *)
NothingSkipped(k) == FALSE

Skipped(k) == Running(k)

(* The loop's first critical section: skip, refuse or go on with one key.  *)
(* The keys come in the random order of a Go map.                          *)
StartSkip(t) ==
    /\ At(t, "each")
    /\ \E k \in thread[t].todo :
         /\ Skipped(k)
         /\ Become(t, [thread[t] EXCEPT !.todo = @ \ {k}])
    /\ UNCHANGED <<env, disk, memory, proc, history>>

(* The error leaves the loop, and Start, at once: nothing is saved. *)
StartRefused(t) ==
    /\ At(t, "each")
    /\ \E k \in thread[t].todo :
         ~Skipped(k) /\ Conflict(k, thread[t].cfg.port[NameOf(k)])
    /\ Return(t)
    /\ UNCHANGED <<env, disk, memory, proc, history>>

StartClaim(t) ==
    /\ At(t, "each")
    /\ \E k \in thread[t].todo :
         /\ ~Skipped(k) /\ ~Conflict(k, thread[t].cfg.port[NameOf(k)])
         /\ Become(t, [thread[t] EXCEPT !.pc = "inherit",
                                        !.key = k,
                                        !.todo = @ \ {k}])
    /\ UNCHANGED <<env, disk, memory, proc, history>>

Fresh == {o \in Procs : proc[o].cfg = NoConfig}

(* Mutant: every new object starts counting from zero. *)
NothingCarried(k) == 0

(* The restart count a new object inherits. *)
Carried(k) == IF processes[k] = NoProc THEN 0 ELSE proc[processes[k]].restarts

(* Mutant: a Logger the key already has is kept. *)
LoggersKept(k, o) == IF loggers[k] = NoProc THEN [loggers EXCEPT ![k] = o]
                                            ELSE loggers

LoggersWith(k, o) == [loggers EXCEPT ![k] = o]

(* The object of the key gives its count to the one about to be made ... *)
StartInherit(t) ==
    /\ At(t, "inherit")
    /\ Become(t, [thread[t] EXCEPT !.pc = "prepare",
                                   !.count = Carried(thread[t].key)])
    /\ UNCHANGED <<env, disk, memory, proc, history>>

(* ... whose Logger is installed later, under the lock again.  NewProcess  *)
(* comes before both, but nobody else sees the object yet.  Which of the   *)
(* unused identities it gets means nothing.  When the log file cannot be   *)
(* opened the child gets no Logger, and the key keeps the one it had.      *)
StartPrepare(t) ==
    /\ At(t, "prepare")
    /\ Fresh # {}
    /\ LET k == thread[t].key
           o == CHOOSE u \in Fresh : TRUE
       IN \E opened \in BOOLEAN :
          /\ opened \/ "log" \in Faults
          /\ Change(o, [proc[o] EXCEPT !.key = k,
                                       !.cfg = thread[t].cfg,
                                       !.restarts = thread[t].count,
                                       !.stdio = opened])
          /\ loggers' = IF opened THEN LoggersWith(k, o) ELSE loggers
          /\ Become(t, [thread[t] EXCEPT !.pc = "spawn", !.hand = o, !.count = 0])
    /\ UNCHANGED <<env, disk, registry, configs, activeToml, processes, runtime,
                   history>>

(* Process.Start *)
StartSpawn(t) ==
    /\ At(t, "spawn")
    /\ Change(thread[t].hand, [proc[thread[t].hand] EXCEPT !.status = "running",
                                                           !.live = TRUE,
                                                           !.watch = "wait"])
    /\ Goto(t, "track")
    /\ UNCHANGED <<env, disk, memory, history>>

(* Process.Start fails (no such directory, no more processes, an empty     *)
(* command); running out of Procs counts as that too.  Nothing is saved.   *)
StartFails(t) ==
    /\ \/ At(t, "spawn") /\ "spawn" \in Faults
       \/ At(t, "prepare") /\ Fresh = {}
    /\ Return(t)
    /\ UNCHANGED <<env, disk, memory, proc, history>>

(* Mutant: tracked, but not entered into runtime. *)
TrackWithoutEntry(t) ==
    /\ At(t, "track")
    /\ processes' = [processes EXCEPT ![thread[t].key] = thread[t].hand]
    /\ Become(t, [thread[t] EXCEPT !.pc = "each", !.hand = NoProc])
    /\ UNCHANGED <<env, disk, registry, configs, activeToml, loggers, runtime,
                   proc, history>>

(* Mutant: an entry runtime has already, of a crashed child, is kept. *)
TrackKeepingEntry(t) ==
    /\ At(t, "track")
    /\ LET k == thread[t].key
           o == thread[t].hand
       IN /\ processes' = [processes EXCEPT ![k] = o]
          /\ runtime' = IF runtime[k] = NoProc
                        THEN [runtime EXCEPT ![k] = o] ELSE runtime
    /\ Become(t, [thread[t] EXCEPT !.pc = "each", !.hand = NoProc])
    /\ UNCHANGED <<env, disk, registry, configs, activeToml, loggers, proc, history>>

StartTrack(t) ==
    /\ At(t, "track")
    /\ LET k == thread[t].key
           o == thread[t].hand
       IN /\ processes' = [processes EXCEPT ![k] = o]
          /\ runtime' = [runtime EXCEPT ![k] = o]
    /\ Become(t, [thread[t] EXCEPT !.pc = "each", !.hand = NoProc])
    /\ UNCHANGED <<env, disk, registry, configs, activeToml, loggers, proc, history>>

-----------------------------------------------------------------------------
(* Runtime.Save takes no lock: it marshals the map, then writes the file. *)

SaveMarshal(t) ==
    /\ At(t, "each") \/ At(t, "stopEach")
    /\ thread[t].todo = {}
    /\ Become(t, [thread[t] EXCEPT !.pc = "write", !.snap = runtime])
    /\ UNCHANGED <<env, disk, memory, proc, history>>

(* The end of Start and of Stop; Restart goes on with Start. *)
SaveWrite(t) ==
    /\ At(t, "write")
    /\ disk' = thread[t].snap
    /\ IF thread[t].op = "restart"
       THEN Become(t, Starting(thread[t].project, thread[t].names))
       ELSE Return(t)
    /\ halted' = IF thread[t].op = "stop"
                 THEN halted \cup Asked(thread[t].project, thread[t].names)
                 ELSE halted
    /\ UNCHANGED <<env, memory, proc, autos, bare>>

(* The write fails, before or after it emptied the file.  The error ends   *)
(* the request: Restart does not go on, and Stop did not succeed.          *)
SaveFails(t) ==
    /\ At(t, "write") /\ "save" \in Faults
    /\ disk' \in {disk, [k \in Keys |-> NoProc]}
    /\ Return(t)
    /\ UNCHANGED <<env, memory, proc, history>>

-----------------------------------------------------------------------------
(* Stop *)

(* Mutant: Stop forgets the process name. *)
TargetsOfProject(p, names) == {k \in Keys : processes[k] # NoProc /\ Matches(p, k)}

Targets(p, names) ==
    {k \in Keys : /\ processes[k] # NoProc
                  /\ Matches(p, k)
                  /\ names = Names \/ k \in Asked(p, names)}

StopTargets(t) ==
    /\ At(t, "targets")
    /\ Become(t,
              [thread[t] EXCEPT !.pc = "stopEach",
                                !.todo = Targets(thread[t].project, thread[t].names)])
    /\ UNCHANGED <<env, disk, memory, proc, history>>

(* The object is looked up again; a Remove may have forgotten it. *)
StopPick(t) ==
    /\ At(t, "stopEach")
    /\ \E k \in thread[t].todo :
         Become(t, [thread[t] EXCEPT !.pc = "halt",
                                     !.key = k,
                                     !.todo = @ \ {k},
                                     !.hand = processes[k]])
    /\ UNCHANGED <<env, disk, memory, proc, history>>

CanHalt(o) == o # NoProc /\ proc[o].status = "running"

(* Process.Stop begins ... *)
StopHalt(t) ==
    /\ At(t, "halt")
    /\ CanHalt(thread[t].hand)
    /\ Change(thread[t].hand, [proc[thread[t].hand] EXCEPT !.status = "stopping"])
    /\ Goto(t, "settle")
    /\ UNCHANGED <<env, disk, memory, history>>

(* ... or returns at once, also when another Stop is under way. *)
StopIdle(t) ==
    /\ At(t, "halt")
    /\ ~CanHalt(thread[t].hand)
    /\ Become(t, [thread[t] EXCEPT !.pc = "forget", !.hand = NoProc])
    /\ UNCHANGED <<env, disk, memory, proc, history>>

(* Mutant: Process.Stop does not wait for the child's end. *)
NotAwaited(o) == TRUE

(* Mutant: it waits for an end the watcher calls a crash. *)
AwaitedAsCrash(o) == proc[o].watch = "done" /\ proc[o].status = "crashed"

(* The watcher has seen the child end. *)
Awaited(o) == proc[o].watch = "done"

StopSettle(t) ==
    /\ At(t, "settle")
    /\ Awaited(thread[t].hand)
    /\ Change(thread[t].hand, [proc[thread[t].hand] EXCEPT !.status = "stopped"])
    /\ Become(t, [thread[t] EXCEPT !.pc = "forget", !.hand = NoProc])
    /\ UNCHANGED <<env, disk, memory, history>>

(* runtime.Delete(key), whatever the key names by now. *)
StopForget(t) ==
    /\ At(t, "forget")
    /\ runtime' = [runtime EXCEPT ![thread[t].key] = NoProc]
    /\ Goto(t, "stopEach")
    /\ UNCHANGED <<env, disk, registry, configs, activeToml, processes, loggers,
                   proc, history>>

-----------------------------------------------------------------------------
(* The child of o ends: by itself, or because a Stop made it. *)
Exit(o) ==
    /\ proc[o].live
    /\ \/ EarlyExits
       \/ proc[o].key # <<>> /\ processes[proc[o].key] = o
       \/ proc[o].status = "stopping"
    /\ Change(o, [proc[o] EXCEPT !.live = FALSE])
    /\ UNCHANGED <<env, disk, memory, thread, history>>

(* Mutant: the watcher takes every exit for a crash. *)
NeverIntentional(o) == FALSE

Intentional(o) == proc[o].status = "stopping"

(* Process.watch *)
WatchJudge(o) ==
    /\ proc[o].watch = "wait" /\ ~proc[o].live
    /\ Change(o, IF Intentional(o)
                 THEN [proc[o] EXCEPT !.watch = "done"]
                 ELSE [proc[o] EXCEPT !.watch = "report", !.status = "crashed"])
    /\ UNCHANGED <<env, disk, memory, thread, history>>

(* onCrash looks up whatever object the key has now: o, an older one, or   *)
(* none.  cfg is the configuration o was started with.                     *)
OnCrash(o) ==
    /\ proc[o].watch = "report"
    /\ Change(o, [proc[o] EXCEPT !.watch = "done"])
    /\ LET k == proc[o].key
           found == processes[k]
       IN IF found = NoProc \/ proc[o].cfg.restart = "never"
          THEN UNCHANGED thread
          ELSE Become(o, [thread[o] EXCEPT !.pc = "decide",
                                           !.key = k,
                                           !.hand = found,
                                           !.cfg = proc[o].cfg])
    /\ UNCHANGED <<env, disk, memory, history>>

(* Mutant: gives up one restart too early. *)
GiveUpEarly(restarts, max) == restarts + 1 >= max

GiveUp(restarts, max) == restarts >= max

(* Mutant: a long run credits one restart on top of the budget. *)
CountWithCredit(q, long) == IF long THEN 0 - 1 ELSE proc[q].restarts

(* A run of more than a minute earns a fresh budget. *)
Count(q, long) == IF long THEN 0 ELSE proc[q].restarts

(* The rest of onCrash: a spent budget ends the restarts, otherwise a      *)
(* goroutine sleeps.                                                       *)
CrashDecide(o) ==
    /\ At(o, "decide")
    /\ LET q == thread[o].hand
       IN \E long \in LongRuns :
            LET n == Count(q, long)
            IN /\ Change(q, [proc[q] EXCEPT !.restarts = n])
               /\ autos' = IF long THEN [autos EXCEPT ![thread[o].key] = 0]
                                   ELSE autos
               /\ IF GiveUp(n, thread[o].cfg.max) THEN Return(o)
                                                  ELSE Goto(o, "backoff")
    /\ UNCHANGED <<env, disk, memory, halted, bare>>

(* time.Sleep(delay) is over: IncrRestarts, then Start of this one process. *)
BackoffElapsed(o) ==
    /\ At(o, "backoff")
    /\ LET k == thread[o].key
           q == thread[o].hand
       IN /\ Change(q, [proc[q] EXCEPT !.restarts = @ + 1])
          /\ autos' = [autos EXCEPT ![k] = @ + 1]
          /\ Become(o, Starting(ProjectOf(k), {NameOf(k)}))
    /\ UNCHANGED <<env, disk, memory, halted, bare>>

-----------------------------------------------------------------------------
Operation(t) ==
    \/ AddLoad(t) \/ AddRegister(t) \/ AddUnsaved(t) \/ AddInstall(t)
    \/ RemoveProject(t)
    \/ StartLoad(t) \/ StartInstall(t) \/ StartSkip(t) \/ StartRefused(t)
    \/ StartClaim(t) \/ StartInherit(t) \/ StartPrepare(t) \/ StartSpawn(t)
    \/ StartFails(t) \/ StartTrack(t)
    \/ SaveMarshal(t) \/ SaveWrite(t) \/ SaveFails(t)
    \/ StopTargets(t) \/ StopPick(t) \/ StopHalt(t) \/ StopIdle(t)
    \/ StopSettle(t) \/ StopForget(t)

CrashHandling(o) ==
    WatchJudge(o) \/ OnCrash(o) \/ CrashDecide(o) \/ BackoffElapsed(o)

Next ==
    \/ \E c \in Clients : ClientCalls(c)
    \/ \E t \in Threads : Operation(t)
    \/ \E o \in Procs : Exit(o) \/ CrashHandling(o)
    \/ EditToml

Spec == Init /\ [][Next]_vars

(* Goroutines run, timers fire, and a child being stopped ends: SIGKILL    *)
(* sees to it (StopReturnsUnlessHeld in Process.tla).  Nobody has to send  *)
(* requests and no child has to exit by itself.                            *)
Fairness ==
    /\ \A t \in Threads : WF_vars(Operation(t))
    /\ \A o \in Procs : /\ WF_vars(CrashHandling(o))
                        /\ WF_vars(Exit(o) /\ proc[o].status = "stopping")

FairSpec == Spec /\ Fairness

-----------------------------------------------------------------------------
(* Properties of every run, however concurrent *)

AtRest == \A t \in Threads : At(t, "idle")

(* The pid runtime has for a key is that of the object m.processes has for *)
(* it: Start sets both in one section (manager.go:444-449), and neither    *)
(* Stop's late Delete nor Remove makes them name different children.       *)
RuntimeNamesTracked ==
    \A k \in Keys :
        processes[k] # NoProc /\ runtime[k] # NoProc => processes[k] = runtime[k]

(* No interleaving of Add, Remove and Start takes the configuration from a *)
(* registered project, without which the port check is blind to it         *)
(* (manager.go:654-656).  It has none while an Add is between its two      *)
(* writes, and in the two cases the code leaves it without one: LoadAll    *)
(* could not load its toml (manager.go:629-631) or Add could not save the  *)
(* registry (manager.go:328-330), and nothing has loaded it since.         *)
RegisteredHasConfig ==
    \A p \in registry :
        \/ configs[p] # NoConfig
        \/ p \in bare
        \/ \E t \in Threads : At(t, "configure") /\ thread[t].project = p

Object(o) == INSTANCE Lifecycle WITH phase <- proc[o].status, live <- proc[o].live

(* No interleaving of requests, crashes and restarts makes the manager use *)
(* a Process in a way that breaks what Lifecycle promises of it.           *)
(* (The conjunction of Object(o)!Spec over all o.)                         *)
ObjectsImplementLifecycle ==
    /\ \A o \in Procs : Object(o)!Init
    /\ [][\A o \in Procs : [Object(o)!Next]_(Object(o)!vars)]_vars

(* Every request, and every automatic restart, comes to an end.            *)
RequestsReturn == \A t \in Threads : ~At(t, "idle") ~> At(t, "idle")

-----------------------------------------------------------------------------
(* Properties of one request at a time, without automatic restarts *)

(* Start is idempotent (manager.go:398, README.md:127): a key never has    *)
(* two children at once.                                                   *)
OneLivePerKey ==
    \A o, q \in Procs :
        proc[o].live /\ proc[q].live /\ proc[o].key = proc[q].key => o = q

(* A child that lives can be stopped: the manager tracks it, or a Start is *)
(* about to (manager.go:441-445).                                          *)
LiveIsTracked ==
    \A o \in Procs : proc[o].live =>
        \/ processes[proc[o].key] = o
        \/ \E t \in Threads : At(t, "track") /\ thread[t].hand = o

(* When no request is being served, runtime.json has every running child:  *)
(* only those are adopted by the next daemon (README.md:149).              *)
SavedAtRest ==
    AtRest => \A k \in Keys : Running(k) => disk[k] = processes[k]

PortOf(o) == proc[o].cfg.port[NameOf(proc[o].key)]

(* Two running children were never given the same port (README.md:103).    *)
PortsExclusive ==
    \A j, k \in Keys :
        /\ j # k /\ Running(j) /\ Running(k)
        /\ PortOf(processes[j]) # 0
        => PortOf(processes[j]) # PortOf(processes[k])

(* The Logger that Logs and Errors read for a key is the one its running   *)
(* child writes to (manager.go:427-429), unless the child was started      *)
(* without one: then they show what an earlier Logger holds, or the file.  *)
LoggerFollowsProcess ==
    \A k \in Keys :
        Running(k) /\ proc[processes[k]].stdio => loggers[k] = processes[k]

(* Once `nanny stop` returned, nothing of what it named runs until a       *)
(* client starts it again (README.md:128).                                 *)
StopSticks ==
    \A o \in Procs : proc[o].live => proc[o].key \notin halted

(* Remove fails if the project has running processes (client.go:218), so   *)
(* no child outlives its project's registration.                           *)
LiveIsRegistered ==
    \A o \in Procs : proc[o].live => ProjectOf(proc[o].key) \in registry

-----------------------------------------------------------------------------
(* Properties of a crash loop *)

(* Between two requests of a client, and unless a run was long, a key is   *)
(* restarted at most max_restarts times (README.md:99).                    *)
RestartBudget ==
    \A o \in Procs : proc[o].cfg # NoConfig => autos[proc[o].key] <= proc[o].cfg.max

(* A crash within the budget is followed by a restart (README.md:98).      *)
CrashIsRestarted ==
    \A o \in Procs :
        /\ proc[o].status = "crashed" /\ proc[o].cfg.restart = "on-failure"
        /\ proc[o].restarts < proc[o].cfg.max
        ~> \A k \in Keys : processes[k] # o

-----------------------------------------------------------------------------
(* What the documents say and the code does not always do *)

(* client.go:196, "Stop stops a project or one process within it": only a  *)
(* child some request named is ever told to stop.                          *)
StopScope ==
    [][\A o \in Procs :
        proc[o].status = "running" /\ proc'[o].status = "stopping" =>
          \E t \in Threads :
            At(t, "halt")
              /\ proc[o].key \in Asked(thread[t].project, thread[t].names)]_vars

(* handlers.go:95-96, "stale = disk != active (restart needed to apply     *)
(* changes)": a running child with another configuration than the toml on  *)
(* disk shows as stale.                                                    *)
Stale(p) == activeToml[p] # NoConfig /\ activeToml[p] # toml[p]

StaleIsShown ==
    AtRest => \A k \in Keys :
        Running(k) /\ toml[ProjectOf(k)] \notin {NoConfig, proc[processes[k]].cfg}
          => Stale(ProjectOf(k))
=============================================================================
