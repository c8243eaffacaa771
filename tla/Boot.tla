-------------------------------- MODULE Boot --------------------------------
(***************************************************************************)
(* The daemon's death and its next life.  Services outlive the daemon      *)
(* (internal/daemon/daemon.go:104-110); the next daemon reads runtime.json *)
(* and registry.json, probes the recorded pids, clears the file, loads the *)
(* tomls, adopts the survivors, starts the autostart projects and serves   *)
(* (daemon.go:34-84).  The daemon may die between any two of these steps,  *)
(* and in the middle of writing a file.                                    *)
(*                                                                         *)
(* A project has one process here, so a project name is also a key, and    *)
(* the daemon does one thing at a time: Manager.tla has the interleavings  *)
(* of requests, this module those of the daemon's life with its children.  *)
(***************************************************************************)
EXTENDS Naturals

CONSTANTS
    Projects,      \* project names
    Pids,          \* process identifiers of the operating system
    NoPid,         \* an absent map entry
    Torn,          \* a file that was truncated but not written
    Tomls,         \* kinds of app-nanny.toml an editor may leave
    PidReuse,      \* BOOLEAN: may the system hand out a freed pid again
    MaxDeaths,     \* BOUND: deaths of a daemon
    MaxRequests,   \* BOUND: requests to a daemon
    MaxEdits       \* BOUND: edits of toml files

ASSUME SentinelAssumption == NoPid \notin Pids
ASSUME TornAssumption ==
    /\ \A f \in [Projects -> Pids \cup {NoPid}] : Torn # f
    /\ \A S \in SUBSET Projects : Torn # S
ASSUME OwnerAssumption ==
    Projects \cap {"free", "used", "zombie", "foreign"} = {}
ASSUME TomlAssumption == Tomls \subseteq {"auto", "manual", "broken"}
ASSUME BoundAssumption ==
    /\ PidReuse \in BOOLEAN
    /\ MaxDeaths \in Nat /\ MaxRequests \in Nat /\ MaxEdits \in Nat

VARIABLES
    toml,        \* the app-nanny.toml of each project
    owner,       \* the process a pid belongs to
    file,        \* runtime.json
    index,       \* registry.json
    pc,          \* what the daemon is doing
    flush,       \* the file it is saving, and how far it got
    runtime,     \* Runtime.entries
    registry,    \* Registry.projects
    configs,     \* the keys of Manager.configs
    orphans,     \* the result of LoadOrphans
    todo,        \* projects the autostart loop has yet to visit
    proc,        \* Manager.processes
    hand,        \* a child that was spawned and is not tracked yet
    backoff,     \* crashed processes whose restart goroutine sleeps
    deaths, requests, edits,  \* how much of the bounds is used up
    lost         \* history: living children no daemon will find again

disk == <<file, index>>
memory == <<runtime, registry, configs, orphans, todo, proc, hand, backoff>>
bounds == <<deaths, requests, edits>>
vars == <<toml, owner, file, index, pc, flush, runtime, registry, configs,
          orphans, todo, proc, hand, backoff, deaths, requests, edits, lost>>

Entries == [Projects -> Pids \cup {NoPid}]
NoEntries == [p \in Projects |-> NoPid]
Owners == Projects \cup {"free", "used", "zombie", "foreign"}

Untracked == [status |-> "untracked", pid |-> NoPid,
              adopted |-> FALSE, hooked |-> FALSE]
Processes == [status : {"untracked", "running", "stopped", "crashed"},
              pid : Pids \cup {NoPid}, adopted : BOOLEAN, hooked : BOOLEAN]

NoHand == [project |-> "none", pid |-> NoPid]
Hands == [project : Projects, pid : Pids] \cup {NoHand}

Places == {"down", "probe", "load", "adopt", "auto", "serve"}
Flushes == {"none", "runtime", "runtime open", "index", "index open"}

TypeOK ==
    /\ toml \in [Projects -> {"auto", "manual", "broken"}]
    /\ owner \in [Pids -> Owners]
    /\ file \in {Torn} \cup Entries
    /\ index \in {Torn} \cup (SUBSET Projects)
    /\ pc \in Places /\ flush \in Flushes
    /\ runtime \in Entries /\ orphans \in Entries
    /\ registry \subseteq Projects /\ configs \subseteq Projects
    /\ todo \subseteq Projects /\ backoff \subseteq Projects
    /\ proc \in [Projects -> Processes]
    /\ hand \in Hands
    /\ lost \subseteq Pids
    /\ deaths \in 0..MaxDeaths /\ requests \in 0..MaxRequests
    /\ edits \in 0..MaxEdits

(* Before the first boot: projects were added, with tomls that parse. *)
Init ==
    /\ toml \in [Projects -> Tomls \ {"broken"}]
    /\ owner = [q \in Pids |-> "free"]
    /\ file = NoEntries /\ index = Projects
    /\ pc = "down" /\ flush = "none"
    /\ runtime = NoEntries /\ orphans = NoEntries
    /\ registry = {} /\ configs = {} /\ todo = {} /\ backoff = {}
    /\ proc = [p \in Projects |-> Untracked]
    /\ hand = NoHand /\ lost = {}
    /\ deaths = 0 /\ requests = 0 /\ edits = 0

-----------------------------------------------------------------------------
(* The operating system: which pids can be given out, and what a probe     *)
(* with signal 0 says of one.  Without PidReuse an ended child's pid stays *)
(* "used".  A child the living daemon started remains a zombie until its   *)
(* watcher has waited for it; any other is reaped by init at once.         *)
Freed == IF PidReuse THEN "free" ELSE "used"
Living == {q \in Pids : owner[q] \in Projects}
Alive(q) == owner[q] \notin {"free", "used"}
Own(q) == \/ hand.pid = q
          \/ \E p \in Projects : /\ proc[p].pid = q /\ ~proc[p].adopted
                                 /\ proc[p].status = "running"

(* A child ends by itself, at any moment. *)
Exit(q) ==
    /\ owner[q] \in Projects
    /\ owner' = [owner EXCEPT ![q] = IF Own(q) THEN "zombie" ELSE Freed]
    /\ lost' = lost \ {q}
    /\ UNCHANGED <<toml, disk, pc, flush, memory, bounds>>

(* A program that is no child of any daemon gets a freed pid, or ends. *)
Foreign(q) ==
    /\ PidReuse
    /\ \/ owner[q] = "free" /\ owner' = [owner EXCEPT ![q] = "foreign"]
       \/ owner[q] = "foreign" /\ owner' = [owner EXCEPT ![q] = "free"]
    /\ UNCHANGED <<toml, disk, pc, flush, memory, bounds, lost>>

EditToml(p) ==
    /\ edits < MaxEdits /\ edits' = edits + 1
    /\ \E t \in Tomls \ {toml[p]} : toml' = [toml EXCEPT ![p] = t]
    /\ UNCHANGED <<owner, disk, pc, flush, memory, deaths, requests, lost>>

-----------------------------------------------------------------------------
(* The file is written by os.WriteFile, which truncates it first. *)
Quiet == flush = "none" /\ hand = NoHand

SaveOpen ==
    \/ /\ flush = "runtime" /\ flush' = "runtime open"
       /\ file' = Torn
       /\ UNCHANGED <<toml, owner, index, pc, memory, bounds, lost>>
    \/ /\ flush = "index" /\ flush' = "index open"
       /\ index' = Torn
       /\ UNCHANGED <<toml, owner, file, pc, memory, bounds, lost>>

SaveWrite ==
    \/ /\ flush = "runtime open" /\ flush' = "none"
       /\ file' = runtime
       /\ UNCHANGED <<toml, owner, index, pc, memory, bounds, lost>>
    \/ /\ flush = "index open" /\ flush' = "none"
       /\ index' = registry
       /\ UNCHANGED <<toml, owner, file, pc, memory, bounds, lost>>

-----------------------------------------------------------------------------
(* Boot.  A file that does not parse is taken as empty. *)
(* Mutant: takes a file that does not parse as it is. *)
LaunchUnparsed ==
    /\ pc = "down" /\ pc' = "probe"
    /\ runtime' = file
    /\ registry' = IF index = Torn THEN {} ELSE index
    /\ UNCHANGED <<toml, owner, disk, flush, configs, orphans, todo, proc,
                   hand, backoff, bounds, lost>>

Launch ==
    /\ pc = "down" /\ pc' = "probe"
    /\ runtime' = IF file = Torn THEN NoEntries ELSE file
    /\ registry' = IF index = Torn THEN {} ELSE index
    /\ UNCHANGED <<toml, owner, disk, flush, configs, orphans, todo, proc,
                   hand, backoff, bounds, lost>>

(* Mutant: LoadOrphans keeps the entries of dead pids. *)
ProbeKeepsDead(p) ==
    /\ pc = "probe" /\ runtime[p] # NoPid
    /\ IF Alive(runtime[p])
       THEN /\ orphans' = [orphans EXCEPT ![p] = runtime[p]]
            /\ runtime' = [runtime EXCEPT ![p] = NoPid]
       ELSE UNCHANGED <<orphans, runtime>>
    /\ UNCHANGED <<toml, owner, disk, pc, flush, registry, configs, todo,
                   proc, hand, backoff, bounds, lost>>

ProbeEntry(p) ==
    /\ pc = "probe" /\ runtime[p] # NoPid
    /\ orphans' = [orphans EXCEPT
                      ![p] = IF Alive(runtime[p]) THEN runtime[p] ELSE NoPid]
    /\ runtime' = [runtime EXCEPT ![p] = NoPid]
    /\ UNCHANGED <<toml, owner, disk, pc, flush, registry, configs, todo,
                   proc, hand, backoff, bounds, lost>>

ClearRuntime ==
    /\ pc = "probe" /\ runtime = NoEntries
    /\ pc' = "load" /\ flush' = "runtime"
    /\ UNCHANGED <<toml, owner, disk, memory, bounds, lost>>

LoadAll ==
    /\ pc = "load" /\ Quiet
    /\ pc' = "adopt"
    /\ configs' = {p \in registry : toml[p] # "broken"}
    /\ UNCHANGED <<toml, owner, disk, flush, runtime, registry, orphans,
                   todo, proc, hand, backoff, bounds, lost>>

(* Mutant: AdoptProcess does not save. *)
AdoptUnsaved(p) ==
    /\ pc = "adopt" /\ Quiet /\ orphans[p] # NoPid
    /\ proc' = [proc EXCEPT ![p] = [status |-> "running", pid |-> orphans[p],
                                    adopted |-> TRUE, hooked |-> p \in configs]]
    /\ runtime' = [runtime EXCEPT ![p] = orphans[p]]
    /\ orphans' = [orphans EXCEPT ![p] = NoPid]
    /\ UNCHANGED <<toml, owner, disk, pc, flush, registry, configs, todo,
                   hand, backoff, bounds, lost>>

(* Only a project whose toml could be loaded gets the crash callback. *)
AdoptProcess(p) ==
    /\ pc = "adopt" /\ Quiet /\ orphans[p] # NoPid
    /\ proc' = [proc EXCEPT ![p] = [status |-> "running", pid |-> orphans[p],
                                    adopted |-> TRUE, hooked |-> p \in configs]]
    /\ runtime' = [runtime EXCEPT ![p] = orphans[p]]
    /\ orphans' = [orphans EXCEPT ![p] = NoPid]
    /\ flush' = "runtime"
    /\ UNCHANGED <<toml, owner, disk, pc, registry, configs, todo, hand,
                   backoff, bounds, lost>>

AllAdopted ==
    /\ pc = "adopt" /\ Quiet /\ orphans = NoEntries
    /\ pc' = "auto" /\ todo' = registry
    /\ UNCHANGED <<toml, owner, disk, flush, runtime, registry, configs,
                   orphans, proc, hand, backoff, bounds, lost>>

-----------------------------------------------------------------------------
(* Manager.Start, up to the spawn; it may find no free pid and fail. *)
Startable(p) == p \in registry /\ toml[p] # "broken"

(* Mutant: an adopted process does not count as running. *)
StartIgnoresAdopted(p) ==
    /\ configs' = configs \cup {p}
    /\ \/ \E q \in Pids :
             /\ proc[p].status # "running" \/ proc[p].adopted
             /\ owner[q] = "free"
             /\ owner' = [owner EXCEPT ![q] = p]
             /\ hand' = [project |-> p, pid |-> q]
       \/ UNCHANGED <<owner, hand>>
    /\ UNCHANGED flush

Start(p) ==
    /\ configs' = configs \cup {p}
    /\ \/ /\ proc[p].status = "running" /\ flush' = "runtime"
          /\ UNCHANGED <<owner, hand>>
       \/ /\ proc[p].status # "running"
          /\ \E q \in Pids :
                /\ owner[q] = "free"
                /\ owner' = [owner EXCEPT ![q] = p]
                /\ hand' = [project |-> p, pid |-> q]
          /\ UNCHANGED flush
       \/ proc[p].status # "running" /\ UNCHANGED <<owner, hand, flush>>

NoStart == UNCHANGED <<owner, configs, hand, flush>>

StartTrack ==
    /\ hand # NoHand
    /\ proc' = [proc EXCEPT ![hand.project] =
                   [status |-> "running", pid |-> hand.pid,
                    adopted |-> FALSE, hooked |-> TRUE]]
    /\ runtime' = [runtime EXCEPT ![hand.project] = hand.pid]
    /\ hand' = NoHand /\ flush' = "runtime"
    /\ UNCHANGED <<toml, owner, disk, pc, registry, configs, orphans, todo,
                   backoff, bounds, lost>>

AutoStart(p) ==
    /\ pc = "auto" /\ Quiet /\ p \in todo
    /\ todo' = todo \ {p}
    /\ IF toml[p] = "auto" /\ Startable(p) THEN Start(p) ELSE NoStart
    /\ UNCHANGED <<toml, disk, pc, runtime, registry, orphans, proc, backoff,
                   bounds, lost>>

Serve ==
    /\ pc = "auto" /\ Quiet /\ todo = {}
    /\ pc' = "serve"
    /\ UNCHANGED <<toml, owner, disk, flush, memory, bounds, lost>>

-----------------------------------------------------------------------------
(* A watcher or a poll finds the child gone.  The crash callback, if there *)
(* is one, may schedule a restart (Manager.tla has the budget).            *)
Notice(p) ==
    LET q == proc[p].pid IN
    /\ proc[p].status = "running"
    /\ IF proc[p].adopted THEN ~Alive(q) ELSE owner[q] = "zombie"
    /\ proc' = [proc EXCEPT ![p].status = "crashed"]
    /\ owner' = IF proc[p].adopted THEN owner
                                   ELSE [owner EXCEPT ![q] = Freed]
    /\ \E again \in {FALSE, proc[p].hooked} :
          backoff' = IF again THEN backoff \cup {p} ELSE backoff
    /\ UNCHANGED <<toml, disk, pc, flush, runtime, registry, configs, orphans,
                   todo, hand, bounds, lost>>

BackoffElapsed(p) ==
    /\ p \in backoff /\ Quiet
    /\ backoff' = backoff \ {p}
    /\ IF Startable(p) THEN Start(p) ELSE NoStart
    /\ UNCHANGED <<toml, disk, pc, runtime, registry, orphans, todo, proc,
                   bounds, lost>>

-----------------------------------------------------------------------------
(* Requests to the serving daemon. *)
Request ==
    /\ pc = "serve" /\ Quiet
    /\ requests < MaxRequests /\ requests' = requests + 1

UserStart(p) ==
    /\ Request
    /\ IF Startable(p) THEN Start(p) ELSE NoStart
    /\ UNCHANGED <<toml, disk, pc, runtime, registry, orphans, todo, proc,
                   backoff, deaths, edits, lost>>

(* The signal goes to whatever group has the recorded id: a reused pid may *)
(* be that of another child of the daemon, or of a program that need not   *)
(* lead a group.  A child the daemon started under p has been waited for   *)
(* when Stop returns.                                                      *)
Signalled(p) ==
    LET q == proc[p].pid
        killed == [owner EXCEPT ![q] = IF proc[p].adopted /\ Own(q)
                                       THEN "zombie" ELSE Freed]
    IN  \/ Alive(q) /\ owner' = killed
        \/ owner[q] \in {"free", "used", "foreign"} /\ owner' = owner

(* Mutant: Stop leaves the status as it was. *)
StopKeepsStatus(p) ==
    /\ Request
    /\ IF proc[p].status = "running" THEN Signalled(p) ELSE UNCHANGED owner
    /\ lost' = lost \ {proc[p].pid}
    /\ runtime' = [runtime EXCEPT ![p] = NoPid] /\ flush' = "runtime"
    /\ UNCHANGED <<toml, disk, pc, registry, configs, orphans, todo, proc,
                   hand, backoff, deaths, edits>>

(* Mutant: Stop does not save. *)
StopUnsaved(p) ==
    /\ Request /\ proc[p].status = "running"
    /\ Signalled(p)
    /\ lost' = lost \ {proc[p].pid}
    /\ proc' = [proc EXCEPT ![p].status = "stopped", ![p].pid = NoPid]
    /\ runtime' = [runtime EXCEPT ![p] = NoPid]
    /\ UNCHANGED <<toml, disk, pc, flush, registry, configs, orphans, todo,
                   hand, backoff, deaths, edits>>

UserStop(p) ==
    /\ Request
    /\ IF proc[p].status = "running"
       THEN /\ Signalled(p)
            /\ lost' = lost \ {proc[p].pid}
            /\ proc' = [proc EXCEPT ![p].status = "stopped", ![p].pid = NoPid]
       ELSE UNCHANGED <<owner, proc, lost>>
    /\ runtime' = IF proc[p].status = "untracked" THEN runtime
                  ELSE [runtime EXCEPT ![p] = NoPid]
    /\ flush' = "runtime"
    /\ UNCHANGED <<toml, disk, pc, registry, configs, orphans, todo, hand,
                   backoff, deaths, edits>>

UserAdd(p) ==
    /\ Request /\ toml[p] # "broken"
    /\ registry' = registry \cup {p} /\ configs' = configs \cup {p}
    /\ flush' = "index"
    /\ UNCHANGED <<toml, owner, disk, pc, runtime, orphans, todo, proc, hand,
                   backoff, deaths, edits, lost>>

(* Mutant: Remove does not look at the status. *)
RemoveRunning(p) ==
    /\ Request
    /\ proc' = [proc EXCEPT ![p] = Untracked]
    /\ configs' = configs \ {p}
    /\ registry' = registry \ {p}
    /\ flush' = IF p \in registry THEN "index" ELSE flush
    /\ UNCHANGED <<toml, owner, disk, pc, runtime, orphans, todo, hand,
                   backoff, deaths, edits, lost>>

(* The entry in runtime.json of a project that is removed stays there. *)
UserRemove(p) ==
    /\ Request /\ proc[p].status # "running"
    /\ proc' = [proc EXCEPT ![p] = Untracked]
    /\ configs' = configs \ {p}
    /\ registry' = registry \ {p}
    /\ flush' = IF p \in registry THEN "index" ELSE flush
    /\ UNCHANGED <<toml, owner, disk, pc, runtime, orphans, todo, hand,
                   backoff, deaths, edits, lost>>

-----------------------------------------------------------------------------
(* SIGTERM, or a crash: either way nothing more is saved, and what another *)
(* goroutine was doing is cut off.  lost gets the children runtime.json    *)
(* does not name.                                                          *)
Recorded == IF file = Torn THEN {}
            ELSE {q \in Living : file[owner[q]] = q}

Die ==
    /\ pc # "down" /\ pc' = "down"
    /\ deaths < MaxDeaths /\ deaths' = deaths + 1
    /\ flush' = "none"
    /\ owner' = [q \in Pids |-> IF owner[q] = "zombie" THEN Freed
                                                       ELSE owner[q]]
    /\ lost' = Living \ Recorded
    /\ runtime' = NoEntries /\ orphans' = NoEntries
    /\ registry' = {} /\ configs' = {} /\ todo' = {} /\ backoff' = {}
    /\ proc' = [p \in Projects |-> Untracked] /\ hand' = NoHand
    /\ UNCHANGED <<toml, disk, requests, edits>>

-----------------------------------------------------------------------------
Booting ==
    \/ ClearRuntime \/ LoadAll \/ AllAdopted \/ Serve
    \/ \E p \in Projects : ProbeEntry(p) \/ AdoptProcess(p) \/ AutoStart(p)

Saving == SaveOpen \/ SaveWrite

Requested ==
    \E p \in Projects :
        UserStart(p) \/ UserStop(p) \/ UserAdd(p) \/ UserRemove(p)

Environment ==
    \/ \E q \in Pids : Exit(q) \/ Foreign(q)
    \/ \E p \in Projects : EditToml(p)

Next ==
    \/ Launch \/ Booting \/ Saving \/ StartTrack \/ Requested
    \/ \E p \in Projects : Notice(p) \/ BackoffElapsed(p)
    \/ Environment \/ Die

Spec == Init /\ [][Next]_vars

(* The daemon's own goroutine and its watchers run; nobody has to launch   *)
(* a daemon, ask it for anything, or kill it.  Booting is strongly fair    *)
(* because only this model makes the boot wait while the restart of an     *)
(* already adopted process is saved.                                       *)
Fairness ==
    /\ SF_vars(Booting) /\ WF_vars(Saving) /\ WF_vars(StartTrack)
    /\ \A p \in Projects : WF_vars(Notice(p))

FairSpec == Spec /\ Fairness

-----------------------------------------------------------------------------
Tracked(p, q) == proc[p].status = "running" /\ proc[p].pid = q

(* A living child is tracked by the daemon, in the hand of Start, among    *)
(* the orphans, or in what the daemon read from runtime.json; while there  *)
(* is no daemon, it is in the file.  Only the death of a daemon makes an   *)
(* exception (daemon.go:41-43: "We do NOT kill them").                     *)
Known(q) ==
    LET p == owner[q] IN
    \/ Tracked(p, q) \/ hand = [project |-> p, pid |-> q]
    \/ orphans[p] = q
    \/ pc = "probe" /\ runtime[p] = q
    \/ pc = "down" /\ file # Torn /\ file[p] = q

NoChildForgotten == \A q \in Living \ lost : Known(q)

(* A death loses a child only in one of three windows: runtime.json is     *)
(* being written, a child was spawned and not tracked yet, or LoadOrphans  *)
(* has cleared the file and the child is not adopted yet                   *)
(* (recovery.go:89-91, manager.go:441-451).                                *)
InWindow(q) == \/ flush \in {"runtime", "runtime open"}
               \/ hand.pid = q
               \/ pc \in {"load", "adopt"} /\ orphans[owner[q]] = q

LossWindow == [][\A q \in lost' \ lost : InWindow(q)]_vars

(* Whenever nothing is being saved, the files say what the daemon knows:   *)
(* every start, stop, adoption, add and remove saves what it changed.  A   *)
(* torn registry.json stays torn while nothing is registered.              *)
FilesMatchMemory ==
    flush = "none" /\ pc \in {"load", "adopt", "auto", "serve"}
        /\ hand = NoHand =>
        /\ file = runtime
        /\ index = registry \/ (index = Torn /\ registry = {})

(* A project never has two living children a daemon knows or will know:    *)
(* autostart and restarts skip an adopted process (daemon.go:54,           *)
(* "idempotent: skips already-running").                                   *)
OneLivePerProject ==
    \A q, r \in Living \ lost : owner[q] = owner[r] => q = r

(* A pid the daemon got by starting a child is that child until the        *)
(* watcher has seen it end; only an adopted pid may belong to another      *)
(* program.                                                                *)
StartedIsOurs ==
    \A p \in Projects :
        proc[p].status = "running" /\ ~proc[p].adopted =>
            owner[proc[p].pid] \in {p, "zombie"}

(* No process but a child of the daemon is ever taken for one.  This is    *)
(* what adoption by a bare pid does not give when pids are reused          *)
(* (recovery.go:84).                                                       *)
AdoptedIsOurs ==
    \A p \in Projects :
        proc[p].status = "running" /\ proc[p].adopted =>
            owner[proc[p].pid] \in {p, "used", "free"}

(* A daemon that is launched comes to serve, whatever the files hold and   *)
(* the children do meanwhile, unless it dies; by NoChildForgotten it then  *)
(* tracks every survivor.                                                  *)
BootServes == (pc = "probe") ~> (pc \in {"serve", "down"})
=============================================================================
