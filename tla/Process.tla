------------------------------ MODULE Process ------------------------------
(***************************************************************************)
(* One Process object of internal/daemon/process.go, at the grain of its   *)
(* lock sections: Start, the concurrent callers of Stop, the goroutine     *)
(* that watches the child (watch for a child this daemon started,          *)
(* watchAdopted for one that survived an earlier daemon), and the          *)
(* operating system's side: the leader `sh -c command` and the helpers it  *)
(* forks.                                                                  *)
(*                                                                         *)
(* The Manager creates a new Process for every start (manager.go:413), so  *)
(* an object is started at most once.  Only one helper is modelled at a    *)
(* time.  A helper stays in the leader's process group or leaves it        *)
(* (setsid), and inherits the leader's stdout pipe or not; Forks says      *)
(* which of the four kinds of helper a run has.                            *)
(***************************************************************************)
EXTENDS Naturals

CONSTANTS
    Callers,     \* the goroutines that may call Stop
    Forks        \* the kinds of helper: <<where it lives, has the pipe>>

ASSUME ForksAssumption == Forks \subseteq {"group", "escaped"} \X BOOLEAN

VARIABLES
    adopted,     \* p.adopted: reconnected to, not started by this daemon
    status,      \* p.status
    pid,         \* p.pid: NoPid or ChildPid
    closed,      \* TRUE once p.crashCh is closed
    watcher,     \* where the watching goroutine is
    intentional, \* its local `intentional`
    crashes,     \* how many times onCrash was called (history)
    stopper,     \* where each caller of Stop is
    leader,      \* the child itself: "none", "alive", "exited"
    helper,      \* a process forked by the leader: "none", "group", "escaped"
    holdsPipe,   \* the helper inherited the leader's stdout and stderr
    killed       \* SIGKILL was sent to the process group

NoPid == 0
ChildPid == 1

goVars == <<adopted, status, pid, closed, watcher, intentional, crashes, stopper>>
osVars == <<leader, helper, holdsPipe, killed>>
vars == <<adopted, status, pid, closed, watcher, intentional, crashes, stopper,
          leader, helper, holdsPipe, killed>>

Statuses == {"stopped", "running", "stopping", "crashed"}
WatcherPlaces == {"off", "poll", "probe", "mark", "close", "report", "done"}
StopPlaces == {"idle", "sigterm", "wait", "probe", "drain", "settle"}

TypeOK ==
    /\ adopted \in BOOLEAN
    /\ status \in Statuses
    /\ pid \in {NoPid, ChildPid}
    /\ closed \in BOOLEAN
    /\ watcher \in WatcherPlaces
    /\ intentional \in BOOLEAN
    /\ crashes \in 0..1
    /\ stopper \in [Callers -> StopPlaces]
    /\ leader \in {"none", "alive", "exited"}
    /\ helper \in {"none", "group", "escaped"}
    /\ holdsPipe \in BOOLEAN
    /\ killed \in BOOLEAN

(* NewProcess, or NewAdoptedProcess of a child that is still alive. *)
Init ==
    /\ adopted \in BOOLEAN
    /\ status = IF adopted THEN "running" ELSE "stopped"
    /\ pid = IF adopted THEN ChildPid ELSE NoPid
    /\ watcher = IF adopted THEN "poll" ELSE "off"
    /\ leader = IF adopted THEN "alive" ELSE "none"
    /\ closed = FALSE /\ intentional = FALSE /\ crashes = 0
    /\ stopper = [c \in Callers |-> "idle"]
    /\ helper = "none" /\ holdsPipe = FALSE /\ killed = FALSE

-----------------------------------------------------------------------------
(* The operating system. *)

Fork ==
    /\ leader = "alive" /\ helper = "none" /\ ~killed
    /\ \E f \in Forks : helper' = f[1] /\ holdsPipe' = f[2]
    /\ UNCHANGED <<goVars, leader, killed>>

(* By itself, or because it obeys SIGTERM. *)
LeaderExits ==
    /\ leader = "alive"
    /\ leader' = "exited"
    /\ UNCHANGED <<goVars, helper, holdsPipe, killed>>

HelperExits ==
    /\ helper # "none"
    /\ helper' = "none" /\ holdsPipe' = FALSE
    /\ UNCHANGED <<goVars, leader, killed>>

(* SIGKILL ends every process of the group, and only those. *)
KillTakesEffect ==
    /\ killed
    /\ leader = "alive" \/ helper = "group"
    /\ leader' = "exited"
    /\ helper' = IF helper = "group" THEN "none" ELSE helper
    /\ holdsPipe' = (holdsPipe /\ helper = "escaped")
    /\ UNCHANGED <<goVars, killed>>

(* cmd.Wait returns when the child is gone and every copy of the write end *)
(* of its output pipe is closed: stdout is an io.Writer, so os/exec copies *)
(* from a pipe and waits for its end.                                      *)
WaitReturns == leader = "exited" /\ ~holdsPipe

(* Mutant: the probe asks about the whole group, kill(-pgid, 0). *)
ProbeGroup == leader = "alive" \/ helper = "group"

(* kill(pid, 0) looks at the leader alone. *)
ProcessAlive == leader = "alive"

-----------------------------------------------------------------------------
(* Start: one lock section, cmd.Start included. *)
Start ==
    /\ watcher = "off"
    /\ status' = "running" /\ pid' = ChildPid
    /\ leader' = "alive"
    /\ watcher' = "poll"
    /\ closed' = FALSE
    /\ UNCHANGED <<adopted, intentional, crashes, stopper, helper, holdsPipe, killed>>

-----------------------------------------------------------------------------
(* watch *)

(* Mutant: watch forgets to ask whether the exit was intended. *)
NeverIntentional == FALSE

(* cmd.Wait returned: the verdict is taken under the lock. *)
IntentionalExit == status = "stopping"

WatchJudge ==
    /\ ~adopted /\ watcher = "poll"
    /\ WaitReturns
    /\ intentional' = IntentionalExit
    /\ status' = IF intentional' THEN status ELSE "crashed"
    /\ watcher' = "close"
    /\ UNCHANGED <<adopted, pid, closed, crashes, stopper, osVars>>

(* Mutant: crashCh is closed for crashes only. *)
CloseOnCrashOnly ==
    /\ watcher = "close"
    /\ closed' = ~intentional
    /\ watcher' = IF intentional THEN "done" ELSE "report"
    /\ UNCHANGED <<adopted, status, pid, intentional, crashes, stopper, osVars>>

(* Mutant: onCrash is called whatever the verdict. *)
CloseThenReport ==
    /\ watcher = "close"
    /\ closed' = TRUE
    /\ watcher' = "report"
    /\ UNCHANGED <<adopted, status, pid, intentional, crashes, stopper, osVars>>

(* close(crashCh) happens after the unlock, for both kinds of watcher. *)
WatchClose ==
    /\ watcher = "close"
    /\ closed' = TRUE
    /\ watcher' = IF intentional THEN "done" ELSE "report"
    /\ UNCHANGED <<adopted, status, pid, intentional, crashes, stopper, osVars>>

(* Mutant: the watcher goes on watching after it reported. *)
ReportAndStay ==
    /\ watcher = "report"
    /\ crashes' = crashes + 1
    /\ watcher' = "poll"
    /\ UNCHANGED <<adopted, status, pid, closed, intentional, stopper, osVars>>

(* onCrash(p.name) *)
WatchReport ==
    /\ watcher = "report"
    /\ crashes' = crashes + 1
    /\ watcher' = "done"
    /\ UNCHANGED <<adopted, status, pid, closed, intentional, stopper, osVars>>

(* watchAdopted: the status is read under the lock ... *)
PollStatus ==
    /\ adopted /\ watcher = "poll"
    /\ watcher' = IF status \in {"stopping", "stopped"} THEN "done" ELSE "probe"
    /\ UNCHANGED <<adopted, status, pid, closed, intentional, crashes, stopper, osVars>>

(* ... the child is probed without it ... *)
PollProbe ==
    /\ adopted /\ watcher = "probe"
    /\ watcher' = IF ProcessAlive THEN "poll" ELSE "mark"
    /\ UNCHANGED <<adopted, status, pid, closed, intentional, crashes, stopper, osVars>>

(* ... and the verdict is written under the lock again, whatever the status *)
(* has become meanwhile.                                                    *)
PollMark ==
    /\ adopted /\ watcher = "mark"
    /\ status' = "crashed"
    /\ watcher' = "close"
    /\ UNCHANGED <<adopted, pid, closed, intentional, crashes, stopper, osVars>>

Watch == WatchJudge \/ WatchClose \/ WatchReport
           \/ PollStatus \/ PollProbe \/ PollMark

-----------------------------------------------------------------------------
(* Stop, called by c. *)

Goto(c, place) == stopper' = [stopper EXCEPT ![c] = place]

(* Mutant: a Stop in progress does not turn the next one away. *)
MayStopAgain == status \in {"running", "stopping"}

MayStop == status = "running"

(* A Stop that finds another status returns nil at once: no step. *)
StopBegin(c) ==
    /\ stopper[c] = "idle"
    /\ MayStop
    /\ status' = "stopping"
    /\ Goto(c, "sigterm")
    /\ UNCHANGED <<adopted, pid, closed, watcher, intentional, crashes, osVars>>

(* SIGTERM asks; LeaderExits and HelperExits are the answers. *)
StopSigterm(c) ==
    /\ stopper[c] = "sigterm"
    /\ Goto(c, "wait")
    /\ UNCHANGED <<adopted, status, pid, closed, watcher, intentional, crashes, osVars>>

StopAwaited(c) ==
    /\ ~adopted /\ stopper[c] \in {"wait", "drain"}
    /\ closed
    /\ Goto(c, "settle")
    /\ UNCHANGED <<adopted, status, pid, closed, watcher, intentional, crashes, osVars>>

(* Mutant: gives up after five seconds instead of killing. *)
TimeoutGivesUp(c) ==
    /\ ~adopted /\ stopper[c] = "wait"
    /\ Goto(c, "settle")
    /\ UNCHANGED <<adopted, status, pid, closed, watcher, intentional, crashes, osVars>>

(* Five seconds without an answer. *)
StopTimeout(c) ==
    /\ ~adopted /\ stopper[c] = "wait"
    /\ killed' = TRUE
    /\ Goto(c, "drain")
    /\ UNCHANGED <<adopted, status, pid, closed, watcher, intentional, crashes,
                   leader, helper, holdsPipe>>

(* Mutant: the polling loop has no deadline. *)
PollForever(c) ==
    /\ adopted /\ stopper[c] = "wait" /\ ~ProcessAlive
    /\ Goto(c, "probe")
    /\ UNCHANGED <<adopted, status, pid, closed, watcher, intentional, crashes, osVars>>

(* The adopted branch leaves its polling loop early or at the deadline; *)
(* either way it probes once more.                                      *)
StopPolled(c) ==
    /\ adopted /\ stopper[c] = "wait"
    /\ Goto(c, "probe")
    /\ UNCHANGED <<adopted, status, pid, closed, watcher, intentional, crashes, osVars>>

(* Mutant: the adopted branch never sends SIGKILL. *)
ProbeWithoutKill(c) ==
    /\ stopper[c] = "probe"
    /\ Goto(c, "settle")
    /\ UNCHANGED <<adopted, status, pid, closed, watcher, intentional, crashes, osVars>>

StopProbe(c) ==
    /\ stopper[c] = "probe"
    /\ killed' = (killed \/ ProcessAlive)
    /\ Goto(c, "settle")
    /\ UNCHANGED <<adopted, status, pid, closed, watcher, intentional, crashes,
                   leader, helper, holdsPipe>>

StopSettle(c) ==
    /\ stopper[c] = "settle"
    /\ status' = "stopped" /\ pid' = NoPid
    /\ Goto(c, "idle")
    /\ UNCHANGED <<adopted, closed, watcher, intentional, crashes, osVars>>

StopStep(c) == StopSigterm(c) \/ StopAwaited(c) \/ StopTimeout(c)
                 \/ StopPolled(c) \/ StopProbe(c) \/ StopSettle(c)

-----------------------------------------------------------------------------
Next ==
    \/ Fork \/ LeaderExits \/ HelperExits \/ KillTakesEffect
    \/ Start
    \/ Watch
    \/ \E c \in Callers : StopBegin(c) \/ StopStep(c)

(* Goroutines are scheduled, timers fire and SIGKILL works.  Nobody is      *)
(* obliged to call Start or Stop, and a child or a helper that was not      *)
(* killed may run for ever.                                                 *)
Fairness ==
    /\ WF_vars(Watch)
    /\ WF_vars(KillTakesEffect)
    /\ \A c \in Callers : WF_vars(StopStep(c))

Spec == Init /\ [][Next]_vars
FairSpec == Spec /\ Fairness

-----------------------------------------------------------------------------
(* Properties *)

(* The child counts as present while its leader runs or somebody still     *)
(* holds its output: that is what watch can see.                           *)
Present == leader = "alive" \/ holdsPipe

Abstract == INSTANCE Lifecycle WITH phase <- status, live <- Present

(* A child this daemon started keeps the promises of Lifecycle: no         *)
(* interleaving of Stop's two lock sections with watch's shows "crashed"   *)
(* for a stop, "stopped" for a live child, or takes a verdict back.        *)
(* (Abstract!Spec; watchAdopted breaks it, see PollMark.)                  *)
ImplementsLifecycle ==
    /\ ~adopted => Abstract!Init
    /\ [][~adopted => Abstract!Next]_(Abstract!vars)

(* When watch has finished, onCrash was called exactly if the status says  *)
(* "crashed": the decision taken under the lock (process.go:225-233) still *)
(* agrees with the status after the unlock, the close and the callback.    *)
VerdictMatchesReport ==
    ~adopted /\ watcher = "done" => (crashes = 1 <=> status = "crashed")

(* Two callers of Stop never both signal the child and wait for it: the    *)
(* second one finds "stopping" and leaves (process.go:174-177).            *)
StopIsExclusive ==
    \A c, d \in Callers :
        stopper[c] # "idle" /\ stopper[d] # "idle" => c = d

(* "stopped" is never shown for a child that neither ended nor was sent    *)
(* SIGKILL.  (An adopted child may still be dying: process.go:201-203 does *)
(* not wait for it.)                                                       *)
StoppedMeansEnded ==
    status = "stopped" /\ watcher # "off" => leader = "exited" \/ killed

(* Every Stop returns (process.go:192-212 bounds both kinds of waiting).   *)
(* FAILS for a child that left a pipe holder out of every signal's reach.  *)
StopReturns == \A c \in Callers : stopper[c] # "idle" ~> stopper[c] = "idle"

(* A helper that left the group with the output pipe: no signal of Stop    *)
(* reaches it, and cmd.Wait waits for it.                                  *)
OutOfReach == ~adopted /\ helper = "escaped" /\ holdsPipe

(* Nothing else can make a Stop wait for ever: not the exit of the child   *)
(* at any moment of the Stop, not a second Stop, not a helper that ignores *)
(* SIGTERM, and not the exit of an adopted child.                          *)
StopReturnsUnlessHeld ==
    \A c \in Callers :
        stopper[c] # "idle" ~> (stopper[c] = "idle" \/ OutOfReach)

(* The end of a child nobody stopped is noticed: by watch when leader and  *)
(* output are gone, by watchAdopted when the leader is, whoever survives.  *)
Gone == leader = "exited" /\ (adopted \/ ~holdsPipe)

ExitNoticed == status = "running" /\ Gone ~> status # "running"
=============================================================================
