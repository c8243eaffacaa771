--------------------------- MODULE ProcessProofs ---------------------------
(***************************************************************************)
(* Proofs about one Process object, for any set of callers of Stop, any    *)
(* kind of forked helper, and both kinds of child.                         *)
(*                                                                         *)
(* The inductive invariant says, for every place the watching goroutine    *)
(* and the callers of Stop can be at, what the status and the child may    *)
(* be.  The part that holds only for a child this daemon started is under  *)
(* OwnedInv: watchAdopted breaks it (see PollMark in Process.tla).         *)
(***************************************************************************)
EXTENDS Process, TLAPS

Judged == watcher \in {"close", "report", "done"}

(* Nothing has happened to an object that was not started. *)
Unstarted ==
    /\ leader = "none" <=> watcher = "off"
    /\ watcher = "off" =>
         /\ status = "stopped" /\ ~killed /\ ~holdsPipe /\ ~adopted
         /\ \A c \in Callers : stopper[c] = "idle"

(* While a Stop is in progress nobody sees "running", which is what keeps *)
(* the other callers out.                                                 *)
StopsInProgress ==
    \A c \in Callers : stopper[c] # "idle" => status \in {"stopping", "crashed"}

(* A Stop about to write "stopped" knows that the child ended or will. *)
SettledStops ==
    \A c \in Callers : stopper[c] = "settle" => leader = "exited" \/ killed

ReportedOnce == crashes = 1 => watcher = "done"

(* A child this daemon started. *)
OwnedInv ==
    /\ watcher \in {"off", "poll"} \/ Judged
    /\ \A c \in Callers : stopper[c] # "probe"
    /\ \A c \in Callers : stopper[c] # "idle" => status = "stopping"
    /\ watcher = "poll" => status \in {"running", "stopping"}
    /\ Judged => /\ WaitReturns
                 /\ intentional <=> status \in {"stopping", "stopped"}
                 /\ ~intentional <=> status = "crashed"
    /\ watcher = "report" => ~intentional
    /\ closed <=> watcher \in {"report", "done"}
    /\ \A c \in Callers : stopper[c] = "settle" => closed
    /\ watcher = "done" => (crashes = 1 <=> ~intentional)

IInv ==
    /\ TypeOK
    /\ Unstarted
    /\ StopIsExclusive
    /\ StopsInProgress
    /\ SettledStops
    /\ StoppedMeansEnded
    /\ ReportedOnce
    /\ ~adopted => OwnedInv

(* The initial states satisfy the invariant: a new object, or an adopted  *)
(* one whose child lives.                                                 *)
LEMMA InitIInv == Init => IInv
  <1> SUFFICES ASSUME Init PROVE IInv
    OBVIOUS
  <1> USE DEF Init, Judged, WaitReturns
  <1>1. TypeOK
    <2>1. crashes \in 0..1 /\ pid \in {NoPid, ChildPid}
      BY DEF NoPid, ChildPid
    <2>2. closed \in BOOLEAN /\ intentional \in BOOLEAN
            /\ holdsPipe \in BOOLEAN /\ killed \in BOOLEAN
            /\ adopted \in BOOLEAN
      BY Zenon
    <2>3. /\ status \in Statuses /\ watcher \in WatcherPlaces
          /\ leader \in {"none", "alive", "exited"}
          /\ helper \in {"none", "group", "escaped"}
      BY DEF Statuses, WatcherPlaces
    <2>4. stopper \in [Callers -> StopPlaces]
      BY DEF StopPlaces
    <2> QED
      BY <2>1, <2>2, <2>3, <2>4 DEF TypeOK
  <1>2. Unstarted
    BY DEF Unstarted
  <1>3. StopIsExclusive
    BY DEF StopIsExclusive
  <1>4. StopsInProgress
    BY DEF StopsInProgress
  <1>5. SettledStops
    BY DEF SettledStops
  <1>6. StoppedMeansEnded
    BY DEF StoppedMeansEnded
  <1>7. ReportedOnce
    BY DEF ReportedOnce
  <1>8. ~adopted => OwnedInv
    BY DEF OwnedInv
  <1> QED
    BY <1>1, <1>2, <1>3, <1>4, <1>5, <1>6, <1>7, <1>8 DEF IInv

(* Every step of the object, its callers and its child keeps it. *)
LEMMA NextIInv == IInv /\ [Next]_vars => IInv'
  <1> SUFFICES ASSUME IInv, [Next]_vars PROVE IInv'
    OBVIOUS
  <1> USE ForksAssumption
          DEF IInv, TypeOK, Unstarted, StopIsExclusive, StopsInProgress,
              SettledStops, StoppedMeansEnded, ReportedOnce, OwnedInv, Judged,
              Statuses, WatcherPlaces, StopPlaces, NoPid, ChildPid, WaitReturns,
              ProcessAlive, IntentionalExit, MayStop, Goto, goVars, osVars
  <1>1. CASE Fork
    BY <1>1 DEF Fork
  <1>2. CASE LeaderExits
    BY <1>2 DEF LeaderExits
  <1>3. CASE HelperExits
    BY <1>3 DEF HelperExits
  <1>4. CASE KillTakesEffect
    BY <1>4 DEF KillTakesEffect
  <1>5. CASE Start
    BY <1>5 DEF Start
  <1>6. CASE WatchJudge
    BY <1>6 DEF WatchJudge
  <1>7. CASE WatchClose
    BY <1>7 DEF WatchClose
  <1>8. CASE WatchReport
    BY <1>8 DEF WatchReport
  <1>9. CASE PollStatus
    BY <1>9 DEF PollStatus
  <1>10. CASE PollProbe
    BY <1>10 DEF PollProbe
  <1>11. CASE PollMark
    BY <1>11 DEF PollMark
  <1>12. ASSUME NEW c \in Callers, StopBegin(c) \/ StopStep(c) PROVE IInv'
    <2>1. CASE StopBegin(c)
      BY <2>1 DEF StopBegin
    <2>2. CASE StopSigterm(c)
      BY <2>2 DEF StopSigterm
    <2>3. CASE StopAwaited(c)
      BY <2>3 DEF StopAwaited
    <2>4. CASE StopTimeout(c)
      BY <2>4 DEF StopTimeout
    <2>5. CASE StopPolled(c)
      BY <2>5 DEF StopPolled
    <2>6. CASE StopProbe(c)
      BY <2>6 DEF StopProbe
    <2>7. CASE StopSettle(c)
      BY <2>7 DEF StopSettle
    <2> QED
      BY <1>12, <2>1, <2>2, <2>3, <2>4, <2>5, <2>6, <2>7 DEF StopStep
  <1>13. CASE UNCHANGED vars
    BY <1>13 DEF vars
  <1> QED
    BY <1>1, <1>2, <1>3, <1>4, <1>5, <1>6, <1>7, <1>8, <1>9, <1>10, <1>11, <1>12, <1>13 DEF Next, Watch

LEMMA Invariance == Spec => []IInv
  BY InitIInv, NextIInv, PTL DEF Spec

(* The statuses, goroutine places and counters keep their ranges; in      *)
(* particular onCrash is called at most once per object (process.go:236). *)
THEOREM TypeCorrect == Spec => []TypeOK
  <1>1. IInv => TypeOK
    BY DEF IInv
  <1> QED
    BY <1>1, Invariance, PTL

(* At most one caller of Stop signals the child and waits for it          *)
(* (process.go:174-178), however many there are.                          *)
THEOREM ExclusiveStop == Spec => []StopIsExclusive
  <1>1. IInv => StopIsExclusive
    BY DEF IInv
  <1> QED
    BY <1>1, Invariance, PTL

(* "stopped" (process.go:215) is shown only once the child ended or was   *)
(* sent SIGKILL, for both kinds of child.                                 *)
THEOREM StoppedIsTrue == Spec => []StoppedMeansEnded
  <1>1. IInv => StoppedMeansEnded
    BY DEF IInv
  <1> QED
    BY <1>1, Invariance, PTL

(* For a child this daemon started, the crash callback and the status     *)
(* always tell the same story (process.go:225-238).                       *)
THEOREM VerdictIsConsistent == Spec => []VerdictMatchesReport
  <1>1. IInv => VerdictMatchesReport
    BY DEF IInv, OwnedInv, Judged, VerdictMatchesReport
  <1> QED
    BY <1>1, Invariance, PTL

-----------------------------------------------------------------------------
(* A step of Process is a step of Lifecycle or leaves phase and live alone. *)
LEMMA StepSimulation ==
  ASSUME ~adopted, IInv, [Next]_vars
  PROVE  [Abstract!Next]_(Abstract!vars)
  <1> USE DEF Abstract!vars, Abstract!Next, Present
  <1>1. CASE Fork
    (* Only a live leader forks, so the child was present before. *)
    BY <1>1 DEF Fork, goVars
  <1>2. CASE LeaderExits \/ HelperExits \/ KillTakesEffect
    (* Either the last one that counted as the child goes, or nothing shows. *)
    BY <1>2 DEF LeaderExits, HelperExits, KillTakesEffect, goVars, Abstract!Exit
  <1>3. CASE Start
    BY <1>3 DEF Start, IInv, Unstarted, Abstract!Launch
  <1>4. CASE WatchJudge
    (* watch judges in "running" or "stopping", after the output was closed. *)
    BY <1>4 DEF WatchJudge, WaitReturns, IntentionalExit, osVars, IInv,
                OwnedInv, Abstract!Report
  <1>5. CASE WatchClose \/ WatchReport
    BY <1>5 DEF WatchClose, WatchReport, osVars
  <1>6. CASE PollStatus \/ PollProbe \/ PollMark
    BY <1>6, ~adopted DEF PollStatus, PollProbe, PollMark
  <1>7. ASSUME NEW c \in Callers, StopBegin(c)
        PROVE  [Abstract!Next]_(Abstract!vars)
    BY <1>7 DEF StopBegin, MayStop, osVars, Abstract!RequestStop
  <1>8. ASSUME NEW c \in Callers, StopSettle(c)
        PROVE  [Abstract!Next]_(Abstract!vars)
    (* crashCh is closed, so cmd.Wait has returned: the child is gone. *)
    BY <1>8 DEF StopSettle, osVars, WaitReturns, IInv, OwnedInv, Judged,
                Abstract!Finish
  <1>9. ASSUME NEW c \in Callers,
               StopSigterm(c) \/ StopAwaited(c) \/ StopTimeout(c)
                 \/ StopPolled(c) \/ StopProbe(c)
        PROVE  [Abstract!Next]_(Abstract!vars)
    BY <1>9 DEF StopSigterm, StopAwaited, StopTimeout, StopPolled, StopProbe,
                osVars
  <1>10. CASE UNCHANGED vars
    BY <1>10 DEF vars
  <1> QED
    BY <1>1, <1>2, <1>3, <1>4, <1>5, <1>6, <1>7, <1>8, <1>9, <1>10
       DEF Next, Watch, StopStep

(* A child this daemon started implements Lifecycle: "crashed" is shown   *)
(* only for an exit nobody asked for, "stopped" only after the end of a   *)
(* child somebody asked to stop, and neither is taken back.               *)
THEOREM Refinement == Spec => ImplementsLifecycle
  <1>1. Init => (~adopted => Abstract!Init)
    BY DEF Init, Abstract!Init, Present
  <1>2. IInv /\ [Next]_vars => [~adopted => Abstract!Next]_(Abstract!vars)
    BY StepSimulation
  <1> QED
    BY <1>1, <1>2, Invariance, PTL DEF Spec, ImplementsLifecycle
=============================================================================
