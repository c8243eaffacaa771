----------------------------- MODULE BootProofs -----------------------------
(***************************************************************************)
(* Proofs about the daemon's death and boot that hold for every number of  *)
(* projects, pids, deaths, requests and edits, with and without the reuse  *)
(* of pids.                                                                *)
(*                                                                         *)
(* Core is the inductive invariant.  Phases says which of the daemon's     *)
(* variables are in use at which place of its program; Slots that a        *)
(* project's child is in one of them at a time; Entered and Read relate    *)
(* memory to what was read from runtime.json, Written to what is saved     *)
(* there; Identity keeps the pids of started children apart.               *)
(***************************************************************************)
EXTENDS Boot, TLAPS

Supervising == {"adopt", "auto", "serve"}
Running(p) == proc[p].status = "running"
Started(p) == Running(p) /\ ~proc[p].adopted

Phases ==
    /\ pc = "down" => runtime = NoEntries
    /\ pc \in {"down", "probe"} => flush = "none"
    /\ pc \notin Supervising =>
         proc = [p \in Projects |-> Untracked] /\ hand = NoHand /\ backoff = {}

(* What LoadOrphans found is not tracked yet, and nobody restarts it.  A   *)
(* child in the hand of Start is the only one of its project.              *)
Slots ==
    /\ hand # NoHand => /\ flush = "none"
                        /\ ~Running(hand.project)
                        /\ orphans[hand.project] = NoPid
    /\ \A p \in Projects : orphans[p] # NoPid =>
         /\ pc \in {"probe", "load", "adopt"}
         /\ ~Running(p) /\ p \notin backoff
         /\ pc = "probe" => runtime[p] = NoPid

Entered == \A p \in Projects : Running(p) =>
             proc[p].pid \in Pids /\ runtime[p] = proc[p].pid

Read ==
    pc = "probe" => \A p \in Projects :
        /\ runtime[p] # NoPid => file # Torn /\ file[p] = runtime[p]
        /\ orphans[p] # NoPid => file # Torn /\ file[p] = orphans[p]

Written ==
    /\ pc \notin {"down", "probe"} /\ flush \notin {"runtime", "runtime open"}
         => file = runtime
    /\ pc # "down" /\ flush \notin {"index", "index open"}
         => index = registry \/ (index = Torn /\ registry = {})

Identity ==
    /\ \A p \in Projects : Started(p) =>
         /\ owner[proc[p].pid] \in {p, "zombie"}
         /\ proc[p].pid # hand.pid
         /\ \A r \in Projects \ {p} : Started(r) => proc[p].pid # proc[r].pid
    /\ hand # NoHand => owner[hand.pid] \in {hand.project, "zombie"}

LostLive == lost \subseteq Living

Core == /\ TypeOK /\ Phases /\ Slots /\ Entered /\ Read /\ Written
        /\ Identity /\ LostLive /\ NoChildForgotten
-----------------------------------------------------------------------------
(* A torn file is neither a runtime.json nor a registry.json.              *)
LEMMA TornFacts == Torn \notin Entries /\ Torn \notin SUBSET Projects
  BY TornAssumption DEF Entries

(* What a Start does, whoever asks for it: nothing to the processes, or it *)
(* spawns a child with a free pid.                                         *)
Spawns(p, q) ==
    /\ ~Running(p) /\ owner[q] = "free" /\ flush' = flush
    /\ owner' = [owner EXCEPT ![q] = p]
    /\ hand' = [project |-> p, pid |-> q]

LEMMA Begins ==
  ASSUME TypeOK, NEW p \in Projects, Start(p) \/ NoStart
  PROVE  /\ configs' \subseteq Projects /\ flush' \in Flushes
         /\ owner' \in [Pids -> Owners] /\ hand' \in Hands
         /\ \/ UNCHANGED <<owner, hand>> /\ flush' \in {flush, "runtime"}
            \/ \E q \in Pids : Spawns(p, q)
<1>1. CASE NoStart
  BY <1>1 DEF TypeOK, NoStart
<1>2. CASE Start(p)
  <2>1. configs' \subseteq Projects /\ flush' \in Flushes
    BY <1>2 DEF TypeOK, Start, Flushes
  <2>2. \/ UNCHANGED <<owner, hand>> /\ flush' \in {flush, "runtime"}
        \/ \E q \in Pids : Spawns(p, q)
    BY <1>2 DEF Start, Spawns, Running
  <2>3. owner' \in [Pids -> Owners] /\ hand' \in Hands
    BY <2>2 DEF TypeOK, Spawns, Owners, Hands
  <2>. QED
    BY <2>1, <2>2, <2>3
<1>. QED
  BY <1>1, <1>2

(* A request counts against the bound.                                     *)
LEMMA Counted ==
  ASSUME TypeOK, Request
  PROVE  requests' \in 0..MaxRequests
  BY BoundAssumption DEF TypeOK, Request

(* Every step keeps the types.                                             *)
LEMMA TypeStep ==
  ASSUME TypeOK, [Next]_vars
  PROVE  TypeOK'
<1>1. CASE Launch
  BY <1>1
  DEF TypeOK, disk, memory, bounds, Entries, NoEntries, Places, Launch
<1>2. CASE ClearRuntime
  BY <1>2 DEF TypeOK, disk, memory, bounds, Places, Flushes, ClearRuntime
<1>3. CASE LoadAll
  BY <1>3 DEF TypeOK, disk, memory, bounds, Places, LoadAll
<1>4. CASE AllAdopted
  BY <1>4 DEF TypeOK, disk, memory, bounds, Places, AllAdopted
<1>5. CASE Serve
  BY <1>5 DEF TypeOK, disk, memory, bounds, Places, Serve
<1>6. ASSUME NEW p \in Projects, ProbeEntry(p) PROVE TypeOK'
  BY <1>6 DEF TypeOK, disk, memory, bounds, Entries, ProbeEntry
<1>7. ASSUME NEW p \in Projects, AdoptProcess(p) PROVE TypeOK'
  <2>1. proc' \in [Projects -> Processes]
    BY <1>7 DEF TypeOK, Processes, Entries, AdoptProcess
  <2>2. /\ runtime' \in Entries /\ orphans' \in Entries
        /\ flush' \in Flushes
    BY <1>7 DEF TypeOK, Entries, Flushes, AdoptProcess
  <2>. QED
    BY <1>7, <2>1, <2>2 DEF TypeOK, disk, memory, bounds, AdoptProcess
<1>8. ASSUME NEW p \in Projects, AutoStart(p) PROVE TypeOK'
  <2>1. /\ owner' \in [Pids -> Owners] /\ hand' \in Hands
        /\ flush' \in Flushes /\ configs' \subseteq Projects
    BY <1>8, Begins DEF AutoStart
  <2>. QED
    BY <1>8, <2>1 DEF TypeOK, disk, memory, bounds, AutoStart
<1>9. CASE SaveOpen
  BY <1>9 DEF TypeOK, disk, memory, bounds, Flushes, SaveOpen
<1>10. CASE SaveWrite
  BY <1>10 DEF TypeOK, disk, memory, bounds, Flushes, SaveWrite
<1>11. CASE StartTrack
  BY <1>11
  DEF TypeOK, disk, memory, bounds, Entries, Processes, Flushes, Hands,
      NoHand, StartTrack
<1>12. ASSUME NEW p \in Projects, UserStart(p) PROVE TypeOK'
  <2>1. /\ owner' \in [Pids -> Owners] /\ hand' \in Hands
        /\ flush' \in Flushes /\ configs' \subseteq Projects
    BY <1>12, Begins DEF UserStart
  <2>. QED
    BY <1>12, <2>1, Counted DEF TypeOK, disk, memory, bounds, UserStart
<1>13. ASSUME NEW p \in Projects, UserStop(p) PROVE TypeOK'
  <2>1. owner' \in [Pids -> Owners]
    BY <1>13 DEF TypeOK, Owners, Freed, Signalled, UserStop
  <2>2. proc' \in [Projects -> Processes]
    BY <1>13 DEF TypeOK, Processes, UserStop
  <2>3. runtime' \in Entries /\ flush' \in Flushes /\ lost' \subseteq Pids
    BY <1>13 DEF TypeOK, Entries, Flushes, UserStop
  <2>. QED
    BY <1>13, <2>1, <2>2, <2>3, Counted
    DEF TypeOK, disk, memory, bounds, UserStop
<1>14. ASSUME NEW p \in Projects, UserAdd(p) PROVE TypeOK'
  BY <1>14, Counted DEF TypeOK, disk, memory, bounds, Flushes, UserAdd
<1>15. ASSUME NEW p \in Projects, UserRemove(p) PROVE TypeOK'
  <2>1. proc' \in [Projects -> Processes]
    BY <1>15 DEF TypeOK, Processes, Untracked, UserRemove
  <2>2. /\ registry' \subseteq Projects /\ configs' \subseteq Projects
        /\ flush' \in Flushes
    BY <1>15 DEF TypeOK, Flushes, UserRemove
  <2>. QED
    BY <1>15, <2>1, <2>2, Counted DEF TypeOK, disk, memory, bounds, UserRemove
<1>16. ASSUME NEW q \in Pids, Exit(q) PROVE TypeOK'
  BY <1>16 DEF TypeOK, disk, memory, bounds, Owners, Freed, Exit
<1>17. ASSUME NEW q \in Pids, Foreign(q) PROVE TypeOK'
  BY <1>17 DEF TypeOK, disk, memory, bounds, Owners, Foreign
<1>18. ASSUME NEW p \in Projects, EditToml(p) PROVE TypeOK'
  <2>1. toml' \in [Projects -> {"auto", "manual", "broken"}]
    BY <1>18, TomlAssumption DEF TypeOK, EditToml
  <2>2. edits' \in 0..MaxEdits
    BY <1>18, BoundAssumption DEF TypeOK, EditToml
  <2>. QED
    BY <1>18, <2>1, <2>2 DEF TypeOK, disk, memory, bounds, EditToml
<1>19. ASSUME NEW p \in Projects, Notice(p) PROVE TypeOK'
  <2>1. proc' \in [Projects -> Processes]
    BY <1>19 DEF TypeOK, Processes, Notice
  <2>2. owner' \in [Pids -> Owners]
    BY <1>19 DEF TypeOK, Owners, Freed, Notice
  <2>3. backoff' \subseteq Projects
    BY <1>19 DEF TypeOK, Notice
  <2>. QED
    BY <1>19, <2>1, <2>2, <2>3 DEF TypeOK, disk, memory, bounds, Notice
<1>20. ASSUME NEW p \in Projects, BackoffElapsed(p) PROVE TypeOK'
  <2>1. /\ owner' \in [Pids -> Owners] /\ hand' \in Hands
        /\ flush' \in Flushes /\ configs' \subseteq Projects
    BY <1>20, Begins DEF BackoffElapsed
  <2>. QED
    BY <1>20, <2>1 DEF TypeOK, disk, memory, bounds, BackoffElapsed
<1>21. CASE Die
  <2>1. /\ lost' \subseteq Pids
        /\ owner' \in [Pids -> Owners]
    BY <1>21 DEF TypeOK, Living, Recorded, Owners, Freed, Die
  <2>2. deaths' \in 0..MaxDeaths
    BY <1>21, BoundAssumption DEF TypeOK, Die
  <2>3. /\ runtime' \in Entries /\ orphans' \in Entries
        /\ proc' \in [Projects -> Processes] /\ hand' \in Hands
    BY <1>21 DEF Entries, NoEntries, Processes, Untracked, Hands, Die
  <2>. QED
    BY <1>21, <2>1, <2>2, <2>3
    DEF TypeOK, disk, memory, bounds, Places, Flushes, Die
<1>22. CASE UNCHANGED vars
  BY <1>22 DEF TypeOK, vars, disk, memory, bounds
<1>. QED
  BY <1>1, <1>2, <1>3, <1>4, <1>5, <1>6, <1>7, <1>8, <1>9, <1>10, <1>11,
     <1>12, <1>13, <1>14, <1>15, <1>16, <1>17, <1>18, <1>19, <1>20, <1>21,
     <1>22
  DEF Next, Booting, Saving, Requested, Environment

(* Every step keeps which variables are in use; only a step of the boot    *)
(* changes the place, and it waits for saves and spawns to end.            *)
LEMMA PhasesStep ==
  ASSUME TypeOK, Phases, Slots, [Next]_vars
  PROVE  Phases'
<1>1. CASE Launch
  BY <1>1 DEF disk, memory, bounds, Phases, Supervising, Launch
<1>2. CASE ClearRuntime
  BY <1>2 DEF disk, memory, bounds, Phases, Supervising, ClearRuntime
<1>3. CASE LoadAll
  BY <1>3 DEF disk, memory, bounds, Phases, Supervising, Quiet, LoadAll
<1>4. CASE AllAdopted
  BY <1>4 DEF disk, memory, bounds, Phases, Supervising, Quiet, AllAdopted
<1>5. CASE Serve
  BY <1>5 DEF disk, memory, bounds, Phases, Supervising, Quiet, Serve
<1>6. ASSUME NEW p \in Projects, ProbeEntry(p) PROVE Phases'
  BY <1>6 DEF disk, memory, bounds, Phases, Supervising, ProbeEntry
<1>7. ASSUME NEW p \in Projects, AdoptProcess(p) PROVE Phases'
  BY <1>7 DEF disk, memory, bounds, Phases, Supervising, Quiet, AdoptProcess
<1>8. ASSUME NEW p \in Projects, AutoStart(p) PROVE Phases'
  <2>1. \/ UNCHANGED <<owner, hand>> /\ flush' \in {flush, "runtime"}
        \/ \E q \in Pids : Spawns(p, q)
    BY <1>8, Begins DEF AutoStart
  <2>. QED
    BY <1>8, <2>1
    DEF disk, memory, bounds, Phases, Supervising, Spawns, Request, Quiet,
        AutoStart
<1>9. CASE SaveOpen
  BY <1>9 DEF disk, memory, bounds, Phases, Supervising, SaveOpen
<1>10. CASE SaveWrite
  BY <1>10 DEF disk, memory, bounds, Phases, Supervising, SaveWrite
<1>11. CASE StartTrack
  BY <1>11 DEF disk, memory, bounds, Phases, Supervising, Slots, StartTrack
<1>12. ASSUME NEW p \in Projects, UserStart(p) PROVE Phases'
  <2>1. \/ UNCHANGED <<owner, hand>> /\ flush' \in {flush, "runtime"}
        \/ \E q \in Pids : Spawns(p, q)
    BY <1>12, Begins DEF UserStart
  <2>. QED
    BY <1>12, <2>1
    DEF disk, memory, bounds, Phases, Supervising, Spawns, Request, Quiet,
        UserStart
<1>13. ASSUME NEW p \in Projects, UserStop(p) PROVE Phases'
  BY <1>13
  DEF disk, memory, bounds, Phases, Supervising, Request, Quiet, UserStop
<1>14. ASSUME NEW p \in Projects, UserAdd(p) PROVE Phases'
  BY <1>14
  DEF disk, memory, bounds, Phases, Supervising, Request, Quiet, UserAdd
<1>15. ASSUME NEW p \in Projects, UserRemove(p) PROVE Phases'
  BY <1>15
  DEF disk, memory, bounds, Phases, Supervising, Request, Quiet, UserRemove
<1>16. ASSUME NEW q \in Pids, Exit(q) PROVE Phases'
  BY <1>16 DEF disk, memory, bounds, Phases, Supervising, Exit
<1>17. ASSUME NEW q \in Pids, Foreign(q) PROVE Phases'
  BY <1>17 DEF disk, memory, bounds, Phases, Supervising, Foreign
<1>18. ASSUME NEW p \in Projects, EditToml(p) PROVE Phases'
  BY <1>18 DEF disk, memory, bounds, Phases, Supervising, EditToml
<1>19. ASSUME NEW p \in Projects, Notice(p) PROVE Phases'
  BY <1>19 DEF disk, memory, bounds, Phases, Supervising, Untracked, Notice
<1>20. ASSUME NEW p \in Projects, BackoffElapsed(p) PROVE Phases'
  <2>1. \/ UNCHANGED <<owner, hand>> /\ flush' \in {flush, "runtime"}
        \/ \E q \in Pids : Spawns(p, q)
    BY <1>20, Begins DEF BackoffElapsed
  <2>. QED
    BY <1>20, <2>1
    DEF disk, memory, bounds, Phases, Supervising, Spawns, Request, Quiet,
        BackoffElapsed
<1>21. CASE Die
  BY <1>21 DEF disk, memory, bounds, Phases, Supervising, Die
<1>22. CASE UNCHANGED vars
  BY <1>22
  DEF disk, memory, bounds, Phases, Supervising, vars, disk, memory, bounds
<1>. QED
  BY <1>1, <1>2, <1>3, <1>4, <1>5, <1>6, <1>7, <1>8, <1>9, <1>10, <1>11,
     <1>12, <1>13, <1>14, <1>15, <1>16, <1>17, <1>18, <1>19, <1>20, <1>21,
     <1>22
  DEF Next, Booting, Saving, Requested, Environment

(* Every step keeps a project's child in one place: Start looks at the     *)
(* status, and an orphan is neither running nor restarted.                 *)
LEMMA SlotsStep ==
  ASSUME TypeOK, Phases, Slots, [Next]_vars
  PROVE  Slots'
<1>1. CASE Launch
  BY <1>1
  DEF disk, memory, bounds, Slots, Running, TypeOK, Entries, Processes,
      Phases, Supervising, NoEntries, Launch
<1>2. CASE ClearRuntime
  BY <1>2
  DEF disk, memory, bounds, Slots, Running, TypeOK, Entries, Processes,
      NoEntries, Phases, Supervising, ClearRuntime
<1>3. CASE LoadAll
  BY <1>3
  DEF disk, memory, bounds, Slots, Running, TypeOK, Entries, Processes,
      Quiet, LoadAll
<1>4. CASE AllAdopted
  BY <1>4
  DEF disk, memory, bounds, Slots, Running, TypeOK, Entries, Processes,
      Quiet, NoEntries, AllAdopted
<1>5. CASE Serve
  BY <1>5
  DEF disk, memory, bounds, Slots, Running, TypeOK, Entries, Processes,
      Quiet, Serve
<1>6. ASSUME NEW p \in Projects, ProbeEntry(p) PROVE Slots'
  BY <1>6
  DEF disk, memory, bounds, Slots, Running, TypeOK, Entries, Processes,
      Phases, Supervising, Untracked, ProbeEntry
<1>7. ASSUME NEW p \in Projects, AdoptProcess(p) PROVE Slots'
  BY <1>7
  DEF disk, memory, bounds, Slots, Running, TypeOK, Entries, Processes,
      Quiet, AdoptProcess
<1>8. ASSUME NEW p \in Projects, AutoStart(p) PROVE Slots'
  <2>1. \/ UNCHANGED <<owner, hand>> /\ flush' \in {flush, "runtime"}
        \/ \E q \in Pids : Spawns(p, q)
    BY <1>8, Begins DEF AutoStart
  <2>. QED
    BY <1>8, <2>1, SentinelAssumption
    DEF disk, memory, bounds, Slots, Running, TypeOK, Entries, Processes,
        NoEntries, NoHand, Hands, Spawns, Request, Quiet, AutoStart
<1>9. CASE SaveOpen
  BY <1>9
  DEF disk, memory, bounds, Slots, Running, TypeOK, Entries, Processes,
      SaveOpen
<1>10. CASE SaveWrite
  BY <1>10
  DEF disk, memory, bounds, Slots, Running, TypeOK, Entries, Processes,
      SaveWrite
<1>11. CASE StartTrack
  BY <1>11
  DEF disk, memory, bounds, Slots, Running, TypeOK, Entries, Processes,
      StartTrack
<1>12. ASSUME NEW p \in Projects, UserStart(p) PROVE Slots'
  <2>1. \/ UNCHANGED <<owner, hand>> /\ flush' \in {flush, "runtime"}
        \/ \E q \in Pids : Spawns(p, q)
    BY <1>12, Begins DEF UserStart
  <2>. QED
    BY <1>12, <2>1, SentinelAssumption
    DEF disk, memory, bounds, Slots, Running, TypeOK, Entries, Processes,
        NoEntries, NoHand, Hands, Spawns, Request, Quiet, UserStart
<1>13. ASSUME NEW p \in Projects, UserStop(p) PROVE Slots'
  BY <1>13
  DEF disk, memory, bounds, Slots, Running, TypeOK, Entries, Processes,
      Request, Quiet, Untracked, UserStop
<1>14. ASSUME NEW p \in Projects, UserAdd(p) PROVE Slots'
  BY <1>14
  DEF disk, memory, bounds, Slots, Running, TypeOK, Entries, Processes,
      Request, Quiet, Untracked, UserAdd
<1>15. ASSUME NEW p \in Projects, UserRemove(p) PROVE Slots'
  BY <1>15
  DEF disk, memory, bounds, Slots, Running, TypeOK, Entries, Processes,
      Request, Quiet, Untracked, UserRemove
<1>16. ASSUME NEW q \in Pids, Exit(q) PROVE Slots'
  BY <1>16
  DEF disk, memory, bounds, Slots, Running, TypeOK, Entries, Processes, Exit
<1>17. ASSUME NEW q \in Pids, Foreign(q) PROVE Slots'
  BY <1>17
  DEF disk, memory, bounds, Slots, Running, TypeOK, Entries, Processes,
      Foreign
<1>18. ASSUME NEW p \in Projects, EditToml(p) PROVE Slots'
  BY <1>18
  DEF disk, memory, bounds, Slots, Running, TypeOK, Entries, Processes,
      EditToml
<1>19. ASSUME NEW p \in Projects, Notice(p) PROVE Slots'
  BY <1>19
  DEF disk, memory, bounds, Slots, Running, TypeOK, Entries, Processes,
      Notice
<1>20. ASSUME NEW p \in Projects, BackoffElapsed(p) PROVE Slots'
  <2>1. \/ UNCHANGED <<owner, hand>> /\ flush' \in {flush, "runtime"}
        \/ \E q \in Pids : Spawns(p, q)
    BY <1>20, Begins DEF BackoffElapsed
  <2>. QED
    BY <1>20, <2>1, SentinelAssumption
    DEF disk, memory, bounds, Slots, Running, TypeOK, Entries, Processes,
        NoEntries, NoHand, Hands, Spawns, Request, Quiet, BackoffElapsed
<1>21. CASE Die
  BY <1>21
  DEF disk, memory, bounds, Slots, Running, TypeOK, Entries, Processes,
      NoEntries, Die
<1>22. CASE UNCHANGED vars
  BY <1>22
  DEF disk, memory, bounds, Slots, Running, TypeOK, Entries, Processes,
      vars, disk, memory, bounds
<1>. QED
  BY <1>1, <1>2, <1>3, <1>4, <1>5, <1>6, <1>7, <1>8, <1>9, <1>10, <1>11,
     <1>12, <1>13, <1>14, <1>15, <1>16, <1>17, <1>18, <1>19, <1>20, <1>21,
     <1>22
  DEF Next, Booting, Saving, Requested, Environment

(* Every step that makes a process running enters its pid.                 *)
LEMMA EnteredStep ==
  ASSUME TypeOK, Phases, Slots, Entered, [Next]_vars
  PROVE  Entered'
<1>1. CASE Launch
  BY <1>1
  DEF disk, memory, bounds, Entered, Running, TypeOK, Entries, Processes,
      Phases, Supervising, Untracked, Launch
<1>2. CASE ClearRuntime
  BY <1>2
  DEF disk, memory, bounds, Entered, Running, TypeOK, Entries, Processes,
      ClearRuntime
<1>3. CASE LoadAll
  BY <1>3
  DEF disk, memory, bounds, Entered, Running, TypeOK, Entries, Processes,
      LoadAll
<1>4. CASE AllAdopted
  BY <1>4
  DEF disk, memory, bounds, Entered, Running, TypeOK, Entries, Processes,
      AllAdopted
<1>5. CASE Serve
  BY <1>5
  DEF disk, memory, bounds, Entered, Running, TypeOK, Entries, Processes,
      Serve
<1>6. ASSUME NEW p \in Projects, ProbeEntry(p) PROVE Entered'
  BY <1>6
  DEF disk, memory, bounds, Entered, Running, TypeOK, Entries, Processes,
      Phases, Supervising, Untracked, ProbeEntry
<1>7. ASSUME NEW p \in Projects, AdoptProcess(p) PROVE Entered'
  BY <1>7
  DEF disk, memory, bounds, Entered, Running, TypeOK, Entries, Processes,
      Slots, AdoptProcess
<1>8. ASSUME NEW p \in Projects, AutoStart(p) PROVE Entered'
  <2>1. \/ UNCHANGED <<owner, hand>> /\ flush' \in {flush, "runtime"}
        \/ \E q \in Pids : Spawns(p, q)
    BY <1>8, Begins DEF AutoStart
  <2>. QED
    BY <1>8, <2>1
    DEF disk, memory, bounds, Entered, Running, TypeOK, Entries, Processes,
        Spawns, Request, Quiet, AutoStart
<1>9. CASE SaveOpen
  BY <1>9
  DEF disk, memory, bounds, Entered, Running, TypeOK, Entries, Processes,
      SaveOpen
<1>10. CASE SaveWrite
  BY <1>10
  DEF disk, memory, bounds, Entered, Running, TypeOK, Entries, Processes,
      SaveWrite
<1>11. CASE StartTrack
  BY <1>11
  DEF disk, memory, bounds, Entered, Running, TypeOK, Entries, Processes,
      Hands, NoHand, StartTrack
<1>12. ASSUME NEW p \in Projects, UserStart(p) PROVE Entered'
  <2>1. \/ UNCHANGED <<owner, hand>> /\ flush' \in {flush, "runtime"}
        \/ \E q \in Pids : Spawns(p, q)
    BY <1>12, Begins DEF UserStart
  <2>. QED
    BY <1>12, <2>1
    DEF disk, memory, bounds, Entered, Running, TypeOK, Entries, Processes,
        Spawns, Request, Quiet, UserStart
<1>13. ASSUME NEW p \in Projects, UserStop(p) PROVE Entered'
  BY <1>13
  DEF disk, memory, bounds, Entered, Running, TypeOK, Entries, Processes,
      Request, Quiet, Untracked, UserStop
<1>14. ASSUME NEW p \in Projects, UserAdd(p) PROVE Entered'
  BY <1>14
  DEF disk, memory, bounds, Entered, Running, TypeOK, Entries, Processes,
      Request, Quiet, Untracked, UserAdd
<1>15. ASSUME NEW p \in Projects, UserRemove(p) PROVE Entered'
  BY <1>15
  DEF disk, memory, bounds, Entered, Running, TypeOK, Entries, Processes,
      Request, Quiet, Untracked, UserRemove
<1>16. ASSUME NEW q \in Pids, Exit(q) PROVE Entered'
  BY <1>16
  DEF disk, memory, bounds, Entered, Running, TypeOK, Entries, Processes,
      Exit
<1>17. ASSUME NEW q \in Pids, Foreign(q) PROVE Entered'
  BY <1>17
  DEF disk, memory, bounds, Entered, Running, TypeOK, Entries, Processes,
      Foreign
<1>18. ASSUME NEW p \in Projects, EditToml(p) PROVE Entered'
  BY <1>18
  DEF disk, memory, bounds, Entered, Running, TypeOK, Entries, Processes,
      EditToml
<1>19. ASSUME NEW p \in Projects, Notice(p) PROVE Entered'
  BY <1>19
  DEF disk, memory, bounds, Entered, Running, TypeOK, Entries, Processes,
      Notice
<1>20. ASSUME NEW p \in Projects, BackoffElapsed(p) PROVE Entered'
  <2>1. \/ UNCHANGED <<owner, hand>> /\ flush' \in {flush, "runtime"}
        \/ \E q \in Pids : Spawns(p, q)
    BY <1>20, Begins DEF BackoffElapsed
  <2>. QED
    BY <1>20, <2>1
    DEF disk, memory, bounds, Entered, Running, TypeOK, Entries, Processes,
        Spawns, Request, Quiet, BackoffElapsed
<1>21. CASE Die
  BY <1>21
  DEF disk, memory, bounds, Entered, Running, TypeOK, Entries, Processes,
      Untracked, Die
<1>22. CASE UNCHANGED vars
  BY <1>22
  DEF disk, memory, bounds, Entered, Running, TypeOK, Entries, Processes,
      vars, disk, memory, bounds
<1>. QED
  BY <1>1, <1>2, <1>3, <1>4, <1>5, <1>6, <1>7, <1>8, <1>9, <1>10, <1>11,
     <1>12, <1>13, <1>14, <1>15, <1>16, <1>17, <1>18, <1>19, <1>20, <1>21,
     <1>22
  DEF Next, Booting, Saving, Requested, Environment

(* Probing moves an entry from what was read to the orphans, and the file  *)
(* stays as it was read.                                                   *)
LEMMA ReadStep ==
  ASSUME TypeOK, Phases, Slots, Read, [Next]_vars
  PROVE  Read'
<1>1. CASE Launch
  BY <1>1
  DEF disk, memory, bounds, Read, Slots, NoEntries, TypeOK, Entries, Launch
<1>2. CASE ClearRuntime
  BY <1>2 DEF disk, memory, bounds, Read, ClearRuntime
<1>3. CASE LoadAll
  BY <1>3 DEF disk, memory, bounds, Read, LoadAll
<1>4. CASE AllAdopted
  BY <1>4 DEF disk, memory, bounds, Read, AllAdopted
<1>5. CASE Serve
  BY <1>5 DEF disk, memory, bounds, Read, Serve
<1>6. ASSUME NEW p \in Projects, ProbeEntry(p) PROVE Read'
  BY <1>6 DEF disk, memory, bounds, Read, TypeOK, Entries, ProbeEntry
<1>7. ASSUME NEW p \in Projects, AdoptProcess(p) PROVE Read'
  BY <1>7 DEF disk, memory, bounds, Read, AdoptProcess
<1>8. ASSUME NEW p \in Projects, AutoStart(p) PROVE Read'
  <2>1. \/ UNCHANGED <<owner, hand>> /\ flush' \in {flush, "runtime"}
        \/ \E q \in Pids : Spawns(p, q)
    BY <1>8, Begins DEF AutoStart
  <2>. QED
    BY <1>8, <2>1
    DEF disk, memory, bounds, Read, Phases, Supervising, Spawns, Request,
        Quiet, AutoStart
<1>9. CASE SaveOpen
  BY <1>9 DEF disk, memory, bounds, Read, Phases, SaveOpen
<1>10. CASE SaveWrite
  BY <1>10 DEF disk, memory, bounds, Read, Phases, SaveWrite
<1>11. CASE StartTrack
  BY <1>11 DEF disk, memory, bounds, Read, Phases, Supervising, StartTrack
<1>12. ASSUME NEW p \in Projects, UserStart(p) PROVE Read'
  <2>1. \/ UNCHANGED <<owner, hand>> /\ flush' \in {flush, "runtime"}
        \/ \E q \in Pids : Spawns(p, q)
    BY <1>12, Begins DEF UserStart
  <2>. QED
    BY <1>12, <2>1
    DEF disk, memory, bounds, Read, Phases, Supervising, Spawns, Request,
        Quiet, UserStart
<1>13. ASSUME NEW p \in Projects, UserStop(p) PROVE Read'
  BY <1>13 DEF disk, memory, bounds, Read, Request, UserStop
<1>14. ASSUME NEW p \in Projects, UserAdd(p) PROVE Read'
  BY <1>14 DEF disk, memory, bounds, Read, Request, UserAdd
<1>15. ASSUME NEW p \in Projects, UserRemove(p) PROVE Read'
  BY <1>15 DEF disk, memory, bounds, Read, Request, UserRemove
<1>16. ASSUME NEW q \in Pids, Exit(q) PROVE Read'
  BY <1>16 DEF disk, memory, bounds, Read, Exit
<1>17. ASSUME NEW q \in Pids, Foreign(q) PROVE Read'
  BY <1>17 DEF disk, memory, bounds, Read, Foreign
<1>18. ASSUME NEW p \in Projects, EditToml(p) PROVE Read'
  BY <1>18 DEF disk, memory, bounds, Read, EditToml
<1>19. ASSUME NEW p \in Projects, Notice(p) PROVE Read'
  BY <1>19 DEF disk, memory, bounds, Read, Phases, Supervising, Notice
<1>20. ASSUME NEW p \in Projects, BackoffElapsed(p) PROVE Read'
  <2>1. \/ UNCHANGED <<owner, hand>> /\ flush' \in {flush, "runtime"}
        \/ \E q \in Pids : Spawns(p, q)
    BY <1>20, Begins DEF BackoffElapsed
  <2>. QED
    BY <1>20, <2>1
    DEF disk, memory, bounds, Read, Phases, Supervising, Spawns, Request,
        Quiet, BackoffElapsed
<1>21. CASE Die
  BY <1>21 DEF disk, memory, bounds, Read, Die
<1>22. CASE UNCHANGED vars
  BY <1>22 DEF disk, memory, bounds, Read, vars, disk, memory, bounds
<1>. QED
  BY <1>1, <1>2, <1>3, <1>4, <1>5, <1>6, <1>7, <1>8, <1>9, <1>10, <1>11,
     <1>12, <1>13, <1>14, <1>15, <1>16, <1>17, <1>18, <1>19, <1>20, <1>21,
     <1>22
  DEF Next, Booting, Saving, Requested, Environment

(* Every step that changes what a file is saved from schedules a save of   *)
(* it.                                                                     *)
LEMMA WrittenStep ==
  ASSUME TypeOK, Phases, Slots, Written, [Next]_vars
  PROVE  Written'
<1>1. CASE Launch
  BY <1>1 DEF disk, memory, bounds, Written, Phases, Launch
<1>2. CASE ClearRuntime
  BY <1>2 DEF disk, memory, bounds, Written, Phases, ClearRuntime
<1>3. CASE LoadAll
  BY <1>3 DEF disk, memory, bounds, Written, Quiet, LoadAll
<1>4. CASE AllAdopted
  BY <1>4 DEF disk, memory, bounds, Written, Quiet, AllAdopted
<1>5. CASE Serve
  BY <1>5 DEF disk, memory, bounds, Written, Quiet, Serve
<1>6. ASSUME NEW p \in Projects, ProbeEntry(p) PROVE Written'
  BY <1>6 DEF disk, memory, bounds, Written, ProbeEntry
<1>7. ASSUME NEW p \in Projects, AdoptProcess(p) PROVE Written'
  BY <1>7 DEF disk, memory, bounds, Written, Quiet, AdoptProcess
<1>8. ASSUME NEW p \in Projects, AutoStart(p) PROVE Written'
  <2>1. \/ UNCHANGED <<owner, hand>> /\ flush' \in {flush, "runtime"}
        \/ \E q \in Pids : Spawns(p, q)
    BY <1>8, Begins DEF AutoStart
  <2>. QED
    BY <1>8, <2>1
    DEF disk, memory, bounds, Written, Spawns, Request, Quiet, AutoStart
<1>9. CASE SaveOpen
  BY <1>9 DEF disk, memory, bounds, Written, SaveOpen
<1>10. CASE SaveWrite
  BY <1>10 DEF disk, memory, bounds, Written, SaveWrite
<1>11. CASE StartTrack
  BY <1>11 DEF disk, memory, bounds, Written, Slots, StartTrack
<1>12. ASSUME NEW p \in Projects, UserStart(p) PROVE Written'
  <2>1. \/ UNCHANGED <<owner, hand>> /\ flush' \in {flush, "runtime"}
        \/ \E q \in Pids : Spawns(p, q)
    BY <1>12, Begins DEF UserStart
  <2>. QED
    BY <1>12, <2>1
    DEF disk, memory, bounds, Written, Spawns, Request, Quiet, UserStart
<1>13. ASSUME NEW p \in Projects, UserStop(p) PROVE Written'
  BY <1>13 DEF disk, memory, bounds, Written, Request, Quiet, UserStop
<1>14. ASSUME NEW p \in Projects, UserAdd(p) PROVE Written'
  BY <1>14 DEF disk, memory, bounds, Written, Request, Quiet, UserAdd
<1>15. ASSUME NEW p \in Projects, UserRemove(p) PROVE Written'
  BY <1>15 DEF disk, memory, bounds, Written, Request, Quiet, UserRemove
<1>16. ASSUME NEW q \in Pids, Exit(q) PROVE Written'
  BY <1>16 DEF disk, memory, bounds, Written, Exit
<1>17. ASSUME NEW q \in Pids, Foreign(q) PROVE Written'
  BY <1>17 DEF disk, memory, bounds, Written, Foreign
<1>18. ASSUME NEW p \in Projects, EditToml(p) PROVE Written'
  BY <1>18 DEF disk, memory, bounds, Written, EditToml
<1>19. ASSUME NEW p \in Projects, Notice(p) PROVE Written'
  BY <1>19 DEF disk, memory, bounds, Written, Notice
<1>20. ASSUME NEW p \in Projects, BackoffElapsed(p) PROVE Written'
  <2>1. \/ UNCHANGED <<owner, hand>> /\ flush' \in {flush, "runtime"}
        \/ \E q \in Pids : Spawns(p, q)
    BY <1>20, Begins DEF BackoffElapsed
  <2>. QED
    BY <1>20, <2>1
    DEF disk, memory, bounds, Written, Spawns, Request, Quiet,
        BackoffElapsed
<1>21. CASE Die
  BY <1>21 DEF disk, memory, bounds, Written, Die
<1>22. CASE UNCHANGED vars
  BY <1>22 DEF disk, memory, bounds, Written, vars, disk, memory, bounds
<1>. QED
  BY <1>1, <1>2, <1>3, <1>4, <1>5, <1>6, <1>7, <1>8, <1>9, <1>10, <1>11,
     <1>12, <1>13, <1>14, <1>15, <1>16, <1>17, <1>18, <1>19, <1>20, <1>21,
     <1>22
  DEF Next, Booting, Saving, Requested, Environment

(* A freed pid that is given out belongs to no started child.              *)
LEMMA SpawnIdentity ==
  ASSUME TypeOK, Entered, Identity, Quiet, UNCHANGED proc,
         NEW p \in Projects,
         UNCHANGED <<owner, hand>> \/ \E q \in Pids : Spawns(p, q)
  PROVE  Identity'
<1>1. CASE UNCHANGED <<owner, hand>>
  BY <1>1 DEF Identity, Started, Running
<1>2. ASSUME NEW q \in Pids, Spawns(p, q)
      PROVE  Identity'
  <2>1. /\ owner' = [owner EXCEPT ![q] = p] /\ owner[q] = "free"
        /\ hand' = [project |-> p, pid |-> q]
    BY <1>2 DEF Spawns
  <2>2. \A r \in Projects : Started(r) =>
          proc[r].pid \in Pids /\ proc[r].pid # q
    BY <2>1, OwnerAssumption DEF Identity, Entered, Started, Running
  <2>3. owner'[q] = p
    BY <2>1 DEF TypeOK
  <2>4. \A r \in Pids \ {q} : owner'[r] = owner[r]
    BY <2>1 DEF TypeOK
  <2>. QED
    BY <2>1, <2>2, <2>3, <2>4 DEF Identity, Started, Running
<1>. QED
  BY <1>1, <1>2

(* Every step keeps the pids of started children theirs and apart.         *)
LEMMA IdentityStep ==
  ASSUME TypeOK, Phases, Slots, Entered, Identity, [Next]_vars
  PROVE  Identity'
<1>1. CASE Launch
  BY <1>1, SentinelAssumption, OwnerAssumption
  DEF disk, memory, Identity, Started, Running, Launch
<1>2. CASE ClearRuntime
  BY <1>2, SentinelAssumption, OwnerAssumption
  DEF disk, memory, Identity, Started, Running, ClearRuntime
<1>3. CASE LoadAll
  BY <1>3, SentinelAssumption, OwnerAssumption
  DEF disk, memory, Identity, Started, Running, LoadAll
<1>4. CASE AllAdopted
  BY <1>4, SentinelAssumption, OwnerAssumption
  DEF disk, memory, Identity, Started, Running, AllAdopted
<1>5. CASE Serve
  BY <1>5, SentinelAssumption, OwnerAssumption
  DEF disk, memory, Identity, Started, Running, Serve
<1>6. ASSUME NEW p \in Projects, ProbeEntry(p) PROVE Identity'
  BY <1>6, SentinelAssumption, OwnerAssumption
  DEF disk, memory, Identity, Started, Running, ProbeEntry
<1>7. ASSUME NEW p \in Projects, AdoptProcess(p) PROVE Identity'
  BY <1>7, SentinelAssumption, OwnerAssumption
  DEF disk, memory, bounds, Identity, Started, Running, TypeOK, Owners,
      Processes, NoHand, Slots, AdoptProcess
<1>8. ASSUME NEW p \in Projects, AutoStart(p) PROVE Identity'
  <2>1. UNCHANGED <<owner, hand>> \/ \E q \in Pids : Spawns(p, q)
    BY <1>8, Begins DEF AutoStart
  <2>2. Quiet /\ UNCHANGED proc
    BY <1>8 DEF AutoStart, Request
  <2>. QED
    BY <2>1, <2>2, SpawnIdentity
<1>9. CASE SaveOpen
  BY <1>9, SentinelAssumption, OwnerAssumption
  DEF disk, memory, Identity, Started, Running, SaveOpen
<1>10. CASE SaveWrite
  BY <1>10, SentinelAssumption, OwnerAssumption
  DEF disk, memory, Identity, Started, Running, SaveWrite
<1>11. CASE StartTrack
  <2>. DEFINE h == hand.project
  <2>1. h \in Projects /\ hand.pid \in Pids
    BY <1>11 DEF StartTrack, TypeOK, Hands
  <2>2. proc'[h].pid = hand.pid
    BY <1>11, <2>1 DEF StartTrack, TypeOK
  <2>3. \A r \in Projects \ {h} : proc'[r] = proc[r]
    BY <1>11, <2>1 DEF StartTrack, TypeOK
  <2>4. owner' = owner /\ hand' = NoHand /\ NoHand.pid \notin Pids
    BY <1>11, SentinelAssumption DEF StartTrack, NoHand
  <2>5. owner[hand.pid] \in {h, "zombie"}
    BY <1>11 DEF StartTrack, Identity
  <2>6. \A r \in Projects \ {h} : Started(r)' =>
          /\ proc[r].pid \in Pids /\ proc[r].pid # hand.pid
          /\ owner[proc[r].pid] \in {r, "zombie"}
    BY <2>3 DEF Identity, Entered, Started, Running
  <2>7. \A r, t \in Projects \ {h} :
          Started(r)' /\ Started(t)' /\ r # t => proc[r].pid # proc[t].pid
    BY <2>3 DEF Identity, Started, Running
  <2>. QED
    BY <2>1, <2>2, <2>3, <2>4, <2>5, <2>6, <2>7 DEF Identity
<1>12. ASSUME NEW p \in Projects, UserStart(p) PROVE Identity'
  <2>1. UNCHANGED <<owner, hand>> \/ \E q \in Pids : Spawns(p, q)
    BY <1>12, Begins DEF UserStart
  <2>2. Quiet /\ UNCHANGED proc
    BY <1>12 DEF UserStart, Request
  <2>. QED
    BY <2>1, <2>2, SpawnIdentity
<1>13. ASSUME NEW p \in Projects, UserStop(p) PROVE Identity'
  BY <1>13, SentinelAssumption, OwnerAssumption
  DEF disk, memory, bounds, Identity, Started, Running, TypeOK, Owners,
      Processes, NoHand, Request, Quiet, Signalled, Own, Alive, Freed,
      Entered, UserStop
<1>14. ASSUME NEW p \in Projects, UserAdd(p) PROVE Identity'
  BY <1>14, SentinelAssumption, OwnerAssumption
  DEF disk, memory, Identity, Started, Running, UserAdd
<1>15. ASSUME NEW p \in Projects, UserRemove(p) PROVE Identity'
  BY <1>15, SentinelAssumption, OwnerAssumption
  DEF disk, memory, bounds, Identity, Started, Running, TypeOK, Owners,
      Processes, NoHand, Request, Quiet, Untracked, UserRemove
<1>16. ASSUME NEW q \in Pids, Exit(q) PROVE Identity'
  BY <1>16, SentinelAssumption, OwnerAssumption
  DEF disk, memory, bounds, Identity, Started, Running, TypeOK, Owners,
      Processes, NoHand, Own, Freed, Hands, Exit
<1>17. ASSUME NEW q \in Pids, Foreign(q) PROVE Identity'
  <2>1. \A r \in Projects : Started(r) =>
          proc[r].pid \in Pids /\ proc[r].pid # q
    BY <1>17, OwnerAssumption DEF Foreign, Identity, Entered, Started, Running
  <2>2. hand # NoHand => hand.pid \in Pids /\ hand.pid # q
    BY <1>17, OwnerAssumption DEF Foreign, Identity, TypeOK, Hands
  <2>3. \A r \in Pids \ {q} : owner'[r] = owner[r]
    BY <1>17 DEF Foreign, TypeOK
  <2>. QED
    BY <1>17, <2>1, <2>2, <2>3
    DEF Foreign, memory, Identity, Started, Running
<1>18. ASSUME NEW p \in Projects, EditToml(p) PROVE Identity'
  BY <1>18, SentinelAssumption, OwnerAssumption
  DEF disk, memory, Identity, Started, Running, EditToml
<1>19. ASSUME NEW p \in Projects, Notice(p) PROVE Identity'
  BY <1>19, SentinelAssumption, OwnerAssumption
  DEF disk, memory, bounds, Identity, Started, Running, TypeOK, Owners,
      Processes, NoHand, Freed, Entered, Hands, Notice
<1>20. ASSUME NEW p \in Projects, BackoffElapsed(p) PROVE Identity'
  <2>1. UNCHANGED <<owner, hand>> \/ \E q \in Pids : Spawns(p, q)
    BY <1>20, Begins DEF BackoffElapsed
  <2>2. Quiet /\ UNCHANGED proc
    BY <1>20 DEF BackoffElapsed, Request
  <2>. QED
    BY <2>1, <2>2, SpawnIdentity
<1>21. CASE Die
  BY <1>21, SentinelAssumption, OwnerAssumption
  DEF disk, memory, bounds, Identity, Started, Running, TypeOK, Owners,
      Processes, NoHand, Untracked, Die
<1>22. CASE UNCHANGED vars
  BY <1>22
  DEF disk, memory, bounds, Identity, Started, Running, TypeOK, Owners,
      Processes, NoHand, vars, disk, memory, bounds
<1>. QED
  BY <1>1, <1>2, <1>3, <1>4, <1>5, <1>6, <1>7, <1>8, <1>9, <1>10, <1>11,
     <1>12, <1>13, <1>14, <1>15, <1>16, <1>17, <1>18, <1>19, <1>20, <1>21,
     <1>22
  DEF Next, Booting, Saving, Requested, Environment

(* A lost child that ends is no longer lost.                               *)
LEMMA LostStep ==
  ASSUME TypeOK, LostLive, [Next]_vars
  PROVE  LostLive'
<1>1. CASE Launch
  BY <1>1, OwnerAssumption
  DEF disk, memory, bounds, LostLive, Living, TypeOK, Owners, Launch
<1>2. CASE ClearRuntime
  BY <1>2, OwnerAssumption
  DEF disk, memory, bounds, LostLive, Living, TypeOK, Owners, ClearRuntime
<1>3. CASE LoadAll
  BY <1>3, OwnerAssumption
  DEF disk, memory, bounds, LostLive, Living, TypeOK, Owners, LoadAll
<1>4. CASE AllAdopted
  BY <1>4, OwnerAssumption
  DEF disk, memory, bounds, LostLive, Living, TypeOK, Owners, AllAdopted
<1>5. CASE Serve
  BY <1>5, OwnerAssumption
  DEF disk, memory, bounds, LostLive, Living, TypeOK, Owners, Serve
<1>6. ASSUME NEW p \in Projects, ProbeEntry(p) PROVE LostLive'
  BY <1>6, OwnerAssumption
  DEF disk, memory, bounds, LostLive, Living, TypeOK, Owners, ProbeEntry
<1>7. ASSUME NEW p \in Projects, AdoptProcess(p) PROVE LostLive'
  BY <1>7, OwnerAssumption
  DEF disk, memory, bounds, LostLive, Living, TypeOK, Owners, AdoptProcess
<1>8. ASSUME NEW p \in Projects, AutoStart(p) PROVE LostLive'
  <2>1. \/ UNCHANGED <<owner, hand>> /\ flush' \in {flush, "runtime"}
        \/ \E q \in Pids : Spawns(p, q)
    BY <1>8, Begins DEF AutoStart
  <2>. QED
    BY <1>8, <2>1
    DEF disk, memory, bounds, LostLive, Living, TypeOK, Owners, Spawns,
        Request, Quiet, AutoStart
<1>9. CASE SaveOpen
  BY <1>9, OwnerAssumption
  DEF disk, memory, bounds, LostLive, Living, TypeOK, Owners, SaveOpen
<1>10. CASE SaveWrite
  BY <1>10, OwnerAssumption
  DEF disk, memory, bounds, LostLive, Living, TypeOK, Owners, SaveWrite
<1>11. CASE StartTrack
  BY <1>11, OwnerAssumption
  DEF disk, memory, bounds, LostLive, Living, TypeOK, Owners, StartTrack
<1>12. ASSUME NEW p \in Projects, UserStart(p) PROVE LostLive'
  <2>1. \/ UNCHANGED <<owner, hand>> /\ flush' \in {flush, "runtime"}
        \/ \E q \in Pids : Spawns(p, q)
    BY <1>12, Begins DEF UserStart
  <2>. QED
    BY <1>12, <2>1
    DEF disk, memory, bounds, LostLive, Living, TypeOK, Owners, Spawns,
        Request, Quiet, UserStart
<1>13. ASSUME NEW p \in Projects, UserStop(p) PROVE LostLive'
  BY <1>13, OwnerAssumption
  DEF disk, memory, bounds, LostLive, Living, TypeOK, Owners, Request,
      Signalled, Freed, Alive, Processes, UserStop
<1>14. ASSUME NEW p \in Projects, UserAdd(p) PROVE LostLive'
  BY <1>14, OwnerAssumption
  DEF disk, memory, bounds, LostLive, Living, TypeOK, Owners, Request,
      UserAdd
<1>15. ASSUME NEW p \in Projects, UserRemove(p) PROVE LostLive'
  BY <1>15, OwnerAssumption
  DEF disk, memory, bounds, LostLive, Living, TypeOK, Owners, Request,
      UserRemove
<1>16. ASSUME NEW q \in Pids, Exit(q) PROVE LostLive'
  BY <1>16, OwnerAssumption
  DEF disk, memory, bounds, LostLive, Living, TypeOK, Owners, Freed, Exit
<1>17. ASSUME NEW q \in Pids, Foreign(q) PROVE LostLive'
  BY <1>17, OwnerAssumption
  DEF disk, memory, bounds, LostLive, Living, TypeOK, Owners, Foreign
<1>18. ASSUME NEW p \in Projects, EditToml(p) PROVE LostLive'
  BY <1>18, OwnerAssumption
  DEF disk, memory, bounds, LostLive, Living, TypeOK, Owners, EditToml
<1>19. ASSUME NEW p \in Projects, Notice(p) PROVE LostLive'
  BY <1>19, OwnerAssumption
  DEF disk, memory, bounds, LostLive, Living, TypeOK, Owners, Freed, Alive,
      Notice
<1>20. ASSUME NEW p \in Projects, BackoffElapsed(p) PROVE LostLive'
  <2>1. \/ UNCHANGED <<owner, hand>> /\ flush' \in {flush, "runtime"}
        \/ \E q \in Pids : Spawns(p, q)
    BY <1>20, Begins DEF BackoffElapsed
  <2>. QED
    BY <1>20, <2>1
    DEF disk, memory, bounds, LostLive, Living, TypeOK, Owners, Spawns,
        Request, Quiet, BackoffElapsed
<1>21. CASE Die
  BY <1>21, OwnerAssumption
  DEF disk, memory, bounds, LostLive, Living, TypeOK, Owners, Freed,
      Recorded, Die
<1>22. CASE UNCHANGED vars
  BY <1>22
  DEF disk, memory, bounds, LostLive, Living, TypeOK, Owners, vars, disk,
      memory, bounds
<1>. QED
  BY <1>1, <1>2, <1>3, <1>4, <1>5, <1>6, <1>7, <1>8, <1>9, <1>10, <1>11,
     <1>12, <1>13, <1>14, <1>15, <1>16, <1>17, <1>18, <1>19, <1>20, <1>21,
     <1>22
  DEF Next, Booting, Saving, Requested, Environment

(* A spawned child is in the hand of Start, and nothing else moved.        *)
LEMMA SpawnKnown ==
  ASSUME TypeOK, NoChildForgotten, Quiet, UNCHANGED <<pc, proc, lost>>,
         UNCHANGED <<file, runtime, orphans>>, NEW p \in Projects,
         UNCHANGED <<owner, hand>> \/ \E q \in Pids : Spawns(p, q)
  PROVE  NoChildForgotten'
<1>1. CASE UNCHANGED <<owner, hand>>
  BY <1>1 DEF NoChildForgotten, Known, Living, Tracked
<1>2. ASSUME NEW q \in Pids, Spawns(p, q)
      PROVE  NoChildForgotten'
  <2>1. /\ owner'[q] = p /\ hand' = [project |-> p, pid |-> q]
        /\ \A r \in Pids \ {q} : owner'[r] = owner[r]
    BY <1>2 DEF Spawns, TypeOK
  <2>2. Known(q)'
    BY <2>1 DEF Known
  <2>3. ASSUME NEW r \in Pids \ {q}, r \in Living' \ lost'
        PROVE  Known(r)'
    <3>1. r \in Living \ lost
      BY <2>1, <2>3 DEF Living
    <3>2. Known(r) /\ hand.pid # r
      BY <3>1, SentinelAssumption DEF NoChildForgotten, Quiet, NoHand
    <3>. QED
      BY <3>2, <2>1 DEF Known, Tracked
  <2>. QED
    BY <2>2, <2>3 DEF NoChildForgotten, Living
<1>. QED
  BY <1>1, <1>2

(* Every step hands a child from one place of Known to the next.           *)
LEMMA KnownStep ==
  ASSUME TypeOK, Phases, Slots, NoChildForgotten, [Next]_vars
  PROVE  NoChildForgotten'
<1>1. CASE Launch
  BY <1>1, SentinelAssumption, OwnerAssumption, TornFacts
  DEF disk, memory, bounds, NoChildForgotten, Known, Living, Tracked,
      TypeOK, Owners, Processes, Phases, NoEntries, Supervising, Untracked,
      NoHand, Launch
<1>2. CASE ClearRuntime
  BY <1>2, SentinelAssumption, OwnerAssumption, TornFacts
  DEF disk, memory, bounds, NoChildForgotten, Known, Living, Tracked,
      TypeOK, Owners, Processes, NoEntries, ClearRuntime
<1>3. CASE LoadAll
  BY <1>3, SentinelAssumption, OwnerAssumption, TornFacts
  DEF disk, memory, bounds, NoChildForgotten, Known, Living, Tracked,
      TypeOK, Owners, Processes, LoadAll
<1>4. CASE AllAdopted
  BY <1>4, SentinelAssumption, OwnerAssumption, TornFacts
  DEF disk, memory, bounds, NoChildForgotten, Known, Living, Tracked,
      TypeOK, Owners, Processes, NoEntries, AllAdopted
<1>5. CASE Serve
  BY <1>5, SentinelAssumption, OwnerAssumption, TornFacts
  DEF disk, memory, bounds, NoChildForgotten, Known, Living, Tracked,
      TypeOK, Owners, Processes, Serve
<1>6. ASSUME NEW p \in Projects, ProbeEntry(p) PROVE NoChildForgotten'
  <2>1. ASSUME NEW q \in Living \ lost
        PROVE  Known(q)'
    <3>1. Known(q) /\ owner[q] \in Projects /\ q # NoPid /\ Alive(q)
      BY SentinelAssumption, OwnerAssumption
      DEF NoChildForgotten, Living, Alive
    <3>2. CASE owner[q] = p /\ runtime[p] = q
      BY <1>6, <3>1, <3>2 DEF ProbeEntry, Known, TypeOK, Entries
    <3>3. CASE owner[q] = p /\ runtime[p] # q
      BY <1>6, <3>1, <3>3 DEF ProbeEntry, Known, Slots, Tracked
    <3>4. CASE owner[q] # p
      BY <1>6, <3>1, <3>4
      DEF ProbeEntry, Known, Tracked, TypeOK, Entries
    <3>. QED
      BY <3>2, <3>3, <3>4
  <2>. QED
    BY <1>6, <2>1 DEF ProbeEntry, NoChildForgotten, Living
<1>7. ASSUME NEW p \in Projects, AdoptProcess(p) PROVE NoChildForgotten'
  BY <1>7, SentinelAssumption, OwnerAssumption, TornFacts
  DEF disk, memory, bounds, NoChildForgotten, Known, Living, Tracked,
      TypeOK, Owners, Processes, Entries, Slots, Running, AdoptProcess
<1>8. ASSUME NEW p \in Projects, AutoStart(p) PROVE NoChildForgotten'
  <2>1. UNCHANGED <<owner, hand>> \/ \E q \in Pids : Spawns(p, q)
    BY <1>8, Begins DEF AutoStart
  <2>2. /\ Quiet /\ UNCHANGED <<pc, proc, lost>>
        /\ UNCHANGED <<file, runtime, orphans>>
    BY <1>8 DEF AutoStart, Request, disk
  <2>. QED
    BY <2>1, <2>2, SpawnKnown
<1>9. CASE SaveOpen
  BY <1>9, SentinelAssumption, OwnerAssumption, TornFacts
  DEF disk, memory, bounds, NoChildForgotten, Known, Living, Tracked,
      TypeOK, Owners, Processes, Phases, SaveOpen
<1>10. CASE SaveWrite
  BY <1>10, SentinelAssumption, OwnerAssumption, TornFacts
  DEF disk, memory, bounds, NoChildForgotten, Known, Living, Tracked,
      TypeOK, Owners, Processes, Phases, SaveWrite
<1>11. CASE StartTrack
  <2>. DEFINE h == hand.project
  <2>1. h \in Projects /\ hand.pid \in Pids /\ ~Running(h)
    BY <1>11 DEF StartTrack, TypeOK, Hands, Slots
  <2>2. proc'[h].status = "running" /\ proc'[h].pid = hand.pid
    BY <1>11, <2>1 DEF StartTrack, TypeOK
  <2>3. \A r \in Projects \ {h} :
          proc'[r] = proc[r] /\ runtime'[r] = runtime[r]
    BY <1>11, <2>1 DEF StartTrack, TypeOK, Entries
  <2>4. ASSUME NEW q \in Living \ lost
        PROVE  Known(q)'
    <3>1. Known(q) /\ owner[q] \in Projects /\ pc \in Supervising
      BY <1>11 DEF NoChildForgotten, StartTrack, Phases, Living
    <3>2. \/ Tracked(owner[q], q) \/ orphans[owner[q]] = q
          \/ hand = [project |-> owner[q], pid |-> q]
      BY <3>1 DEF Known, Supervising
    <3>. QED
      BY <1>11, <2>1, <2>2, <2>3, <3>1, <3>2
      DEF StartTrack, Known, Tracked, Running
  <2>. QED
    BY <1>11, <2>4 DEF StartTrack, NoChildForgotten, Living
<1>12. ASSUME NEW p \in Projects, UserStart(p) PROVE NoChildForgotten'
  <2>1. UNCHANGED <<owner, hand>> \/ \E q \in Pids : Spawns(p, q)
    BY <1>12, Begins DEF UserStart
  <2>2. /\ Quiet /\ UNCHANGED <<pc, proc, lost>>
        /\ UNCHANGED <<file, runtime, orphans>>
    BY <1>12 DEF UserStart, Request, disk
  <2>. QED
    BY <2>1, <2>2, SpawnKnown
<1>13. ASSUME NEW p \in Projects, UserStop(p) PROVE NoChildForgotten'
  BY <1>13, SentinelAssumption, OwnerAssumption, TornFacts
  DEF disk, memory, bounds, NoChildForgotten, Known, Living, Tracked,
      TypeOK, Owners, Processes, Request, Quiet, Signalled, Freed, Alive,
      UserStop
<1>14. ASSUME NEW p \in Projects, UserAdd(p) PROVE NoChildForgotten'
  BY <1>14, SentinelAssumption, OwnerAssumption, TornFacts
  DEF disk, memory, bounds, NoChildForgotten, Known, Living, Tracked,
      TypeOK, Owners, Processes, Request, Quiet, Untracked, Running, UserAdd
<1>15. ASSUME NEW p \in Projects, UserRemove(p) PROVE NoChildForgotten'
  BY <1>15, SentinelAssumption, OwnerAssumption, TornFacts
  DEF disk, memory, bounds, NoChildForgotten, Known, Living, Tracked,
      TypeOK, Owners, Processes, Request, Quiet, Untracked, UserRemove
<1>16. ASSUME NEW q \in Pids, Exit(q) PROVE NoChildForgotten'
  BY <1>16, SentinelAssumption, OwnerAssumption, TornFacts
  DEF disk, memory, bounds, NoChildForgotten, Known, Living, Tracked,
      TypeOK, Owners, Processes, Freed, Exit
<1>17. ASSUME NEW q \in Pids, Foreign(q) PROVE NoChildForgotten'
  BY <1>17, SentinelAssumption, OwnerAssumption, TornFacts
  DEF disk, memory, bounds, NoChildForgotten, Known, Living, Tracked,
      TypeOK, Owners, Processes, Foreign
<1>18. ASSUME NEW p \in Projects, EditToml(p) PROVE NoChildForgotten'
  BY <1>18, SentinelAssumption, OwnerAssumption, TornFacts
  DEF disk, memory, bounds, NoChildForgotten, Known, Living, Tracked,
      TypeOK, Owners, Processes, EditToml
<1>19. ASSUME NEW p \in Projects, Notice(p) PROVE NoChildForgotten'
  BY <1>19, SentinelAssumption, OwnerAssumption, TornFacts
  DEF disk, memory, bounds, NoChildForgotten, Known, Living, Tracked,
      TypeOK, Owners, Processes, Freed, Alive, Notice
<1>20. ASSUME NEW p \in Projects, BackoffElapsed(p) PROVE NoChildForgotten'
  <2>1. UNCHANGED <<owner, hand>> \/ \E q \in Pids : Spawns(p, q)
    BY <1>20, Begins DEF BackoffElapsed
  <2>2. /\ Quiet /\ UNCHANGED <<pc, proc, lost>>
        /\ UNCHANGED <<file, runtime, orphans>>
    BY <1>20 DEF BackoffElapsed, Request, disk
  <2>. QED
    BY <2>1, <2>2, SpawnKnown
<1>21. CASE Die
  BY <1>21, SentinelAssumption, OwnerAssumption, TornFacts
  DEF disk, memory, bounds, NoChildForgotten, Known, Living, Tracked,
      TypeOK, Owners, Processes, Freed, Recorded, Entries, Die
<1>22. CASE UNCHANGED vars
  BY <1>22
  DEF disk, memory, bounds, NoChildForgotten, Known, Living, Tracked,
      TypeOK, Owners, Processes, vars, disk, memory, bounds
<1>. QED
  BY <1>1, <1>2, <1>3, <1>4, <1>5, <1>6, <1>7, <1>8, <1>9, <1>10, <1>11,
     <1>12, <1>13, <1>14, <1>15, <1>16, <1>17, <1>18, <1>19, <1>20, <1>21,
     <1>22
  DEF Next, Booting, Saving, Requested, Environment

-----------------------------------------------------------------------------
(* The first daemon finds no child, and its files are empty.               *)
LEMMA Initially ==
  ASSUME Init
  PROVE  Core
<1>1. TypeOK
  <2>1. toml \in [Projects -> {"auto", "manual", "broken"}]
    BY TomlAssumption DEF Init
  <2>2. /\ file \in {Torn} \cup Entries /\ runtime \in Entries
        /\ orphans \in Entries
    BY DEF Init, Entries, NoEntries
  <2>3. proc \in [Projects -> Processes] /\ hand \in Hands
    BY DEF Init, Processes, Untracked, Hands
  <2>4. /\ owner \in [Pids -> Owners] /\ pc \in Places /\ flush \in Flushes
        /\ deaths \in 0..MaxDeaths /\ requests \in 0..MaxRequests
        /\ edits \in 0..MaxEdits
    BY BoundAssumption DEF Init, Owners, Places, Flushes
  <2>. QED
    BY <2>1, <2>2, <2>3, <2>4 DEF TypeOK, Init
<1>2. Phases /\ Read /\ Written
  BY DEF Init, Phases, Read, Written, Supervising
<1>3. Slots /\ Entered /\ Identity
  BY DEF Init, Slots, Entered, Identity, Started, Running, Untracked,
         NoHand, NoEntries
<1>4. LostLive /\ NoChildForgotten
  BY OwnerAssumption DEF Init, LostLive, NoChildForgotten, Living
<1>. QED
  BY <1>1, <1>2, <1>3, <1>4 DEF Core

(* All parts together.                                                     *)
LEMMA CoreStep ==
  ASSUME Core, [Next]_vars
  PROVE  Core'
  BY TypeStep, PhasesStep, SlotsStep, EnteredStep, ReadStep, WrittenStep,
     IdentityStep, LostStep, KnownStep
  DEF Core

(* The inductive invariant holds in every behaviour.                       *)
THEOREM CoreInvariant == Spec => []Core
<1>1. Init => Core
  BY Initially
<1>2. Core /\ [Next]_vars => Core'
  BY CoreStep
<1>. QED
  BY <1>1, <1>2, PTL DEF Spec

(* Type correctness of the daemon's life. *)
THEOREM TypeCorrect == Spec => []TypeOK
<1>1. Core => TypeOK
  BY DEF Core
<1>. QED
  BY <1>1, CoreInvariant, PTL

(* No living child is forgotten other than in a death of the daemon        *)
(* (daemon.go:41-43, recovery.go:74-92).                                   *)
THEOREM NeverForgotten == Spec => []NoChildForgotten
<1>1. Core => NoChildForgotten
  BY DEF Core
<1>. QED
  BY <1>1, CoreInvariant, PTL

(* Whenever nothing is being saved, runtime.json and registry.json hold    *)
(* what the daemon knows (recovery.go:52-62, registry.go:63-75).           *)
THEOREM FilesAgree == Spec => []FilesMatchMemory
<1>1. Core => FilesMatchMemory
  BY DEF Core, Written, FilesMatchMemory
<1>. QED
  BY <1>1, CoreInvariant, PTL

(* Boot, autostart, restarts and requests never give a project two         *)
(* children (daemon.go:54).  A child is known in one of five places, and   *)
(* Slots lets a project have a child in one of them only.                  *)
LEMMA OnlyChild ==
  ASSUME Core
  PROVE  OneLivePerProject
<1>. SUFFICES ASSUME NEW q \in Living \ lost, NEW r \in Living \ lost,
                     owner[q] = owner[r]
              PROVE  q = r
  BY DEF OneLivePerProject
<1>. DEFINE p == owner[q]
<1>1. /\ p \in Projects /\ q \in Pids /\ r \in Pids
      /\ q # NoPid /\ r # NoPid
  BY SentinelAssumption DEF Living
<1>2. Known(q) /\ Known(r)
  BY DEF Core, NoChildForgotten
<1>3. CASE pc = "down"
  <2>1. ~Running(p) /\ hand = NoHand /\ orphans[p] = NoPid
    BY <1>1, <1>3 DEF Core, Phases, Slots, Supervising, Running, Untracked
  <2>. QED
    BY <1>1, <1>2, <1>3, <2>1, SentinelAssumption
    DEF Known, Tracked, Running, NoHand
<1>4. CASE pc = "probe"
  <2>1. ~Running(p) /\ hand = NoHand
    BY <1>1, <1>4 DEF Core, Phases, Supervising, Running, Untracked
  <2>2. orphans[p] # NoPid => runtime[p] = NoPid
    BY <1>1, <1>4 DEF Core, Slots
  <2>. QED
    BY <1>1, <1>2, <1>4, <2>1, <2>2 DEF Known, Tracked, Running, NoHand
<1>5. CASE pc \notin {"down", "probe"}
  <2>1. /\ orphans[p] # NoPid => ~Running(p)
        /\ hand # NoHand => /\ ~Running(hand.project)
                            /\ orphans[hand.project] = NoPid
    BY <1>1 DEF Core, Slots
  <2>2. \A t \in {q, r} :
          [project |-> p, pid |-> t] = hand => hand # NoHand
    BY <1>1 DEF NoHand
  <2>. QED
    BY <1>1, <1>2, <1>5, <2>1, <2>2 DEF Known, Tracked, Running
<1>. QED
  BY <1>3, <1>4, <1>5

THEOREM OneChild == Spec => []OneLivePerProject
<1>1. Core => OneLivePerProject
  BY OnlyChild
<1>. QED
  BY <1>1, CoreInvariant, PTL

(* A pid the daemon itself was given stays that child's until its watcher  *)
(* has waited for it, even when the system hands out freed pids again.     *)
THEOREM StartedOwned == Spec => []StartedIsOurs
<1>1. Core => StartedIsOurs
  BY DEF Core, Identity, Started, Running, StartedIsOurs
<1>. QED
  BY <1>1, CoreInvariant, PTL

(* A death of the daemon forgets a child only in one of the three windows. *)
LEMMA WindowStep ==
  ASSUME Core, [Next]_vars, NEW q \in lost' \ lost
  PROVE  InWindow(q)
<1>1. Die
  BY DEF vars, disk, memory, bounds, Next, Booting, Saving, Requested,
     Environment, Launch, ClearRuntime, LoadAll, AllAdopted, Serve,
     ProbeEntry, AdoptProcess, AutoStart, SaveOpen, SaveWrite, StartTrack,
     UserStart, UserStop, UserAdd, UserRemove, Exit, Foreign, EditToml,
     Notice, BackoffElapsed
<1>. DEFINE p == owner[q]
<1>2. /\ q \in Living \ lost /\ p \in Projects /\ q \in Pids
      /\ q # NoPid /\ pc # "down"
  BY <1>1, SentinelAssumption DEF Die, Living
<1>3. file = Torn \/ file[p] # q
  BY <1>1, <1>2 DEF Die, Recorded
<1>4. Known(q)
  BY <1>2 DEF Core, NoChildForgotten
<1>5. CASE hand = [project |-> p, pid |-> q]
  BY <1>5 DEF InWindow
<1>6. CASE Tracked(p, q)
  <2>1. runtime[p] = q /\ pc \notin {"down", "probe"}
    BY <1>2, <1>6
    DEF Tracked, Core, Entered, Running, Phases, Supervising, Untracked
  <2>2. file # runtime
    BY <1>3, <2>1, TornFacts DEF Core, TypeOK
  <2>. QED
    BY <2>1, <2>2 DEF Core, Written, InWindow
<1>7. CASE orphans[p] = q
  BY <1>2, <1>3, <1>7 DEF Core, Slots, Read, InWindow
<1>8. ~(pc = "probe" /\ runtime[p] = q)
  BY <1>2, <1>3 DEF Core, Read
<1>. QED
  BY <1>2, <1>4, <1>5, <1>6, <1>7, <1>8 DEF Known

THEOREM LossExplained == Spec => LossWindow
<1>1. Core /\ [Next]_vars =>
        [\A q \in lost' \ lost : InWindow(q)]_vars
  BY WindowStep
<1>. QED
  BY <1>1, CoreInvariant, PTL DEF Spec, LossWindow
=============================================================================
