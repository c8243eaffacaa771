-------------------------- MODULE SequentialProofs --------------------------
(***************************************************************************)
(* What the manager promises to a user who makes one request at a time, of *)
(* projects that are not restarted automatically.  These properties do not *)
(* hold without the two assumptions: the configurations manager_double_    *)
(* start, manager_stop_undone, manager_remove_running and manager_port_    *)
(* race show how.  Everything else is arbitrary: any number of projects,   *)
(* processes, objects, requests and edits, any overlap of project names,   *)
(* children that exit at any moment and starts that fail.                  *)
(*                                                                         *)
(* SeqInv says where a running object is tracked or in hand.  Three        *)
(* further invariants rest on it: StopInv, what a Stop still has to end;   *)
(* PortInv, which ports are taken, which also needs that no toml is edited *)
(* (manager_port_reload); and SaveInv, what runtime.json lacks, which      *)
(* needs that no request starts several processes (manager_unsaved_start)  *)
(* and that the file can be written.                                       *)
(***************************************************************************)
EXTENDS ManagerProofs

NoRestarts == \A cfg \in Configs : cfg.restart = "never"
Sequential == OneAtATime /\ NoRestarts

Spawned(g, o) == g.pc = "track" /\ g.hand = o
Halting(g, o) == g.pc = "settle" /\ g.hand = o

Calm == \A o \in Procs : thread[o].pc = "idle"

(* A running object is tracked or about to be; one that is being stopped   *)
(* is tracked, and in the hand of the Stop.                                *)
Owned ==
  \A o \in Procs :
    /\ proc[o].status = "running" =>
         \/ processes[proc[o].key] = o
         \/ \E c \in Clients : Spawned(thread[c], o)
    /\ proc[o].status = "stopping" =>
         /\ processes[proc[o].key] = o
         /\ \E c \in Clients : Halting(thread[c], o)

Mapped ==
  \A k \in Keys : processes[k] # NoProc =>
    proc[processes[k]].key = k /\ proc[processes[k]].watch # "off"

(* Nothing of a claimed key runs but what the Start itself has spawned. *)
Claimed ==
  \A c \in Clients : thread[c].pc \in Claims =>
    \A o \in Procs :
      proc[o].key = thread[c].key /\ proc[o].status = "running" =>
        Spawned(thread[c], o)

Equipped ==
  \A c \in Clients : thread[c].pc \in {"spawn", "track"} =>
    /\ proc[thread[c].hand].key = thread[c].key
    /\ proc[thread[c].hand].cfg = thread[c].cfg
    /\ proc[thread[c].hand].stdio => loggers[thread[c].key] = thread[c].hand
    /\ thread[c].pc = "track" => proc[thread[c].hand].watch # "off"

Orderly == Calm /\ Owned /\ Mapped /\ Claimed /\ Equipped /\ LoggerFollowsProcess

SeqInv == Sequential /\ Core /\ Orderly

-----------------------------------------------------------------------------
(* Ports, where no toml is edited: what a goroutine has read of a toml is  *)
(* still there, and the configuration of what runs is the loaded one.      *)
Unedited == MaxEdits = 0

Loaded(g) ==
  /\ g.pc \in {"register", "configure", "install"} \cup InStart =>
       g.cfg = toml[g.project]
  /\ g.pc \in InStart => configs[g.project] = g.cfg

Declares(g, k) == ProjectOf(k) = g.project /\ NameOf(k) \in DOMAIN g.cfg.port

Within(g) ==
  /\ g.pc \in InStart => \A k \in g.todo : Declares(g, k)
  /\ g.pc \in Claims => Declares(g, g.key)

(* The port of a claimed key is nobody else's. *)
Chosen(g) ==
  g.pc \in Claims /\ g.cfg.port[NameOf(g.key)] # 0 =>
    \A j \in Keys \ {g.key} :
      Running(j) => PortOf(processes[j]) # g.cfg.port[NameOf(g.key)]

Served ==
  \A o \in Procs : proc[o].status = "running" =>
    /\ proc[o].cfg = toml[ProjectOf(proc[o].key)]
    /\ proc[o].cfg = configs[ProjectOf(proc[o].key)]
    /\ NameOf(proc[o].key) \in DOMAIN proc[o].cfg.port

PortInv ==
  /\ Unedited
  /\ \A c \in Clients : Loaded(thread[c]) /\ Within(thread[c]) /\ Chosen(thread[c])
  /\ Served /\ PortsExclusive

-----------------------------------------------------------------------------
(* Stops. *)
Named(g) == Asked(g.project, g.names)

StopPlaces == {"targets", "stopEach", "halt", "settle", "forget"}

Sorted(g) ==
  /\ g.pc \in {"lookup", "install"} \cup InStart => g.op = "start"
  /\ g.pc \in StopPlaces => g.op \in {"stop", "restart"}
  /\ g.pc = "write" => g.todo = {}

(* A Start is about keys that were not stopped since it was asked for. *)
Aimed(g) ==
  /\ g.pc # "idle" /\ g.op \in {"start", "restart"} => halted \cap Named(g) = {}
  /\ g.pc \in InStart => g.todo \subseteq Named(g)
  /\ g.pc \in Claims => g.key \in Named(g)

(* What a Stop has still to end of what it named. *)
Reached(g) ==
  g.pc \in (StopPlaces \ {"targets"}) \cup {"write"} /\ g.op = "stop" =>
    \A o \in Procs : proc[o].live /\ proc[o].key \in Named(g) =>
      \/ proc[o].key \in g.todo
      \/ g.pc \in {"halt", "settle"} /\ g.hand = o

StopInv ==
  /\ \A c \in Clients : Sorted(thread[c]) /\ Aimed(thread[c]) /\ Reached(thread[c])
  /\ StopSticks

-----------------------------------------------------------------------------
(* Only the one client ever does anything. *)
LEMMA OnlyClient ==
  ASSUME SeqInv, NEW t \in Threads, thread[t].pc # "idle"
  PROVE  t \in Clients /\ \A c \in Clients : c = t
  <1>1. t \in Clients
    BY DEF SeqInv, Orderly, Calm, Threads
  <1> QED
    BY <1>1 DEF SeqInv, Sequential, OneAtATime

(* The client moves, and nothing is claimed but what does not run. *)
LEMMA QuietOrder ==
  ASSUME SeqInv, NEW t \in Clients, Moves(t),
         UNCHANGED <<proc, processes, loggers>>,
         thread[t].pc \notin {"track", "settle"},
         thread'[t].pc \notin {"spawn", "track", "settle"},
         thread'[t].pc \in Claims =>
           \/ thread[t].pc \in Claims /\ thread'[t].key = thread[t].key
           \/ thread'[t].key \in Keys /\ ~Running(thread'[t].key)
  PROVE  Orderly'
  <1> DEFINE g == thread'[t]
  <1>1. /\ t \in Threads /\ t \notin Procs
        /\ \A c \in Clients : c = t
    BY ThreadAssumption DEF SeqInv, Sequential, OneAtATime, Threads
  <1>2. /\ thread'[t] = g /\ \A u \in Threads \ {t} : thread'[u] = thread[u]
        /\ g.pc \notin {"spawn", "track", "settle"}
        /\ g.pc \in Claims =>
             \/ thread[t].pc \in Claims /\ g.key = thread[t].key
             \/ g.key \in Keys /\ ~Running(g.key)
    BY DEF Moves
  <1> HIDE DEF g
  <1>3. Calm'
    BY <1>1, <1>2 DEF Calm, SeqInv, Orderly, Threads
  <1>4. \A o \in Procs : /\ proc[o].status # "stopping"
                         /\ proc[o].status = "running" => processes[proc[o].key] = o
    BY <1>1 DEF SeqInv, Orderly, Owned, Spawned, Halting
  <1>5. Owned'
    BY <1>4 DEF Owned
  <1>6. Mapped' /\ LoggerFollowsProcess'
    BY DEF SeqInv, Orderly, Mapped, LoggerFollowsProcess, Running
  <1>7. Claimed'
    <2> SUFFICES ASSUME g.pc \in Claims, NEW o \in Procs,
                        proc[o].key = g.key, proc[o].status = "running"
                 PROVE  FALSE
      BY <1>1, <1>2 DEF Claimed
    <2>1. CASE thread[t].pc \in Claims /\ g.key = thread[t].key
      BY <2>1 DEF SeqInv, Orderly, Claimed, Spawned
    <2>2. CASE g.key \in Keys /\ ~Running(g.key)
      BY <1>4, <2>2, SentinelAssumption DEF Running
    <2> QED
      BY <1>2, <2>1, <2>2
  <1>8. Equipped'
    BY <1>1, <1>2 DEF Equipped
  <1> QED
    BY <1>3, <1>5, <1>6, <1>7, <1>8 DEF Orderly

-----------------------------------------------------------------------------
(* SeqInv is inductive.  Most operations leave objects and maps alone. *)
LEMMA QuietOperation ==
  ASSUME SeqInv, NEW t \in Threads,
         \/ AddLoad(t) \/ AddRegister(t) \/ AddUnsaved(t) \/ AddInstall(t) \/ StartLoad(t)
         \/ StartInstall(t) \/ StartSkip(t) \/ StartRefused(t) \/ StartClaim(t)
         \/ StartInherit(t) \/ StartFails(t) \/ SaveMarshal(t) \/ SaveWrite(t) \/ SaveFails(t)
         \/ StopTargets(t) \/ StopPick(t) \/ StopIdle(t) \/ StopForget(t)
  PROVE  Orderly'
  <1>1. TypeOK /\ thread[t] \in Goroutines
    BY DEF SeqInv, Core, TypeOK
  <1>2. UNCHANGED <<proc, processes, loggers>>
    BY DEF AddLoad, AddRegister, AddUnsaved, AddInstall, StartLoad, StartInstall, StartSkip,
           StartRefused, StartClaim, StartInherit, StartFails, SaveMarshal,
           SaveWrite, SaveFails, StopTargets, StopPick, StopIdle, StopForget, memory
  <1>3. /\ Moves(t) /\ thread[t].pc \notin {"idle", "track", "settle"}
        /\ \/ thread'[t].pc \notin {"settle"} \cup Claims
           \/ /\ thread'[t].pc = "inherit" /\ thread'[t].key \in Keys
              /\ ~Running(thread'[t].key)
           \/ /\ thread[t].pc = "inherit" /\ thread'[t].pc = "prepare"
              /\ thread'[t].key = thread[t].key
    <2>1. thread'[t] = Idle => thread'[t].pc = "idle"
      BY DEF Idle
    <2>2. CASE AddLoad(t) \/ AddRegister(t) \/ AddUnsaved(t) \/ AddInstall(t)
      BY <1>1, <2>1, <2>2, AddDoes DEF From, Goes, Returns, Claims
    <2>3. CASE StartClaim(t)
      <3>1. thread[t].todo \subseteq Keys
        BY <1>1 DEF Goroutines
      <3> QED
        BY <1>1, <2>3, <3>1, StartDoes DEF From, Goes
    <2>4. CASE StartLoad(t) \/ StartInstall(t) \/ StartSkip(t) \/ StartRefused(t)
      BY <1>1, <2>1, <2>4, StartDoes DEF From, Goes, Returns, Claims
    <2>5. CASE StartInherit(t) \/ StartFails(t)
      BY <1>1, <2>1, <2>5, SpawnDoes DEF From, Goes, Returns, Claims
    <2>6. CASE SaveMarshal(t) \/ SaveWrite(t) \/ SaveFails(t)
      BY <1>1, <2>1, <2>6, SaveDoes DEF From, Goes, Returns, Claims
    <2>7. CASE StopTargets(t) \/ StopPick(t) \/ StopIdle(t) \/ StopForget(t)
      BY <1>1, <2>7, StopDoes DEF From, Goes, Claims
    <2> QED
      BY <2>2, <2>3, <2>4, <2>5, <2>6, <2>7
  <1>4. t \in Clients
    BY <1>3, OnlyClient
  <1> QED
    BY <1>2, <1>3, <1>4, QuietOrder DEF Claims

LEMMA QuietCall ==
  ASSUME SeqInv, NEW c \in Clients, ClientCalls(c)
  PROVE  Orderly'
  <1>1. UNCHANGED <<proc, processes, loggers>>
    BY DEF ClientCalls, memory
  <1>2. From(c, {"idle"}) /\ thread'[c].pc \in Entries
    BY CallDoes DEF SeqInv, Core
  <1> QED
    BY <1>1, <1>2, QuietOrder DEF From, Entries, Claims

(* Start makes an object; nothing of its key runs. *)
LEMMA PrepareOrder ==
  ASSUME SeqInv, NEW t \in Threads, StartPrepare(t)
  PROVE  Orderly'
  <1>1. TypeOK /\ thread[t] \in Goroutines
    BY DEF SeqInv, Core, TypeOK
  <1>2. /\ Goes(t, "prepare", "spawn") /\ SameStart(t)
        /\ thread'[t].key = thread[t].key
        /\ thread'[t].hand \in Fresh
        /\ \E opened \in BOOLEAN : Prepares(t, thread'[t].hand, opened)
    BY <1>1, SpawnDoes
  <1>3. UNCHANGED processes
    BY DEF StartPrepare
  <1>4. t \in Clients /\ t \notin Procs /\ \A c \in Clients : c = t
    BY <1>2, OnlyClient, ThreadAssumption DEF Goes, From
  <1> DEFINE o == thread'[t].hand
             k == thread[t].key
  <1>0. PICK opened \in BOOLEAN : Prepares(t, o, opened)
    BY <1>2
  <1>5. /\ o \in Procs /\ proc[o].cfg = NoConfig /\ proc[o] \in Objects
        /\ k \in Keys
    BY <1>1, <1>2 DEF Fresh, TypeOK, SeqInv, Core, Shape, AllSound, Sound, Goes, From
  <1>6. proc[o].watch = "off" /\ proc[o].status = "stopped"
    BY <1>5, SentinelAssumption DEF SeqInv, Core, Shape, Stages, Staged
  <1>7. /\ proc' = [proc EXCEPT ![o] = proc'[o]]
        /\ proc'[o] = [proc[o] EXCEPT !.key = k, !.cfg = thread[t].cfg,
                                      !.restarts = thread[t].count, !.stdio = opened]
    BY <1>0, <1>1, <1>5 DEF Prepares, Change, TypeOK
  <1>8. /\ proc'[o].key = k /\ proc'[o].cfg = thread[t].cfg
        /\ proc'[o].status = "stopped" /\ proc'[o].watch = "off"
        /\ \A q \in Procs \ {o} : proc'[q] = proc[q]
        /\ proc'[o].stdio = opened
    BY <1>1, <1>5, <1>6, <1>7 DEF Objects, TypeOK
  <1>19. /\ opened => loggers'[k] = o
         /\ \A j \in Keys \ {k} : loggers'[j] = loggers[j]
    BY <1>0, <1>1, <1>5 DEF Prepares, LoggersWith, TypeOK
  <1>9. /\ thread'[t].pc = "spawn" /\ thread[t].pc = "prepare"
        /\ thread'[t].cfg = thread[t].cfg /\ thread'[t].key = k
        /\ \A u \in Threads \ {t} : thread'[u] = thread[u]
    BY <1>2 DEF Goes, From, Moves, SameStart
  <1> HIDE DEF o, k
  <1>10. Calm'
    BY <1>4, <1>9 DEF Calm, SeqInv, Orderly, Threads
  <1>11. \A q \in Procs : /\ proc[q].status # "stopping"
                          /\ proc[q].status = "running" =>
                               processes[proc[q].key] = q /\ proc[q].key # k
    BY <1>4, <1>9 DEF SeqInv, Orderly, Owned, Claimed, Spawned, Halting, Claims, k
  <1>12. Owned'
    BY <1>3, <1>8, <1>11 DEF Owned
  <1>13. \A j \in Keys : processes[j] # NoProc => processes[j] \in Procs \ {o}
    BY <1>1, <1>6 DEF TypeOK, SeqInv, Orderly, Mapped
  <1>14. Mapped'
    BY <1>3, <1>8, <1>13 DEF Mapped, SeqInv, Orderly
  <1>15. Claimed'
    BY <1>4, <1>8, <1>9, <1>11 DEF Claimed
  <1>16. Equipped'
    BY <1>4, <1>8, <1>9, <1>19 DEF Equipped, o
  <1>17. \A j \in Keys : Running(j)' => Running(j) /\ j # k
    BY <1>3, <1>8, <1>11, <1>13 DEF Running, Mapped, SeqInv, Orderly
  <1>18. LoggerFollowsProcess'
    <2> SUFFICES ASSUME NEW j \in Keys, Running(j)', proc'[processes[j]].stdio
                 PROVE  loggers'[j] = processes[j]
      BY <1>3 DEF LoggerFollowsProcess
    <2>1. Running(j) /\ j # k
      BY <1>17
    <2>2. processes[j] \in Procs \ {o}
      BY <1>13, <2>1 DEF Running
    <2>3. proc[processes[j]].stdio
      BY <1>8, <2>2
    <2> QED
      BY <1>19, <2>1, <2>3 DEF LoggerFollowsProcess, SeqInv, Orderly
  <1> QED
    BY <1>10, <1>12, <1>14, <1>15, <1>16, <1>18 DEF Orderly

LEMMA SpawnOrder ==
  ASSUME SeqInv, NEW t \in Threads, StartSpawn(t)
  PROVE  Orderly'
  <1> DEFINE o == thread[t].hand
             k == thread[t].key
  <1>1. TypeOK /\ Goes(t, "spawn", "track") /\ SameStart(t)
        /\ thread'[t].key = k /\ thread'[t].hand = o
    BY SpawnDoes DEF SeqInv, Core
  <1>2. t \in Clients /\ t \notin Procs /\ \A c \in Clients : c = t
    BY <1>1, OnlyClient, ThreadAssumption DEF Goes, From
  <1>3. /\ o \in Procs /\ proc[o] \in Objects /\ k \in Keys
        /\ proc[o].watch = "off"
        /\ proc[o].key = k /\ proc[o].cfg = thread[t].cfg
        /\ proc[o].stdio => loggers[k] = o
    BY <1>1, <1>2 DEF TypeOK, SeqInv, Core, Shape, AllSound, Sound, InHand, Goes,
                      From, Orderly, Equipped
  <1>4. proc' = [proc EXCEPT ![o] = [proc[o] EXCEPT !.status = "running",
                                                    !.live = TRUE, !.watch = "wait"]]
    BY DEF StartSpawn, Change
  <1>5. proc'[o] = [proc[o] EXCEPT !.status = "running", !.live = TRUE, !.watch = "wait"]
    BY <1>1, <1>3, <1>4 DEF TypeOK
  <1>6. /\ proc'[o].key = k /\ proc'[o].cfg = thread[t].cfg
        /\ proc'[o].status = "running" /\ proc'[o].watch = "wait"
        /\ proc'[o].stdio = proc[o].stdio
        /\ \A q \in Procs \ {o} : proc'[q] = proc[q]
    BY <1>1, <1>3, <1>4, <1>5 DEF Objects, TypeOK
  <1>7. UNCHANGED <<processes, loggers>>
    BY DEF StartSpawn, memory
  <1>8. /\ thread'[t].pc = "track" /\ thread[t].pc = "spawn"
        /\ thread'[t].cfg = thread[t].cfg
        /\ \A u \in Threads \ {t} : thread'[u] = thread[u]
    BY <1>1 DEF Goes, From, Moves, SameStart
  <1>9. thread'[t].key = k /\ thread'[t].hand = o
    BY <1>1
  <1> HIDE DEF o, k
  <1>10. Calm'
    BY <1>2, <1>8 DEF Calm, SeqInv, Orderly, Threads
  <1>11. \A q \in Procs : /\ proc[q].status # "stopping"
                          /\ proc[q].status = "running" =>
                               processes[proc[q].key] = q /\ proc[q].key # k
    BY <1>2, <1>8 DEF SeqInv, Orderly, Owned, Claimed, Spawned, Halting, Claims, k
  <1>12. Owned'
    BY <1>2, <1>6, <1>7, <1>8, <1>9, <1>11 DEF Owned, Spawned
  <1>13. \A j \in Keys : processes[j] # NoProc => processes[j] \in Procs \ {o}
    BY <1>1, <1>3 DEF TypeOK, SeqInv, Orderly, Mapped
  <1>14. Mapped'
    BY <1>6, <1>7, <1>13 DEF Mapped, SeqInv, Orderly
  <1>15. Claimed'
    BY <1>2, <1>6, <1>8, <1>9, <1>11 DEF Claimed, Spawned
  <1>16. Equipped'
    BY <1>2, <1>3, <1>6, <1>7, <1>8, <1>9 DEF Equipped
  <1>17. LoggerFollowsProcess'
    BY <1>6, <1>7, <1>13 DEF LoggerFollowsProcess, Running, SeqInv, Orderly
  <1> QED
    BY <1>10, <1>12, <1>14, <1>15, <1>16, <1>17 DEF Orderly

LEMMA TrackOrder ==
  ASSUME SeqInv, NEW t \in Threads, StartTrack(t)
  PROVE  Orderly'
  <1> DEFINE o == thread[t].hand
             k == thread[t].key
  <1>1. TypeOK /\ Goes(t, "track", "each")
    BY SpawnDoes DEF SeqInv, Core
  <1>2. t \in Clients /\ t \notin Procs /\ \A c \in Clients : c = t
    BY <1>1, OnlyClient, ThreadAssumption DEF Goes, From
  <1>3. /\ o \in Procs /\ k \in Keys /\ proc[o].watch # "off"
        /\ proc[o].key = k /\ (proc[o].stdio => loggers[k] = o)
    BY <1>1, <1>2 DEF SeqInv, Core, Shape, AllSound, Sound, Goes, From, Orderly, Equipped
  <1>4. /\ UNCHANGED <<proc, loggers>>
        /\ processes'[k] = o /\ \A j \in Keys \ {k} : processes'[j] = processes[j]
    BY <1>1, <1>3 DEF StartTrack, TypeOK
  <1>5. /\ thread[t].pc = "track" /\ thread'[t].pc = "each"
        /\ \A u \in Threads \ {t} : thread'[u] = thread[u]
    BY <1>1 DEF Goes, From, Moves
  <1>6. \A q \in Procs :
          /\ proc[q].status # "stopping"
          /\ proc[q].status = "running" => proc[q].key \in Keys
          /\ proc[q].status = "running" /\ q # o =>
               processes[proc[q].key] = q /\ proc[q].key # k
    BY <1>2, <1>5 DEF SeqInv, Core, Shape, Stages, Staged, Orderly, Owned, Claimed,
                      Spawned, Halting, Claims
  <1> HIDE DEF o, k
  <1>7. Calm'
    BY <1>2, <1>5 DEF Calm, SeqInv, Orderly, Threads
  <1>8. Owned'
    BY <1>3, <1>4, <1>6 DEF Owned
  <1>9. Mapped'
    BY <1>3, <1>4 DEF Mapped, SeqInv, Orderly
  <1>10. Claimed' /\ Equipped'
    BY <1>2, <1>5 DEF Claimed, Equipped, Claims
  <1>11. LoggerFollowsProcess'
    BY <1>3, <1>4 DEF LoggerFollowsProcess, Running, SeqInv, Orderly
  <1> QED
    BY <1>7, <1>8, <1>9, <1>10, <1>11 DEF Orderly

(* Process.Stop begins and ends: the object is stopping in between. *)
LEMMA StopOrder ==
  ASSUME SeqInv, NEW t \in Threads, StopHalt(t) \/ StopSettle(t)
  PROVE  Orderly'
  <1> DEFINE o == thread[t].hand
  <1>1. TypeOK /\ Moves(t) /\ thread[t] \in Goroutines
        /\ \/ /\ StopHalt(t) /\ thread[t].pc = "halt" /\ thread'[t].pc = "settle"
              /\ thread'[t].hand = o
           \/ StopSettle(t) /\ thread[t].pc = "settle" /\ thread'[t].pc = "forget"
    BY StopDoes DEF SeqInv, Core, TypeOK, Goes, From
  <1>2. t \in Clients /\ t \notin Procs /\ \A c \in Clients : c = t
    BY <1>1, OnlyClient, ThreadAssumption
  <1>3. o \in Procs /\ proc[o] \in Objects
    BY <1>1 DEF StopHalt, CanHalt, Goroutines, SeqInv, Core, Shape, AllSound, Sound, TypeOK
  <1>4. \/ /\ thread[t].pc = "halt" /\ proc[o].status = "running"
           /\ proc' = [proc EXCEPT ![o] = [proc[o] EXCEPT !.status = "stopping"]]
        \/ /\ thread[t].pc = "settle"
           /\ proc' = [proc EXCEPT ![o] = [proc[o] EXCEPT !.status = "stopped"]]
    BY <1>1 DEF StopHalt, StopSettle, CanHalt, Change
  <1>5. /\ proc'[o].key = proc[o].key /\ proc'[o].watch = proc[o].watch
        /\ proc'[o].cfg = proc[o].cfg /\ proc'[o].stdio = proc[o].stdio
        /\ \/ thread[t].pc = "halt" /\ proc[o].status = "running" /\ proc'[o].status = "stopping"
           \/ thread[t].pc = "settle" /\ proc'[o].status = "stopped"
        /\ \A q \in Procs \ {o} : proc'[q] = proc[q]
    BY <1>1, <1>3, <1>4 DEF Objects, TypeOK
  <1>6. UNCHANGED <<processes, loggers>>
    BY DEF StopHalt, StopSettle, memory
  <1>7. \A u \in Threads \ {t} : thread'[u] = thread[u]
    BY <1>1 DEF Moves
  <1>8. /\ thread[t].pc = "halt" => thread'[t].pc = "settle" /\ thread'[t].hand = o
        /\ thread[t].pc = "settle" => thread'[t].pc = "forget"
    BY <1>1
  <1>9. \A q \in Procs :
          /\ proc[q].status = "running" => processes[proc[q].key] = q
          /\ proc[q].status = "stopping" => thread[t].pc = "settle" /\ q = o
    BY <1>2, <1>5 DEF SeqInv, Orderly, Owned, Spawned, Halting
  <1> HIDE DEF o
  <1>10. Calm'
    BY <1>2, <1>7 DEF Calm, SeqInv, Orderly, Threads
  <1>11. Owned'
    <2> SUFFICES ASSUME NEW q \in Procs
                 PROVE  /\ proc'[q].status = "running" => processes[proc'[q].key] = q
                        /\ proc'[q].status = "stopping" =>
                             processes[proc'[q].key] = q /\ Halting(thread'[t], q)
      BY <1>2, <1>6 DEF Owned
    <2> QED
      BY <1>5, <1>8, <1>9 DEF Halting
  <1>12. \A j \in Keys : processes[j] # NoProc => processes[j] \in Procs
    BY <1>1 DEF TypeOK
  <1>13. Mapped'
    BY <1>5, <1>6, <1>12 DEF Mapped, SeqInv, Orderly
  <1>14. Claimed' /\ Equipped'
    BY <1>2, <1>5, <1>8 DEF Claimed, Equipped, Claims
  <1>15. LoggerFollowsProcess'
    BY <1>5, <1>6, <1>12 DEF LoggerFollowsProcess, Running, SeqInv, Orderly
  <1> QED
    BY <1>10, <1>11, <1>13, <1>14, <1>15 DEF Orderly

(* Remove forgets no running object: all are tracked while it runs. *)
LEMMA RemoveOrder ==
  ASSUME SeqInv, NEW t \in Threads, RemoveProject(t)
  PROVE  Orderly'
  <1>1. TypeOK /\ Moves(t) /\ thread[t].pc = "remove" /\ thread'[t].pc = "idle"
    BY AddDoes DEF SeqInv, Core, Returns, From, Idle
  <1>2. t \in Clients /\ t \notin Procs /\ \A c \in Clients : c = t
    BY <1>1, OnlyClient, ThreadAssumption
  <1>3. \A u \in Threads \ {t} : thread'[u] = thread[u]
    BY <1>1 DEF Moves
  <1>4. /\ UNCHANGED proc
        /\ \A j \in Keys :
             \/ processes'[j] = processes[j] /\ loggers'[j] = loggers[j]
             \/ ~Running(j) /\ processes'[j] = NoProc
    BY DEF RemoveProject, Busy, Drop
  <1>5. \A q \in Procs :
          /\ proc[q].status # "stopping"
          /\ proc[q].status = "running" =>
               proc[q].key \in Keys /\ processes[proc[q].key] = q
    BY <1>1, <1>2 DEF SeqInv, Core, Shape, Stages, Staged, Orderly, Owned, Spawned, Halting
  <1>6. Calm'
    BY <1>2, <1>3 DEF Calm, SeqInv, Orderly, Threads
  <1>7. Owned'
    BY <1>4, <1>5, SentinelAssumption DEF Owned, Running
  <1>8. Mapped'
    BY <1>4 DEF Mapped, SeqInv, Orderly
  <1>9. Claimed' /\ Equipped'
    BY <1>1, <1>2 DEF Claimed, Equipped, Claims
  <1>10. LoggerFollowsProcess'
    BY <1>4 DEF LoggerFollowsProcess, Running, SeqInv, Orderly
  <1> QED
    BY <1>6, <1>7, <1>8, <1>9, <1>10 DEF Orderly

-----------------------------------------------------------------------------
(* A child ends and its object crashes, which starts nothing. *)
Fades(o) ==
  /\ proc'[o].key = proc[o].key /\ proc'[o].cfg = proc[o].cfg
  /\ proc'[o].stdio = proc[o].stdio
  /\ proc'[o].watch # "off" /\ proc[o].watch # "off"
  /\ \/ proc'[o].status = proc[o].status
     \/ proc[o].status = "running" /\ proc'[o].status = "crashed"
  /\ proc'[o].live => proc[o].live
  /\ \A q \in Procs \ {o} : proc'[q] = proc[q]

LEMMA ProcessDoes ==
  ASSUME SeqInv, NEW o \in Procs, Exit(o) \/ CrashHandling(o)
  PROVE  Fades(o) /\ UNCHANGED <<thread, toml, halted, memory>>
  <1>1. TypeOK /\ proc[o] \in Objects /\ Staged(proc[o]) /\ thread[o].pc = "idle"
    BY DEF SeqInv, Core, TypeOK, Shape, Stages, Orderly, Calm
  <1>2. CASE Exit(o)
    <2>1. proc[o].live /\ proc' = [proc EXCEPT ![o] = [proc[o] EXCEPT !.live = FALSE]]
      BY <1>2 DEF Exit, Change
    <2>2. UNCHANGED <<thread, toml, halted, memory>>
      BY <1>2 DEF Exit, env, history
    <2> QED
      BY <1>1, <2>1, <2>2 DEF TypeOK, Objects, Staged, Fades
  <1>3. CASE WatchJudge(o)
    <2>1. /\ proc[o].watch = "wait"
          /\ \/ proc' = [proc EXCEPT ![o] = [proc[o] EXCEPT !.watch = "done"]]
             \/ /\ proc[o].status # "stopping"
                /\ proc' = [proc EXCEPT ![o] = [proc[o] EXCEPT !.watch = "report",
                                                               !.status = "crashed"]]
      BY <1>3 DEF WatchJudge, Intentional, Change
    <2>2. proc[o].status \in {"running", "stopping"}
      BY <1>1, <2>1 DEF Staged
    <2>3. UNCHANGED <<thread, toml, halted, memory>>
      BY <1>3 DEF WatchJudge, env, history
    <2>4. proc \in [Procs -> Objects]
      BY <1>1 DEF TypeOK
    <2>5. CASE proc' = [proc EXCEPT ![o] = [proc[o] EXCEPT !.watch = "done"]]
      BY <1>1, <2>1, <2>3, <2>4, <2>5 DEF Objects, Fades
    <2>6. CASE /\ proc[o].status # "stopping"
               /\ proc' = [proc EXCEPT ![o] = [proc[o] EXCEPT !.watch = "report",
                                                              !.status = "crashed"]]
      <3>1. proc'[o] = [proc[o] EXCEPT !.watch = "report", !.status = "crashed"]
        BY <2>4, <2>6
      <3>2. proc[o].status = "running"
        BY <2>2, <2>6
      <3>3. \A q \in Procs \ {o} : proc'[q] = proc[q]
        BY <2>4, <2>6
      <3> QED
        BY <1>1, <2>1, <2>3, <3>1, <3>2, <3>3 DEF Objects, Fades
    <2> QED
      BY <2>1, <2>5, <2>6
  <1>4. CASE OnCrash(o)
    <2>1. /\ proc[o].watch = "report"
          /\ proc' = [proc EXCEPT ![o] = [proc[o] EXCEPT !.watch = "done"]]
      BY <1>4 DEF OnCrash, Change
    <2>2. proc[o].cfg.restart = "never"
      BY <1>1, <2>1 DEF Staged, SeqInv, Sequential, NoRestarts
    <2>3. UNCHANGED <<thread, toml, halted, memory>>
      BY <1>4, <2>2 DEF OnCrash, env, history
    <2> QED
      BY <1>1, <2>1, <2>3 DEF TypeOK, Objects, Fades
  <1>5. ~CrashDecide(o) /\ ~BackoffElapsed(o)
    BY <1>1 DEF CrashDecide, BackoffElapsed, At
  <1> QED
    BY <1>2, <1>3, <1>4, <1>5 DEF CrashHandling

LEMMA ProcessOrder ==
  ASSUME SeqInv, NEW o \in Procs, Exit(o) \/ CrashHandling(o)
  PROVE  Orderly'
  <1>1. Fades(o) /\ UNCHANGED <<thread, processes, loggers>>
    BY ProcessDoes DEF memory
  <1>2. /\ proc'[o].key = proc[o].key /\ proc'[o].cfg = proc[o].cfg
        /\ proc'[o].watch # "off" /\ proc'[o].stdio = proc[o].stdio
        /\ proc'[o].status = proc[o].status \/ proc'[o].status = "crashed"
        /\ \A q \in Procs \ {o} : proc'[q] = proc[q]
    BY <1>1 DEF Fades
  <1>3. \A j \in Keys : processes[j] # NoProc => processes[j] \in Procs
    BY DEF SeqInv, Core, TypeOK
  <1>4. Calm' /\ Owned'
    BY <1>1, <1>2 DEF Calm, Owned, SeqInv, Orderly
  <1>5. Mapped' /\ LoggerFollowsProcess'
    BY <1>1, <1>2, <1>3 DEF Mapped, LoggerFollowsProcess, Running, SeqInv, Orderly
  <1>6. Claimed'
    BY <1>1, <1>2 DEF Claimed, SeqInv, Orderly
  <1>7. Equipped'
    <2>1. \A c \in Clients : thread[c].pc \in {"spawn", "track"} => thread[c].hand \in Procs
      BY DEF SeqInv, Core, Shape, AllSound, Sound, Threads
    <2> QED
      BY <1>1, <1>2, <2>1 DEF Equipped, SeqInv, Orderly
  <1> QED
    BY <1>4, <1>5, <1>6, <1>7 DEF Orderly

LEMMA InitSeq == Sequential /\ Init => SeqInv
  <1> SUFFICES ASSUME Sequential, Init PROVE SeqInv
    OBVIOUS
  <1>1. Core
    BY InitCore
  <1>2. /\ \A u \in Threads : thread[u].pc = "idle"
        /\ \A o \in Procs : proc[o].status = "stopped"
        /\ \A k \in Keys : processes[k] = NoProc
    BY DEF Init, Idle, Unused
  <1>3. \A u \in Clients \cup Procs : u \in Threads
    BY DEF Threads
  <1> QED
    BY <1>1, <1>2, <1>3
    DEF SeqInv, Orderly, Calm, Owned, Mapped, Claimed, Equipped, Claims,
        LoggerFollowsProcess, Running

LEMMA SeqStep == SeqInv /\ [Next]_vars => SeqInv'
  <1> SUFFICES ASSUME SeqInv, [Next]_vars PROVE SeqInv'
    OBVIOUS
  <1>1. Core' /\ Sequential'
    BY NextCore DEF SeqInv, Sequential, OneAtATime, NoRestarts
  <1>2. CASE UNCHANGED <<proc, thread, processes, loggers>>
    BY <1>1, <1>2
    DEF SeqInv, Orderly, Calm, Owned, Mapped, Claimed, Equipped,
        LoggerFollowsProcess, Running
  <1>3. CASE EditToml \/ UNCHANGED vars
    BY <1>2, <1>3 DEF EditToml, vars, memory, env
  <1>4. ASSUME NEW c \in Clients, ClientCalls(c) PROVE SeqInv'
    BY <1>1, <1>4, QuietCall DEF SeqInv
  <1>5. ASSUME NEW t \in Threads, Operation(t) PROVE SeqInv'
    BY <1>1, <1>5, QuietOperation, PrepareOrder, SpawnOrder, TrackOrder,
       StopOrder, RemoveOrder DEF SeqInv, Operation
  <1>6. ASSUME NEW o \in Procs, Exit(o) \/ CrashHandling(o) PROVE SeqInv'
    BY <1>1, <1>6, ProcessOrder DEF SeqInv
  <1> QED
    BY <1>3, <1>4, <1>5, <1>6 DEF Next

LEMMA SeqInvariance == Sequential /\ Spec => []SeqInv
  BY InitSeq, SeqStep, PTL DEF Spec

-----------------------------------------------------------------------------
(* A live child belongs to a running object, or to one being stopped. *)
LEMMA LiveIsOwned ==
  ASSUME SeqInv, NEW o \in Procs, proc[o].live
  PROVE  /\ proc[o].key \in Keys
         /\ \/ processes[proc[o].key] = o
            \/ proc[o].status = "running" /\ \E c \in Clients : Spawned(thread[c], o)
  <1>1. proc[o] \in Objects /\ Staged(proc[o])
    BY DEF SeqInv, Core, TypeOK, Shape, Stages
  <1>2. proc[o].status \in {"running", "stopping"} /\ proc[o].key \in Keys
    BY <1>1 DEF Staged, Objects
  <1> QED
    BY <1>2 DEF SeqInv, Orderly, Owned

(* One request at a time never gives a key two children: what Start finds  *)
(* running it skips (manager.go:398), and what it claims stays unclaimed   *)
(* by others until it is tracked (manager.go:409-443).                     *)
THEOREM OneChildEach == Sequential /\ Spec => []OneLivePerKey
  <1>1. SeqInv => OneLivePerKey
    <2> SUFFICES ASSUME SeqInv, NEW o \in Procs, NEW q \in Procs,
                        proc[o].live, proc[q].live, proc[o].key = proc[q].key
                 PROVE  o = q
      BY DEF OneLivePerKey
    <2>1. /\ \/ processes[proc[o].key] = o
             \/ proc[o].status = "running" /\ \E c \in Clients : Spawned(thread[c], o)
          /\ \/ processes[proc[q].key] = q
             \/ proc[q].status = "running" /\ \E c \in Clients : Spawned(thread[c], q)
      BY LiveIsOwned
    <2>2. \A x, y \in Procs :
            x # y /\ proc[x].key = proc[y].key /\ proc[x].live /\ proc[y].live
              => ~\E c \in Clients : Spawned(thread[c], x)
      <3> SUFFICES ASSUME NEW x \in Procs, NEW y \in Procs, NEW c \in Clients,
                          x # y, proc[x].key = proc[y].key,
                          proc[x].live, proc[y].live, Spawned(thread[c], x)
                   PROVE  FALSE
        OBVIOUS
      <3>1. thread[c].pc = "track" /\ thread[c].hand = x
        BY DEF Spawned
      <3>2. proc[y].key = thread[c].key
        BY <3>1 DEF SeqInv, Orderly, Equipped
      <3>3. proc[y].status # "running"
        BY <3>1, <3>2 DEF SeqInv, Orderly, Claimed, Claims, Spawned
      <3>4. proc[y].status = "stopping"
        <4>1. proc[y] \in Objects /\ Staged(proc[y])
          BY DEF SeqInv, Core, TypeOK, Shape, Stages
        <4> QED
          BY <3>3, <4>1 DEF Staged, Objects
      <3>5. \E d \in Clients : thread[d].pc = "settle"
        BY <3>4 DEF SeqInv, Orderly, Owned, Halting
      <3> QED
        BY <3>1, <3>5 DEF SeqInv, Sequential, OneAtATime
    <2> QED
      BY <2>1, <2>2
  <1> QED
    BY <1>1, SeqInvariance, PTL

(* A live child can be reached by a Stop: it is tracked, or a Start is     *)
(* about to track it (manager.go:441-445).                                 *)
THEOREM LiveTracked == Sequential /\ Spec => []LiveIsTracked
  <1>1. SeqInv => LiveIsTracked
    BY LiveIsOwned DEF LiveIsTracked, Spawned, At, Threads
  <1> QED
    BY <1>1, SeqInvariance, PTL

(* The Logger of a key is the one its running child writes to, unless its  *)
(* log file could not be opened and it has none (manager.go:419-432).      *)
THEOREM LoggerFollows == Sequential /\ Spec => []LoggerFollowsProcess
  <1>1. SeqInv => LoggerFollowsProcess
    BY DEF SeqInv, Orderly
  <1> QED
    BY <1>1, SeqInvariance, PTL

-----------------------------------------------------------------------------
(* What a step leaves alone for StopInv: no child is new and nothing is    *)
(* halted, whatever happens to the one client.                             *)
Tame ==
  /\ halted' = halted
  /\ \A o \in Procs : proc'[o].live => proc[o].live /\ proc'[o].key = proc[o].key

LEMMA TameSticks ==
  ASSUME StopSticks, Tame
  PROVE  StopSticks'
  BY DEF StopSticks, Tame

LEMMA ClientMoves ==
  ASSUME SeqInv, NEW t \in Clients, Moves(t),
         Sorted(thread'[t]), Aimed(thread[t])', Reached(thread[t])', StopSticks'
  PROVE  StopInv'
  BY DEF SeqInv, Sequential, OneAtATime, StopInv

(* Inside Start. *)
LEMMA StartStops ==
  ASSUME SeqInv, StopInv, NEW t \in Clients, Moves(t), Tame, SameJob(t),
         thread[t].pc \in {"lookup", "install"} \cup InStart,
         thread'[t].pc \in {"install"} \cup InStart \/ thread'[t].pc = "write",
         thread'[t].pc = "write" => thread'[t].todo = {},
         thread'[t].pc \in InStart => thread'[t].todo \subseteq Named(thread[t]),
         thread'[t].pc \in Claims => thread'[t].key \in Named(thread[t])
  PROVE  StopInv'
  <1>1. Sorted(thread[t]) /\ Aimed(thread[t]) /\ thread[t].op = "start"
    BY DEF StopInv, Sorted
  <1>2. thread'[t].op = "start" /\ Named(thread'[t]) = Named(thread[t])
    BY <1>1 DEF SameJob, Named
  <1>3. Sorted(thread'[t])
    BY <1>2 DEF Sorted, StopPlaces, InStart, Claims
  <1>4. Aimed(thread[t])'
    <2>1. thread[t].pc # "idle"
      BY DEF InStart, Claims
    <2>2. halted \cap Named(thread[t]) = {}
      BY <1>1, <2>1 DEF Aimed
    <2> QED
      BY <1>2, <2>2 DEF Aimed, Tame, Named
  <1>5. Reached(thread[t])'
    BY <1>2 DEF Reached
  <1>6. StopSticks'
    BY TameSticks DEF StopInv
  <1> QED
    BY <1>3, <1>4, <1>5, <1>6, ClientMoves

LEMMA StartKeepsStops ==
  ASSUME SeqInv, StopInv, NEW t \in Threads,
         \/ StartLoad(t) /\ thread'[t].pc # "idle"
         \/ StartInstall(t) \/ StartSkip(t) \/ StartClaim(t)
         \/ StartInherit(t) \/ StartPrepare(t) \/ StartTrack(t)
  PROVE  StopInv'
  <1>1. TypeOK
    BY DEF SeqInv, Core
  <1>2. thread[t].pc # "idle"
    BY <1>1, StartDoes, SpawnDoes DEF From, Goes, Returns
  <1>3. t \in Clients
    BY <1>2, OnlyClient
  <1>4. Aimed(thread[t])
    BY <1>3 DEF StopInv
  <1>5. CASE StartLoad(t) /\ thread'[t].pc # "idle"
    <2>1. Goes(t, "lookup", "install") /\ SameJob(t)
      <3>1. Idle.pc = "idle"
        BY DEF Idle
      <3> QED
        BY <1>1, <1>5, <3>1, StartDoes DEF Returns
    <2>2. Tame
      BY <1>5 DEF Tame, StartLoad, history
    <2> QED
      BY <1>3, <2>1, <2>2, StartStops DEF Goes, From, InStart, Claims
  <1>6. CASE StartInstall(t)
    <2>1. /\ Goes(t, "install", "each") /\ SameJob(t)
          /\ thread'[t].todo = Asked(thread[t].project,
                                     thread[t].names \cap DOMAIN thread[t].cfg.port)
      BY <1>1, <1>6, StartDoes DEF SameStart
    <2>2. Tame
      BY <1>6 DEF Tame, StartInstall, history
    <2>3. thread'[t].todo \subseteq Named(thread[t])
      BY <2>1 DEF Named, Asked
    <2> QED
      BY <1>3, <2>1, <2>2, <2>3, StartStops DEF Goes, From, InStart, Claims
  <1>7. CASE StartSkip(t)
    <2>1. /\ Goes(t, "each", "each") /\ SameJob(t)
          /\ thread'[t].todo \subseteq thread[t].todo
      BY <1>1, <1>7, StartDoes DEF SameStart
    <2>2. Tame
      BY <1>7 DEF Tame, StartSkip, history
    <2>3. thread[t].todo \subseteq Named(thread[t])
      BY <1>4, <2>1 DEF Aimed, InStart, Goes, From
    <2> QED
      BY <1>3, <2>1, <2>2, <2>3, StartStops DEF Goes, From, InStart, Claims
  <1>8. CASE StartClaim(t)
    <2>1. /\ Goes(t, "each", "inherit") /\ SameJob(t)
          /\ thread'[t].todo \subseteq thread[t].todo
          /\ thread'[t].key \in thread[t].todo
      BY <1>1, <1>8, StartDoes DEF SameStart
    <2>2. Tame
      BY <1>8 DEF Tame, StartClaim, history
    <2>3. thread[t].todo \subseteq Named(thread[t])
      BY <1>4, <2>1 DEF Aimed, InStart, Goes, From
    <2> QED
      BY <1>3, <2>1, <2>2, <2>3, StartStops DEF Goes, From, InStart, Claims
  <1>9. CASE StartInherit(t) \/ StartPrepare(t)
    <2>1. /\ Moves(t) /\ SameJob(t) /\ thread[t].pc \in {"inherit", "prepare"}
          /\ thread'[t].pc \in {"prepare", "spawn"}
          /\ thread'[t].todo = thread[t].todo /\ thread'[t].key = thread[t].key
      BY <1>1, <1>9, SpawnDoes DEF SameStart, Goes, From
    <2>2. Tame
      <3>1. CASE StartInherit(t)
        BY <3>1 DEF Tame, StartInherit, history
      <3>2. CASE StartPrepare(t)
        <4>1. PICK o \in Fresh, opened \in BOOLEAN : Prepares(t, o, opened)
          BY <1>1, <3>2, SpawnDoes
        <4>2. /\ o \in Procs /\ proc \in [Procs -> Objects] /\ Staged(proc[o])
              /\ proc[o].cfg = NoConfig
          BY DEF Fresh, SeqInv, Core, TypeOK, Shape, Stages
        <4>3. ~proc[o].live
          BY <4>2, SentinelAssumption DEF Staged
        <4>4. /\ proc'[o] = [proc[o] EXCEPT !.key = thread[t].key,
                                            !.cfg = thread[t].cfg,
                                            !.restarts = thread[t].count,
                                            !.stdio = opened]
              /\ \A q \in Procs \ {o} : proc'[q] = proc[q]
          BY <4>1, <4>2 DEF Prepares, Change
        <4>5. proc'[o].live = proc[o].live
          BY <4>2, <4>4 DEF Objects
        <4>6. halted' = halted
          BY <3>2 DEF StartPrepare, history
        <4> QED
          BY <4>3, <4>4, <4>5, <4>6 DEF Tame
      <3> QED
        BY <1>9, <3>1, <3>2
    <2>3. thread[t].todo \subseteq Named(thread[t]) /\ thread[t].key \in Named(thread[t])
      BY <1>4, <2>1 DEF Aimed, InStart, Claims
    <2> QED
      BY <1>3, <2>1, <2>2, <2>3, StartStops DEF InStart, Claims
  <1>10. CASE StartTrack(t)
    <2>1. /\ Goes(t, "track", "each") /\ SameJob(t)
          /\ thread'[t].todo = thread[t].todo
      BY <1>1, <1>10, SpawnDoes DEF SameStart
    <2>2. Tame
      BY <1>10 DEF Tame, StartTrack, history
    <2>3. thread[t].todo \subseteq Named(thread[t])
      BY <1>4, <2>1 DEF Aimed, InStart, Claims, Goes, From
    <2> QED
      BY <1>3, <2>1, <2>2, <2>3, StartStops DEF Goes, From, InStart, Claims
  <1> QED
    BY <1>5, <1>6, <1>7, <1>8, <1>9, <1>10

(* A request that ends, or goes on with what it neither stops nor starts. *)
LEMMA OtherStops ==
  ASSUME SeqInv, StopInv, NEW t \in Clients, Moves(t), Tame,
         thread[t].pc # "idle",
         \/ thread'[t] = Idle
         \/ SameJob(t) /\ thread'[t].pc \in {"register", "configure"}
  PROVE  StopInv'
  <1>1. StopSticks'
    BY TameSticks DEF StopInv
  <1>2. thread'[t].pc \in {"idle", "register", "configure"}
    BY DEF Idle
  <1>3. Sorted(thread'[t]) /\ Reached(thread[t])'
    BY <1>2 DEF Sorted, Reached, StopPlaces, InStart, Claims
  <1>4. Aimed(thread[t])'
    <2>1. thread'[t].pc \notin InStart \cup Claims
      BY <1>2 DEF InStart, Claims
    <2>2. CASE thread'[t] = Idle
      BY <2>1, <2>2 DEF Aimed, Idle
    <2>3. CASE SameJob(t)
      <3>1. Named(thread'[t]) = Named(thread[t])
        BY <2>3 DEF SameJob, Named
      <3>2. Aimed(thread[t])
        BY DEF StopInv
      <3>3. Named(thread[t])' = Named(thread'[t])
        BY DEF Named, Asked
      <3> QED
        BY <2>1, <2>3, <3>1, <3>2, <3>3 DEF Aimed, SameJob, Tame
    <2> QED
      BY <2>2, <2>3
  <1> QED
    BY <1>1, <1>3, <1>4, ClientMoves

LEMMA OtherKeepsStops ==
  ASSUME SeqInv, StopInv, NEW t \in Threads,
         \/ AddLoad(t) \/ AddRegister(t) \/ AddUnsaved(t) \/ AddInstall(t)
         \/ RemoveProject(t) \/ SaveFails(t)
         \/ StartLoad(t) /\ thread'[t].pc = "idle"
         \/ StartRefused(t) \/ StartFails(t)
  PROVE  StopInv'
  <1>1. TypeOK
    BY DEF SeqInv, Core
  <1>2. Tame
    BY DEF Tame, AddLoad, AddRegister, AddUnsaved, AddInstall, RemoveProject, SaveFails,
           StartLoad,
           StartRefused, StartFails, history
  <1>3. /\ Moves(t) /\ thread[t].pc # "idle"
        /\ \/ thread'[t] = Idle
           \/ SameJob(t) /\ thread'[t].pc \in {"register", "configure"}
    <2>1. CASE \/ AddLoad(t) \/ AddRegister(t) \/ AddUnsaved(t) \/ AddInstall(t)
               \/ RemoveProject(t)
      BY <1>1, <2>1, AddDoes DEF From, Goes, Returns, SameStart
    <2>2. CASE StartLoad(t) /\ thread'[t].pc = "idle"
      BY <1>1, <2>2, StartDoes DEF From, Goes, Returns
    <2>3. CASE StartRefused(t)
      BY <1>1, <2>3, StartDoes DEF From, Returns
    <2>4. CASE StartFails(t)
      BY <1>1, <2>4, SpawnDoes DEF From, Returns
    <2>5. CASE SaveFails(t)
      BY <1>1, <2>5, SaveDoes DEF From, Returns
    <2> QED
      BY <2>1, <2>2, <2>3, <2>4, <2>5
  <1>4. t \in Clients
    BY <1>3, OnlyClient
  <1> QED
    BY <1>2, <1>3, <1>4, OtherStops

(* The new child's key was asked to start, and nothing has halted it since. *)
LEMMA SpawnKeepsStops ==
  ASSUME SeqInv, StopInv, NEW t \in Threads, StartSpawn(t)
  PROVE  StopInv'
  <1>1. TypeOK /\ \A o \in Procs : proc[o] \in Objects
    BY DEF SeqInv, Core, TypeOK
  <1>2. /\ Moves(t) /\ thread[t].pc = "spawn" /\ thread'[t].pc = "track"
        /\ SameJob(t) /\ thread'[t].todo = thread[t].todo
        /\ thread'[t].key = thread[t].key
    BY <1>1, SpawnDoes DEF Goes, From, SameStart
  <1>3. t \in Clients
    BY <1>2, OnlyClient
  <1> DEFINE o == thread[t].hand
  <1>4. o \in Procs /\ proc[o].key = thread[t].key
    BY <1>2, <1>3 DEF SeqInv, Core, Shape, AllSound, Sound, Orderly, Equipped
  <1>5. /\ Sorted(thread[t]) /\ Aimed(thread[t]) /\ thread[t].op = "start"
        /\ thread[t].todo \subseteq Named(thread[t]) /\ thread[t].key \in Named(thread[t])
        /\ halted \cap Named(thread[t]) = {}
    BY <1>2, <1>3 DEF StopInv, Sorted, Aimed, InStart, Claims
  <1>6. /\ halted' = halted
        /\ proc'[o] = [proc[o] EXCEPT !.status = "running", !.live = TRUE, !.watch = "wait"]
        /\ \A q \in Procs \ {o} : proc'[q] = proc[q]
    BY <1>1, <1>4 DEF StartSpawn, Change, history, TypeOK
  <1>7. proc'[o].key = proc[o].key
    BY <1>1, <1>4, <1>6 DEF Objects
  <1> HIDE DEF o
  <1>8. StopSticks'
    BY <1>4, <1>5, <1>6, <1>7 DEF StopSticks, StopInv
  <1>9. Named(thread'[t]) = Named(thread[t]) /\ Named(thread[t])' = Named(thread'[t])
    BY <1>2 DEF Named, Asked, SameJob
  <1>10. Sorted(thread'[t]) /\ Reached(thread[t])'
    BY <1>2, <1>5 DEF Sorted, Reached, StopPlaces, InStart, Claims, SameJob
  <1>11. Aimed(thread[t])'
    BY <1>2, <1>5, <1>6, <1>9 DEF Aimed, SameJob
  <1> QED
    BY <1>2, <1>3, <1>8, <1>10, <1>11, ClientMoves

LEMMA SaveKeepsStops ==
  ASSUME SeqInv, StopInv, NEW t \in Threads, SaveMarshal(t) \/ SaveWrite(t)
  PROVE  StopInv'
  <1>1. TypeOK
    BY DEF SeqInv, Core
  <1>2. Moves(t) /\ thread[t].pc \in {"each", "stopEach", "write"}
    BY <1>1, SaveDoes DEF Goes, From, Returns
  <1>3. t \in Clients
    BY <1>2, OnlyClient
  <1>4. /\ Sorted(thread[t]) /\ Aimed(thread[t]) /\ Reached(thread[t])
        /\ StopSticks
    BY <1>3 DEF StopInv
  <1>5. CASE SaveMarshal(t)
    <2>1. /\ thread[t].pc \in {"each", "stopEach"} /\ thread'[t].pc = "write"
          /\ SameJob(t) /\ thread[t].todo = {} /\ thread'[t].todo = {}
      BY <1>1, <1>5, SaveDoes DEF From
    <2>2. UNCHANGED <<proc, halted>>
      BY <1>5 DEF SaveMarshal, history
    <2>3. Named(thread'[t]) = Named(thread[t]) /\ Named(thread[t])' = Named(thread'[t])
      BY <2>1 DEF Named, Asked, SameJob
    <2>4. Sorted(thread'[t]) /\ StopSticks'
      BY <1>4, <2>1, <2>2 DEF Sorted, InStart, Claims, StopPlaces, StopSticks
    <2>5. Aimed(thread[t])'
      BY <1>4, <2>1, <2>2, <2>3 DEF Aimed, SameJob, InStart, Claims
    <2>6. Reached(thread[t])'
      <3> SUFFICES ASSUME thread[t].op = "stop", NEW o \in Procs,
                          proc[o].live, proc[o].key \in Named(thread[t])
                   PROVE  FALSE
        BY <2>1, <2>2, <2>3 DEF Reached, SameJob
      <3>1. thread[t].pc = "stopEach"
        BY <1>4, <2>1 DEF Sorted, InStart
      <3> QED
        BY <1>4, <2>1, <3>1 DEF Reached, StopPlaces
    <2> QED
      BY <1>2, <1>3, <2>4, <2>5, <2>6, ClientMoves
  <1>6. CASE SaveWrite(t)
    <2>1. /\ thread[t].pc = "write" /\ proc' = proc
          /\ halted' = IF thread[t].op = "stop" THEN halted \cup Named(thread[t])
                                                ELSE halted
      BY <1>6 DEF SaveWrite, At, Named
    <2>2. StopSticks'
      BY <1>4, <2>1 DEF StopSticks, Reached, Sorted
    <2>3. CASE thread'[t] = Idle
      <3>1. Sorted(thread'[t]) /\ Reached(thread[t])' /\ Aimed(thread[t])'
        BY <2>3 DEF Sorted, Reached, Aimed, Idle, StopPlaces, InStart, Claims
      <3> QED
        BY <1>2, <1>3, <2>2, <3>1, ClientMoves
    <2>4. CASE thread'[t] # Idle
      <3>1. /\ thread[t].op = "restart" /\ thread'[t].op = "start"
            /\ thread'[t].pc = "lookup"
            /\ thread'[t].project = thread[t].project
            /\ thread'[t].names = thread[t].names
        BY <1>1, <1>6, <2>4, SaveDoes DEF Goes, Returns
      <3>2. Named(thread'[t]) = Named(thread[t]) /\ Named(thread[t])' = Named(thread'[t])
        BY <3>1 DEF Named, Asked
      <3>3. Sorted(thread'[t]) /\ Reached(thread[t])'
        BY <3>1 DEF Sorted, Reached, StopPlaces
      <3>4. Aimed(thread[t])'
        BY <1>4, <2>1, <3>1, <3>2 DEF Aimed, InStart, Claims
      <3> QED
        BY <1>2, <1>3, <2>2, <3>3, <3>4, ClientMoves
    <2> QED
      BY <2>3, <2>4
  <1> QED
    BY <1>5, <1>6

(* Inside Stop: what it has not ended yet it has still to do. *)
LEMMA StopStops ==
  ASSUME SeqInv, StopInv, NEW t \in Clients, Moves(t), Tame, SameJob(t),
         thread[t].pc \in StopPlaces, thread'[t].pc \in StopPlaces,
         \A o \in Procs :
           proc[o].live /\ proc[o].key \in Named(thread[t]) /\ proc'[o].live =>
             \/ proc[o].key \in thread'[t].todo
             \/ thread'[t].pc \in {"halt", "settle"} /\ thread'[t].hand = o
             \/ thread[t].op # "stop"
  PROVE  StopInv'
  <1>1. Sorted(thread[t]) /\ Aimed(thread[t])
    BY DEF StopInv
  <1>2. Named(thread'[t]) = Named(thread[t]) /\ Named(thread[t])' = Named(thread'[t])
    BY DEF Named, Asked, SameJob
  <1>3. Sorted(thread'[t])
    BY <1>1 DEF Sorted, SameJob, StopPlaces, InStart, Claims
  <1>4. Aimed(thread[t])'
    BY <1>1, <1>2 DEF Aimed, SameJob, Tame, StopPlaces, InStart, Claims
  <1>5. Reached(thread[t])'
    BY <1>2 DEF Reached, SameJob, Tame
  <1>6. StopSticks'
    BY TameSticks DEF StopInv
  <1> QED
    BY <1>3, <1>4, <1>5, <1>6, ClientMoves

LEMMA StopKeepsStops ==
  ASSUME SeqInv, StopInv, NEW t \in Threads,
         \/ StopTargets(t) \/ StopPick(t) \/ StopHalt(t) \/ StopIdle(t)
         \/ StopSettle(t) \/ StopForget(t)
  PROVE  StopInv'
  <1>1. TypeOK /\ \A o \in Procs : proc[o] \in Objects /\ Staged(proc[o])
    BY DEF SeqInv, Core, TypeOK, Shape, Stages
  <1>2. /\ Moves(t) /\ SameJob(t)
        /\ thread[t].pc \in StopPlaces /\ thread'[t].pc \in StopPlaces
    BY <1>1, StopDoes DEF Goes, From, StopPlaces
  <1>3. t \in Clients
    BY <1>2, OnlyClient DEF StopPlaces
  <1>4. halted' = halted
    BY DEF StopTargets, StopPick, StopHalt, StopIdle, StopSettle, StopForget, history
  <1>5. Reached(thread[t])
    BY <1>3 DEF StopInv
  <1>6. \A o \in Procs : proc[o].live =>
          /\ proc[o].key \in Keys
          /\ \/ processes[proc[o].key] = o
             \/ \E c \in Clients : Spawned(thread[c], o)
    BY LiveIsOwned
  <1>7. ASSUME thread[t].pc # "track"
        PROVE  \A o \in Procs : proc[o].live => processes[proc[o].key] = o
    <2>1. \A c \in Clients : c = t
      BY <1>3 DEF SeqInv, Sequential, OneAtATime
    <2> QED
      BY <1>6, <1>7, <2>1 DEF Spawned
  <1>8. CASE StopTargets(t)
    <2>1. /\ thread[t].pc = "targets"
          /\ thread'[t].todo = Targets(thread[t].project, thread[t].names)
      BY <1>1, <1>8, StopDoes DEF Goes, From
    <2>2. Tame
      BY <1>4, <1>8 DEF Tame, StopTargets
    <2>3. ASSUME NEW o \in Procs, proc[o].live, proc[o].key \in Named(thread[t])
          PROVE  proc[o].key \in thread'[t].todo
      <3>1. /\ proc[o].key \in Keys /\ processes[proc[o].key] = o
            /\ processes[proc[o].key] # NoProc
        BY <1>6, <1>7, <2>1, <2>3, SentinelAssumption
      <3>2. Matches(thread[t].project, proc[o].key)
        BY <2>3 DEF Matches, Named, Asked
      <3> QED
        BY <2>1, <2>3, <3>1, <3>2 DEF Targets, Named
    <2> QED
      BY <1>2, <1>3, <2>2, <2>3, StopStops
  <1>9. CASE StopPick(t)
    <2>1. /\ thread[t].pc = "stopEach" /\ thread'[t].pc = "halt"
          /\ thread'[t].todo = thread[t].todo \ {thread'[t].key}
          /\ thread'[t].hand = processes[thread'[t].key]
      BY <1>1, <1>9, StopDoes DEF Goes, From
    <2>2. Tame
      BY <1>4, <1>9 DEF Tame, StopPick
    <2>3. ASSUME NEW o \in Procs, proc[o].live, proc[o].key \in Named(thread[t]),
                 thread[t].op = "stop"
          PROVE  proc[o].key \in thread'[t].todo \/ thread'[t].hand = o
      <3>1. proc[o].key \in thread[t].todo
        BY <1>5, <2>1, <2>3 DEF Reached, StopPlaces
      <3>2. processes[proc[o].key] = o
        BY <1>7, <2>1, <2>3
      <3> QED
        BY <2>1, <3>1, <3>2
    <2> QED
      BY <1>2, <1>3, <2>1, <2>2, <2>3, StopStops
  <1>10. CASE StopHalt(t) \/ StopSettle(t)
    <2> DEFINE q == thread[t].hand
    <2>1. /\ thread'[t].todo = thread[t].todo /\ thread[t].pc \in {"halt", "settle"}
          /\ thread[t].pc = "halt" => thread'[t].pc = "settle" /\ thread'[t].hand = q
          /\ thread[t].pc = "settle" => StopSettle(t)
      BY <1>1, <1>10, StopDoes DEF Goes, From
    <2>2. q \in Procs
      BY <1>10, <2>1 DEF StopHalt, StopSettle, CanHalt, SeqInv, Core, Shape, AllSound, Sound,
         Goroutines, TypeOK, At
    <2>3. \E status \in {"stopping", "stopped"} :
            proc' = [proc EXCEPT ![q] = [proc[q] EXCEPT !.status = status]]
      BY <1>10 DEF StopHalt, StopSettle, Change
    <2>4. /\ proc'[q].live = proc[q].live /\ proc'[q].key = proc[q].key
          /\ \A o \in Procs \ {q} : proc'[o] = proc[o]
      BY <1>1, <2>2, <2>3 DEF Objects, TypeOK
    <2>5. thread[t].pc = "settle" => ~proc[q].live
      BY <1>1, <2>1, <2>2 DEF StopSettle, Awaited, Staged
    <2> HIDE DEF q
    <2>6. Tame
      BY <1>4, <2>2, <2>4 DEF Tame
    <2>7. ASSUME NEW o \in Procs, proc[o].live, proc[o].key \in Named(thread[t]),
                 thread[t].op = "stop"
          PROVE  \/ proc[o].key \in thread'[t].todo
                 \/ thread'[t].pc = "settle" /\ thread'[t].hand = o
      <3>1. proc[o].key \in thread[t].todo \/ thread[t].hand = o
        BY <1>5, <2>1, <2>7 DEF Reached, StopPlaces
      <3> QED
        BY <2>1, <2>5, <2>7, <3>1 DEF q
    <2> QED
      BY <1>2, <1>3, <2>6, <2>7, StopStops
  <1>11. CASE StopIdle(t)
    <2>1. thread[t].pc = "halt" /\ thread'[t].todo = thread[t].todo
      BY <1>1, <1>11, StopDoes DEF Goes, From
    <2>2. Tame
      BY <1>4, <1>11 DEF Tame, StopIdle
    <2>3. ASSUME NEW o \in Procs, proc[o].live, thread[t].hand = o
          PROVE  FALSE
      <3>1. proc[o].status # "running"
        BY <1>11, <2>3, SentinelAssumption DEF StopIdle, CanHalt
      <3>2. proc[o].status = "stopping"
        BY <1>1, <2>3, <3>1 DEF Staged, Objects
      <3>3. \E c \in Clients : thread[c].pc = "settle"
        BY <3>2 DEF SeqInv, Orderly, Owned, Halting
      <3> QED
        BY <1>3, <2>1, <3>3 DEF SeqInv, Sequential, OneAtATime
    <2>4. ASSUME NEW o \in Procs, proc[o].live, proc[o].key \in Named(thread[t]),
                 thread[t].op = "stop"
          PROVE  proc[o].key \in thread'[t].todo
      BY <1>5, <2>1, <2>3, <2>4 DEF Reached, StopPlaces
    <2> QED
      BY <1>2, <1>3, <2>2, <2>4, StopStops
  <1>12. CASE StopForget(t)
    <2>1. thread[t].pc = "forget" /\ thread'[t].todo = thread[t].todo
      BY <1>1, <1>12, StopDoes DEF Goes, From
    <2>2. Tame
      BY <1>4, <1>12 DEF Tame, StopForget
    <2>3. ASSUME NEW o \in Procs, proc[o].live, proc[o].key \in Named(thread[t]),
                 thread[t].op = "stop"
          PROVE  proc[o].key \in thread'[t].todo
      BY <1>5, <2>1, <2>3 DEF Reached, StopPlaces
    <2> QED
      BY <1>2, <1>3, <2>2, <2>3, StopStops
  <1> QED
    BY <1>8, <1>9, <1>10, <1>11, <1>12

LEMMA CallKeepsStops ==
  ASSUME SeqInv, StopInv, NEW c \in Clients, ClientCalls(c)
  PROVE  StopInv'
  <1>1. /\ Moves(c) /\ thread'[c].pc \in Entries
        /\ thread'[c].op \in Ops /\ thread'[c].pc = Entry[thread'[c].op]
        /\ IF thread'[c].op \in {"start", "restart"}
           THEN halted' = halted \ Named(thread'[c])
           ELSE halted' = halted
    BY CallDoes DEF SeqInv, Core, From, Named
  <1>2. StopSticks'
    BY <1>1 DEF ClientCalls, StopSticks, StopInv
  <1>3. Sorted(thread'[c])
    BY <1>1 DEF Sorted, Entries, Entry, Ops, InStart, Claims, StopPlaces
  <1>4. Reached(thread[c])'
    BY <1>1 DEF Reached, Entries, StopPlaces
  <1>5. Named(thread[c])' = Named(thread'[c])
    BY DEF Named, Asked
  <1>6. Aimed(thread[c])'
    BY <1>1, <1>5 DEF Aimed, Entries, InStart, Claims
  <1> QED
    BY <1>1, <1>2, <1>3, <1>4, <1>6, ClientMoves

LEMMA ProcessKeepsStops ==
  ASSUME SeqInv, StopInv, NEW o \in Procs, Exit(o) \/ CrashHandling(o)
  PROVE  StopInv'
  <1>1. Fades(o) /\ UNCHANGED <<thread, halted>>
    BY ProcessDoes
  <1>2. Tame
    BY <1>1 DEF Fades, Tame
  <1>3. StopSticks'
    BY <1>2, TameSticks DEF StopInv
  <1>4. ASSUME NEW c \in Clients
        PROVE  Sorted(thread[c])' /\ Aimed(thread[c])' /\ Reached(thread[c])'
    <2>1. Sorted(thread[c]) /\ Aimed(thread[c]) /\ Reached(thread[c])
      BY DEF StopInv
    <2>2. Named(thread[c])' = Named(thread[c])
      BY <1>1 DEF Named, Asked
    <2> QED
      BY <1>1, <1>2, <2>1, <2>2 DEF Sorted, Aimed, Reached, Tame
  <1> QED
    BY <1>3, <1>4 DEF StopInv

LEMMA StopInvStep == SeqInv /\ StopInv /\ [Next]_vars => StopInv'
  <1> SUFFICES ASSUME SeqInv, StopInv, [Next]_vars PROVE StopInv'
    OBVIOUS
  <1>1. CASE EditToml \/ UNCHANGED vars
    <2>1. UNCHANGED <<thread, proc, halted>>
      BY <1>1 DEF EditToml, vars, history
    <2> QED
      BY <2>1 DEF StopInv, Sorted, Aimed, Reached, StopSticks, Named, Asked
  <1>2. ASSUME NEW c \in Clients, ClientCalls(c) PROVE StopInv'
    BY <1>2, CallKeepsStops
  <1>3. ASSUME NEW t \in Threads, Operation(t) PROVE StopInv'
    BY <1>3, StartKeepsStops, OtherKeepsStops, SpawnKeepsStops, SaveKeepsStops,
       StopKeepsStops DEF Operation
  <1>4. ASSUME NEW o \in Procs, Exit(o) \/ CrashHandling(o) PROVE StopInv'
    BY <1>4, ProcessKeepsStops
  <1> QED
    BY <1>1, <1>2, <1>3, <1>4 DEF Next

LEMMA InitStop == Init => StopInv
  <1> SUFFICES ASSUME Init PROVE StopInv
    OBVIOUS
  <1>1. \A c \in Clients : thread[c] = Idle
    BY DEF Init, Threads
  <1>2. StopSticks
    BY DEF Init, StopSticks
  <1>3. Sorted(Idle) /\ Aimed(Idle) /\ Reached(Idle)
    BY DEF Sorted, Aimed, Reached, Idle, StopPlaces, InStart, Claims
  <1> QED
    BY <1>1, <1>2, <1>3 DEF StopInv

(* What `nanny stop` has ended stays ended until it is started again: Stop *)
(* reaches every live child it names (manager.go:457-479), and a Start has *)
(* in hand only keys it was asked for since (README.md:128).               *)
THEOREM StopsStick == Sequential /\ Spec => []StopSticks
  <1>1. StopInv => StopSticks
    BY DEF StopInv
  <1> QED
    BY <1>1, InitStop, SeqInvariance, StopInvStep, PTL DEF Spec

-----------------------------------------------------------------------------
(* What a step leaves alone for PortInv: nothing more runs than before.    *)
Keeps ==
  /\ UNCHANGED toml
  /\ \A o \in Procs : proc'[o].status = "running" =>
       /\ proc[o].status = "running"
       /\ proc'[o].key = proc[o].key /\ proc'[o].cfg = proc[o].cfg
       /\ configs'[ProjectOf(proc[o].key)] = configs[ProjectOf(proc[o].key)]
  /\ \A k \in Keys : processes'[k] # NoProc => processes'[k] = processes[k]

LEMMA KeepsRunning ==
  ASSUME SeqInv, Keeps, NEW j \in Keys, Running(j)'
  PROVE  /\ Running(j) /\ processes'[j] = processes[j] /\ processes[j] \in Procs
         /\ PortOf(processes[j])' = PortOf(processes[j])
  <1> DEFINE q == processes[j]
  <1>1. processes'[j] = q /\ q # NoProc /\ q \in Procs
    BY DEF Running, Keeps, SeqInv, Core, TypeOK
  <1>2. proc'[q].status = "running"
    BY <1>1 DEF Running
  <1>3. /\ proc[q].status = "running"
        /\ proc'[q].key = proc[q].key /\ proc'[q].cfg = proc[q].cfg
    BY <1>1, <1>2 DEF Keeps
  <1> QED
    BY <1>1, <1>3 DEF Running, PortOf

LEMMA KeepsPorts ==
  ASSUME SeqInv, PortInv, Keeps
  PROVE  Served' /\ PortsExclusive'
  <1>1. Served'
    BY DEF PortInv, Served, Keeps
  <1>2. PortsExclusive'
    BY KeepsRunning DEF PortInv, PortsExclusive
  <1> QED
    BY <1>1, <1>2

LEMMA ClientPorts ==
  ASSUME SeqInv, PortInv, NEW t \in Clients, Moves(t),
         Loaded(thread[t])', Within(thread'[t]), Chosen(thread[t])',
         Served', PortsExclusive'
  PROVE  PortInv'
  BY DEF SeqInv, Sequential, OneAtATime, PortInv, Unedited

(* A goroutine that claims nothing, or goes on with what it has claimed. *)
LEMMA QuietPorts ==
  ASSUME SeqInv, PortInv, NEW t \in Clients, Moves(t), Keeps,
         Loaded(thread[t])', Within(thread'[t]),
         thread'[t].pc \in Claims =>
           /\ thread[t].pc \in Claims
           /\ thread'[t].key = thread[t].key /\ thread'[t].cfg = thread[t].cfg
  PROVE  PortInv'
  <1>1. Served' /\ PortsExclusive'
    BY KeepsPorts
  <1>2. Chosen(thread[t])'
    <2> SUFFICES ASSUME thread'[t].pc \in Claims,
                        thread[t].cfg.port[NameOf(thread[t].key)] # 0,
                        NEW j \in Keys \ {thread[t].key}, Running(j)'
                 PROVE  PortOf(processes[j])' # thread[t].cfg.port[NameOf(thread[t].key)]
      BY DEF Chosen
    <2>1. Running(j) /\ PortOf(processes[j])' = PortOf(processes[j])
      BY KeepsRunning
    <2>2. Chosen(thread[t])
      BY DEF PortInv
    <2> QED
      BY <2>1, <2>2 DEF Chosen
  <1> QED
    BY <1>1, <1>2, ClientPorts

(* ... in particular outside Start. *)
LEMMA OutsidePorts ==
  ASSUME SeqInv, PortInv, NEW t \in Clients, Moves(t), Keeps,
         thread'[t].pc \notin {"register", "configure", "install"} \cup InStart
  PROVE  PortInv'
  <1>1. Loaded(thread[t])' /\ Within(thread'[t])
    BY DEF Loaded, Within, InStart
  <1> QED
    BY <1>1, QuietPorts DEF InStart

LEMMA OutsideKeepsPorts ==
  ASSUME SeqInv, PortInv, NEW t \in Threads,
         \/ AddLoad(t) /\ thread'[t].pc = "idle"
         \/ StartLoad(t) /\ thread'[t].pc = "idle"
         \/ StartRefused(t) \/ StartFails(t) \/ SaveMarshal(t) \/ SaveWrite(t)
         \/ SaveFails(t) \/ AddUnsaved(t)
         \/ StopTargets(t) \/ StopPick(t) \/ StopIdle(t) \/ StopForget(t)
  PROVE  PortInv'
  <1>1. TypeOK
    BY DEF SeqInv, Core
  <1>2. Keeps
    BY DEF Keeps, AddLoad, StartLoad, StartRefused, StartFails, SaveMarshal, SaveWrite,
           SaveFails, AddUnsaved,
           StopTargets, StopPick, StopIdle, StopForget, env, memory
  <1>3. /\ Moves(t) /\ thread[t].pc # "idle"
        /\ thread'[t].pc \notin {"register", "configure", "install"} \cup InStart
    <2>1. thread'[t] = Idle => thread'[t].pc = "idle"
      BY DEF Idle
    <2>2. CASE AddLoad(t) /\ thread'[t].pc = "idle"
      BY <1>1, <2>2, AddDoes DEF From, Goes, Returns, InStart, Claims
    <2>3. CASE StartLoad(t) /\ thread'[t].pc = "idle"
      BY <1>1, <2>3, StartDoes DEF From, Goes, Returns, InStart, Claims
    <2>4. CASE StartRefused(t)
      BY <1>1, <2>1, <2>4, StartDoes DEF From, Returns, InStart, Claims
    <2>5. CASE StartFails(t)
      BY <1>1, <2>1, <2>5, SpawnDoes DEF From, Returns, InStart, Claims
    <2>8. CASE AddUnsaved(t)
      BY <1>1, <2>1, <2>8, AddDoes DEF From, Returns, InStart, Claims
    <2>6. CASE SaveMarshal(t) \/ SaveWrite(t) \/ SaveFails(t)
      BY <1>1, <2>1, <2>6, SaveDoes DEF From, Goes, Returns, InStart, Claims
    <2>7. CASE StopTargets(t) \/ StopPick(t) \/ StopIdle(t) \/ StopForget(t)
      BY <1>1, <2>7, StopDoes DEF From, Goes, InStart, Claims
    <2> QED
      BY <2>2, <2>3, <2>4, <2>5, <2>6, <2>7, <2>8
  <1>4. t \in Clients
    BY <1>3, OnlyClient
  <1> QED
    BY <1>2, <1>3, <1>4, OutsidePorts

(* Process.Stop runs one object less. *)
LEMMA HaltKeepsPorts ==
  ASSUME SeqInv, PortInv, NEW t \in Threads, StopHalt(t) \/ StopSettle(t)
  PROVE  PortInv'
  <1> DEFINE o == thread[t].hand
  <1>1. TypeOK
    BY DEF SeqInv, Core
  <1>2. /\ Moves(t) /\ thread[t].pc \in {"halt", "settle"}
        /\ thread'[t].pc \in {"settle", "forget"}
    BY <1>1, StopDoes DEF Goes, From
  <1>3. t \in Clients
    BY <1>2, OnlyClient
  <1>4. o \in Procs
    BY <1>1 DEF StopHalt, StopSettle, CanHalt, SeqInv, Core, Shape, AllSound,
                Sound, At, Goroutines, TypeOK
  <1>5. \E status \in {"stopping", "stopped"} :
          proc' = [proc EXCEPT ![o] = [proc[o] EXCEPT !.status = status]]
    BY DEF StopHalt, StopSettle, Change
  <1>6. proc'[o].status # "running" /\ \A q \in Procs \ {o} : proc'[q] = proc[q]
    BY <1>1, <1>4, <1>5 DEF Objects, TypeOK
  <1>7. UNCHANGED <<toml, configs, processes>>
    BY DEF StopHalt, StopSettle, env, memory
  <1> HIDE DEF o
  <1>8. Keeps
    BY <1>4, <1>6, <1>7 DEF Keeps
  <1> QED
    BY <1>2, <1>3, <1>8, OutsidePorts DEF InStart, Claims

(* Remove drops the configuration of a project of which nothing runs. *)
LEMMA RemoveKeepsPorts ==
  ASSUME SeqInv, PortInv, NEW t \in Threads, RemoveProject(t)
  PROVE  PortInv'
  <1>1. TypeOK /\ Moves(t) /\ thread[t].pc = "remove" /\ thread'[t].pc = "idle"
    BY AddDoes DEF SeqInv, Core, Returns, From, Idle
  <1>2. t \in Clients /\ \A c \in Clients : c = t
    BY <1>1, OnlyClient
  <1>3. \A q \in Procs : proc[q].status = "running" =>
          proc[q].key \in Keys /\ processes[proc[q].key] = q
    BY <1>1, <1>2 DEF SeqInv, Core, Shape, Stages, Staged, Orderly, Owned, Spawned
  <1>4. CASE Busy(thread[t].project)
    <2>1. Keeps
      BY <1>4 DEF Keeps, RemoveProject, env
    <2> QED
      BY <1>1, <1>2, <2>1, OutsidePorts DEF InStart, Claims
  <1>5. CASE ~Busy(thread[t].project)
    <2> DEFINE p == thread[t].project
    <2>1. /\ UNCHANGED <<toml, proc>> /\ processes' = Drop(processes, p)
          /\ configs' = [configs EXCEPT ![p] = NoConfig]
      BY <1>5 DEF RemoveProject, env
    <2>2. \A q \in Procs : proc[q].status = "running" => ProjectOf(proc[q].key) # p
      BY <1>3, <1>5, SentinelAssumption DEF Busy, Matches, Running
    <2>3. \A q \in Procs : proc[q].status = "running" =>
            ProjectOf(proc[q].key) \in Projects
      BY <1>3 DEF ProjectOf, Keys
    <2> HIDE DEF p
    <2>4. \A x \in Projects : x # p => configs'[x] = configs[x]
      BY <1>1, <2>1 DEF TypeOK
    <2>5. \A k \in Keys : processes'[k] # NoProc => processes'[k] = processes[k]
      BY <2>1 DEF Drop
    <2>6. Keeps
      BY <2>1, <2>2, <2>3, <2>4, <2>5 DEF Keeps
    <2> QED
      BY <1>1, <1>2, <2>6, OutsidePorts DEF InStart, Claims
  <1> QED
    BY <1>4, <1>5

(* Reading a toml and loading what was read. *)
LEMMA LoadKeepsPorts ==
  ASSUME SeqInv, PortInv, NEW t \in Threads,
         \/ AddLoad(t) /\ thread'[t].pc # "idle"
         \/ StartLoad(t) /\ thread'[t].pc # "idle"
         \/ AddRegister(t)
  PROVE  PortInv'
  <1>1. TypeOK /\ Idle.pc = "idle"
    BY DEF SeqInv, Core, Idle
  <1>2. Keeps
    BY DEF Keeps, AddLoad, StartLoad, AddRegister, env, memory
  <1>3. /\ Moves(t) /\ thread[t].pc \in {"load", "lookup", "register"}
        /\ thread'[t].pc \in {"register", "install", "configure"} /\ SameJob(t)
        /\ \/ thread'[t].cfg = toml[thread[t].project]
           \/ thread[t].pc = "register" /\ thread'[t].cfg = thread[t].cfg
    <2>1. CASE (AddLoad(t) /\ thread'[t].pc # "idle") \/ AddRegister(t)
      BY <1>1, <2>1, AddDoes DEF From, Goes, Returns, SameStart
    <2>2. CASE StartLoad(t) /\ thread'[t].pc # "idle"
      BY <1>1, <2>2, StartDoes DEF From, Goes, Returns
    <2> QED
      BY <2>1, <2>2
  <1>4. t \in Clients
    BY <1>3, OnlyClient
  <1>5. thread'[t].cfg = toml[thread'[t].project]
    BY <1>3, <1>4 DEF PortInv, Loaded, SameJob
  <1>6. Loaded(thread[t])' /\ Within(thread'[t])
    BY <1>2, <1>3, <1>5 DEF Loaded, Within, Keeps, InStart, Claims
  <1> QED
    BY <1>2, <1>3, <1>4, <1>6, QuietPorts DEF Claims

LEMMA InstallKeepsPorts ==
  ASSUME SeqInv, PortInv, NEW t \in Threads, AddInstall(t) \/ StartInstall(t)
  PROVE  PortInv'
  <1> DEFINE p == thread[t].project
  <1>1. TypeOK /\ Idle.pc = "idle"
    BY DEF SeqInv, Core, Idle
  <1>2. Moves(t) /\ thread[t].pc \in {"configure", "install"}
    BY <1>1, AddDoes, StartDoes DEF Returns, Goes, From
  <1>3. t \in Clients
    BY <1>2, OnlyClient
  <1>4. thread[t].cfg = toml[p] /\ p \in Projects
    BY <1>2, <1>3 DEF PortInv, Loaded, SeqInv, Core, Shape, AllSound, Sound
  <1>5. /\ UNCHANGED <<toml, proc, processes>>
        /\ configs' = [configs EXCEPT ![p] = thread[t].cfg]
    BY DEF AddInstall, StartInstall, env
  <1>6. \A o \in Procs : proc[o].status = "running" =>
          /\ ProjectOf(proc[o].key) \in Projects
          /\ ProjectOf(proc[o].key) = p => configs[p] = toml[p]
    BY DEF PortInv, Served, SeqInv, Core, Shape, Stages, Staged, ProjectOf, Keys
  <1> HIDE DEF p
  <1>7. configs'[p] = toml[p] /\ \A x \in Projects \ {p} : configs'[x] = configs[x]
    BY <1>1, <1>4, <1>5 DEF TypeOK
  <1>8. Keeps
    BY <1>5, <1>6, <1>7 DEF Keeps
  <1>9. CASE AddInstall(t)
    BY <1>1, <1>3, <1>8, <1>9, AddDoes, OutsidePorts DEF Returns, From, InStart, Claims
  <1>10. CASE StartInstall(t)
    <2>1. /\ thread'[t].pc = "each" /\ SameStart(t)
          /\ thread'[t].todo = Asked(p, thread[t].names \cap DOMAIN thread[t].cfg.port)
      BY <1>1, <1>10, StartDoes DEF Goes, p
    <2>2. Loaded(thread[t])'
      BY <1>4, <1>5, <1>7, <2>1 DEF Loaded, SameStart, SameJob, p
    <2>3. Within(thread'[t])
      BY <2>1 DEF Within, Declares, Asked, SameStart, SameJob, Claims, p
    <2> QED
      BY <1>2, <1>3, <1>8, <2>1, <2>2, <2>3, QuietPorts DEF Claims
  <1> QED
    BY <1>9, <1>10

(* The loop skips a key, inherits a count or prepares an object. *)
LEMMA EachKeepsPorts ==
  ASSUME SeqInv, PortInv, NEW t \in Threads,
         StartSkip(t) \/ StartInherit(t) \/ StartPrepare(t)
  PROVE  PortInv'
  <1>1. TypeOK
    BY DEF SeqInv, Core
  <1>2. /\ Moves(t) /\ SameStart(t) /\ thread[t].pc \in {"each", "inherit", "prepare"}
        /\ thread'[t].pc \in {"each", "prepare", "spawn"}
        /\ thread'[t].todo \subseteq thread[t].todo
        /\ thread'[t].pc \in Claims =>
             thread[t].pc \in Claims /\ thread'[t].key = thread[t].key
    BY <1>1, StartDoes, SpawnDoes DEF Goes, From, Claims
  <1>3. t \in Clients
    BY <1>2, OnlyClient
  <1>4. Keeps
    <2>1. CASE StartSkip(t) \/ StartInherit(t)
      BY <2>1 DEF Keeps, StartSkip, StartInherit, env, memory
    <2>2. CASE StartPrepare(t)
      <3>1. PICK o \in Fresh, opened \in BOOLEAN : Prepares(t, o, opened)
        BY <1>1, <2>2, SpawnDoes
      <3>2. /\ o \in Procs /\ proc \in [Procs -> Objects] /\ Staged(proc[o])
            /\ proc[o].cfg = NoConfig
        BY DEF Fresh, SeqInv, Core, TypeOK, Shape, Stages
      <3>3. proc[o].status # "running"
        BY <3>2, SentinelAssumption DEF Staged
      <3>4. /\ proc'[o] = [proc[o] EXCEPT !.key = thread[t].key,
                                          !.cfg = thread[t].cfg,
                                          !.restarts = thread[t].count,
                                          !.stdio = opened]
            /\ \A q \in Procs \ {o} : proc'[q] = proc[q]
        BY <3>1, <3>2 DEF Prepares, Change
      <3>5. proc'[o].status = proc[o].status
        BY <3>2, <3>4 DEF Objects
      <3>6. UNCHANGED <<toml, configs, processes>>
        BY <2>2 DEF StartPrepare, env
      <3> QED
        BY <3>3, <3>4, <3>5, <3>6 DEF Keeps
    <2> QED
      BY <2>1, <2>2
  <1>5. UNCHANGED <<toml, configs>>
    BY DEF StartSkip, StartInherit, StartPrepare, env, memory
  <1>6. Loaded(thread[t]) /\ Within(thread[t]) /\ thread[t].pc \in InStart
    BY <1>2, <1>3 DEF PortInv, InStart, Claims
  <1>7. thread'[t].cfg = thread[t].cfg /\ thread'[t].project = thread[t].project
    BY <1>2 DEF SameStart, SameJob
  <1>8. Loaded(thread[t])'
    BY <1>2, <1>5, <1>6, <1>7 DEF Loaded
  <1>9. Within(thread'[t])
    BY <1>2, <1>6, <1>7 DEF Within, Declares
  <1> QED
    BY <1>2, <1>3, <1>4, <1>7, <1>8, <1>9, QuietPorts

(* What checkPortConflictLocked compares with, the loaded configurations,  *)
(* are those of the running children.                                      *)
LEMMA ClaimKeepsPorts ==
  ASSUME SeqInv, PortInv, NEW t \in Threads, StartClaim(t)
  PROVE  PortInv'
  <1>1. TypeOK
    BY DEF SeqInv, Core
  <1>2. /\ Moves(t) /\ SameStart(t) /\ thread[t].pc = "each" /\ thread'[t].pc = "inherit"
        /\ thread'[t].todo \subseteq thread[t].todo
        /\ thread'[t].key \in thread[t].todo
        /\ ~Conflict(thread'[t].key, thread[t].cfg.port[NameOf(thread'[t].key)])
    BY <1>1, StartDoes DEF Goes, From
  <1>3. t \in Clients
    BY <1>2, OnlyClient
  <1>4. UNCHANGED <<toml, configs, processes, proc>>
    BY DEF StartClaim, env, memory
  <1>5. Served' /\ PortsExclusive'
    BY <1>4 DEF PortInv, Served, PortsExclusive, Running, PortOf
  <1>6. Loaded(thread[t]) /\ Within(thread[t]) /\ thread[t].pc \in InStart
    BY <1>2, <1>3 DEF PortInv, InStart
  <1>7. thread'[t].cfg = thread[t].cfg /\ thread'[t].project = thread[t].project
    BY <1>2 DEF SameStart, SameJob
  <1>8. Loaded(thread[t])' /\ Within(thread'[t])
    BY <1>2, <1>4, <1>6, <1>7 DEF Loaded, Within, Declares
  <1>9. \A j \in Keys : Running(j) =>
          /\ configs[ProjectOf(j)] # NoConfig
          /\ NameOf(j) \in DOMAIN configs[ProjectOf(j)].port
          /\ PortOf(processes[j]) = configs[ProjectOf(j)].port[NameOf(j)]
    <2> SUFFICES ASSUME NEW j \in Keys, Running(j)
                 PROVE  /\ configs[ProjectOf(j)] # NoConfig
                        /\ NameOf(j) \in DOMAIN configs[ProjectOf(j)].port
                        /\ PortOf(processes[j]) = configs[ProjectOf(j)].port[NameOf(j)]
      OBVIOUS
    <2> DEFINE q == processes[j]
    <2>1. /\ q \in Procs /\ proc[q].status = "running" /\ proc[q].key = j
          /\ proc[q].cfg \in Configs
      BY <1>1 DEF Running, TypeOK, SeqInv, Core, Shape, Stages, Staged, Orderly, Mapped
    <2>2. proc[q].cfg = configs[ProjectOf(j)] /\ NameOf(j) \in DOMAIN proc[q].cfg.port
      BY <2>1 DEF PortInv, Served
    <2> QED
      BY <2>1, <2>2, SentinelAssumption DEF PortOf
  <1>10. Chosen(thread[t])'
    BY <1>2, <1>4, <1>7, <1>9 DEF Chosen, Conflict, Running, PortOf
  <1> QED
    BY <1>2, <1>3, <1>5, <1>8, <1>10, ClientPorts

LEMMA SpawnKeepsPorts ==
  ASSUME SeqInv, PortInv, NEW t \in Threads, StartSpawn(t)
  PROVE  PortInv'
  <1> DEFINE o == thread[t].hand
  <1>1. TypeOK
    BY DEF SeqInv, Core
  <1>2. /\ Moves(t) /\ SameStart(t) /\ thread[t].pc = "spawn" /\ thread'[t].pc = "track"
        /\ thread'[t].todo = thread[t].todo /\ thread'[t].key = thread[t].key
    BY <1>1, SpawnDoes DEF Goes, From
  <1>3. t \in Clients
    BY <1>2, OnlyClient
  <1>4. /\ o \in Procs /\ proc[o] \in Objects /\ proc[o].watch = "off"
        /\ proc[o].key = thread[t].key /\ proc[o].cfg = thread[t].cfg
    BY <1>1, <1>2, <1>3 DEF TypeOK, SeqInv, Core, Shape, AllSound, Sound, InHand,
                            Orderly, Equipped
  <1>5. proc'[o] = [proc[o] EXCEPT !.status = "running", !.live = TRUE, !.watch = "wait"]
    BY <1>1, <1>4 DEF TypeOK, StartSpawn, Change
  <1>6. /\ proc'[o].key = thread[t].key /\ proc'[o].cfg = thread[t].cfg
        /\ \A q \in Procs \ {o} : proc'[q] = proc[q]
    BY <1>1, <1>4, <1>5 DEF Objects, TypeOK, StartSpawn, Change
  <1>7. UNCHANGED <<toml, configs, processes>>
    BY DEF StartSpawn, env, memory
  <1>8. \A j \in Keys : processes[j] # NoProc => processes[j] \in Procs \ {o}
    BY <1>1, <1>4 DEF TypeOK, SeqInv, Orderly, Mapped
  <1> HIDE DEF o
  <1>9. \A j \in Keys : Running(j)' =>
          Running(j) /\ PortOf(processes[j])' = PortOf(processes[j])
    BY <1>6, <1>7, <1>8 DEF Running, PortOf
  <1>10. PortsExclusive'
    BY <1>7, <1>9 DEF PortInv, PortsExclusive
  <1>11. /\ Loaded(thread[t]) /\ Within(thread[t]) /\ Chosen(thread[t])
         /\ thread[t].pc \in InStart /\ thread[t].pc \in Claims
    BY <1>2, <1>3 DEF PortInv, InStart, Claims
  <1>12. /\ thread[t].cfg = toml[thread[t].project]
         /\ thread[t].cfg = configs[thread[t].project]
         /\ ProjectOf(thread[t].key) = thread[t].project
         /\ NameOf(thread[t].key) \in DOMAIN thread[t].cfg.port
    BY <1>11 DEF Loaded, Within, Declares
  <1>13. Served'
    BY <1>4, <1>6, <1>7, <1>12 DEF PortInv, Served
  <1>14. thread'[t].cfg = thread[t].cfg /\ thread'[t].project = thread[t].project
    BY <1>2 DEF SameStart, SameJob
  <1>15. Loaded(thread[t])' /\ Within(thread'[t])
    BY <1>2, <1>7, <1>11, <1>14 DEF Loaded, Within, Declares
  <1>16. Chosen(thread[t])'
    BY <1>2, <1>9, <1>11, <1>14 DEF Chosen
  <1> QED
    BY <1>2, <1>3, <1>10, <1>13, <1>15, <1>16, ClientPorts

(* The object tracked has the port chosen for its key. *)
LEMMA TrackKeepsPorts ==
  ASSUME SeqInv, PortInv, NEW t \in Threads, StartTrack(t)
  PROVE  PortInv'
  <1> DEFINE o == thread[t].hand
             k == thread[t].key
  <1>1. TypeOK
    BY DEF SeqInv, Core
  <1>2. /\ Moves(t) /\ SameStart(t) /\ thread[t].pc = "track" /\ thread'[t].pc = "each"
        /\ thread'[t].todo = thread[t].todo
    BY <1>1, SpawnDoes DEF Goes, From
  <1>3. t \in Clients
    BY <1>2, OnlyClient
  <1>4. /\ o \in Procs /\ k \in Keys
        /\ proc[o].key = k /\ proc[o].cfg = thread[t].cfg
    BY <1>2, <1>3 DEF SeqInv, Core, Shape, AllSound, Sound, Orderly, Equipped
  <1>5. /\ processes'[k] = o /\ \A j \in Keys \ {k} : processes'[j] = processes[j]
        /\ UNCHANGED <<toml, configs, proc>>
    BY <1>1, <1>4 DEF TypeOK, StartTrack, env
  <1>6. /\ Loaded(thread[t]) /\ Within(thread[t]) /\ Chosen(thread[t])
        /\ thread[t].pc \in InStart /\ thread[t].pc \in Claims
    BY <1>2, <1>3 DEF PortInv, InStart, Claims
  <1>7. Served'
    BY <1>5 DEF PortInv, Served
  <1>8. PortsExclusive'
    <2> DEFINE port == thread[t].cfg.port[NameOf(k)]
    <2>1. \A j \in Keys \ {k} :
            /\ Running(j)' => Running(j) /\ PortOf(processes[j])' = PortOf(processes[j])
            /\ Running(j) /\ port # 0 => PortOf(processes[j]) # port
      BY <1>5, <1>6 DEF Running, PortOf, Chosen
    <2>2. \A j \in Keys : j = k => PortOf(processes[j])' = port
      BY <1>4, <1>5 DEF PortOf
    <2> HIDE DEF o, k, port
    <2> SUFFICES ASSUME NEW i \in Keys, NEW j \in Keys, i # j, Running(i)', Running(j)',
                        PortOf(processes[i])' # 0
                 PROVE  PortOf(processes[i])' # PortOf(processes[j])'
      BY DEF PortsExclusive
    <2>3. CASE i = k
      BY <2>1, <2>2, <2>3
    <2>4. CASE j = k
      BY <2>1, <2>2, <2>4
    <2>5. CASE i # k /\ j # k
      BY <2>1, <2>5 DEF PortInv, PortsExclusive
    <2> QED
      BY <2>3, <2>4, <2>5
  <1>9. thread'[t].cfg = thread[t].cfg /\ thread'[t].project = thread[t].project
    BY <1>2 DEF SameStart, SameJob
  <1>10. Loaded(thread[t])' /\ Within(thread'[t])
    BY <1>2, <1>5, <1>6, <1>9 DEF Loaded, Within, Declares, Claims
  <1>11. Chosen(thread[t])'
    BY <1>2 DEF Chosen, Claims
  <1> QED
    BY <1>2, <1>3, <1>7, <1>8, <1>10, <1>11, ClientPorts

LEMMA PortStep == SeqInv /\ PortInv /\ [Next]_vars => PortInv'
  <1> SUFFICES ASSUME SeqInv, PortInv, [Next]_vars PROVE PortInv'
    OBVIOUS
  <1>1. CASE UNCHANGED vars
    BY <1>1 DEF vars, PortInv, Unedited, Loaded, Within, Declares, Chosen, Served,
                PortsExclusive, Running, PortOf
  <1>2. ~EditToml
    BY DEF EditToml, PortInv, Unedited, SeqInv, Core, TypeOK
  <1>3. ASSUME NEW c \in Clients, ClientCalls(c) PROVE PortInv'
    <2>1. Keeps
      BY <1>3 DEF ClientCalls, Keeps, memory
    <2>2. Moves(c) /\ thread'[c].pc \in Entries
      BY <1>3, CallDoes DEF SeqInv, Core, From
    <2> QED
      BY <2>1, <2>2, OutsidePorts DEF Entries, InStart, Claims
  <1>4. ASSUME NEW t \in Threads, Operation(t) PROVE PortInv'
    BY <1>4, OutsideKeepsPorts, HaltKeepsPorts, RemoveKeepsPorts, LoadKeepsPorts,
       InstallKeepsPorts, EachKeepsPorts, ClaimKeepsPorts, SpawnKeepsPorts,
       TrackKeepsPorts DEF Operation
  <1>5. ASSUME NEW o \in Procs, Exit(o) \/ CrashHandling(o) PROVE PortInv'
    <2>1. Fades(o) /\ UNCHANGED <<thread, toml, configs, processes>>
      BY <1>5, ProcessDoes DEF memory
    <2>2. Keeps
      BY <2>1 DEF Fades, Keeps
    <2>3. Served' /\ PortsExclusive'
      BY <2>2, KeepsPorts
    <2>4. ASSUME NEW c \in Clients
          PROVE  Loaded(thread[c])' /\ Within(thread[c])' /\ Chosen(thread[c])'
      <3>1. Loaded(thread[c]) /\ Within(thread[c]) /\ Chosen(thread[c])
        BY DEF PortInv
      <3>2. Loaded(thread[c])' /\ Within(thread[c])'
        BY <2>1, <3>1 DEF Loaded, Within, Declares
      <3>3. Chosen(thread[c])'
        BY <2>1, <2>2, <3>1, KeepsRunning DEF Chosen
      <3> QED
        BY <3>2, <3>3
    <2> QED
      BY <2>3, <2>4 DEF PortInv, Unedited
  <1> QED
    BY <1>1, <1>2, <1>3, <1>4, <1>5 DEF Next

(* While nobody edits a toml, no two running children were given the same  *)
(* port: the conflict check (manager.go:655) and the start that follows it *)
(* are not interrupted by another start.                                   *)
THEOREM PortsApart == Sequential /\ Unedited /\ Spec => []PortsExclusive
  <1>1. Unedited /\ Init => PortInv
    <2> SUFFICES ASSUME Unedited, Init PROVE PortInv
      OBVIOUS
    <2>1. \A c \in Clients : thread[c].pc = "idle"
      BY DEF Init, Threads, Idle
    <2>2. Served /\ PortsExclusive
      BY DEF Init, Served, PortsExclusive, Running, Unused
    <2> QED
      BY <2>1, <2>2 DEF PortInv, Loaded, Within, Chosen, InStart, Claims
  <1>2. PortInv => PortsExclusive
    BY DEF PortInv
  <1> QED
    BY <1>1, <1>2, SeqInvariance, PortStep, PTL DEF Spec

-----------------------------------------------------------------------------
(* What runtime.json has of the running children. *)

(* Of whatever toml, at most one of these names is declared. *)
OneName(names) == \A cfg \in Configs : \A m, n \in names \cap DOMAIN cfg.port : m = n

(* No request starts more than one process: another that fails to start    *)
(* would leave the first unsaved (manager_unsaved_start).                  *)
OneByOne == \A r \in Requests : r.op \in {"start", "restart"} => OneName(r.names)

(* runtime.json can be written whenever it is to be. *)
SavesWork == "save" \notin Faults

Single(g) == g.pc # "idle" /\ g.op \in {"start", "restart"} => OneName(g.names)

Alone(g) ==
  /\ g.pc = "each" => \A j, k \in g.todo : j = k
  /\ g.pc \in Claims => g.todo = {}

(* What Stop takes out of runtime does not run any more. *)
Doomed(g) ==
  /\ g.pc \in {"halt", "settle"} => g.hand = processes[g.key]
  /\ g.pc = "forget" => ~Running(g.key)

Entered == \A k \in Keys : Running(k) => runtime[k] = processes[k]

Copied(g) == g.pc = "write" => \A k \in Keys : Running(k) => g.snap[k] = processes[k]

(* Between tracking a child and writing runtime.json. *)
Unsaved(g) == g.pc = "write" \/ (g.pc = "each" /\ g.todo = {})

Written ==
  \A k \in Keys : Running(k) =>
    disk[k] = processes[k] \/ \E c \in Clients : Unsaved(thread[c])

SaveInv ==
  /\ OneByOne /\ SavesWork /\ Entered /\ Written
  /\ \A c \in Clients : /\ Single(thread[c]) /\ Alone(thread[c])
                        /\ Doomed(thread[c]) /\ Copied(thread[c])

(* What runs after a step ran before it, and is tracked as it was. *)
Lingers == \A k \in Keys : Running(k)' => Running(k) /\ processes'[k] = processes[k]

LEMMA OperationLingers ==
  ASSUME SeqInv, NEW t \in Threads, Operation(t), ~StartTrack(t)
  PROVE  Lingers
  <1>1. /\ TypeOK /\ proc \in [Procs -> Objects]
        /\ \A k \in Keys : processes[k] \in Procs \cup {NoProc}
        /\ \A k \in Keys : processes[k] # NoProc => proc[processes[k]].watch # "off"
    BY DEF SeqInv, Core, TypeOK, Orderly, Mapped
  <1>2. CASE UNCHANGED proc /\ ~RemoveProject(t)
    <2>1. UNCHANGED processes
      BY <1>2
         DEF Operation, AddLoad, AddRegister, AddUnsaved, AddInstall, StartLoad,
           StartInstall, StartSkip, StartRefused, StartClaim, StartInherit, StartFails,
           StartPrepare, StartSpawn, StopHalt, StopSettle,
           SaveMarshal, SaveWrite, SaveFails, StopTargets, StopPick, StopIdle, StopForget, memory
    <2> QED
      BY <1>2, <2>1 DEF Lingers, Running
  <1>3. CASE RemoveProject(t)
    <2>1. UNCHANGED proc /\ \A k \in Keys : processes'[k] \in {processes[k], NoProc}
      BY <1>3 DEF RemoveProject, Drop
    <2> QED
      BY <2>1 DEF Lingers, Running
  <1>4. CASE StartPrepare(t) \/ StartSpawn(t)
    (* What is made or spawned is not tracked yet. *)
    <2>1. PICK h \in Procs : /\ proc[h].watch = "off"
                             /\ \A o \in Procs \ {h} : proc'[o] = proc[o]
      <3>1. CASE StartPrepare(t)
        <4> DEFINE h == CHOOSE u \in Fresh : TRUE
        <4>1. h \in Fresh
          BY <3>1 DEF StartPrepare
        <4>2. h \in Procs /\ proc[h].cfg = NoConfig
          BY <4>1 DEF Fresh
        <4>3. proc[h].watch = "off"
          BY <4>2, SentinelAssumption DEF SeqInv, Core, Shape, Stages, Staged
        <4>4. \A o \in Procs \ {h} : proc'[o] = proc[o]
          BY <1>1, <3>1, <4>2 DEF StartPrepare, Change
        <4> QED
          BY <4>2, <4>3, <4>4
      <3>2. CASE StartSpawn(t)
        <4>1. thread[t].hand \in Procs /\ proc[thread[t].hand].watch = "off"
          BY <3>2 DEF StartSpawn, At, SeqInv, Core, Shape, AllSound, Sound, InHand
        <4> QED
          BY <1>1, <3>2, <4>1 DEF StartSpawn, Change
      <3> QED
        BY <1>4, <3>1, <3>2
    <2>2. UNCHANGED processes
      BY <1>4 DEF StartPrepare, StartSpawn, memory
    <2> QED
      BY <1>1, <2>1, <2>2 DEF Lingers, Running
  <1>5. CASE StopHalt(t) \/ StopSettle(t)
    <2>1. PICK h \in Procs, s \in {"stopping", "stopped"} :
                 Change(h, [proc[h] EXCEPT !.status = s])
      BY <1>5 DEF StopHalt, StopSettle, CanHalt, At, SeqInv, Core, TypeOK, Shape,
                  AllSound, Sound, Goroutines
    <2>2. proc'[h] = [proc[h] EXCEPT !.status = s]
          /\ \A o \in Procs \ {h} : proc'[o] = proc[o]
      BY <1>1, <2>1 DEF Change
    <2>3. proc'[h].status = s
      BY <1>1, <2>2 DEF Objects
    <2>4. UNCHANGED processes
      BY <1>5 DEF StopHalt, StopSettle, memory
    <2> QED
      BY <1>1, <2>2, <2>3, <2>4 DEF Lingers, Running
  <1> QED
    BY <1>2, <1>3, <1>4, <1>5
       DEF Operation, AddLoad, AddRegister, AddUnsaved, AddInstall, StartLoad,
           StartInstall, StartSkip, StartRefused, StartClaim, StartInherit, StartFails,
           SaveMarshal, SaveWrite, SaveFails, StopTargets, StopPick, StopIdle, StopForget

(* The client moves, and what it leaves unsaved it knows of. *)
LEMMA MoveSaves ==
  ASSUME SeqInv, SaveInv, NEW t \in Clients, Moves(t), Lingers, Entered',
         \/ UNCHANGED disk /\ (Unsaved(thread[t]) => Unsaved(thread[t])')
         \/ Written',
         (Single(thread[t]) /\ Alone(thread[t]) /\ Doomed(thread[t])
            /\ Copied(thread[t]))'
  PROVE  SaveInv'
  <1>1. \A c \in Clients : c = t
    BY DEF SeqInv, Sequential, OneAtATime
  <1>2. Written'
    <2>1. CASE UNCHANGED disk /\ (Unsaved(thread[t]) => Unsaved(thread[t])')
      BY <1>1, <2>1 DEF SaveInv, Written, Lingers
    <2> QED
      BY <2>1
  <1> QED
    BY <1>1, <1>2 DEF SaveInv, OneByOne, SavesWork, OneName

LEMMA EnteredLingers ==
  ASSUME SaveInv, Lingers, UNCHANGED runtime
  PROVE  Entered'
  BY DEF SaveInv, Lingers, Entered

LEMMA SingleLasts ==
  ASSUME SaveInv, NEW t \in Clients, SameJob(t) \/ thread'[t] = Idle,
         thread[t].pc # "idle"
  PROVE  Single(thread[t])'
  <1>1. Idle.pc = "idle"
    BY DEF Idle
  <1> QED
    BY <1>1 DEF SaveInv, Single, SameJob, OneName

(* Most operations save nothing and stop nothing. *)
LEMMA QuietSave ==
  ASSUME SeqInv, SaveInv, NEW t \in Clients, Moves(t), Lingers,
         UNCHANGED <<disk, runtime>>, thread[t].pc # "idle",
         ~Unsaved(thread[t]),
         SameJob(t) \/ thread'[t] = Idle, Alone(thread[t])',
         thread'[t].pc \notin {"write", "halt", "settle", "forget"}
  PROVE  SaveInv'
  <1>1. (Doomed(thread[t]) /\ Copied(thread[t]))'
    BY DEF Doomed, Copied
  <1> QED
    BY <1>1, EnteredLingers, SingleLasts, MoveSaves

LEMMA AddSaves ==
  ASSUME SeqInv, SaveInv, NEW t \in Threads,
         \/ AddLoad(t) \/ AddRegister(t) \/ AddUnsaved(t) \/ AddInstall(t)
         \/ RemoveProject(t) \/ StartLoad(t) \/ StartFails(t) \/ StopTargets(t)
  PROVE  SaveInv'
  <1>1. TypeOK
    BY DEF SeqInv, Core
  <1>2. Idle.pc = "idle"
    BY DEF Idle
  <1>3. /\ Moves(t) /\ (SameJob(t) \/ thread'[t] = Idle)
        /\ thread[t].pc \in {"load", "register", "configure", "remove", "lookup",
                             "spawn", "prepare", "targets"}
        /\ thread'[t].pc \in {"idle", "register", "configure", "install", "stopEach"}
    <2>1. CASE \/ AddLoad(t) \/ AddRegister(t) \/ AddUnsaved(t) \/ AddInstall(t)
               \/ RemoveProject(t)
      BY <1>1, <1>2, <2>1, AddDoes DEF Returns, Goes, From, SameStart
    <2>2. CASE StartLoad(t)
      BY <1>1, <1>2, <2>2, StartDoes DEF Returns, Goes, From
    <2>3. CASE StartFails(t)
      BY <1>1, <1>2, <2>3, SpawnDoes DEF Returns, Goes, From
    <2>4. CASE StopTargets(t)
      BY <1>1, <2>4, StopDoes DEF Goes, From
    <2> QED
      BY <2>1, <2>2, <2>3, <2>4
  <1>4. t \in Clients
    BY <1>3, OnlyClient
  <1>5. UNCHANGED <<disk, runtime>>
    BY DEF AddLoad, AddRegister, AddUnsaved, AddInstall, RemoveProject, StartLoad, StartFails,
           StopTargets, memory
  <1>6. Lingers
    <2>1. ~StartTrack(t)
      BY <1>3 DEF StartTrack, At
    <2> QED
      BY <2>1, OperationLingers DEF Operation
  <1>7. ~Unsaved(thread[t]) /\ Alone(thread[t])' /\ thread[t].pc # "idle"
    BY <1>3 DEF Unsaved, Alone, Claims
  <1> QED
    BY <1>3, <1>4, <1>5, <1>6, <1>7, QuietSave

LEMMA StartSaves ==
  ASSUME SeqInv, SaveInv, StopInv, NEW t \in Threads,
         \/ StartInstall(t) \/ StartSkip(t) \/ StartRefused(t) \/ StartClaim(t)
         \/ StartInherit(t) \/ StartPrepare(t) \/ StartSpawn(t)
  PROVE  SaveInv'
  <1>1. TypeOK /\ Sound(thread[t])
    BY DEF SeqInv, Core, Shape, AllSound
  <1>2. Idle.pc = "idle"
    BY DEF Idle
  <1>3. /\ Moves(t) /\ (SameJob(t) \/ thread'[t] = Idle)
        /\ thread[t].pc \in {"install", "each", "inherit", "prepare", "spawn"}
        /\ thread'[t].pc \in {"idle", "each", "inherit", "prepare", "spawn", "track"}
    <2>1. CASE StartInstall(t) \/ StartSkip(t) \/ StartRefused(t) \/ StartClaim(t)
      BY <1>1, <1>2, <2>1, StartDoes DEF Returns, Goes, From, SameStart
    <2>2. CASE StartInherit(t) \/ StartPrepare(t) \/ StartSpawn(t)
      BY <1>1, <2>2, SpawnDoes DEF Goes, From, SameStart
    <2> QED
      BY <2>1, <2>2
  <1>4. t \in Clients
    BY <1>3, OnlyClient
  <1>5. UNCHANGED <<disk, runtime>>
    BY DEF StartInstall, StartSkip, StartRefused, StartClaim, StartInherit,
           StartPrepare, StartSpawn, memory
  <1>6. Lingers
    <2>1. ~StartTrack(t)
      BY <1>3 DEF StartTrack, At
    <2> QED
      BY <2>1, OperationLingers DEF Operation
  <1>7. ~Unsaved(thread[t])
    <2>1. CASE StartSkip(t) \/ StartRefused(t) \/ StartClaim(t)
      <3>1. thread[t].todo # {} /\ thread[t].pc = "each"
        BY <2>1 DEF StartSkip, StartRefused, StartClaim, At
      <3> QED
        BY <3>1 DEF Unsaved
    <2>2. CASE StartInstall(t) \/ StartInherit(t) \/ StartPrepare(t) \/ StartSpawn(t)
      BY <2>2 DEF Unsaved, StartInstall, StartInherit, StartPrepare, StartSpawn, At
    <2> QED
      BY <2>1, <2>2
  <1>8. Single(thread[t]) /\ Alone(thread[t]) /\ Sorted(thread[t])
    BY <1>4 DEF SaveInv, StopInv
  <1>9. Alone(thread[t])'
    <2>1. CASE StartInstall(t)
      <3>1. /\ thread'[t].pc = "each" /\ thread[t].pc = "install"
            /\ thread'[t].todo = Asked(thread[t].project,
                                       thread[t].names \cap DOMAIN thread[t].cfg.port)
        BY <1>1, <2>1, StartDoes DEF Goes, From
      <3>2. \A m, n \in thread[t].names \cap DOMAIN thread[t].cfg.port : m = n
        BY <1>1, <1>8, <3>1 DEF Single, OneName, Sorted, Sound
      <3>3. \A j, k \in thread'[t].todo : j = k
        BY <3>1, <3>2 DEF Asked, Keys, ProjectOf, NameOf
      <3> QED
        BY <3>1, <3>3 DEF Alone, Claims
    <2>2. CASE StartSkip(t)
      <3>1. /\ thread'[t].pc = "each" /\ thread[t].pc = "each"
            /\ thread'[t].todo \subseteq thread[t].todo
        BY <1>1, <2>2, StartDoes DEF Goes, From
      <3> QED
        BY <1>8, <3>1 DEF Alone, Claims
    <2>3. CASE StartRefused(t)
      BY <1>1, <1>2, <2>3, StartDoes DEF Returns, Alone, Claims
    <2>4. CASE StartClaim(t)
      <3>1. /\ thread'[t].pc = "inherit" /\ thread[t].pc = "each"
            /\ thread'[t].key \in thread[t].todo
            /\ thread'[t].todo = thread[t].todo \ {thread'[t].key}
        BY <1>1, <2>4, StartDoes DEF Goes, From
      <3> QED
        BY <1>8, <3>1 DEF Alone, Claims
    <2>5. CASE StartInherit(t) \/ StartPrepare(t) \/ StartSpawn(t)
      <3>1. /\ thread'[t].pc \in Claims /\ thread[t].pc \in Claims
            /\ thread'[t].todo = thread[t].todo
        BY <1>1, <2>5, SpawnDoes DEF Goes, From, Claims
      <3> QED
        BY <1>8, <3>1 DEF Alone, Claims
    <2> QED
      BY <2>1, <2>2, <2>3, <2>4, <2>5
  <1>10. thread[t].pc # "idle" /\ thread'[t].pc \notin {"write", "halt", "settle", "forget"}
    BY <1>3
  <1> QED
    BY <1>3, <1>4, <1>5, <1>6, <1>7, <1>9, <1>10, QuietSave

LEMMA TrackSaves ==
  ASSUME SeqInv, SaveInv, NEW t \in Threads, StartTrack(t)
  PROVE  SaveInv'
  <1>1. TypeOK /\ Sound(thread[t])
    BY DEF SeqInv, Core, Shape, AllSound
  <1>2. Goes(t, "track", "each") /\ SameJob(t) /\ thread'[t].todo = thread[t].todo
    BY <1>1, SpawnDoes DEF SameStart
  <1>3. t \in Clients /\ \A c \in Clients : c = t
    BY <1>2, OnlyClient DEF Goes, From
  <1>4. thread[t].todo = {} /\ thread[t].pc = "track"
    BY <1>2, <1>3 DEF SaveInv, Alone, Claims, Goes, From
  <1>5. Unsaved(thread[t])' /\ Alone(thread[t])'
    BY <1>2, <1>4 DEF Unsaved, Alone, Claims, Goes
  <1>6. (Doomed(thread[t]) /\ Copied(thread[t]))'
    BY <1>2 DEF Doomed, Copied, Goes
  <1>7. Single(thread[t])'
    BY <1>2, <1>3, <1>4, SingleLasts
  <1>8. Entered'
    <2>1. thread[t].key \in Keys /\ thread[t].hand \in Procs
      BY <1>1, <1>4 DEF Sound
    <2>2. /\ UNCHANGED proc
          /\ \A k \in Keys : \/ processes'[k] = processes[k] /\ runtime'[k] = runtime[k]
                             \/ processes'[k] = runtime'[k]
      BY <1>1, <2>1 DEF StartTrack, TypeOK
    <2> QED
      BY <2>2 DEF SaveInv, Entered, Running
  <1>9. Written'
    BY <1>3, <1>5 DEF Written
  <1>10. Moves(t)
    BY <1>2 DEF Goes, From
  <1> QED
    BY <1>3, <1>5, <1>6, <1>7, <1>8, <1>9 DEF SaveInv, OneByOne, SavesWork, OneName

LEMMA WriteSaves ==
  ASSUME SeqInv, SaveInv, StopInv, NEW t \in Threads, SaveMarshal(t) \/ SaveWrite(t)
  PROVE  SaveInv'
  <1>1. TypeOK /\ thread[t] \in Goroutines
    BY DEF SeqInv, Core, TypeOK
  <1>2. Moves(t) /\ thread[t].pc # "idle"
    BY <1>1, SaveDoes DEF Returns, Goes, From
  <1>3. t \in Clients
    BY <1>2, OnlyClient
  <1>4. UNCHANGED <<runtime, processes, proc>>
    BY DEF SaveMarshal, SaveWrite, memory
  <1>5. Lingers
    BY <1>4 DEF Lingers, Running
  <1>6. Entered'
    BY <1>4, <1>5, EnteredLingers
  <1>7. CASE SaveMarshal(t)
    <2>1. thread'[t].pc = "write" /\ SameJob(t)
      BY <1>1, <1>7, SaveDoes
    <2>2. thread'[t].snap = runtime
      <3>1. thread'[t] = [thread[t] EXCEPT !.pc = "write", !.snap = runtime]
        BY <1>1, <1>7, Moved DEF SaveMarshal
      <3> QED
        BY <1>1, <3>1 DEF Goroutines
    <2>3. Copied(thread[t])'
      BY <1>4, <1>6, <2>2 DEF Copied, Entered
    <2>4. (Alone(thread[t]) /\ Doomed(thread[t]) /\ Unsaved(thread[t]))'
      BY <2>1 DEF Alone, Claims, Doomed, Unsaved
    <2>5. Single(thread[t])' /\ UNCHANGED disk
      BY <1>2, <1>3, <1>7, <2>1, SingleLasts DEF SaveMarshal
    <2> QED
      BY <1>2, <1>3, <1>5, <1>6, <2>3, <2>4, <2>5, MoveSaves
  <1>8. CASE SaveWrite(t)
    <2>1. /\ thread[t].pc = "write" /\ disk' = thread[t].snap
          /\ thread'[t].pc \in {"idle", "lookup"}
          /\ thread'[t].pc # "idle" => /\ thread[t].op = "restart"
                                       /\ thread'[t].names = thread[t].names
      <3>1. Idle.pc = "idle"
        BY DEF Idle
      <3>2. disk' = thread[t].snap
        BY <1>8 DEF SaveWrite
      <3> QED
        BY <1>1, <1>8, <3>1, <3>2, SaveDoes DEF Returns, Goes, From
    <2>2. Single(thread[t]) /\ Copied(thread[t])
      BY <1>3 DEF SaveInv
    <2>3. Written'
      BY <1>4, <2>1, <2>2 DEF Written, Copied, Running
    <2>4. (Alone(thread[t]) /\ Doomed(thread[t]) /\ Copied(thread[t]))'
      BY <2>1 DEF Alone, Claims, Doomed, Copied
    <2>5. Single(thread[t])'
      BY <2>1, <2>2 DEF Single, OneName
    <2> QED
      BY <1>2, <1>3, <1>5, <1>6, <2>3, <2>4, <2>5, MoveSaves
  <1> QED
    BY <1>7, <1>8

LEMMA StopSaves ==
  ASSUME SeqInv, SaveInv, NEW t \in Threads,
         StopPick(t) \/ StopHalt(t) \/ StopIdle(t) \/ StopSettle(t) \/ StopForget(t)
  PROVE  SaveInv'
  <1>1. TypeOK /\ thread[t] \in Goroutines /\ Sound(thread[t])
    BY DEF SeqInv, Core, TypeOK, Shape, AllSound
  <1>2. /\ Moves(t) /\ SameJob(t)
        /\ thread[t].pc \in {"stopEach", "halt", "settle", "forget"}
        /\ thread'[t].pc \in {"stopEach", "halt", "settle", "forget"}
    BY <1>1, StopDoes DEF Goes, From
  <1>3. t \in Clients
    BY <1>2, OnlyClient
  <1>4. Lingers
    <2>1. ~StartTrack(t)
      BY <1>2 DEF StartTrack, At
    <2> QED
      BY <2>1, OperationLingers DEF Operation
  <1>5. UNCHANGED <<disk, processes>>
    BY DEF StopPick, StopHalt, StopIdle, StopSettle, StopForget, memory
  <1>6. Doomed(thread[t]) /\ Single(thread[t])'
    BY <1>2, <1>3, SingleLasts DEF SaveInv
  <1>7. Alone(thread[t])' /\ Copied(thread[t])' /\ ~Unsaved(thread[t])
    BY <1>2 DEF Alone, Copied, Claims, Unsaved
  <1>8. Entered' /\ Doomed(thread[t])'
    <2>1. CASE StopPick(t)
      <3>1. thread'[t].pc = "halt" /\ thread'[t].hand = processes[thread'[t].key]
        BY <1>1, <2>1, StopDoes DEF Goes
      <3> QED
        BY <1>4, <1>5, <2>1, <3>1, EnteredLingers DEF Doomed, StopPick, memory
    <2>2. CASE StopHalt(t)
      <3>1. /\ thread[t].pc = "halt" /\ thread'[t].pc = "settle"
            /\ thread'[t].hand = thread[t].hand /\ thread'[t].key = thread[t].key
        BY <1>1, <2>2, Moved DEF StopHalt, At, Goto, Goroutines
      <3> QED
        BY <1>4, <1>5, <1>6, <2>2, <3>1, EnteredLingers DEF Doomed, StopHalt, memory
    <2>3. CASE StopIdle(t)
      <3>1. /\ thread[t].pc = "halt" /\ thread'[t].pc = "forget"
            /\ thread'[t].key = thread[t].key
        <4>1. thread'[t] = [thread[t] EXCEPT !.pc = "forget", !.hand = NoProc]
          BY <1>1, <2>3, Moved DEF StopIdle
        <4> QED
          BY <1>1, <2>3, <4>1 DEF StopIdle, At, Goroutines
      <3>2. ~Running(thread[t].key)'
        BY <1>6, <2>3, <3>1 DEF StopIdle, CanHalt, Doomed, Running, memory
      <3> QED
        BY <1>4, <2>3, <3>1, <3>2, EnteredLingers DEF Doomed, StopIdle, memory, Running
    <2>4. CASE StopSettle(t)
      <3>1. /\ thread[t].pc = "settle" /\ thread'[t].pc = "forget"
            /\ thread'[t].key = thread[t].key
        <4>1. thread'[t] = [thread[t] EXCEPT !.pc = "forget", !.hand = NoProc]
          BY <1>1, <2>4, Moved DEF StopSettle
        <4> QED
          BY <1>1, <2>4, <4>1 DEF StopSettle, At, Goroutines
      <3>2. thread[t].hand \in Procs /\ thread[t].hand = processes[thread[t].key]
        BY <1>1, <1>6, <3>1 DEF Sound, Doomed
      <3>3. proc'[thread[t].hand].status = "stopped"
        BY <1>1, <2>4, <3>2 DEF StopSettle, Change, TypeOK, Objects
      <3>4. ~Running(thread[t].key)'
        BY <1>5, <3>1, <3>2, <3>3 DEF Running
      <3> QED
        BY <1>4, <2>4, <3>1, <3>4, EnteredLingers DEF Doomed, StopSettle, memory, Running
    <2>5. CASE StopForget(t)
      <3>1. /\ thread[t].pc = "forget" /\ thread'[t].pc = "stopEach"
            /\ thread[t].key \in Keys
        BY <1>1, <2>5, StopDoes DEF Goes, From, Sound
      <3>2. /\ runtime' = [runtime EXCEPT ![thread[t].key] = NoProc]
            /\ UNCHANGED <<proc, processes>>
        BY <2>5 DEF StopForget
      <3>3. ~Running(thread[t].key)
        BY <1>6, <3>1 DEF Doomed
      <3>4. \A k \in Keys : k # thread[t].key => runtime'[k] = runtime[k]
        BY <1>1, <3>1, <3>2 DEF TypeOK
      <3>5. Entered'
        BY <3>2, <3>3, <3>4 DEF Entered, SaveInv, Running
      <3> QED
        BY <3>1, <3>5 DEF Doomed
    <2> QED
      BY <2>1, <2>2, <2>3, <2>4, <2>5
  <1> QED
    BY <1>2, <1>3, <1>4, <1>5, <1>6, <1>7, <1>8, MoveSaves

LEMMA CallSaves ==
  ASSUME SeqInv, SaveInv, NEW c \in Clients, ClientCalls(c)
  PROVE  SaveInv'
  <1>1. c \in Threads /\ thread[c] \in Goroutines /\ TypeOK
    BY DEF SeqInv, Core, TypeOK, Threads
  <1>2. Moves(c) /\ thread'[c].pc \in Entries /\ thread[c].pc = "idle"
    BY <1>1, CallDoes DEF From
  <1>3. UNCHANGED <<proc, processes, disk, runtime>>
    BY DEF ClientCalls, memory
  <1>4. Lingers
    BY <1>3 DEF Lingers, Running
  <1>5. PICK r \in Requests : Become(c, [thread[c] EXCEPT !.pc = Entry[r.op],
                                                          !.op = r.op,
                                                          !.project = r.project,
                                                          !.names = r.names])
    BY DEF ClientCalls
  <1>6. thread'[c].op = r.op /\ thread'[c].names = r.names
    <2>1. thread'[c] = [thread[c] EXCEPT !.pc = Entry[r.op], !.op = r.op,
                                         !.project = r.project, !.names = r.names]
      BY <1>1, <1>5, Moved
    <2> QED
      BY <1>1, <2>1 DEF Goroutines
  <1>7. Single(thread[c])'
    BY <1>6 DEF Single, SaveInv, OneByOne
  <1>8. (Alone(thread[c]) /\ Doomed(thread[c]) /\ Copied(thread[c]))' /\ ~Unsaved(thread[c])
    BY <1>2 DEF Alone, Doomed, Copied, Claims, Entries, Unsaved
  <1> QED
    BY <1>2, <1>3, <1>4, <1>7, <1>8, EnteredLingers, MoveSaves

LEMMA ProcessSaves ==
  ASSUME SeqInv, SaveInv, NEW o \in Procs, Exit(o) \/ CrashHandling(o)
  PROVE  SaveInv'
  <1>1. Fades(o) /\ UNCHANGED <<thread, runtime, processes>>
    BY ProcessDoes DEF memory
  <1>2. UNCHANGED disk
    BY DEF Exit, CrashHandling, WatchJudge, OnCrash, CrashDecide, BackoffElapsed
  <1>3. \A k \in Keys : Running(k)' => Running(k)
    BY <1>1 DEF Running, Fades, SeqInv, Core, TypeOK
  <1>4. Lingers
    BY <1>1, <1>3 DEF Lingers
  <1>5. \A c \in Clients : (thread[c].pc = "forget" => thread[c].key \in Keys)
    BY DEF SeqInv, Core, Shape, AllSound, Sound, Threads
  <1>6. \A c \in Clients : (Single(thread[c]) /\ Alone(thread[c])
                              /\ Doomed(thread[c]) /\ Copied(thread[c]))'
    BY <1>1, <1>3, <1>5 DEF SaveInv, Single, OneName, Alone, Doomed, Copied
  <1>7. Written'
    BY <1>1, <1>2, <1>3 DEF SaveInv, Written, Unsaved
  <1> QED
    BY <1>1, <1>4, <1>6, <1>7, EnteredLingers DEF SaveInv, OneByOne, SavesWork, OneName

LEMMA SaveInvStep == SeqInv /\ StopInv /\ SaveInv /\ [Next]_vars => SaveInv'
  <1> SUFFICES ASSUME SeqInv, StopInv, SaveInv, [Next]_vars PROVE SaveInv'
    OBVIOUS
  <1>1. CASE EditToml \/ UNCHANGED vars
    <2>1. UNCHANGED <<proc, thread, runtime, processes, disk>>
      BY <1>1 DEF EditToml, vars, memory
    <2> QED
      BY <2>1 DEF SaveInv, OneByOne, SavesWork, OneName, Entered, Written, Running, Unsaved,
                  Single, Alone, Doomed, Copied
  <1>2. ASSUME NEW t \in Threads, Operation(t) PROVE SaveInv'
    <2>1. ~SaveFails(t)
      BY DEF SaveFails, SaveInv, SavesWork
    <2> QED
      BY <1>2, <2>1, AddSaves, StartSaves, TrackSaves, WriteSaves,
         StopSaves DEF Operation
  <1> QED
    BY <1>1, <1>2, CallSaves, ProcessSaves DEF Next

(* One request at a time, none of which starts more than one process, no   *)
(* automatic restarts, and a runtime.json that can be written: whenever    *)
(* nothing is being served, it has the pid of every running child, for the *)
(* next daemon to adopt (manager.go:444-451, 475-479).                     *)
THEOREM SavedWhenAtRest == Sequential /\ OneByOne /\ SavesWork /\ Spec => []SavedAtRest
  <1> SUFFICES ASSUME Sequential, OneByOne, SavesWork PROVE Spec => []SavedAtRest
    OBVIOUS
  <1>1. Init => SaveInv
    <2> SUFFICES ASSUME Init PROVE SaveInv
      OBVIOUS
    <2>1. \A c \in Clients : thread[c] = Idle
      BY DEF Init, Threads
    <2> QED
      <3>1. \A k \in Keys : ~Running(k)
        BY DEF Init, Running
      <3>2. Single(Idle) /\ Alone(Idle) /\ Doomed(Idle) /\ Copied(Idle)
        BY DEF Single, Alone, Doomed, Copied, Claims, Idle
      <3> QED
        BY <2>1, <3>1, <3>2 DEF SaveInv, Entered, Written
  <1>2. SeqInv /\ SaveInv => SavedAtRest
    BY DEF SaveInv, Written, Unsaved, SavedAtRest, AtRest, At, Threads
  <1> QED
    BY <1>1, <1>2, InitStop, SeqInvariance, StopInvStep, SaveInvStep, PTL DEF Spec
=============================================================================
