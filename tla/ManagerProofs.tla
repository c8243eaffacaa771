--------------------------- MODULE ManagerProofs ---------------------------
(***************************************************************************)
(* Proofs about the manager that hold for every number of projects,        *)
(* processes, clients, objects, requests and edits.                        *)
(*                                                                         *)
(* Core is the inductive invariant: it says what a goroutine holds at each *)
(* place of its program (Sound), what may be the state of an object that   *)
(* is in a goroutine's hand (InHand, Exclusive), which places a restart    *)
(* goroutine can be at (Restarters) and how an object's status goes with   *)
(* its watcher (Stages).  Most steps change one goroutine and no object:   *)
(* the lemma Quiet settles them.                                           *)
(*                                                                         *)
(* The lemmas called ...Does say where each step takes its goroutine and   *)
(* what it carries there; the other proof modules of the manager use them  *)
(* too.  ScopeInv adds which key the tracked and handed objects are of,    *)
(* and which keys a Stop has in mind.                                      *)
(***************************************************************************)
EXTENDS Manager, TLAPS

Sound(g) ==
  /\ g \in Goroutines
  /\ g.pc \notin {"idle", "decide", "backoff"} => g.project \in Projects
  /\ g.pc \in {"register", "configure", "install", "each", "inherit",
               "prepare", "spawn", "track"} =>
       g.cfg \in Configs
  /\ g.pc \in {"inherit", "prepare", "spawn", "track", "halt", "settle",
               "forget", "decide", "backoff"} => g.key \in Keys
  /\ g.pc \in {"spawn", "track", "settle", "decide", "backoff"} =>
       g.hand \in Procs

AllSound == \A t \in Threads : Sound(thread[t])

(* An object in hand is not started yet, or is being stopped ... *)
InHand ==
  \A t \in Threads :
    /\ thread[t].pc = "spawn" => /\ proc[thread[t].hand].watch = "off"
                                 /\ proc[thread[t].hand].cfg \in Configs
                                 /\ proc[thread[t].hand].key \in Keys
    /\ thread[t].pc = "settle" => proc[thread[t].hand].status = "stopping"

(* ... by this goroutine alone. *)
Exclusive ==
  \A t, u \in Threads :
    /\ thread[t].pc = thread[u].pc /\ thread[t].pc \in {"spawn", "settle"}
    /\ t # u
    => thread[t].hand # thread[u].hand

(* A restart goroutine only decides, sleeps and executes Start. *)
Foreign == {"load", "register", "configure", "remove", "targets", "stopEach",
            "halt", "settle", "forget"}

MayRestart(g) == g.op \in {"none", "start"} /\ g.pc \notin Foreign

Restarters == \A o \in Procs : MayRestart(thread[o])

Staged(r) ==
  /\ r.watch = "off" => r.status = "stopped" /\ ~r.live
  /\ r.watch # "off" => r.cfg \in Configs /\ r.key \in Keys
  /\ r.watch = "wait" => r.status \in {"running", "stopping"}
  /\ r.watch = "report" => r.status = "crashed"
  /\ r.watch \in {"report", "done"} => r.status # "running" /\ ~r.live

Stages == \A o \in Procs : Staged(proc[o])

Shape == AllSound /\ InHand /\ Exclusive /\ Restarters /\ Stages

Core == TypeOK /\ Shape

-----------------------------------------------------------------------------
LEMMA BecomeType ==
  ASSUME TypeOK, NEW t \in Threads, NEW g \in Goroutines, Become(t, g)
  PROVE  /\ thread' \in [Threads -> Goroutines]
         /\ thread'[t] = g
         /\ \A u \in Threads \ {t} : thread'[u] = thread[u]
  BY DEF TypeOK, Become

LEMMA ChangeType ==
  ASSUME TypeOK, NEW o \in Procs, NEW r \in Objects, Change(o, r)
  PROVE  /\ proc' \in [Procs -> Objects]
         /\ proc'[o] = r
         /\ \A q \in Procs \ {o} : proc'[q] = proc[q]
  BY DEF TypeOK, Change

(* An object keeps what InHand says of it. *)
Kept(o) ==
  /\ proc[o].watch = "off" => /\ proc'[o].watch = "off"
                              /\ proc'[o].cfg = proc[o].cfg
                              /\ proc'[o].key = proc[o].key
  /\ proc[o].status = "stopping" => proc'[o].status = "stopping"

(* Objects change, but in no way a goroutine that holds one would notice. *)
LEMMA QuietObjects ==
  ASSUME Core, proc' \in [Procs -> Objects], UNCHANGED thread,
         \A o \in Procs : Kept(o) /\ Staged(proc'[o])
  PROVE  thread' \in [Threads -> Goroutines] /\ Shape'
  <1>1. AllSound' /\ Exclusive' /\ Restarters' /\ thread' \in [Threads -> Goroutines]
    BY DEF AllSound, Exclusive, Restarters, Core, Shape, TypeOK
  <1>2. Stages'
    BY DEF Stages
  <1>3. ASSUME NEW t \in Threads, thread[t].pc \in {"spawn", "settle"}
        PROVE  thread[t].hand \in Procs
    BY <1>3 DEF Core, Shape, AllSound, Sound
  <1>4. InHand'
    BY <1>3 DEF InHand, Core, Shape, Kept
  <1> QED
    BY <1>1, <1>2, <1>4 DEF Shape

(* The same, while a goroutine moves and enters neither "spawn" nor "settle". *)
LEMMA QuietStep ==
  ASSUME Core, NEW t \in Threads, NEW g, Sound(g), Become(t, g),
         g.pc \notin {"spawn", "settle"},
         t \in Procs => MayRestart(g),
         proc' \in [Procs -> Objects],
         \A o \in Procs : Kept(o) /\ Staged(proc'[o])
  PROVE  thread' \in [Threads -> Goroutines] /\ Shape'
  <1>1. /\ thread' \in [Threads -> Goroutines]
        /\ thread'[t] = g
        /\ \A u \in Threads \ {t} : thread'[u] = thread[u]
    BY BecomeType DEF Core, Sound
  <1>2. AllSound'
    BY <1>1 DEF AllSound, Core, Shape
  <1>3. ASSUME NEW u \in Threads, thread[u].pc \in {"spawn", "settle"}
        PROVE  thread[u].hand \in Procs
    BY <1>3 DEF Core, Shape, AllSound, Sound
  <1>4. InHand'
    <2> SUFFICES ASSUME NEW u \in Threads,
                        thread'[u].pc \in {"spawn", "settle"}
                 PROVE  /\ thread[u] = thread'[u]
                        /\ thread[u].hand \in Procs
      BY DEF InHand, Core, Shape, Kept
    <2> QED
      BY <1>1, <1>3
  <1>5. Exclusive'
    BY <1>1 DEF Exclusive, Core, Shape
  <1>6. Restarters'
    BY <1>1 DEF Restarters, Core, Shape, Threads
  <1>7. Stages'
    BY DEF Stages
  <1> QED
    BY <1>1, <1>2, <1>4, <1>5, <1>6, <1>7 DEF Shape

(* The commonest step of all: a goroutine moves and no object changes. *)
LEMMA Quiet ==
  ASSUME Core, NEW t \in Threads, NEW g, Sound(g), Become(t, g),
         UNCHANGED proc, g.pc \notin {"spawn", "settle"},
         t \in Procs => MayRestart(g)
  PROVE  thread' \in [Threads -> Goroutines] /\ Shape'
  <1>1. proc' \in [Procs -> Objects]
    BY DEF Core, TypeOK
  <1>2. \A o \in Procs : Kept(o) /\ Staged(proc'[o])
    BY DEF Kept, Core, Shape, Stages
  <1> QED
    BY <1>1, <1>2, QuietStep

(* What a goroutine does between its requests. *)
LEMMA IdleSound == Sound(Idle) /\ MayRestart(Idle)
  <1>1. Idle \in Goroutines
    BY DEF Idle, Goroutines, Places
  <1> QED
    BY <1>1 DEF Idle, Sound, MayRestart, Foreign

LEMMA StartingSound ==
  ASSUME NEW p \in Projects, NEW names \in SUBSET Names
  PROVE  Sound(Starting(p, names)) /\ MayRestart(Starting(p, names))
  <1>1. Starting(p, names) \in Goroutines
    BY DEF Starting, Idle, Goroutines, Places, Ops
  <1> QED
    BY <1>1 DEF Starting, Idle, Sound, MayRestart, Foreign

LEMMA AddStep ==
  ASSUME Core, NEW t \in Threads,
         \/ AddLoad(t) \/ AddRegister(t) \/ AddUnsaved(t) \/ AddInstall(t)
         \/ RemoveProject(t)
  PROVE  Core'
  <1>1. TypeOK /\ Sound(thread[t]) /\ thread[t] \in Goroutines
    BY DEF Core, Shape, AllSound, Sound
  <1>2. t \in Procs => MayRestart(thread[t])
    BY DEF Core, Shape, Restarters
  <1>3. CASE AddLoad(t)
    <2> DEFINE g == [thread[t] EXCEPT !.pc = "register",
                                      !.cfg = toml[thread[t].project]]
    <2>1. CASE toml[thread[t].project] = NoConfig
      <3>1. Become(t, Idle) /\ UNCHANGED proc
        BY <1>3, <2>1 DEF AddLoad, Return
      <3>2. thread' \in [Threads -> Goroutines] /\ Shape'
        BY <3>1, IdleSound, Quiet DEF Idle
      <3> QED
        BY <1>1, <1>3, <3>2 DEF Core, TypeOK, AddLoad, env, memory, history
    <2>2. CASE toml[thread[t].project] # NoConfig
      <3>1. toml[thread[t].project] \in Configs /\ thread[t].project \in Projects
        BY <1>1, <1>3, <2>2 DEF AddLoad, At, Sound, TypeOK
      <3>2. g \in Goroutines
        BY <1>1, <3>1 DEF Goroutines, Places
      <3>3. Sound(g) /\ g.pc = "register"
        BY <1>1, <3>1, <3>2 DEF Sound, Goroutines
      <3>4. Become(t, g) /\ UNCHANGED proc /\ t \notin Procs
        BY <1>2, <1>3, <2>2 DEF AddLoad, At, MayRestart, Foreign
      <3>5. thread' \in [Threads -> Goroutines] /\ Shape'
        <4> HIDE DEF g
        <4> QED
          BY <3>3, <3>4, Quiet
      <3> QED
        BY <1>1, <1>3, <3>5 DEF Core, TypeOK, AddLoad, env, memory, history
    <2> QED
      BY <2>1, <2>2
  <1>4. CASE AddRegister(t)
    <2> DEFINE g == [thread[t] EXCEPT !.pc = "configure"]
    <2>1. g \in Goroutines
      BY <1>1 DEF Goroutines, Places
    <2>2. Sound(g) /\ g.pc = "configure" /\ thread[t].project \in Projects
      BY <1>1, <1>4, <2>1 DEF Sound, Goroutines, AddRegister, At
    <2>3. Become(t, g) /\ UNCHANGED proc /\ t \notin Procs
      BY <1>2, <1>4 DEF AddRegister, Goto, At, MayRestart, Foreign
    <2>4. thread' \in [Threads -> Goroutines] /\ Shape'
      <3> HIDE DEF g
      <3> QED
        BY <2>2, <2>3, Quiet
    <2> QED
      BY <1>1, <1>4, <2>2, <2>4 DEF Core, TypeOK, AddRegister, env, history
  <1>7. CASE AddUnsaved(t)
    <2>1. Become(t, Idle) /\ UNCHANGED proc
      BY <1>7 DEF AddUnsaved, Return
    <2>2. thread' \in [Threads -> Goroutines] /\ Shape'
      BY <2>1, IdleSound, Quiet DEF Idle
    <2>3. thread[t].project \in Projects
      BY <1>1, <1>7 DEF Sound, AddUnsaved, At
    <2> QED
      BY <1>1, <1>7, <2>2, <2>3 DEF Core, TypeOK, AddUnsaved, env
  <1>5. CASE AddInstall(t)
    <2>1. Become(t, Idle) /\ UNCHANGED proc
      BY <1>5 DEF AddInstall, Return
    <2>2. thread' \in [Threads -> Goroutines] /\ Shape'
      BY <2>1, IdleSound, Quiet DEF Idle
    <2>3. thread[t].cfg \in Configs
      BY <1>1, <1>5 DEF Sound, AddInstall, At
    <2> QED
      BY <1>1, <1>5, <2>2, <2>3 DEF Core, TypeOK, AddInstall, env
  <1>6. CASE RemoveProject(t)
    <2>1. Become(t, Idle) /\ UNCHANGED proc
      BY <1>6 DEF RemoveProject, Return
    <2>2. thread' \in [Threads -> Goroutines] /\ Shape'
      BY <2>1, IdleSound, Quiet DEF Idle
    <2>3. /\ Drop(processes, thread[t].project) \in [Keys -> Procs \cup {NoProc}]
          /\ Drop(loggers, thread[t].project) \in [Keys -> Procs \cup {NoProc}]
      BY <1>1 DEF Drop, TypeOK
    <2> QED
      BY <1>1, <1>6, <2>2, <2>3 DEF Core, TypeOK, RemoveProject, env
  <1> QED
    BY <1>3, <1>4, <1>5, <1>6, <1>7

LEMMA StartStep ==
  ASSUME Core, NEW t \in Threads,
         \/ StartLoad(t) \/ StartInstall(t) \/ StartSkip(t) \/ StartRefused(t)
         \/ StartClaim(t) \/ StartInherit(t) \/ StartFails(t) \/ StartTrack(t)
  PROVE  Core'
  <1>1. TypeOK /\ Sound(thread[t]) /\ thread[t] \in Goroutines
    BY DEF Core, Shape, AllSound, Sound
  <1>2. t \in Procs => MayRestart(thread[t])
    BY DEF Core, Shape, Restarters
  <1>3. ASSUME Return(t), UNCHANGED proc
        PROVE  thread' \in [Threads -> Goroutines] /\ Shape'
    BY <1>3, IdleSound, Quiet DEF Return, Idle
  <1>4. CASE StartLoad(t)
    <2> DEFINE g == [thread[t] EXCEPT !.pc = "install",
                                      !.cfg = toml[thread[t].project]]
    <2>1. CASE Return(t)
      BY <1>1, <1>3, <1>4, <2>1 DEF Core, TypeOK, StartLoad, env, memory, history
    <2>2. CASE ~Return(t)
      <3>1. /\ Become(t, g) /\ UNCHANGED proc
            /\ toml[thread[t].project] \in Configs /\ thread[t].project \in Projects
        BY <1>1, <1>4, <2>2 DEF StartLoad, At, Sound, TypeOK
      <3>2. g \in Goroutines
        BY <1>1, <3>1 DEF Goroutines, Places
      <3>3. /\ Sound(g) /\ g.pc = "install"
            /\ t \in Procs => MayRestart(g)
        BY <1>1, <1>2, <3>1, <3>2 DEF Sound, Goroutines, MayRestart, Foreign
      <3>4. thread' \in [Threads -> Goroutines] /\ Shape'
        <4> HIDE DEF g
        <4> QED
          BY <3>1, <3>3, Quiet
      <3> QED
        BY <1>1, <1>4, <3>4 DEF Core, TypeOK, StartLoad, env, memory, history
    <2> QED
      BY <2>1, <2>2
  <1>5. CASE StartInstall(t)
    <2> DEFINE p == thread[t].project
               ks == Asked(p, thread[t].names \cap DOMAIN thread[t].cfg.port)
               g == [thread[t] EXCEPT !.pc = "each", !.todo = ks]
    <2>1. /\ Become(t, g) /\ UNCHANGED proc
          /\ thread[t].cfg \in Configs /\ p \in Projects /\ ks \subseteq Keys
      BY <1>1, <1>5 DEF StartInstall, At, Sound, Asked
    <2>2. g \in Goroutines
      <3> HIDE DEF ks
      <3> QED
        BY <1>1, <2>1 DEF Goroutines, Places
    <2>3. /\ Sound(g) /\ g.pc = "each"
          /\ t \in Procs => MayRestart(g)
      <3> HIDE DEF ks
      <3> QED
        BY <1>1, <1>2, <2>1, <2>2 DEF Sound, Goroutines, MayRestart, Foreign
    <2>4. thread' \in [Threads -> Goroutines] /\ Shape'
      <3> HIDE DEF g
      <3> QED
        BY <2>1, <2>3, Quiet
    <2>5. /\ configs' = [configs EXCEPT ![p] = thread[t].cfg]
          /\ activeToml' = [activeToml EXCEPT ![p] = toml[p]]
          /\ bare' = bare \ {p}
      BY <1>5 DEF StartInstall
    <2> QED
      BY <1>1, <1>5, <2>1, <2>4, <2>5 DEF Core, TypeOK, StartInstall, env
  <1>6. CASE StartSkip(t)
    <2>1. PICK k \in thread[t].todo :
                 Become(t, [thread[t] EXCEPT !.todo = @ \ {k}])
      BY <1>6 DEF StartSkip
    <2> DEFINE g == [thread[t] EXCEPT !.todo = @ \ {k}]
    <2>2. g \in Goroutines
      BY <1>1, <2>1 DEF Goroutines
    <2>3. /\ Sound(g) /\ g.pc = "each" /\ UNCHANGED proc
          /\ t \in Procs => MayRestart(g)
      BY <1>1, <1>2, <1>6, <2>2 DEF Sound, Goroutines, MayRestart, Foreign, StartSkip, At
    <2>4. thread' \in [Threads -> Goroutines] /\ Shape'
      <3>1. Become(t, g)
        BY <2>1
      <3> HIDE DEF g
      <3> QED
        BY <2>3, <3>1, Quiet
    <2> QED
      BY <1>1, <1>6, <2>4 DEF Core, TypeOK, StartSkip, env, memory, history
  <1>7. CASE StartRefused(t)
    BY <1>1, <1>3, <1>7 DEF Core, TypeOK, StartRefused, env, memory, history
  <1>8. CASE StartClaim(t)
    <2>1. PICK k \in thread[t].todo :
                 Become(t, [thread[t] EXCEPT !.pc = "inherit", !.key = k,
                                             !.todo = @ \ {k}])
      BY <1>8 DEF StartClaim
    <2> DEFINE g == [thread[t] EXCEPT !.pc = "inherit", !.key = k,
                                      !.todo = @ \ {k}]
    <2>2. k \in Keys
      BY <1>1, <2>1 DEF Goroutines
    <2>3. g \in Goroutines
      BY <1>1, <2>2 DEF Goroutines, Places
    <2>4. /\ Sound(g) /\ g.pc = "inherit" /\ UNCHANGED proc
          /\ t \in Procs => MayRestart(g)
      BY <1>1, <1>2, <1>8, <2>2, <2>3
         DEF Sound, Goroutines, MayRestart, Foreign, StartClaim, At
    <2>5. thread' \in [Threads -> Goroutines] /\ Shape'
      <3>1. Become(t, g)
        BY <2>1
      <3> HIDE DEF g
      <3> QED
        BY <2>4, <3>1, Quiet
    <2> QED
      BY <1>1, <1>8, <2>5 DEF Core, TypeOK, StartClaim, env, memory, history
  <1>9. CASE StartFails(t)
    BY <1>1, <1>3, <1>9 DEF Core, TypeOK, StartFails, env, memory, history
  <1>10. CASE StartTrack(t)
    <2> DEFINE g == [thread[t] EXCEPT !.pc = "each", !.hand = NoProc]
    <2>1. thread[t].key \in Keys /\ thread[t].hand \in Procs
      BY <1>1, <1>10 DEF StartTrack, At, Sound
    <2>2. g \in Goroutines
      BY <1>1 DEF Goroutines, Places
    <2>3. /\ Sound(g) /\ g.pc = "each" /\ Become(t, g) /\ UNCHANGED proc
          /\ t \in Procs => MayRestart(g)
      BY <1>1, <1>2, <1>10, <2>2
         DEF Sound, Goroutines, MayRestart, Foreign, StartTrack, At
    <2>4. thread' \in [Threads -> Goroutines] /\ Shape'
      <3> HIDE DEF g
      <3> QED
        BY <2>3, Quiet
    <2>5. /\ processes' = [processes EXCEPT ![thread[t].key] = thread[t].hand]
          /\ runtime' = [runtime EXCEPT ![thread[t].key] = thread[t].hand]
      BY <1>10 DEF StartTrack
    <2> QED
      BY <1>1, <1>10, <2>1, <2>4, <2>5 DEF Core, TypeOK, StartTrack, env, history
  <1>11. CASE StartInherit(t)
    <2> DEFINE n == Carried(thread[t].key)
               g == [thread[t] EXCEPT !.pc = "prepare", !.count = n]
    <2>1. Become(t, g) /\ UNCHANGED proc /\ thread[t].key \in Keys
          /\ thread[t].project \in Projects /\ thread[t].cfg \in Configs
      BY <1>1, <1>11 DEF StartInherit, At, Sound
    <2>2. n \in Nat
      BY <1>1, <2>1 DEF Carried, TypeOK, Objects
    <2> HIDE DEF n
    <2>3. g \in Goroutines
      BY <1>1, <2>2 DEF Goroutines, Places
    <2>4. /\ Sound(g) /\ g.pc = "prepare"
          /\ t \in Procs => MayRestart(g)
      BY <1>1, <1>2, <2>1, <2>3 DEF Sound, Goroutines, MayRestart, Foreign
    <2>5. thread' \in [Threads -> Goroutines] /\ Shape'
      <3> HIDE DEF g
      <3> QED
        BY <2>1, <2>4, Quiet
    <2> QED
      BY <1>1, <1>11, <2>5 DEF Core, TypeOK, StartInherit, env, memory, history
  <1> QED
    BY <1>4, <1>5, <1>6, <1>7, <1>8, <1>9, <1>10, <1>11

LEMMA SaveStep ==
  ASSUME Core, NEW t \in Threads, SaveMarshal(t) \/ SaveWrite(t) \/ SaveFails(t)
  PROVE  Core'
  <1>1. TypeOK /\ Sound(thread[t]) /\ thread[t] \in Goroutines
    BY DEF Core, Shape, AllSound, Sound
  <1>2. t \in Procs => MayRestart(thread[t])
    BY DEF Core, Shape, Restarters
  <1>3. CASE SaveMarshal(t)
    <2> DEFINE g == [thread[t] EXCEPT !.pc = "write", !.snap = runtime]
    <2>1. g \in Goroutines
      BY <1>1 DEF Goroutines, Places, TypeOK
    <2>2. /\ Sound(g) /\ g.pc = "write" /\ Become(t, g) /\ UNCHANGED proc
          /\ t \in Procs => MayRestart(g)
      BY <1>1, <1>2, <1>3, <2>1
         DEF Sound, Goroutines, MayRestart, Foreign, SaveMarshal, At
    <2>3. thread' \in [Threads -> Goroutines] /\ Shape'
      <3> HIDE DEF g
      <3> QED
        BY <2>2, Quiet
    <2> QED
      BY <1>1, <1>3, <2>3 DEF Core, TypeOK, SaveMarshal, env, memory, history
  <1>4. CASE SaveWrite(t)
    <2>1. /\ disk' \in [Keys -> Procs \cup {NoProc}]
          /\ halted' \subseteq Keys
          /\ thread[t].project \in Projects /\ thread[t].names \subseteq Names
      BY <1>1, <1>4 DEF SaveWrite, At, Sound, Goroutines, Asked, TypeOK
    <2>2. thread' \in [Threads -> Goroutines] /\ Shape'
      <3>1. UNCHANGED proc
        BY <1>4 DEF SaveWrite
      <3>2. CASE Become(t, Starting(thread[t].project, thread[t].names))
        <4>1. Starting(thread[t].project, thread[t].names).pc = "lookup"
          BY DEF Starting, Idle
        <4> QED
          BY <2>1, <3>1, <3>2, <4>1, StartingSound, Quiet
      <3>3. CASE Return(t)
        BY <3>1, <3>3, IdleSound, Quiet DEF Return, Idle
      <3> QED
        BY <1>4, <3>2, <3>3 DEF SaveWrite
    <2> QED
      BY <1>1, <1>4, <2>1, <2>2 DEF Core, TypeOK, SaveWrite, env, memory
  <1>5. CASE SaveFails(t)
    <2>1. Become(t, Idle) /\ UNCHANGED proc
      BY <1>5 DEF SaveFails, Return
    <2>2. thread' \in [Threads -> Goroutines] /\ Shape'
      BY <2>1, IdleSound, Quiet DEF Idle
    <2>3. disk' \in [Keys -> Procs \cup {NoProc}]
      BY <1>1, <1>5 DEF SaveFails, TypeOK
    <2> QED
      BY <1>1, <1>5, <2>2, <2>3 DEF Core, TypeOK, SaveFails, env, memory, history
  <1> QED
    BY <1>3, <1>4, <1>5

(* What StartPrepare does, with and without a Logger. *)
Prepares(t, o, opened) ==
  /\ Change(o, [proc[o] EXCEPT !.key = thread[t].key, !.cfg = thread[t].cfg,
                               !.restarts = thread[t].count, !.stdio = opened])
  /\ loggers' = IF opened THEN LoggersWith(thread[t].key, o) ELSE loggers
  /\ Become(t, [thread[t] EXCEPT !.pc = "spawn", !.hand = o, !.count = 0])

LEMMA PreparesOne ==
  ASSUME NEW t \in Threads, StartPrepare(t)
  PROVE  \E opened \in BOOLEAN : Prepares(t, CHOOSE u \in Fresh : TRUE, opened)
  BY DEF StartPrepare, Prepares

(* A fresh object comes into the hand of t: no goroutine holds it yet,     *)
(* since what is in hand is configured or stopping.                        *)
LEMMA PrepareStep ==
  ASSUME Core, NEW t \in Threads, StartPrepare(t)
  PROVE  Core'
  <1>0. PICK opened \in BOOLEAN :
               Prepares(t, CHOOSE u \in Fresh : TRUE, opened)
    BY PreparesOne
  <1> DEFINE k == thread[t].key
             o == CHOOSE u \in Fresh : TRUE
             r == [proc[o] EXCEPT !.key = k, !.cfg = thread[t].cfg,
                                  !.restarts = thread[t].count, !.stdio = opened]
             g == [thread[t] EXCEPT !.pc = "spawn", !.hand = o, !.count = 0]
  <1>1. TypeOK /\ Sound(thread[t]) /\ thread[t] \in Goroutines
    BY DEF Core, Shape, AllSound, Sound
  <1>2. o \in Procs /\ proc[o].cfg = NoConfig
    BY DEF StartPrepare, Fresh
  <1>3. /\ Change(o, r) /\ Become(t, g)
        /\ loggers' = IF opened THEN LoggersWith(k, o) ELSE loggers
        /\ thread[t].pc = "prepare"
    BY <1>0 DEF StartPrepare, Prepares, At
  <1>4. k \in Keys /\ thread[t].cfg \in Configs /\ thread[t].project \in Projects
    BY <1>1, <1>3 DEF Sound
  <1>5. thread[t].count \in Nat
    BY <1>1 DEF Goroutines
  <1>6. proc[o] \in Objects /\ Staged(proc[o]) /\ proc[o].watch = "off"
        /\ proc[o].status = "stopped"
    BY <1>1, <1>2, SentinelAssumption DEF TypeOK, Core, Shape, Stages, Staged
  <1> HIDE DEF k, o
  <1>7. r \in Objects
    BY <1>4, <1>5, <1>6 DEF Objects
  <1>8. /\ r.watch = "off" /\ r.cfg \in Configs /\ r.key \in Keys /\ Staged(r)
        /\ r.status = "stopped"
    BY <1>4, <1>6 DEF Objects, Staged
  <1>9. g \in Goroutines
    BY <1>1, <1>2 DEF Goroutines, Places
  <1>10. /\ Sound(g) /\ g.pc = "spawn" /\ g.hand = o
         /\ t \in Procs => MayRestart(g)
    BY <1>1, <1>2, <1>3, <1>4, <1>9
       DEF Sound, Goroutines, MayRestart, Foreign, Core, Shape, Restarters
  <1> HIDE DEF g, r
  <1>11. /\ thread' \in [Threads -> Goroutines] /\ thread'[t] = g
         /\ \A u \in Threads \ {t} : thread'[u] = thread[u]
    BY <1>1, <1>3, <1>9, BecomeType
  <1>12. /\ proc' \in [Procs -> Objects] /\ proc'[o] = r
         /\ \A q \in Procs \ {o} : proc'[q] = proc[q]
    BY <1>1, <1>2, <1>3, <1>7, ChangeType
  <1>13. AllSound' /\ Restarters' /\ Stages'
    BY <1>8, <1>10, <1>11, <1>12
       DEF Core, Shape, AllSound, Restarters, Stages, Threads
  <1>14. ASSUME NEW u \in Threads, thread[u].pc \in {"spawn", "settle"}
         PROVE  thread[u].hand \in Procs \ {o}
    <2>1. thread[u].hand \in Procs
      BY <1>14 DEF Core, Shape, AllSound, Sound
    <2> QED
      BY <1>2, <1>6, <1>14, <2>1, SentinelAssumption DEF Core, Shape, InHand
  <1>15. InHand' /\ Exclusive'
    BY <1>8, <1>10, <1>11, <1>12, <1>14 DEF Core, Shape, InHand, Exclusive
  <1>16. loggers' \in [Keys -> Procs \cup {NoProc}]
    BY <1>1, <1>2, <1>3 DEF LoggersWith, TypeOK
  <1> QED
    BY <1>1, <1>11, <1>12, <1>13, <1>15, <1>16
       DEF Core, Shape, TypeOK, StartPrepare, env, history

(* Its child starts; nobody else has the object in hand. *)
LEMMA SpawnStep ==
  ASSUME Core, NEW t \in Threads, StartSpawn(t)
  PROVE  Core'
  <1> DEFINE o == thread[t].hand
             r == [proc[o] EXCEPT !.status = "running", !.live = TRUE,
                                  !.watch = "wait"]
             g == [thread[t] EXCEPT !.pc = "track"]
  <1>1. TypeOK /\ Sound(thread[t]) /\ thread[t] \in Goroutines
    BY DEF Core, Shape, AllSound, Sound
  <1>2. Change(o, r) /\ Become(t, g) /\ thread[t].pc = "spawn"
    BY DEF StartSpawn, Goto, At
  <1>3. o \in Procs /\ proc[o] \in Objects
    BY <1>1, <1>2 DEF Sound, TypeOK
  <1>4. /\ proc[o].watch = "off" /\ proc[o].cfg \in Configs /\ proc[o].key \in Keys
        /\ proc[o].status = "stopped"
    BY <1>2, <1>3 DEF Core, Shape, InHand, Stages, Staged
  <1>5. r \in Objects /\ Staged(r)
    BY <1>3, <1>4 DEF Objects, Staged
  <1>6. g \in Goroutines
    BY <1>1 DEF Goroutines, Places
  <1>7. /\ Sound(g) /\ g.pc = "track"
        /\ t \in Procs => MayRestart(g)
    BY <1>1, <1>2, <1>6
       DEF Sound, Goroutines, MayRestart, Foreign, Core, Shape, Restarters
  <1> HIDE DEF o, g, r
  <1>8. /\ thread' \in [Threads -> Goroutines] /\ thread'[t] = g
        /\ \A u \in Threads \ {t} : thread'[u] = thread[u]
    BY <1>1, <1>2, <1>6, BecomeType
  <1>9. /\ proc' \in [Procs -> Objects] /\ proc'[o] = r
        /\ \A q \in Procs \ {o} : proc'[q] = proc[q]
    BY <1>1, <1>2, <1>3, <1>5, ChangeType
  <1>10. AllSound' /\ Restarters' /\ Stages'
    BY <1>5, <1>7, <1>8, <1>9 DEF Core, Shape, AllSound, Restarters, Stages, Threads
  <1>11. ASSUME NEW u \in Threads \ {t}, thread[u].pc \in {"spawn", "settle"}
         PROVE  thread[u].hand \in Procs \ {o}
    <2>1. thread[u].hand \in Procs
      BY <1>11 DEF Core, Shape, AllSound, Sound
    <2> QED
      BY <1>2, <1>4, <1>11, <2>1 DEF Core, Shape, InHand, Exclusive, o
  <1>12. InHand' /\ Exclusive'
    BY <1>7, <1>8, <1>9, <1>11 DEF Core, Shape, InHand, Exclusive
  <1> QED
    BY <1>1, <1>8, <1>9, <1>10, <1>12
       DEF Core, Shape, TypeOK, StartSpawn, env, memory, history

(* Stop begins: the object was running, so nobody else has it in hand. *)
LEMMA HaltStep ==
  ASSUME Core, NEW t \in Threads, StopHalt(t)
  PROVE  Core'
  <1> DEFINE o == thread[t].hand
             r == [proc[o] EXCEPT !.status = "stopping"]
             g == [thread[t] EXCEPT !.pc = "settle"]
  <1>1. TypeOK /\ Sound(thread[t]) /\ thread[t] \in Goroutines
    BY DEF Core, Shape, AllSound, Sound
  <1>2. /\ Change(o, r) /\ Become(t, g) /\ thread[t].pc = "halt"
        /\ o # NoProc /\ proc[o].status = "running"
    BY DEF StopHalt, CanHalt, Goto, At
  <1>3. o \in Procs /\ proc[o] \in Objects
    BY <1>1, <1>2 DEF Goroutines, TypeOK
  <1>4. proc[o].watch = "wait" /\ Staged(proc[o])
    BY <1>2, <1>3 DEF Core, Shape, Stages, Staged, Objects
  <1>5. r \in Objects /\ Staged(r) /\ r.status = "stopping"
    BY <1>3, <1>4 DEF Objects, Staged
  <1>6. g \in Goroutines
    BY <1>1 DEF Goroutines, Places
  <1>7. Sound(g) /\ g.pc = "settle" /\ g.hand = o /\ t \notin Procs
    BY <1>1, <1>2, <1>3, <1>6
       DEF Sound, Goroutines, MayRestart, Foreign, Core, Shape, Restarters
  <1> HIDE DEF o, g, r
  <1>8. /\ thread' \in [Threads -> Goroutines] /\ thread'[t] = g
        /\ \A u \in Threads \ {t} : thread'[u] = thread[u]
    BY <1>1, <1>2, <1>6, BecomeType
  <1>9. /\ proc' \in [Procs -> Objects] /\ proc'[o] = r
        /\ \A q \in Procs \ {o} : proc'[q] = proc[q]
    BY <1>1, <1>2, <1>3, <1>5, ChangeType
  <1>10. AllSound' /\ Restarters' /\ Stages'
    BY <1>5, <1>7, <1>8, <1>9 DEF Core, Shape, AllSound, Restarters, Stages, Threads
  <1>11. ASSUME NEW u \in Threads, thread[u].pc \in {"spawn", "settle"}
         PROVE  thread[u].hand \in Procs \ {o}
    <2>1. thread[u].hand \in Procs
      BY <1>11 DEF Core, Shape, AllSound, Sound
    <2> QED
      BY <1>2, <1>4, <1>11, <2>1 DEF Core, Shape, InHand
  <1>12. InHand' /\ Exclusive'
    BY <1>5, <1>7, <1>8, <1>9, <1>11 DEF Core, Shape, InHand, Exclusive
  <1> QED
    BY <1>1, <1>8, <1>9, <1>10, <1>12
       DEF Core, Shape, TypeOK, StopHalt, env, memory, history

(* Stop ends; the object was in no other hand. *)
LEMMA SettleStep ==
  ASSUME Core, NEW t \in Threads, StopSettle(t)
  PROVE  Core'
  <1> DEFINE o == thread[t].hand
             r == [proc[o] EXCEPT !.status = "stopped"]
             g == [thread[t] EXCEPT !.pc = "forget", !.hand = NoProc]
  <1>1. TypeOK /\ Sound(thread[t]) /\ thread[t] \in Goroutines
    BY DEF Core, Shape, AllSound, Sound
  <1>2. Change(o, r) /\ Become(t, g) /\ thread[t].pc = "settle" /\ proc[o].watch = "done"
    BY DEF StopSettle, Awaited, At
  <1>3. o \in Procs /\ proc[o] \in Objects /\ Staged(proc[o])
    BY <1>1, <1>2 DEF Sound, TypeOK, Core, Shape, Stages
  <1>4. r \in Objects /\ Staged(r)
    BY <1>2, <1>3 DEF Objects, Staged
  <1>5. g \in Goroutines
    BY <1>1 DEF Goroutines, Places
  <1>6. Sound(g) /\ g.pc = "forget" /\ t \notin Procs
    BY <1>1, <1>2, <1>5
       DEF Sound, Goroutines, MayRestart, Foreign, Core, Shape, Restarters
  <1> HIDE DEF o, g, r
  <1>7. /\ thread' \in [Threads -> Goroutines] /\ thread'[t] = g
        /\ \A u \in Threads \ {t} : thread'[u] = thread[u]
    BY <1>1, <1>2, <1>5, BecomeType
  <1>8. /\ proc' \in [Procs -> Objects] /\ proc'[o] = r
        /\ \A q \in Procs \ {o} : proc'[q] = proc[q]
    BY <1>1, <1>2, <1>3, <1>4, ChangeType
  <1>9. AllSound' /\ Restarters' /\ Stages'
    BY <1>4, <1>6, <1>7, <1>8 DEF Core, Shape, AllSound, Restarters, Stages, Threads
  <1>10. ASSUME NEW u \in Threads \ {t}, thread[u].pc \in {"spawn", "settle"}
         PROVE  thread[u].hand \in Procs \ {o}
    <2>1. thread[u].hand \in Procs
      BY <1>10 DEF Core, Shape, AllSound, Sound
    <2> QED
      BY <1>2, <1>10, <2>1 DEF Core, Shape, InHand, Exclusive, o
  <1>11. InHand' /\ Exclusive'
    BY <1>6, <1>7, <1>8, <1>10 DEF Core, Shape, InHand, Exclusive
  <1> QED
    BY <1>1, <1>7, <1>8, <1>9, <1>11
       DEF Core, Shape, TypeOK, StopSettle, env, memory, history

LEMMA StopStep ==
  ASSUME Core, NEW t \in Threads,
         StopTargets(t) \/ StopPick(t) \/ StopIdle(t) \/ StopForget(t)
  PROVE  Core'
  <1>1. TypeOK /\ Sound(thread[t]) /\ thread[t] \in Goroutines
    BY DEF Core, Shape, AllSound, Sound
  <1>2. t \in Procs => MayRestart(thread[t])
    BY DEF Core, Shape, Restarters
  <1>3. CASE StopTargets(t)
    <2> DEFINE ks == Targets(thread[t].project, thread[t].names)
               g == [thread[t] EXCEPT !.pc = "stopEach", !.todo = ks]
    <2>1. ks \subseteq Keys
      BY DEF Targets
    <2> HIDE DEF ks
    <2>2. g \in Goroutines
      BY <1>1, <2>1 DEF Goroutines, Places
    <2>3. /\ Sound(g) /\ g.pc = "stopEach" /\ t \notin Procs
          /\ UNCHANGED proc
      BY <1>1, <1>2, <1>3, <2>2
         DEF Sound, Goroutines, MayRestart, Foreign, StopTargets, At
    <2>4. Become(t, g)
      BY <1>3 DEF StopTargets, ks
    <2>5. thread' \in [Threads -> Goroutines] /\ Shape'
      <3> HIDE DEF g
      <3> QED
        BY <2>3, <2>4, Quiet
    <2> QED
      BY <1>1, <1>3, <2>5 DEF Core, TypeOK, StopTargets, env, memory, history
  <1>4. CASE StopPick(t)
    <2>1. PICK k \in thread[t].todo :
                 Become(t, [thread[t] EXCEPT !.pc = "halt", !.key = k,
                                             !.todo = @ \ {k},
                                             !.hand = processes[k]])
      BY <1>4 DEF StopPick
    <2> DEFINE g == [thread[t] EXCEPT !.pc = "halt", !.key = k,
                                      !.todo = @ \ {k},
                                      !.hand = processes[k]]
    <2>2. k \in Keys /\ processes[k] \in Procs \cup {NoProc}
      BY <1>1, <2>1 DEF Goroutines, TypeOK
    <2>3. g \in Goroutines
      BY <1>1, <2>2 DEF Goroutines, Places
    <2>4. Sound(g) /\ g.pc = "halt" /\ t \notin Procs /\ UNCHANGED proc
      BY <1>1, <1>2, <1>4, <2>2, <2>3
         DEF Sound, Goroutines, MayRestart, Foreign, StopPick, At
    <2>5. thread' \in [Threads -> Goroutines] /\ Shape'
      <3>1. Become(t, g)
        BY <2>1
      <3> HIDE DEF g
      <3> QED
        BY <2>4, <3>1, Quiet
    <2> QED
      BY <1>1, <1>4, <2>5 DEF Core, TypeOK, StopPick, env, memory, history
  <1>5. CASE StopIdle(t)
    <2> DEFINE g == [thread[t] EXCEPT !.pc = "forget", !.hand = NoProc]
    <2>1. g \in Goroutines
      BY <1>1 DEF Goroutines, Places
    <2>2. /\ Sound(g) /\ g.pc = "forget" /\ t \notin Procs
          /\ Become(t, g) /\ UNCHANGED proc
      BY <1>1, <1>2, <1>5, <2>1
         DEF Sound, Goroutines, MayRestart, Foreign, StopIdle, At
    <2>3. thread' \in [Threads -> Goroutines] /\ Shape'
      <3> HIDE DEF g
      <3> QED
        BY <2>2, Quiet
    <2> QED
      BY <1>1, <1>5, <2>3 DEF Core, TypeOK, StopIdle, env, memory, history
  <1>6. CASE StopForget(t)
    <2> DEFINE g == [thread[t] EXCEPT !.pc = "stopEach"]
    <2>1. g \in Goroutines
      BY <1>1 DEF Goroutines, Places
    <2>2. /\ Sound(g) /\ g.pc = "stopEach" /\ t \notin Procs
          /\ Become(t, g) /\ UNCHANGED proc
      BY <1>1, <1>2, <1>6, <2>1
         DEF Sound, Goroutines, MayRestart, Foreign, StopForget, Goto, At
    <2>3. thread' \in [Threads -> Goroutines] /\ Shape'
      <3> HIDE DEF g
      <3> QED
        BY <2>2, Quiet
    <2>4. runtime' = [runtime EXCEPT ![thread[t].key] = NoProc]
      BY <1>6 DEF StopForget
    <2> QED
      BY <1>1, <1>6, <2>3, <2>4 DEF Core, TypeOK, StopForget, env, history
  <1> QED
    BY <1>3, <1>4, <1>5, <1>6

LEMMA ExitStep ==
  ASSUME Core, NEW o \in Procs, Exit(o) \/ WatchJudge(o)
  PROVE  Core'
  <1>1. TypeOK /\ proc[o] \in Objects /\ Staged(proc[o])
    BY DEF Core, Shape, Stages, TypeOK
  <1>2. PICK r \in Objects : /\ Change(o, r) /\ Staged(r)
                             /\ proc[o].watch # "off"
                             /\ proc[o].status = "stopping" => r.status = "stopping"
    <2>1. CASE Exit(o)
      <3> DEFINE r == [proc[o] EXCEPT !.live = FALSE]
      <3>1. Change(o, r)
        BY <2>1 DEF Exit
      <3>2. /\ r \in Objects /\ Staged(r)
            /\ proc[o].watch # "off"
            /\ proc[o].status = "stopping" => r.status = "stopping"
        BY <1>1, <2>1 DEF Exit, Objects, Staged
      <3> HIDE DEF r
      <3> QED
        BY <3>1, <3>2
    <2>2. CASE WatchJudge(o) /\ Intentional(o)
      <3> DEFINE r == [proc[o] EXCEPT !.watch = "done"]
      <3>1. Change(o, r)
        BY <2>2 DEF WatchJudge
      <3>2. /\ r \in Objects /\ Staged(r)
            /\ proc[o].watch # "off"
            /\ proc[o].status = "stopping" => r.status = "stopping"
        BY <1>1, <2>2 DEF WatchJudge, Intentional, Objects, Staged
      <3> HIDE DEF r
      <3> QED
        BY <3>1, <3>2
    <2>3. CASE WatchJudge(o) /\ ~Intentional(o)
      <3> DEFINE r == [proc[o] EXCEPT !.watch = "report", !.status = "crashed"]
      <3>1. Change(o, r)
        BY <2>3 DEF WatchJudge
      <3>2. /\ r \in Objects /\ Staged(r)
            /\ proc[o].watch # "off"
            /\ proc[o].status = "stopping" => r.status = "stopping"
        BY <1>1, <2>3 DEF WatchJudge, Intentional, Objects, Staged
      <3> HIDE DEF r
      <3> QED
        BY <3>1, <3>2
    <2> QED
      BY <2>1, <2>2, <2>3
  <1>3. /\ proc' \in [Procs -> Objects] /\ proc'[o] = r
        /\ \A q \in Procs \ {o} : proc'[q] = proc[q]
    BY <1>1, <1>2, ChangeType
  <1>4. \A q \in Procs : Kept(q) /\ Staged(proc'[q])
    BY <1>2, <1>3 DEF Kept, Core, Shape, Stages
  <1>5. thread' \in [Threads -> Goroutines] /\ Shape'
    BY <1>3, <1>4, QuietObjects DEF Exit, WatchJudge
  <1> QED
    BY <1>1, <1>3, <1>5 DEF Core, TypeOK, Exit, WatchJudge, env, memory, history

LEMMA OnCrashStep ==
  ASSUME Core, NEW o \in Procs, OnCrash(o)
  PROVE  Core'
  <1> DEFINE r == [proc[o] EXCEPT !.watch = "done"]
             k == proc[o].key
             g == [thread[o] EXCEPT !.pc = "decide", !.key = k,
                                    !.hand = processes[k], !.cfg = proc[o].cfg]
  <1>1. TypeOK /\ proc[o] \in Objects /\ Staged(proc[o])
    BY DEF Core, Shape, Stages, TypeOK
  <1>2. o \in Threads /\ Sound(thread[o]) /\ thread[o] \in Goroutines
        /\ MayRestart(thread[o])
    BY DEF Core, Shape, AllSound, Sound, Threads, Restarters
  <1>3. /\ Change(o, r) /\ proc[o].watch = "report"
        /\ k \in Keys /\ proc[o].cfg \in Configs
    BY <1>1 DEF OnCrash, Staged
  <1>4. r \in Objects /\ Staged(r) /\ r.status = proc[o].status
    BY <1>1, <1>3 DEF Objects, Staged
  <1>5. /\ proc' \in [Procs -> Objects] /\ proc'[o] = r
        /\ \A q \in Procs \ {o} : proc'[q] = proc[q]
    <2> HIDE DEF r
    <2> QED
      BY <1>1, <1>3, <1>4, ChangeType
  <1> HIDE DEF r, k
  <1>6. \A q \in Procs : Kept(q) /\ Staged(proc'[q])
    BY <1>3, <1>4, <1>5 DEF Kept, Core, Shape, Stages
  <1>7. thread' \in [Threads -> Goroutines] /\ Shape'
    <2>1. CASE UNCHANGED thread
      BY <1>5, <1>6, <2>1, QuietObjects
    <2>2. CASE ~UNCHANGED thread
      <3>1. Become(o, g) /\ processes[k] \in Procs
        BY <1>1, <1>3, <2>2 DEF OnCrash, TypeOK, k
      <3>2. g \in Goroutines
        BY <1>2, <1>3, <3>1 DEF Goroutines, Places
      <3>3. Sound(g) /\ MayRestart(g) /\ g.pc = "decide"
        BY <1>2, <1>3, <3>1, <3>2 DEF Sound, Goroutines, MayRestart, Foreign
      <3> HIDE DEF g
      <3> QED
        BY <1>2, <1>5, <1>6, <3>1, <3>3, QuietStep
    <2> QED
      BY <2>1, <2>2
  <1> QED
    BY <1>1, <1>5, <1>7 DEF Core, TypeOK, OnCrash, env, memory, history

(* Only the restart count of the object in hand changes. *)
LEMMA Recounted ==
  ASSUME Core, NEW q \in Procs, NEW n \in Nat,
         Change(q, [proc[q] EXCEPT !.restarts = n])
  PROVE  /\ proc' \in [Procs -> Objects]
         /\ \A o \in Procs : Kept(o) /\ Staged(proc'[o])
  <1> DEFINE r == [proc[q] EXCEPT !.restarts = n]
  <1>1. TypeOK /\ proc[q] \in Objects /\ Staged(proc[q])
    BY DEF Core, Shape, Stages, TypeOK
  <1>2. /\ r \in Objects /\ Staged(r)
        /\ r.status = proc[q].status /\ r.watch = proc[q].watch
        /\ r.cfg = proc[q].cfg /\ r.key = proc[q].key
    BY <1>1 DEF Objects, Staged
  <1>3. /\ proc' \in [Procs -> Objects] /\ proc'[q] = r
        /\ \A o \in Procs \ {q} : proc'[o] = proc[o]
    <2> HIDE DEF r
    <2>1. Change(q, r)
      BY DEF r
    <2> QED
      BY <1>1, <1>2, <2>1, ChangeType
  <1> HIDE DEF r
  <1> QED
    BY <1>2, <1>3 DEF Kept, Core, Shape, Stages

LEMMA RestartStep ==
  ASSUME Core, NEW o \in Procs, CrashDecide(o) \/ BackoffElapsed(o)
  PROVE  Core'
  <1>1. TypeOK /\ o \in Threads /\ Sound(thread[o]) /\ thread[o] \in Goroutines
        /\ MayRestart(thread[o])
    BY DEF Core, Shape, AllSound, Sound, Threads, Restarters
  <1> DEFINE k == thread[o].key
             q == thread[o].hand
  <1>2. k \in Keys /\ q \in Procs /\ proc[q] \in Objects /\ proc[q].restarts \in Nat
    BY <1>1 DEF CrashDecide, BackoffElapsed, At, Sound, TypeOK, Objects
  <1>3. CASE CrashDecide(o)
    <2> DEFINE g == [thread[o] EXCEPT !.pc = "backoff"]
    <2>1. PICK long \in LongRuns :
                 /\ Change(q, [proc[q] EXCEPT !.restarts = Count(q, long)])
                 /\ autos' = IF long THEN [autos EXCEPT ![k] = 0] ELSE autos
                 /\ Return(o) \/ Become(o, g)
      BY <1>3 DEF CrashDecide, Goto
    <2>2. Count(q, long) \in Nat
      BY <1>2 DEF Count
    <2>3. /\ proc' \in [Procs -> Objects]
          /\ \A p \in Procs : Kept(p) /\ Staged(proc'[p])
      <3> HIDE DEF q
      <3> QED
        BY <1>2, <2>1, <2>2, Recounted
    <2>4. autos' \in [Keys -> Nat]
      BY <1>1, <1>2, <2>1 DEF TypeOK
    <2>5. g \in Goroutines
      BY <1>1 DEF Goroutines, Places
    <2>6. Sound(g) /\ MayRestart(g) /\ g.pc = "backoff"
      BY <1>1, <1>3, <2>5 DEF Sound, Goroutines, MayRestart, Foreign, CrashDecide, At
    <2>7. thread' \in [Threads -> Goroutines] /\ Shape'
      <3>1. CASE Become(o, g)
        <4> HIDE DEF g
        <4> QED
          BY <1>1, <2>3, <2>6, <3>1, QuietStep
      <3>2. CASE Become(o, Idle)
        BY <1>1, <2>3, <3>2, IdleSound, QuietStep DEF Idle
      <3> QED
        BY <2>1, <3>1, <3>2 DEF Return
    <2> QED
      BY <1>1, <1>3, <2>3, <2>4, <2>7 DEF Core, TypeOK, CrashDecide, env, memory
  <1>4. CASE BackoffElapsed(o)
    <2> DEFINE g == Starting(ProjectOf(k), {NameOf(k)})
    <2>1. /\ Change(q, [proc[q] EXCEPT !.restarts = proc[q].restarts + 1])
          /\ autos' = [autos EXCEPT ![k] = autos[k] + 1]
          /\ Become(o, g)
      BY <1>4 DEF BackoffElapsed
    <2>2. autos' \in [Keys -> Nat]
      BY <1>1, <1>2, <2>1 DEF TypeOK
    <2>3. /\ proc' \in [Procs -> Objects]
          /\ \A p \in Procs : Kept(p) /\ Staged(proc'[p])
      <3> DEFINE n == proc[q].restarts + 1
      <3>1. n \in Nat
        BY <1>2
      <3>2. Change(q, [proc[q] EXCEPT !.restarts = n])
        BY <2>1
      <3> HIDE DEF q, n
      <3> QED
        BY <1>2, <3>1, <3>2, Recounted
    <2>4. ProjectOf(k) \in Projects /\ {NameOf(k)} \in SUBSET Names
      BY <1>2 DEF Keys, ProjectOf, NameOf
    <2>5. Sound(g) /\ MayRestart(g) /\ g.pc = "lookup"
      <3>1. g.pc = "lookup"
        BY DEF Starting, Idle
      <3> QED
        BY <2>4, <3>1, StartingSound
    <2>6. thread' \in [Threads -> Goroutines] /\ Shape'
      <3> HIDE DEF g
      <3> QED
        BY <1>1, <2>1, <2>3, <2>5, QuietStep
    <2> QED
      BY <1>1, <1>4, <2>2, <2>3, <2>6 DEF Core, TypeOK, BackoffElapsed, env, memory
  <1> QED
    BY <1>3, <1>4

LEMMA CallStep ==
  ASSUME Core, NEW c \in Clients, ClientCalls(c)
  PROVE  Core'
  <1>1. TypeOK /\ c \in Threads /\ c \notin Procs /\ Sound(thread[c])
        /\ thread[c] \in Goroutines
    BY ThreadAssumption DEF Core, Shape, AllSound, Sound, Threads
  <1>2. PICK q \in Requests :
          /\ Become(c, [thread[c] EXCEPT !.pc = Entry[q.op], !.op = q.op,
                                         !.project = q.project, !.names = q.names])
          /\ IF q.op \in {"start", "restart"}
             THEN /\ halted' = halted \ Asked(q.project, q.names)
                  /\ autos' = [k \in Keys |-> IF k \in Asked(q.project, q.names)
                                              THEN 0 ELSE autos[k]]
             ELSE UNCHANGED <<halted, autos>>
    BY DEF ClientCalls
  <1>3. q.op \in Ops /\ q.project \in Projects /\ q.names \in SUBSET Names
    BY RequestAssumption
  <1>4. Entry[q.op] \in {"load", "remove", "lookup", "targets"}
    BY <1>3 DEF Entry, Ops
  <1> DEFINE place == Entry[q.op]
             g == [thread[c] EXCEPT !.pc = place, !.op = q.op,
                                    !.project = q.project, !.names = q.names]
  <1>5. Become(c, g) /\ place \in {"load", "remove", "lookup", "targets"}
    BY <1>2, <1>4
  <1> HIDE DEF place
  <1>6. g \in Goroutines
    BY <1>1, <1>3, <1>5 DEF Goroutines, Places
  <1>7. Sound(g) /\ g.pc \notin {"spawn", "settle"}
    BY <1>1, <1>3, <1>5, <1>6 DEF Sound, Goroutines
  <1>8. thread' \in [Threads -> Goroutines] /\ Shape'
    <2> HIDE DEF g
    <2>1. UNCHANGED proc
      BY DEF ClientCalls
    <2> QED
      BY <1>1, <1>5, <1>7, <2>1, Quiet
  <1>9. halted' \subseteq Keys /\ autos' \in [Keys -> Nat]
    BY <1>1, <1>2 DEF TypeOK
  <1>10. calls' \in [Clients -> 0..MaxCalls]
    BY <1>1, BoundAssumption DEF TypeOK, ClientCalls
  <1> QED
    BY <1>1, <1>8, <1>9, <1>10 DEF Core, TypeOK, ClientCalls, memory

LEMMA EditStep ==
  ASSUME Core, EditToml \/ UNCHANGED vars
  PROVE  Core'
  <1>1. UNCHANGED <<thread, proc>> /\ TypeOK
    BY DEF EditToml, vars, Core
  <1>2. Shape'
    <2>1. proc' \in [Procs -> Objects] /\ \A o \in Procs : Kept(o) /\ Staged(proc'[o])
      BY <1>1 DEF Kept, Core, Shape, Stages, TypeOK
    <2> QED
      BY <1>1, <2>1, QuietObjects
  <1>3. CASE EditToml
    <2>1. toml' \in [Projects -> Configs \cup {NoConfig}] /\ edits' \in 0..MaxEdits
      BY <1>1, <1>3, BoundAssumption DEF EditToml, TypeOK
    <2> QED
      BY <1>1, <1>2, <1>3, <2>1 DEF Core, TypeOK, EditToml, memory, history
  <1>4. CASE UNCHANGED vars
    BY <1>1, <1>2, <1>4 DEF Core, TypeOK, vars
  <1> QED
    BY <1>3, <1>4

LEMMA InitCore == Init => Core
  <1> SUFFICES ASSUME Init PROVE Core
    OBVIOUS
  <1>1. Unused \in Objects /\ Staged(Unused)
    BY DEF Unused, Objects, Staged
  <1>2. proc \in [Procs -> Objects] /\ Stages
    BY <1>1 DEF Init, Stages
  <1>3. thread = [t \in Threads |-> Idle] /\ Idle.pc = "idle"
    BY DEF Init, Idle
  <1>4. /\ thread \in [Threads -> Goroutines]
        /\ AllSound /\ InHand /\ Exclusive /\ Restarters
    <2>1. Idle \in Goroutines
      BY IdleSound DEF Sound
    <2> QED
      BY <1>3, <2>1, IdleSound DEF AllSound, InHand, Exclusive, Restarters, Threads
  <1>5. TypeOK
    BY <1>2, <1>4, BoundAssumption DEF Init, TypeOK
  <1> QED
    BY <1>2, <1>4, <1>5 DEF Core, Shape

LEMMA NextCore == Core /\ [Next]_vars => Core'
  <1> SUFFICES ASSUME Core, [Next]_vars PROVE Core'
    OBVIOUS
  <1>1. ASSUME NEW t \in Threads, Operation(t) PROVE Core'
    BY <1>1, AddStep, StartStep, PrepareStep, SpawnStep, SaveStep, StopStep,
       HaltStep, SettleStep DEF Operation
  <1>2. ASSUME NEW o \in Procs, Exit(o) \/ CrashHandling(o) PROVE Core'
    BY <1>2, ExitStep, OnCrashStep, RestartStep DEF CrashHandling
  <1> QED
    BY <1>1, <1>2, CallStep, EditStep DEF Next

LEMMA Invariance == Spec => []Core
  BY InitCore, NextCore, PTL DEF Spec

-----------------------------------------------------------------------------
(* The manager's maps, its objects and its goroutines keep their types:    *)
(* in particular no goroutine is ever at a place with nothing in hand that *)
(* the code there dereferences (Sound, manager.go:390-479).                *)
THEOREM TypeCorrect == Spec => [](TypeOK /\ AllSound)
  <1>1. Core => TypeOK /\ AllSound
    BY DEF Core, Shape
  <1> QED
    BY <1>1, Invariance, PTL

(* An object is started by one goroutine and stopped by one goroutine at a *)
(* time, whatever requests run concurrently (manager.go:409-443,           *)
(* process.go:172-181).                                                    *)
THEOREM ExclusiveHands == Spec => [](InHand /\ Exclusive)
  <1>1. Core => InHand /\ Exclusive
    BY DEF Core, Shape
  <1> QED
    BY <1>1, Invariance, PTL

-----------------------------------------------------------------------------
LEMMA TrackedStep ==
  Core /\ RuntimeNamesTracked /\ [Next]_vars => RuntimeNamesTracked'
  <1> SUFFICES ASSUME Core, RuntimeNamesTracked, [Next]_vars
               PROVE  RuntimeNamesTracked'
    OBVIOUS
  <1> USE DEF RuntimeNamesTracked
  <1>1. TypeOK
    BY DEF Core
  <1>2. CASE UNCHANGED <<processes, runtime>>
    BY <1>2
  <1>3. ASSUME NEW t \in Threads, RemoveProject(t), ~UNCHANGED processes
        PROVE  RuntimeNamesTracked'
    (* An entry of m.processes disappears or stays. *)
    BY <1>3 DEF RemoveProject, Drop
  <1>4. ASSUME NEW t \in Threads, StartTrack(t)
        PROVE  RuntimeNamesTracked'
    (* Both maps get the same object. *)
    BY <1>1, <1>4 DEF StartTrack, TypeOK
  <1>5. ASSUME NEW t \in Threads, StopForget(t)
        PROVE  RuntimeNamesTracked'
    (* An entry of runtime disappears. *)
    BY <1>1, <1>5 DEF StopForget, TypeOK
  <1>6. ASSUME NEW t \in Threads, Operation(t),
               ~StartTrack(t), ~StopForget(t), ~RemoveProject(t)
        PROVE  UNCHANGED <<processes, runtime>>
    BY <1>6 DEF Operation, AddLoad, AddRegister, AddUnsaved, AddInstall, StartLoad,
                StartInstall, StartSkip, StartRefused, StartClaim, StartInherit, StartPrepare,
                StartSpawn, StartFails, SaveMarshal, SaveWrite, SaveFails, StopTargets,
                StopPick, StopHalt, StopIdle, StopSettle, memory
  <1>7. ASSUME NEW o \in Procs, Exit(o) \/ CrashHandling(o)
        PROVE  UNCHANGED <<processes, runtime>>
    BY <1>7 DEF Exit, CrashHandling, WatchJudge, OnCrash, CrashDecide,
                BackoffElapsed, memory
  <1>8. ASSUME (\E c \in Clients : ClientCalls(c)) \/ EditToml \/ UNCHANGED vars
        PROVE  UNCHANGED <<processes, runtime>>
    BY <1>8 DEF ClientCalls, EditToml, vars, memory
  <1>9. ASSUME NEW t \in Threads, RemoveProject(t)
        PROVE  RuntimeNamesTracked'
    <2>1. UNCHANGED runtime
      BY <1>9 DEF RemoveProject
    <2> QED
      BY <1>2, <1>3, <1>9, <2>1
  <1> QED
    BY <1>2, <1>4, <1>5, <1>6, <1>7, <1>8, <1>9 DEF Next

(* Whatever Start, Stop, Remove and restarts do at the same time, the pid  *)
(* that runtime has for a key is that of the object the manager would stop *)
(* for that key (manager.go:444-449, 475-478).                             *)
THEOREM TrackedInRuntime == Spec => []RuntimeNamesTracked
  <1>1. Init => RuntimeNamesTracked
    BY DEF Init, RuntimeNamesTracked
  <1> QED
    BY <1>1, TrackedStep, Invariance, PTL DEF Spec

-----------------------------------------------------------------------------
(* Neither the registrations nor an Add between its two writes change. *)
LEMMA SameRegistration ==
  ASSUME RegisteredHasConfig, UNCHANGED <<registry, configs, bare>>,
         \A t \in Threads : thread[t].pc = "configure" => thread'[t] = thread[t]
  PROVE  RegisteredHasConfig'
  BY DEF RegisteredHasConfig, At

LEMMA RegistryStep ==
  Core /\ RegisteredHasConfig /\ [Next]_vars => RegisteredHasConfig'
  <1> SUFFICES ASSUME Core, RegisteredHasConfig, [Next]_vars
               PROVE  RegisteredHasConfig'
    OBVIOUS
  <1>1. TypeOK /\ thread \in [Threads -> Goroutines]
    BY DEF Core, TypeOK
  <1>2. ASSUME NEW t \in Threads, NEW g, Become(t, g), thread[t].pc # "configure"
        PROVE  \A u \in Threads : thread[u].pc = "configure" => thread'[u] = thread[u]
    BY <1>1, <1>2 DEF Become
  <1>3. ASSUME NEW t \in Threads, AddRegister(t)
        PROVE  RegisteredHasConfig'
    (* The project is new, and t is at "configure". *)
    <2>1. /\ registry' = registry \cup {thread[t].project} /\ UNCHANGED <<configs, bare>>
          /\ thread'[t].pc = "configure" /\ thread'[t].project = thread[t].project
          /\ \A u \in Threads \ {t} : thread'[u] = thread[u]
          /\ thread[t].pc = "register"
      BY <1>1, <1>3 DEF AddRegister, Goto, Become, At, Goroutines, history
    <2> QED
      BY <2>1 DEF RegisteredHasConfig, At
  <1>4. ASSUME NEW t \in Threads, AddInstall(t)
        PROVE  RegisteredHasConfig'
    (* t leaves "configure", and its project has a configuration. *)
    <2>1. /\ configs' = [configs EXCEPT ![thread[t].project] = thread[t].cfg]
          /\ UNCHANGED registry /\ bare' = bare \ {thread[t].project}
          /\ thread[t].project \in Projects /\ thread[t].cfg \in Configs
          /\ \A u \in Threads \ {t} : thread'[u] = thread[u]
      BY <1>1, <1>4 DEF AddInstall, Return, Become, At, Core, Shape, AllSound, Sound
    <2>2. \A p \in registry : p \in Projects
      BY <1>1 DEF TypeOK
    <2> QED
      BY <1>1, <2>1, <2>2, SentinelAssumption DEF RegisteredHasConfig, At, TypeOK
  <1>5. ASSUME NEW t \in Threads, RemoveProject(t)
        PROVE  RegisteredHasConfig'
    <2>1. \A u \in Threads : thread[u].pc = "configure" => thread'[u] = thread[u]
      BY <1>2, <1>5 DEF RemoveProject, Return, At
    <2>2. CASE UNCHANGED <<configs, registry, bare>>
      BY <2>1, <2>2, SameRegistration
    <2>3. CASE /\ configs' = [configs EXCEPT ![thread[t].project] = NoConfig]
               /\ registry' = registry \ {thread[t].project}
               /\ bare' = bare \ {thread[t].project}
      BY <1>1, <2>1, <2>3 DEF RegisteredHasConfig, At, TypeOK
    <2> QED
      BY <1>5, <2>2, <2>3 DEF RemoveProject
  <1>6. ASSUME NEW t \in Threads, StartInstall(t)
        PROVE  RegisteredHasConfig'
    <2>1. /\ configs' = [configs EXCEPT ![thread[t].project] = thread[t].cfg]
          /\ UNCHANGED registry /\ bare' = bare \ {thread[t].project}
          /\ thread[t].cfg \in Configs
      BY <1>6 DEF StartInstall, At, Core, Shape, AllSound, Sound
    <2>2. \A u \in Threads : thread[u].pc = "configure" => thread'[u] = thread[u]
      BY <1>2, <1>6 DEF StartInstall, At
    <2> QED
      BY <1>1, <2>1, <2>2, SentinelAssumption DEF RegisteredHasConfig, At, TypeOK
  <1>11. ASSUME NEW t \in Threads, AddUnsaved(t)
         PROVE  RegisteredHasConfig'
    (* The project is registered without a configuration. *)
    <2>1. /\ registry' = registry \cup {thread[t].project}
          /\ bare' = bare \cup {thread[t].project} /\ UNCHANGED configs
      BY <1>11 DEF AddUnsaved
    <2>2. \A u \in Threads : thread[u].pc = "configure" => thread'[u] = thread[u]
      BY <1>2, <1>11 DEF AddUnsaved, Return, At
    <2> QED
      BY <2>1, <2>2 DEF RegisteredHasConfig, At
  <1>7. ASSUME NEW t \in Threads, Operation(t), ~AddRegister(t), ~AddUnsaved(t),
               ~AddInstall(t), ~RemoveProject(t), ~StartInstall(t)
        PROVE  RegisteredHasConfig'
    <2>1. UNCHANGED <<registry, configs, bare>>
      BY <1>7 DEF Operation, AddLoad, StartLoad, StartSkip, StartRefused,
                  StartClaim, StartInherit, StartPrepare, StartSpawn, StartFails, StartTrack,
                  SaveMarshal, SaveWrite, SaveFails, StopTargets, StopPick, StopHalt, StopIdle,
                  StopSettle, StopForget, memory, history
    <2>2. thread[t].pc # "configure" /\ \E g : Become(t, g)
      BY <1>7 DEF Operation, AddLoad, StartLoad, StartSkip, StartRefused,
                  StartClaim, StartInherit, StartPrepare, StartSpawn, StartFails, StartTrack,
                  SaveMarshal, SaveWrite, SaveFails, StopTargets, StopPick, StopHalt, StopIdle,
                  StopSettle, StopForget, At, Goto, Return
    <2> QED
      BY <1>2, <2>1, <2>2, SameRegistration
  <1>8. ASSUME NEW o \in Procs, Exit(o) \/ CrashHandling(o)
        PROVE  RegisteredHasConfig'
    (* A restart goroutine is never inside an Add. *)
    <2>1. UNCHANGED <<registry, configs, bare>>
      BY <1>8 DEF Exit, CrashHandling, WatchJudge, OnCrash, CrashDecide,
                  BackoffElapsed, memory, history
    <2>2. o \in Threads /\ thread[o].pc # "configure"
      BY DEF Threads, Core, Shape, Restarters, MayRestart, Foreign
    <2>3. UNCHANGED thread \/ \E g : Become(o, g)
      BY <1>8 DEF Exit, CrashHandling, WatchJudge, OnCrash, CrashDecide,
                  BackoffElapsed, Goto, Return
    <2> QED
      BY <1>2, <2>1, <2>2, <2>3, SameRegistration
  <1>9. ASSUME NEW c \in Clients, ClientCalls(c)
        PROVE  RegisteredHasConfig'
    <2>1. c \in Threads /\ thread[c].pc # "configure" /\ (\E g : Become(c, g))
          /\ UNCHANGED <<registry, configs, bare>>
      BY <1>9 DEF ClientCalls, At, Threads, memory
    <2> QED
      BY <1>2, <2>1, SameRegistration
  <1>10. CASE EditToml \/ UNCHANGED vars
    BY <1>10, SameRegistration DEF EditToml, vars, memory, history
  <1> QED
    BY <1>3, <1>4, <1>5, <1>6, <1>7, <1>8, <1>9, <1>10, <1>11 DEF Next

(* However Add, Remove and Start of the same project overlap, they leave   *)
(* it its configuration while it is registered, except inside an Add       *)
(* between registry.Add and the lock (manager.go:328-334).  A project that *)
(* LoadAll skipped (manager.go:629-631), or whose Add could not save the   *)
(* registry, may lack one until an Add or a Start has loaded its toml.     *)
THEOREM RegisteredIsConfigured == Spec => []RegisteredHasConfig
  <1>1. Init => RegisteredHasConfig
    BY DEF Init, RegisteredHasConfig
  <1> QED
    BY <1>1, RegistryStep, Invariance, PTL DEF Spec

-----------------------------------------------------------------------------
OneAtATime == \A c, d \in Clients : c = d

(* Where Start has decided to start a key and has not tracked it yet. *)
Claims == {"inherit", "prepare", "spawn", "track"}
InStart == {"each"} \cup Claims

-----------------------------------------------------------------------------
(* What each operation does to its goroutine. *)

(* t is the only goroutine that moves. *)
Moves(t) == \A u \in Threads \ {t} : thread'[u] = thread[u]

LEMMA Moved ==
  ASSUME TypeOK, NEW t \in Threads, NEW g, Become(t, g)
  PROVE  thread'[t] = g /\ Moves(t)
  BY DEF TypeOK, Become, Moves

SameJob(t) == /\ thread'[t].op = thread[t].op
              /\ thread'[t].project = thread[t].project
              /\ thread'[t].names = thread[t].names

SameStart(t) == SameJob(t) /\ thread'[t].cfg = thread[t].cfg

From(t, places) == Moves(t) /\ thread[t].pc \in places
Goes(t, here, there) == From(t, {here}) /\ thread'[t].pc = there
Returns(t, places) == From(t, places) /\ thread'[t] = Idle

LEMMA AddDoes ==
  ASSUME TypeOK, NEW t \in Threads
  PROVE  /\ AddLoad(t) =>
              \/ Returns(t, {"load"})
              \/ /\ Goes(t, "load", "register") /\ SameJob(t)
                 /\ thread'[t].cfg = toml[thread[t].project]
         /\ AddRegister(t) => Goes(t, "register", "configure") /\ SameStart(t)
         /\ AddUnsaved(t) => Returns(t, {"register"})
         /\ AddInstall(t) => Returns(t, {"configure"})
         /\ RemoveProject(t) => Returns(t, {"remove"})
  <1>1. thread[t] \in Goroutines
    BY DEF TypeOK
  <1>2. ASSUME AddLoad(t)
        PROVE  \/ Returns(t, {"load"})
               \/ /\ Goes(t, "load", "register") /\ SameJob(t)
                  /\ thread'[t].cfg = toml[thread[t].project]
    <2>1. CASE Return(t)
      BY <1>2, <2>1, Moved DEF AddLoad, Return, At, Returns, From
    <2>2. CASE ~Return(t)
      <3>1. /\ Moves(t)
            /\ thread'[t] = [thread[t] EXCEPT !.pc = "register",
                                              !.cfg = toml[thread[t].project]]
        BY <1>2, <2>2, Moved DEF AddLoad
      <3> QED
        BY <1>1, <1>2, <3>1 DEF AddLoad, At, Goroutines, Goes, From, SameJob
    <2> QED
      BY <2>1, <2>2
  <1>3. ASSUME AddRegister(t)
        PROVE  Goes(t, "register", "configure") /\ SameStart(t)
    BY <1>1, <1>3, Moved DEF AddRegister, Goto, At, Goroutines, Goes, From, SameStart, SameJob
  <1>4. ASSUME AddInstall(t) PROVE Returns(t, {"configure"})
    BY <1>4, Moved DEF AddInstall, Return, At, Returns, From
  <1>5. ASSUME RemoveProject(t) PROVE Returns(t, {"remove"})
    BY <1>5, Moved DEF RemoveProject, Return, At, Returns, From
  <1>6. ASSUME AddUnsaved(t) PROVE Returns(t, {"register"})
    BY <1>6, Moved DEF AddUnsaved, Return, At, Returns, From
  <1> QED
    BY <1>2, <1>3, <1>4, <1>5, <1>6

LEMMA StartDoes ==
  ASSUME TypeOK, NEW t \in Threads
  PROVE  /\ StartLoad(t) =>
              \/ Returns(t, {"lookup"})
              \/ /\ Goes(t, "lookup", "install") /\ SameJob(t)
                 /\ thread'[t].cfg = toml[thread[t].project]
         /\ StartInstall(t) =>
              /\ Goes(t, "install", "each") /\ SameStart(t)
              /\ thread'[t].todo = Asked(thread[t].project,
                                         thread[t].names \cap DOMAIN thread[t].cfg.port)
         /\ StartSkip(t) =>
              /\ Goes(t, "each", "each") /\ SameStart(t)
              /\ thread'[t].todo \subseteq thread[t].todo
         /\ StartRefused(t) => Returns(t, {"each"})
         /\ StartClaim(t) =>
              /\ Goes(t, "each", "inherit") /\ SameStart(t)
              /\ thread'[t].todo = thread[t].todo \ {thread'[t].key}
              /\ thread'[t].key \in thread[t].todo /\ ~Running(thread'[t].key)
              /\ ~Conflict(thread'[t].key,
                           thread[t].cfg.port[NameOf(thread'[t].key)])
  <1>1. thread[t] \in Goroutines
    BY DEF TypeOK
  <1>2. ASSUME StartLoad(t)
        PROVE  \/ Returns(t, {"lookup"})
               \/ /\ Goes(t, "lookup", "install") /\ SameJob(t)
                  /\ thread'[t].cfg = toml[thread[t].project]
    <2>1. CASE Return(t)
      BY <1>2, <2>1, Moved DEF StartLoad, Return, At, Returns, From
    <2>2. CASE ~Return(t)
      <3>1. /\ Moves(t)
            /\ thread'[t] = [thread[t] EXCEPT !.pc = "install",
                                              !.cfg = toml[thread[t].project]]
        BY <1>2, <2>2, Moved DEF StartLoad
      <3> QED
        BY <1>1, <1>2, <3>1 DEF StartLoad, At, Goroutines, Goes, From, SameJob
    <2> QED
      BY <2>1, <2>2
  <1>3. ASSUME StartInstall(t)
        PROVE  /\ Goes(t, "install", "each") /\ SameStart(t)
               /\ thread'[t].todo = Asked(thread[t].project,
                                          thread[t].names \cap DOMAIN thread[t].cfg.port)
    <2>1. /\ Moves(t)
          /\ thread'[t] = [thread[t] EXCEPT
                          !.pc = "each",
                          !.todo = Asked(thread[t].project,
                                         thread[t].names \cap DOMAIN thread[t].cfg.port)]
      BY <1>3, Moved DEF StartInstall
    <2> QED
      BY <1>1, <1>3, <2>1 DEF StartInstall, At, Goroutines, Goes, From, SameStart, SameJob
  <1>4. ASSUME StartSkip(t)
        PROVE  /\ Goes(t, "each", "each") /\ SameStart(t)
               /\ thread'[t].todo \subseteq thread[t].todo
    <2>1. PICK k \in thread[t].todo : Become(t, [thread[t] EXCEPT !.todo = @ \ {k}])
      BY <1>4 DEF StartSkip
    <2> QED
      BY <1>1, <1>4, <2>1, Moved DEF StartSkip, At, Goroutines, Goes, From, SameStart, SameJob
  <1>5. ASSUME StartRefused(t) PROVE Returns(t, {"each"})
    BY <1>5, Moved DEF StartRefused, Return, At, Returns, From
  <1>6. ASSUME StartClaim(t)
        PROVE  /\ Goes(t, "each", "inherit") /\ SameStart(t)
               /\ thread'[t].todo = thread[t].todo \ {thread'[t].key}
               /\ thread'[t].key \in thread[t].todo /\ ~Running(thread'[t].key)
               /\ ~Conflict(thread'[t].key,
                            thread[t].cfg.port[NameOf(thread'[t].key)])
    <2>1. PICK k \in thread[t].todo :
            /\ ~Running(k) /\ ~Conflict(k, thread[t].cfg.port[NameOf(k)])
            /\ Become(t, [thread[t] EXCEPT !.pc = "inherit", !.key = k,
                                           !.todo = @ \ {k}])
      BY <1>6 DEF StartClaim, Skipped
    <2>2. /\ Moves(t) /\ thread[t].pc = "each"
          /\ thread'[t] = [thread[t] EXCEPT !.pc = "inherit", !.key = k,
                                            !.todo = @ \ {k}]
      BY <1>6, <2>1, Moved DEF StartClaim, At
    <2>3. thread'[t].key = k /\ thread'[t].todo = thread[t].todo \ {k}
      BY <1>1, <2>2 DEF Goroutines
    <2> QED
      BY <1>1, <2>1, <2>2, <2>3 DEF Goroutines, Goes, From, SameStart, SameJob
  <1> QED
    BY <1>2, <1>3, <1>4, <1>5, <1>6

LEMMA SpawnDoes ==
  ASSUME TypeOK, NEW t \in Threads
  PROVE  /\ StartInherit(t) =>
              /\ Goes(t, "inherit", "prepare") /\ SameStart(t)
              /\ thread'[t].todo = thread[t].todo /\ thread'[t].key = thread[t].key
         /\ StartPrepare(t) =>
              /\ Goes(t, "prepare", "spawn") /\ SameStart(t)
              /\ thread'[t].todo = thread[t].todo /\ thread'[t].key = thread[t].key
              /\ thread'[t].hand \in Fresh
              /\ \E opened \in BOOLEAN : Prepares(t, thread'[t].hand, opened)
         /\ StartSpawn(t) =>
              /\ Goes(t, "spawn", "track") /\ SameStart(t)
              /\ thread'[t].todo = thread[t].todo /\ thread'[t].key = thread[t].key
              /\ thread'[t].hand = thread[t].hand
         /\ StartFails(t) => Returns(t, {"spawn", "prepare"})
         /\ StartTrack(t) =>
              /\ Goes(t, "track", "each") /\ SameStart(t)
              /\ thread'[t].todo = thread[t].todo
  <1>1. thread[t] \in Goroutines
    BY DEF TypeOK
  <1>2. ASSUME StartInherit(t)
        PROVE  /\ Goes(t, "inherit", "prepare") /\ SameStart(t)
               /\ thread'[t].todo = thread[t].todo /\ thread'[t].key = thread[t].key
    <2>1. /\ Moves(t)
          /\ thread'[t] = [thread[t] EXCEPT !.pc = "prepare",
                                            !.count = Carried(thread[t].key)]
      BY <1>2, Moved DEF StartInherit
    <2> QED
      BY <1>1, <1>2, <2>1 DEF StartInherit, At, Goroutines, Goes, From, SameStart, SameJob
  <1>3. ASSUME StartPrepare(t)
        PROVE  /\ Goes(t, "prepare", "spawn") /\ SameStart(t)
               /\ thread'[t].todo = thread[t].todo /\ thread'[t].key = thread[t].key
               /\ thread'[t].hand \in Fresh
               /\ \E opened \in BOOLEAN : Prepares(t, thread'[t].hand, opened)
    <2> DEFINE o == CHOOSE u \in Fresh : TRUE
    <2>0. PICK opened \in BOOLEAN : Prepares(t, o, opened)
      BY <1>3, PreparesOne
    <2>1. /\ o \in Fresh /\ thread[t].pc = "prepare"
          /\ Become(t, [thread[t] EXCEPT !.pc = "spawn", !.hand = o, !.count = 0])
      BY <1>3, <2>0 DEF StartPrepare, Prepares, At
    <2> HIDE DEF o
    <2>2. /\ Moves(t)
          /\ thread'[t] = [thread[t] EXCEPT !.pc = "spawn", !.hand = o, !.count = 0]
      BY <2>1, Moved
    <2>3. thread'[t].hand = o
      BY <1>1, <2>2 DEF Goroutines
    <2>4. Goes(t, "prepare", "spawn") /\ SameStart(t)
      BY <1>1, <2>1, <2>2 DEF Goroutines, Goes, From, SameStart, SameJob
    <2>5. thread'[t].todo = thread[t].todo /\ thread'[t].key = thread[t].key
      BY <1>1, <2>2 DEF Goroutines
    <2> QED
      BY <2>0, <2>1, <2>3, <2>4, <2>5
  <1>4. ASSUME StartSpawn(t)
        PROVE  /\ Goes(t, "spawn", "track") /\ SameStart(t)
               /\ thread'[t].todo = thread[t].todo /\ thread'[t].key = thread[t].key
               /\ thread'[t].hand = thread[t].hand
    BY <1>1, <1>4, Moved DEF StartSpawn, Goto, At, Goroutines, Goes, From, SameStart, SameJob
  <1>5. ASSUME StartFails(t) PROVE Returns(t, {"spawn", "prepare"})
    BY <1>5, Moved DEF StartFails, Return, At, Returns, From
  <1>6. ASSUME StartTrack(t)
        PROVE  /\ Goes(t, "track", "each") /\ SameStart(t)
               /\ thread'[t].todo = thread[t].todo
    <2>1. /\ Moves(t)
          /\ thread'[t] = [thread[t] EXCEPT !.pc = "each", !.hand = NoProc]
      BY <1>6, Moved DEF StartTrack
    <2> QED
      BY <1>1, <1>6, <2>1 DEF StartTrack, At, Goroutines, Goes, From, SameStart, SameJob
  <1> QED
    BY <1>2, <1>3, <1>4, <1>5, <1>6

LEMMA SaveDoes ==
  ASSUME TypeOK, NEW t \in Threads
  PROVE  /\ SaveMarshal(t) =>
              /\ From(t, {"each", "stopEach"}) /\ thread'[t].pc = "write"
              /\ SameJob(t)
              /\ thread[t].todo = {} /\ thread'[t].todo = {}
         /\ SaveFails(t) => Returns(t, {"write"})
         /\ SaveWrite(t) =>
              \/ Returns(t, {"write"}) /\ thread[t].op # "restart"
              \/ /\ Goes(t, "write", "lookup")
                 /\ thread[t].op = "restart" /\ thread'[t].op = "start"
                 /\ thread'[t].project = thread[t].project
                 /\ thread'[t].names = thread[t].names
  <1>1. thread[t] \in Goroutines
    BY DEF TypeOK
  <1>2. ASSUME SaveMarshal(t)
        PROVE  /\ From(t, {"each", "stopEach"}) /\ thread'[t].pc = "write"
               /\ SameJob(t)
               /\ thread[t].todo = {} /\ thread'[t].todo = {}
    <2>1. /\ Moves(t)
          /\ thread'[t] = [thread[t] EXCEPT !.pc = "write", !.snap = runtime]
      BY <1>2, Moved DEF SaveMarshal
    <2> QED
      BY <1>1, <1>2, <2>1 DEF SaveMarshal, At, Goroutines, From, SameJob
  <1>3. ASSUME SaveWrite(t)
        PROVE  \/ Returns(t, {"write"}) /\ thread[t].op # "restart"
               \/ /\ Goes(t, "write", "lookup")
                  /\ thread[t].op = "restart" /\ thread'[t].op = "start"
                  /\ thread'[t].project = thread[t].project
                  /\ thread'[t].names = thread[t].names
    <2>1. CASE thread[t].op = "restart"
      <3>1. Moves(t) /\ thread'[t] = Starting(thread[t].project, thread[t].names)
        BY <1>3, <2>1, Moved DEF SaveWrite
      <3> QED
        BY <1>3, <2>1, <3>1 DEF SaveWrite, Starting, Idle, At, Goes, From
    <2>2. CASE thread[t].op # "restart"
      BY <1>3, <2>2, Moved DEF SaveWrite, Return, At, Returns, From
    <2> QED
      BY <2>1, <2>2
  <1>4. ASSUME SaveFails(t) PROVE Returns(t, {"write"})
    BY <1>4, Moved DEF SaveFails, Return, At, Returns, From
  <1> QED
    BY <1>2, <1>3, <1>4

LEMMA StopDoes ==
  ASSUME TypeOK, NEW t \in Threads
  PROVE  /\ StopTargets(t) =>
              /\ Goes(t, "targets", "stopEach") /\ SameJob(t)
              /\ thread'[t].todo = Targets(thread[t].project, thread[t].names)
         /\ StopPick(t) =>
              /\ Goes(t, "stopEach", "halt") /\ SameJob(t)
              /\ thread'[t].key \in thread[t].todo
              /\ thread'[t].todo = thread[t].todo \ {thread'[t].key}
              /\ thread'[t].hand = processes[thread'[t].key]
         /\ StopHalt(t) =>
              /\ Goes(t, "halt", "settle") /\ SameJob(t)
              /\ thread'[t].todo = thread[t].todo
              /\ thread'[t].hand = thread[t].hand
         /\ StopIdle(t) =>
              /\ Goes(t, "halt", "forget") /\ SameJob(t)
              /\ thread'[t].todo = thread[t].todo
         /\ StopSettle(t) =>
              /\ Goes(t, "settle", "forget") /\ SameJob(t)
              /\ thread'[t].todo = thread[t].todo
         /\ StopForget(t) =>
              /\ Goes(t, "forget", "stopEach") /\ SameJob(t)
              /\ thread'[t].todo = thread[t].todo
  <1>1. thread[t] \in Goroutines
    BY DEF TypeOK
  <1>2. ASSUME StopTargets(t)
        PROVE  /\ Goes(t, "targets", "stopEach") /\ SameJob(t)
               /\ thread'[t].todo = Targets(thread[t].project, thread[t].names)
    <2>1. /\ Moves(t)
          /\ thread'[t] = [thread[t] EXCEPT
                          !.pc = "stopEach",
                          !.todo = Targets(thread[t].project, thread[t].names)]
      BY <1>2, Moved DEF StopTargets
    <2> QED
      BY <1>1, <1>2, <2>1 DEF StopTargets, At, Goroutines, Goes, From, SameJob
  <1>3. ASSUME StopPick(t)
        PROVE  /\ Goes(t, "stopEach", "halt") /\ SameJob(t)
               /\ thread'[t].key \in thread[t].todo
               /\ thread'[t].todo = thread[t].todo \ {thread'[t].key}
               /\ thread'[t].hand = processes[thread'[t].key]
    <2>1. PICK k \in thread[t].todo :
            Become(t, [thread[t] EXCEPT !.pc = "halt", !.key = k, !.todo = @ \ {k},
                                        !.hand = processes[k]])
      BY <1>3 DEF StopPick
    <2>2. /\ Moves(t) /\ thread[t].pc = "stopEach"
          /\ thread'[t] = [thread[t] EXCEPT !.pc = "halt", !.key = k, !.todo = @ \ {k},
                                            !.hand = processes[k]]
      BY <1>3, <2>1, Moved DEF StopPick, At
    <2>3. /\ thread'[t].key = k /\ thread'[t].todo = thread[t].todo \ {k}
          /\ thread'[t].hand = processes[k]
      BY <1>1, <2>2 DEF Goroutines
    <2>4. Goes(t, "stopEach", "halt") /\ SameJob(t)
      BY <1>1, <2>2 DEF Goroutines, Goes, From, SameJob
    <2> QED
      BY <2>1, <2>3, <2>4
  <1>4. ASSUME StopHalt(t)
        PROVE  /\ Goes(t, "halt", "settle") /\ SameJob(t)
               /\ thread'[t].todo = thread[t].todo
               /\ thread'[t].hand = thread[t].hand
    BY <1>1, <1>4, Moved DEF StopHalt, Goto, At, Goroutines, Goes, From, SameJob
  <1>5. ASSUME StopIdle(t)
        PROVE  /\ Goes(t, "halt", "forget") /\ SameJob(t)
               /\ thread'[t].todo = thread[t].todo
    <2>1. /\ Moves(t)
          /\ thread'[t] = [thread[t] EXCEPT !.pc = "forget", !.hand = NoProc]
      BY <1>5, Moved DEF StopIdle
    <2> QED
      BY <1>1, <1>5, <2>1 DEF StopIdle, At, Goroutines, Goes, From, SameJob
  <1>6. ASSUME StopSettle(t)
        PROVE  /\ Goes(t, "settle", "forget") /\ SameJob(t)
               /\ thread'[t].todo = thread[t].todo
    <2>1. /\ Moves(t)
          /\ thread'[t] = [thread[t] EXCEPT !.pc = "forget", !.hand = NoProc]
      BY <1>6, Moved DEF StopSettle
    <2> QED
      BY <1>1, <1>6, <2>1 DEF StopSettle, At, Goroutines, Goes, From, SameJob
  <1>7. ASSUME StopForget(t)
        PROVE  /\ Goes(t, "forget", "stopEach") /\ SameJob(t)
               /\ thread'[t].todo = thread[t].todo
    BY <1>1, <1>7, Moved DEF StopForget, Goto, At, Goroutines, Goes, From, SameJob
  <1> QED
    BY <1>2, <1>3, <1>4, <1>5, <1>6, <1>7

(* How a request begins. *)
Entries == {"load", "remove", "lookup", "targets"}

LEMMA CallDoes ==
  ASSUME TypeOK, NEW c \in Clients, ClientCalls(c)
  PROVE  /\ From(c, {"idle"}) /\ thread'[c].pc \in Entries
         /\ thread'[c].op \in Ops /\ thread'[c].pc = Entry[thread'[c].op]
         /\ IF thread'[c].op \in {"start", "restart"}
            THEN halted' = halted \ Asked(thread'[c].project, thread'[c].names)
            ELSE halted' = halted
  <1>1. c \in Threads /\ thread[c] \in Goroutines
    BY DEF TypeOK, Threads
  <1>2. PICK r \in Requests :
          /\ Become(c, [thread[c] EXCEPT !.pc = Entry[r.op], !.op = r.op,
                                         !.project = r.project, !.names = r.names])
          /\ IF r.op \in {"start", "restart"}
             THEN halted' = halted \ Asked(r.project, r.names)
             ELSE halted' = halted
    BY DEF ClientCalls
  <1>3. /\ From(c, {"idle"})
        /\ thread'[c] = [thread[c] EXCEPT !.pc = Entry[r.op], !.op = r.op,
                                          !.project = r.project, !.names = r.names]
    BY <1>1, <1>2, Moved DEF ClientCalls, At, From
  <1>4. /\ thread'[c].op = r.op /\ thread'[c].pc = Entry[r.op]
        /\ thread'[c].project = r.project /\ thread'[c].names = r.names
    BY <1>1, <1>3 DEF Goroutines
  <1>5. r.op \in Ops /\ Entry[r.op] \in Entries
    BY RequestAssumption DEF Entry, Entries, Ops
  <1> QED
    BY <1>2, <1>3, <1>4, <1>5

-----------------------------------------------------------------------------
(* What a step does to one object, seen by Lifecycle. *)
Lawful(o) == [Object(o)!Next]_(Object(o)!vars)

(* An object whose status and child stay the same stutters. *)
LEMMA Stutter ==
  ASSUME NEW o \in Procs, proc'[o].status = proc[o].status, proc'[o].live = proc[o].live
  PROVE  Lawful(o)
  BY DEF Lawful, Object!vars

(* A step changes one object at a time, so that one object decides. *)
LEMMA OneObject ==
  ASSUME Core, NEW h \in Procs, NEW r, Change(h, r),
         proc[h].status # r.status \/ proc[h].live # r.live
            => (proc'[h] = r => Lawful(h))
  PROVE  \A o \in Procs : Lawful(o)
  <1>1. proc \in [Procs -> Objects]
    BY DEF Core, TypeOK
  <1>2. proc'[h] = r /\ \A o \in Procs \ {h} : proc'[o] = proc[o]
    BY <1>1 DEF Change
  <1>3. Lawful(h)
    BY <1>2, Stutter
  <1> QED
    BY <1>2, <1>3, Stutter

LEMMA LawfulOperation ==
  ASSUME Core, NEW t \in Threads, Operation(t)
  PROVE  \A o \in Procs : Lawful(o)
  <1>1. proc \in [Procs -> Objects] /\ Sound(thread[t]) /\ TypeOK
    BY DEF Core, TypeOK, Shape, AllSound
  <1>2. CASE UNCHANGED proc
    BY <1>2, Stutter
  <1>3. CASE StartPrepare(t)
    (* An identity is given to an object, its child does not start yet. *)
    <2>0. PICK opened \in BOOLEAN :
                 Prepares(t, CHOOSE u \in Fresh : TRUE, opened)
      BY <1>3, PreparesOne
    <2> DEFINE h == CHOOSE u \in Fresh : TRUE
               r == [proc[h] EXCEPT !.key = thread[t].key,
                                    !.cfg = thread[t].cfg,
                                    !.restarts = thread[t].count,
                                    !.stdio = opened]
    <2>1. h \in Procs /\ Change(h, r)
      BY <1>3, <2>0 DEF StartPrepare, Prepares, Fresh
    <2>2. r.status = proc[h].status /\ r.live = proc[h].live
      BY <1>1, <2>1 DEF Objects
    <2> HIDE DEF h, r
    <2> QED
      BY <2>1, <2>2, OneObject
  <1>4. CASE StartSpawn(t)
    (* In hand is an object that never started: Launch. *)
    <2>1. PICK h \in Procs :
                 /\ Change(h, [proc[h] EXCEPT !.status = "running", !.live = TRUE,
                                              !.watch = "wait"])
                 /\ proc[h].status = "stopped"
      BY <1>1, <1>4 DEF StartSpawn, At, Sound, Core, Shape, InHand, Stages, Staged
    <2> DEFINE r == [proc[h] EXCEPT !.status = "running", !.live = TRUE,
                                    !.watch = "wait"]
    <2>2. r.status = "running" /\ r.live = TRUE
      BY <1>1 DEF Objects
    <2> HIDE DEF r
    <2>3. proc'[h] = r => Lawful(h)
      BY <2>1, <2>2 DEF Lawful, Object!vars, Object!Next, Object!Launch
    <2>4. Change(h, r)
      BY <2>1 DEF r
    <2> QED
      BY <2>3, <2>4, OneObject
  <1>5. CASE StopHalt(t)
    (* RequestStop *)
    <2>1. PICK h \in Procs : /\ Change(h, [proc[h] EXCEPT !.status = "stopping"])
                             /\ proc[h].status = "running"
      BY <1>1, <1>5 DEF StopHalt, CanHalt, Sound, Goroutines
    <2> DEFINE r == [proc[h] EXCEPT !.status = "stopping"]
    <2>2. r.status = "stopping" /\ r.live = proc[h].live
      BY <1>1 DEF Objects
    <2> HIDE DEF r
    <2>3. proc'[h] = r => Lawful(h)
      BY <2>1, <2>2 DEF Lawful, Object!vars, Object!Next, Object!RequestStop
    <2>4. Change(h, r)
      BY <2>1 DEF r
    <2> QED
      BY <2>3, <2>4, OneObject
  <1>6. CASE StopSettle(t)
    (* The watcher is done, so the child is gone: Finish. *)
    <2>1. PICK h \in Procs :
                 /\ Change(h, [proc[h] EXCEPT !.status = "stopped"])
                 /\ proc[h].status = "stopping" /\ ~proc[h].live
      BY <1>1, <1>6
         DEF StopSettle, At, Awaited, Sound, Core, Shape, InHand, Stages, Staged
    <2> DEFINE r == [proc[h] EXCEPT !.status = "stopped"]
    <2>2. r.status = "stopped" /\ r.live = proc[h].live
      BY <1>1 DEF Objects
    <2> HIDE DEF r
    <2>3. proc'[h] = r => Lawful(h)
      BY <2>1, <2>2 DEF Lawful, Object!vars, Object!Next, Object!Finish
    <2>4. Change(h, r)
      BY <2>1 DEF r
    <2> QED
      BY <2>3, <2>4, OneObject
  <1> QED
    BY <1>2, <1>3, <1>4, <1>5, <1>6
       DEF Operation, AddLoad, AddRegister, AddUnsaved, AddInstall, RemoveProject, StartLoad,
           StartInstall, StartSkip, StartRefused, StartClaim, StartInherit, StartFails,
           StartTrack, SaveMarshal, SaveWrite, SaveFails, StopTargets, StopPick, StopIdle, StopForget

LEMMA LawfulProcess ==
  ASSUME Core, NEW h \in Procs, Exit(h) \/ CrashHandling(h)
  PROVE  \A o \in Procs : Lawful(o)
  <1>1. proc \in [Procs -> Objects] /\ proc[h] \in Objects /\ Staged(proc[h])
    BY DEF Core, TypeOK, Shape, Stages
  <1>2. CASE Exit(h)
    <2> DEFINE r == [proc[h] EXCEPT !.live = FALSE]
    <2>1. Change(h, r) /\ proc[h].live = TRUE
      BY <1>1, <1>2 DEF Exit, Objects
    <2>2. r.status = proc[h].status /\ r.live = FALSE
      BY <1>1 DEF Objects
    <2> HIDE DEF r
    <2>3. proc'[h] = r => Lawful(h)
      BY <2>1, <2>2 DEF Lawful, Object!vars, Object!Next, Object!Exit
    <2> QED
      BY <2>1, <2>3, OneObject
  <1>3. CASE WatchJudge(h) /\ Intentional(h)
    <2> DEFINE r == [proc[h] EXCEPT !.watch = "done"]
    <2>1. Change(h, r)
      BY <1>3 DEF WatchJudge
    <2>2. r.status = proc[h].status /\ r.live = proc[h].live
      BY <1>1 DEF Objects
    <2> HIDE DEF r
    <2> QED
      BY <2>1, <2>2, OneObject
  <1>4. CASE WatchJudge(h) /\ ~Intentional(h)
    (* The child is gone and nobody asked for it: Report. *)
    <2> DEFINE r == [proc[h] EXCEPT !.watch = "report", !.status = "crashed"]
    <2>1. Change(h, r) /\ proc[h].status = "running" /\ ~proc[h].live
      BY <1>1, <1>4 DEF WatchJudge, Intentional, Staged
    <2>2. r.status = "crashed" /\ r.live = proc[h].live
      BY <1>1 DEF Objects
    <2> HIDE DEF r
    <2>3. proc'[h] = r => Lawful(h)
      BY <2>1, <2>2 DEF Lawful, Object!vars, Object!Next, Object!Report
    <2> QED
      BY <2>1, <2>3, OneObject
  <1>5. CASE OnCrash(h)
    <2> DEFINE r == [proc[h] EXCEPT !.watch = "done"]
    <2>1. Change(h, r)
      BY <1>5 DEF OnCrash
    <2>2. r.status = proc[h].status /\ r.live = proc[h].live
      BY <1>1 DEF Objects
    <2> HIDE DEF r
    <2> QED
      BY <2>1, <2>2, OneObject
  <1>6. CASE CrashDecide(h) \/ BackoffElapsed(h)
    (* Only a restart count changes. *)
    <2> DEFINE q == thread[h].hand
               CountSet(n) == [proc[q] EXCEPT !.restarts = n]
    <2>1. q \in Procs
      BY <1>6 DEF CrashDecide, BackoffElapsed, At, Threads, Core, Shape,
                  AllSound, Sound
    <2>2. PICK n : Change(q, CountSet(n))
      BY <1>6 DEF CrashDecide, BackoffElapsed
    <2> DEFINE r == CountSet(n)
    <2>3. r.status = proc[q].status /\ r.live = proc[q].live
      BY <1>1, <2>1 DEF Objects
    <2>4. Change(q, r)
      BY <2>2
    <2> HIDE DEF q, CountSet, r
    <2> QED
      BY <2>1, <2>3, <2>4, OneObject
  <1> QED
    BY <1>2, <1>3, <1>4, <1>5, <1>6 DEF CrashHandling

LEMMA LawfulStep ==
  Core /\ [Next]_vars => [\A o \in Procs : Lawful(o)]_vars
  <1> SUFFICES ASSUME Core, [Next]_vars PROVE \A o \in Procs : Lawful(o)
    OBVIOUS
  <1>1. CASE (\E c \in Clients : ClientCalls(c)) \/ EditToml \/ UNCHANGED vars
    <2>1. UNCHANGED proc
      BY <1>1 DEF ClientCalls, EditToml, vars
    <2> QED
      BY <2>1, Stutter
  <1> QED
    BY <1>1, LawfulOperation, LawfulProcess DEF Next

(* No interleaving of requests, crashes and automatic restarts uses a      *)
(* Process in a way Lifecycle forbids: no second launch, no verdict taken  *)
(* back, no "stopped" before the end of the child (process.go:125-239,     *)
(* manager.go:390-479).                                                    *)
THEOREM ObjectsRefine == Spec => ObjectsImplementLifecycle
  <1>1. Init => \A o \in Procs : Object(o)!Init
    BY DEF Init, Object!Init, Unused
  <1>2. Core /\ [Next]_vars => [\A o \in Procs : [Object(o)!Next]_(Object(o)!vars)]_vars
    BY LawfulStep DEF Lawful
  <1> QED
    BY <1>1, <1>2, Invariance, PTL DEF Spec, ObjectsImplementLifecycle

-----------------------------------------------------------------------------
(* Which child a Stop ends. *)

(* No project's name begins with the name of another (manager.go:458). *)
NoOverlap == \A p, q \in Projects : <<p, q>> \in Extensions => p = q

(* The object is a started one of key k, and will stay it. *)
Labelled(o, k) == proc[o].key = k /\ proc[o].watch # "off"

Known == \A k \in Keys : processes[k] # NoProc => Labelled(processes[k], k)

Tagged(g) ==
  /\ g.pc = "spawn" => proc[g.hand].key = g.key
  /\ g.pc = "track" => Labelled(g.hand, g.key)

(* A Stop has in its list only what was asked for, if names do not overlap, *)
(* and in its hand what its key names.                                      *)
Scoped(g) ==
  /\ NoOverlap /\ g.pc \in {"stopEach", "halt", "settle", "forget"} =>
       g.todo \subseteq Asked(g.project, g.names)
  /\ NoOverlap /\ g.pc = "halt" => g.key \in Asked(g.project, g.names)
  /\ g.pc = "halt" /\ g.hand # NoProc => Labelled(g.hand, g.key)

ScopeInv ==
  /\ Known
  /\ \A t \in Threads : Tagged(thread[t]) /\ Scoped(thread[t])

(* What no step does to an object: give it another key, take its watcher  *)
(* away, or tell it to stop other than in Process.Stop.                    *)
Lasting(o) ==
  /\ proc[o].cfg # NoConfig => /\ proc'[o].key = proc[o].key
                               /\ proc[o].watch # "off" => proc'[o].watch # "off"
  /\ proc[o].status = "running" /\ proc'[o].status = "stopping" =>
       \E t \in Threads : At(t, "halt") /\ thread[t].hand = o

(* One object changes, and lasts. *)
LEMMA OneLasts ==
  ASSUME Core, NEW h \in Procs, NEW r, Change(h, r),
         proc'[h] = r => Lasting(h)
  PROVE  \A o \in Procs : Lasting(o)
  <1>1. proc'[h] = r /\ \A o \in Procs \ {h} : proc'[o] = proc[o]
    BY DEF Change, Core, TypeOK
  <1>2. \A o \in Procs \ {h} : Lasting(o)
    BY <1>1 DEF Lasting
  <1> QED
    BY <1>1, <1>2

LEMMA OperationLasts ==
  ASSUME Core, NEW t \in Threads, Operation(t)
  PROVE  \A o \in Procs : Lasting(o)
  <1>1. proc \in [Procs -> Objects] /\ Sound(thread[t]) /\ TypeOK
    BY DEF Core, TypeOK, Shape, AllSound
  <1>2. CASE UNCHANGED proc
    BY <1>2 DEF Lasting
  <1>3. CASE StartPrepare(t)
    <2>0. PICK opened \in BOOLEAN :
                 Prepares(t, CHOOSE u \in Fresh : TRUE, opened)
      BY <1>3, PreparesOne
    <2> DEFINE h == CHOOSE u \in Fresh : TRUE
               r == [proc[h] EXCEPT !.key = thread[t].key,
                                    !.cfg = thread[t].cfg,
                                    !.restarts = thread[t].count,
                                    !.stdio = opened]
    <2>1. h \in Procs /\ Change(h, r) /\ proc[h].cfg = NoConfig
      BY <1>3, <2>0 DEF StartPrepare, Prepares, Fresh
    <2>2. r.status = proc[h].status
      BY <1>1, <2>1 DEF Objects
    <2> HIDE DEF h, r
    <2>3. proc'[h] = r => Lasting(h)
      BY <2>1, <2>2 DEF Lasting
    <2> QED
      BY <2>1, <2>3, OneLasts
  <1>4. CASE StartSpawn(t)
    <2>1. PICK h \in Procs :
                 Change(h, [proc[h] EXCEPT !.status = "running", !.live = TRUE,
                                           !.watch = "wait"])
      BY <1>1, <1>4 DEF StartSpawn, At, Sound
    <2> DEFINE r == [proc[h] EXCEPT !.status = "running", !.live = TRUE,
                                    !.watch = "wait"]
    <2>2. r.status = "running" /\ r.watch = "wait" /\ r.key = proc[h].key
      BY <1>1 DEF Objects
    <2>3. Change(h, r)
      BY <2>1
    <2> HIDE DEF r
    <2>4. proc'[h] = r => Lasting(h)
      BY <2>2 DEF Lasting
    <2> QED
      BY <2>3, <2>4, OneLasts
  <1>5. CASE StopHalt(t) \/ StopSettle(t)
    <2>1. PICK h \in Procs, s \in {"stopping", "stopped"} :
                 /\ Change(h, [proc[h] EXCEPT !.status = s])
                 /\ s = "stopping" => At(t, "halt") /\ thread[t].hand = h
      BY <1>1, <1>5 DEF StopHalt, StopSettle, CanHalt, At, Sound, Goroutines
    <2> DEFINE r == [proc[h] EXCEPT !.status = s]
    <2>2. r.status = s /\ r.watch = proc[h].watch /\ r.key = proc[h].key
      BY <1>1 DEF Objects
    <2>3. Change(h, r)
      BY <2>1
    <2> HIDE DEF r
    <2>4. proc'[h] = r => Lasting(h)
      BY <2>1, <2>2 DEF Lasting
    <2> QED
      BY <2>3, <2>4, OneLasts
  <1> QED
    BY <1>2, <1>3, <1>4, <1>5
       DEF Operation, AddLoad, AddRegister, AddUnsaved, AddInstall, RemoveProject, StartLoad,
           StartInstall, StartSkip, StartRefused, StartClaim, StartInherit, StartFails,
           StartTrack, SaveMarshal, SaveWrite, SaveFails, StopTargets, StopPick, StopIdle, StopForget

LEMMA ProcessLasts ==
  ASSUME Core, NEW o \in Procs, Exit(o) \/ CrashHandling(o)
  PROVE  \A q \in Procs : Lasting(q)
  <1>1. proc \in [Procs -> Objects] /\ Sound(thread[o]) /\ TypeOK
    BY DEF Core, TypeOK, Shape, AllSound, Threads
  <1>2. CASE Exit(o) \/ WatchJudge(o) \/ OnCrash(o)
    <2>1. PICK r \in Objects :
            /\ Change(o, r) /\ r.key = proc[o].key
            /\ r.watch \in {"done", "report", proc[o].watch}
            /\ r.status \in {"crashed", proc[o].status}
      <3>1. CASE Exit(o)
        <4> DEFINE r == [proc[o] EXCEPT !.live = FALSE]
        <4>1. Change(o, r)
          BY <3>1 DEF Exit
        <4>2. r \in Objects /\ r.key = proc[o].key /\ r.watch = proc[o].watch
              /\ r.status = proc[o].status
          BY <1>1 DEF Objects
        <4> HIDE DEF r
        <4> QED
          BY <4>1, <4>2
      <3>2. CASE WatchJudge(o) /\ ~Intentional(o)
        <4> DEFINE r == [proc[o] EXCEPT !.watch = "report", !.status = "crashed"]
        <4>1. Change(o, r)
          BY <3>2 DEF WatchJudge
        <4>2. r \in Objects /\ r.key = proc[o].key /\ r.watch = "report"
              /\ r.status = "crashed"
          BY <1>1 DEF Objects
        <4> HIDE DEF r
        <4> QED
          BY <4>1, <4>2
      <3>3. CASE OnCrash(o) \/ (WatchJudge(o) /\ Intentional(o))
        <4> DEFINE r == [proc[o] EXCEPT !.watch = "done"]
        <4>1. Change(o, r)
          BY <3>3 DEF WatchJudge, OnCrash
        <4>2. r \in Objects /\ r.key = proc[o].key /\ r.watch = "done"
              /\ r.status = proc[o].status
          BY <1>1 DEF Objects
        <4> HIDE DEF r
        <4> QED
          BY <4>1, <4>2
      <3> QED
        BY <1>2, <3>1, <3>2, <3>3
    <2>2. proc'[o] = r => Lasting(o)
      BY <2>1 DEF Lasting
    <2> QED
      BY <2>1, <2>2, OneLasts
  <1>3. CASE CrashDecide(o) \/ BackoffElapsed(o)
    <2> DEFINE q == thread[o].hand
               CountSet(n) == [proc[q] EXCEPT !.restarts = n]
    <2>1. q \in Procs
      BY <1>1, <1>3 DEF CrashDecide, BackoffElapsed, At, Sound
    <2>2. PICK n : Change(q, CountSet(n))
      BY <1>3 DEF CrashDecide, BackoffElapsed
    <2> DEFINE r == CountSet(n)
    <2>3. r.status = proc[q].status /\ r.watch = proc[q].watch /\ r.key = proc[q].key
      BY <1>1, <2>1 DEF Objects
    <2>4. Change(q, r)
      BY <2>2
    <2> HIDE DEF q, CountSet, r
    <2>5. proc'[q] = r => Lasting(q)
      BY <2>3 DEF Lasting
    <2> QED
      BY <2>1, <2>4, <2>5, OneLasts
  <1> QED
    BY <1>2, <1>3 DEF CrashHandling

LEMMA StepLasts ==
  ASSUME Core, [Next]_vars
  PROVE  \A o \in Procs : Lasting(o)
  <1>1. CASE (\E c \in Clients : ClientCalls(c)) \/ EditToml \/ UNCHANGED vars
    BY <1>1 DEF ClientCalls, EditToml, vars, Lasting
  <1> QED
    BY <1>1, OperationLasts, ProcessLasts DEF Next

LEMMA LabelLasts ==
  ASSUME Core, NEW o \in Procs, NEW k, Labelled(o, k), Lasting(o)
  PROVE  Labelled(o, k)'
  <1>1. proc[o].cfg # NoConfig
    BY SentinelAssumption DEF Labelled, Core, Shape, Stages, Staged
  <1> QED
    BY <1>1 DEF Labelled, Lasting

(* A goroutine that stays where it is keeps what it knows. *)
LEMMA StayerKnows ==
  ASSUME Core, ScopeInv, [Next]_vars, NEW t \in Threads, thread'[t] = thread[t]
  PROVE  (Tagged(thread[t]) /\ Scoped(thread[t]))'
  <1>1. Tagged(thread[t]) /\ Scoped(thread[t]) /\ Sound(thread[t])
    BY DEF ScopeInv, Core, Shape, AllSound
  <1>2. \A o \in Procs : Lasting(o)
    BY StepLasts
  <1>3. Tagged(thread[t])'
    <2>1. CASE thread[t].pc = "spawn"
      <3>1. thread[t].hand \in Procs /\ proc[thread[t].hand].cfg # NoConfig
        BY <1>1, <2>1, SentinelAssumption DEF Sound, Core, Shape, InHand
      <3> QED
        BY <1>1, <1>2, <2>1, <3>1 DEF Tagged, Lasting
    <2>2. CASE thread[t].pc = "track"
      <3>1. thread[t].hand \in Procs /\ Labelled(thread[t].hand, thread[t].key)
        BY <1>1, <2>2 DEF Sound, Tagged
      <3>2. PICK h \in Procs : h = thread[t].hand
        BY <3>1
      <3>3. PICK k \in Keys : k = thread[t].key
        BY <1>1, <2>2 DEF Sound
      <3>4. Labelled(h, k)'
        BY <1>2, <3>1, <3>2, <3>3, LabelLasts
      <3> QED
        BY <2>2, <3>2, <3>3, <3>4 DEF Tagged
    <2> QED
      BY <2>1, <2>2 DEF Tagged
  <1>4. Scoped(thread[t])'
    <2>1. CASE thread[t].pc = "halt" /\ thread[t].hand # NoProc
      <3>1. thread[t].hand \in Procs /\ Labelled(thread[t].hand, thread[t].key)
        BY <1>1, <2>1 DEF Sound, Goroutines, Scoped
      <3>2. PICK h \in Procs : h = thread[t].hand
        BY <3>1
      <3>3. PICK k \in Keys : k = thread[t].key
        BY <1>1, <2>1 DEF Sound
      <3>4. Labelled(h, k)'
        BY <1>2, <3>1, <3>2, <3>3, LabelLasts
      <3> QED
        BY <1>1, <2>1, <3>2, <3>3, <3>4 DEF Scoped
    <2>2. CASE ~(thread[t].pc = "halt" /\ thread[t].hand # NoProc)
      BY <1>1, <2>2 DEF Scoped
    <2> QED
      BY <2>1, <2>2
  <1> QED
    BY <1>3, <1>4

LEMMA KnownLasts ==
  ASSUME Core, ScopeInv, [Next]_vars,
         \A k \in Keys : processes'[k] \in {NoProc, processes[k]}
  PROVE  Known'
  <1> SUFFICES ASSUME NEW k \in Keys, processes'[k] # NoProc
               PROVE  Labelled(processes[k], k)'
    BY DEF Known
  <1>1. processes[k] \in Procs /\ processes'[k] = processes[k]
        /\ Labelled(processes[k], k)
    BY DEF ScopeInv, Known, Core, TypeOK
  <1>2. PICK h \in Procs : h = processes[k]
    BY <1>1
  <1>3. Labelled(h, k)'
    BY <1>1, <1>2, StepLasts, LabelLasts
  <1> QED
    BY <1>1, <1>2, <1>3

LEMMA MoverKnows ==
  ASSUME Core, ScopeInv, [Next]_vars, NEW t \in Threads, Moves(t),
         Known', (Tagged(thread[t]) /\ Scoped(thread[t]))'
  PROVE  ScopeInv'
  <1>1. ASSUME NEW u \in Threads
        PROVE  (Tagged(thread[u]) /\ Scoped(thread[u]))'
    BY StayerKnows DEF Moves
  <1> QED
    BY <1>1 DEF ScopeInv

(* A goroutine that goes where it need not know anything. *)
LEMMA PlainMove ==
  ASSUME Core, ScopeInv, [Next]_vars, NEW t \in Threads, Moves(t),
         \A k \in Keys : processes'[k] \in {NoProc, processes[k]},
         thread'[t].pc \notin {"spawn", "track", "stopEach", "halt", "settle", "forget"}
  PROVE  ScopeInv'
  <1>1. (Tagged(thread[t]) /\ Scoped(thread[t]))'
    BY DEF Tagged, Scoped
  <1> QED
    BY <1>1, KnownLasts, MoverKnows

LEMMA PlainScope ==
  ASSUME Core, ScopeInv, [Next]_vars, NEW t \in Threads,
         \/ AddLoad(t) \/ AddRegister(t) \/ AddUnsaved(t) \/ AddInstall(t)
         \/ RemoveProject(t) \/ SaveFails(t)
         \/ StartLoad(t) \/ StartInstall(t) \/ StartSkip(t) \/ StartRefused(t)
         \/ StartClaim(t) \/ StartInherit(t) \/ StartFails(t)
         \/ SaveMarshal(t) \/ SaveWrite(t)
  PROVE  ScopeInv'
  <1>1. TypeOK
    BY DEF Core
  <1>2. \A k \in Keys : processes'[k] \in {NoProc, processes[k]}
    BY DEF AddLoad, AddRegister, AddUnsaved, AddInstall, RemoveProject, SaveFails,
           StartLoad, StartInstall, StartSkip, StartRefused, StartClaim, StartInherit, StartFails, SaveMarshal,
           SaveWrite, memory, Drop
  <1>3. /\ Moves(t)
        /\ thread'[t].pc \notin {"spawn", "track", "stopEach", "halt", "settle", "forget"}
    <2>1. Idle.pc = "idle"
      BY DEF Idle
    <2>2. CASE \/ AddLoad(t) \/ AddRegister(t) \/ AddUnsaved(t) \/ AddInstall(t)
               \/ RemoveProject(t)
      BY <1>1, <2>1, <2>2, AddDoes DEF From, Goes, Returns
    <2>3. CASE StartLoad(t) \/ StartInstall(t) \/ StartSkip(t) \/ StartRefused(t) \/ StartClaim(t)
      BY <1>1, <2>1, <2>3, StartDoes DEF From, Goes, Returns
    <2>4. CASE StartInherit(t) \/ StartFails(t)
      BY <1>1, <2>1, <2>4, SpawnDoes DEF From, Goes, Returns
    <2>5. CASE SaveMarshal(t) \/ SaveWrite(t) \/ SaveFails(t)
      BY <1>1, <2>1, <2>5, SaveDoes DEF From, Goes, Returns
    <2> QED
      BY <2>2, <2>3, <2>4, <2>5
  <1> QED
    BY <1>2, <1>3, PlainMove

LEMMA StartScope ==
  ASSUME Core, ScopeInv, [Next]_vars, NEW t \in Threads,
         StartPrepare(t) \/ StartSpawn(t) \/ StartTrack(t)
  PROVE  ScopeInv'
  <1>1. TypeOK /\ Sound(thread[t]) /\ Tagged(thread[t])
    BY DEF Core, Shape, AllSound, ScopeInv
  <1>2. CASE StartPrepare(t)
    <2>1. /\ Goes(t, "prepare", "spawn") /\ thread'[t].key = thread[t].key
          /\ thread'[t].hand \in Fresh
          /\ \E opened \in BOOLEAN : Prepares(t, thread'[t].hand, opened)
      BY <1>1, <1>2, SpawnDoes
    <2>2. thread'[t].hand \in Procs
      BY <2>1 DEF Fresh
    <2>3. PICK h \in Procs : h = thread'[t].hand
      BY <2>2
    <2>8. PICK opened \in BOOLEAN : Prepares(t, h, opened)
      BY <2>1, <2>3
    <2>4. proc'[h] = [proc[h] EXCEPT !.key = thread[t].key, !.cfg = thread[t].cfg,
                                     !.restarts = thread[t].count, !.stdio = opened]
      BY <1>1, <2>8 DEF Prepares, Change, TypeOK
    <2>5. proc'[h].key = thread[t].key
      BY <1>1, <2>4 DEF TypeOK, Objects
    <2>6. (Tagged(thread[t]) /\ Scoped(thread[t]))'
      BY <2>1, <2>3, <2>5 DEF Tagged, Scoped, Goes
    <2>7. Known'
      BY <1>2, KnownLasts DEF StartPrepare
    <2> QED
      BY <2>1, <2>6, <2>7, MoverKnows DEF Goes, From
  <1>3. CASE StartSpawn(t)
    <2>1. /\ Goes(t, "spawn", "track") /\ thread'[t].key = thread[t].key
          /\ thread'[t].hand = thread[t].hand
      BY <1>1, <1>3, SpawnDoes
    <2>2. /\ thread[t].hand \in Procs /\ proc[thread[t].hand].key = thread[t].key
      BY <1>1, <2>1 DEF Sound, Tagged, Goes, From
    <2>3. PICK h \in Procs : h = thread[t].hand
      BY <2>2
    <2>4. proc'[h] = [proc[h] EXCEPT !.status = "running", !.live = TRUE, !.watch = "wait"]
      BY <1>1, <1>3, <2>3 DEF StartSpawn, Change, TypeOK
    <2>5. proc'[h].key = thread[t].key /\ proc'[h].watch = "wait"
      BY <1>1, <2>2, <2>3, <2>4 DEF TypeOK, Objects
    <2>6. (Tagged(thread[t]) /\ Scoped(thread[t]))'
      BY <2>1, <2>3, <2>5 DEF Tagged, Scoped, Goes, Labelled
    <2>7. Known'
      BY <1>3, KnownLasts DEF StartSpawn, memory
    <2> QED
      BY <2>1, <2>6, <2>7, MoverKnows DEF Goes, From
  <1>4. CASE StartTrack(t)
    <2>1. Goes(t, "track", "each")
      BY <1>1, <1>4, SpawnDoes
    <2>2. PICK h \in Procs : h = thread[t].hand
      BY <1>1, <2>1 DEF Sound, Goes, From
    <2>3. PICK k \in Keys : k = thread[t].key
      BY <1>1, <2>1 DEF Sound, Goes, From
    <2>4. UNCHANGED proc /\ Labelled(h, k)
      BY <1>1, <1>4, <2>1, <2>2, <2>3 DEF StartTrack, Tagged, Goes, From
    <2>5. \A j \in Keys : processes'[j] \in {processes[j], h}
                          /\ (processes'[j] = processes[j] \/ j = k)
      BY <1>1, <1>4, <2>2, <2>3 DEF StartTrack, TypeOK
    <2>6. Known'
      <3> SUFFICES ASSUME NEW j \in Keys, processes'[j] # NoProc
                   PROVE  Labelled(processes[j], j)'
        BY DEF Known
      <3>1. processes[j] # NoProc => Labelled(processes[j], j)
        BY DEF ScopeInv, Known
      <3> QED
        BY <2>4, <2>5, <3>1 DEF Labelled
    <2>7. (Tagged(thread[t]) /\ Scoped(thread[t]))'
      BY <2>1 DEF Tagged, Scoped, Goes
    <2> QED
      BY <2>1, <2>6, <2>7, MoverKnows DEF Goes, From
  <1> QED
    BY <1>2, <1>3, <1>4

LEMMA StopScopes ==
  ASSUME Core, ScopeInv, [Next]_vars, NEW t \in Threads,
         \/ StopTargets(t) \/ StopPick(t) \/ StopHalt(t) \/ StopIdle(t)
         \/ StopSettle(t) \/ StopForget(t)
  PROVE  ScopeInv'
  <1>1. TypeOK /\ thread[t] \in Goroutines /\ Sound(thread[t]) /\ Scoped(thread[t])
    BY DEF Core, Shape, AllSound, ScopeInv, TypeOK
  <1>2. Known'
    BY KnownLasts DEF StopTargets, StopPick, StopHalt, StopIdle, StopSettle, StopForget,
                      memory
  <1>3. Moves(t) /\ SameJob(t)
    BY <1>1, StopDoes DEF Goes, From
  <1>4. Asked(thread'[t].project, thread'[t].names) = Asked(thread[t].project, thread[t].names)
    BY <1>3 DEF SameJob
  <1>5. (Tagged(thread[t]) /\ Scoped(thread[t]))'
    <2>1. CASE StopTargets(t)
      <3>1. /\ Goes(t, "targets", "stopEach")
            /\ thread'[t].todo = Targets(thread[t].project, thread[t].names)
        BY <1>1, <2>1, StopDoes
      <3>2. thread[t].project \in Projects
        BY <1>1, <3>1 DEF Sound, Goes, From
      <3>3. ASSUME NoOverlap, NEW k \in Targets(thread[t].project, thread[t].names)
            PROVE  k \in Asked(thread[t].project, thread[t].names)
        <4>1. ProjectOf(k) \in Projects /\ NameOf(k) \in Names /\ k \in Keys
          BY DEF Targets, Keys, ProjectOf, NameOf
        <4>2. ProjectOf(k) = thread[t].project
          BY <3>2, <3>3, <4>1 DEF Targets, Matches, NoOverlap
        <4> QED
          BY <3>3, <4>1, <4>2 DEF Targets, Asked
      <3> QED
        BY <1>4, <3>1, <3>3 DEF Tagged, Scoped, Goes
    <2>2. CASE StopPick(t)
      <3>1. /\ Goes(t, "stopEach", "halt")
            /\ thread'[t].key \in thread[t].todo
            /\ thread'[t].todo = thread[t].todo \ {thread'[t].key}
            /\ thread'[t].hand = processes[thread'[t].key]
        BY <1>1, <2>2, StopDoes
      <3>2. NoOverlap => thread[t].todo \subseteq Asked(thread[t].project, thread[t].names)
        BY <1>1, <3>1 DEF Scoped, Goes, From
      <3>3. thread'[t].key \in Keys
        BY <1>1, <3>1 DEF Goroutines
      <3>4. UNCHANGED proc
        BY <2>2 DEF StopPick
      <3>5. thread'[t].hand # NoProc => Labelled(thread'[t].hand, thread'[t].key)
        BY <3>1, <3>3 DEF ScopeInv, Known
      <3> QED
        BY <1>4, <3>1, <3>2, <3>4, <3>5 DEF Tagged, Scoped, Goes, Labelled
    <2>3. CASE StopHalt(t) \/ StopIdle(t) \/ StopSettle(t) \/ StopForget(t)
      <3>1. /\ thread[t].pc \in {"halt", "settle", "forget"}
            /\ thread'[t].pc \in {"settle", "forget", "stopEach"}
            /\ thread'[t].todo = thread[t].todo
        BY <1>1, <2>3, StopDoes DEF Goes, From
      <3> QED
        BY <1>1, <1>4, <3>1 DEF Tagged, Scoped
    <2> QED
      BY <2>1, <2>2, <2>3
  <1> QED
    BY <1>2, <1>3, <1>5, MoverKnows

LEMMA CrashScope ==
  ASSUME Core, ScopeInv, [Next]_vars, NEW o \in Procs, Exit(o) \/ CrashHandling(o)
  PROVE  ScopeInv'
  <1>1. UNCHANGED processes
    BY DEF Exit, CrashHandling, WatchJudge, OnCrash, CrashDecide, BackoffElapsed, memory
  <1>2. o \in Threads /\ TypeOK
    BY DEF Threads, Core
  <1>3. CASE UNCHANGED thread
    <2>1. Known' /\ \A u \in Threads : (Tagged(thread[u]) /\ Scoped(thread[u]))'
      BY <1>1, <1>3, KnownLasts, StayerKnows
    <2> QED
      BY <2>1 DEF ScopeInv
  <1>4. CASE ~(UNCHANGED thread)
    <2>1. PICK g : Become(o, g) /\ g.pc \in {"decide", "idle", "backoff", "lookup"}
      <3>1. thread[o] \in Goroutines
        BY <1>2 DEF TypeOK
      <3>2. CASE OnCrash(o)
        <4> DEFINE g == [thread[o] EXCEPT !.pc = "decide", !.key = proc[o].key,
                                          !.hand = processes[proc[o].key],
                                          !.cfg = proc[o].cfg]
        <4>1. Become(o, g)
          BY <1>4, <3>2 DEF OnCrash
        <4>2. g.pc = "decide"
          BY <3>1 DEF Goroutines
        <4> HIDE DEF g
        <4> QED
          BY <4>1, <4>2
      <3>3. CASE CrashDecide(o)
        <4>1. CASE Return(o)
          BY <4>1 DEF Return, Idle
        <4>2. CASE Goto(o, "backoff")
          <5> DEFINE g == [thread[o] EXCEPT !.pc = "backoff"]
          <5>1. Become(o, g) /\ g.pc = "backoff"
            BY <3>1, <4>2 DEF Goto, Goroutines
          <5> HIDE DEF g
          <5> QED
            BY <5>1
        <4> QED
          BY <3>3, <4>1, <4>2 DEF CrashDecide
      <3>4. CASE BackoffElapsed(o)
        <4> DEFINE k == thread[o].key
                   g == Starting(ProjectOf(k), {NameOf(k)})
        <4>1. Become(o, g) /\ g.pc = "lookup"
          BY <3>4 DEF BackoffElapsed, Starting, Idle
        <4> HIDE DEF g
        <4> QED
          BY <4>1
      <3> QED
        BY <1>4, <3>2, <3>3, <3>4 DEF Exit, CrashHandling, WatchJudge
    <2> QED
      BY <1>1, <1>2, <2>1, Moved, PlainMove
  <1> QED
    BY <1>3, <1>4

LEMMA ScopeStep == Core /\ ScopeInv /\ [Next]_vars => ScopeInv'
  <1> SUFFICES ASSUME Core, ScopeInv, [Next]_vars PROVE ScopeInv'
    OBVIOUS
  <1>1. CASE EditToml \/ UNCHANGED vars
    <2>1. UNCHANGED <<processes, thread>>
      BY <1>1 DEF EditToml, vars, memory
    <2>2. Known' /\ \A u \in Threads : (Tagged(thread[u]) /\ Scoped(thread[u]))'
      BY <2>1, KnownLasts, StayerKnows
    <2> QED
      BY <2>2 DEF ScopeInv
  <1>2. ASSUME NEW c \in Clients, ClientCalls(c) PROVE ScopeInv'
    <2>1. c \in Threads /\ Moves(c) /\ thread'[c].pc \in Entries
      BY <1>2, CallDoes DEF From, Core, Threads
    <2>2. UNCHANGED processes
      BY <1>2 DEF ClientCalls, memory
    <2> QED
      BY <2>1, <2>2, PlainMove DEF Entries
  <1>3. ASSUME NEW t \in Threads, Operation(t) PROVE ScopeInv'
    BY <1>3, PlainScope, StartScope, StopScopes DEF Operation
  <1> QED
    BY <1>1, <1>2, <1>3, CrashScope DEF Next

LEMMA ScopeInvariance == Spec => []ScopeInv
  <1>1. Init => ScopeInv
    BY DEF Init, ScopeInv, Known, Tagged, Scoped, Idle
  <1> QED
    BY <1>1, Invariance, ScopeStep, PTL DEF Spec

(* Where no project's name begins with another's, a Stop ends only what it *)
(* was asked to end, however many requests, crashes and restarts run at    *)
(* once: between the list of keys and the signal, the key may have come to *)
(* name another object, but never one of another key (manager.go:454-480). *)
THEOREM StopsOnlyAsked == NoOverlap /\ Spec => StopScope
  <1> SUFFICES ASSUME NoOverlap PROVE Spec => StopScope
    OBVIOUS
  <1>1. Core /\ ScopeInv /\ [Next]_vars =>
          [\A o \in Procs :
             proc[o].status = "running" /\ proc'[o].status = "stopping" =>
               \E t \in Threads :
                 At(t, "halt")
                   /\ proc[o].key \in Asked(thread[t].project, thread[t].names)]_vars
    <2> SUFFICES ASSUME Core, ScopeInv, [Next]_vars, NEW o \in Procs,
                        proc[o].status = "running", proc'[o].status = "stopping"
                 PROVE  \E t \in Threads :
                          At(t, "halt")
                            /\ proc[o].key \in Asked(thread[t].project, thread[t].names)
      OBVIOUS
    <2>1. PICK t \in Threads : At(t, "halt") /\ thread[t].hand = o
      BY StepLasts DEF Lasting
    <2>2. Scoped(thread[t]) /\ o # NoProc
      BY SentinelAssumption DEF ScopeInv
    <2> QED
      BY <2>1, <2>2 DEF Scoped, At, Labelled
  <1> QED
    BY <1>1, Invariance, ScopeInvariance, PTL DEF Spec, StopScope
=============================================================================
