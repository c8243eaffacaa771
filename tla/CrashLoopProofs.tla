---------------------------- MODULE CrashLoopProofs ----------------------------
(***************************************************************************)
(* The budget of automatic restarts, for every number of projects,         *)
(* processes and objects, every toml, children that crash at any moment    *)
(* after Start has tracked them, long runs and starts that fail.           *)
(*                                                                         *)
(* The heart of the invariant LoopInv is Unique: at any moment at most one *)
(* goroutine or living child (Has) can lead to the next start of a key,    *)
(* though requests, watchers and restart goroutines all run at once.  So   *)
(* the count which a new object inherits (Covers) is never a stale one.    *)
(***************************************************************************)
EXTENDS ManagerProofs

(* One client that makes one request, of tomls that nobody edits, and      *)
(* children that do not end before Start has tracked them.  Each is        *)
(* needed: a second request or a changed toml starts a new count while an  *)
(* old one is still used, and a crash before Start has tracked the child   *)
(* is counted on its predecessor (manager_endless_restarts).               *)
Unattended == OneAtATime /\ MaxCalls <= 1 /\ MaxEdits = 0 /\ ~EarlyExits

(* A goroutine that may still start a child of key k. *)
Works(g, k) ==
  \/ g.pc \in {"decide", "backoff"} \cup Claims /\ g.key = k
  \/ g.pc \in {"lookup", "install"} /\ k \in Asked(g.project, g.names)
  \/ g.pc \in InStart /\ k \in g.todo

(* A tracked object whose child has not ended, or not been dealt with. *)
Guards(o, k) == processes[k] = o /\ proc[o].watch \in {"wait", "report"}

(* An object and the goroutine its crash starts count as one. *)
Has(t, k) == Works(thread[t], k) \/ (t \in Procs /\ Guards(t, k))

Unique == \A k \in Keys : \A t, u \in Threads : Has(t, k) /\ Has(u, k) => t = u

(* The restart goroutine of an object begins after the object's end. *)
Late == \A o \in Procs : thread[o].pc # "idle" => proc[o].watch = "done"

Tracked ==
  \A o \in Procs : proc[o].watch \in {"wait", "report"} =>
    \/ processes[proc[o].key] = o
    \/ \E t \in Threads : thread[t].pc = "track" /\ thread[t].hand = o

(* No toml changes, and there is no child to stop. *)
Planned(g) ==
  /\ g.pc \in {"lookup", "install"} \cup InStart => g.op = "start"
  /\ g.pc \in {"install"} \cup InStart => g.cfg = toml[g.project]
  /\ g.pc \in InStart => \A k \in g.todo : ProjectOf(k) = g.project
  /\ g.pc \in Claims => ProjectOf(g.key) = g.project /\ g.key \notin g.todo
  /\ g.pc \in {"decide", "backoff"} =>
       g.cfg \in Configs /\ g.cfg = toml[ProjectOf(g.key)]
  /\ g.pc = "stopEach" => g.todo = {}
  /\ g.pc \notin {"halt", "settle", "forget"}

Configured ==
  \A o \in Procs :
    /\ proc[o].cfg # NoConfig => /\ proc[o].key \in Keys
                                 /\ proc[o].cfg = toml[ProjectOf(proc[o].key)]
    /\ proc[o].status # "stopping"

(* Before the client's request, and before it gets to Start, nothing ran. *)
Early(g) ==
  \/ g.pc \in {"load", "register", "configure", "remove", "targets", "stopEach"}
  \/ g.pc = "write" /\ g.op = "restart"

Dormant ==
  /\ \A o \in Procs : thread[o].pc = "idle" /\ proc[o].watch = "off"
  /\ \A k \in Keys : processes[k] = NoProc

Asleep ==
  \A c \in Clients : /\ calls[c] = 0 => thread[c].pc = "idle" /\ Dormant
                     /\ Early(thread[c]) => Dormant

(* The budget of a key; without a toml nothing of it is ever started. *)
Limit(k) ==
  IF toml[ProjectOf(k)] = NoConfig THEN 1 ELSE toml[ProjectOf(k)].max

(* n is a count that covers the restarts of k, within its budget. *)
Covers(n, k) == autos[k] <= n /\ n <= Limit(k)

Counted == \A k \in Keys : Covers(Carried(k), k)

Held(g) ==
  /\ g.pc \in {"decide", "backoff"} => g.hand = processes[g.key]
  /\ g.pc = "backoff" => Carried(g.key) < Limit(g.key)
  /\ g.pc = "prepare" => Covers(g.count, g.key)
  /\ g.pc \in {"spawn", "track"} => Covers(proc[g.hand].restarts, g.key)
  /\ g.pc = "track" => proc[g.hand].watch = "wait" /\ proc[g.hand].live

LoopInv ==
  /\ Unattended
  /\ Unique /\ Late /\ Tracked /\ Configured /\ Asleep /\ Counted
  /\ \A t \in Threads : Planned(thread[t]) /\ Held(thread[t])

-----------------------------------------------------------------------------
(* What the keys and the hands of goroutines have to do with each other. *)
Busiest == {"decide", "backoff"} \cup Claims

LEMMA BusyHas ==
  ASSUME Core, NEW t \in Threads, thread[t].pc \in Busiest
  PROVE  thread[t].key \in Keys /\ Has(t, thread[t].key)
  BY DEF Core, Shape, AllSound, Sound, Has, Works, Busiest, Claims

LEMMA KeysApart ==
  ASSUME Core, LoopInv, NEW t \in Threads, NEW u \in Threads, t # u,
         thread[t].pc \in Busiest, thread[u].pc \in Busiest
  PROVE  thread[t].key # thread[u].key
  BY BusyHas DEF LoopInv, Unique

LEMMA Spelled ==
  ASSUME Core, ScopeInv, NEW t \in Threads, thread[t].pc \in {"spawn", "track"}
  PROVE  /\ thread[t].hand \in Procs /\ thread[t].key \in Keys
         /\ proc[thread[t].hand].key = thread[t].key
         /\ proc[thread[t].hand].cfg \in Configs
  <1>1. Sound(thread[t]) /\ Tagged(thread[t])
    BY DEF Core, Shape, AllSound, ScopeInv
  <1>2. thread[t].hand \in Procs /\ thread[t].key \in Keys
    BY <1>1 DEF Sound
  <1>3. CASE thread[t].pc = "spawn"
    BY <1>1, <1>2, <1>3 DEF Tagged, Core, Shape, InHand
  <1>4. CASE thread[t].pc = "track"
    BY <1>1, <1>2, <1>4 DEF Tagged, Labelled, Core, Shape, Stages, Staged
  <1> QED
    BY <1>2, <1>3, <1>4

(* What is spawned is not yet tracked. *)
LEMMA HandUntracked ==
  ASSUME Core, ScopeInv, LoopInv, NEW t \in Threads, NEW k \in Keys,
         thread[t].pc \in {"spawn", "track"}
  PROVE  processes[k] # thread[t].hand
  <1> SUFFICES ASSUME processes[k] = thread[t].hand PROVE FALSE
    OBVIOUS
  <1>1. PICK h \in Procs : h = thread[t].hand
    BY Spelled
  <1>2. Labelled(h, k) /\ k = thread[t].key
    BY <1>1, Spelled, SentinelAssumption DEF ScopeInv, Known, Labelled
  <1>3. thread[t].pc = "track" /\ proc[h].watch = "wait"
    BY <1>1, <1>2 DEF LoopInv, Held, Limit, Labelled, Core, Shape, InHand
  <1>4. Has(h, k) /\ Has(t, k) /\ h \in Threads
    BY <1>1, <1>2, <1>3, BusyHas DEF Has, Guards, Busiest, Claims, Threads
  <1>5. h = t
    BY <1>4 DEF LoopInv, Unique
  <1> QED
    BY <1>3, <1>5 DEF LoopInv, Late

LEMMA HandsApart ==
  ASSUME Core, ScopeInv, LoopInv, NEW t \in Threads, NEW u \in Threads, t # u,
         thread[t].pc \in {"spawn", "track"}, thread[u].pc \in {"spawn", "track"}
  PROVE  thread[t].hand # thread[u].hand
  <1>1. thread[t].pc \in Busiest /\ thread[u].pc \in Busiest
    BY DEF Busiest, Claims
  <1> QED
    BY <1>1, Spelled, KeysApart

LEMMA CountTypes ==
  ASSUME Core, LoopInv, NEW k \in Keys
  PROVE  /\ autos[k] \in Nat /\ Carried(k) \in Nat
         /\ Limit(k) \in Nat \ {0}
         /\ toml[ProjectOf(k)] \in Configs => Limit(k) = toml[ProjectOf(k)].max
  <1>1. autos[k] \in Nat /\ ProjectOf(k) \in Projects
    BY DEF Core, TypeOK, Keys, ProjectOf
  <1>2. Carried(k) \in Nat
    <2>1. processes[k] # NoProc => proc[processes[k]] \in Objects
      BY DEF Core, TypeOK
    <2> QED
      BY <2>1 DEF Carried, Objects
  <1>3. toml[ProjectOf(k)] \in Configs \cup {NoConfig}
    BY <1>1 DEF Core, TypeOK
  <1> QED
    BY <1>1, <1>2, <1>3, ConfigAssumption, SentinelAssumption DEF Limit

-----------------------------------------------------------------------------
(* Parts of a step's effect. *)
Fewer == \A u \in Threads : \A k \in Keys : Has(u, k)' => Has(u, k)

LEMMA FewerUnique ==
  ASSUME LoopInv, Fewer
  PROVE  Unique'
  BY DEF LoopInv, Unique, Fewer

(* The count of a key, and what it is compared with, stay. *)
Same(k) ==
  autos'[k] <= autos[k] /\ processes'[k] = processes[k] /\ Carried(k)' = Carried(k)

(* A goroutine is not concerned by a step. *)
Spared(u) ==
  /\ thread'[u] = thread[u]
  /\ \A k \in Keys : thread[u].pc \in Busiest /\ thread[u].key = k => Same(k)
  /\ thread[u].pc \in {"spawn", "track"} =>
       proc'[thread[u].hand].restarts = proc[thread[u].hand].restarts
  /\ thread[u].pc = "track" => /\ proc'[thread[u].hand].watch = "wait"
                               /\ proc'[thread[u].hand].live

LEMMA CoversSame ==
  ASSUME Core, LoopInv, NEW k \in Keys, NEW n \in Nat, Covers(n, k), UNCHANGED toml,
         autos'[k] \in Nat, autos'[k] <= autos[k]
  PROVE  Covers(n, k)'
  <1>1. autos[k] \in Nat
    BY CountTypes
  <1> QED
    BY <1>1 DEF Covers, Limit

LEMMA SparedHolds ==
  ASSUME Core, Core', ScopeInv, LoopInv, NEW u \in Threads, Spared(u), UNCHANGED toml
  PROVE  (Planned(thread[u]) /\ Held(thread[u]))'
  <1>1. Planned(thread[u]) /\ Held(thread[u]) /\ Sound(thread[u])
    BY DEF LoopInv, Core, Shape, AllSound
  <1>2. Planned(thread[u])'
    BY <1>1 DEF Planned, Spared
  <1>3. CASE thread[u].pc \notin Busiest
    BY <1>2, <1>3 DEF Held, Limit, Spared, Busiest, Claims
  <1>4. CASE thread[u].pc \in Busiest
    <2> SUFFICES Held(thread[u])'
      BY <1>2
    <2>1. PICK k \in Keys : k = thread[u].key
      BY <1>4, BusyHas
    <2>2. Same(k) /\ thread'[u] = thread[u] /\ autos'[k] \in Nat
      BY <1>4, <2>1 DEF Spared, Core, TypeOK
    <2>3. CASE thread[u].pc \in {"decide", "backoff"}
      BY <1>1, <2>1, <2>2, <2>3 DEF Held, Limit, Same, Carried
    <2>4. CASE thread[u].pc = "prepare"
      <3>1. thread[u].count \in Nat /\ Covers(thread[u].count, k)
        BY <1>1, <2>1, <2>4 DEF Sound, Goroutines, Held, Limit
      <3>2. PICK n \in Nat : n = thread[u].count
        BY <3>1
      <3>3. Covers(n, k)'
        BY <2>2, <3>1, <3>2, CoversSame DEF Same
      <3> QED
        BY <2>1, <2>2, <2>4, <3>2, <3>3 DEF Held, Limit, Covers
    <2>5. CASE thread[u].pc \in {"spawn", "track"}
      <3>1. proc[thread[u].hand].restarts \in Nat
        BY <2>5, Spelled DEF Core, TypeOK, Objects
      <3>2. PICK n \in Nat : n = proc[thread[u].hand].restarts
        BY <3>1
      <3>3. Covers(n, k)
        BY <1>1, <2>1, <2>5, <3>2 DEF Held, Limit
      <3>4. Covers(n, k)'
        BY <2>2, <3>3, CoversSame DEF Same
      <3> QED
        BY <1>4, <2>1, <2>2, <2>5, <3>2, <3>4 DEF Held, Limit, Spared, Covers
    <2>6. CASE thread[u].pc = "inherit"
      BY <2>2, <2>6 DEF Held, Limit, Carried
    <2> QED
      BY <1>4, <2>3, <2>4, <2>5, <2>6 DEF Busiest, Claims
  <1> QED
    BY <1>3, <1>4

LEMMA SameCounted ==
  ASSUME Core, Core', LoopInv, NEW k \in Keys, Same(k), UNCHANGED toml
  PROVE  Covers(Carried(k), k)'
  <1>1. PICK n \in Nat : n = Carried(k)
    BY CountTypes
  <1>2. Covers(n, k) /\ autos'[k] \in Nat
    BY <1>1 DEF LoopInv, Counted, Core, TypeOK
  <1>3. Covers(n, k)'
    BY <1>2, CoversSame DEF Same
  <1> QED
    BY <1>1, <1>3 DEF Same

(* A client whose request has begun stays so; a restart goroutine that     *)
(* does anything shows that one has.                                       *)
LEMMA AsleepMove ==
  ASSUME LoopInv, NEW t \in Threads, Moves(t), thread[t].pc # "idle", UNCHANGED calls,
         Early(thread'[t]) => Early(thread[t]) /\ UNCHANGED <<proc, processes>>
  PROVE  Asleep'
  <1>1. CASE t \in Procs
    <2>1. ~Dormant
      BY <1>1 DEF Dormant
    <2>2. \A c \in Clients : thread'[c] = thread[c]
      BY <1>1, ThreadAssumption DEF Moves, Threads
    <2> QED
      BY <2>1, <2>2 DEF LoopInv, Asleep
  <1>2. CASE t \in Clients
    <2>1. \A c \in Clients : c = t
      BY <1>2 DEF LoopInv, Unattended, OneAtATime
    <2>2. calls[t] # 0 /\ (Early(thread[t]) => Dormant)
      BY <1>2 DEF LoopInv, Asleep
    <2>3. \A o \in Procs : thread'[o] = thread[o]
      BY <1>2, ThreadAssumption DEF Moves, Threads
    <2>4. Dormant /\ UNCHANGED <<proc, processes>> => Dormant'
      BY <2>3 DEF Dormant
    <2> QED
      BY <2>1, <2>2, <2>4 DEF Asleep
  <1> QED
    BY <1>1, <1>2 DEF Threads

LEMMA AsleepCrash ==
  ASSUME LoopInv, NEW o \in Procs, Moves(o), UNCHANGED calls, proc[o].watch # "off"
  PROVE  Asleep'
  <1>1. ~Dormant
    BY DEF Dormant
  <1>2. \A c \in Clients : thread'[c] = thread[c]
    BY ThreadAssumption DEF Moves, Threads
  <1> QED
    BY <1>1, <1>2 DEF LoopInv, Asleep

-----------------------------------------------------------------------------
(* A goroutine moves; no object and no count changes. *)
LEMMA PureMove ==
  ASSUME Core, Core', ScopeInv, LoopInv, NEW t \in Threads, Moves(t),
         thread[t].pc # "track", t \in Clients \/ thread[t].pc # "idle",
         UNCHANGED <<proc, processes, toml>>,
         \A k \in Keys : autos'[k] <= autos[k],
         Asleep', Unique', (Planned(thread[t]) /\ Held(thread[t]))'
  PROVE  LoopInv'
  <1>1. Late' /\ Tracked' /\ Configured'
    <2>1. t \in Clients => t \notin Procs
      BY ThreadAssumption
    <2> QED
      BY <2>1 DEF LoopInv, Late, Tracked, Configured, Moves, Threads
  <1>2. \A k \in Keys : Same(k)
    BY DEF Same, Carried
  <1>3. Counted'
    BY <1>2, SameCounted DEF Counted
  <1>4. ASSUME NEW u \in Threads PROVE (Planned(thread[u]) /\ Held(thread[u]))'
    <2>1. CASE u = t
      BY <2>1
    <2>2. CASE u # t
      <3>1. Spared(u)
        BY <1>2, <2>2 DEF Spared, Moves, LoopInv, Held, Limit
      <3> QED
        BY <3>1, SparedHolds
    <2> QED
      BY <2>1, <2>2
  <1> QED
    BY <1>1, <1>3, <1>4 DEF LoopInv, Unattended, OneAtATime

LEMMA FewerMove ==
  ASSUME LoopInv, NEW t \in Threads, Moves(t), UNCHANGED <<proc, processes>>,
         \A k \in Keys : Works(thread'[t], k) => Works(thread[t], k)
  PROVE  Unique'
  <1>1. Fewer
    BY DEF Fewer, Has, Guards, Works, Moves
  <1> QED
    BY <1>1, FewerUnique

LEMMA DormantMove ==
  ASSUME LoopInv, Dormant, NEW t \in Clients, Moves(t), UNCHANGED <<proc, processes>>
  PROVE  Unique'
  <1>1. /\ \A c \in Clients : c = t
        /\ \A o \in Procs : thread'[o] = thread[o]
    BY ThreadAssumption DEF LoopInv, Unattended, OneAtATime, Moves, Threads
  <1>2. ASSUME NEW u \in Threads, NEW k \in Keys, Has(u, k)' PROVE u = t
    <2>1. CASE u \in Procs
      <3>1. thread'[u].pc = "idle" /\ processes'[k] # u
        BY <1>1, <2>1, SentinelAssumption DEF Dormant
      <3> QED
        BY <1>2, <3>1 DEF Has, Works, Guards, InStart, Claims
    <2> QED
      BY <1>1, <2>1 DEF Threads
  <1> QED
    BY <1>2 DEF Unique

(* The goroutine comes to a place where it starts nothing. *)
LEMMA PlainLoops ==
  ASSUME Core, Core', ScopeInv, LoopInv, NEW t \in Threads, Moves(t),
         thread[t].pc \notin {"idle", "track"},
         UNCHANGED <<proc, processes, toml, calls, autos>>,
         thread'[t].pc \in {"idle", "register", "configure", "write"},
         Early(thread'[t]) => Early(thread[t])
  PROVE  LoopInv'
  <1>1. Unique'
    <2>1. \A k \in Keys : ~Works(thread'[t], k)
      BY DEF Works, InStart, Claims
    <2> QED
      BY <2>1, FewerMove
  <1>2. (Planned(thread[t]) /\ Held(thread[t]))'
    BY DEF Planned, Held, Limit, InStart, Claims
  <1>3. \A k \in Keys : autos'[k] <= autos[k]
    BY CountTypes
  <1> QED
    BY <1>1, <1>2, <1>3, AsleepMove, PureMove

(* A client that has not got to Start yet. *)
LEMMA EarlyDormant ==
  ASSUME Core, LoopInv, NEW t \in Threads, Early(thread[t]),
         thread[t].pc = "write" => thread[t].op = "restart"
  PROVE  t \in Clients /\ Dormant
  <1>1. t \notin Procs
    BY DEF Core, Shape, Restarters, MayRestart, Foreign, Early
  <1>2. t \in Clients
    BY <1>1 DEF Threads
  <1> QED
    BY <1>2 DEF LoopInv, Asleep

LEMMA AddLoops ==
  ASSUME Core, Core', ScopeInv, LoopInv, NEW t \in Threads,
         \/ AddLoad(t) \/ AddRegister(t) \/ AddUnsaved(t) \/ AddInstall(t)
         \/ RemoveProject(t)
  PROVE  LoopInv'
  <1>1. TypeOK /\ TypeOK' /\ Idle.pc = "idle"
    BY DEF Core, Idle
  <1>2. /\ Moves(t) /\ thread[t].pc \in {"load", "register", "configure", "remove"}
        /\ thread'[t].pc \in {"idle", "register", "configure"}
    BY <1>1, AddDoes DEF Goes, Returns, From
  <1>3. UNCHANGED <<proc, toml, calls, autos>>
    BY DEF AddLoad, AddRegister, AddUnsaved, AddInstall, RemoveProject, env, history
  <1>4. UNCHANGED processes
    <2>1. CASE RemoveProject(t)
      <3>1. Dormant
        BY <1>2, EarlyDormant DEF Early
      <3>2. \A k \in Keys : processes'[k] = processes[k]
        BY <2>1, <3>1 DEF RemoveProject, Drop, Dormant
      <3> QED
        BY <1>1, <3>2 DEF TypeOK
    <2> QED
      BY <2>1 DEF AddLoad, AddRegister, AddUnsaved, AddInstall, memory
  <1>5. Early(thread[t])
    BY <1>2 DEF Early
  <1> QED
    BY <1>2, <1>3, <1>4, <1>5, PlainLoops

LEMMA EndLoops ==
  ASSUME Core, Core', ScopeInv, LoopInv, NEW t \in Threads,
         \/ StartLoad(t) /\ thread'[t].pc = "idle"
         \/ StartRefused(t) \/ StartFails(t) \/ SaveMarshal(t) \/ SaveFails(t)
         \/ SaveWrite(t) /\ thread'[t].pc = "idle"
  PROVE  LoopInv'
  <1>1. TypeOK /\ Idle.pc = "idle" /\ Planned(thread[t])
    BY DEF Core, Idle, LoopInv
  <1>2. UNCHANGED <<proc, processes, toml, calls, autos>>
    BY DEF StartLoad, StartRefused, StartFails, SaveMarshal, SaveWrite, SaveFails,
           env, memory,
           history
  <1>3. /\ Moves(t) /\ thread[t].pc \notin {"idle", "track"}
        /\ thread'[t].pc \in {"idle", "write"}
        /\ thread'[t].pc = "write" =>
             thread[t].pc \in {"each", "stopEach"} /\ thread'[t].op = thread[t].op
    <2>1. CASE (StartLoad(t) /\ thread'[t].pc = "idle") \/ StartRefused(t)
      BY <1>1, <2>1, StartDoes DEF Goes, Returns, From
    <2>2. CASE StartFails(t)
      BY <1>1, <2>2, SpawnDoes DEF Returns, From
    <2>3. CASE SaveMarshal(t) \/ SaveFails(t) \/ (SaveWrite(t) /\ thread'[t].pc = "idle")
      BY <1>1, <2>3, SaveDoes DEF Goes, Returns, From, SameJob
    <2> QED
      BY <2>1, <2>2, <2>3
  <1>4. Early(thread'[t]) => Early(thread[t])
    BY <1>1, <1>3 DEF Early, Planned, InStart
  <1> QED
    BY <1>2, <1>3, <1>4, PlainLoops

LEMMA StartLoops ==
  ASSUME Core, Core', ScopeInv, LoopInv, NEW t \in Threads,
         \/ StartLoad(t) /\ thread'[t].pc # "idle"
         \/ StartInstall(t) \/ StartSkip(t) \/ StartClaim(t) \/ StartInherit(t)
  PROVE  LoopInv'
  <1>1. TypeOK /\ Idle.pc = "idle" /\ Planned(thread[t]) /\ Sound(thread[t])
        /\ thread[t] \in Goroutines
    BY DEF Core, Idle, LoopInv, Shape, AllSound, Sound
  <1>2. UNCHANGED <<proc, processes, toml, calls, autos>>
    BY DEF StartLoad, StartInstall, StartSkip, StartClaim, StartInherit, env, memory,
           history
  <1>3. /\ Moves(t) /\ SameJob(t)
        /\ thread[t].pc \in {"lookup", "install", "each", "inherit"}
        /\ thread'[t].pc \in {"install", "each", "inherit", "prepare"}
    <2>1. CASE (StartLoad(t) /\ thread'[t].pc # "idle") \/ StartInstall(t)
               \/ StartSkip(t) \/ StartClaim(t)
      BY <1>1, <2>1, StartDoes DEF Goes, Returns, From, SameStart
    <2>2. CASE StartInherit(t)
      BY <1>1, <2>2, SpawnDoes DEF Goes, From, SameStart
    <2> QED
      BY <2>1, <2>2
  <1>4. /\ \A k \in Keys : Works(thread'[t], k) => Works(thread[t], k)
        /\ Planned(thread[t])'
    <2>1. CASE StartLoad(t)
      <3>1. /\ thread[t].pc = "lookup" /\ thread'[t].pc = "install"
            /\ thread'[t].cfg = toml[thread[t].project]
        BY <1>1, <1>3, <2>1, StartDoes DEF Goes, Returns, From
      <3> QED
        BY <1>1, <1>2, <1>3, <3>1 DEF Works, Planned, SameJob, InStart, Claims
    <2>2. CASE StartInstall(t)
      <3>1. /\ thread[t].pc = "install" /\ thread'[t].pc = "each"
            /\ thread'[t].cfg = thread[t].cfg
            /\ thread'[t].todo = Asked(thread[t].project,
                                       thread[t].names \cap DOMAIN thread[t].cfg.port)
        BY <1>1, <2>2, StartDoes DEF Goes, From, SameStart
      <3> QED
        BY <1>1, <1>2, <1>3, <3>1 DEF Works, Planned, SameJob, InStart, Claims, Asked
    <2>3. CASE StartSkip(t)
      <3>1. /\ thread[t].pc = "each" /\ thread'[t].pc = "each"
            /\ thread'[t].cfg = thread[t].cfg
            /\ thread'[t].todo \subseteq thread[t].todo
        BY <1>1, <2>3, StartDoes DEF Goes, From, SameStart
      <3> QED
        BY <1>1, <1>2, <1>3, <3>1 DEF Works, Planned, SameJob, InStart, Claims
    <2>4. CASE StartClaim(t)
      <3>1. /\ thread[t].pc = "each" /\ thread'[t].pc = "inherit"
            /\ thread'[t].cfg = thread[t].cfg
            /\ thread'[t].key \in thread[t].todo
            /\ thread'[t].todo = thread[t].todo \ {thread'[t].key}
        BY <1>1, <2>4, StartDoes DEF Goes, From, SameStart
      <3> QED
        BY <1>1, <1>2, <1>3, <3>1 DEF Works, Planned, SameJob, InStart, Claims
    <2>5. CASE StartInherit(t)
      <3>1. /\ thread[t].pc = "inherit" /\ thread'[t].pc = "prepare"
            /\ thread'[t].cfg = thread[t].cfg
            /\ thread'[t].todo = thread[t].todo /\ thread'[t].key = thread[t].key
        BY <1>1, <2>5, SpawnDoes DEF Goes, From, SameStart
      <3> QED
        BY <1>1, <1>2, <1>3, <3>1 DEF Works, Planned, SameJob, InStart, Claims
    <2> QED
      BY <2>1, <2>2, <2>3, <2>4, <2>5
  <1>5. Held(thread[t])'
    <2>1. CASE StartInherit(t)
      <3>1. /\ thread[t].pc = "inherit" /\ thread'[t].pc = "prepare"
            /\ thread'[t].key = thread[t].key /\ thread[t].key \in Keys
        BY <1>1, <2>1, SpawnDoes DEF Goes, From, Sound
      <3>2. thread'[t].count = Carried(thread[t].key)
        <4>1. thread'[t] = [thread[t] EXCEPT !.pc = "prepare",
                                             !.count = Carried(thread[t].key)]
          BY <1>1, <2>1, Moved DEF StartInherit
        <4> QED
          BY <1>1, <4>1 DEF Goroutines
      <3>3. Covers(thread'[t].count, thread'[t].key)
        BY <3>1, <3>2 DEF LoopInv, Counted
      <3> QED
        BY <1>2, <3>1, <3>3 DEF Held, Limit, Covers
    <2>2. CASE ~StartInherit(t)
      <3>1. thread'[t].pc # "prepare"
        BY <1>1, <2>2, StartDoes DEF Goes, Returns, From
      <3> QED
        BY <1>3, <3>1 DEF Held, Limit
    <2> QED
      BY <2>1, <2>2
  <1>6. Unique'
    BY <1>2, <1>3, <1>4, FewerMove
  <1>7. Asleep'
    <2>1. thread[t].pc # "idle" /\ ~Early(thread'[t])
      BY <1>3 DEF Early
    <2> QED
      BY <1>2, <1>3, <2>1, AsleepMove
  <1>8. \A k \in Keys : autos'[k] <= autos[k]
    BY <1>2, CountTypes
  <1>9. thread[t].pc \notin {"track", "idle"}
    BY <1>3
  <1> QED
    BY <1>2, <1>3, <1>4, <1>5, <1>6, <1>7, <1>8, <1>9, PureMove

(* The request reaches Start, when nothing has run yet. *)
LEMMA RequestLoops ==
  ASSUME Core, Core', ScopeInv, LoopInv, NEW t \in Threads,
         StopTargets(t) \/ (SaveWrite(t) /\ thread'[t].pc # "idle")
  PROVE  LoopInv'
  <1>1. TypeOK /\ Idle.pc = "idle"
    BY DEF Core, Idle
  <1>2. UNCHANGED <<proc, processes, toml, calls, autos>>
    BY DEF StopTargets, SaveWrite, env, memory, history
  <1>3. /\ Moves(t) /\ Early(thread[t]) /\ thread[t].pc \notin {"idle", "track"}
        /\ \/ thread[t].pc = "targets" /\ thread'[t].pc = "stopEach"
           \/ /\ thread[t].pc = "write" /\ thread[t].op = "restart"
              /\ thread'[t].pc = "lookup" /\ thread'[t].op = "start"
    <2>1. CASE StopTargets(t)
      BY <1>1, <2>1, StopDoes DEF Goes, From, Early
    <2>2. CASE SaveWrite(t) /\ thread'[t].pc # "idle"
      BY <1>1, <2>2, SaveDoes DEF Goes, Returns, From, Early
    <2> QED
      BY <2>1, <2>2
  <1>4. t \in Clients /\ Dormant
    BY <1>3, EarlyDormant
  <1>5. thread'[t].pc = "stopEach" => thread'[t].todo = {}
    <2>1. CASE StopTargets(t)
      <3>1. thread'[t].todo = Targets(thread[t].project, thread[t].names)
        BY <1>1, <2>1, StopDoes
      <3> QED
        BY <1>4, <3>1 DEF Targets, Dormant
    <2>2. CASE SaveWrite(t)
      BY <1>3, <2>2 DEF SaveWrite, At
    <2> QED
      BY <2>1, <2>2
  <1>6. (Planned(thread[t]) /\ Held(thread[t]))'
    BY <1>3, <1>5 DEF Planned, Held, Limit, InStart, Claims
  <1>7. Asleep' /\ Unique'
    BY <1>2, <1>3, <1>4, AsleepMove, DormantMove
  <1>8. \A k \in Keys : autos'[k] <= autos[k]
    BY <1>2, CountTypes
  <1> QED
    BY <1>2, <1>3, <1>6, <1>7, <1>8, PureMove

LEMMA CallLoops ==
  ASSUME Core, Core', ScopeInv, LoopInv, NEW c \in Clients, ClientCalls(c)
  PROVE  LoopInv'
  <1>1. TypeOK /\ c \in Threads
    BY DEF Core, Threads
  <1>2. UNCHANGED <<proc, processes, toml>>
    BY DEF ClientCalls, memory
  <1>3. /\ Moves(c) /\ thread[c].pc = "idle" /\ thread'[c].pc \in Entries
        /\ thread'[c].pc = Entry[thread'[c].op] /\ thread'[c].op \in Ops
    BY <1>1, CallDoes DEF From
  <1>4. calls[c] = 0 /\ calls'[c] = 1
    <2>1. MaxCalls \in {0, 1}
      BY BoundAssumption DEF LoopInv, Unattended
    <2> QED
      BY <1>1, <2>1 DEF ClientCalls, TypeOK
  <1>5. Dormant
    BY <1>4 DEF LoopInv, Asleep
  <1>6. Dormant'
    BY <1>2, <1>3, <1>5, ThreadAssumption DEF Dormant, Moves, Threads
  <1>7. Asleep'
    <2>1. \A d \in Clients : d = c
      BY DEF LoopInv, Unattended, OneAtATime
    <2> QED
      BY <1>4, <1>6, <2>1 DEF Asleep
  <1>8. Unique'
    BY <1>2, <1>3, <1>5, DormantMove
  <1>9. (Planned(thread[c]) /\ Held(thread[c]))'
    <2>1. thread'[c].pc = "lookup" => thread'[c].op = "start"
      BY <1>3 DEF Entry, Ops
    <2> QED
      BY <1>3, <2>1 DEF Planned, Held, Limit, InStart, Claims, Entries
  <1>10. \A k \in Keys : autos'[k] <= autos[k]
    <2>1. \A k \in Keys : autos'[k] \in {0, autos[k]} /\ autos[k] \in Nat
      BY CountTypes DEF ClientCalls, history
    <2> QED
      BY <2>1
  <1> QED
    BY <1>1, <1>2, <1>3, <1>7, <1>8, <1>9, <1>10, PureMove

-----------------------------------------------------------------------------
(* Steps that change an object. *)
LEMMA Assemble ==
  ASSUME Core, Core', ScopeInv, LoopInv, UNCHANGED toml,
         Unique', Late', Tracked', Configured', Asleep', Counted',
         \A u \in Threads : Spared(u) \/ (Planned(thread[u]) /\ Held(thread[u]))'
  PROVE  LoopInv'
  <1>1. \A u \in Threads : (Planned(thread[u]) /\ Held(thread[u]))'
    BY SparedHolds
  <1> QED
    BY <1>1 DEF LoopInv, Unattended, OneAtATime

LEMMA PrepareLoops ==
  ASSUME Core, Core', ScopeInv, LoopInv, NEW t \in Threads, StartPrepare(t)
  PROVE  LoopInv'
  <1>1. TypeOK /\ Planned(thread[t]) /\ Held(thread[t]) /\ Sound(thread[t])
    BY DEF Core, LoopInv, Shape, AllSound
  <1>2. UNCHANGED <<processes, toml, calls, autos>>
    BY DEF StartPrepare, env, history
  <1>3. /\ Moves(t) /\ SameStart(t) /\ thread[t].pc = "prepare"
        /\ thread'[t].pc = "spawn"
        /\ thread'[t].todo = thread[t].todo /\ thread'[t].key = thread[t].key
        /\ thread'[t].hand \in Fresh
        /\ \E opened \in BOOLEAN : Prepares(t, thread'[t].hand, opened)
    BY <1>1, SpawnDoes DEF Goes, From
  <1>4. PICK h \in Procs : h = thread'[t].hand
    BY <1>3 DEF Fresh
  <1>5. PICK k \in Keys : k = thread[t].key
    BY <1>1, <1>3 DEF Sound
  <1>6. PICK n \in Nat : n = thread[t].count
    BY <1>1 DEF Sound, Goroutines
  <1>18. PICK opened \in BOOLEAN : Prepares(t, h, opened)
    BY <1>3, <1>4
  <1>7. proc[h].cfg = NoConfig /\ proc[h].watch = "off"
    BY <1>3, <1>4, SentinelAssumption DEF Fresh, Core, Shape, Stages, Staged
  <1>8. /\ proc'[h].key = k /\ proc'[h].cfg = thread[t].cfg /\ proc'[h].restarts = n
        /\ proc'[h].watch = proc[h].watch /\ proc'[h].status = proc[h].status
        /\ \A o \in Procs \ {h} : proc'[o] = proc[o]
    BY <1>1, <1>5, <1>6, <1>18 DEF Prepares, Change, TypeOK, Objects
  <1>9. \A j \in Keys : processes[j] # h
    BY <1>7, SentinelAssumption DEF ScopeInv, Known, Labelled
  <1>10. \A j \in Keys : Same(j)
    <2>1. \A j \in Keys : autos[j] \in Nat /\ processes[j] \in Procs \cup {NoProc}
      BY <1>1 DEF TypeOK
    <2> QED
      BY <1>2, <1>8, <1>9, <2>1 DEF Same, Carried
  <1>11. Unique'
    <2>1. Fewer
      BY <1>2, <1>3, <1>8, <1>9
         DEF Fewer, Has, Guards, Works, Moves, InStart, Claims
    <2> QED
      BY <2>1, FewerUnique
  <1>12. Late' /\ Tracked'
    <2>1. \A o \in Procs : proc'[o].watch = proc[o].watch
      BY <1>8
    <2>2. Late'
      BY <1>3, <2>1 DEF LoopInv, Late, Moves, Threads
    <2>3. Tracked'
      BY <1>2, <1>3, <1>7, <1>8 DEF LoopInv, Tracked, Moves
    <2> QED
      BY <2>2, <2>3
  <1>13. Configured'
    <2>1. thread[t].cfg = toml[ProjectOf(k)]
      BY <1>1, <1>3, <1>5 DEF Planned, InStart, Claims
    <2> QED
      BY <1>2, <1>8, <2>1 DEF LoopInv, Configured
  <1>14. Asleep'
    BY <1>2, <1>3, AsleepMove DEF Early
  <1>15. Counted'
    BY <1>2, <1>10, SameCounted DEF Counted
  <1>16. (Planned(thread[t]) /\ Held(thread[t]))'
    <2>1. Planned(thread[t])'
      BY <1>1, <1>2, <1>3 DEF Planned, SameStart, SameJob, InStart, Claims
    <2>2. Covers(n, k)
      BY <1>1, <1>3, <1>5, <1>6 DEF Held, Limit
    <2>3. Covers(n, k)'
      BY <1>2, <2>2 DEF Covers, Limit
    <2> QED
      BY <1>3, <1>4, <1>5, <1>8, <2>1, <2>3 DEF Held, Limit, Covers
  <1>17. ASSUME NEW u \in Threads, u # t PROVE Spared(u)
    <2>1. thread[u].pc \in {"spawn", "track"} => thread[u].hand \in Procs \ {h}
      BY <1>7, Spelled, SentinelAssumption
    <2>2. Held(thread[u])
      BY DEF LoopInv
    <2> QED
      BY <1>3, <1>8, <1>10, <1>17, <2>1, <2>2 DEF Spared, Moves, Held, Limit
  <1> QED
    BY <1>2, <1>11, <1>12, <1>13, <1>14, <1>15, <1>16, <1>17, Assemble

LEMMA SpawnLoops ==
  ASSUME Core, Core', ScopeInv, LoopInv, NEW t \in Threads, StartSpawn(t)
  PROVE  LoopInv'
  <1>1. TypeOK /\ Planned(thread[t]) /\ Held(thread[t])
    BY DEF Core, LoopInv
  <1>2. UNCHANGED <<processes, toml, calls, autos>>
    BY DEF StartSpawn, env, memory, history
  <1>3. /\ Moves(t) /\ SameStart(t) /\ thread[t].pc = "spawn"
        /\ thread'[t].pc = "track"
        /\ thread'[t].todo = thread[t].todo /\ thread'[t].key = thread[t].key
        /\ thread'[t].hand = thread[t].hand
    BY <1>1, SpawnDoes DEF Goes, From
  <1>4. PICK h \in Procs : h = thread[t].hand
    BY <1>3, Spelled
  <1>5. PICK k \in Keys : k = thread[t].key
    BY <1>3, Spelled
  <1>6. proc[h].watch = "off"
    BY <1>3, <1>4 DEF Core, Shape, InHand
  <1>7. /\ proc'[h].key = proc[h].key /\ proc'[h].cfg = proc[h].cfg
        /\ proc'[h].restarts = proc[h].restarts
        /\ proc'[h].watch = "wait" /\ proc'[h].status = "running" /\ proc'[h].live
        /\ \A o \in Procs \ {h} : proc'[o] = proc[o]
    BY <1>1, <1>4 DEF StartSpawn, Change, TypeOK, Objects
  <1>8. \A j \in Keys : processes[j] # h
    BY <1>3, <1>4, HandUntracked
  <1>9. \A j \in Keys : Same(j)
    <2>1. \A j \in Keys : autos[j] \in Nat /\ processes[j] \in Procs \cup {NoProc}
      BY <1>1 DEF TypeOK
    <2> QED
      BY <1>2, <1>7, <1>8, <2>1 DEF Same, Carried
  <1>10. Unique'
    <2>1. Fewer
      BY <1>2, <1>3, <1>7, <1>8
         DEF Fewer, Has, Guards, Works, Moves, InStart, Claims
    <2> QED
      BY <2>1, FewerUnique
  <1>11. Late'
    BY <1>3, <1>6, <1>7 DEF LoopInv, Late, Moves, Threads
  <1>12. Tracked'
    BY <1>2, <1>3, <1>4, <1>7 DEF LoopInv, Tracked, Moves
  <1>13. Configured'
    BY <1>2, <1>7 DEF LoopInv, Configured
  <1>14. Asleep'
    BY <1>2, <1>3, AsleepMove DEF Early
  <1>15. Counted'
    BY <1>2, <1>9, SameCounted DEF Counted
  <1>16. (Planned(thread[t]) /\ Held(thread[t]))'
    <2>1. Planned(thread[t])'
      BY <1>1, <1>2, <1>3 DEF Planned, SameStart, SameJob, InStart, Claims
    <2>2. Covers(proc[h].restarts, k)
      BY <1>1, <1>3, <1>4, <1>5 DEF Held, Limit
    <2> QED
      BY <1>2, <1>3, <1>4, <1>5, <1>7, <2>1, <2>2 DEF Held, Limit, Covers
  <1>17. ASSUME NEW u \in Threads, u # t PROVE Spared(u)
    <2>1. thread[u].pc \in {"spawn", "track"} => thread[u].hand \in Procs \ {h}
      BY <1>3, <1>4, <1>17, Spelled, HandsApart
    <2>2. Held(thread[u])
      BY DEF LoopInv
    <2> QED
      BY <1>3, <1>7, <1>9, <1>17, <2>1, <2>2 DEF Spared, Moves, Held, Limit
  <1> QED
    BY <1>2, <1>10, <1>11, <1>12, <1>13, <1>14, <1>15, <1>16, <1>17, Assemble

LEMMA TrackLoops ==
  ASSUME Core, Core', ScopeInv, LoopInv, NEW t \in Threads, StartTrack(t)
  PROVE  LoopInv'
  <1>1. TypeOK /\ Planned(thread[t]) /\ Held(thread[t])
    BY DEF Core, LoopInv
  <1>2. UNCHANGED <<proc, toml, calls, autos>>
    BY DEF StartTrack, env, history
  <1>3. /\ Moves(t) /\ SameStart(t) /\ thread[t].pc = "track"
        /\ thread'[t].pc = "each" /\ thread'[t].todo = thread[t].todo
    BY <1>1, SpawnDoes DEF Goes, From
  <1>4. PICK h \in Procs : h = thread[t].hand
    BY <1>3, Spelled
  <1>5. PICK k \in Keys : k = thread[t].key
    BY <1>3, Spelled
  <1>6. /\ Has(t, k) /\ k \notin thread[t].todo /\ proc[h].key = k
        /\ proc[h].watch = "wait"
    BY <1>1, <1>3, <1>4, <1>5, Spelled DEF Has, Works, Planned, Held, Limit, Claims
  <1>7. processes'[k] = h /\ \A j \in Keys \ {k} : processes'[j] = processes[j]
    BY <1>1, <1>4, <1>5 DEF StartTrack, TypeOK
  <1>8. \A j \in Keys \ {k} : Same(j)
    <2>1. \A j \in Keys : autos[j] \in Nat
      BY CountTypes
    <2> QED
      BY <1>2, <1>7, <2>1 DEF Same, Carried
  <1>9. Unique'
    <2>1. ASSUME NEW u \in Threads, Has(u, k)' PROVE u = h
      <3>1. CASE Works(thread'[u], k)
        <4>1. u # t
          BY <1>3, <1>6, <3>1 DEF Works, Claims, InStart
        <4>2. Has(u, k)
          BY <1>3, <3>1, <4>1 DEF Has, Moves
        <4> QED
          BY <1>6, <4>1, <4>2 DEF LoopInv, Unique
      <3>2. CASE Guards(u, k)'
        BY <1>7, <3>2 DEF Guards
      <3> QED
        BY <2>1, <3>1, <3>2 DEF Has
    <2>2. ASSUME NEW u \in Threads, NEW j \in Keys \ {k}, Has(u, j)' PROVE Has(u, j)
      <3>1. Works(thread'[t], j) => Works(thread[t], j)
        BY <1>3 DEF Works, InStart, Claims
      <3> QED
        BY <1>2, <1>3, <1>7, <2>2, <3>1 DEF Has, Guards, Moves
    <2> QED
      BY <2>1, <2>2 DEF LoopInv, Unique
  <1>10. Late'
    BY <1>2, <1>3 DEF LoopInv, Late, Moves, Threads
  <1>11. Tracked'
    <2> SUFFICES ASSUME NEW o \in Procs, proc[o].watch \in {"wait", "report"}
                 PROVE  \/ processes'[proc[o].key] = o
                        \/ \E u \in Threads : thread'[u].pc = "track" /\ thread'[u].hand = o
      BY <1>2 DEF Tracked
    <2>1. proc[o].key \in Keys
      BY DEF Core, Shape, Stages, Staged
    <2>2. CASE processes[proc[o].key] = o
      <3>1. proc[o].key # k
        <4> SUFFICES ASSUME proc[o].key = k PROVE FALSE
          OBVIOUS
        <4>1. Has(o, k) /\ o \in Threads
          BY <2>2 DEF Has, Guards, Threads
        <4>2. o = t
          BY <1>6, <4>1 DEF LoopInv, Unique
        <4> QED
          BY <1>3, <4>2 DEF LoopInv, Late
      <3> QED
        BY <1>7, <2>1, <2>2, <3>1
    <2>3. CASE \E u \in Threads : thread[u].pc = "track" /\ thread[u].hand = o
      BY <1>3, <1>4, <1>6, <1>7, <2>3 DEF Moves
    <2> QED
      BY <2>2, <2>3 DEF LoopInv, Tracked
  <1>12. Configured'
    BY <1>2 DEF LoopInv, Configured
  <1>13. Asleep'
    BY <1>2, <1>3, AsleepMove DEF Early
  <1>14. Counted'
    <2>1. Covers(proc[h].restarts, k)
      BY <1>1, <1>3, <1>4, <1>5 DEF Held, Limit
    <2>2. Carried(k)' = proc[h].restarts
      BY <1>2, <1>7, SentinelAssumption DEF Carried
    <2>3. Covers(Carried(k), k)'
      BY <1>2, <2>1, <2>2 DEF Covers, Limit
    <2> QED
      BY <1>2, <1>8, <2>3, SameCounted DEF Counted
  <1>15. (Planned(thread[t]) /\ Held(thread[t]))'
    BY <1>1, <1>2, <1>3 DEF Planned, Held, Limit, SameStart, SameJob, InStart, Claims
  <1>16. ASSUME NEW u \in Threads, u # t PROVE Spared(u)
    <2>1. thread[u].pc \in Busiest => thread[u].key # k
      BY <1>3, <1>5, <1>16, KeysApart DEF Busiest, Claims
    <2>2. Held(thread[u])
      BY DEF LoopInv
    <2> QED
      BY <1>2, <1>3, <1>8, <1>16, <2>1, <2>2 DEF Spared, Moves, Held, Limit
  <1> QED
    BY <1>2, <1>9, <1>10, <1>11, <1>12, <1>13, <1>14, <1>15, <1>16, Assemble

(* The end of a child, as the child, its watcher and onCrash see it. *)
LEMMA ExitLoops ==
  ASSUME Core, Core', ScopeInv, LoopInv, NEW o \in Procs, Exit(o)
  PROVE  LoopInv'
  <1>1. TypeOK
    BY DEF Core
  <1>2. UNCHANGED <<thread, processes, toml, calls, autos>>
    BY DEF Exit, env, memory, history
  <1>3. /\ proc'[o].key = proc[o].key /\ proc'[o].cfg = proc[o].cfg
        /\ proc'[o].restarts = proc[o].restarts
        /\ proc'[o].watch = proc[o].watch /\ proc'[o].status = proc[o].status
        /\ \A q \in Procs \ {o} : proc'[q] = proc[q]
    BY <1>1 DEF Exit, Change, TypeOK, Objects
  <1>4. PICK k \in Keys : k = proc[o].key /\ processes[k] = o
    <2>1. proc[o].key # <<>> /\ processes[proc[o].key] = o
      BY DEF Exit, LoopInv, Unattended, Configured
    <2> QED
      BY <1>1, <2>1 DEF TypeOK, Objects
  <1>5. \A q \in Procs : /\ proc'[q].key = proc[q].key /\ proc'[q].cfg = proc[q].cfg
                         /\ proc'[q].restarts = proc[q].restarts
                         /\ proc'[q].watch = proc[q].watch
                         /\ proc'[q].status = proc[q].status
    BY <1>3
  <1>6. \A j \in Keys : Same(j)
    <2>1. \A j \in Keys : autos[j] \in Nat /\ processes[j] \in Procs \cup {NoProc}
      BY <1>1 DEF TypeOK
    <2> QED
      BY <1>2, <1>5, <2>1 DEF Same, Carried
  <1>7. Unique'
    <2>1. Fewer
      BY <1>2, <1>5 DEF Fewer, Has, Guards
    <2> QED
      BY <2>1, FewerUnique
  <1>8. Late' /\ Tracked' /\ Configured' /\ Asleep'
    BY <1>2, <1>5 DEF LoopInv, Late, Tracked, Configured, Asleep, Dormant
  <1>9. Counted'
    BY <1>2, <1>6, SameCounted DEF Counted
  <1>10. ASSUME NEW u \in Threads PROVE Spared(u)
    <2>1. thread[u].pc \in {"spawn", "track"} => thread[u].hand \in Procs \ {o}
      BY <1>4, Spelled, HandUntracked
    <2>2. Held(thread[u])
      BY DEF LoopInv
    <2> QED
      BY <1>2, <1>3, <1>6, <2>1, <2>2 DEF Spared, Held, Limit
  <1> QED
    BY <1>2, <1>7, <1>8, <1>9, <1>10, Assemble

LEMMA JudgeLoops ==
  ASSUME Core, Core', ScopeInv, LoopInv, NEW o \in Procs, WatchJudge(o)
  PROVE  LoopInv'
  <1>1. TypeOK /\ proc[o].watch = "wait" /\ ~proc[o].live
    BY DEF Core, WatchJudge
  <1>2. UNCHANGED <<thread, processes, toml, calls, autos>>
    BY DEF WatchJudge, env, memory, history
  <1>3. /\ proc'[o].key = proc[o].key /\ proc'[o].cfg = proc[o].cfg
        /\ proc'[o].restarts = proc[o].restarts
        /\ proc'[o].watch = "report" /\ proc'[o].status = "crashed"
        /\ \A q \in Procs \ {o} : proc'[q] = proc[q]
    <2>1. ~Intentional(o)
      BY DEF Intentional, LoopInv, Configured
    <2>2. Change(o, [proc[o] EXCEPT !.watch = "report", !.status = "crashed"])
      BY <2>1 DEF WatchJudge
    <2> QED
      BY <1>1, <2>2 DEF Change, TypeOK, Objects
  <1>4. \A q \in Procs : /\ proc'[q].key = proc[q].key /\ proc'[q].cfg = proc[q].cfg
                         /\ proc'[q].restarts = proc[q].restarts
    BY <1>3
  <1>5. \A j \in Keys : Same(j)
    <2>1. \A j \in Keys : autos[j] \in Nat /\ processes[j] \in Procs \cup {NoProc}
      BY <1>1 DEF TypeOK
    <2> QED
      BY <1>2, <1>4, <2>1 DEF Same, Carried
  <1>6. Unique'
    <2>1. Fewer
      BY <1>1, <1>2, <1>3 DEF Fewer, Has, Guards
    <2> QED
      BY <2>1, FewerUnique
  <1>7. Late' /\ Tracked' /\ Configured'
    BY <1>1, <1>2, <1>3 DEF LoopInv, Late, Tracked, Configured
  <1>8. Asleep'
    BY <1>1, <1>2, AsleepCrash DEF Moves
  <1>9. Counted'
    BY <1>2, <1>5, SameCounted DEF Counted
  <1>10. ASSUME NEW u \in Threads PROVE Spared(u)
    <2>1. Held(thread[u])
      BY DEF LoopInv
    <2>2. thread[u].pc = "track" => thread[u].hand \in Procs \ {o}
      BY <1>1, <2>1, Spelled DEF Held, Limit
    <2>3. thread[u].pc = "spawn" => thread[u].hand \in Procs
      BY Spelled
    <2> QED
      BY <1>2, <1>3, <1>4, <1>5, <2>1, <2>2, <2>3 DEF Spared, Held, Limit
  <1> QED
    BY <1>2, <1>6, <1>7, <1>8, <1>9, <1>10, Assemble

LEMMA CrashLoops ==
  ASSUME Core, Core', ScopeInv, LoopInv, NEW o \in Procs, OnCrash(o)
  PROVE  LoopInv'
  <1>1. TypeOK /\ proc[o].watch = "report" /\ o \in Threads
    BY DEF Core, OnCrash, Threads
  <1>2. UNCHANGED <<processes, toml, calls, autos>>
    BY DEF OnCrash, env, memory, history
  <1>3. /\ proc'[o].key = proc[o].key /\ proc'[o].cfg = proc[o].cfg
        /\ proc'[o].restarts = proc[o].restarts
        /\ proc'[o].watch = "done" /\ proc'[o].status = proc[o].status
        /\ \A q \in Procs \ {o} : proc'[q] = proc[q]
    BY <1>1 DEF OnCrash, Change, TypeOK, Objects
  <1>4. PICK k \in Keys : k = proc[o].key /\ proc[o].cfg \in Configs
    BY <1>1 DEF Core, Shape, Stages, Staged
  <1>5. thread[o].pc = "idle"
    BY <1>1 DEF LoopInv, Late
  <1>6. processes[k] = o
    <2>1. ASSUME NEW u \in Threads, thread[u].pc = "track" PROVE thread[u].hand # o
      BY <1>1, <2>1 DEF LoopInv, Held, Limit
    <2> QED
      BY <1>1, <1>4, <2>1 DEF LoopInv, Tracked
  <1>7. /\ Moves(o)
        /\ \/ thread'[o] = thread[o]
           \/ /\ thread'[o].pc = "decide" /\ thread'[o].key = k
              /\ thread'[o].hand = o /\ thread'[o].cfg = proc[o].cfg
    <2>1. CASE UNCHANGED thread
      BY <2>1 DEF Moves
    <2>2. CASE Become(o, [thread[o] EXCEPT !.pc = "decide", !.key = k,
                                           !.hand = o, !.cfg = proc[o].cfg])
      <3>1. thread[o] \in Goroutines
        BY <1>1 DEF TypeOK
      <3>2. /\ thread'[o] = [thread[o] EXCEPT !.pc = "decide", !.key = k,
                                              !.hand = o, !.cfg = proc[o].cfg]
            /\ Moves(o)
        BY <1>1, <2>2, Moved
      <3> QED
        BY <3>1, <3>2 DEF Goroutines
    <2> QED
      BY <1>4, <1>6, <2>1, <2>2 DEF OnCrash
  <1>8. \A q \in Procs : /\ proc'[q].key = proc[q].key /\ proc'[q].cfg = proc[q].cfg
                         /\ proc'[q].restarts = proc[q].restarts
                         /\ proc'[q].status = proc[q].status
    BY <1>3
  <1>9. \A j \in Keys : Same(j)
    <2>1. \A j \in Keys : autos[j] \in Nat /\ processes[j] \in Procs \cup {NoProc}
      BY <1>1 DEF TypeOK
    <2> QED
      BY <1>2, <1>8, <2>1 DEF Same, Carried
  <1>10. Unique'
    <2>1. Has(o, k)
      BY <1>1, <1>6 DEF Has, Guards
    <2>2. ASSUME NEW u \in Threads, u # o, NEW j \in Keys, Has(u, j)' PROVE Has(u, j)
      BY <1>2, <1>3, <1>7, <2>2 DEF Has, Guards, Moves
    <2>3. ASSUME NEW j \in Keys, Has(o, j)' PROVE j = k
      <3>1. Works(thread'[o], j)
        BY <1>3, <2>3 DEF Has, Guards
      <3> QED
        BY <1>5, <1>7, <3>1 DEF Works, InStart, Claims
    <2>4. Fewer
      BY <2>1, <2>2, <2>3 DEF Fewer
    <2> QED
      BY <2>4, FewerUnique
  <1>11. Late'
    BY <1>3, <1>7 DEF LoopInv, Late, Moves, Threads
  <1>12. Tracked'
    BY <1>2, <1>3, <1>5, <1>7 DEF LoopInv, Tracked, Moves
  <1>13. Configured'
    BY <1>2, <1>8 DEF LoopInv, Configured
  <1>14. Asleep'
    BY <1>1, <1>2, <1>7, AsleepCrash
  <1>15. Counted'
    BY <1>2, <1>9, SameCounted DEF Counted
  <1>16. (Planned(thread[o]) /\ Held(thread[o]))'
    <2>1. proc[o].cfg = toml[ProjectOf(k)] /\ proc[o].cfg \in Configs
      BY <1>4, SentinelAssumption DEF LoopInv, Configured
    <2> QED
      BY <1>2, <1>5, <1>6, <1>7, <2>1 DEF Planned, Held, Limit, InStart, Claims
  <1>17. ASSUME NEW u \in Threads, u # o PROVE Spared(u)
    <2>1. Held(thread[u])
      BY DEF LoopInv
    <2>2. thread[u].pc = "track" => thread[u].hand \in Procs \ {o}
      BY <1>1, <2>1, Spelled DEF Held, Limit
    <2>3. thread[u].pc = "spawn" => thread[u].hand \in Procs
      BY Spelled
    <2> QED
      BY <1>3, <1>7, <1>8, <1>9, <1>17, <2>1, <2>2, <2>3 DEF Spared, Moves, Held, Limit
  <1> QED
    BY <1>2, <1>10, <1>11, <1>12, <1>13, <1>14, <1>15, <1>16, <1>17, Assemble

(* A restart goroutine writes the count of its key. *)
LEMMA Recount ==
  ASSUME Core, Core', ScopeInv, LoopInv, NEW o \in Procs, NEW k \in Keys, NEW q \in Procs,
         NEW n \in Nat, thread[o].pc \in {"decide", "backoff"},
         thread[o].key = k, processes[k] = q,
         Moves(o), ~Early(thread'[o]),
         \A j \in Keys : Works(thread'[o], j) => Works(thread[o], j),
         Change(q, [proc[q] EXCEPT !.restarts = n]), Covers(n, k)',
         \A j \in Keys \ {k} : autos'[j] = autos[j], UNCHANGED <<processes, toml, calls>>,
         (Carried(k) = n)' => (Planned(thread[o]) /\ Held(thread[o]))'
  PROVE  LoopInv'
  <1>1. TypeOK /\ o \in Threads
    BY DEF Core, Threads
  <1>2. proc'[q].restarts = n /\ \A p \in Procs \ {q} : proc'[p] = proc[p]
    BY <1>1 DEF Change, TypeOK, Objects
  <1>3. \A p \in Procs : /\ proc'[p].key = proc[p].key /\ proc'[p].cfg = proc[p].cfg
                         /\ proc'[p].status = proc[p].status /\ proc'[p].live = proc[p].live
                         /\ proc'[p].watch = proc[p].watch
    BY <1>1 DEF Change, TypeOK, Objects
  <1>4. \A j \in Keys \ {k} : Same(j)
    <2>1. \A j \in Keys \ {k} : processes[j] # q
      BY SentinelAssumption DEF ScopeInv, Known, Labelled
    <2>2. \A j \in Keys : autos[j] \in Nat /\ processes[j] \in Procs \cup {NoProc}
      BY <1>1 DEF TypeOK
    <2> QED
      BY <1>2, <2>1, <2>2 DEF Same, Carried
  <1>5. (Carried(k) = n)'
    BY <1>2, SentinelAssumption DEF Carried
  <1>6. Unique'
    <2>1. Fewer
      BY <1>3 DEF Fewer, Has, Guards, Works, Moves
    <2> QED
      BY <2>1, FewerUnique
  <1>7. Late'
    BY <1>1, <1>3 DEF LoopInv, Late, Moves, Threads
  <1>8. Tracked'
    BY <1>3 DEF LoopInv, Tracked, Moves
  <1>9. Configured'
    BY <1>3 DEF LoopInv, Configured
  <1>10. Asleep'
    BY <1>1, AsleepMove
  <1>11. Counted'
    BY <1>4, <1>5, SameCounted DEF Counted
  <1>12. ASSUME NEW u \in Threads, u # o PROVE Spared(u)
    <2>1. thread[u].pc \in Busiest => thread[u].key # k
      BY <1>1, <1>12, KeysApart DEF Busiest, Claims
    <2>2. thread[u].pc \in {"spawn", "track"} => thread[u].hand \in Procs \ {q}
      BY Spelled, HandUntracked
    <2>3. Held(thread[u])
      BY DEF LoopInv
    <2> QED
      BY <1>2, <1>4, <1>12, <2>1, <2>2, <2>3 DEF Spared, Moves, Held, Limit
  <1> QED
    BY <1>5, <1>6, <1>7, <1>8, <1>9, <1>10, <1>11, <1>12, Assemble

LEMMA DecideLoops ==
  ASSUME Core, Core', ScopeInv, LoopInv, NEW o \in Procs, CrashDecide(o)
  PROVE  LoopInv'
  <1>1. /\ TypeOK /\ o \in Threads /\ thread[o].pc = "decide" /\ thread[o] \in Goroutines
        /\ Idle.pc = "idle"
    BY DEF Core, CrashDecide, At, Threads, TypeOK, Idle
  <1>2. /\ Sound(thread[o]) /\ Planned(thread[o]) /\ Held(thread[o])
    BY <1>1 DEF Core, Shape, AllSound, LoopInv
  <1>3. PICK k \in Keys : k = thread[o].key
    BY <1>1, <1>2 DEF Sound
  <1>4. PICK q \in Procs : q = thread[o].hand
    BY <1>1, <1>2 DEF Sound
  <1>5. /\ processes[k] = q /\ thread[o].cfg = toml[ProjectOf(k)]
        /\ thread[o].cfg \in Configs
    BY <1>1, <1>2, <1>3, <1>4 DEF Held, Limit, Planned
  <1>6. PICK long \in LongRuns :
          /\ Change(q, [proc[q] EXCEPT !.restarts = Count(q, long)])
          /\ autos' = IF long THEN [autos EXCEPT ![k] = 0] ELSE autos
          /\ IF GiveUp(Count(q, long), thread[o].cfg.max) THEN Return(o)
                                                          ELSE Goto(o, "backoff")
    BY <1>3, <1>4 DEF CrashDecide
  <1>7. long \in BOOLEAN /\ Count(q, long) \in Nat
    <2>1. proc[q].restarts \in Nat
      BY <1>1 DEF TypeOK, Objects
    <2> QED
      BY <2>1, BoundAssumption DEF Count
  <1>8. PICK n \in Nat : n = Count(q, long)
    BY <1>7
  <1>9. UNCHANGED <<processes, toml, calls>>
    BY DEF CrashDecide, env, memory
  <1>10. Covers(n, k)'
    <2>1. autos[k] <= Carried(k) /\ Carried(k) <= Limit(k)
      BY DEF LoopInv, Counted, Covers, Limit
    <2>2. Carried(k) = proc[q].restarts
      BY <1>5, SentinelAssumption DEF Carried
    <2>3. CASE long
      <3>1. n = 0 /\ autos'[k] = 0
        BY <1>1, <1>6, <1>8, <2>3 DEF Count, TypeOK
      <3> QED
        BY <1>9, <3>1, CountTypes DEF Covers, Limit
    <2>4. CASE ~long
      <3>1. n = Carried(k) /\ autos' = autos
        BY <1>6, <1>8, <2>2, <2>4 DEF Count
      <3> QED
        BY <1>9, <2>1, <3>1 DEF Covers, Limit
    <2> QED
      BY <2>3, <2>4
  <1>11. \A j \in Keys \ {k} : autos'[j] = autos[j]
    BY <1>1, <1>6 DEF TypeOK
  <1>12. /\ Moves(o) /\ thread'[o].pc \in {"idle", "backoff"}
         /\ thread'[o].pc = "backoff" =>
              /\ ~GiveUp(n, thread[o].cfg.max)
              /\ thread'[o].key = thread[o].key /\ thread'[o].hand = thread[o].hand
              /\ thread'[o].cfg = thread[o].cfg
    <2>1. CASE Return(o)
      BY <1>1, <2>1, Moved DEF Return
    <2>2. CASE ~GiveUp(n, thread[o].cfg.max) /\ Goto(o, "backoff")
      <3>1. thread'[o] = [thread[o] EXCEPT !.pc = "backoff"] /\ Moves(o)
        BY <1>1, <2>2, Moved DEF Goto
      <3> QED
        BY <1>1, <2>2, <3>1 DEF Goroutines
    <2> QED
      BY <1>6, <1>8, <2>1, <2>2
  <1>13. \A j \in Keys : Works(thread'[o], j) => Works(thread[o], j)
    BY <1>1, <1>12 DEF Works, InStart, Claims
  <1>14. (Carried(k) = n)' => (Planned(thread[o]) /\ Held(thread[o]))'
    <2> SUFFICES ASSUME (Carried(k) = n)' PROVE (Planned(thread[o]) /\ Held(thread[o]))'
      OBVIOUS
    <2>1. Planned(thread[o])'
      BY <1>3, <1>5, <1>9, <1>12 DEF Planned, InStart, Claims
    <2>2. Held(thread[o])'
      <3>1. ~GiveUp(n, thread[o].cfg.max) => n < Limit(k)
        BY <1>5, CountTypes DEF GiveUp
      <3> QED
        BY <1>3, <1>4, <1>5, <1>9, <1>12, <3>1 DEF Held, Limit
    <2> QED
      BY <2>1, <2>2
  <1>15. ~Early(thread'[o])
    BY <1>12 DEF Early
  <1> QED
    BY <1>1, <1>3, <1>5, <1>6, <1>8, <1>9, <1>10, <1>11, <1>12, <1>13, <1>14, <1>15, Recount

LEMMA BackoffLoops ==
  ASSUME Core, Core', ScopeInv, LoopInv, NEW o \in Procs, BackoffElapsed(o)
  PROVE  LoopInv'
  <1>1. TypeOK /\ o \in Threads /\ thread[o].pc = "backoff"
    BY DEF Core, BackoffElapsed, At, Threads
  <1>2. /\ Sound(thread[o]) /\ Planned(thread[o]) /\ Held(thread[o])
    BY <1>1 DEF Core, Shape, AllSound, LoopInv
  <1>3. PICK k \in Keys : k = thread[o].key
    BY <1>1, <1>2 DEF Sound
  <1>4. PICK q \in Procs : q = thread[o].hand
    BY <1>1, <1>2 DEF Sound
  <1>5. processes[k] = q /\ Carried(k) < Limit(k)
    BY <1>1, <1>2, <1>3, <1>4 DEF Held, Limit
  <1>6. Carried(k) = proc[q].restarts
    BY <1>5, SentinelAssumption DEF Carried
  <1>7. PICK n \in Nat : n = proc[q].restarts + 1
    <2>1. proc[q].restarts \in Nat
      BY <1>1 DEF TypeOK, Objects
    <2> QED
      BY <2>1
  <1>8. /\ Change(q, [proc[q] EXCEPT !.restarts = n])
        /\ autos'[k] = autos[k] + 1
        /\ \A j \in Keys \ {k} : autos'[j] = autos[j]
    BY <1>1, <1>3, <1>4, <1>7 DEF BackoffElapsed, TypeOK
  <1>9. UNCHANGED <<processes, toml, calls>>
    BY DEF BackoffElapsed, env, memory
  <1>10. Covers(n, k)'
    <2>1. autos[k] <= Carried(k)
      BY DEF LoopInv, Counted, Covers, Limit
    <2> QED
      BY <1>5, <1>6, <1>7, <1>8, <1>9, <2>1, CountTypes DEF Covers, Limit
  <1>11. /\ Moves(o) /\ thread'[o].pc = "lookup" /\ thread'[o].op = "start"
         /\ thread'[o].project = ProjectOf(k) /\ thread'[o].names = {NameOf(k)}
    <2>1. thread'[o] = Starting(ProjectOf(k), {NameOf(k)}) /\ Moves(o)
      BY <1>1, <1>3, Moved DEF BackoffElapsed
    <2> QED
      BY <2>1 DEF Starting, Idle
  <1>12. \A j \in Keys : Works(thread'[o], j) => Works(thread[o], j)
    <2>1. \A j \in Keys : ProjectOf(j) = ProjectOf(k) /\ NameOf(j) = NameOf(k) => j = k
      BY DEF Keys, ProjectOf, NameOf
    <2> QED
      BY <1>1, <1>3, <1>11, <2>1 DEF Works, Asked, InStart, Claims
  <1>13. (Planned(thread[o]) /\ Held(thread[o]))'
    BY <1>11 DEF Planned, Held, Limit, InStart, Claims
  <1>14. ~Early(thread'[o])
    BY <1>11 DEF Early
  <1> QED
    BY <1>1, <1>3, <1>5, <1>8, <1>9, <1>10, <1>11, <1>12, <1>13, <1>14, Recount

LEMMA LoopStep == Core /\ Core' /\ ScopeInv /\ LoopInv /\ [Next]_vars => LoopInv'
  <1> SUFFICES ASSUME Core, Core', ScopeInv, LoopInv, [Next]_vars PROVE LoopInv'
    OBVIOUS
  <1>1. ASSUME NEW c \in Clients, ClientCalls(c) PROVE LoopInv'
    BY <1>1, CallLoops
  <1>2. ASSUME NEW t \in Threads, Operation(t) PROVE LoopInv'
    <2>1. Planned(thread[t])
      BY DEF LoopInv
    <2>2. CASE \/ AddLoad(t) \/ AddRegister(t) \/ AddUnsaved(t) \/ AddInstall(t)
               \/ RemoveProject(t)
      BY <2>2, AddLoops
    <2>3. CASE StartLoad(t) \/ StartInstall(t) \/ StartSkip(t) \/ StartClaim(t)
               \/ StartInherit(t)
      BY <2>3, EndLoops, StartLoops
    <2>4. CASE StartRefused(t) \/ StartFails(t) \/ SaveMarshal(t) \/ SaveWrite(t)
               \/ SaveFails(t) \/ StopTargets(t)
      BY <2>4, EndLoops, RequestLoops
    <2>5. CASE StartPrepare(t) \/ StartSpawn(t) \/ StartTrack(t)
      BY <2>5, PrepareLoops, SpawnLoops, TrackLoops
    <2>6. CASE StopPick(t)
      BY <2>1, <2>6 DEF StopPick, At, Planned
    <2>7. CASE StopHalt(t) \/ StopIdle(t) \/ StopSettle(t) \/ StopForget(t)
      BY <2>1, <2>7 DEF StopHalt, StopIdle, StopSettle, StopForget, At, Planned
    <2> QED
      BY <1>2, <2>2, <2>3, <2>4, <2>5, <2>6, <2>7 DEF Operation
  <1>3. ASSUME NEW o \in Procs, Exit(o) \/ CrashHandling(o) PROVE LoopInv'
    BY <1>3, ExitLoops, JudgeLoops, CrashLoops, DecideLoops, BackoffLoops
       DEF CrashHandling
  <1>4. CASE EditToml
    BY <1>4 DEF EditToml, LoopInv, Unattended, Core, TypeOK
  <1>5. CASE UNCHANGED vars
    BY <1>5 DEF vars, memory, LoopInv, Unattended, OneAtATime, Unique, Has, Works,
                Guards, Late, Tracked, Configured, Asleep, Dormant, Early, Counted,
                Covers, Limit, Carried, Planned, Held
  <1> QED
    BY <1>1, <1>2, <1>3, <1>4, <1>5 DEF Next

LEMMA InitLoop == Unattended /\ Init => LoopInv
  <1> SUFFICES ASSUME Unattended, Init PROVE LoopInv
    OBVIOUS
  <1>1. toml \in [Projects -> Configs \cup {NoConfig}]
    BY DEF Init
  <1>2. /\ \A t \in Threads : thread[t].pc = "idle"
        /\ \A o \in Procs : /\ proc[o].watch = "off" /\ proc[o].cfg = NoConfig
                            /\ proc[o].status = "stopped"
        /\ \A k \in Keys : processes[k] = NoProc /\ autos[k] = 0
    BY DEF Init, Idle, Unused
  <1>3. Unique
    BY <1>2 DEF Unique, Has, Works, Guards, InStart, Claims
  <1>4. Late /\ Tracked /\ Configured
    <2>1. Late
      BY <1>2 DEF Late, Threads
    <2>2. Tracked
      BY <1>2 DEF Tracked
    <2>3. Configured
      BY <1>2 DEF Configured
    <2> QED
      BY <2>1, <2>2, <2>3
  <1>5. Asleep
    BY <1>2 DEF Asleep, Dormant, Early, Threads
  <1>6. Counted
    <2> SUFFICES ASSUME NEW k \in Keys PROVE Covers(Carried(k), k)
      BY DEF Counted
    <2>1. Limit(k) \in Nat
      BY <1>1, ConfigAssumption, SentinelAssumption DEF Keys, ProjectOf, Limit
    <2> QED
      BY <1>2, <2>1 DEF Covers, Limit, Carried
  <1>7. \A t \in Threads : Planned(thread[t]) /\ Held(thread[t])
    BY <1>2 DEF Planned, Held, Limit, InStart, Claims
  <1> QED
    BY <1>1, <1>3, <1>4, <1>5, <1>6, <1>7 DEF LoopInv

LEMMA WithinBudget == Core /\ LoopInv => RestartBudget
  <1> SUFFICES ASSUME Core, LoopInv, NEW o \in Procs, proc[o].cfg # NoConfig
               PROVE  autos[proc[o].key] <= proc[o].cfg.max
    BY DEF RestartBudget
  <1>1. PICK k \in Keys : k = proc[o].key /\ proc[o].cfg = toml[ProjectOf(k)]
    BY DEF LoopInv, Configured
  <1>3. proc[o].cfg \in Configs
    BY DEF Core, TypeOK, Objects
  <1>2. autos[k] <= Carried(k) /\ Carried(k) <= Limit(k)
    BY DEF LoopInv, Counted, Covers, Limit
  <1> QED
    BY <1>1, <1>2, <1>3, CountTypes

(* Between two requests, a key is restarted at most max_restarts times     *)
(* unless a run was long, however the crashes of one process and the       *)
(* restarts of others interleave (onCrash, manager.go:758-788; README.md:99*)
(* of the repository).                                                     *)
THEOREM BudgetKept == Unattended /\ Spec => []RestartBudget
  <1> SUFFICES ASSUME Unattended PROVE Spec => []RestartBudget
    OBVIOUS
  <1>1. Init => LoopInv
    BY InitLoop
  <1>2. Core /\ Core' /\ ScopeInv /\ LoopInv /\ [Next]_vars => LoopInv'
    BY LoopStep
  <1>3. Core /\ LoopInv => RestartBudget
    BY WithinBudget
  <1> QED
    BY <1>1, <1>2, <1>3, Invariance, ScopeInvariance, PTL DEF Spec
=============================================================================
