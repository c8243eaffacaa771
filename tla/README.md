# A TLA+ model of app-nanny

app-nanny is a process supervisor written in Go: one daemon, started by launchd or by
`nanny daemon start`, that runs the processes named in the `app-nanny.toml` of each registered
project, restarts them when they crash, keeps and rotates their logs, and survives its own restart
by adopting the children it left behind. The command line reaches it over a Unix socket, the console
and the Go client library over HTTP.

This directory models the part of it where ordering matters. The modules are written from the Go
source; every definition that stands for code is listed with its lines in `PROJECT.json` under
`map`. All paths below are relative to `src/`.

## 1. Inventory

| Component | State it keeps | Operations | Used by |
|---|---|---|---|
| Process (`internal/daemon/process.go`) | status, pid, pgid, `crashCh`, restart count, the child | `Start`, `Stop`, `watch`, `watchAdopted` | Manager |
| Manager (`internal/daemon/manager.go`) | `processes`, `configs`, `activeToml`, `loggers` under `m.mu` | `Add`, `Remove`, `Start`, `Stop`, `Restart`, `onCrash`, `LoadAll`, `AdoptProcess`, readers | IPC and HTTP handlers, restart goroutines, boot |
| Runtime (`internal/daemon/recovery.go`) | pid, pgid and start time per key, `runtime.json` | `Set`, `Delete`, `Save`, `LoadOrphans` | Manager, boot |
| Registry (`internal/config/registry.go`) | project name to directory, `registry.json` | `Add`, `Remove`, `Get`, `Load` | Manager, LogGC |
| Project configuration (`internal/config/project.go`) | none: the toml on disk | `LoadProject`, with defaults and validation | Manager, LogGC |
| Daemon (`internal/daemon/daemon.go`, `cmd/serve.go`) | the socket, the port | boot: load orphans, load projects, adopt, autostart, listen; shutdown | launchd, the command line |
| RotatingFile (`internal/daemon/rotator.go`) | open file, size, backups | `Write`, rotation | Logger |
| Logger and ErrorRing (`internal/daemon/logger.go`, `errors.go`) | ring of lines, ring of error entries | `Write`, `Lines`, `Context`, `RecentForKey` | process output, console, `nanny logs` and `errors` |
| Log stream (`internal/web/sse.go`) and `nanny logs -f` (`cmd/logs.go`) | how many lines were sent; the open file | poll every 200 ms | console, command line |
| Metrics (`internal/daemon/metrics.go`) | the last sample per pid | `CPUPercent` | `nanny ps`, console |
| LogGC (`internal/daemon/gc.go`) | the log directory | removal of logs without an owner, size cap by copy-truncate | `nanny gc` |
| Web (`internal/web`), IPC (`internal/ipc`), Go library (`client/client.go`) | none of their own | routes of a call; one request, one goroutine | clients |
| Command line (`cmd`) | none | one request each; `daemon start` and `stop`, `logs -f` | users |

How they interact. Every request is served by a goroutine of its own (`ipc/server.go:27-63`,
net/http) and calls one Manager method. The Manager takes `m.mu` for its maps, but lets go of it
between reading the configuration, checking a process, spawning it and tracking it. A Process has a
lock of its own, one goroutine that watches the child, and calls `Manager.onCrash` back through a
closure; `onCrash` starts a goroutine that sleeps and then calls `Manager.Start` like any client.
Runtime has a third lock, which `Save` does not take. The registry has none. A child writes into its
Logger, which feeds a rotating file, a ring and the shared ErrorRing; readers poll the ring or the
file. The daemon leaves its children alive when it ends; two JSON files are all the next one has.

What is hard here, and so what the properties are about:

* *check and act in different lock sections*: is it running, is the port free, is the project still
  registered, is anything running before a removal;
* *a Stop against the child's own exit*: the exit, the verdict, the closing of `crashCh`, the
  callback and the five-second timer can come in any order;
* *a Stop against a sleeping restart*, and a restart against a client's Start;
* *identity of the object behind a key*: `onCrash` and the end of `Stop` look the key up again and
  may find another object than the one they are about;
* *partial failure*: the second process of a project fails after the first was spawned; a rotation
  cannot open its new file; a copy-truncate stops halfway;
* *death of the daemon* between any two steps, and in the middle of writing a file; pids that were
  reused by the time the next daemon probes them;
* *two daemons*: nothing keeps a second one from taking the socket path, or a first one from
  removing the path of the second;
* *a poller against what it polls*: rings at their limit, a rotation or a restart between two polls;
* *an answer that does not come*: the library stops waiting after five seconds, the handler does
  not;
* *counters at a boundary*: the restart budget, inherited from object to object and reset by a long
  run; the position arithmetic of the rings; sizes of log files.

The list with lines is `hazards` in `PROJECT.json`, each with the properties that watch over it or
the reason why none does.

What makes each component correct:

* Process: one verdict per child (`stopped` or `crashed`), consistent with the callback; a Stop ends
  and ends the child; two Stops exclude each other; an exit is noticed.
* Manager: at most one child per key, every child reachable by a Stop, a Stop that lasts, a Stop
  that reaches only what it named, distinct ports, a restart budget that is neither exceeded nor cut
  short, every request answered.
* Runtime, Registry and boot: at rest the files say what the daemon knows; no child is forgotten or
  supervised twice over a death of the daemon; a daemon that is launched comes to serve.
* RotatingFile: no line is lost other than with the oldest backup, whatever fails.
* Logger, stream: the rings return the newest lines in order; a viewer sees each line once and in
  order, and if it misses one there is a known reason.
* LogGC: it never removes the log of a declared process; a cut keeps the end of the file.
* Daemon, IPC, Web, library: a call arrives at what it names; what a client is told is true; every
  request ends for its client; a daemon that is alone can be reached.
* Metrics: a percentage is about one pid and about a long enough interval.

## 2. Modules

| Module | What it is |
|---|---|
| `Lifecycle` | abstract specification: what a status promises about a child |
| `Process` | one Process object, its watching goroutine, concurrent Stops and the operating system; implements `Lifecycle` |
| `Manager` | the Manager, its clients, restart goroutines, `runtime.json` and an editor of tomls; each of its objects implements `Lifecycle` |
| `Boot` | the daemon's death and its next life: files, pids, boot, adoption |
| `Rings` | the Logger's ring and the ErrorRing, as arithmetic |
| `LogStream` | Loggers, their files, and those who read them: `sse.go` and `logs -f` |
| `LogFiles` | the log directory: rotation, and the collector |
| `Api` | the routes of the socket and of HTTP, as functions from a call to what is served |
| `Rpc` | abstract specification: what a client may conclude from the end of its request |
| `Service` | daemons, socket, port and requests; extends `Api`, implements `Rpc` |
| `MCProcess`, `MCManager`, `MCBoot`, `MCLogStream`, `MCLogFiles`, `MCService` | constants and definitions for TLC |
| `ProcessProofs`, `ManagerProofs`, `SequentialProofs`, `CrashLoopProofs`, `BootProofs`, `LogStreamProofs`, `LogFilesProofs`, `ServiceProofs` | theorems and proofs |

The modules meet at what each of them takes as one step. `Process` implements `Lifecycle` for a
child this daemon started, and every object of `Manager` implements the same `Lifecycle`; so
`Manager` may use objects that have only a status, a living or dead child and a watcher, and no
timers, signals or pipes. `Service` takes an operation of `Manager` as one step that may fail or
hang, `Boot` takes requests one at a time, and `LogStream` and `LogFiles` take from a Start only
what it does to Loggers and files.

### Lifecycle

`phase` is the shown status and `live` whether the child exists. Five actions: `Launch`, `Exit`,
`RequestStop`, `Finish`, `Report`. It says that `crashed` is shown only for a child that is gone and
that nobody asked to stop, that `stopped` is shown only when a requested stop has ended the child,
and that neither is taken back except by launching again.

### Process and the code

The variables `adopted`, `status`, `pid`, `closed` (of `crashCh`) are the fields of the Go struct;
`intentional` is the local of `watch`; `watcher` and `stopper[c]` are program counters. A step is a
lock section, a signal sent, a channel operation or a probe: `Stop` is `StopBegin` (172-181),
`StopSigterm` (183-190), then for a started child `StopAwaited` or `StopTimeout` (204-212), for an
adopted one `StopPolled` and `StopProbe` (192-203), and `StopSettle` (214-220). `watch` is
`WatchJudge`, `WatchClose`, `WatchReport` because the decision is taken under the lock and the close
and the callback come after it. `watchAdopted` is `PollStatus`, `PollProbe`, `PollMark`: it reads
the status, probes the pid and writes the verdict in three separate moments. After `PollMark` it
closes and reports like `watch`.

The operating system is the leader (`sh -c command`) and one helper it may fork. A helper is in the
process group or has left it (`setsid`), and holds the output pipe or not; that matters because
`cmd.Wait` waits for the end of the pipe, while SIGKILL goes to the group. SIGTERM is an offer:
`LeaderExits` and `HelperExits` may or may not answer it.

Abstracted: exit codes (the code treats status 0 as a crash too, `process.go:226`, so `always` and
`on-failure` are one policy and the model has `never` and `on-failure`); the environment, working
directory and output writers; more than one helper at a time; reuse of pids (in `Boot`). `Start` is
at most once per object, as `manager.go:413` makes a new object for every start, and only fails in
`Manager`.

### Manager and the code

`processes`, `configs`, `activeToml`, `loggers`, `registry` are the maps; `runtime` is Runtime's map
and `disk` the content of `runtime.json`; `toml` is the file of each project. An object stands for
its pid, so `runtime` and `disk` map a key to an object. `proc[o]` is a Process object. `thread[t]`
is a goroutine: `pc` is its place, the other fields are the locals it keeps across lock sections.
`calls` and `edits` count against the bounds, and `halted`, `autos` and `bare` are history: the keys
whose last completed request was a stop, the automatic restarts of a key since a client's last start
or long run, and the projects the code has left registered without a configuration.

The initial state is that after `LoadAll`: a project whose toml did not load stays registered and
has no configuration (`manager.go:629-631`), until an Add or a Start loads it. `Faults` says what
may fail in a run: `"spawn"`, a child (`StartFails`); `"log"`, the opening of a log file
(`StartPrepare`): then the child runs and is tracked without a Logger (`stdio`), and the key keeps
the Logger it had, or none (`manager.go:419-432`); `"save"`, a write of the registry (`AddUnsaved`:
the project is in the map already, and `Add` returns before it sets the configuration,
`manager.go:328-330`) or of `runtime.json` (`SaveFails`: the file is as before or empty, Stop
returns an error, and Restart returns before its Start, `manager.go:479`, `482-485`). A `Remove`
whose save fails has changed the maps all the same, and is `RemoveProject`.

| Code | Actions |
|---|---|
| `Add` | `AddLoad`, `AddRegister` (without `m.mu`) or `AddUnsaved`, `AddInstall` |
| `Remove` | `RemoveProject`: one lock section |
| `Start` and `startProcesses` | `StartLoad`, `StartInstall`, then per process `StartSkip`, `StartRefused` or `StartClaim`, `StartInherit`, `StartPrepare`, `StartSpawn` or `StartFails`, `StartTrack` |
| `Runtime.Save` | `SaveMarshal`, `SaveWrite` or `SaveFails` |
| `Stop` | `StopTargets`, then per key `StopPick`, `StopHalt` or `StopIdle`, `StopSettle`, `StopForget`, and Save |
| `Restart` | Stop's actions, then Start's (`SaveWrite` goes on with `Starting`) |
| `watch` | `Exit`, `WatchJudge` |
| `onCrash` | `OnCrash`, `CrashDecide`, and after the sleep `BackoffElapsed`, then Start's actions |

Abstracted: the duration of the backoff (any time passes); the minute after which a run counts as
long (a choice, where `LongRuns` allows it); what a toml says beyond names, ports, policy and
budget; the order of a Go map (any order); directories and environment. A request that names no
process is one that names all of them; where project names extend each other a run has two process
names, so that the two forms differ. `max_restarts` is at least 1: `LoadProject` replaces 0 by 5
(`project.go:68`), and a negative number, which it accepts, means restarts without end, since the
budget is only looked at when it is positive (`manager.go:771`); the model leaves that setting out.
The registry's map is written without a lock (`registry.go:34`), a data race for Go; the model keeps
each access atomic, and the end of the program that Go may make of it is `Boot`'s `Die`. Readers
(`PS`, `Logs`, ...) change nothing and are left out.

### Boot and the code

A project has one process here, so a project is also a key. `file` and `index` are `runtime.json`
and `registry.json`; `os.WriteFile` truncates before it writes, so a save is `SaveOpen`, which
leaves `Torn`, and `SaveWrite`. `owner[q]` is what the operating system has for a pid: the project's
child, a zombie (the living daemon started it and has not waited for it), a freed or used-up pid, or
a foreign program. `pc` is how far `Run` is, `flush` how far a save is, `hand` a child that was
spawned and not yet tracked.

| Code | Actions |
|---|---|
| `NewRuntime`, `Registry.Load` | `Launch`: a file that does not parse is empty |
| `LoadOrphans` | `ProbeEntry` per key, `ClearRuntime`, save |
| `LoadAll`, `AdoptProcess`, the autostart loop, listen | `LoadAll`, `AdoptProcess`, `AllAdopted`, `AutoStart`, `Serve` |
| `Start`, `Stop`, `Add`, `Remove`, the restart goroutine | `UserStart` and `StartTrack`, `UserStop`, `UserAdd`, `UserRemove`, `BackoffElapsed` |
| `watch`, `watchAdopted` | `Notice` |
| shutdown, a crash or a kill of the daemon | `Die`, possible at every step |

`Alive` is the probe with signal 0 and says yes for a zombie, a foreign program or another child.
`hooked` is whether `AdoptProcess` could install the crash callback (`manager.go:141-149`: only if
the toml was loaded). `lost` is history: living children that no daemon will find again.

### Logs

`Rings` has the Logger's ring (`RingAdd`, `RingTail`, after `logger.go:16-36` and `108-124`) and the
ErrorRing with its `RecentForKey` (`errors.go:26-62`), with the code's positions and remainders.

`LogStream` numbers the lines of a process. `Emit` is `processLineLocked`: the file, which may
rotate, then the ring, then the ErrorRing. A start is `StartOpen` (open the file, write the
separator if it has content) and `StartInstall` (put the Logger into the map, spawn or fail), or
`StartUnlogged`, when the file cannot be opened: the process is tracked, and no Logger is installed.

`LogLines` is two steps for a reader. The lookup (`PollLook`, `FollowLook`) is the part under
`m.mu`: `found[v]` is then, for each process, nothing (`Absent`), the log file (`InFile`) or the
Logger that the map has (`Live`). The reading (`Answer`) comes after the unlock, from what was
found, however the map has changed: a Start or a Remove in between turns `Live` into `Kept(ring)`,
the ring of the Logger that is no longer in the map (`Retain`), and `InFile` stays the file, even if
a Start has installed a Logger by then. The rings and files of several processes are read in one
step, which loses no case because they are written independently.

`Connect`, `PollLook` and `Poll` are the event stream. Its key has `-` for `/` (`sse.go:84`), so for
a process it is in no map, whenever the lookup comes, and `LogLines` falls through to the log file,
whose name has the same `-`: what is polled is the file's last 500 lines, and `Poll` is one step;
for a project's name it is the Loggers of its processes. `FollowLook`, `FollowAsk`, `FollowOpen`,
`FollowRead` are `nanny logs -f`: a snapshot from the daemon, then the file, opened later and at its
end, by name once. Timestamps, the prefix, partial lines and the patterns that make a line an error
(a constant set) are left out. An adopted child has no Logger and its output reaches
nobody (`manager.go:152`): that is the initial state.

`LogFiles` has file names and what they name: `dir[k][0]` is the current file of a key, `dir[k][i]`
its backup `.i`. A rotation is `Rotate`, one `Shift` per pair of remove and rename, and `Reopen` or
`ReopenFails`, which loses the line and leaves the size, so that the next line rotates again. The
collector is `GCList`, `GCReadDir`, `GCLoadTomls` (three readings at three moments), `GCRemove` per
file, `GCDirectory`, and for a file of the project's directory that a foreign writer appends to,
`CapRead`, `CapTruncate`, `CapMarker`, `CapTail`, each of which may fail (`CapFails`). `Crash` is
the daemon's death in the middle of any of it. A line has size one. Two keys whose log paths are the
same (`a/b-c` and `a-b/c`, `manager.go:157`) are not modelled.

### Service, Api and Rpc

`Api` says for each call which operation is served: over the socket by method name, over HTTP by the
library's verb and path, taken apart by the mux and the handlers by position and reserved word.

`Service` has daemons (`unborn`, `boot`, `unlinked`, `serve`, `closed`, `dead`), whose socket the
path names, and who holds the port. `Run` is `RemoveStale`, `Listen`, then `Close` and `Exit` on a
signal: both remove the path whatever it names by then (`daemon.go:69` and `104-108`). A failed bind
of the port is only logged (`daemon.go:99`), so `Listen` goes on without it. A request is `Issue`,
`Accept`, `Handle`, `Answer`; `TimeOut` is the library's five seconds, `Break` a connection that
ends with its daemon, `Hang` an operation that does not come back. `daemon start` is `DaemonStart`,
a dial and perhaps a new daemon; launchd may do the same unasked.

`Rpc` says what a client may conclude: an answer tells what the operation did, a refusal that it was
not and will not be done, anything else nothing, and an operation is done at most once.

## 3. Runs

| Run | Instance | What it shows |
|---|---|---|
| `process_child` | a started or an adopted child, two callers of Stop, all four kinds of helper; 759 states | one object tells one consistent story, and implements `Lifecycle` |
| `manager_sequential` | two projects with one process, tomls with one of two ports, one client, four requests, exits at any moment, failing spawns, log files that cannot be opened, never restarted; 2.1 M states | what a user is told holds when requests come one at a time |
| `manager_two_names` | one project with two processes, one client, three requests for the project or for one process, the toml broken once; 1.1 M states | `StopScope`: a Stop ends only what it names |
| `manager_concurrent` | one process with a budget of one restart, its toml loaded or not at boot, two clients with two requests each, saves that fail; 4.1 M states | what survives every interleaving |
| `manager_live` | one process with a budget of two, two clients with a start, stop or restart each, short and long runs, failing spawns and saves; 0.2 M states | every request returns |
| `manager_crash_loop` | one process with a budget of two, one start, no exit before Start tracks the child; 707 states | a crash loop is restarted exactly `max_restarts` times |
| `boot` | two projects, two pids that are reused, two deaths, one request, one edit; 0.9 M states | what survives the death of a daemon, and in which windows a child is lost |
| `logstream` | one process, rings of 3 lines and 2 errors, a stream of 3, five lines, two starts, with or without a Logger, two rotations, one reader that looks and reads in two steps; 145 000 states | rings against a reference, readers against what was written |
| `logfiles` | one key, files of 2 lines, 2 backups, a cap of 3 that keeps 2, seven lines, five foreign ones, two starts, edits and faults, one collection; 1.7 M states | what rotation and collection may lose |
| `service` | two daemons, three dials, two requests over either way, one fault, 14 project and 6 process names with every word the API reserves; 0.45 M states | routing, truth of answers, liveness of requests |
| `logstream_freezes` | as `logstream` | `StreamEmitsNewLines` fails |
| `service_stop_start` | as `service` | `StopThenStart` fails |

TLC's symmetry is used for clients (`manager_concurrent`) and in no run that checks liveness;
objects of `Manager` are picked by `CHOOSE`, so they are not symmetric.

What the properties say, beyond their comments in the modules:

* `VerdictMatchesReport`, `StopIsExclusive`, `StoppedMeansEnded`, `ImplementsLifecycle`: whatever
  the order of the exit, the two lock sections of Stop, the two of watch, the close and the timer,
  the object tells one consistent story. `ImplementsLifecycle` is the refinement: `phase` is
  `status`, and the child counts as `live` while its leader runs or somebody holds its output, which
  is what `cmd.Wait` sees. `StopReturnsUnlessHeld` and `ExitNoticed` are the liveness half: a Stop
  returns, except when a helper that left the group holds the pipe; and the end of a child nobody
  stopped is noticed.
* `RuntimeNamesTracked`, `RegisteredHasConfig`, `ObjectsImplementLifecycle` survive every
  interleaving of requests with each other and with restarts. `RegisteredHasConfig` does not say
  that every registered project has a configuration, which is false: `LoadAll` skips a toml that
  does not load, and an Add whose save fails returns before it sets one. It says that these two
  cases (`bare`), and an Add between its two writes, are the only ones, and that a Start or an Add
  ends them: no overlap of requests makes another. The configuration `manager_skipped` passes it
  with an edit as well.
* `OneLivePerKey`, `LiveIsTracked`, `SavedAtRest`, `PortsExclusive`, `LoggerFollowsProcess`,
  `StopSticks`, `StopScope` are what a user is told. They hold while requests come one at a time and
  nothing is restarted automatically; the configurations listed below show how concurrency, a
  restart, an edited toml or a project name that extends another breaks most of them. The hazards
  they are listed under bite with two requests, a restart or an edit, which their runs exclude: what
  the runs and theorems add is that nothing else breaks them. `LoggerFollowsProcess` is about
  children that were started with a Logger (`stdio`): if the log file could not be opened, Logs and
  Errors read the Logger of an earlier child, or the file, while the child runs.
* `RestartBudget` and `CrashIsRestarted`: a crash loop is restarted exactly `max_restarts` times,
  provided no child exits between its spawn and its tracking.
* `NoChildForgotten`, `LossWindow`, `OneLivePerProject`, `StartedIsOurs`, `FilesMatchMemory`,
  `BootServes`: at every step of a boot, a living child is tracked, in the hand of Start, among the
  orphans or in the file, unless a death has lost it, and a death loses one only in three windows:
  while `runtime.json` is written, between a spawn and its tracking, and between `LoadOrphans` and
  the adoption. A daemon that is launched comes to serve whatever the files hold.
* `RingIsNewest` and `ErrorsAreNewest` compare the code's ring arithmetic with the last lines of
  what was recorded, through every wrap. `InOrder` says that no reader of one process sees a line
  twice or out of order, but for the separator of one restart, and except when the stream of the
  project changed between the log file and the ring in one of two ways, which the model records as
  `reread` in `causes`: it looked up an adopted process, which has no Logger, a Start installed one
  and wrote to the file before it was read, and the next poll has the ring; or its Logger was
  removed and a Start that could not open the log file sent it back to the file. Without these the
  ring that a lookup found may be replaced before it is read and nothing is repeated, and the stream
  of a process and a follower have no exception. `GapsHaveCauses` says that a viewer misses
  a line only if the source was full, was replaced, rotated, or the line fell between snapshot and
  open; `NoReaderStalls` that a reader with lines due comes to a
  moment when none is.
* `OnlyOldestLost` and `KeepsWhatFits`: what is left of a log, read over its backups, has no gap and
  no line twice and ends with the last written line, also after a rotation that failed or was cut
  off; and nothing is thrown away early. `CapKeepsTail` is the same for a cut of a foreign file,
  apart from lines appended during the cut, and from everything if a call fails after the
  truncation. `GCSparesDeclared`: the collector's three readings at three moments never make it
  remove a file of a process that stayed declared.
* `CallsArrive` is about all names at once: every call arrives at what it names, except over HTTP a
  project called like a subtree of the API and the logs of a process called `stream`.
  `ImplementsRpc` is the refinement of `Rpc`: what a client is told is true, whatever daemons come
  and go. `EveryRequestAnswered` and `LoneDaemonReachable` are the liveness half.

Bounds. Two callers of Stop are enough for one of them to be overtaken at each lock section, and
`ExclusiveStop` is proved for any number. Two clients with two requests each let every request be
overtaken by two others and by a restart goroutine; an object is used once, so `Procs` bounds the
number of starts in a behaviour: when none is left, a start fails (`StartFails`), and the behaviour
goes on. Four sequential requests are start, start, stop or remove, and start again, over two
projects. A budget of two lets the count be inherited twice, and a fourth object lets an overrun be
seen. Two deaths let a second daemon die in the boot that the first death caused, so that a file
written by an interrupted boot is read again; two pids for two projects force reuse. Five lines in a
ring of three wrap it, and a restart can come at each position; three of them are errors, in an
error ring of two; seven lines in files of two and two
backups rotate out the oldest file, with two faults for a rotation that fails twice in a row or
fails and is then cut off. Two daemons are enough for one to remove the other's socket. What is
proved (section 4) does not depend on any of these.

Deadlock checking is off: clients, edits, deaths and lines are bounded, and a child that ended and
was stopped leaves nothing to do.

Fairness. `Process`: the watching goroutine, each caller of Stop and the effect of SIGKILL are
weakly fair, because the Go scheduler runs every runnable goroutine, timers fire and the kernel
delivers SIGKILL. Nobody has to call Stop, and a child or helper that was not killed may run for
ever. `Manager`: each goroutine's next step, each watcher and onCrash, and the exit of a child in
`stopping` are weakly fair. The last one is what `StopReturnsUnlessHeld` establishes for Process,
whose exception is therefore an assumption of `manager_live`: no helper keeps the pipe outside the
group. Nothing is assumed of lock acquisition order: no step waits for a condition on a lock, and
`m.mu` is never held across a wait for a child. `Boot`: saving, tracking and noticing are weakly
fair; the boot is strongly fair only because the model, which does one thing at a time, makes it
wait while the restart of an already adopted process is saved, which the code does not. Launching a
daemon and asking it for something are not fair. `LogStream`: a stream's ticker and the follower's
read loop run, and a Start that opened a log goes on. `Service`: a daemon goes on by itself, each
request has its goroutine, the library has a clock; requests, dials, signals and faults need not
come.

The type invariants of `Process`, `Manager`, `Boot`, `Service` and `LogFiles` are proved, for any
constants. That of `LogStream` holds in its run, where it is not listed (add `TypeOK` to the
INVARIANTS of the configuration); the parts of it that the proofs use are in their invariants.

Each property of a passing run has a mutant in `PROJECT.json`: the change of the code that it would
catch.

### Divergences found

Two runs are expected to fail and are listed in `PROJECT.json` under `findings` with the sentence
they contradict:

* `logstream_freezes`: the stream compares numbers of lines. Once its source holds as many lines as
  it asks for, the number stays at 500, and no further line is sent (`sse.go:51`, against
  `sse.go:15-16`).
* `service_stop_start`: `daemon stop` returns when the request was taken, and the `daemon start`
  after it finds a socket that still accepts, says the daemon is already running, and none is there
  afterwards (`cmd/daemon.go:28`, against the advice in `cmd/daemon.go:104`).

The other divergences are configurations kept beside the runs; each fails at the property named
(run `tlc -config <name>.cfg MC<Module>.tla`).

| Configuration | Property | What it shows |
|---|---|---|
| `process_stop_hangs` | `StopReturns` | a helper that left the group and holds the pipe keeps `cmd.Wait`, and so Stop, waiting (`process.go:210`) |
| `manager_double_start` | `OneLivePerKey` | two starts of one project both find nothing running (`manager.go:399`) |
| `manager_stop_undone` | `StopSticks` | a restart that sleeps is neither cancelled nor asks again (`manager.go:778`) |
| `manager_stop_scope` | `StopScope` | the name of one project begins with that of the other (`manager.go:458`) |
| `manager_lost_entry` | `SavedAtRest` | two saves cross: the older content of `runtime.json` is written last, and a running child is not on disk (`recovery.go:54-58`) |
| `manager_endless_restarts` | `RestartBudget` | as `manager_crash_loop`, but the child exits before Start tracks it (`manager.go:760`) |
| `manager_port_race` | `PortsExclusive` | two starts pass the port check, the port is taken only at tracking (`manager.go:403`, `445`) |
| `manager_port_reload` | `PortsExclusive` | an idempotent start loads the edited toml, and the port the child really has is forgotten (`manager.go:379`) |
| `manager_unsaved_start` | `SavedAtRest` | the second process fails, and Start returns before `Runtime.Save` (`manager.go:441-451`) |
| `manager_crash_unseen` | `CrashIsRestarted` | `onCrash` finds no object for a first child that exits before its tracking (`manager.go:760-764`) |
| `manager_remove_running` | `LiveIsRegistered` | a Remove between a spawn and its tracking unregisters the project of a live child |
| `manager_stale_hidden` | `StaleIsShown` | after an edit an idempotent start marks the new toml as active (`manager.go:380`, `web/handlers.go:95-96`) |
| `boot_pid_reuse` | `AdoptedIsOurs` | a recorded pid that another program has by now is adopted (`recovery.go:84`) |
| `logstream_overtaken` | `AlwaysRising` | a Start and a line come between a stream's lookup and its reading: the file is sent, then the shorter ring again (`manager.go:259-274`, `sse.go:43-50`); `AlwaysRising` is `InOrder` without its exception |
| `logstream_two` | `InOrder` | the stream of a project joins its processes' lines one after the other, so the positions it compares shift (`manager.go:218-284`, `sse.go:43-56`) |
| `logfiles_live_removed` | `LiveLogKept` | a process runs on while its toml does not parse, or no longer names it, and the collector removes the log it writes to (`gc.go:66-86`, against `gc.go:45-46`) |
| `service_names` | `EveryNameArrives` | projects called `status`, `config`, `logs` or `errors`, and the logs of a process called `stream`, cannot be reached over HTTP (`web/handlers.go:187`) |

And some that the properties leave out on purpose. `watchAdopted` reads the status and writes
`crashed` in two lock sections (`process.go:80-90`), so a Stop that begins between them is reported
as a crash; hence the `~adopted` in `ImplementsLifecycle` and `VerdictMatchesReport`. Stop is
satisfied when the leader is gone and the pipe closed (`process.go:207`): a member of the group that
ignores SIGTERM and gave up the pipe survives, although `process.go:149` speaks of a clean shutdown.
A child that exits with status 0 counts as crashed (`process.go:226`).

## 4. Proofs

TLAPS checks all of it; nothing is assumed but the named ASSUMEs of the modules: the kinds of helper
(`ForksAssumption`), the shape of a toml with a budget of at least one (`ConfigAssumption`), that
sentinels such as `NoConfig`, `NoPid`, `Torn`, `NoForeign` or `NoRing` are none of the values they
stand in for, that clients and objects are different identities, that a project's name is not the
key of a process (`KeyAssumption`), that requests are requests, that no name is empty, that a stream
asks a ring for no more than it holds and for no less than the least share of an aggregate (500, 500
and 20 in the code, `StreamAssumption`), and that the capacities and bounds are numbers. The sets
themselves are arbitrary. A theorem that holds only under a further condition has it in its
statement (`Sequential /\ Spec => []P`), and each such condition is met by the run that checks P;
where the code breaks P without it, the configuration that shows how is named.

Every safety invariant and every action property that a passing run checks is the subject of a
theorem.

**`ProcessProofs`**, for any set of callers and any kinds of helper: `TypeCorrect`, `ExclusiveStop`,
`StoppedIsTrue`, `VerdictIsConsistent`, `Refinement`. None of the invariants is inductive: that the
second caller leaves depends on the status being `stopping` (or, for an adopted child, wrongly
`crashed`) all the time the first one is inside; that `stopped` is true depends on what the caller
has seen before it settles; that the callback agrees with the status depends on `intentional` still
being true of it. `IInv` says this for every place of the watcher and the callers. `Refinement`
shows each step under `IInv` to be one of `Lifecycle` or to leave `status` and `Present` alone.

**`ManagerProofs`**, for any projects, names, clients, objects, requests and bounds:

* `TypeCorrect`: `TypeOK`, and that a goroutine has in hand what the code dereferences at its place;
* `ExclusiveHands`: an object is spawned by one goroutine and stopped by one at a time;
* `TrackedInRuntime` and `RegisteredIsConfigured`: the two invariants that hold under all
  concurrency, the second also after a boot that skipped tomls and with saves that fail;
* `ObjectsRefine`: every object implements `Lifecycle`;
* `StopsOnlyAsked`: only a child that some request named is told to stop, under `NoOverlap`: no
  project's name begins with that of another. It is the one condition, and it is needed
  (`manager_stop_scope`): the prefix match of `manager.go:458` takes `web-2` for a process of `web`.

The inductive invariant is `Core`. `AllSound` says what a goroutine holds at each place; `InHand`
that an object in the hand of a spawning goroutine has not been started and one in the hand of a
stopping goroutine is `stopping`; `Exclusive` that no two goroutines hold the same one; `Restarters`
that the goroutine of a crash never runs Add, Remove or Stop; `Stages` how the status goes with the
watcher. Without `Exclusive`, a second Stop could settle the object of the first, and `InHand` would
not be preserved; without `Stages`, a Stop could settle a live child and the refinement would fail.
Most steps move one goroutine and no object, which the lemma `Quiet` handles once. For
`StopsOnlyAsked`, `ScopeInv` adds that a tracked object is a started one of the key it is tracked
under (`Known`), that the same holds of an object about to be spawned or tracked (`Tagged`), and
that a Stop has only what was asked for in its list and an object of its key in its hand (`Scoped`):
between `StopPick` and `StopHalt` the lock is released, and a restart may replace the object. The
lemmas `...Does` say for each action where its goroutine goes and what it carries there; the proofs
of all three modules about the manager are built on them.

**`SequentialProofs`** proves the promises that need one request at a time. `Sequential` is that
there is at most one client and that no toml asks for restarts; `OneChildEach`, `LiveTracked`,
`LoggerFollows`, `StopsStick` have the form `Sequential /\ Spec => []P`, `PortsApart` needs also
that no toml is edited. The invariant `SeqInv` adds to `Core` what the one goroutine may count on:
that no restart goroutine exists (`Calm`), that a living child is tracked or in its hand (`Owned`),
that an object is tracked under its own key (`Mapped`), that a key it has claimed has no living
child (`Claimed`), and that a child that was given a Logger is the one its key's Logger belongs to
(`Equipped`). `StopInv` adds which keys a Stop
has still to visit, so that a key counts as halted only when its child has ended. `PortInv` adds
that the configuration a Start works with is that of the toml, which is what relates the port check
of one process to the ports the running ones were given.

`SavedWhenAtRest` says that `runtime.json` has every running child whenever nothing is being done.
Besides `Sequential` it needs `OneByOne`, that no request starts several processes, since a failure
of the second returns before the save (`manager_unsaved_start`), and `SavesWork`, that saves do not
fail, since Start has tracked its child by then; with several clients an older content may be
written last (`manager_lost_entry`). `SaveInv` relates three copies: what runs is in
`runtime` (`Entered`), the snapshot that is about to be written has it (`Copied`), and the file has
it unless a goroutine is on its way to the write (`Written`). What a Stop takes out of `runtime` has
ended by then (`Doomed`); the property alone says nothing of the moment between tracking and saving.

**`CrashLoopProofs`**: `BudgetKept`, that a process is restarted automatically at most
`max_restarts` times between two long runs, for any number of projects, processes and objects, every
toml, and children that crash at any moment after they are tracked. The count is on the object that
crashed and is inherited by its successor (`manager.go:414-418`, `771-775`), so the budget is only
as good as the chain of objects. The heart of `LoopInv` is `Unique`: of the goroutines and the
living children, at most one can lead to the next start of a key. With it, the count that a
successor inherits covers all restarts so far (`Counted`, `Held`); without it, two restart
goroutines could each add one to the same count. `Tracked` and `Late` say that a child is tracked
until its watcher is done and that its restart goroutine begins only then. The hypothesis
`Unattended` is that there is one client with one request, that no toml is edited, and that no child
ends before it is tracked; the last is what `manager_endless_restarts` breaks. A second request or
an edit starts a new count while an old one is in use, and then the property's own history
(`autos`) no longer measures one chain. In the run `manager_crash_loop` the hypothesis holds.

**`BootProofs`**, for any projects, pids, deaths, requests and edits, with or without reuse of pids:
`TypeCorrect`, `NeverForgotten`, `FilesAgree`, `OneChild`, `StartedOwned`, `LossExplained`, all from
`CoreInvariant`. `Core` says which variables are in use at which place of the boot (`Phases`), that
what `LoadOrphans` found is not tracked yet and a child in the hand of Start is the only one of its
project (`Slots`), that what is tracked is entered in `runtime` (`Entered`), what was read and what
is written at each stage of a save (`Read`, `Written`), who owns the pids of started children
(`Identity`), and that what is lost is alive (`LostLive`). `NoChildForgotten` is not inductive
without `Slots` and `Entered`: a save writes `runtime`, so a child survives the next death only if
its entry is there.

**`LogStreamProofs`**, for any capacities, any number of processes, lines and readers:

* `RingsNewest`. `RingInv` says where in the ring the line with a given distance from the newest
  stands; the lemma `Modulo` is the one fact about remainders it needs, proved by cases.
* `ErrorsNewest`, for any number of processes that share the ErrorRing. `ErrInv` says of the whole
  ring what the property says of one process's events: an error line newer than an event has an
  event before that one, or is a separator (`Recorded`); adding an event moves all others one place
  on (`AddNewest`), and the one that is overwritten is the last. What `RecentForKeys` collects is a
  subsequence that leaves out no event of the keys (`Picks`). This is an induction over the turns of
  its loop; it is done over a set of numbers (`Induction`, from the well-foundedness of `<`), since
  the library's induction theorems take an operator.
* `ProcessInOrder` and `ProcessGaps`: the stream of a process and its follower see its lines in
  order, none twice, and miss one only for a cause. They hold in any project, and without exception.
* `OneProcessInOrder` and `OneProcessGaps`: `InOrder` and `GapsHaveCauses` of every reader, also the
  stream of the project, if the project has one process. For that stream the first excepts the two
  changes between file and ring (`reread`, `logstream_overtaken`); the second has no exception. With two
  processes the first is false (`logstream_two`): the aggregate joins the processes' lines, and the
  stream's positions shift.

`LogInv` says of each process's files that they hold a run of its lines, the current one up to the
newest (`Filed`). `LookInv` says what a reader knows between its lookup and its reading (`Knows`): a
Logger it found is still there or kept, and a kept ring has no line beyond the last. What it will
read is then always a run of lines up to some line (`Yields`), and one that no writer changes any
more if the ring was kept (`Fixed`).

`StreamInv` relates three numbers for each stream (`Streamed`): what was shown last, how much was
sent, and where the source stands now (`CaughtUp`; `Whole` if nothing has been lost). It is kept
because every step changes a source in one of a few ways (`Shifts`): a line more, a rotation, a new
Logger, a removal. A poll reads not this source but what the lookup found; `AskInv` bridges the two:
a stream of the project that has looked will be caught up with the source of now when it has read
what it found (`Asked`), because a kept ring ends before the new one begins, and without a cause for
a gap the two are the same. `FollowInv` does the same for the file a follower has open, whatever its
name has become (`Reads`, `ReadsAll`). Without these, `InOrder` is not inductive: it says nothing of
the lines that are shown next.

**`LogFilesProofs`**, for any keys, numbers of backups and limits:

* `SteadySpared`: `Sparing` says that the names the collector holds as valid cover every steady
  process from the reading of the tomls on.
* `OldestLost` and `WhatFitsKept`, through collections, failing reopens and deaths of the daemon in
  the middle of a rotation. The invariant `Disk` says that no file has two names (`Apart`) and, for
  each key, how names, texts and writer go together (`KeyOK`): the texts from the oldest backup to
  the current file are in order and end with what was written last (`Ordered`); the writer's count
  is that of its file, and the file is the current one, unless a failed rotation has left the count
  too high (`Sized`, `Following`); and while none has failed, the only number without a file is the
  one a rotation has just emptied (`Gap`, `Filled`). The half-done rotation is why `KeepsWhatFits`
  is not inductive.
* `TailKept`: `Cut` relates the file, the tail in memory and the lines that must survive at each of
  the four steps of a cut, and puts the marker at the head of what was rewritten (`Headed`).
* `TypeCorrect`.

**`ServiceProofs`**: `NamesArrive`, for any names: every call arrives at what it names, over HTTP
exactly the shadowed ones do not. `TellsTruth`: the service implements `Rpc`, for any number of
daemons and requests; `IInv` is `TypeOK` and `Told`, which says what a reply implies at each place
of a request, above all that a refused one is over.

Only model-checked: everything under fairness (`StopReturnsUnlessHeld`, `ExitNoticed`,
`RequestsReturn`, `CrashIsRestarted`, `BootServes`, `NoReaderStalls`, `EveryRequestAnswered`,
`LoneDaemonReachable`), since ENABLED is outside the prover's reach; and the type invariant of
`LogStream`, which includes what the stream of a project of several processes has shown: that is a
fold over the processes (`Aggregate`), with an operator as its parameter.

## 5. Not modelled, and why

* *Metrics* (`metrics.go`): one record per key under one lock and float arithmetic on what `ps` says
  at a moment. The one hazard, a baseline that fast polling keeps too young, is arithmetic of one
  function; it is listed without a property.
* *LaunchAgent, tool path, otel scripts, console page*: a plist, an environment variable, shell
  scripts, third-party configuration and a static page; no state of this program.
* *Parsing and formatting*: tomls and JSON, command lines, the JSON envelope of IPC, timestamps and
  prefixes, the matching of error patterns, sizes and reports of the collector. String data; where
  an outcome matters (a toml is refused, a file does not parse, a line is an error) it is a choice
  or a constant.
* *Readers without a state*: `PS`, `DetailedStatus` and the configuration page combine what the
  modelled maps hold.
* *A partial line* stays in the Logger's buffer until its end comes, and is lost if it does not
  (`logger.go:134` has no caller). The models have whole lines, so a property would only repeat
  that.
* *The data race on the registry's map* (`registry.go:35`): the maps' values are kept atomic; what
  Go may do about a race it notices, end the program, is a death of the daemon in `Boot`.
* *A rotation whose remove or rename fails*: `rotator.go:64` and `67` ignore the errors and go on.
  `LogFiles` has the failures that the code acts on (a reopen) and deaths between the steps.
* *Log paths that coincide*: `a/b-c` and `a-b/c` have one log file (`manager.go:157`). `LogFiles`
  has one writer for a file.
* *Composition of `Boot` with the interleavings of `Manager`*: `Boot` does one request at a time.
  The product is out of TLC's reach, and the hazards listed at the boot do not need two requests.
