----------------------------- MODULE LogStream ------------------------------
(***************************************************************************)
(* From a child's output to whoever reads it.  A Logger gives each line to *)
(* a rotating file, to its ring and, if it looks like an error, to the     *)
(* daemon's ErrorRing (internal/daemon/logger.go).  Readers poll: the      *)
(* event stream of the web API asks for the newest lines five times a      *)
(* second and sends those beyond the number it has sent                    *)
(* (internal/web/sse.go:17-61); `nanny logs -f` prints a snapshot and then *)
(* follows the file it opened (cmd/logs.go:27-95).  Meanwhile the file     *)
(* rotates and a restart replaces the Logger, also between a reader's      *)
(* lookup of the Logger under m.mu and its reading after the unlock        *)
(* (internal/daemon/manager.go:220-287).                                   *)
(*                                                                         *)
(* One project; a process name is also its key.  The lines of a process    *)
(* are numbered from 1 in the order they are recorded, so a line is a      *)
(* number and a file or a ring holds increasing numbers.  Timestamps and   *)
(* the "[name] " prefix are left out.  Rotated backups and collection are  *)
(* in LogFiles.tla.                                                        *)
(***************************************************************************)
EXTENDS Rings, FiniteSets, SequencesExt

CONSTANTS
    Processes,      \* the processes of the project
    Project,        \* its bare name, as a key
    NoRing,         \* an absent map entry
    StreamLines,    \* lines a stream asks for (500)
    HistoryLines,   \* lines `nanny logs` asks for (100)
    ErrorContext,   \* lines an error event carries (35)
    PerProcessMin,  \* lines of a process an aggregate has at least (20)
    ErrorLines,     \* which lines match an error pattern
    MaxLines,       \* BOUND: lines of a process
    MaxStarts,      \* BOUND: starts of a process
    MaxRotations,   \* BOUND: rotations of a process's file
    MaxReaders      \* BOUND: readers at a time; they do not affect each other

ASSUME KeyAssumption ==
    /\ Project \notin Processes
    /\ \A p \in Processes : <<"follow", p>> \notin Processes \cup {Project}
ASSUME NoRingAssumption ==
    \A f \in [0..RingCap-1 -> 0..MaxLines], i, j \in 0..RingCap :
        NoRing # [slots |-> f, pos |-> i, len |-> j]
ASSUME LineAssumption ==
    /\ {StreamLines, HistoryLines, ErrorContext, PerProcessMin} \subseteq Nat \ {0}
    /\ ErrorLines \subseteq Nat
    /\ {MaxStarts, MaxRotations, MaxReaders} \subseteq Nat /\ MaxLines \in Nat \ {0}
(* A stream never asks a ring for more than it holds, nor for less than an *)
(* aggregate gives.                                                        *)
ASSUME StreamAssumption == PerProcessMin <= StreamLines /\ StreamLines <= RingCap

VARIABLES
    out,       \* lines recorded for a process so far
    files,     \* the files its log path has named, oldest first, with lines
    loggers,   \* Manager.loggers
    tracked,   \* the keys of Manager.processes
    running,   \* processes whose output reaches their Logger
    hand,      \* a Logger a Start has made and not yet installed
    starts,    \* how much of the bound is used up
    errRing,   \* Manager.errRing
    stream,    \* the event streams, one of each key
    follow,    \* a `nanny logs -f` of each process
    looked,    \* the readers inside LogLines, after its lookup
    found,     \* what that lookup found for each process
    seps,      \* history: the lines that are restart separators
    causes     \* history: what may have kept a line from a reader

writer == <<out, files, loggers, tracked, running, hand, starts, errRing, seps>>
lookup == <<looked, found>>
vars == <<writer, stream, follow, lookup, causes>>

Keys == Processes \cup {Project}
Readers == Keys \cup {<<"follow", p>> : p \in Processes}
Causes == {"full", "replaced", "raced", "rotated", "reread"}

Lines == 1..MaxLines
Shown == Seq(Processes \X Lines)
Rings == [slots : [0..RingCap-1 -> 0..MaxLines], pos : 0..RingCap-1, len : 0..RingCap]

(* LogLines reads nothing of a process, its log file, the Logger that it   *)
(* still has, or the ring of a Logger it had when LogLines looked.         *)
Absent == [by |-> "none", ring |-> NoRing]
InFile == [by |-> "file", ring |-> NoRing]
Live == [by |-> "live", ring |-> NoRing]
Kept(r) == [by |-> "kept", ring |-> r]
Nothing == [p \in Processes |-> Absent]

TypeOK ==
    /\ out \in [Processes -> 0..MaxLines]
    /\ files \in [Processes -> Seq(Seq(Lines))]
    /\ \A p \in Processes :
          /\ loggers[p] = NoRing \/ loggers[p] \in Rings
          /\ hand[p] = NoRing \/ hand[p] \in Rings
    /\ DOMAIN loggers = Processes /\ DOMAIN hand = Processes
    /\ tracked \subseteq Processes /\ running \subseteq Processes
    /\ starts \in [Processes -> 0..MaxStarts]
    /\ stream \in [Keys -> [on : BOOLEAN, sent : Nat, shown : Shown]]
    /\ follow \in [Processes -> [pc : {"idle", "asked", "reading", "ended"},
                                 file : Nat, at : Nat, shown : Shown]]
    /\ looked \subseteq Readers \ Processes
    /\ DOMAIN found = Readers
    /\ \A v \in Readers : DOMAIN found[v] = Processes
    /\ \A v \in Readers, p \in Processes :
          \/ found[v][p] \in {Absent, InFile, Live}
          \/ found[v][p].by = "kept" /\ found[v][p].ring \in Rings
    /\ seps \subseteq Processes \X Lines
    /\ causes \in [Readers -> SUBSET Causes]

(* A previous daemon may have left a log, and a child that was adopted: it *)
(* has no Logger, and its output reaches nobody (manager.go:152).          *)
Init ==
    /\ out \in [Processes -> 0..1]
    /\ files = [p \in Processes |-> IF out[p] = 0 THEN <<>> ELSE <<<<1>>>>]
    /\ tracked \in SUBSET {p \in Processes : out[p] > 0}
    /\ loggers = [p \in Processes |-> NoRing]
    /\ hand = [p \in Processes |-> NoRing]
    /\ running = {} /\ starts = [p \in Processes |-> 0]
    /\ errRing = EmptyErrors
    /\ stream = [k \in Keys |-> [on |-> FALSE, sent |-> 0, shown |-> <<>>]]
    /\ follow = [p \in Processes |->
                    [pc |-> "idle", file |-> 0, at |-> 0, shown |-> <<>>]]
    /\ looked = {} /\ found = [v \in Readers |-> Nothing]
    /\ seps = {} /\ causes = [v \in Readers |-> {}]

-----------------------------------------------------------------------------
(* Reading. *)
Newest(s, n) == IF Len(s) > n THEN SubSeq(s, Len(s) - n + 1, Len(s)) ELSE s
Of(p, s) == [i \in 1..Len(s) |-> <<p, s[i]>>]

Current(p) == IF files[p] = <<>> THEN <<>> ELSE Last(files[p])

(* tailLogFile *)
FileTail(p, n) == Newest(Current(p), n)

(* The lines of p in what was found of it. *)
LinesIn(p, f, n) ==
    CASE f.by = "none" -> <<>>
      [] f.by = "file" -> FileTail(p, n)
      [] f.by = "live" -> RingTail(loggers[p], n)
      [] f.by = "kept" -> RingTail(f.ring, n)

(* The lookup: the processes a project's bare name stands for, with or     *)
(* without a Logger.                                                       *)
Subs == {p \in Processes : loggers[p] # NoRing} \cup tracked
Finding(p) == IF loggers[p] # NoRing THEN Live
              ELSE IF p \in tracked THEN InFile ELSE Absent
Findings == [p \in Processes |-> Finding(p)]

(* The reading, in the order of the names, of the share of each. *)
InOrderOfName == SetToSeq(Processes)
NamedIn(of) == {p \in Processes : of[p].by # "none"}
Share(of, n) == LET each == n \div Cardinality(NamedIn(of))
                IN  IF each < PerProcessMin THEN PerProcessMin ELSE each

Aggregate(of, n) ==
    LET lines(p) == IF p \in NamedIn(of) THEN Of(p, LinesIn(p, of[p], Share(of, n)))
                    ELSE <<>>
    IN  Newest(FoldLeft(LAMBDA all, p : all \o lines(p), <<>>, InOrderOfName), n)

(* The project's bare name, of which of was found. *)
LogLines(of, n) == IF NamedIn(of) = {} THEN <<>> ELSE Aggregate(of, n)

(* What a stream polls.  Its key has "-" for "/" (sse.go:84), so a process *)
(* key is in neither map, whenever LogLines looks, and LogLines falls      *)
(* through to the log file, whose name has the same "-".                   *)
Reading(k, of) == IF k \in Processes THEN Of(k, FileTail(k, StreamLines))
                                      ELSE LogLines(of, StreamLines)

(* What a poll finds now, and what one finds that has looked before. *)
Source(k) == Reading(k, Findings)
Answer(k) == Reading(k, found[k])

-----------------------------------------------------------------------------
(* Recording a line.  The file rotates before a write that would make it   *)
(* too large.                                                              *)
Rotations(p) == IF files[p] = <<>> THEN 0 ELSE Len(files[p]) - 1

Written(p, line) ==
    {[files[p] EXCEPT ![Len(files[p])] = Append(@, line)]} \cup
    IF Current(p) # <<>> /\ Rotations(p) < MaxRotations
    THEN {Append(files[p], <<line>>)} ELSE {}

(* What the line may keep from a reader: a source that is already as long  *)
(* as what is asked for loses its oldest line, one that rotates loses all. *)
(* p's own source is the file, the project's is it too without a Logger.   *)
Full(p, k) ==
    IF k = p THEN Len(Current(p)) >= StreamLines
    ELSE k = Project /\ p \in Subs
             /\ LET share == Share(Findings, StreamLines)
                IN  Len(LinesIn(p, Finding(p), share)) >= share

Replaced(p, k, rotates) ==
    rotates /\ (k = p \/ (k = Project /\ loggers[p] = NoRing /\ p \in tracked))

StreamCauses(p, k, rotates, recorded) ==
    IF ~stream[k].on THEN {}
    ELSE IF Replaced(p, k, rotates) THEN {"replaced"}
    ELSE IF recorded /\ Full(p, k) THEN {"full"} ELSE {}

FollowCauses(p, rotates) ==
    CASE follow[p].pc = "asked" -> {"raced"}
      [] follow[p].pc = "reading" /\ rotates -> {"rotated"}
      [] OTHER -> {}

(* The line of a Start's own Logger is not in the ring a project's stream  *)
(* reads.                                                                  *)
LineCauses(p, rotates, installed) ==
    causes' = [v \in Readers |-> causes[v] \cup
                 IF v \in Keys
                 THEN StreamCauses(p, v, rotates,
                                   v = p \/ loggers[p] = NoRing \/ installed)
                 ELSE IF v = <<"follow", p>> THEN FollowCauses(p, rotates)
                 ELSE {}]

(* processLineLocked *)
Emit(p) ==
    /\ p \in running /\ out[p] < MaxLines
    /\ LET line == out[p] + 1
           ring == RingAdd(loggers[p], line)
       IN /\ out' = [out EXCEPT ![p] = line]
          /\ \E new \in Written(p, line) :
                /\ files' = [files EXCEPT ![p] = new]
                /\ LineCauses(p, Len(new) > Len(files[p]), TRUE)
          /\ loggers' = [loggers EXCEPT ![p] = ring]
          /\ errRing' = IF line \in ErrorLines
                        THEN ErrorAdd(errRing,
                               [key |-> p, lines |-> RingTail(ring, ErrorContext)])
                        ELSE errRing
    /\ UNCHANGED <<tracked, running, hand, starts, seps, stream, follow,
                   lookup>>

-----------------------------------------------------------------------------
(* The part of startProcesses that is about logs: open or create the file, *)
(* write the separator if the file has content, ...                        *)
StartOpen(p) ==
    /\ p \notin running /\ hand[p] = NoRing
    /\ starts[p] < MaxStarts /\ starts' = [starts EXCEPT ![p] = @ + 1]
    /\ IF Current(p) = <<>>
       THEN /\ hand' = [hand EXCEPT ![p] = EmptyRing]
            /\ files' = [files EXCEPT ![p] = IF @ = <<>> THEN <<<<>>>> ELSE @]
            /\ UNCHANGED <<out, seps, causes>>
       ELSE LET line == out[p] + 1
            IN /\ line <= MaxLines
               /\ out' = [out EXCEPT ![p] = line]
               /\ seps' = seps \cup {<<p, line>>}
               /\ hand' = [hand EXCEPT ![p] = RingAdd(EmptyRing, line)]
               /\ \E new \in Written(p, line) :
                     /\ files' = [files EXCEPT ![p] = new]
                     /\ LineCauses(p, Len(new) > Len(files[p]), FALSE)
    /\ UNCHANGED <<loggers, tracked, running, errRing, stream, follow, lookup>>

(* If the log file cannot be opened, the child is started all the same,    *)
(* without a Logger or beside the one of its predecessor, and what it      *)
(* writes reaches nobody.  A stream of the project that has been sent the  *)
(* lines of a Logger since removed reads them again, from the file.        *)
StartUnlogged(p) ==
    /\ p \notin running /\ hand[p] = NoRing
    /\ starts[p] < MaxStarts /\ starts' = [starts EXCEPT ![p] = @ + 1]
    /\ tracked' = tracked \cup {p}
    /\ causes' = [causes EXCEPT ![Project] =
                     IF stream[Project].on /\ p \notin Subs
                     THEN @ \cup {"reread"} ELSE @]
    /\ UNCHANGED <<out, files, loggers, running, hand, errRing, seps, stream,
                   follow, lookup>>

(* A reader that has found a Logger reads it, whatever the Manager has by  *)
(* then.                                                                   *)
Retain(ps) ==
    /\ looked' = looked
    /\ found' = [v \in Readers |-> [p \in Processes |->
                    IF p \in ps /\ found[v][p] = Live THEN Kept(loggers[p])
                                                     ELSE found[v][p]]]

(* ... install the new Logger, and start the child, which may fail. *)
StartInstall(p) ==
    /\ hand[p] # NoRing
    /\ loggers' = [loggers EXCEPT ![p] = hand[p]]
    /\ hand' = [hand EXCEPT ![p] = NoRing]
    /\ \E spawned \in BOOLEAN :
          /\ running' = IF spawned THEN running \cup {p} ELSE running
          /\ tracked' = IF spawned THEN tracked \cup {p} ELSE tracked
    /\ causes' = [causes EXCEPT ![Project] =
                     IF stream[Project].on THEN @ \cup {"replaced"} ELSE @]
    /\ Retain({p})
    /\ UNCHANGED <<out, files, starts, errRing, seps, stream, follow>>

(* The child ends; its Logger stays, and what it holds. *)
Exit(p) ==
    /\ p \in running /\ running' = running \ {p}
    /\ UNCHANGED <<out, files, loggers, tracked, hand, starts, errRing, seps,
                   stream, follow, lookup, causes>>

(* The project is removed, and may be added again. *)
RemoveProject ==
    /\ running = {} /\ \A p \in Processes : hand[p] = NoRing
    /\ Subs # {}
    /\ loggers' = [p \in Processes |-> NoRing] /\ tracked' = {}
    /\ causes' = [causes EXCEPT ![Project] =
                     IF stream[Project].on THEN @ \cup {"replaced"} ELSE @]
    /\ Retain(Processes)
    /\ UNCHANGED <<out, files, running, hand, starts, errRing, seps, stream,
                   follow>>

-----------------------------------------------------------------------------
Follower(p) == <<"follow", p>>

Active == {k \in Keys : stream[k].on} \cup
          {Follower(p) : p \in {q \in Processes :
                                   follow[q].pc # "idle" \/ Follower(q) \in looked}}

(* GET .../logs/<key>/stream *)
Connect(k) ==
    /\ ~stream[k].on /\ Cardinality(Active) < MaxReaders
    /\ stream' = [stream EXCEPT ![k].on = TRUE]
    /\ UNCHANGED <<writer, follow, lookup, causes>>

(* LogLines under m.mu ... *)
Look(v, of) ==
    /\ v \notin looked /\ looked' = looked \cup {v}
    /\ found' = [found EXCEPT ![v] = of]
    /\ UNCHANGED <<writer, stream, follow, causes>>

(* ... and after the unlock. *)
Answered(v) ==
    /\ looked' = looked \ {v}
    /\ found' = [found EXCEPT ![v] = Nothing]

(* One tick of a stream.  A lookup for a process key would find nothing.   *)
PollLook == stream[Project].on /\ Look(Project, Findings)

Ready(k) == stream[k].on /\ (k = Project => k \in looked)

(* A Start came between: what is read from the file is in a ring by now.   *)
Overtaken(k) == \E p \in Processes : found[k][p] = InFile /\ loggers[p] # NoRing

(* Mutant: nothing is sent again when the source became shorter. *)
PollWithoutResync(k) ==
    /\ Ready(k) /\ Answered(k)
    /\ LET lines == Answer(k)
           sent == stream[k].sent
       IN stream' = IF Len(lines) > sent
                    THEN [stream EXCEPT ![k].sent = Len(lines),
                             ![k].shown = @ \o SubSeq(lines, sent + 1, Len(lines))]
                    ELSE stream
    /\ causes' = [causes EXCEPT ![k] = IF Overtaken(k) THEN @ \cup {"reread"} ELSE @]
    /\ UNCHANGED <<writer, follow>>

(* Mutant: everything is sent again whenever the length changed. *)
PollFromScratch(k) ==
    /\ Ready(k) /\ Answered(k)
    /\ LET lines == Answer(k)
       IN stream' = IF Len(lines) # stream[k].sent
                    THEN [stream EXCEPT ![k].sent = Len(lines),
                                        ![k].shown = @ \o lines]
                    ELSE stream
    /\ causes' = [causes EXCEPT ![k] = IF Overtaken(k) THEN @ \cup {"reread"} ELSE @]
    /\ UNCHANGED <<writer, follow>>

(* Processes record independently, so that one reading of all of them      *)
(* loses no case.                                                          *)
Poll(k) ==
    /\ Ready(k) /\ Answered(k)
    /\ LET lines == Answer(k)
           sent == IF Len(lines) < stream[k].sent THEN 0 ELSE stream[k].sent
       IN stream' = [stream EXCEPT
                        ![k].sent = Len(lines),
                        ![k].shown = @ \o SubSeq(lines, sent + 1, Len(lines))]
    /\ causes' = [causes EXCEPT ![k] = IF Overtaken(k) THEN @ \cup {"reread"} ELSE @]
    /\ UNCHANGED <<writer, follow>>

-----------------------------------------------------------------------------
(* nanny logs -f: the snapshot comes from the daemon, which looks for the  *)
(* Logger of this key alone, ...                                           *)
FollowLook(p) ==
    /\ follow[p].pc = "idle" /\ Cardinality(Active) < MaxReaders
    /\ Look(Follower(p),
            [Nothing EXCEPT ![p] = IF loggers[p] # NoRing THEN Live ELSE InFile])

(* A snapshot of the file has what was recorded by then; that of a ring    *)
(* may lack what a Start has recorded in a newer one.                      *)
FollowAsk(p) ==
    /\ Follower(p) \in looked /\ Answered(Follower(p))
    /\ LET f == found[Follower(p)][p]
       IN /\ follow' = [follow EXCEPT ![p].pc = "asked",
                                      ![p].shown = Of(p, LinesIn(p, f, HistoryLines))]
          /\ causes' = [causes EXCEPT ![Follower(p)] =
                           IF f.by = "kept" \/ hand[p] # NoRing THEN {"raced"} ELSE {}]
    /\ UNCHANGED <<writer, stream>>

(* ... the file is opened later, at its end, ... *)
FollowOpen(p) ==
    /\ follow[p].pc = "asked"
    /\ follow' = IF files[p] = <<>>
                 THEN [follow EXCEPT ![p].pc = "ended"]
                 ELSE [follow EXCEPT ![p].pc = "reading",
                                     ![p].file = Len(files[p]),
                                     ![p].at = Len(Current(p))]
    /\ UNCHANGED <<writer, stream, lookup, causes>>

(* Mutant: of what is new only the newest line is printed. *)
ReadNewest(p) ==
    /\ follow[p].pc = "reading"
    /\ LET text == files[p][follow[p].file]
       IN follow' = [follow EXCEPT
                        ![p].at = Len(text),
                        ![p].shown = @ \o Of(p, Newest(SubSeq(text, follow[p].at + 1,
                                                              Len(text)), 1))]
    /\ UNCHANGED <<writer, stream, lookup, causes>>

(* ... and the file that was opened is read for ever, whatever its name.   *)
FollowRead(p) ==
    /\ follow[p].pc = "reading"
    /\ LET text == files[p][follow[p].file]
       IN follow' = [follow EXCEPT
                        ![p].at = Len(text),
                        ![p].shown = @ \o Of(p, SubSeq(text, follow[p].at + 1,
                                                       Len(text)))]
    /\ UNCHANGED <<writer, stream, lookup, causes>>

-----------------------------------------------------------------------------
Next ==
    \/ \E p \in Processes :
          \/ Emit(p) \/ StartOpen(p) \/ StartUnlogged(p) \/ StartInstall(p)
          \/ Exit(p)
          \/ FollowLook(p) \/ FollowAsk(p) \/ FollowOpen(p) \/ FollowRead(p)
    \/ RemoveProject
    \/ PollLook
    \/ \E k \in Keys : Connect(k) \/ Poll(k)

Spec == Init /\ [][Next]_vars

(* The ticker of a stream and the loop of a follower run by themselves; a  *)
(* Start that has made a Logger goes on to install it.                     *)
Fairness ==
    /\ WF_vars(PollLook) /\ \A k \in Keys : WF_vars(Poll(k))
    /\ \A p \in Processes : /\ WF_vars(FollowAsk(p)) /\ WF_vars(FollowOpen(p))
                             /\ WF_vars(FollowRead(p))
    /\ \A p \in Processes : WF_vars(StartInstall(p))

FairSpec == Spec /\ Fairness

-----------------------------------------------------------------------------
ShownTo(v) == IF v \in Keys THEN stream[v].shown ELSE follow[v[2]].shown

(* A ring always gives the newest lines of its process, all of them in a   *)
(* row, however often it wrapped; the line a new Logger has in the hand of *)
(* Start is not in it yet (logger.go:108-124).                             *)
InRing(p) == out[p] - (IF hand[p] # NoRing /\ hand[p].len > 0 THEN 1 ELSE 0)

RingIsNewest ==
    \A p \in Processes : loggers[p] # NoRing =>
        \A n \in 1..RingCap :
            LET tail == RingTail(loggers[p], n)
            IN  /\ Len(tail) = IF n < loggers[p].len THEN n ELSE loggers[p].len
                /\ \A i \in 1..Len(tail) : tail[i] = InRing(p) - Len(tail) + i

(* The events of a process come newest first, without a gap, and each ends *)
(* with the line that raised it (errors.go:46-62, logger.go:98-105).       *)
ErrorsAreNewest ==
    \A p \in Processes, n \in 1..ErrorCap :
        LET events == RecentForKeys(errRing, {p}, n)
            raised(e) == Last(e.lines)
        IN  /\ \A i \in 1..Len(events) : raised(events[i]) \in ErrorLines
            /\ \A i \in 1..(Len(events) - 1) :
                  /\ raised(events[i+1]) < raised(events[i])
                  /\ \A l \in (raised(events[i+1]) + 1)..(raised(events[i]) - 1) :
                        l \notin ErrorLines \/ <<p, l>> \in seps
            /\ \A l \in ErrorLines :
                  l \in 1..out[p] /\ events # <<>> /\ l > raised(events[1]) =>
                      <<p, l>> \in seps

(* Of the lines of one process, no later one is older. *)
Rising(s) ==
    \A i \in 1..(Len(s) - 1) : s[i][1] = s[i+1][1] =>
        \/ s[i][2] < s[i+1][2]
        \/ s[i] = s[i+1] /\ s[i] \in seps

AlwaysRising == \A v \in Readers : Rising(ShownTo(v))

(* No reader of one process sees a line twice or out of order, through any *)
(* rotation, restart and removal, nor when one of these comes between its  *)
(* lookup of a Logger and its reading (manager.go:259-274), except that a  *)
(* stream of the project may repeat lines when it changes from the file of *)
(* a process to its ring or back: it looked before a Start installed the   *)
(* first Logger and read the file after, or it is left with the file by a  *)
(* Start that could not open it.  Only the separator of a restart is seen  *)
(* twice otherwise (sse.go:44-50).                                         *)
InOrder == \A v \in Readers : "reread" \notin causes[v] => Rising(ShownTo(v))

(* Of the lines of one process, none is missing. *)
Unbroken(s) ==
    \A i \in 1..(Len(s) - 1) : s[i][1] = s[i+1][1] => s[i+1][2] = s[i][2] + 1

(* A reader of one process has a gap between two lines only if its source  *)
(* was full, replaced, or rotated away, or, for a follower, if a line came *)
(* between the snapshot and the opening of the file.                       *)
GapsHaveCauses == \A v \in Readers : causes[v] = {} => Unbroken(ShownTo(v))

(* What a poll of a reader that looks now would show. *)
Due(v) ==
    IF v \in Keys
    THEN LET lines == Source(v)
             sent == stream[v].sent
         IN  IF ~stream[v].on THEN {}
             ELSE IF Len(lines) < sent THEN ToSet(lines)
             ELSE ToSet(SubSeq(lines, sent + 1, Len(lines)))
    ELSE LET f == follow[v[2]]
             text == files[v[2]][f.file]
         IN  IF f.pc # "reading" THEN {}
             ELSE ToSet(Of(v[2], SubSeq(text, f.at + 1, Len(text))))

(* A reader never stalls: whenever something is due it comes to a moment   *)
(* when nothing is, also after a restart or a rotation made its source     *)
(* start anew (sse.go:44-50) and after a reading of a Logger that was      *)
(* replaced since the lookup.  A line ceases to be due without having been *)
(* shown if the new source has grown to the length of the old one before   *)
(* the next poll, or drops it: GapsHaveCauses is about these.              *)
NoReaderStalls == \A v \in Readers : (Due(v) # {}) ~> (Due(v) = {})

(* "It polls LogLines every 200ms and emits new lines" (sse.go:16): the    *)
(* newest line is sent when the process then keeps quiet, unless a         *)
(* rotation or a restart replaces the source.                              *)
StreamEmitsNewLines ==
    \A p \in Processes, i \in Lines :
        (stream[p].on /\ out[p] = i /\ <<p, i>> \in ToSet(Source(p)))
          ~> \/ out[p] # i \/ "replaced" \in causes[p]
             \/ <<p, i>> \in ToSet(ShownTo(p))
=============================================================================
