------------------------------ MODULE LogFiles ------------------------------
(***************************************************************************)
(* Log files on disk.  Each started process has a RotatingFile             *)
(* (internal/daemon/rotator.go), which shifts backups and reopens its path *)
(* before a write that would make it too large.  `nanny gc`                *)
(* (internal/daemon/gc.go) removes the files no registered process could   *)
(* have, and cuts a file it does not write itself, logs/<project>/..., to  *)
(* its tail, while its writer goes on appending.                           *)
(*                                                                         *)
(* One project.  Lines have unit size, and those of a key are numbered in  *)
(* the order they reach the file.  A file is an inode, a member of         *)
(* files; names refer to inodes, and so do the descriptors of writers, so  *)
(* that a renamed or removed file goes on being written.                   *)
(***************************************************************************)
EXTENDS Naturals, FiniteSets, SequencesExt

CONSTANTS
    Keys,        \* the keys of the project's processes
    Broken,      \* a toml that does not parse
    NoForeign,   \* no file, as its directory was removed
    MaxSize,     \* lines a file may have (50 MB)
    MaxFiles,    \* backups that are kept (3)
    CapSize,     \* lines beyond which a foreign file is cut (50 MB)
    CapKeep,     \* lines it keeps (10 MB)
    MaxLines,    \* BOUND: lines of a key
    MaxOutside,  \* BOUND: lines of the foreign writer
    MaxStarts,   \* BOUND: starts of a key
    MaxEdits,    \* BOUND: edits of the toml, adds and removes
    MaxFaults,   \* BOUND: deaths of the daemon and failing system calls
    MaxGCs       \* BOUND: runs of gc

ASSUME SizeAssumption ==
    /\ MaxSize \in Nat \ {0} /\ MaxFiles \in Nat \ {0}
    /\ CapKeep \in Nat \ {0} /\ CapSize \in Nat /\ CapKeep < CapSize
ASSUME BrokenAssumption == \A S \in SUBSET Keys : Broken # S
ASSUME ForeignAssumption == NoForeign \notin Seq(Nat)
ASSUME BoundAssumption ==
    {MaxLines, MaxOutside, MaxStarts, MaxEdits, MaxFaults, MaxGCs} \subseteq Nat

VARIABLES
    registered,  \* is the project in the registry
    toml,        \* the processes its app-nanny.toml declares, or Broken
    files,       \* the lines of every file there has been
    dir,         \* the file a name refers to; 0 if none
    writer,      \* the RotatingFile of a key: is it in use, its fields, and
                 \* where its Write is
    gc,          \* the running gc
    foreign,     \* logs/<project>/<file>: its lines, or NoForeign
    outside,     \* lines the foreign writer has written
    used,        \* how much of each bound is used up
    written,     \* history: lines of a key that reached a file
    collected,   \* history: keys gc has removed a file of
    steady,      \* history: keys declared and registered ever since gc began
    hurt,        \* history: keys with a failed or interrupted rotation
    safe         \* history: lines that must be in the foreign file

vars == <<registered, toml, files, dir, writer, gc, foreign, outside, used,
          written, collected, steady, hurt, safe>>

Numbers == 0..MaxFiles                     \* path, path.1, path.2, ...
Names == Keys \X Numbers
Marker == 0                                \* "nanny gc: trimmed ..."

Off == [on |-> FALSE, file |-> 0, size |-> 0, pc |-> "ready", i |-> 0]
Writers == [on : BOOLEAN, file : Nat, size : Nat,
            pc : {"ready", "shift", "open"}, i : Numbers]

NoGC == [pc |-> "idle", known |-> FALSE, names |-> {}, dir |-> FALSE,
         valid |-> {}, tail |-> <<>>]
GCs == [pc : {"idle", "list", "valid", "remove", "cap", "truncate", "marker",
              "tail"},
        known : BOOLEAN, names : SUBSET Names, dir : BOOLEAN,
        valid : SUBSET Names, tail : Seq(1..MaxOutside)]

TypeOK ==
    /\ registered \in BOOLEAN
    /\ toml = Broken \/ toml \in SUBSET Keys
    /\ files \in Seq(Seq(1..MaxLines))
    /\ dir \in [Keys -> [Numbers -> 0..Len(files)]]
    /\ writer \in [Keys -> Writers]
    /\ gc \in GCs
    /\ foreign = NoForeign \/ foreign \in Seq(0..MaxOutside)
    /\ outside \in 0..MaxOutside
    /\ used \in [starts : [Keys -> 0..MaxStarts], edits : 0..MaxEdits,
                 faults : 0..MaxFaults, gcs : 0..MaxGCs]
    /\ written \in [Keys -> 0..MaxLines]
    /\ collected \subseteq Keys /\ steady \subseteq Keys /\ hurt \subseteq Keys
    /\ safe \subseteq 1..MaxOutside

Init ==
    /\ registered = TRUE /\ toml = Keys
    /\ files = <<>> /\ dir = [k \in Keys |-> [i \in Numbers |-> 0]]
    /\ writer = [k \in Keys |-> Off]
    /\ gc = NoGC /\ foreign = <<>> /\ outside = 0
    /\ used = [starts |-> [k \in Keys |-> 0], edits |-> 0, faults |-> 0, gcs |-> 0]
    /\ written = [k \in Keys |-> 0]
    /\ collected = {} /\ steady = {} /\ hurt = {} /\ safe = {}

world == <<registered, toml>>
flat == <<files, dir, writer, written, hurt>>
cut == <<foreign, outside, safe>>
Fault == used.faults < MaxFaults /\ used' = [used EXCEPT !.faults = @ + 1]

-----------------------------------------------------------------------------
(* The project and its toml. *)
Edit ==
    /\ used.edits < MaxEdits /\ used' = [used EXCEPT !.edits = @ + 1]
    /\ \/ \E t \in {Broken} \cup (SUBSET Keys) :
             t # toml /\ toml' = t /\ UNCHANGED registered
       \/ /\ registered /\ \A k \in Keys : ~writer[k].on
          /\ registered' = FALSE /\ UNCHANGED toml
       \/ /\ ~registered /\ toml # Broken
          /\ registered' = TRUE /\ UNCHANGED toml
    /\ steady' = IF registered' THEN steady \cap (IF toml' = Broken THEN {} ELSE toml')
                                ELSE {}
    /\ UNCHANGED <<flat, gc, cut, collected>>

-----------------------------------------------------------------------------
(* openAppend: the file the path names, or a new one. *)
Open(k) ==
    IF dir[k][0] # 0
    THEN UNCHANGED <<files, dir>>
    ELSE /\ files' = Append(files, <<>>)
         /\ dir' = [dir EXCEPT ![k][0] = Len(files')]

Opened(file, size) ==
    [on |-> TRUE, file |-> file, size |-> size, pc |-> "ready", i |-> 0]

(* startProcesses: without a file the process runs all the same, unlogged. *)
Start(k) ==
    /\ registered /\ toml # Broken /\ k \in toml /\ ~writer[k].on
    /\ used.starts[k] < MaxStarts
    /\ \/ /\ Open(k)
          /\ used' = [used EXCEPT !.starts[k] = @ + 1]
          /\ writer' = [writer EXCEPT ![k] =
                           Opened(dir'[k][0], Len(files'[dir'[k][0]]))]
       \/ /\ used.faults < MaxFaults
          /\ used' = [used EXCEPT !.starts[k] = @ + 1, !.faults = @ + 1]
          /\ writer' = [writer EXCEPT ![k] = Opened(0, 0)]
          /\ UNCHANGED <<files, dir>>
    /\ UNCHANGED <<world, gc, cut, written, collected, steady, hurt>>

Stop(k) ==
    /\ writer[k].on /\ writer[k].pc = "ready"
    /\ writer' = [writer EXCEPT ![k] = Off]
    /\ UNCHANGED <<world, files, dir, gc, cut, used, written, collected, steady, hurt>>

Put(k, ino) ==
    /\ written' = [written EXCEPT ![k] = @ + 1]
    /\ files' = [files EXCEPT ![ino] = Append(@, written[k] + 1)]

(* Mutant: Write compares the size before the line, not with it. *)
FitsBefore(k) == writer[k].size <= MaxSize

Fits(k) == writer[k].size + 1 <= MaxSize

CanWrite(k) == /\ writer[k].on /\ writer[k].file # 0
               /\ writer[k].pc = "ready" /\ written[k] < MaxLines

Write(k) ==
    /\ CanWrite(k) /\ Fits(k)
    /\ Put(k, writer[k].file)
    /\ writer' = [writer EXCEPT ![k].size = @ + 1]
    /\ UNCHANGED <<world, dir, gc, cut, used, collected, steady, hurt>>

(* Write calls rotate, which closes the file and shifts the backups. *)
Rotate(k) ==
    /\ CanWrite(k) /\ ~Fits(k)
    /\ writer' = [writer EXCEPT ![k].pc = "shift", ![k].i = MaxFiles - 1]
    /\ UNCHANGED <<world, files, dir, gc, cut, used, written, collected, steady, hurt>>

(* Mutant: the backups are shifted from the first to the last. *)
ShiftUpwards(k) ==
    LET i == MaxFiles - 1 - writer[k].i
    IN  /\ writer[k].pc = "shift"
        /\ dir' = IF dir[k][i] # 0
                  THEN [dir EXCEPT ![k][i+1] = dir[k][i], ![k][i] = 0]
                  ELSE [dir EXCEPT ![k][i+1] = 0]
        /\ writer' = [writer EXCEPT ![k].pc = IF writer[k].i = 0 THEN "open" ELSE "shift",
                                    ![k].i = IF @ = 0 THEN 0 ELSE @ - 1]
        /\ UNCHANGED <<world, files, gc, cut, used, written, collected, steady, hurt>>

(* Remove(path.(i+1)), Rename(path.i, path.(i+1)); the current file is the *)
(* last, and nothing is removed for it.  A missing source is ignored.      *)
Shift(k) ==
    LET i == writer[k].i
    IN  /\ writer[k].pc = "shift"
        /\ dir' = IF dir[k][i] # 0
                  THEN [dir EXCEPT ![k][i+1] = dir[k][i], ![k][i] = 0]
                  ELSE IF i > 0 THEN [dir EXCEPT ![k][i+1] = 0] ELSE dir
        /\ writer' = [writer EXCEPT ![k].pc = IF i = 0 THEN "open" ELSE "shift",
                                    ![k].i = IF i = 0 THEN 0 ELSE i - 1]
        /\ UNCHANGED <<world, files, gc, cut, used, written, collected, steady, hurt>>

(* The new file gets the line.  If it cannot be opened the line is lost    *)
(* and the size stays, so that the next line rotates again.                *)
Reopen(k) ==
    /\ writer[k].pc = "open"
    /\ LET ino == IF dir[k][0] # 0 THEN dir[k][0] ELSE Len(files) + 1
           old == IF dir[k][0] # 0 THEN files ELSE Append(files, <<>>)
       IN /\ dir' = [dir EXCEPT ![k][0] = ino]
          /\ files' = [old EXCEPT ![ino] = Append(@, written[k] + 1)]
          /\ written' = [written EXCEPT ![k] = @ + 1]
          /\ writer' = [writer EXCEPT ![k].pc = "ready", ![k].file = ino, ![k].size = 1]
    /\ UNCHANGED <<world, gc, cut, used, collected, steady, hurt>>

ReopenFails(k) ==
    /\ writer[k].pc = "open" /\ Fault
    /\ writer' = [writer EXCEPT ![k].pc = "ready"]
    /\ hurt' = hurt \cup {k}
    /\ UNCHANGED <<world, files, dir, gc, cut, written, collected, steady>>

-----------------------------------------------------------------------------
(* gc: the registry, the directory and the tomls are read one after the    *)
(* other.                                                                  *)
GCList ==
    /\ gc.pc = "idle"
    /\ used.gcs < MaxGCs /\ used' = [used EXCEPT !.gcs = @ + 1]
    /\ gc' = [NoGC EXCEPT !.pc = "list", !.known = registered]
    /\ steady' = IF registered /\ toml # Broken THEN toml ELSE {}
    /\ UNCHANGED <<world, flat, cut, collected>>

GCReadDir ==
    /\ gc.pc = "list"
    /\ gc' = [gc EXCEPT !.pc = "valid",
                        !.names = {n \in Names : dir[n[1]][n[2]] # 0},
                        !.dir = foreign # NoForeign]
    /\ UNCHANGED <<world, flat, cut, used, collected, steady>>

(* Mutant: the backups are not among the valid names. *)
ValidCurrent == IF gc.known /\ toml # Broken THEN toml \X {0} ELSE {}

(* validLogBasenames; with a broken toml it is the bare project name,      *)
(* which is no key.                                                        *)
ValidNames == IF gc.known /\ toml # Broken THEN toml \X Numbers ELSE {}

GCLoadTomls ==
    /\ gc.pc = "valid"
    /\ gc' = [gc EXCEPT !.pc = "remove", !.valid = ValidNames]
    /\ UNCHANGED <<world, flat, cut, used, collected, steady>>

(* A listed name that is not valid is removed, whatever file it names by   *)
(* now; one that is gone is skipped.                                       *)
GCRemove ==
    /\ gc.pc = "remove"
    /\ \E n \in gc.names \ gc.valid :
          /\ gc' = [gc EXCEPT !.names = @ \ {n}]
          /\ dir' = [dir EXCEPT ![n[1]][n[2]] = 0]
          /\ collected' = IF dir[n[1]][n[2]] # 0 THEN collected \cup {n[1]} ELSE collected
    /\ UNCHANGED <<world, files, writer, written, hurt, cut, used, steady>>

(* The project's directory goes with the project; otherwise its file is    *)
(* cut if it is too large.                                                 *)
GCDirectory ==
    /\ gc.pc = "remove" /\ gc.names \subseteq gc.valid
    /\ IF gc.dir /\ ~gc.known
       THEN /\ foreign' = NoForeign /\ gc' = NoGC /\ safe' = {}
       ELSE /\ gc' = IF gc.dir THEN [gc EXCEPT !.pc = "cap"] ELSE NoGC
            /\ UNCHANGED <<foreign, safe>>
    /\ UNCHANGED <<world, flat, outside, used, collected, steady>>

(* truncateKeepTail.  The cut falls into a line, which is dropped, so that *)
(* at least CapKeep - 1 whole lines are kept.                              *)
Tails == {SubSeq(foreign, Len(foreign) - n + 1, Len(foreign)) : n \in {CapKeep - 1, CapKeep}}

(* Mutant: what is kept is read from the start of the file. *)
KeepHead ==
    /\ gc.pc = "cap"
    /\ IF foreign = NoForeign \/ Len(foreign) <= CapSize
       THEN gc' = NoGC /\ UNCHANGED safe
       ELSE /\ gc' = [gc EXCEPT !.pc = "truncate",
                                !.tail = SubSeq(foreign, 1, CapKeep)]
            /\ safe' = safe \cap ToSet(SubSeq(foreign, Len(foreign) - CapKeep + 2,
                                              Len(foreign)))
    /\ UNCHANGED <<world, flat, foreign, outside, used, collected, steady>>

CapRead ==
    /\ gc.pc = "cap"
    /\ IF foreign = NoForeign \/ Len(foreign) <= CapSize
       THEN gc' = NoGC /\ UNCHANGED safe
       ELSE /\ \E tail \in Tails :
                  gc' = [gc EXCEPT !.pc = "truncate", !.tail = tail]
            /\ safe' = safe \cap ToSet(SubSeq(foreign, Len(foreign) - CapKeep + 2,
                                              Len(foreign)))
    /\ UNCHANGED <<world, flat, foreign, outside, used, collected, steady>>

CapTruncate ==
    /\ gc.pc = "truncate"
    /\ gc' = [gc EXCEPT !.pc = "marker"]
    /\ foreign' = <<>>
    /\ UNCHANGED <<world, flat, outside, used, collected, steady, safe>>

(* WriteAt overwrites what an append has put there meanwhile. *)
WriteAt(s, text, at) ==
    [i \in 1..(IF at + Len(text) > Len(s) THEN at + Len(text) ELSE Len(s)) |->
        IF i > at /\ i <= at + Len(text) THEN text[i - at] ELSE s[i]]

CapMarker ==
    /\ gc.pc = "marker"
    /\ gc' = [gc EXCEPT !.pc = "tail"]
    /\ foreign' = WriteAt(foreign, <<Marker>>, 0)
    /\ UNCHANGED <<world, flat, outside, used, collected, steady, safe>>

CapTail ==
    /\ gc.pc = "tail"
    /\ gc' = NoGC
    /\ foreign' = WriteAt(foreign, gc.tail, 1)
    /\ UNCHANGED <<world, flat, outside, used, collected, steady, safe>>

(* A call on the file fails, and gc returns. *)
CapFails ==
    /\ gc.pc \in {"truncate", "marker", "tail"} /\ Fault
    /\ gc' = NoGC
    /\ safe' = IF gc.pc = "truncate" THEN safe ELSE {}
    /\ UNCHANGED <<world, flat, foreign, outside, collected, steady>>

(* The foreign writer appends, O_APPEND, to the file it has open; after a  *)
(* RemoveAll that is nobody's file.                                        *)
Capping == gc.pc \in {"truncate", "marker", "tail"}

ForeignWrite ==
    /\ foreign # NoForeign /\ outside < MaxOutside
    /\ outside' = outside + 1
    /\ foreign' = Append(foreign, outside + 1)
    /\ safe' = IF Capping THEN safe ELSE safe \cup {outside + 1}
    /\ UNCHANGED <<world, flat, gc, used, collected, steady>>

(* The daemon dies, in the middle of a rotation or of gc. *)
Crash ==
    /\ Fault
    /\ writer' = [k \in Keys |-> Off]
    /\ gc' = NoGC
    /\ hurt' = hurt \cup {k \in Keys : writer[k].pc # "ready"}
    /\ safe' = IF gc.pc \in {"marker", "tail"} THEN {} ELSE safe
    /\ UNCHANGED <<world, files, dir, foreign, outside, written, collected, steady>>

-----------------------------------------------------------------------------
Collect == \/ GCList \/ GCReadDir \/ GCLoadTomls \/ GCRemove \/ GCDirectory
           \/ CapRead \/ CapTruncate \/ CapMarker \/ CapTail

Next ==
    \/ \E k \in Keys : \/ Start(k) \/ Stop(k) \/ Write(k) \/ Rotate(k)
                       \/ Shift(k) \/ Reopen(k) \/ ReopenFails(k)
    \/ Collect \/ CapFails \/ ForeignWrite
    \/ Edit \/ Crash

Spec == Init /\ [][Next]_vars

-----------------------------------------------------------------------------
Text(k, i) == IF dir[k][i] = 0 THEN <<>> ELSE files[dir[k][i]]

(* The lines of a key a reader can still find. *)
Readable(k) == UNION {ToSet(Text(k, i)) : i \in Numbers}

(* Rotation only ever loses the oldest lines: what is left, read from the  *)
(* last backup to the current file, is in order, has no line twice and no  *)
(* gap, and ends with the last line that was written, also in the middle   *)
(* of a rotation, after one that failed or was interrupted, and after a    *)
(* restart (rotator.go:55-73).                                             *)
OnlyOldestLost ==
    \A k \in Keys \ collected :
        /\ \A i, j \in Numbers : \A a \in DOMAIN Text(k, i), b \in DOMAIN Text(k, j) :
              i > j \/ (i = j /\ a < b) => Text(k, i)[a] < Text(k, j)[b]
        /\ \A n \in Readable(k) :
              n <= written[k] /\ n..written[k] \subseteq Readable(k)

(* No file grows beyond its limit, and unless a rotation failed or was     *)
(* interrupted as much is kept as the limits allow: while lines are lost,  *)
(* every backup is full and the current file is in use (rotator.go:10-11). *)
KeepsWhatFits ==
    \A k \in Keys :
        /\ \A i \in Numbers : Len(Text(k, i)) <= MaxSize
        /\ k \notin collected \cup hurt /\ writer[k].pc = "ready" =>
              \/ 1..written[k] \subseteq Readable(k)
              \/ /\ \A i \in 1..MaxFiles : Len(Text(k, i)) = MaxSize
                 /\ Text(k, 0) # <<>>

(* gc never removes a file of a process that stayed registered and         *)
(* declared since gc began (gc.go:66-86), whatever is added, started,      *)
(* rotated or edited meanwhile.                                            *)
GCSparesDeclared == [][(collected' \ collected) \cap steady = {}]_vars

(* Cutting a file on the same inode loses old lines, those appended during *)
(* the cut (gc.go:236-243), and everything if a call of it fails after the *)
(* truncation.  All other lines are there and in order, behind the marker  *)
(* if there is one, whatever the writer appends meanwhile.                 *)
CapKeepsTail ==
    foreign # NoForeign /\ gc.pc \notin {"marker", "tail"} =>
        /\ safe \subseteq ToSet(foreign)
        /\ \A i, j \in DOMAIN foreign : i < j => foreign[i] < foreign[j]

(* gc removes no log of a process that runs ("no owning registered         *)
(* project/process", gc.go:45-46).                                         *)
LiveLogKept ==
    \A k \in Keys :
        writer[k].on /\ writer[k].pc = "ready" /\ writer[k].file # 0
            /\ k \notin hurt =>
            writer[k].file = dir[k][0]
=============================================================================
