--------------------------- MODULE LogFilesProofs ---------------------------
(***************************************************************************)
(* Proofs about log files, for any keys, limits and bounds, and whatever   *)
(* happens between two steps of gc or of a rotation:                       *)
(*                                                                         *)
(* - gc spares the files of the processes that stay declared.  It reads    *)
(*   the registry, the directory and the tomls at different times, so the  *)
(*   invariant Sparing says for each of its phases why the names it will   *)
(*   hold valid cover the processes that have been steady since it began;  *)
(* - cutting a foreign file keeps its newest lines in order: the invariant *)
(*   Cut relates the file, the tail that was read and the lines that must  *)
(*   survive at every step of the cut;                                     *)
(* - rotation loses the oldest lines only, and none before the backups are *)
(*   full: the invariant Disk says, key by key, what its names, its files  *)
(*   and its writer have to do with each other in the middle of a rotation *)
(*   and after a failed one.                                               *)
(***************************************************************************)
EXTENDS LogFiles, SequenceTheorems, TLAPS

(* gc has its fields, and lists names of the keys only. *)
Shape ==
    /\ gc = [pc |-> gc.pc, known |-> gc.known, names |-> gc.names,
             dir |-> gc.dir, valid |-> gc.valid, tail |-> gc.tail]
    /\ gc.names \subseteq Names

(* What is steady is declared now. *)
Declared == steady # {} => registered /\ toml # Broken /\ steady \subseteq toml

(* A steady process belongs to a project gc has found in the registry, and *)
(* once the tomls are read all its names are valid.                        *)
Covered ==
    /\ gc.pc \in {"list", "valid"} => (steady # {} => gc.known)
    /\ gc.pc = "remove" => steady \X Numbers \subseteq gc.valid

Sparing == Shape /\ Declared /\ Covered

-----------------------------------------------------------------------------
LEMMA Initially == Init => Sparing
  BY DEF Init, Sparing, Shape, Declared, Covered, NoGC

(* Editing the toml, removing the project and adding it again only ever    *)
(* take processes out of steady.                                           *)
LEMMA EditKeeps ==
  ASSUME Sparing, Edit
  PROVE  Sparing'
<1>1. gc' = gc
  BY DEF Edit
<1>2. steady' \subseteq steady
      /\ (steady' # {} => registered' /\ toml' # Broken /\ steady' \subseteq toml')
  BY DEF Edit
<1>3. Declared'
  BY <1>2 DEF Declared
<1>4. Covered'
  BY <1>1, <1>2 DEF Sparing, Covered
<1>5. Shape'
  BY <1>1 DEF Sparing, Shape
<1>. QED
  BY <1>3, <1>4, <1>5 DEF Sparing

(* gc itself: each phase establishes what the next one needs.              *)
LEMMA CollectKeeps ==
  ASSUME Sparing, Collect
  PROVE  Sparing'
<1>1. CASE GCList
  <2>1. /\ gc' = [NoGC EXCEPT !.pc = "list", !.known = registered]
        /\ steady' = IF registered /\ toml # Broken THEN toml ELSE {}
        /\ UNCHANGED <<registered, toml>>
    BY <1>1 DEF GCList, world
  <2>2. Shape' /\ gc'.pc = "list" /\ gc'.known = registered
    BY <2>1 DEF Shape, NoGC
  <2>. QED
    BY <2>1, <2>2 DEF Sparing, Declared, Covered
<1>2. CASE GCReadDir
  <2>1. /\ gc.pc = "list"
        /\ gc' = [gc EXCEPT !.pc = "valid",
                            !.names = {n \in Names : dir[n[1]][n[2]] # 0},
                            !.dir = foreign # NoForeign]
        /\ UNCHANGED <<registered, toml, steady>>
    BY <1>2 DEF GCReadDir, world
  <2>2. gc'.pc = "valid" /\ gc'.known = gc.known /\ Shape'
    BY <2>1 DEF Sparing, Shape
  <2>. QED
    BY <2>1, <2>2 DEF Sparing, Declared, Covered
<1>3. CASE GCLoadTomls
  <2>1. /\ gc.pc = "valid"
        /\ gc' = [gc EXCEPT !.pc = "remove", !.valid = ValidNames]
        /\ UNCHANGED <<registered, toml, steady>>
    BY <1>3 DEF GCLoadTomls, world
  <2>2. gc'.pc = "remove" /\ gc'.valid = ValidNames /\ Shape'
    BY <2>1 DEF Sparing, Shape
  <2>3. steady \X Numbers \subseteq ValidNames
    BY <2>1 DEF Sparing, Declared, Covered, ValidNames
  <2>. QED
    BY <2>1, <2>2, <2>3 DEF Sparing, Declared, Covered
<1>4. CASE GCRemove
  <2>1. PICK n : gc' = [gc EXCEPT !.names = @ \ {n}]
    BY <1>4 DEF GCRemove
  <2>2. gc'.pc = gc.pc /\ gc'.known = gc.known /\ gc'.valid = gc.valid /\ Shape'
    BY <2>1 DEF Sparing, Shape
  <2>3. UNCHANGED <<registered, toml, steady>>
    BY <1>4 DEF GCRemove, world
  <2>. QED
    BY <2>2, <2>3 DEF Sparing, Declared, Covered
<1>5. CASE GCDirectory \/ CapRead \/ CapTruncate \/ CapMarker \/ CapTail
  <2>1. UNCHANGED <<registered, toml, steady>>
    BY <1>5 DEF GCDirectory, CapRead, CapTruncate, CapMarker, CapTail, world
  <2>2. \/ gc' = NoGC
        \/ \E tail : \E pc \in {"cap", "truncate", "marker", "tail"} :
              gc' = [gc EXCEPT !.pc = pc, !.tail = tail]
        \/ \E pc \in {"cap", "truncate", "marker", "tail"} :
              gc' = [gc EXCEPT !.pc = pc]
    BY <1>5 DEF GCDirectory, CapRead, CapTruncate, CapMarker, CapTail
  <2>3. Shape' /\ gc'.pc \notin {"list", "valid", "remove"}
    <3>1. CASE gc' = NoGC
      BY <3>1 DEF Shape, NoGC
    <3>2. ASSUME NEW pc \in {"cap", "truncate", "marker", "tail"}, NEW tail,
                 gc' = [gc EXCEPT !.pc = pc, !.tail = tail]
          PROVE  Shape' /\ gc'.pc = pc
      BY <3>2 DEF Sparing, Shape
    <3>3. ASSUME NEW pc \in {"cap", "truncate", "marker", "tail"},
                 gc' = [gc EXCEPT !.pc = pc]
          PROVE  Shape' /\ gc'.pc = pc
      BY <3>3 DEF Sparing, Shape
    <3>. QED
      BY <2>2, <3>1, <3>2, <3>3 DEF NoGC
  <2>. QED
    BY <2>1, <2>3 DEF Sparing, Declared, Covered
<1>. QED
  BY <1>1, <1>2, <1>3, <1>4, <1>5 DEF Collect

LEMMA Inductive == Sparing /\ [Next]_vars => Sparing'
<1>. SUFFICES ASSUME Sparing, [Next]_vars PROVE Sparing'
  OBVIOUS
<1>1. CASE UNCHANGED <<registered, toml, gc, steady>>
  BY <1>1 DEF Sparing, Shape, Declared, Covered
<1>2. ASSUME NEW k \in Keys,
             \/ Start(k) \/ Stop(k) \/ Write(k) \/ Rotate(k)
             \/ Shift(k) \/ Reopen(k) \/ ReopenFails(k)
      PROVE  Sparing'
  BY <1>1, <1>2
     DEF Start, Stop, Write, Rotate, Shift, Reopen, ReopenFails, world
<1>3. CASE ForeignWrite \/ UNCHANGED vars
  BY <1>1, <1>3 DEF ForeignWrite, vars, world
<1>4. CASE CapFails \/ Crash
  <2>1. gc' = NoGC /\ UNCHANGED <<registered, toml, steady>>
    BY <1>4 DEF CapFails, Crash, world
  <2>. QED
    BY <2>1 DEF Sparing, Shape, Declared, Covered, NoGC
<1>. QED
  BY <1>2, <1>3, <1>4, EditKeeps, CollectKeeps DEF Next

(* gc never removes a file of a process that stayed registered and         *)
(* declared since it began (internal/daemon/gc.go:66-86), whatever is      *)
(* added, started, rotated or edited meanwhile.                            *)
THEOREM SteadySpared == Spec => GCSparesDeclared
<1>1. Sparing /\ [Next]_vars => [(collected' \ collected) \cap steady = {}]_vars
  <2>. SUFFICES ASSUME Sparing, [Next]_vars
                PROVE  [(collected' \ collected) \cap steady = {}]_vars
    OBVIOUS
  <2>1. CASE collected' = collected
    BY <2>1
  <2>2. CASE GCRemove
    <3>1. PICK n \in gc.names \ gc.valid :
             collected' = IF dir[n[1]][n[2]] # 0 THEN collected \cup {n[1]} ELSE collected
      BY <2>2 DEF GCRemove
    <3>2. n \in Names /\ steady \X Numbers \subseteq gc.valid
      BY <2>2 DEF GCRemove, Sparing, Shape, Covered
    <3>3. n[1] \notin steady
      BY <3>2 DEF Names
    <3>. QED
      BY <3>1, <3>3
  <2>3. GCRemove \/ collected' = collected
    BY DEF Next, Collect, vars, Start, Stop, Write, Rotate, Shift, Reopen,
           ReopenFails, GCList, GCReadDir, GCLoadTomls, GCDirectory, CapRead,
           CapTruncate, CapMarker, CapTail, CapFails, ForeignWrite, Edit, Crash
  <2>. QED
    BY <2>1, <2>2, <2>3
<1>. QED
  BY <1>1, Initially, Inductive, PTL DEF Spec, GCSparesDeclared

-----------------------------------------------------------------------------
(* Cutting a foreign file.  The file is in order at every moment, with the *)
(* marker first if at all.                                                 *)
CutTypes ==
    /\ outside \in 0..MaxOutside
    /\ foreign # NoForeign => foreign \in Seq(0..MaxOutside)
    /\ gc.tail \in Seq(1..MaxOutside)
    /\ safe \subseteq 1..MaxOutside

Rising ==
    foreign # NoForeign =>
        /\ \A i \in 1..Len(foreign) : foreign[i] <= outside
        /\ \A i, j \in 1..Len(foreign) : i < j => foreign[i] < foreign[j]

(* The file is there while gc cuts it, without a marker while gc is about  *)
(* to write one, and with one when it is about to write the tail behind.   *)
Headed ==
    /\ Capping => foreign # NoForeign
    /\ gc.pc = "marker" => \A i \in 1..Len(foreign) : foreign[i] # Marker
    /\ gc.pc = "tail" => Len(foreign) > 0 /\ foreign[1] = Marker

(* The tail gc will write is in order, holds the lines that must survive,  *)
(* and once the file is cut is older than all that has reached it since.   *)
Older ==
    Capping =>
        /\ \A i \in 1..Len(gc.tail) : gc.tail[i] <= outside
        /\ \A i, j \in 1..Len(gc.tail) : i < j => gc.tail[i] < gc.tail[j]
        /\ \A l \in safe : \E i \in 1..Len(gc.tail) : gc.tail[i] = l
        /\ gc.pc # "truncate" =>
              \A i \in 1..Len(foreign), j \in 1..Len(gc.tail) :
                 foreign[i] # Marker => gc.tail[j] < foreign[i]

Saved ==
    foreign # NoForeign /\ gc.pc \notin {"marker", "tail"} =>
        \A l \in safe : \E i \in 1..Len(foreign) : foreign[i] = l

Cut == CutTypes /\ Rising /\ Headed /\ Older /\ Saved

LEMMA CutInitially == Init => Cut
  BY BoundAssumption
     DEF Init, Cut, CutTypes, Rising, Headed, Older, Saved, Capping, NoGC

(* Steps that leave the file alone, and end a cut that may be running.     *)
LEMMA CutOver ==
  ASSUME Cut, UNCHANGED <<foreign, outside>>, ~Capping', gc'.tail \in Seq(1..MaxOutside),
         safe' = {} \/ (safe' = safe /\ gc.pc \notin {"marker", "tail"})
  PROVE  Cut'
<1>1. CutTypes'
  BY DEF Cut, CutTypes
<1>2. Rising'
  BY DEF Cut, Rising
<1>3. Headed' /\ Older'
  BY DEF Headed, Older, Capping
<1>4. Saved'
  BY DEF Cut, Saved
<1>. QED
  BY <1>1, <1>2, <1>3, <1>4 DEF Cut

LEMMA WriteAtDoes ==
  ASSUME NEW S, NEW s \in Seq(S), NEW text \in Seq(S), NEW at \in Nat, at <= Len(s)
  PROVE  LET all == WriteAt(s, text, at)
             n == IF at + Len(text) > Len(s) THEN at + Len(text) ELSE Len(s)
         IN  /\ all \in Seq(S)
             /\ Len(all) = n
             /\ \A i \in 1..n :
                   all[i] = IF i > at /\ i <= at + Len(text) THEN text[i - at] ELSE s[i]
<1>. DEFINE n == IF at + Len(text) > Len(s) THEN at + Len(text) ELSE Len(s)
            all == WriteAt(s, text, at)
<1>1. n \in Nat /\ n >= Len(s) /\ n >= at + Len(text) /\ (n > Len(s) => n = at + Len(text))
      /\ Len(s) \in Nat /\ Len(text) \in Nat
  OBVIOUS
<1>2. all = [i \in 1..n |-> IF i > at /\ i <= at + Len(text) THEN text[i - at] ELSE s[i]]
  BY DEF WriteAt
<1>. HIDE DEF n, all
<1>3. \A i \in 1..n :
        (IF i > at /\ i <= at + Len(text) THEN text[i - at] ELSE s[i]) \in S
  BY <1>1
<1>4. all \in [1..n -> S]
  BY <1>2, <1>3
<1>5. all \in Seq(S)
  BY <1>1, <1>4, SeqDef
<1>6. Len(all) = n
  BY <1>1, <1>4, <1>5
<1>. QED
  BY <1>2, <1>5, <1>6 DEF n, all

LEMMA CutKept ==
  ASSUME Cut, UNCHANGED <<foreign, outside, safe, gc>>
  PROVE  Cut'
  BY DEF Cut, CutTypes, Rising, Headed, Older, Saved, Capping

LEMMA CapReadKeeps ==
  ASSUME Sparing, Cut, CapRead
  PROVE  Cut'
<1>1. gc.pc = "cap" /\ UNCHANGED <<foreign, outside>>
  BY DEF CapRead
<1>2. CASE foreign = NoForeign \/ Len(foreign) <= CapSize
  <2>1. gc' = NoGC /\ safe' = safe
    BY <1>2 DEF CapRead
  <2>. QED
    BY <1>1, <2>1, CutOver, EmptySeq DEF NoGC, Capping
<1>3. CASE ~(foreign = NoForeign \/ Len(foreign) <= CapSize)
  <2>1. PICK n \in {CapKeep - 1, CapKeep} :
           gc' = [gc EXCEPT !.pc = "truncate",
                            !.tail = SubSeq(foreign, Len(foreign) - n + 1, Len(foreign))]
    <3>1. \E tail \in Tails : gc' = [gc EXCEPT !.pc = "truncate", !.tail = tail]
      BY <1>3, Zenon DEF CapRead
    <3>. QED
      BY <3>1, Zenon DEF Tails
  <2>. DEFINE m == Len(foreign) - n + 1
              t == SubSeq(foreign, m, Len(foreign))
  <2>2. gc'.pc = "truncate" /\ gc'.tail = t
    BY <2>1 DEF Sparing, Shape
  <2>3. foreign \in Seq(0..MaxOutside) /\ Len(foreign) \in Nat
    BY <1>3 DEF Cut, CutTypes
  <2>4. n \in Nat /\ m \in 2..(Len(foreign) + 1)
    BY <1>3, <2>3, SizeAssumption
  <2>5. \A i \in m..Len(foreign) : foreign[i] \in 1..MaxOutside
    <3>1. ASSUME NEW i \in m..Len(foreign) PROVE foreign[i] \in 1..MaxOutside
      <4>1. 1 \in 1..Len(foreign) /\ i \in 1..Len(foreign) /\ 1 < i
        BY <2>3, <2>4
      <4>2. foreign[1] \in 0..MaxOutside /\ foreign[i] \in 0..MaxOutside
        BY <2>3, <4>1, ElementOfSeq
      <4>3. foreign[1] < foreign[i]
        BY <1>3, <4>1 DEF Cut, Rising
      <4>. QED
        BY <4>2, <4>3, BoundAssumption
    <3>. QED
      BY <3>1
  <2>6. /\ t \in Seq(1..MaxOutside)
        /\ Len(t) = n
        /\ \A i \in 1..n : t[i] = foreign[m + i - 1]
    <3>1. m \in Int /\ Len(foreign) \in Int
      BY <2>3, <2>4
    <3>2. /\ t \in Seq(1..MaxOutside)
          /\ Len(t) = IF m <= Len(foreign) THEN Len(foreign) - m + 1 ELSE 0
          /\ \A i \in 1..(Len(foreign) - m + 1) : t[i] = foreign[m + i - 1]
      BY <2>5, <3>1, SubSeqProperties
    <3>3. Len(foreign) - m + 1 = n /\ (m > Len(foreign) => n = 0)
      BY <2>3, <2>4
    <3>. QED
      BY <2>3, <2>4, <3>2, <3>3
  <2>7. \A i \in 1..n : m + i - 1 \in 1..Len(foreign)
    BY <2>3, <2>4
  <2>8. \A l \in safe' : l \in safe /\ \E i \in 1..n : t[i] = l
    <3>1. safe' = safe \cap ToSet(SubSeq(foreign, Len(foreign) - CapKeep + 2, Len(foreign)))
      BY <1>3, Zenon DEF CapRead
    <3>. DEFINE p == Len(foreign) - CapKeep + 2
                u == SubSeq(foreign, p, Len(foreign))
    <3>2. p \in 2..(Len(foreign) + 1)
      BY <1>3, <2>3, SizeAssumption
    <3>3. /\ u \in Seq(0..MaxOutside)
          /\ Len(u) = Len(foreign) - p + 1
          /\ \A i \in 1..(Len(foreign) - p + 1) : u[i] = foreign[p + i - 1]
      <4>1. p \in Int /\ Len(foreign) \in Int /\ \A i \in p..Len(foreign) : foreign[i] \in 0..MaxOutside
        <5>1. \A i \in p..Len(foreign) : i \in 1..Len(foreign)
          BY <2>3, <3>2
        <5>2. \A i \in p..Len(foreign) : foreign[i] \in 0..MaxOutside
          BY <2>3, <5>1, ElementOfSeq
        <5>. QED
          BY <2>3, <3>2, <5>2
      <4>2. /\ u \in Seq(0..MaxOutside)
            /\ Len(u) = IF p <= Len(foreign) THEN Len(foreign) - p + 1 ELSE 0
            /\ \A i \in 1..(Len(foreign) - p + 1) : u[i] = foreign[p + i - 1]
        BY <4>1, SubSeqProperties
      <4>. QED
        BY <2>3, <3>2, <4>2
    <3>4. ASSUME NEW l \in safe' PROVE l \in safe /\ \E i \in 1..n : t[i] = l
      <4>1. l \in safe /\ l \in ToSet(u)
        BY <3>1
      <4>2. PICK j \in 1..Len(u) : u[j] = l
        BY <3>3, <4>1 DEF ToSet
      <4>3. j \in 1..(Len(foreign) - p + 1) /\ foreign[p + j - 1] = l
        BY <3>3, <4>2
      <4>4. p + j - m \in 1..n /\ m + (p + j - m) - 1 = p + j - 1
        BY <2>3, <2>4, <3>2, <4>3, SizeAssumption
      <4>5. t[p + j - m] = l
        BY <2>6, <4>3, <4>4
      <4>. QED
        BY <4>1, <4>4, <4>5
    <3>. QED
      BY <3>4
  <2>. HIDE DEF t, m
  <2>9. CutTypes'
    BY <1>1, <2>2, <2>6, <2>8 DEF Cut, CutTypes
  <2>10. Rising'
    BY <1>1 DEF Cut, Rising
  <2>11. Headed'
    BY <1>1, <1>3, <2>2 DEF Headed
  <2>12. Older'
    <3>1. \A i \in 1..n : t[i] <= outside
      BY <1>3, <2>6, <2>7 DEF Cut, Rising
    <3>2. ASSUME NEW i \in 1..n, NEW j \in 1..n, i < j PROVE t[i] < t[j]
      <4>1. m + i - 1 < m + j - 1
        BY <2>3, <2>4, <3>2 DEF m
      <4>. QED
        BY <1>3, <2>6, <2>7, <4>1 DEF Cut, Rising
    <3>. QED
      BY <1>1, <2>2, <2>6, <2>8, <3>1, <3>2 DEF Older
  <2>13. Saved'
    BY <1>1, <1>3, <2>8 DEF Cut, Saved
  <2>. QED
    BY <2>9, <2>10, <2>11, <2>12, <2>13 DEF Cut
<1>. QED
  BY <1>2, <1>3

LEMMA CapTruncateKeeps ==
  ASSUME Sparing, Cut, CapTruncate
  PROVE  Cut'
<1>1. /\ gc.pc = "truncate" /\ gc'.pc = "marker" /\ gc'.tail = gc.tail
      /\ foreign' = <<>> /\ UNCHANGED <<outside, safe>>
  BY DEF CapTruncate, Sparing, Shape
<1>2. Len(foreign') = 0 /\ foreign' \in Seq(0..MaxOutside) /\ foreign' # NoForeign
  BY <1>1, EmptySeq, ForeignAssumption
<1>3. CutTypes' /\ Rising' /\ Headed' /\ Saved'
  BY <1>1, <1>2 DEF Cut, CutTypes, Rising, Headed, Saved
<1>4. Older'
  BY <1>1, <1>2 DEF Cut, Older, Capping
<1>. QED
  BY <1>3, <1>4 DEF Cut

LEMMA ForeignIsSeq ==
  ASSUME NEW s \in Seq(0..MaxOutside)
  PROVE  s # NoForeign
  BY SeqMonotonic, ForeignAssumption, BoundAssumption

LEMMA CapMarkerKeeps ==
  ASSUME Sparing, Cut, CapMarker
  PROVE  Cut'
<1>1. /\ gc.pc = "marker" /\ gc'.pc = "tail" /\ gc'.tail = gc.tail
      /\ foreign' = WriteAt(foreign, <<Marker>>, 0)
      /\ UNCHANGED <<outside, safe>>
  BY DEF CapMarker, Sparing, Shape
<1>2. foreign # NoForeign /\ foreign \in Seq(0..MaxOutside) /\ outside \in 0..MaxOutside
  BY <1>1 DEF Cut, CutTypes, Headed, Capping
<1>3. /\ foreign' \in Seq(0..MaxOutside)
      /\ Len(foreign') \in Nat \ {0} /\ Len(foreign') >= Len(foreign)
      /\ Len(foreign') > Len(foreign) => Len(foreign') = 1
      /\ foreign'[1] = Marker
      /\ \A i \in 2..Len(foreign') : i \in 1..Len(foreign) /\ foreign'[i] = foreign[i]
  <2>. DEFINE n == IF 0 + Len(<<Marker>>) > Len(foreign) THEN 0 + Len(<<Marker>>) ELSE Len(foreign)
  <2>1. /\ <<Marker>> \in Seq(0..MaxOutside) /\ Len(<<Marker>>) = 1 /\ <<Marker>>[1] = Marker
        /\ 0 <= Len(foreign) /\ 0 \in Nat /\ Len(foreign) \in Nat
    BY <1>2, BoundAssumption DEF Marker
  <2>2. /\ foreign' \in Seq(0..MaxOutside) /\ Len(foreign') = n
        /\ \A i \in 1..n :
              foreign'[i] = IF i > 0 /\ i <= 0 + Len(<<Marker>>) THEN <<Marker>>[i - 0] ELSE foreign[i]
    BY <1>1, <1>2, <2>1, WriteAtDoes
  <2>. QED
    BY <2>1, <2>2
<1>4. foreign' # NoForeign
  BY <1>3, ForeignIsSeq
<1>5. \A i \in 1..Len(foreign') : foreign'[i] = Marker \/ (i \in 1..Len(foreign) /\ foreign'[i] = foreign[i])
  BY <1>3
<1>6. \A i \in 1..Len(foreign) : foreign[i] \in 1..MaxOutside
  <2>1. \A i \in 1..Len(foreign) : foreign[i] \in 0..MaxOutside
    BY <1>2, ElementOfSeq
  <2>. QED
    BY <1>1, <2>1 DEF Cut, Headed, Marker
<1>7. CutTypes' /\ Headed'
  BY <1>1, <1>3, <1>4 DEF Cut, CutTypes, Headed
<1>8. Rising'
  <2>1. \A i \in 1..Len(foreign') : foreign'[i] <= outside
    BY <1>2, <1>5 DEF Cut, Rising, Marker
  <2>2. ASSUME NEW i \in 1..Len(foreign'), NEW j \in 1..Len(foreign'), i < j
        PROVE  foreign'[i] < foreign'[j]
    <3>1. j \in 2..Len(foreign')
      BY <1>3, <2>2
    <3>2. j \in 1..Len(foreign) /\ foreign'[j] = foreign[j]
      BY <1>3, <3>1
    <3>3. CASE i = 1
      BY <1>3, <1>6, <3>2, <3>3 DEF Marker
    <3>4. CASE i # 1
      <4>1. i \in 2..Len(foreign')
        BY <1>3, <3>4
      <4>2. i \in 1..Len(foreign) /\ foreign'[i] = foreign[i]
        BY <1>3, <4>1
      <4>. QED
        BY <1>2, <2>2, <3>2, <4>2 DEF Cut, Rising
    <3>. QED
      BY <3>3, <3>4
  <2>. QED
    BY <1>1, <2>1, <2>2 DEF Rising
<1>9. Older'
  <2>1. \A i \in 1..Len(foreign'), j \in 1..Len(gc.tail) :
           foreign'[i] # Marker => gc.tail[j] < foreign'[i]
    BY <1>1, <1>5, <1>6 DEF Cut, Older, Capping, Marker
  <2>. QED
    BY <1>1, <2>1 DEF Cut, Older, Capping
<1>10. Saved'
  BY <1>1 DEF Saved
<1>. QED
  BY <1>7, <1>8, <1>9, <1>10 DEF Cut

LEMMA CapTailKeeps ==
  ASSUME Sparing, Cut, CapTail
  PROVE  Cut'
<1>1. /\ gc.pc = "tail" /\ gc' = NoGC
      /\ foreign' = WriteAt(foreign, gc.tail, 1)
      /\ UNCHANGED <<outside, safe>>
  BY DEF CapTail
<1>2. /\ foreign # NoForeign /\ foreign \in Seq(0..MaxOutside) /\ outside \in 0..MaxOutside
      /\ Len(foreign) \in Nat /\ Len(foreign) > 0 /\ foreign[1] = Marker
      /\ gc.tail \in Seq(1..MaxOutside) /\ Len(gc.tail) \in Nat
  BY <1>1 DEF Cut, CutTypes, Headed, Capping
<1>. DEFINE t == gc.tail
            n == IF 1 + Len(t) > Len(foreign) THEN 1 + Len(t) ELSE Len(foreign)
<1>3. /\ foreign' \in Seq(0..MaxOutside) /\ Len(foreign') = n
      /\ \A i \in 1..n :
            foreign'[i] = IF i > 1 /\ i <= 1 + Len(t) THEN t[i - 1] ELSE foreign[i]
  <2>1. t \in Seq(0..MaxOutside) /\ 1 \in Nat /\ 1 <= Len(foreign)
    BY <1>2, SeqMonotonic, BoundAssumption
  <2>. QED
    BY <1>1, <1>2, <2>1, WriteAtDoes
<1>4. foreign' # NoForeign
  BY <1>3, ForeignIsSeq
<1>5. n \in Nat /\ n >= Len(foreign) /\ n >= 1 + Len(t) /\ (n > 1 + Len(t) => n = Len(foreign))
  BY <1>2
<1>6. \A j \in 1..Len(t) : t[j] \in 1..MaxOutside
  BY <1>2, ElementOfSeq
<1>. HIDE DEF n
<1>7. CutTypes'
  BY <1>1, <1>3, EmptySeq DEF Cut, CutTypes, NoGC
<1>8. Headed' /\ Older'
  BY <1>1 DEF Headed, Older, Capping, NoGC
<1>9. Rising'
  <2>1. \A i \in 1..n :
           \/ i = 1 /\ foreign'[i] = Marker
           \/ i - 1 \in 1..Len(t) /\ foreign'[i] = t[i - 1]
           \/ i > 1 + Len(t) /\ i \in 1..Len(foreign) /\ foreign'[i] = foreign[i]
    <3>. TAKE i \in 1..n
    <3>1. foreign'[i] = IF i > 1 /\ i <= 1 + Len(t) THEN t[i - 1] ELSE foreign[i]
      BY <1>3
    <3>2. CASE i = 1
      BY <1>2, <3>1, <3>2
    <3>3. CASE i > 1 /\ i <= 1 + Len(t)
      BY <1>2, <3>1, <3>3
    <3>4. CASE i > 1 + Len(t)
      BY <1>2, <1>5, <3>1, <3>4
    <3>. QED
      BY <1>2, <1>5, <3>2, <3>3, <3>4
  <2>2. \A i \in 1..Len(foreign) : i > 1 => foreign[i] # Marker
    <3>1. ASSUME NEW i \in 1..Len(foreign), i > 1 PROVE foreign[i] # Marker
      BY <1>2, <3>1 DEF Cut, Rising, Marker
    <3>. QED
      BY <3>1
  <2>3. \A i \in 1..n : foreign'[i] <= outside
    BY <1>1, <1>2, <2>1 DEF Cut, Rising, Older, Capping, Marker
  <2>4. ASSUME NEW i \in 1..n, NEW j \in 1..n, i < j
        PROVE  foreign'[i] < foreign'[j]
    <3>1. \/ j - 1 \in 1..Len(t) /\ foreign'[j] = t[j - 1]
          \/ j > 1 + Len(t) /\ j \in 1..Len(foreign) /\ foreign'[j] = foreign[j]
      BY <2>1, <2>4
    <3>2. foreign'[j] \in Nat \ {0}
      <4>1. \A l \in 1..Len(foreign) : foreign[l] \in 0..MaxOutside
        BY <1>2, ElementOfSeq
      <4>2. \A l \in 1..Len(foreign) : l > 1 => foreign[l] \in Nat \ {0}
        BY <2>2, <4>1 DEF Marker
      <4>. QED
        BY <1>2, <1>6, <3>1, <4>2
    <3>3. CASE i = 1
      <4>1. foreign'[i] = Marker
        BY <1>2, <2>1, <3>3
      <4>. QED
        BY <3>2, <4>1 DEF Marker
    <3>4. CASE i - 1 \in 1..Len(t) /\ foreign'[i] = t[i - 1]
      <4>1. CASE j - 1 \in 1..Len(t) /\ foreign'[j] = t[j - 1]
        BY <1>1, <2>4, <3>4, <4>1 DEF Cut, Older, Capping
      <4>2. CASE j > 1 + Len(t) /\ j \in 1..Len(foreign) /\ foreign'[j] = foreign[j]
        BY <1>1, <1>2, <2>2, <3>4, <4>2 DEF Cut, Older, Capping
      <4>. QED
        BY <3>1, <4>1, <4>2
    <3>5. CASE i > 1 + Len(t) /\ i \in 1..Len(foreign) /\ foreign'[i] = foreign[i]
      BY <1>2, <2>4, <3>1, <3>5 DEF Cut, Rising
    <3>. QED
      BY <2>1, <3>3, <3>4, <3>5
  <2>. QED
    BY <1>1, <1>3, <2>3, <2>4 DEF Rising
<1>10. Saved'
  <2>1. ASSUME NEW l \in safe PROVE \E i \in 1..n : foreign'[i] = l
    <3>1. PICK j \in 1..Len(t) : t[j] = l
      BY <1>1 DEF Cut, Older, Capping
    <3>2. j + 1 \in 1..n /\ j + 1 > 1 /\ j + 1 <= 1 + Len(t) /\ (j + 1) - 1 = j
      BY <1>2, <1>5
    <3>3. foreign'[j + 1] = l
      BY <1>3, <3>1, <3>2
    <3>. QED
      BY <3>2, <3>3
  <2>. QED
    BY <1>1, <1>3, <2>1 DEF Saved
<1>. QED
  BY <1>7, <1>8, <1>9, <1>10 DEF Cut

LEMMA ForeignWriteKeeps ==
  ASSUME Cut, ForeignWrite
  PROVE  Cut'
<1>1. /\ foreign # NoForeign /\ outside < MaxOutside /\ outside' = outside + 1
      /\ foreign' = Append(foreign, outside + 1) /\ gc' = gc
      /\ safe' = IF Capping THEN safe ELSE safe \cup {outside + 1}
  BY DEF ForeignWrite
<1>2. /\ foreign \in Seq(0..MaxOutside) /\ outside \in 0..MaxOutside /\ Len(foreign) \in Nat
      /\ outside + 1 \in 1..MaxOutside
  BY <1>1, BoundAssumption DEF Cut, CutTypes
<1>. DEFINE n == Len(foreign) + 1
<1>3. /\ foreign' \in Seq(0..MaxOutside) /\ Len(foreign') = n /\ foreign'[n] = outside + 1
      /\ \A i \in 1..n : i # n => i \in 1..Len(foreign) /\ foreign'[i] = foreign[i]
      /\ \A i \in 1..Len(foreign) : i \in 1..n /\ foreign'[i] = foreign[i]
  BY <1>1, <1>2
<1>4. n \in 1..n
  BY <1>2
<1>5. foreign' # NoForeign
  BY <1>3, ForeignIsSeq
<1>6. \A i \in 1..Len(foreign) : foreign[i] \in 0..MaxOutside /\ foreign[i] <= outside
  BY <1>1, <1>2, ElementOfSeq DEF Cut, Rising
<1>. HIDE DEF n
<1>7. CutTypes'
  BY <1>1, <1>2, <1>3 DEF Cut, CutTypes
<1>8. Rising'
  <2>1. \A i \in 1..n : foreign'[i] <= outside + 1
    BY <1>2, <1>3, <1>6
  <2>2. ASSUME NEW i \in 1..n, NEW j \in 1..n, i < j
        PROVE  foreign'[i] < foreign'[j]
    <3>1. i # n
      BY <1>2, <2>2 DEF n
    <3>2. CASE j = n
      BY <1>2, <1>3, <1>6, <3>1, <3>2
    <3>3. CASE j # n
      BY <1>1, <1>3, <2>2, <3>1, <3>3 DEF Cut, Rising
    <3>. QED
      BY <3>2, <3>3
  <2>. QED
    BY <1>1, <1>3, <2>1, <2>2 DEF Rising
<1>9. Headed'
  <2>1. gc.pc = "marker" => \A i \in 1..n : foreign'[i] # Marker
    BY <1>2, <1>3 DEF Cut, Headed, Marker
  <2>2. gc.pc = "tail" => n > 0 /\ foreign'[1] = Marker
    BY <1>2, <1>3 DEF Cut, Headed, n
  <2>. QED
    BY <1>1, <1>3, <1>5, <2>1, <2>2 DEF Headed
<1>10. Older'
  <2>1. CASE ~Capping
    BY <1>1, <2>1 DEF Older, Capping
  <2>2. CASE Capping
    <3>1. \A i \in 1..Len(gc.tail) : gc.tail[i] \in 1..MaxOutside /\ gc.tail[i] <= outside
      BY <2>2, ElementOfSeq DEF Cut, Older, CutTypes
    <3>2. gc.pc # "truncate" =>
             \A i \in 1..n, j \in 1..Len(gc.tail) : foreign'[i] # Marker => gc.tail[j] < foreign'[i]
      BY <1>2, <1>3, <2>2, <3>1 DEF Cut, Older
    <3>3. \A i \in 1..Len(gc.tail) : gc.tail[i] <= outside + 1
      BY <1>2, <3>1
    <3>. QED
      BY <1>1, <1>3, <2>2, <3>2, <3>3 DEF Cut, Older
  <2>. QED
    BY <2>1, <2>2
<1>11. Saved'
  BY <1>1, <1>3, <1>4 DEF Cut, Saved, Capping
<1>. QED
  BY <1>7, <1>8, <1>9, <1>10, <1>11 DEF Cut

LEMMA CutInductive == Sparing /\ Cut /\ [Next]_vars => Cut'
<1>. SUFFICES ASSUME Sparing, Cut, [Next]_vars PROVE Cut'
  OBVIOUS
<1>1. CASE UNCHANGED <<foreign, outside, safe, gc>>
  BY <1>1, CutKept
<1>2. ASSUME NEW k \in Keys,
             \/ Start(k) \/ Stop(k) \/ Write(k) \/ Rotate(k)
             \/ Shift(k) \/ Reopen(k) \/ ReopenFails(k)
      PROVE  Cut'
  BY <1>1, <1>2
     DEF Start, Stop, Write, Rotate, Shift, Reopen, ReopenFails, cut
<1>3. CASE Edit \/ UNCHANGED vars
  BY <1>1, <1>3 DEF Edit, vars, cut
<1>4. CASE GCList \/ GCReadDir \/ GCLoadTomls \/ GCRemove
  <2>1. UNCHANGED <<foreign, outside, safe>> /\ gc.pc \in {"idle", "list", "valid", "remove"}
    BY <1>4 DEF GCList, GCReadDir, GCLoadTomls, GCRemove, cut
  <2>2. gc'.pc \in {"list", "valid", "remove"} /\ gc'.tail \in {gc.tail, <<>>}
    BY <1>4 DEF Sparing, Shape, GCList, GCReadDir, GCLoadTomls, GCRemove, NoGC
  <2>3. gc'.tail \in Seq(1..MaxOutside)
    BY <2>2, EmptySeq DEF Cut, CutTypes
  <2>. QED
    BY <2>1, <2>2, <2>3, CutOver DEF Capping
<1>5. CASE GCDirectory
  <2>1. /\ gc.pc = "remove" /\ outside' = outside
        /\ gc'.pc \in {"cap", "idle"} /\ gc'.tail \in Seq(1..MaxOutside)
    <3>1. gc' = NoGC \/ gc' = [gc EXCEPT !.pc = "cap"]
      BY <1>5 DEF GCDirectory
    <3>2. CASE gc' = NoGC
      BY <1>5, <3>2, EmptySeq DEF GCDirectory, NoGC
    <3>3. CASE gc' = [gc EXCEPT !.pc = "cap"]
      BY <1>5, <3>3 DEF GCDirectory, Sparing, Shape, Cut, CutTypes
    <3>. QED
      BY <3>1, <3>2, <3>3
  <2>2. \/ foreign' = NoForeign /\ safe' = {}
        \/ UNCHANGED <<foreign, safe>>
    BY <1>5 DEF GCDirectory
  <2>3. CASE foreign' = NoForeign /\ safe' = {}
    <3>1. ~Capping' /\ gc'.pc \notin {"marker", "tail"}
      BY <2>1 DEF Capping
    <3>. QED
      BY <2>1, <2>3, <3>1 DEF Cut, CutTypes, Rising, Headed, Older, Saved
  <2>4. CASE UNCHANGED <<foreign, safe>>
    BY <2>1, <2>4, CutOver DEF Capping
  <2>. QED
    BY <2>2, <2>3, <2>4
<1>6. CASE CapFails \/ Crash
  <2>1. /\ gc' = NoGC /\ UNCHANGED <<foreign, outside>>
        /\ safe' = {} \/ (safe' = safe /\ gc.pc \notin {"marker", "tail"})
    BY <1>6 DEF CapFails, Crash
  <2>. QED
    BY <2>1, CutOver, EmptySeq DEF Capping, NoGC
<1>. QED
  BY <1>2, <1>3, <1>4, <1>5, <1>6, CapReadKeeps, CapTruncateKeeps, CapMarkerKeeps,
     CapTailKeeps, ForeignWriteKeeps DEF Next, Collect

(* Cutting a foreign file loses only what it must: the lines that are safe *)
(* are there and all lines in order whenever no cut is running, for any    *)
(* limits and whatever the writer appends meanwhile (gc.go:244-293).       *)
THEOREM TailKept == Spec => []CapKeepsTail
<1>1. Sparing /\ Cut => CapKeepsTail
  BY DEF Cut, CutTypes, Rising, Saved, CapKeepsTail, ToSet
<1>. QED
  BY <1>1, Initially, Inductive, CutInitially, CutInductive, PTL DEF Spec

-----------------------------------------------------------------------------
(* Rotation.  What a reader finds of one key is a function T from the      *)
(* numbers of its files to their lines; the lines are a suffix of 1..w in  *)
(* order, from the last backup to the current file.                        *)
Texts(k) == [i \in Numbers |-> Text(k, i)]

Has(T, n) == \E i \in Numbers : \E a \in 1..Len(T[i]) : T[i][a] = n

InOrder(T) ==
    \A i, j \in Numbers : \A a \in 1..Len(T[i]), b \in 1..Len(T[j]) :
        i > j \/ (i = j /\ a < b) => T[i][a] < T[j][b]

Suffix(T, w) ==
    \A i \in Numbers : \A a \in 1..Len(T[i]) :
        T[i][a] <= w /\ \A m \in T[i][a]..w : Has(T, m)

Library == [Numbers -> Seq(Nat)]

LEMMA NumbersAre ==
  /\ MaxFiles \in Nat \ {0} /\ Numbers = 0..MaxFiles
  /\ 0 \in Numbers /\ 1 \in Numbers /\ MaxFiles \in Numbers
  BY SizeAssumption DEF Numbers

(* A line that is appended to the current file is the newest.              *)
LEMMA Appended ==
  ASSUME NEW T \in Library, NEW U \in Library, NEW w \in Nat,
         U[0] = Append(T[0], w + 1), \A i \in Numbers : i # 0 => U[i] = T[i],
         InOrder(T), Suffix(T, w)
  PROVE  /\ InOrder(U) /\ Suffix(U, w + 1)
         /\ Has(U, w + 1) /\ \A m : Has(T, m) => Has(U, m)
<1>1. T[0] \in Seq(Nat) /\ Len(T[0]) \in Nat
  BY NumbersAre DEF Library
<1>. DEFINE n == Len(T[0]) + 1
<1>2. /\ Len(U[0]) = n /\ n \in 1..n /\ U[0][n] = w + 1
      /\ \A a \in 1..n : a # n => a \in 1..Len(T[0]) /\ U[0][a] = T[0][a]
      /\ \A a \in 1..Len(T[0]) : a \in 1..n /\ a < n /\ U[0][a] = T[0][a]
  BY <1>1
<1>. HIDE DEF n
<1>3. ASSUME NEW i \in Numbers, NEW a \in 1..Len(U[i])
      PROVE  \/ i = 0 /\ a = n /\ U[i][a] = w + 1
             \/ a \in 1..Len(T[i]) /\ U[i][a] = T[i][a] /\ (i = 0 => a < n)
  BY <1>2
<1>4. ASSUME NEW i \in Numbers, NEW a \in 1..Len(T[i])
      PROVE  a \in 1..Len(U[i]) /\ U[i][a] = T[i][a] /\ T[i][a] \in Nat /\ T[i][a] <= w
  <2>1. T[i] \in Seq(Nat)
    BY DEF Library
  <2>2. T[i][a] \in Nat
    BY <2>1, ElementOfSeq
  <2>. QED
    BY <1>2, <2>2 DEF Suffix
<1>5. Has(U, w + 1) /\ \A m : Has(T, m) => Has(U, m)
  <2>1. Has(U, w + 1)
    BY <1>2, NumbersAre DEF Has
  <2>2. ASSUME NEW m, Has(T, m) PROVE Has(U, m)
    BY <1>4, <2>2 DEF Has
  <2>. QED
    BY <2>1, <2>2
<1>6. ASSUME NEW i \in Numbers, NEW j \in Numbers,
             NEW a \in 1..Len(U[i]), NEW b \in 1..Len(U[j]), i > j \/ (i = j /\ a < b)
      PROVE  U[i][a] < U[j][b]
  <2>1. CASE i = 0 /\ a = n
    <3>1. j = 0 /\ a < b
      BY <1>6, <2>1, NumbersAre
    <3>2. b \in 1..n
      BY <1>2, <3>1
    <3>. QED
      BY <1>1, <2>1, <3>1, <3>2 DEF n
  <2>2. CASE a \in 1..Len(T[i]) /\ U[i][a] = T[i][a]
    <3>1. CASE j = 0 /\ b = n /\ U[j][b] = w + 1
      BY <1>4, <2>2, <3>1
    <3>2. CASE b \in 1..Len(T[j]) /\ U[j][b] = T[j][b]
      BY <1>6, <2>2, <3>2 DEF InOrder
    <3>. QED
      BY <1>3, <3>1, <3>2
  <2>. QED
    BY <1>3, <2>1, <2>2
<1>7. ASSUME NEW i \in Numbers, NEW a \in 1..Len(U[i])
      PROVE  U[i][a] <= w + 1 /\ \A m \in U[i][a]..(w + 1) : Has(U, m)
  <2>1. CASE U[i][a] = w + 1
    <3>1. \A m \in (w + 1)..(w + 1) : m = w + 1
      OBVIOUS
    <3>. QED
      BY <1>5, <2>1, <3>1
  <2>2. CASE a \in 1..Len(T[i]) /\ U[i][a] = T[i][a]
    <3>1. T[i][a] \in Nat /\ T[i][a] <= w
      BY <1>4, <2>2
    <3>2. ASSUME NEW m \in U[i][a]..(w + 1) PROVE Has(U, m)
      <4>1. CASE m = w + 1
        BY <1>5, <4>1
      <4>2. CASE m # w + 1
        <5>1. m \in T[i][a]..w
          BY <2>2, <3>1, <4>2
        <5>. QED
          BY <1>5, <2>2, <5>1 DEF Suffix
      <4>. QED
        BY <4>1, <4>2
    <3>. QED
      BY <2>2, <3>1, <3>2
  <2>. QED
    BY <1>3, <2>1, <2>2
<1>. QED
  BY <1>5, <1>6, <1>7 DEF InOrder, Suffix

(* A file that is renamed to the next number takes the place of one that   *)
(* is not there, or of the oldest.                                         *)
LEMMA Shifted ==
  ASSUME NEW T \in Library, NEW U \in Library, NEW w \in Nat, NEW i \in 0..(MaxFiles - 1),
         U[i+1] = T[i], U[i] = <<>>,
         \A j \in Numbers : j # i /\ j # i + 1 => U[j] = T[j],
         T[i+1] = <<>> \/ i + 1 = MaxFiles,
         InOrder(T), Suffix(T, w)
  PROVE  /\ InOrder(U) /\ Suffix(U, w)
         /\ T[i+1] = <<>> => \A m : Has(T, m) => Has(U, m)
<1>1. i \in Numbers /\ i + 1 \in Numbers
  BY NumbersAre
<1>. DEFINE From(j) == IF j = i + 1 THEN i ELSE j
<1>2. ASSUME NEW j \in Numbers, NEW a \in 1..Len(U[j])
      PROVE  /\ From(j) \in Numbers /\ j # i
             /\ From(j) # i + 1
             /\ a \in 1..Len(T[From(j)]) /\ U[j][a] = T[From(j)][a]
  <2>1. j # i
    <3>1. Len(<<>>) = 0
      OBVIOUS
    <3>. QED
      BY <3>1
  <2>. QED
    BY <1>1, <2>1
<1>3. ASSUME NEW j \in Numbers, j # i + 1, NEW a \in 1..Len(T[j])
      PROVE  \E l \in Numbers : a \in 1..Len(U[l]) /\ U[l][a] = T[j][a]
  <2>1. CASE j = i
    BY <1>1, <2>1
  <2>2. CASE j # i
    BY <1>3, <2>2
  <2>. QED
    BY <2>1, <2>2
<1>4. ASSUME NEW j \in Numbers, NEW l \in Numbers,
             NEW a \in 1..Len(U[j]), NEW b \in 1..Len(U[l]), j > l \/ (j = l /\ a < b)
      PROVE  U[j][a] < U[l][b]
  <2>1. From(j) > From(l) \/ (From(j) = From(l) /\ a < b)
    BY <1>2, <1>4, NumbersAre
  <2>. HIDE DEF From
  <2>. QED
    BY <1>2, <2>1 DEF InOrder
<1>5. ASSUME NEW j \in Numbers, NEW a \in 1..Len(U[j])
      PROVE  U[j][a] <= w /\ \A m \in U[j][a]..w : Has(U, m)
  <2>. DEFINE p == From(j)
  <2>1. p \in Numbers /\ p # i + 1 /\ a \in 1..Len(T[p]) /\ U[j][a] = T[p][a]
    BY <1>2
  <2>. HIDE DEF p
  <2>2. T[p][a] <= w /\ \A m \in T[p][a]..w : Has(T, m)
    BY <2>1 DEF Suffix
  <2>3. T[p] \in Seq(Nat) /\ T[p][a] \in Nat
    BY <2>1, ElementOfSeq DEF Library
  <2>4. ASSUME NEW m \in T[p][a]..w PROVE Has(U, m)
    <3>0. PICK q \in Numbers : \E b \in 1..Len(T[q]) : T[q][b] = m
      BY <2>2 DEF Has
    <3>1. PICK b \in 1..Len(T[q]) : T[q][b] = m
      BY <3>0
    <3>2. q # i + 1
      <4>1. SUFFICES ASSUME q = i + 1 PROVE FALSE
        OBVIOUS
      <4>2. T[i+1] # <<>>
        <5>1. Len(<<>>) = 0
          OBVIOUS
        <5>. QED
          BY <3>1, <4>1, <5>1
      <4>3. q = MaxFiles /\ q > p
        BY <2>1, <4>1, <4>2, NumbersAre
      <4>4. T[q][b] < T[p][a]
        BY <2>1, <3>1, <4>3 DEF InOrder
      <4>. QED
        BY <2>3, <3>1, <4>4
    <3>. QED
      BY <1>3, <3>1, <3>2 DEF Has
  <2>. QED
    BY <2>1, <2>2, <2>4
<1>6. ASSUME T[i+1] = <<>>, NEW m, Has(T, m) PROVE Has(U, m)
  <2>1. PICK q \in Numbers : \E b \in 1..Len(T[q]) : T[q][b] = m
    BY <1>6 DEF Has
  <2>2. q # i + 1
    <3>1. 1..Len(<<>>) = {}
      OBVIOUS
    <3>. QED
      BY <1>6, <2>1, <3>1
  <2>. QED
    BY <1>3, <2>1, <2>2 DEF Has
<1>. QED
  BY <1>4, <1>5, <1>6 DEF InOrder, Suffix

-----------------------------------------------------------------------------
(* The files of a key: no two names of it, and no two keys, share one.     *)
Own(k) == {dir[k][i] : i \in Numbers} \cup {writer[k].file}

DiskTypes ==
    /\ files \in Seq(Seq(1..MaxLines))
    /\ dir \in [Keys -> [Numbers -> 0..Len(files)]]
    /\ writer \in [Keys -> Writers]
    /\ written \in [Keys -> 0..MaxLines]
    /\ \A k \in Keys : writer[k].file <= Len(files)
    /\ \A n \in 1..Len(files) : Len(files[n]) <= MaxSize

Apart ==
    /\ \A k \in Keys : \A i, j \in Numbers :
          dir[k][i] = dir[k][j] /\ dir[k][i] # 0 => i = j
    /\ \A k, l \in Keys : k # l => Own(k) \cap Own(l) \subseteq {0}

(* A rotation runs because the next line does not fit, and leaves a number *)
(* without a file, the next one to be taken.                               *)
Rotating(k) ==
    /\ writer[k].pc # "ready" =>
          writer[k].on /\ writer[k].file # 0 /\ ~Fits(k) /\ written[k] < MaxLines
    /\ writer[k].pc = "shift" =>
          /\ writer[k].i < MaxFiles
          /\ writer[k].i + 1 < MaxFiles => dir[k][writer[k].i + 1] = 0
    /\ writer[k].pc = "open" => dir[k][0] = 0

(* Where the writer counts on room its count is that of its file; and it   *)
(* writes to the current file, except after a failed rotation, when its    *)
(* count still says that there is no room.                                 *)
Sized(k) ==
    writer[k].file # 0 /\ Fits(k) => writer[k].size = Len(files[writer[k].file])

Following(k) ==
    /\ k \notin collected
    /\ writer[k].on /\ writer[k].file # 0 /\ writer[k].pc # "open"
    /\ Fits(k) \/ k \notin hurt
    => dir[k][0] = writer[k].file /\ writer[k].size = Len(files[writer[k].file])

Ordered(k) == k \notin collected => InOrder(Texts(k)) /\ Suffix(Texts(k), written[k])

(* The number a rotation has just emptied, if one runs.                    *)
Gap(k) == CASE writer[k].pc = "shift" -> writer[k].i + 1
            [] writer[k].pc = "open"  -> 0
            [] writer[k].pc = "ready" -> MaxFiles + 1

(* Unless a rotation failed, the backups are numbered without a gap but    *)
(* that one and full, and nothing is lost before the last is taken.        *)
Filled(k) ==
    k \notin collected \cup hurt =>
        /\ \A i, j \in Numbers : i < j /\ i # Gap(k) /\ dir[k][j] # 0 => dir[k][i] # 0
        /\ \A i \in 1..MaxFiles : dir[k][i] # 0 => Len(Text(k, i)) = MaxSize
        /\ dir[k][1] # 0 /\ writer[k].pc = "ready" => Len(Text(k, 0)) > 0
        /\ (\A n \in 1..written[k] : Has(Texts(k), n)) \/ dir[k][MaxFiles] # 0

KeyOK(k) == Rotating(k) /\ Sized(k) /\ Following(k) /\ Ordered(k) /\ Filled(k)

Disk == DiskTypes /\ Apart /\ \A k \in Keys : KeyOK(k)

LEMMA KeyTypes ==
  ASSUME DiskTypes, NEW k \in Keys
  PROVE  /\ Len(files) \in Nat
         /\ dir[k] \in [Numbers -> 0..Len(files)]
         /\ writer[k] \in Writers
         /\ writer[k].size \in Nat /\ writer[k].file \in 0..Len(files)
         /\ writer[k].pc \in {"ready", "shift", "open"} /\ writer[k].i \in Numbers
         /\ written[k] \in 0..MaxLines /\ written[k] \in Nat
         /\ \A i \in Numbers : dir[k][i] \in 0..Len(files)
         /\ \A i \in Numbers : dir[k][i] \in Own(k)
         /\ writer[k].file \in Own(k)
         /\ \A n \in 1..Len(files) : files[n] \in Seq(1..MaxLines) /\ Len(files[n]) \in Nat
  BY BoundAssumption, ElementOfSeq DEF DiskTypes, Writers, Own

LEMMA LinesAreNumbers ==
  ASSUME NEW s \in Seq(1..MaxLines)
  PROVE  s \in Seq(Nat)
  BY SeqMonotonic, BoundAssumption

LEMMA TextTypes ==
  ASSUME DiskTypes, NEW k \in Keys
  PROVE  /\ Texts(k) \in Library
         /\ \A i \in Numbers : Texts(k)[i] = Text(k, i)
         /\ \A i \in Numbers : Text(k, i) \in Seq(Nat)
         /\ \A i \in Numbers : Len(Text(k, i)) <= MaxSize
<1>1. ASSUME NEW i \in Numbers
      PROVE  Text(k, i) \in Seq(Nat) /\ Len(Text(k, i)) <= MaxSize
  <2>1. CASE dir[k][i] = 0
    BY <2>1, SizeAssumption, EmptySeq DEF Text
  <2>2. CASE dir[k][i] # 0
    <3>1. dir[k][i] \in 1..Len(files)
      BY <2>2, KeyTypes
    <3>. QED
      BY <2>2, <3>1, KeyTypes, LinesAreNumbers DEF Text, DiskTypes
  <2>. QED
    BY <2>1, <2>2
<1>. QED
  BY <1>1 DEF Texts, Library

(* A step that leaves the files of a key, its names and its writer alone   *)
(* leaves all of this alone.                                               *)
LEMMA Undisturbed ==
  ASSUME DiskTypes, NEW k \in Keys, KeyOK(k),
         dir'[k] = dir[k], writer'[k] = writer[k], written'[k] = written[k],
         \A n \in 1..Len(files) : n \in Own(k) => files'[n] = files[n],
         collected \subseteq collected', hurt \subseteq hurt'
  PROVE  KeyOK(k)'
<1>1. \A i \in Numbers : Text(k, i)' = Text(k, i)
  <2>1. ASSUME NEW i \in Numbers PROVE Text(k, i)' = Text(k, i)
    BY KeyTypes DEF Text
  <2>. QED
    BY <2>1
<1>2. Texts(k)' = Texts(k)
  BY <1>1 DEF Texts
<1>3. writer[k].file # 0 => files'[writer[k].file] = files[writer[k].file]
  BY KeyTypes
<1>4. Rotating(k)'
  BY DEF KeyOK, Rotating, Fits
<1>5. Sized(k)'
  BY <1>3 DEF KeyOK, Sized, Fits
<1>6. Following(k)'
  BY <1>3 DEF KeyOK, Following, Fits
<1>7. Ordered(k)'
  BY <1>2 DEF KeyOK, Ordered
<1>8. Filled(k)'
  <2>1. SUFFICES ASSUME k \notin collected \cup hurt PROVE Filled(k)'
    BY DEF Filled
  <2>2. Gap(k)' = Gap(k)
    BY DEF Gap
  <2>. QED
    BY <1>1, <1>2, <2>1, <2>2, NumbersAre DEF KeyOK, Filled
<1>. QED
  BY <1>4, <1>5, <1>6, <1>7, <1>8 DEF KeyOK

(* A writer that is replaced between two writes, with the names still      *)
(* giving the same texts.                                                  *)
LEMMA Replaced ==
  ASSUME DiskTypes, NEW k \in Keys, KeyOK(k),
         \A i \in Numbers : Text(k, i)' = Text(k, i),
         \A i \in Numbers : i # 0 => dir'[k][i] = dir[k][i],
         dir[k][0] # 0 => dir'[k][0] # 0,
         written'[k] = written[k], collected' = collected, hurt \subseteq hurt',
         writer[k].pc = "ready" \/ k \in hurt', writer'[k].pc = "ready",
         \/ writer'[k].file = 0
         \/ /\ writer'[k].file = dir'[k][0]
            /\ writer'[k].size = Len(files'[writer'[k].file])
  PROVE  KeyOK(k)'
<1>1. Texts(k)' = Texts(k)
  BY DEF Texts
<1>2. Rotating(k)' /\ Sized(k)' /\ Following(k)'
  BY DEF Rotating, Sized, Following
<1>3. Ordered(k)'
  BY <1>1 DEF KeyOK, Ordered
<1>4. Filled(k)'
  <2>1. SUFFICES ASSUME k \notin collected, k \notin hurt, writer[k].pc = "ready"
                 PROVE  Filled(k)'
    BY DEF Filled
  <2>2. Gap(k) = MaxFiles + 1 /\ Gap(k)' = MaxFiles + 1
    BY <2>1 DEF Gap
  <2>3. \A i, j \in Numbers : i < j /\ dir[k][j] # 0 => dir[k][i] # 0
    BY <2>1, <2>2, NumbersAre DEF KeyOK, Filled
  <2>4. \A i, j \in Numbers : i < j /\ dir'[k][j] # 0 => dir'[k][i] # 0
    BY <2>3, NumbersAre
  <2>. QED
    BY <1>1, <2>1, <2>4, NumbersAre DEF KeyOK, Filled
<1>. QED
  BY <1>2, <1>3, <1>4 DEF KeyOK

LEMMA StartKeeps ==
  ASSUME Disk, NEW k \in Keys, Start(k)
  PROVE  Disk'
<1>1. ~writer[k].on /\ UNCHANGED <<written, collected, hurt>>
  BY DEF Start
<1>2. writer[k].pc = "ready"
  BY <1>1 DEF Disk, KeyOK, Rotating
<1>3. CASE UNCHANGED <<files, dir>>
           /\ \E f, n \in Nat :
                 /\ writer' = [writer EXCEPT ![k] = Opened(f, n)]
                 /\ f = 0 \/ (f = dir[k][0] /\ n = Len(files[f]))
  <2>1. PICK f \in Nat, n \in Nat :
           /\ writer' = [writer EXCEPT ![k] = Opened(f, n)]
           /\ f = 0 \/ (f = dir[k][0] /\ n = Len(files[f]))
    BY <1>3
  <2>2. /\ writer'[k] = [on |-> TRUE, file |-> f, size |-> n, pc |-> "ready", i |-> 0]
        /\ \A l \in Keys : l # k => writer'[l] = writer[l]
    BY <2>1 DEF Disk, DiskTypes, Opened
  <2>3. \A l \in Keys, i \in Numbers : Text(l, i)' = Text(l, i)
    BY <1>3 DEF Text
  <2>4. KeyOK(k)'
    <3>1. /\ writer'[k].pc = "ready"
          /\ \/ writer'[k].file = 0
             \/ writer'[k].file = dir'[k][0] /\ writer'[k].size = Len(files'[writer'[k].file])
      BY <1>3, <2>1, <2>2
    <3>. QED
      BY <1>1, <1>2, <1>3, <2>3, <3>1, Replaced DEF Disk
  <2>5. \A l \in Keys : l # k => KeyOK(l)'
    BY <1>1, <1>3, <2>2, Undisturbed DEF Disk
  <2>6. DiskTypes'
    <3>1. f <= Len(files)
      BY <2>1, KeyTypes, NumbersAre DEF Disk
    <3>2. Opened(f, n) \in Writers
      BY <2>1, NumbersAre DEF Writers, Opened
    <3>3. writer' \in [Keys -> Writers]
      BY <2>1, <3>2 DEF Disk, DiskTypes
    <3>4. ASSUME NEW l \in Keys PROVE writer'[l].file <= Len(files)
      <4>1. writer[l].file <= Len(files)
        BY DEF Disk, DiskTypes
      <4>2. writer'[k].file = f
        BY <2>2
      <4>. QED
        BY <2>2, <3>1, <4>1, <4>2, Zenon
    <3>. QED
      BY <1>1, <1>3, <3>3, <3>4 DEF Disk, DiskTypes
  <2>7. Apart'
    <3>1. Own(k)' \subseteq Own(k) \cup {0}
      BY <1>3, <2>1, <2>2, NumbersAre DEF Own
    <3>2. \A l \in Keys : l # k => Own(l)' = Own(l)
      BY <1>3, <2>2 DEF Own
    <3>. QED
      BY <1>3, <3>1, <3>2 DEF Disk, Apart
  <2>. QED
    BY <2>4, <2>5, <2>6, <2>7 DEF Disk
<1>4. CASE /\ dir[k][0] = 0 /\ files' = Append(files, <<>>)
           /\ dir' = [dir EXCEPT ![k][0] = Len(files')]
           /\ writer' = [writer EXCEPT ![k] = Opened(dir'[k][0], Len(files'[dir'[k][0]]))]
  <2>. DEFINE m == Len(files) + 1
  <2>1. /\ Len(files) \in Nat /\ Len(files') = m /\ files'[m] = <<>> /\ Len(files'[m]) = 0
        /\ \A n \in 1..Len(files) : files'[n] = files[n]
        /\ files' \in Seq(Seq(1..MaxLines))
    BY <1>4, EmptySeq DEF Disk, DiskTypes
  <2>2. /\ dir'[k][0] = m
        /\ \A i \in Numbers : i # 0 => dir'[k][i] = dir[k][i]
        /\ \A l \in Keys : l # k => dir'[l] = dir[l]
        /\ dir' \in [Keys -> [Numbers -> 0..m]]
    BY <1>4, <2>1, NumbersAre DEF Disk, DiskTypes
  <2>3. /\ writer' = [writer EXCEPT ![k] = Opened(m, 0)]
        /\ writer'[k] = [on |-> TRUE, file |-> m, size |-> 0, pc |-> "ready", i |-> 0]
        /\ \A l \in Keys : l # k => writer'[l] = writer[l]
    <3>1. writer' = [writer EXCEPT ![k] = Opened(m, 0)]
      BY <1>4, <2>1, <2>2
    <3>. QED
      BY <3>1 DEF Disk, DiskTypes, Opened
  <2>. HIDE DEF m
  <2>4. \A i \in Numbers : Text(k, i)' = Text(k, i)
    <3>1. ASSUME NEW i \in Numbers, i # 0 PROVE Text(k, i)' = Text(k, i)
      BY <2>1, <2>2, <3>1, KeyTypes DEF Text, Disk
    <3>2. Text(k, 0)' = Text(k, 0)
      BY <1>4, <2>1, <2>2 DEF Text, m
    <3>. QED
      BY <3>1, <3>2
  <2>5. m \in Nat /\ m > Len(files) /\ m # 0
    BY <2>1 DEF m
  <2>6. KeyOK(k)'
    <3>1. /\ writer'[k].pc = "ready" /\ writer'[k].file = dir'[k][0]
          /\ writer'[k].size = Len(files'[writer'[k].file])
      BY <2>1, <2>2, <2>3
    <3>. QED
      BY <1>1, <1>2, <2>2, <2>4, <2>5, <3>1, Replaced DEF Disk
  <2>7. \A l \in Keys : l # k => KeyOK(l)'
    BY <1>1, <2>1, <2>2, <2>3, Undisturbed DEF Disk
  <2>8. DiskTypes'
    <3>1. Opened(m, 0) \in Writers
      BY <2>5, NumbersAre DEF Writers, Opened
    <3>2. writer' \in [Keys -> Writers]
      BY <2>3, <3>1 DEF Disk, DiskTypes
    <3>3. \A l \in Keys : writer'[l].file <= m
      BY <2>3, <2>5, KeyTypes DEF Disk
    <3>4. \A n \in 1..m : Len(files'[n]) <= MaxSize
      <4>1. \A n \in 1..m : n = m \/ n \in 1..Len(files)
        BY <2>1 DEF m
      <4>2. ASSUME NEW n \in 1..m, n = m PROVE Len(files'[n]) <= MaxSize
        BY <2>1, <4>2, SizeAssumption
      <4>3. ASSUME NEW n \in 1..Len(files) PROVE Len(files'[n]) <= MaxSize
        BY <2>1 DEF Disk, DiskTypes
      <4>. QED
        BY <4>1, <4>2, <4>3
    <3>. QED
      BY <1>1, <2>1, <2>2, <3>2, <3>3, <3>4 DEF Disk, DiskTypes
  <2>9. Apart'
    <3>1. Own(k)' \subseteq Own(k) \cup {m}
      BY <2>2, <2>3 DEF Own
    <3>2. \A l \in Keys : l # k => Own(l)' = Own(l)
      BY <2>2, <2>3 DEF Own
    <3>3. \A l \in Keys : m \notin Own(l)
      BY <2>5, KeyTypes DEF Disk, Own
    <3>4. \A l \in Keys, i \in Numbers : dir[l][i] # m
      BY <3>3 DEF Own
    <3>5. \A l \in Keys : \A i, j \in Numbers : dir'[l][i] = dir'[l][j] /\ dir'[l][i] # 0 => i = j
      BY <2>2, <3>4 DEF Disk, Apart
    <3>. QED
      BY <3>1, <3>2, <3>3, <3>5 DEF Disk, Apart
  <2>. QED
    BY <2>6, <2>7, <2>8, <2>9 DEF Disk
<1>5. CASE /\ writer' = [writer EXCEPT ![k] = Opened(0, 0)]
           /\ UNCHANGED <<files, dir>>
  BY <1>3, <1>5
<1>6. CASE /\ dir[k][0] # 0 /\ UNCHANGED <<files, dir>>
           /\ writer' = [writer EXCEPT ![k] = Opened(dir'[k][0], Len(files'[dir'[k][0]]))]
  <2>1. dir[k][0] \in 1..Len(files)
    BY <1>6, KeyTypes, NumbersAre DEF Disk
  <2>2. dir[k][0] \in Nat /\ Len(files[dir[k][0]]) \in Nat
    BY <2>1, KeyTypes DEF Disk
  <2>. QED
    BY <1>3, <1>6, <2>2
<1>7. \/ Open(k) /\ writer' = [writer EXCEPT ![k] = Opened(dir'[k][0], Len(files'[dir'[k][0]]))]
      \/ writer' = [writer EXCEPT ![k] = Opened(0, 0)] /\ UNCHANGED <<files, dir>>
  BY Zenon DEF Start
<1>. QED
  BY <1>4, <1>5, <1>6, <1>7 DEF Open

(* A step of a writer that leaves the disk alone.                          *)
LEMMA OnlyWriter ==
  ASSUME Disk, NEW k \in Keys, UNCHANGED <<files, dir, written, collected>>,
         hurt \subseteq hurt', NEW w \in Writers, writer' = [writer EXCEPT ![k] = w],
         w.file \in {0, writer[k].file}, KeyOK(k)'
  PROVE  Disk'
<1>1. writer'[k] = w /\ \A l \in Keys : l # k => writer'[l] = writer[l]
  BY DEF Disk, DiskTypes
<1>2. \A l \in Keys : l # k => KeyOK(l)'
  BY <1>1, Undisturbed DEF Disk
<1>3. DiskTypes'
  <2>1. writer' \in [Keys -> Writers]
    BY DEF Disk, DiskTypes
  <2>2. \A l \in Keys : writer'[l].file <= Len(files)
    BY <1>1, KeyTypes DEF Disk
  <2>. QED
    BY <2>1, <2>2 DEF Disk, DiskTypes
<1>4. Apart'
  <2>1. Own(k)' \subseteq Own(k) \cup {0}
    BY <1>1 DEF Own
  <2>2. \A l \in Keys : l # k => Own(l)' = Own(l)
    BY <1>1 DEF Own
  <2>. QED
    BY <2>1, <2>2 DEF Disk, Apart
<1>. QED
  BY <1>2, <1>3, <1>4 DEF Disk

LEMMA StopKeeps ==
  ASSUME Disk, NEW k \in Keys, Stop(k)
  PROVE  Disk'
<1>1. /\ writer[k].pc = "ready" /\ writer' = [writer EXCEPT ![k] = Off]
      /\ UNCHANGED <<files, dir, written, collected, hurt>>
  BY DEF Stop
<1>2. Off \in Writers /\ Off.file = 0 /\ Off.pc = "ready"
  BY NumbersAre DEF Off, Writers
<1>3. writer'[k] = Off
  BY <1>1 DEF Disk, DiskTypes
<1>4. \A i \in Numbers : Text(k, i)' = Text(k, i)
  BY <1>1 DEF Text
<1>5. KeyOK(k)'
  BY <1>1, <1>2, <1>3, <1>4, Replaced DEF Disk
<1>. QED
  BY <1>1, <1>2, <1>5, OnlyWriter

LEMMA CrashKeeps ==
  ASSUME Disk, Crash
  PROVE  Disk'
<1>1. /\ writer' = [k \in Keys |-> Off]
      /\ hurt' = hurt \cup {k \in Keys : writer[k].pc # "ready"}
      /\ UNCHANGED <<files, dir, written, collected>>
  BY DEF Crash
<1>2. Off \in Writers /\ Off.file = 0 /\ Off.pc = "ready"
  BY NumbersAre DEF Off, Writers
<1>3. ASSUME NEW k \in Keys PROVE KeyOK(k)'
  <2>1. writer'[k] = Off
    BY <1>1
  <2>2. \A i \in Numbers : Text(k, i)' = Text(k, i)
    BY <1>1 DEF Text
  <2>. QED
    BY <1>1, <1>2, <2>1, <2>2, Replaced DEF Disk
<1>4. DiskTypes'
  BY <1>1, <1>2 DEF Disk, DiskTypes
<1>5. Apart'
  <2>1. \A k \in Keys : Own(k)' \subseteq Own(k) \cup {0}
    BY <1>1, <1>2 DEF Own
  <2>. QED
    BY <1>1, <2>1 DEF Disk, Apart
<1>. QED
  BY <1>3, <1>4, <1>5 DEF Disk

LEMMA RotateKeeps ==
  ASSUME Disk, NEW k \in Keys, Rotate(k)
  PROVE  Disk'
<1>. DEFINE w == [writer[k] EXCEPT !.pc = "shift", !.i = MaxFiles - 1]
<1>1. /\ CanWrite(k) /\ ~Fits(k) /\ writer' = [writer EXCEPT ![k] = w]
      /\ UNCHANGED <<files, dir, written, collected, hurt>>
  BY DEF Rotate
<1>2. MaxFiles - 1 \in Numbers /\ MaxFiles - 1 + 1 = MaxFiles
  BY NumbersAre
<1>3. /\ w \in Writers /\ w.on = writer[k].on /\ w.file = writer[k].file
      /\ w.size = writer[k].size /\ w.pc = "shift" /\ w.i = MaxFiles - 1
  BY <1>2, KeyTypes DEF Disk, Writers
<1>. HIDE DEF w
<1>4. writer'[k] = w
  BY <1>1 DEF Disk, DiskTypes
<1>5. writer[k].on /\ writer[k].file # 0 /\ writer[k].pc = "ready" /\ written[k] < MaxLines
  BY <1>1 DEF CanWrite
<1>6. Fits(k)' = Fits(k) /\ \A i \in Numbers : Text(k, i)' = Text(k, i)
  BY <1>1, <1>3, <1>4 DEF Fits, Text
<1>7. Rotating(k)'
  <2>1. writer'[k].i < MaxFiles /\ ~(writer'[k].i + 1 < MaxFiles)
    BY <1>3, <1>4, NumbersAre
  <2>2. writer'[k].pc = "shift" /\ writer'[k].on /\ writer'[k].file # 0
    BY <1>3, <1>4, <1>5
  <2>. QED
    BY <1>1, <1>5, <1>6, <2>1, <2>2 DEF Rotating
<1>8. Sized(k)' /\ Following(k)'
  BY <1>1, <1>3, <1>4, <1>5, <1>6 DEF Disk, KeyOK, Sized, Following
<1>9. Ordered(k)' /\ Texts(k)' = Texts(k)
  BY <1>1, <1>6 DEF Disk, KeyOK, Ordered, Texts
<1>10. Filled(k)'
  <2>1. Gap(k) = MaxFiles + 1 /\ Gap(k)' = MaxFiles /\ writer'[k].pc # "ready"
    BY <1>2, <1>3, <1>4, <1>5 DEF Gap
  <2>2. \A i, j \in Numbers : i < j => i # MaxFiles /\ i # MaxFiles + 1
    BY NumbersAre
  <2>. QED
    BY <1>1, <1>6, <1>9, <2>1, <2>2, NumbersAre DEF Disk, KeyOK, Filled
<1>11. KeyOK(k)'
  BY <1>7, <1>8, <1>9, <1>10 DEF KeyOK
<1>. QED
  BY <1>1, <1>3, <1>11, OnlyWriter

LEMMA ReopenFailsKeeps ==
  ASSUME Disk, NEW k \in Keys, ReopenFails(k)
  PROVE  Disk'
<1>. DEFINE w == [writer[k] EXCEPT !.pc = "ready"]
<1>1. /\ writer[k].pc = "open" /\ writer' = [writer EXCEPT ![k] = w]
      /\ hurt' = hurt \cup {k} /\ UNCHANGED <<files, dir, written, collected>>
  BY DEF ReopenFails
<1>2. /\ w \in Writers /\ w.on = writer[k].on /\ w.file = writer[k].file
      /\ w.size = writer[k].size /\ w.pc = "ready"
  BY KeyTypes DEF Disk, Writers
<1>. HIDE DEF w
<1>3. writer'[k] = w
  BY <1>1 DEF Disk, DiskTypes
<1>4. ~Fits(k) /\ ~Fits(k)' /\ k \in hurt'
  BY <1>1, <1>2, <1>3 DEF Disk, KeyOK, Rotating, Fits
<1>5. Rotating(k)' /\ Sized(k)' /\ Following(k)' /\ Filled(k)'
  BY <1>2, <1>3, <1>4 DEF Rotating, Sized, Following, Filled
<1>6. Ordered(k)'
  <2>1. \A i \in Numbers : Text(k, i)' = Text(k, i)
    BY <1>1 DEF Text
  <2>. QED
    BY <1>1, <2>1 DEF Disk, KeyOK, Ordered, Texts
<1>. QED
  BY <1>1, <1>2, <1>5, <1>6, OnlyWriter DEF KeyOK

(* gc empties a name; the key is marked, and nothing but its rotation is   *)
(* asked of it any more.                                                   *)
LEMMA RemoveKeeps ==
  ASSUME Sparing, Disk, GCRemove
  PROVE  Disk'
<1>1. PICK n \in gc.names \ gc.valid :
         /\ dir' = [dir EXCEPT ![n[1]][n[2]] = 0]
         /\ collected' = IF dir[n[1]][n[2]] # 0 THEN collected \cup {n[1]} ELSE collected
  BY DEF GCRemove
<1>2. UNCHANGED <<files, writer, written, hurt>>
  BY DEF GCRemove
<1>3. n[1] \in Keys /\ n[2] \in Numbers
  BY <1>1 DEF Sparing, Shape, Names
<1>4. CASE dir[n[1]][n[2]] = 0
  <2>1. dir' = dir /\ collected' = collected
    BY <1>1, <1>3, <1>4 DEF Disk, DiskTypes
  <2>2. \A k \in Keys : KeyOK(k)'
    BY <1>2, <2>1, Undisturbed DEF Disk
  <2>. QED
    <3>1. DiskTypes'
      BY <1>2, <2>1 DEF Disk, DiskTypes
    <3>2. Apart'
      <4>1. \A k \in Keys : Own(k)' = Own(k)
        BY <1>2, <2>1 DEF Own
      <4>. QED
        BY <2>1, <4>1 DEF Disk, Apart
    <3>. QED
      BY <2>2, <3>1, <3>2 DEF Disk
<1>5. CASE dir[n[1]][n[2]] # 0
  <2>. DEFINE k == n[1]
  <2>1. /\ dir' \in [Keys -> [Numbers -> 0..Len(files)]]
        /\ \A i \in Numbers : dir'[k][i] = dir[k][i] \/ dir'[k][i] = 0
        /\ \A l \in Keys : l # k => dir'[l] = dir[l]
        /\ collected' = collected \cup {k}
    BY <1>1, <1>3, <1>5, KeyTypes DEF Disk, DiskTypes
  <2>2. KeyOK(k)'
    <3>1. k \in collected'
      BY <2>1
    <3>2. Rotating(k)' /\ Sized(k)'
      <4>1. writer[k].pc = "shift" /\ writer[k].i < MaxFiles => writer[k].i + 1 \in Numbers
        BY <1>3, KeyTypes, NumbersAre DEF Disk
      <4>. QED
        BY <1>2, <1>3, <2>1, <4>1, NumbersAre DEF Disk, KeyOK, Rotating, Sized, Fits
    <3>. QED
      BY <3>1, <3>2 DEF KeyOK, Following, Ordered, Filled
  <2>3. \A l \in Keys : l # k => KeyOK(l)'
    BY <1>2, <2>1, Undisturbed DEF Disk
  <2>4. DiskTypes'
    BY <1>2, <2>1 DEF Disk, DiskTypes
  <2>5. Apart'
    <3>1. \A l \in Keys, i \in Numbers : dir'[l][i] = dir[l][i] \/ dir'[l][i] = 0
      BY <2>1
    <3>2. \A l \in Keys : Own(l)' \subseteq Own(l) \cup {0}
      BY <1>2, <3>1 DEF Own
    <3>. QED
      BY <3>1, <3>2 DEF Disk, Apart
  <2>. QED
    BY <2>2, <2>3, <2>4, <2>5 DEF Disk
<1>. QED
  BY <1>4, <1>5

(* A line that fits goes to the current file, or, when gc has removed its  *)
(* name, to a file no reader finds.                                        *)
LEMMA WriteKeeps ==
  ASSUME Disk, NEW k \in Keys, Write(k)
  PROVE  Disk'
<1>. DEFINE f == writer[k].file
            w == [writer[k] EXCEPT !.size = writer[k].size + 1]
            line == written[k] + 1
<1>1. /\ CanWrite(k) /\ Fits(k) /\ writer' = [writer EXCEPT ![k] = w]
      /\ written' = [written EXCEPT ![k] = line]
      /\ files' = [files EXCEPT ![f] = Append(files[f], line)]
      /\ UNCHANGED <<dir, collected, hurt>>
  BY DEF Write, Put
<1>2. /\ writer[k].on /\ f \in 1..Len(files) /\ writer[k].pc = "ready" /\ line \in 1..MaxLines
      /\ writer[k].size \in Nat /\ writer[k].size + 1 <= MaxSize
      /\ Len(files) \in Nat /\ files[f] \in Seq(1..MaxLines) /\ written[k] \in Nat
  <2>1. writer[k].on /\ f # 0 /\ writer[k].pc = "ready" /\ written[k] < MaxLines
    BY <1>1 DEF CanWrite
  <2>2. Len(files) \in Nat /\ f \in 0..Len(files) /\ writer[k].size \in Nat
        /\ written[k] \in 0..MaxLines
    BY KeyTypes DEF Disk
  <2>3. f \in 1..Len(files) /\ line \in 1..MaxLines /\ written[k] \in Nat
    BY <2>1, <2>2, BoundAssumption
  <2>4. files[f] \in Seq(1..MaxLines)
    BY <2>3, KeyTypes DEF Disk
  <2>. QED
    BY <1>1, <2>1, <2>2, <2>3, <2>4 DEF Fits
<1>3. /\ w \in Writers /\ w.on = writer[k].on /\ w.file = f
      /\ w.size = writer[k].size + 1 /\ w.pc = "ready"
  <2>1. writer[k] \in Writers /\ writer[k].size + 1 \in Nat
    BY <1>2, KeyTypes DEF Disk
  <2>. QED
    BY <1>2, <2>1 DEF Writers
<1>. HIDE DEF w
<1>4. /\ writer'[k] = w /\ written'[k] = line
      /\ \A l \in Keys : l # k => writer'[l] = writer[l] /\ written'[l] = written[l]
  BY <1>1 DEF Disk, DiskTypes
<1>5. writer[k].size = Len(files[f])
  BY <1>1, <1>2 DEF Disk, KeyOK, Sized
<1>. DEFINE grown == Append(files[f], line)
<1>6. grown \in Seq(1..MaxLines) /\ Len(grown) = Len(files[f]) + 1 /\ Len(grown) <= MaxSize
      /\ Len(files[f]) \in Nat
  BY <1>2, <1>5
<1>. HIDE DEF grown
<1>7. /\ files' \in Seq(Seq(1..MaxLines)) /\ Len(files') = Len(files)
      /\ files'[f] = grown /\ \A n \in 1..Len(files) : n # f => files'[n] = files[n]
  <2>1. files \in Seq(Seq(1..MaxLines))
    BY DEF Disk, DiskTypes
  <2>2. files' = [files EXCEPT ![f] = grown]
    BY <1>1 DEF grown
  <2>. QED
    BY <1>2, <1>6, <2>1, <2>2, ExceptSeq
<1>8. \A l \in Keys : l # k => f \notin Own(l)
  <2>1. f \in Own(k) /\ f # 0
    BY <1>2 DEF Own
  <2>. QED
    BY <2>1 DEF Disk, Apart
<1>9. \A l \in Keys : l # k => KeyOK(l)'
  BY <1>1, <1>4, <1>7, <1>8, Undisturbed DEF Disk
<1>10. Rotating(k)' /\ Sized(k)'
  BY <1>2, <1>3, <1>4, <1>5, <1>6, <1>7 DEF Rotating, Sized
<1>11. k \notin collected =>
         /\ dir[k][0] = f
         /\ Text(k, 0)' = Append(Text(k, 0), line)
         /\ \A i \in Numbers : i # 0 => Text(k, i)' = Text(k, i)
  <2>. SUFFICES ASSUME k \notin collected
                PROVE  /\ dir[k][0] = f
                       /\ Text(k, 0)' = Append(Text(k, 0), line)
                       /\ \A i \in Numbers : i # 0 => Text(k, i)' = Text(k, i)
    OBVIOUS
  <2>1. dir[k][0] = f
    BY <1>1, <1>2 DEF Disk, KeyOK, Following
  <2>2. \A i \in Numbers : i # 0 => dir[k][i] # f
    BY <1>2, <2>1, NumbersAre DEF Disk, Apart
  <2>3. Text(k, 0)' = Append(Text(k, 0), line)
    BY <1>1, <1>2, <1>7, <2>1 DEF Text, grown
  <2>4. \A i \in Numbers : i # 0 => Text(k, i)' = Text(k, i)
    BY <1>1, <1>7, <2>2, KeyTypes DEF Text, Disk
  <2>. QED
    BY <2>1, <2>3, <2>4
<1>12. Following(k)'
  BY <1>1, <1>3, <1>4, <1>5, <1>6, <1>7, <1>11 DEF Following
<1>13. DiskTypes'
  <2>1. writer' \in [Keys -> Writers] /\ written' \in [Keys -> 0..MaxLines]
    BY <1>1, <1>2, <1>3 DEF Disk, DiskTypes
  <2>2. \A l \in Keys : writer'[l].file <= Len(files')
    BY <1>2, <1>3, <1>4, <1>7 DEF Disk, DiskTypes
  <2>3. \A n \in 1..Len(files') : Len(files'[n]) <= MaxSize
    BY <1>6, <1>7 DEF Disk, DiskTypes
  <2>. QED
    BY <1>1, <1>7, <2>1, <2>2, <2>3 DEF Disk, DiskTypes
<1>14. Apart'
  <2>1. \A l \in Keys : Own(l)' = Own(l)
    BY <1>1, <1>3, <1>4 DEF Own
  <2>. QED
    BY <1>1, <2>1 DEF Disk, Apart
<1>15. k \notin collected =>
         /\ InOrder(Texts(k)') /\ Suffix(Texts(k)', line)
         /\ Has(Texts(k)', line) /\ \A m : Has(Texts(k), m) => Has(Texts(k)', m)
  <2>. SUFFICES ASSUME k \notin collected
                PROVE  /\ InOrder(Texts(k)') /\ Suffix(Texts(k)', line)
                       /\ Has(Texts(k)', line) /\ \A m : Has(Texts(k), m) => Has(Texts(k)', m)
    OBVIOUS
  <2>1. /\ Texts(k) \in Library /\ Texts(k)' \in Library
        /\ \A i \in Numbers : Texts(k)[i] = Text(k, i) /\ Texts(k)'[i] = Text(k, i)'
    <3>1. Texts(k) \in Library /\ \A i \in Numbers : Texts(k)[i] = Text(k, i)
      BY TextTypes DEF Disk
    <3>2. \A i \in Numbers : Text(k, i) \in Seq(Nat)
      BY TextTypes DEF Disk
    <3>3. \A i \in Numbers : Text(k, i)' \in Seq(Nat)
      <4>1. Append(Text(k, 0), line) \in Seq(Nat)
        BY <1>2, <3>2, NumbersAre
      <4>. QED
        BY <1>11, <3>2, <4>1
    <3>. QED
      BY <3>1, <3>3 DEF Texts, Library
  <2>2. InOrder(Texts(k)) /\ Suffix(Texts(k), written[k])
    BY DEF Disk, KeyOK, Ordered
  <2>. QED
    <3>1. Texts(k)'[0] = Append(Texts(k)[0], line)
          /\ \A i \in Numbers : i # 0 => Texts(k)'[i] = Texts(k)[i]
      BY <1>11, <2>1, NumbersAre
    <3>. QED
      BY <1>2, <2>1, <2>2, <3>1, Appended
<1>16. Ordered(k)'
  BY <1>1, <1>4, <1>15 DEF Ordered
<1>17. Filled(k)'
  <2>. SUFFICES ASSUME k \notin collected, k \notin hurt PROVE Filled(k)'
    BY <1>1 DEF Filled
  <2>1. Gap(k)' = Gap(k)
    BY <1>2, <1>3, <1>4 DEF Gap
  <2>2. \A i \in 1..MaxFiles : i \in Numbers /\ Text(k, i)' = Text(k, i)
    BY <1>11, NumbersAre
  <2>3. Len(Text(k, 0)') > 0
    BY <1>6, <1>11, <1>2 DEF Text
  <2>4. (\A n \in 1..written[k] : Has(Texts(k), n)) => \A n \in 1..line : Has(Texts(k)', n)
    <3>1. \A n \in 1..line : n = line \/ n \in 1..written[k]
      BY <1>2
    <3>. QED
      BY <1>15, <3>1
  <2>. QED
    BY <1>1, <1>4, <2>1, <2>2, <2>3, <2>4 DEF Disk, KeyOK, Filled
<1>18. KeyOK(k)'
  BY <1>10, <1>12, <1>16, <1>17 DEF KeyOK
<1>. QED
  BY <1>9, <1>13, <1>14, <1>18 DEF Disk

(* A shift renames one file of the key to the next number, or removes what *)
(* was there, or, when there is no current file, does nothing.             *)
LEMMA ShiftDoes ==
  ASSUME DiskTypes, NEW k \in Keys, Shift(k), writer[k].i < MaxFiles
  PROVE  LET i == writer[k].i
         IN  /\ i \in 0..(MaxFiles - 1) /\ i \in Numbers /\ i + 1 \in Numbers
             /\ dir' \in [Keys -> [Numbers -> 0..Len(files)]]
             /\ \A l \in Keys : l # k => dir'[l] = dir[l]
             /\ \/ /\ dir'[k][i+1] = dir[k][i] /\ dir'[k][i] = 0
                   /\ \A j \in Numbers : j # i /\ j # i + 1 => dir'[k][j] = dir[k][j]
                \/ i = 0 /\ dir[k][0] = 0 /\ dir'[k] = dir[k]
<1>. DEFINE i == writer[k].i
<1>1. /\ i \in Numbers /\ dir[k] \in [Numbers -> 0..Len(files)]
      /\ dir \in [Keys -> [Numbers -> 0..Len(files)]] /\ Len(files) \in Nat
  BY KeyTypes DEF DiskTypes
<1>2. i \in 0..(MaxFiles - 1) /\ i + 1 \in Numbers /\ i # i + 1
  BY <1>1, NumbersAre
<1>3. dir' = IF dir[k][i] # 0
             THEN [dir EXCEPT ![k][i+1] = dir[k][i], ![k][i] = 0]
             ELSE IF i > 0 THEN [dir EXCEPT ![k][i+1] = 0] ELSE dir
  BY DEF Shift
<1>. HIDE DEF i
<1>4. CASE dir[k][i] # 0
  BY <1>1, <1>2, <1>3, <1>4 DEF i
<1>5. CASE dir[k][i] = 0 /\ i > 0
  BY <1>1, <1>2, <1>3, <1>5 DEF i
<1>6. CASE dir[k][i] = 0 /\ i = 0
  BY <1>1, <1>2, <1>3, <1>6 DEF i
<1>. QED
  BY <1>2, <1>4, <1>5, <1>6

LEMMA ShiftKeeps ==
  ASSUME Disk, NEW k \in Keys, Shift(k)
  PROVE  Disk'
<1>0. PICK i : i = writer[k].i
  OBVIOUS
<1>. DEFINE pc == IF i = 0 THEN "open" ELSE "shift"
            next == IF i = 0 THEN 0 ELSE i - 1
            w == [writer[k] EXCEPT !.pc = pc, !.i = next]
<1>1. /\ writer[k].pc = "shift" /\ writer' = [writer EXCEPT ![k] = w]
      /\ UNCHANGED <<files, written, collected, hurt>>
  BY <1>0 DEF Shift
<1>2. /\ writer[k].on /\ writer[k].file # 0 /\ ~Fits(k) /\ written[k] < MaxLines
      /\ i < MaxFiles /\ (i + 1 < MaxFiles => dir[k][i + 1] = 0)
  BY <1>0, <1>1 DEF Disk, KeyOK, Rotating
<1>3. /\ i \in 0..(MaxFiles - 1) /\ i \in Numbers /\ i + 1 \in Numbers
      /\ dir' \in [Keys -> [Numbers -> 0..Len(files)]]
      /\ \A l \in Keys : l # k => dir'[l] = dir[l]
      /\ \/ /\ dir'[k][i+1] = dir[k][i] /\ dir'[k][i] = 0
            /\ \A j \in Numbers : j # i /\ j # i + 1 => dir'[k][j] = dir[k][j]
         \/ i = 0 /\ dir[k][0] = 0 /\ dir'[k] = dir[k]
  BY <1>0, <1>2, ShiftDoes DEF Disk
<1>4. /\ w \in Writers /\ w.on = writer[k].on /\ w.file = writer[k].file
      /\ w.size = writer[k].size
      /\ \/ i = 0 /\ w.pc = "open" /\ w.i = 0
         \/ i > 0 /\ w.pc = "shift" /\ w.i = i - 1
  <2>1. next \in Numbers
    <3>1. i \in Nat /\ (i # 0 => i - 1 \in 0..MaxFiles)
      BY <1>3, NumbersAre
    <3>. QED
      BY <3>1, NumbersAre
  <2>2. pc \in {"shift", "open"}
    OBVIOUS
  <2>3. (i = 0 /\ pc = "open" /\ next = 0) \/ (i > 0 /\ pc = "shift" /\ next = i - 1)
    BY <1>3
  <2>4. writer[k] \in Writers
    BY KeyTypes DEF Disk
  <2>. HIDE DEF pc, next
  <2>5. w \in Writers
    BY <2>1, <2>2, <2>4 DEF Writers
  <2>6. /\ w.on = writer[k].on /\ w.file = writer[k].file /\ w.size = writer[k].size
        /\ w.pc = pc /\ w.i = next
    BY <2>4 DEF Writers
  <2>. QED
    BY <2>3, <2>5, <2>6
<1>. HIDE DEF w
<1>5. writer'[k] = w /\ \A l \in Keys : l # k => writer'[l] = writer[l]
  BY <1>1 DEF Disk, DiskTypes
<1>6. ~Fits(k)' /\ writer'[k].pc # "ready"
  BY <1>2, <1>4, <1>5 DEF Fits
<1>7. \A l \in Keys : l # k => KeyOK(l)'
  BY <1>1, <1>3, <1>5, Undisturbed DEF Disk
<1>8. Len(files) \in Nat /\ Len(files') = Len(files)
      /\ \A j \in Numbers : dir[k][j] \in 0..Len(files)
  BY <1>1, KeyTypes DEF Disk
<1>9. DiskTypes'
  <2>1. writer' \in [Keys -> Writers]
    BY <1>1, <1>4 DEF Disk, DiskTypes
  <2>2. \A l \in Keys : writer'[l].file <= Len(files)
    BY <1>4, <1>5 DEF Disk, DiskTypes
  <2>. QED
    BY <1>1, <1>3, <2>1, <2>2 DEF Disk, DiskTypes
<1>10. Apart'
  <2>1. \A j \in Numbers : dir'[k][j] \in Own(k) \cup {0}
    BY <1>3 DEF Own
  <2>2. Own(k)' \subseteq Own(k) \cup {0}
    BY <1>4, <1>5, <2>1 DEF Own
  <2>3. \A l \in Keys : l # k => Own(l)' = Own(l)
    BY <1>3, <1>5 DEF Own
  <2>4. \A a, b \in Numbers : dir'[k][a] = dir'[k][b] /\ dir'[k][a] # 0 => a = b
    BY <1>3 DEF Disk, Apart
  <2>. QED
    <3>1. \A l \in Keys : \A a, b \in Numbers :
             dir'[l][a] = dir'[l][b] /\ dir'[l][a] # 0 => a = b
      BY <1>3, <2>4 DEF Disk, Apart
    <3>2. \A l, n \in Keys : l # n => Own(l)' \cap Own(n)' \subseteq {0}
      BY <2>2, <2>3 DEF Disk, Apart
    <3>. QED
      BY <3>1, <3>2 DEF Apart
<1>11. dir'[k][i] = 0
  BY <1>3
<1>12. Rotating(k)'
  <2>1. writer'[k].pc = "shift" => writer'[k].i < MaxFiles /\ writer'[k].i + 1 = i
    BY <1>3, <1>4, <1>5, NumbersAre
  <2>2. writer'[k].pc = "open" => i = 0
    BY <1>4, <1>5
  <2>. QED
    BY <1>1, <1>2, <1>4, <1>5, <1>6, <1>11, <2>1, <2>2 DEF Rotating
<1>13. Sized(k)'
  BY <1>6 DEF Sized
<1>14. Following(k)'
  <2>1. i > 0 => dir'[k][0] = dir[k][0]
    BY <1>3, NumbersAre
  <2>. QED
    BY <1>1, <1>4, <1>5, <1>6, <2>1 DEF Disk, KeyOK, Following
<1>15. /\ Texts(k) \in Library
       /\ \A j \in Numbers : Texts(k)[j] = Text(k, j) /\ Text(k, j) \in Seq(Nat)
  BY TextTypes DEF Disk
<1>16. CASE i = 0 /\ dir[k][0] = 0 /\ dir'[k] = dir[k]
  <2>1. \A j \in Numbers : Text(k, j)' = Text(k, j)
    BY <1>1, <1>16 DEF Text
  <2>2. Ordered(k)'
    BY <1>1, <2>1 DEF Disk, KeyOK, Ordered, Texts
  <2>3. k \in collected \cup hurt
    BY <1>1, <1>2, <1>16 DEF Disk, KeyOK, Following
  <2>4. Filled(k)'
    BY <1>1, <2>3 DEF Filled
  <2>. QED
    BY <1>7, <1>9, <1>10, <1>12, <1>13, <1>14, <2>2, <2>4 DEF Disk, KeyOK
<1>17. CASE /\ dir'[k][i+1] = dir[k][i] /\ dir'[k][i] = 0
            /\ \A j \in Numbers : j # i /\ j # i + 1 => dir'[k][j] = dir[k][j]
  <2>1. /\ Text(k, i+1)' = Text(k, i) /\ Text(k, i)' = <<>>
        /\ \A j \in Numbers : j # i /\ j # i + 1 => Text(k, j)' = Text(k, j)
    BY <1>1, <1>17 DEF Text
  <2>2. Texts(k)' \in Library /\ \A j \in Numbers : Texts(k)'[j] = Text(k, j)'
    <3>1. \A j \in Numbers : Text(k, j)' \in Seq(Nat)
      BY <1>3, <1>15, <2>1, EmptySeq
    <3>. QED
      BY <3>1 DEF Texts, Library
  <2>3. Text(k, i+1) = <<>> \/ i + 1 = MaxFiles
    BY <1>2, <1>3, NumbersAre DEF Text
  <2>4. k \notin collected =>
          /\ InOrder(Texts(k)') /\ Suffix(Texts(k)', written[k])
          /\ Text(k, i+1) = <<>> => \A m : Has(Texts(k), m) => Has(Texts(k)', m)
    <3>. SUFFICES ASSUME k \notin collected
                  PROVE  /\ InOrder(Texts(k)') /\ Suffix(Texts(k)', written[k])
                         /\ Text(k, i+1) = <<>> => \A m : Has(Texts(k), m) => Has(Texts(k)', m)
      OBVIOUS
    <3>1. InOrder(Texts(k)) /\ Suffix(Texts(k), written[k]) /\ written[k] \in Nat
      BY KeyTypes DEF Disk, KeyOK, Ordered
    <3>2. /\ Texts(k)'[i+1] = Texts(k)[i] /\ Texts(k)'[i] = <<>>
          /\ \A j \in Numbers : j # i /\ j # i + 1 => Texts(k)'[j] = Texts(k)[j]
          /\ Texts(k)[i+1] = Text(k, i+1)
      BY <1>3, <1>15, <2>1, <2>2
    <3>. QED
      <4>1. PICK T, U : T = Texts(k) /\ U = Texts(k)'
        OBVIOUS
      <4>2. T \in Library /\ U \in Library /\ (T[i+1] = <<>> \/ i + 1 = MaxFiles)
        BY <1>15, <2>2, <2>3, <3>2, <4>1
      <4>3. /\ InOrder(T) /\ Suffix(T, written[k]) /\ U[i+1] = T[i] /\ U[i] = <<>>
            /\ \A j \in Numbers : j # i /\ j # i + 1 => U[j] = T[j]
        BY <3>1, <3>2, <4>1
      <4>4. /\ InOrder(U) /\ Suffix(U, written[k])
            /\ T[i+1] = <<>> => \A m : Has(T, m) => Has(U, m)
        BY <1>3, <3>1, <4>2, <4>3, Shifted
      <4>. QED
        BY <3>2, <4>1, <4>4
  <2>5. Ordered(k)'
    BY <1>1, <2>4 DEF Ordered
  <2>6. Filled(k)'
    <3>. SUFFICES ASSUME k \notin collected, k \notin hurt PROVE Filled(k)'
      BY <1>1 DEF Filled
    <3>1. Gap(k) = i + 1 /\ Gap(k)' = i
      <4>1. Gap(k) = i + 1
        BY <1>0, <1>1 DEF Gap
      <4>2. Gap(k)' = i
        BY <1>3, <1>4, <1>5 DEF Gap
      <4>. QED
        BY <4>1, <4>2
    <3>2. dir[k][0] # 0 /\ Len(Text(k, 0)) = MaxSize
      <4>1. i = 0 \/ i > 0
        BY <1>3
      <4>2. dir[k][0] = writer[k].file /\ writer[k].size = Len(files[writer[k].file])
        BY <1>1, <1>2 DEF Disk, KeyOK, Following
      <4>3. writer[k].file \in 1..Len(files) /\ writer[k].size \in Nat
        BY <1>2, KeyTypes DEF Disk
      <4>4. Len(files[writer[k].file]) <= MaxSize
        BY <4>3 DEF Disk, DiskTypes
      <4>5. ~(writer[k].size + 1 <= MaxSize)
        BY <1>2 DEF Fits
      <4>. QED
        BY <1>2, <4>2, <4>3, <4>4, <4>5, SizeAssumption DEF Text
    <3>3. \A a, b \in Numbers : a < b /\ a # i + 1 /\ dir[k][b] # 0 => dir[k][a] # 0
      BY <3>1 DEF Disk, KeyOK, Filled
    <3>4. ASSUME NEW a \in Numbers, NEW b \in Numbers, a < b, a # i, dir'[k][b] # 0
          PROVE  dir'[k][a] # 0
      <4>1. b # i
        BY <1>17, <3>4
      <4>2. CASE b = i + 1
        <5>1. a < i /\ dir[k][i] # 0
          BY <1>3, <1>17, <3>4, <4>2, NumbersAre
        <5>2. dir[k][a] # 0 /\ a # i + 1
          BY <1>3, <3>3, <5>1, NumbersAre
        <5>. QED
          BY <1>17, <3>4, <5>2
      <4>3. CASE b # i + 1
        <5>1. dir[k][b] # 0
          BY <1>17, <3>4, <4>1, <4>3
        <5>2. CASE a = i + 1
          <6>1. i < b /\ i # i + 1
            BY <1>3, <3>4, <5>2, NumbersAre
          <6>. QED
            BY <1>3, <1>17, <3>3, <5>1, <5>2, <6>1
        <5>3. CASE a # i + 1
          BY <1>17, <3>3, <3>4, <5>1, <5>3
        <5>. QED
          BY <5>2, <5>3
      <4>. QED
        BY <4>2, <4>3
    <3>5. ASSUME NEW j \in 1..MaxFiles, dir'[k][j] # 0 PROVE Len(Text(k, j)') = MaxSize
      <4>1. j \in Numbers /\ j # i
        BY <1>17, <3>5, NumbersAre
      <4>2. \A l \in 1..MaxFiles : dir[k][l] # 0 => Len(Text(k, l)) = MaxSize
        BY DEF Disk, KeyOK, Filled
      <4>3. CASE j = i + 1
        <5>1. CASE i = 0
          BY <2>1, <3>2, <4>3, <5>1
        <5>2. CASE i # 0
          <6>1. i \in 1..MaxFiles
            BY <1>3, <5>2, NumbersAre
          <6>. QED
            BY <1>17, <2>1, <3>5, <4>2, <4>3, <6>1
        <5>. QED
          BY <5>1, <5>2
      <4>4. CASE j # i + 1
        BY <1>17, <2>1, <3>5, <4>1, <4>2, <4>4
      <4>. QED
        BY <4>3, <4>4
    <3>6. (\A n \in 1..written[k] : Has(Texts(k)', n)) \/ dir'[k][MaxFiles] # 0
      <4>1. (\A n \in 1..written[k] : Has(Texts(k), n)) \/ dir[k][MaxFiles] # 0
        BY DEF Disk, KeyOK, Filled
      <4>2. CASE i + 1 = MaxFiles
        <5>1. CASE dir[k][i] # 0
          BY <1>17, <4>2, <5>1
        <5>2. CASE dir[k][i] = 0
          <6>1. dir[k][MaxFiles] = 0
            BY <1>3, <3>3, <4>2, <5>2, NumbersAre
          <6>2. Text(k, i+1) = <<>>
            BY <4>2, <6>1 DEF Text
          <6>. QED
            BY <2>4, <4>1, <6>1, <6>2
        <5>. QED
          BY <5>1, <5>2
      <4>3. CASE i + 1 # MaxFiles
        <5>1. Text(k, i+1) = <<>>
          BY <2>3, <4>3
        <5>2. MaxFiles \in Numbers /\ MaxFiles # i /\ MaxFiles # i + 1
          BY <1>3, <4>3, NumbersAre
        <5>. QED
          BY <1>17, <2>4, <4>1, <5>1, <5>2
      <4>. QED
        BY <4>2, <4>3
    <3>. QED
      BY <1>1, <1>6, <3>1, <3>4, <3>5, <3>6 DEF Filled
  <2>. QED
    BY <1>7, <1>9, <1>10, <1>12, <1>13, <1>14, <2>5, <2>6 DEF Disk, KeyOK
<1>. QED
  BY <1>3, <1>16, <1>17

(* The rotation ends with a new current file that has the line alone.      *)
LEMMA ReopenKeeps ==
  ASSUME Disk, NEW k \in Keys, Reopen(k)
  PROVE  Disk'
<1>. DEFINE m == Len(files) + 1
            line == written[k] + 1
            w == [writer[k] EXCEPT !.pc = "ready", !.file = m, !.size = 1]
<1>1. /\ writer[k].pc = "open" /\ UNCHANGED <<collected, hurt>>
      /\ writer[k].on /\ written[k] < MaxLines /\ dir[k][0] = 0
  BY DEF Reopen, Disk, KeyOK, Rotating
<1>2. /\ Len(files) \in Nat /\ m \in Nat /\ m # 0 /\ m > Len(files)
      /\ written[k] \in Nat /\ line \in 1..MaxLines
  BY <1>1, KeyTypes, BoundAssumption DEF Disk
<1>3. /\ dir' = [dir EXCEPT ![k][0] = m]
      /\ files' = [Append(files, <<>>) EXCEPT ![m] = Append(@, line)]
      /\ written' = [written EXCEPT ![k] = line]
      /\ writer' = [writer EXCEPT ![k] = w]
  BY <1>1 DEF Reopen
<1>4. /\ Append(files, <<>>) \in Seq(Seq(1..MaxLines))
      /\ Len(Append(files, <<>>)) = m /\ Append(files, <<>>)[m] = <<>>
      /\ \A n \in 1..Len(files) : Append(files, <<>>)[n] = files[n]
  <2>1. files \in Seq(Seq(1..MaxLines)) /\ <<>> \in Seq(1..MaxLines)
    BY EmptySeq DEF Disk, DiskTypes
  <2>. QED
    BY <1>2, <2>1
<1>5. /\ Append(<<>>, line) \in Seq(1..MaxLines)
      /\ Len(Append(<<>>, line)) = 1
  <2>1. <<>> \in Seq(1..MaxLines) /\ Len(<<>>) = 0
    BY EmptySeq
  <2>. QED
    BY <1>2, <2>1
<1>. HIDE DEF m
<1>6. /\ files' \in Seq(Seq(1..MaxLines)) /\ Len(files') = m
      /\ files'[m] = Append(<<>>, line) /\ Len(files'[m]) = 1
      /\ \A n \in 1..Len(files) : files'[n] = files[n]
  <2>1. m \in 1..m /\ \A n \in 1..Len(files) : n \in 1..m /\ n # m
    BY <1>2
  <2>2. PICK old : old = Append(files, <<>>)
    OBVIOUS
  <2>3. files' = [old EXCEPT ![m] = Append(<<>>, line)]
    BY <1>3, <1>4, <2>2
  <2>4. old \in Seq(Seq(1..MaxLines)) /\ m \in 1..Len(old) /\ Len(old) = m
    BY <1>4, <2>1, <2>2
  <2>5. /\ files' \in Seq(Seq(1..MaxLines)) /\ Len(files') = Len(old)
        /\ \A n \in 1..Len(old) : files'[n] = IF n = m THEN Append(<<>>, line) ELSE old[n]
    BY <1>5, <2>3, <2>4, ExceptSeq
  <2>. QED
    BY <1>4, <1>5, <2>1, <2>2, <2>4, <2>5
<1>7. /\ dir'[k][0] = m /\ \A i \in Numbers : i # 0 => dir'[k][i] = dir[k][i]
      /\ \A l \in Keys : l # k => dir'[l] = dir[l]
      /\ dir' \in [Keys -> [Numbers -> 0..m]]
  BY <1>2, <1>3, NumbersAre DEF Disk, DiskTypes
<1>8. /\ w \in Writers /\ w.on /\ w.pc = "ready" /\ w.file = m /\ w.size = 1
  <2>1. writer[k] \in Writers
    BY KeyTypes DEF Disk
  <2>. QED
    BY <1>1, <1>2, <2>1 DEF Writers
<1>. HIDE DEF w
<1>9. /\ writer'[k] = w /\ written'[k] = line
      /\ \A l \in Keys : l # k => writer'[l] = writer[l] /\ written'[l] = written[l]
  BY <1>3 DEF Disk, DiskTypes
<1>10. /\ Text(k, 0) = <<>> /\ Text(k, 0)' = Append(<<>>, line)
       /\ \A i \in Numbers : i # 0 => Text(k, i)' = Text(k, i)
  <2>1. Text(k, 0) = <<>> /\ Text(k, 0)' = Append(<<>>, line)
    BY <1>1, <1>2, <1>6, <1>7 DEF Text
  <2>2. ASSUME NEW i \in Numbers, i # 0 PROVE Text(k, i)' = Text(k, i)
    <3>1. dir[k][i] \in 0..Len(files)
      BY KeyTypes DEF Disk
    <3>. QED
      BY <1>6, <1>7, <2>2, <3>1 DEF Text
  <2>. QED
    BY <2>1, <2>2
<1>11. \A l \in Keys : l # k => KeyOK(l)'
  BY <1>1, <1>6, <1>7, <1>9, Undisturbed DEF Disk
<1>12. DiskTypes'
  <2>1. writer' \in [Keys -> Writers] /\ written' \in [Keys -> 0..MaxLines]
    BY <1>2, <1>3, <1>8 DEF Disk, DiskTypes
  <2>2. \A l \in Keys : writer'[l].file <= m
    BY <1>2, <1>8, <1>9, KeyTypes DEF Disk
  <2>3. \A n \in 1..m : Len(files'[n]) <= MaxSize
    <3>1. \A n \in 1..m : n = m \/ n \in 1..Len(files)
      BY <1>2 DEF m
    <3>2. 1 <= MaxSize
      BY SizeAssumption
    <3>3. ASSUME NEW n \in 1..m, n = m PROVE Len(files'[n]) <= MaxSize
      BY <1>6, <3>2, <3>3
    <3>4. ASSUME NEW n \in 1..Len(files) PROVE Len(files'[n]) <= MaxSize
      BY <1>6 DEF Disk, DiskTypes
    <3>. QED
      BY <3>1, <3>3, <3>4
  <2>. QED
    BY <1>6, <1>7, <2>1, <2>2, <2>3 DEF DiskTypes
<1>13. Apart'
  <2>1. Own(k)' \subseteq Own(k) \cup {m}
    BY <1>7, <1>8, <1>9 DEF Own
  <2>2. \A l \in Keys : l # k => Own(l)' = Own(l)
    BY <1>7, <1>9 DEF Own
  <2>3. \A l \in Keys : m \notin Own(l)
    BY <1>2, KeyTypes DEF Disk, Own
  <2>4. \A l \in Keys, i \in Numbers : dir[l][i] # m
    BY <2>3 DEF Own
  <2>5. \A l \in Keys : \A i, j \in Numbers : dir'[l][i] = dir'[l][j] /\ dir'[l][i] # 0 => i = j
    BY <1>7, <2>4 DEF Disk, Apart
  <2>. QED
    BY <2>1, <2>2, <2>3, <2>5 DEF Disk, Apart
<1>14. Rotating(k)' /\ Sized(k)' /\ Following(k)'
  BY <1>2, <1>6, <1>7, <1>8, <1>9 DEF Rotating, Sized, Following
<1>15. k \notin collected =>
         /\ InOrder(Texts(k)') /\ Suffix(Texts(k)', line)
         /\ Has(Texts(k)', line) /\ \A m1 : Has(Texts(k), m1) => Has(Texts(k)', m1)
  <2>. SUFFICES ASSUME k \notin collected
                PROVE  /\ InOrder(Texts(k)') /\ Suffix(Texts(k)', line)
                       /\ Has(Texts(k)', line)
                       /\ \A m1 : Has(Texts(k), m1) => Has(Texts(k)', m1)
    OBVIOUS
  <2>1. /\ Texts(k) \in Library /\ \A i \in Numbers : Texts(k)[i] = Text(k, i)
        /\ \A i \in Numbers : Text(k, i) \in Seq(Nat)
    BY TextTypes DEF Disk
  <2>2. \A i \in Numbers : Text(k, i)' \in Seq(Nat)
    <3>1. Append(<<>>, line) \in Seq(Nat)
      BY <1>5, LinesAreNumbers
    <3>. QED
      BY <1>10, <2>1, <3>1
  <2>3. Texts(k)' \in Library /\ \A i \in Numbers : Texts(k)'[i] = Text(k, i)'
    BY <2>2 DEF Texts, Library
  <2>4. InOrder(Texts(k)) /\ Suffix(Texts(k), written[k])
    BY DEF Disk, KeyOK, Ordered
  <2>5. Texts(k)'[0] = Append(Texts(k)[0], line)
        /\ \A i \in Numbers : i # 0 => Texts(k)'[i] = Texts(k)[i]
    BY <1>10, <2>1, <2>3, NumbersAre
  <2>. QED
    BY <1>2, <2>1, <2>3, <2>4, <2>5, Appended
<1>16. Ordered(k)'
  BY <1>1, <1>9, <1>15 DEF Ordered
<1>17. Filled(k)'
  <2>. SUFFICES ASSUME k \notin collected, k \notin hurt PROVE Filled(k)'
    BY <1>1 DEF Filled
  <2>1. Gap(k) = 0 /\ Gap(k)' = MaxFiles + 1
    BY <1>1, <1>8, <1>9 DEF Gap
  <2>2. \A i, j \in Numbers : i < j /\ dir'[k][j] # 0 => dir'[k][i] # 0
    <3>1. \A i, j \in Numbers : i < j /\ i # 0 /\ dir[k][j] # 0 => dir[k][i] # 0
      BY <2>1 DEF Disk, KeyOK, Filled
    <3>2. \A i, j \in Numbers : i < j => j # 0
      BY NumbersAre
    <3>. QED
      BY <1>2, <1>7, <3>1, <3>2
  <2>3. \A i \in 1..MaxFiles : dir'[k][i] # 0 => Len(Text(k, i)') = MaxSize
    <3>1. \A i \in 1..MaxFiles : i \in Numbers /\ i # 0
      BY NumbersAre
    <3>2. \A i \in 1..MaxFiles : dir[k][i] # 0 => Len(Text(k, i)) = MaxSize
      BY DEF Disk, KeyOK, Filled
    <3>. QED
      BY <1>7, <1>10, <3>1, <3>2
  <2>4. Len(Text(k, 0)') > 0
    <3>1. Len(Text(k, 0)') = 1
      BY <1>5, <1>10, Zenon
    <3>. QED
      BY <3>1
  <2>5. (\A n \in 1..line : Has(Texts(k)', n)) \/ dir'[k][MaxFiles] # 0
    <3>1. (\A n \in 1..written[k] : Has(Texts(k), n)) \/ dir[k][MaxFiles] # 0
      BY DEF Disk, KeyOK, Filled
    <3>2. \A n \in 1..line : n = line \/ n \in 1..written[k]
      BY <1>2
    <3>3. dir'[k][MaxFiles] = dir[k][MaxFiles]
      BY <1>7, NumbersAre
    <3>. QED
      BY <1>15, <3>1, <3>2, <3>3
  <2>. QED
    BY <1>9, <2>2, <2>3, <2>4, <2>5 DEF Filled
<1>18. KeyOK(k)'
  BY <1>14, <1>16, <1>17 DEF KeyOK
<1>. QED
  BY <1>11, <1>12, <1>13, <1>18 DEF Disk

LEMMA DiskInitially == Init => Disk
<1>. SUFFICES ASSUME Init PROVE Disk
  OBVIOUS
<1>1. /\ files = <<>> /\ dir = [k \in Keys |-> [i \in Numbers |-> 0]]
      /\ writer = [k \in Keys |-> Off] /\ written = [k \in Keys |-> 0]
  BY DEF Init
<1>2. Len(files) = 0 /\ files \in Seq(Seq(1..MaxLines))
  BY <1>1, EmptySeq
<1>3. Off \in Writers /\ Off.file = 0 /\ Off.pc = "ready" /\ ~Off.on
  BY NumbersAre DEF Off, Writers
<1>4. DiskTypes
  BY <1>1, <1>2, <1>3, BoundAssumption DEF DiskTypes
<1>5. Apart
  BY <1>1, <1>3 DEF Apart, Own
<1>6. ASSUME NEW k \in Keys PROVE KeyOK(k)
  <2>1. Rotating(k) /\ Sized(k) /\ Following(k)
    BY <1>1, <1>3 DEF Rotating, Sized, Following
  <2>2. \A i \in Numbers : Text(k, i) = <<>> /\ Texts(k)[i] = <<>>
    BY <1>1 DEF Text, Texts
  <2>3. 1..Len(<<>>) = {}
    OBVIOUS
  <2>4. Ordered(k)
    BY <2>2, <2>3 DEF Ordered, InOrder, Suffix
  <2>5. Filled(k)
    <3>1. 1..written[k] = {}
      BY <1>1
    <3>2. \A i \in Numbers : dir[k][i] = 0
      BY <1>1
    <3>3. \A i \in 1..MaxFiles : i \in Numbers
      BY NumbersAre
    <3>. QED
      BY <3>1, <3>2, <3>3, NumbersAre DEF Filled
  <2>. QED
    BY <2>1, <2>4, <2>5 DEF KeyOK
<1>. QED
  BY <1>4, <1>5, <1>6 DEF Disk

LEMMA DiskInductive == Sparing /\ Disk /\ [Next]_vars => Disk'
<1>. SUFFICES ASSUME Sparing, Disk, [Next]_vars PROVE Disk'
  OBVIOUS
<1>1. CASE UNCHANGED <<files, dir, writer, written, hurt, collected>>
  <2>1. \A k \in Keys : KeyOK(k)'
    BY <1>1, Undisturbed DEF Disk
  <2>2. DiskTypes'
    BY <1>1 DEF Disk, DiskTypes
  <2>3. Apart'
    <3>1. \A k \in Keys : Own(k)' = Own(k)
      BY <1>1 DEF Own
    <3>. QED
      BY <1>1, <3>1 DEF Disk, Apart
  <2>. QED
    BY <2>1, <2>2, <2>3 DEF Disk
<1>2. CASE \/ Edit \/ GCList \/ GCReadDir \/ GCLoadTomls \/ GCDirectory
           \/ CapRead \/ CapTruncate \/ CapMarker \/ CapTail \/ CapFails
           \/ ForeignWrite \/ UNCHANGED vars
  BY <1>1, <1>2
     DEF Edit, GCList, GCReadDir, GCLoadTomls, GCDirectory, CapRead, CapTruncate,
         CapMarker, CapTail, CapFails, ForeignWrite, vars, flat
<1>. QED
  BY <1>2, StartKeeps, StopKeeps, WriteKeeps, RotateKeeps, ShiftKeeps, ReopenKeeps,
     ReopenFailsKeeps, RemoveKeeps, CrashKeeps DEF Next, Collect

LEMMA Reads ==
  ASSUME DiskTypes, NEW k \in Keys
  PROVE  \A n : n \in Readable(k) <=> Has(Texts(k), n)
<1>1. \A i \in Numbers : Texts(k)[i] = Text(k, i) /\ DOMAIN Text(k, i) = 1..Len(Text(k, i))
  BY TextTypes, LenProperties
<1>. QED
  BY <1>1 DEF Readable, Has, ToSet

(* Rotation only ever loses the oldest lines of a process, for any number  *)
(* of backups and any limit, with starts, stops, edits and collections at  *)
(* any moment, through failing reopens and deaths of the daemon in the     *)
(* middle of a rotation (internal/daemon/rotator.go:55-76).                *)
THEOREM OldestLost == Spec => []OnlyOldestLost
<1>1. Disk => OnlyOldestLost
  <2>. SUFFICES ASSUME Disk, NEW k \in Keys \ collected
                PROVE  /\ \A i, j \in Numbers : \A a \in DOMAIN Text(k, i), b \in DOMAIN Text(k, j) :
                            i > j \/ (i = j /\ a < b) => Text(k, i)[a] < Text(k, j)[b]
                       /\ \A n \in Readable(k) :
                            n <= written[k] /\ n..written[k] \subseteq Readable(k)
    BY DEF OnlyOldestLost
  <2>1. InOrder(Texts(k)) /\ Suffix(Texts(k), written[k])
    BY DEF Disk, KeyOK, Ordered
  <2>2. \A i \in Numbers : Texts(k)[i] = Text(k, i) /\ DOMAIN Text(k, i) = 1..Len(Text(k, i))
    BY TextTypes, LenProperties DEF Disk
  <2>3. \A n : n \in Readable(k) <=> Has(Texts(k), n)
    BY Reads DEF Disk
  <2>4. ASSUME NEW n \in Readable(k)
        PROVE  n <= written[k] /\ n..written[k] \subseteq Readable(k)
    <3>1. PICK i \in Numbers : \E a \in 1..Len(Texts(k)[i]) : Texts(k)[i][a] = n
      BY <2>3 DEF Has
    <3>. QED
      BY <2>1, <2>3, <3>1 DEF Suffix
  <2>. QED
    BY <2>1, <2>2, <2>4 DEF InOrder
<1>. QED
  BY <1>1, Initially, Inductive, DiskInitially, DiskInductive, PTL DEF Spec

(* No log file outgrows its limit, and unless a rotation of the process    *)
(* failed or was interrupted nothing is lost before every backup is full   *)
(* (internal/daemon/rotator.go:36-67).                                     *)
THEOREM WhatFitsKept == Spec => []KeepsWhatFits
<1>1. Disk => KeepsWhatFits
  <2>. SUFFICES ASSUME Disk, NEW k \in Keys
                PROVE  /\ \A i \in Numbers : Len(Text(k, i)) <= MaxSize
                       /\ k \notin collected \cup hurt /\ writer[k].pc = "ready" =>
                             \/ 1..written[k] \subseteq Readable(k)
                             \/ /\ \A i \in 1..MaxFiles : Len(Text(k, i)) = MaxSize
                                /\ Text(k, 0) # <<>>
    BY DEF KeepsWhatFits
  <2>1. \A i \in Numbers : Len(Text(k, i)) <= MaxSize
    BY TextTypes DEF Disk
  <2>2. ASSUME k \notin collected \cup hurt, writer[k].pc = "ready", dir[k][MaxFiles] # 0
        PROVE  (\A i \in 1..MaxFiles : Len(Text(k, i)) = MaxSize) /\ Text(k, 0) # <<>>
    <3>1. /\ \A i, j \in Numbers : i < j /\ i # Gap(k) /\ dir[k][j] # 0 => dir[k][i] # 0
          /\ \A i \in 1..MaxFiles : dir[k][i] # 0 => Len(Text(k, i)) = MaxSize
          /\ dir[k][1] # 0 => Len(Text(k, 0)) > 0
      BY <2>2 DEF Disk, KeyOK, Filled
    <3>2. \A i \in 1..MaxFiles : i \in Numbers /\ i # MaxFiles + 1
      BY NumbersAre
    <3>3. \A i \in 1..MaxFiles : i = MaxFiles \/ i < MaxFiles
      BY NumbersAre
    <3>4. Gap(k) = MaxFiles + 1
      BY <2>2 DEF Gap
    <3>5. \A i \in 1..MaxFiles : dir[k][i] # 0
      BY <2>2, <3>1, <3>2, <3>3, <3>4, NumbersAre
    <3>6. Len(Text(k, 0)) > 0
      BY <3>1, <3>5, NumbersAre
    <3>7. Text(k, 0) # <<>>
      BY <3>6
    <3>. QED
      BY <3>1, <3>5, <3>7
  <2>3. \A n : n \in Readable(k) <=> Has(Texts(k), n)
    BY Reads DEF Disk
  <2>4. k \notin collected \cup hurt =>
          (\A n \in 1..written[k] : Has(Texts(k), n)) \/ dir[k][MaxFiles] # 0
    BY DEF Disk, KeyOK, Filled
  <2>. QED
    BY <2>1, <2>2, <2>3, <2>4
<1>. QED
  BY <1>1, Initially, Inductive, DiskInitially, DiskInductive, PTL DEF Spec

-----------------------------------------------------------------------------
(* What the other variables hold.                                          *)
RestTypes ==
    /\ registered \in BOOLEAN
    /\ toml = Broken \/ toml \in SUBSET Keys
    /\ gc \in GCs
    /\ used \in [starts : [Keys -> 0..MaxStarts], edits : 0..MaxEdits,
                 faults : 0..MaxFaults, gcs : 0..MaxGCs]
    /\ collected \subseteq Keys /\ steady \subseteq Keys /\ hurt \subseteq Keys

LEMMA RestInitially == Init => RestTypes
  BY BoundAssumption, EmptySeq DEF Init, RestTypes, NoGC, GCs

LEMMA RestInductive == Cut' /\ RestTypes /\ [Next]_vars => RestTypes'
<1>. SUFFICES ASSUME Cut', RestTypes, [Next]_vars PROVE RestTypes'
  OBVIOUS
<1>1. (used \in [starts : [Keys -> 0..MaxStarts], edits : 0..MaxEdits,
                 faults : 0..MaxFaults, gcs : 0..MaxGCs])'
  <2>1. used = [starts |-> used.starts, edits |-> used.edits,
                faults |-> used.faults, gcs |-> used.gcs]
        /\ used.starts \in [Keys -> 0..MaxStarts] /\ used.edits \in 0..MaxEdits
        /\ used.faults \in 0..MaxFaults /\ used.gcs \in 0..MaxGCs
    BY DEF RestTypes
  <2>2. \A n \in {MaxStarts, MaxEdits, MaxFaults, MaxGCs} :
           \A i \in 0..n : i < n => i + 1 \in 0..n
    BY BoundAssumption
  <2>3. CASE used' = used
    BY <2>3 DEF RestTypes
  <2>4. CASE used.faults < MaxFaults /\ used' = [used EXCEPT !.faults = @ + 1]
    BY <2>1, <2>2, <2>4
  <2>5. CASE used.edits < MaxEdits /\ used' = [used EXCEPT !.edits = @ + 1]
    BY <2>1, <2>2, <2>5
  <2>6. CASE used.gcs < MaxGCs /\ used' = [used EXCEPT !.gcs = @ + 1]
    BY <2>1, <2>2, <2>6
  <2>7. ASSUME NEW k \in Keys, used.starts[k] < MaxStarts,
               \/ used' = [used EXCEPT !.starts[k] = @ + 1]
               \/ /\ used.faults < MaxFaults
                  /\ used' = [used EXCEPT !.starts[k] = @ + 1, !.faults = @ + 1]
        PROVE  (used \in [starts : [Keys -> 0..MaxStarts], edits : 0..MaxEdits,
                          faults : 0..MaxFaults, gcs : 0..MaxGCs])'
    <3>1. used.starts[k] + 1 \in 0..MaxStarts
      BY <2>1, <2>2, <2>7
    <3>2. [used.starts EXCEPT ![k] = used.starts[k] + 1] \in [Keys -> 0..MaxStarts]
      BY <2>1, <3>1
    <3>. QED
      BY <2>1, <2>2, <2>7, <3>2
  <2>8. ASSUME NEW k \in Keys, Start(k)
        PROVE  (used \in [starts : [Keys -> 0..MaxStarts], edits : 0..MaxEdits,
                          faults : 0..MaxFaults, gcs : 0..MaxGCs])'
    BY <2>7, <2>8 DEF Start
  <2>. QED
    BY <2>3, <2>4, <2>5, <2>6, <2>8
       DEF Next, Collect, vars, Stop, Write, Rotate, Shift, Reopen, ReopenFails,
           Fault, GCList, GCReadDir, GCLoadTomls, GCRemove, GCDirectory, CapRead,
           CapTruncate, CapMarker, CapTail, CapFails, ForeignWrite, Edit, Crash
<1>2. registered' \in BOOLEAN /\ (toml' = Broken \/ toml' \in SUBSET Keys)
      /\ steady' \subseteq Keys
  BY DEF RestTypes, Next, Collect, vars, world, Start, Stop, Write, Rotate, Shift,
         Reopen, ReopenFails, GCList, GCReadDir, GCLoadTomls, GCRemove,
         GCDirectory, CapRead, CapTruncate, CapMarker, CapTail, CapFails,
         ForeignWrite, Edit, Crash
<1>3. gc' \in GCs
  <2>1. /\ gc = [pc |-> gc.pc, known |-> gc.known, names |-> gc.names, dir |-> gc.dir,
                 valid |-> gc.valid, tail |-> gc.tail]
        /\ gc.known \in BOOLEAN /\ gc.names \subseteq Names /\ gc.dir \in BOOLEAN
        /\ gc.valid \subseteq Names /\ gc.tail \in Seq(1..MaxOutside)
    BY DEF RestTypes, GCs
  <2>2. gc'.tail \in Seq(1..MaxOutside)
    BY DEF Cut, CutTypes
  <2>3. NoGC \in GCs
    BY EmptySeq DEF NoGC, GCs
  <2>4. CASE gc' = gc \/ gc' = NoGC
    BY <2>3, <2>4 DEF RestTypes
  <2>5. CASE GCList
    <3>1. gc' = [pc |-> "list", known |-> registered, names |-> {}, dir |-> FALSE,
                 valid |-> {}, tail |-> <<>>]
      BY <2>5 DEF GCList, NoGC
    <3>. QED
      BY <3>1, EmptySeq DEF RestTypes, GCs
  <2>6. CASE GCReadDir
    <3>1. {n \in Names : dir[n[1]][n[2]] # 0} \subseteq Names /\ (foreign # NoForeign) \in BOOLEAN
      OBVIOUS
    <3>2. PICK names, there : names = {n \in Names : dir[n[1]][n[2]] # 0} /\ there = (foreign # NoForeign)
      OBVIOUS
    <3>3. gc' = [gc EXCEPT !.pc = "valid", !.names = names, !.dir = there]
      BY <2>6, <3>2 DEF GCReadDir
    <3>4. gc' = [pc |-> "valid", known |-> gc.known, names |-> names, dir |-> there,
                 valid |-> gc.valid, tail |-> gc.tail]
      BY <2>1, <3>3
    <3>. QED
      BY <2>1, <3>1, <3>2, <3>4 DEF GCs
  <2>7. CASE GCLoadTomls
    <3>1. ValidNames \subseteq Names
      BY DEF RestTypes, ValidNames, Names
    <3>2. gc' = [pc |-> "remove", known |-> gc.known, names |-> gc.names, dir |-> gc.dir,
                 valid |-> ValidNames, tail |-> gc.tail]
      BY <2>1, <2>7 DEF GCLoadTomls
    <3>. QED
      BY <2>1, <3>1, <3>2 DEF GCs
  <2>8. CASE GCRemove
    <3>1. PICK n : gc' = [gc EXCEPT !.names = @ \ {n}]
      BY <2>8 DEF GCRemove
    <3>2. gc' = [pc |-> gc.pc, known |-> gc.known, names |-> gc.names \ {n}, dir |-> gc.dir,
                 valid |-> gc.valid, tail |-> gc.tail]
      BY <2>1, <3>1
    <3>3. gc.names \ {n} \subseteq Names
      BY <2>1
    <3>. QED
      BY <3>2, <3>3 DEF RestTypes, GCs
  <2>9. ASSUME NEW pc \in {"cap", "truncate", "marker", "tail"},
               \/ gc' = [gc EXCEPT !.pc = pc]
               \/ \E tail : gc' = [gc EXCEPT !.pc = pc, !.tail = tail]
        PROVE  gc' \in GCs
    <3>1. gc' = [pc |-> pc, known |-> gc.known, names |-> gc.names, dir |-> gc.dir,
                 valid |-> gc.valid, tail |-> gc'.tail]
      BY <2>1, <2>9
    <3>. QED
      BY <2>1, <2>2, <3>1 DEF GCs
  <2>10. CASE GCDirectory \/ CapRead \/ CapTruncate \/ CapMarker \/ CapTail
    BY <2>4, <2>9, <2>10 DEF GCDirectory, CapRead, CapTruncate, CapMarker, CapTail
  <2>11. \/ gc' = gc \/ gc' = NoGC \/ GCList \/ GCReadDir \/ GCLoadTomls \/ GCRemove
         \/ GCDirectory \/ CapRead \/ CapTruncate \/ CapMarker \/ CapTail
    BY DEF Next, Collect, vars, Start, Stop, Write, Rotate, Shift, Reopen,
           ReopenFails, CapFails, ForeignWrite, Edit, Crash
  <2>. QED
    BY <2>4, <2>5, <2>6, <2>7, <2>8, <2>10, <2>11
<1>4. collected' \subseteq Keys /\ hurt' \subseteq Keys
  <2>1. hurt' = hurt \/ (\E k \in Keys : hurt' = hurt \cup {k})
        \/ hurt' = hurt \cup {k \in Keys : writer[k].pc # "ready"}
    BY DEF Next, Collect, vars, flat, Start, Stop, Write, Rotate, Shift, Reopen,
           ReopenFails, GCList, GCReadDir, GCLoadTomls, GCRemove, GCDirectory,
           CapRead, CapTruncate, CapMarker, CapTail, CapFails, ForeignWrite, Edit,
           Crash
  <2>2. collected' = collected \/ GCRemove
    BY DEF Next, Collect, vars, Start, Stop, Write, Rotate, Shift, Reopen,
           ReopenFails, GCList, GCReadDir, GCLoadTomls, GCDirectory, CapRead,
           CapTruncate, CapMarker, CapTail, CapFails, ForeignWrite, Edit, Crash
  <2>3. CASE GCRemove
    <3>1. PICK n \in gc.names : collected' = collected \/ collected' = collected \cup {n[1]}
      BY <2>3 DEF GCRemove
    <3>2. n[1] \in Keys
      BY DEF RestTypes, GCs, Names
    <3>. QED
      BY <2>1, <3>1, <3>2 DEF RestTypes
  <2>. QED
    BY <2>1, <2>2, <2>3 DEF RestTypes
<1>. QED
  BY <1>1, <1>2, <1>3, <1>4 DEF RestTypes

(* Every state has its types, for any keys and limits.                     *)
THEOREM TypeCorrect == Spec => []TypeOK
<1>1. Cut /\ Disk /\ RestTypes => TypeOK
  BY DEF Cut, CutTypes, Disk, DiskTypes, RestTypes, TypeOK
<1>. QED
  BY <1>1, Initially, Inductive, CutInitially, CutInductive, DiskInitially,
     DiskInductive, RestInitially, RestInductive, PTL DEF Spec
=============================================================================
