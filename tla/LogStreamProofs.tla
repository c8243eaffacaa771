--------------------------- MODULE LogStreamProofs --------------------------
(***************************************************************************)
(* Proofs that a Logger's ring holds the newest lines of its process; that *)
(* the events of a process are given newest first and none is missing; and *)
(* that whoever reads the lines of one process, from the file, the ring,   *)
(* or a file that has been renamed, sees them in order, none twice, and    *)
(* misses one only for a cause: for any capacity, any number of processes  *)
(* and lines, and through every wrap, rotation, restart and removal.       *)
(*                                                                         *)
(* The position arithmetic is modulo a capacity that is not a number, so   *)
(* the few facts about % that are needed come first.                       *)
(***************************************************************************)
EXTENDS LogStream, TLAPS, SequenceTheorems, FiniteSetTheorems,
        WellFoundedInduction

LEMMA Modulo ==
  ASSUME NEW c \in Nat \ {0}
  PROVE  /\ \A a \in 0..(c-1) : a % c = a
         /\ \A a \in c..(2*c - 1) : a % c = a - c
  OBVIOUS

-----------------------------------------------------------------------------
(* A ring that holds the lines up to top: the j-th newest is j slots       *)
(* before the position, around the end of the array if need be.            *)
RingType == [slots : [0..RingCap-1 -> 0..MaxLines], pos : 0..RingCap-1,
             len : 0..RingCap]

Back(r, j) == IF r.pos >= j THEN r.pos - j ELSE r.pos - j + RingCap

Holds(r, top) ==
    /\ r \in RingType
    /\ \A j \in 1..r.len : r.slots[Back(r, j)] = top - j + 1

LEMMA EmptyHolds ==
  ASSUME NEW top \in Int
  PROVE  Holds(EmptyRing, top) /\ EmptyRing.len = 0
<1>1. EmptyRing \in RingType /\ EmptyRing.len = 0
  BY RingAssumption, LineAssumption DEF EmptyRing, RingType, NoLine
<1>. QED
  BY <1>1 DEF Holds

(* Adding a line moves every other one a slot further back, and the slot   *)
(* that is overwritten is beyond what the ring holds afterwards.           *)
LEMMA AddHolds ==
  ASSUME NEW top \in Int, NEW r, Holds(r, top), top + 1 \in 0..MaxLines
  PROVE  Holds(RingAdd(r, top + 1), top + 1) /\ RingAdd(r, top + 1).len > 0
<1>. DEFINE s == RingAdd(r, top + 1)
<1>1. RingCap \in Nat \ {0} /\ MaxLines \in Nat
  BY RingAssumption, LineAssumption
<1>2. r.pos \in 0..RingCap-1 /\ r.len \in 0..RingCap
  BY DEF Holds, RingType
<1>3. r.slots \in [0..RingCap-1 -> 0..MaxLines]
  BY DEF Holds, RingType
<1>4. s.pos = IF r.pos + 1 = RingCap THEN 0 ELSE r.pos + 1
  <2>1. s.pos = (r.pos + 1) % RingCap
    BY DEF RingAdd
  <2>2. CASE r.pos + 1 = RingCap
    <3>1. RingCap \in RingCap..(2*RingCap - 1) /\ RingCap - RingCap = 0
      BY <1>1
    <3>. QED
      BY <1>1, <2>1, <2>2, <3>1, Modulo
  <2>3. CASE r.pos + 1 # RingCap
    <3>1. r.pos + 1 \in 0..(RingCap - 1)
      BY <1>1, <1>2, <2>3
    <3>. QED
      BY <1>1, <2>1, <2>3, <3>1, Modulo
  <2>. QED
    BY <2>2, <2>3
<1>5. s.len = IF r.len < RingCap THEN r.len + 1 ELSE r.len
  BY DEF RingAdd
<1>6. s.slots = [r.slots EXCEPT ![r.pos] = top + 1]
  BY DEF RingAdd
<1>7. s = [slots |-> s.slots, pos |-> s.pos, len |-> s.len]
  BY DEF RingAdd
<1>. HIDE DEF s
<1>8. s.len \in 1..RingCap /\ s.len - 1 <= r.len
  BY <1>1, <1>2, <1>5
<1>9. s \in RingType
  <2>1. s.slots \in [0..RingCap-1 -> 0..MaxLines]
    BY <1>2, <1>3, <1>6
  <2>2. s.pos \in 0..RingCap-1 /\ s.len \in 0..RingCap
    BY <1>1, <1>2, <1>4, <1>8
  <2>. QED
    BY <1>7, <2>1, <2>2 DEF RingType
<1>10. ASSUME NEW j \in 1..s.len
       PROVE  s.slots[Back(s, j)] = top + 1 - j + 1
  <2>1. CASE j = 1
    <3>1. Back(s, j) = r.pos
      BY <1>1, <1>2, <1>4, <2>1 DEF Back
    <3>2. s.slots[r.pos] = top + 1
      BY <1>2, <1>3, <1>6
    <3>. QED
      BY <2>1, <3>1, <3>2
  <2>2. CASE j # 1
    <3>1. j - 1 \in 1..r.len /\ j - 1 < RingCap
      BY <1>1, <1>2, <1>8, <2>2
    <3>2. Back(s, j) = Back(r, j - 1)
      BY <1>1, <1>2, <1>4, <3>1 DEF Back
    <3>3. Back(r, j - 1) # r.pos /\ Back(r, j - 1) \in 0..RingCap-1
      BY <1>1, <1>2, <3>1 DEF Back
    <3>4. r.slots[Back(r, j - 1)] = top - (j - 1) + 1
      BY <3>1 DEF Holds
    <3>5. s.slots[Back(r, j - 1)] = r.slots[Back(r, j - 1)]
      BY <1>3, <1>6, <3>3
    <3>6. top - (j - 1) + 1 = top + 1 - j + 1
      BY <1>8
    <3>. QED
      BY <3>2, <3>4, <3>5, <3>6
  <2>. QED
    BY <2>1, <2>2
<1>. QED
  BY <1>8, <1>9, <1>10 DEF Holds, s

(* What a reader of the ring gets.                                         *)
LEMMA TailHolds ==
  ASSUME NEW top \in Int, NEW r, Holds(r, top), NEW n \in Nat \ {0}
  PROVE  LET tail == RingTail(r, n)
         IN  /\ Len(tail) = IF n < r.len THEN n ELSE r.len
             /\ \A i \in 1..Len(tail) : tail[i] = top - Len(tail) + i
<1>. DEFINE m == IF n > r.len THEN r.len ELSE n
            tail == RingTail(r, n)
<1>1. /\ RingCap \in Nat \ {0} /\ r.pos \in 0..RingCap-1 /\ r.len \in 0..RingCap
      /\ m \in 0..RingCap /\ m <= r.len
  BY RingAssumption DEF Holds, RingType
<1>2. tail = [i \in 1..m |-> r.slots[(r.pos - m + (i - 1) + RingCap) % RingCap]]
  BY DEF RingTail
<1>. HIDE DEF tail
<1>3. Len(tail) = m
  BY <1>1, <1>2
<1>4. ASSUME NEW i \in 1..m
      PROVE  tail[i] = top - m + i
  <2>. DEFINE j == m - i + 1
              a == r.pos - m + (i - 1) + RingCap
  <2>1. j \in 1..r.len /\ j \in 1..RingCap /\ a = r.pos - j + RingCap
    BY <1>1
  <2>2. tail[i] = r.slots[a % RingCap]
    BY <1>2
  <2>3. a % RingCap = Back(r, j)
    <3>. HIDE DEF m, j, a
    <3>1. CASE r.pos >= j
      <4>1. a \in RingCap..(2*RingCap - 1) /\ a - RingCap = r.pos - j
        BY <1>1, <2>1, <3>1
      <4>. QED
        BY <1>1, <3>1, <4>1, Modulo DEF Back
    <3>2. CASE ~(r.pos >= j)
      <4>1. a \in 0..(RingCap - 1)
        BY <1>1, <2>1, <3>2
      <4>. QED
        BY <1>1, <2>1, <3>2, <4>1, Modulo DEF Back
    <3>. QED
      BY <3>1, <3>2
  <2>4. r.slots[Back(r, j)] = top - j + 1
    BY <2>1 DEF Holds
  <2>. QED
    BY <1>1, <2>2, <2>3, <2>4
<1>. QED
  BY <1>1, <1>3, <1>4 DEF tail

-----------------------------------------------------------------------------
(* The installed ring of a process holds all lines but the separator that  *)
(* is still in the hand of a Start; that hand holds a ring of its own; and *)
(* no child writes while a Start has one.                                  *)
Rung(p) ==
    /\ loggers[p] = NoRing \/ Holds(loggers[p], InRing(p))
    /\ hand[p] = NoRing \/ Holds(hand[p], out[p])
    /\ p \in running => loggers[p] # NoRing /\ hand[p] = NoRing

Shape ==
    /\ out \in [Processes -> Nat]
    /\ loggers = [p \in Processes |-> loggers[p]]
    /\ hand = [p \in Processes |-> hand[p]]

RingInv == Shape /\ \A p \in Processes : Rung(p)

(* A step that leaves the rings of p alone.                                *)
Untouched(p) ==
    /\ out'[p] = out[p] /\ loggers'[p] = loggers[p] /\ hand'[p] = hand[p]
    /\ p \in running' => p \in running

LEMMA UntouchedKeeps ==
  ASSUME NEW p \in Processes, Rung(p), Untouched(p)
  PROVE  Rung(p)'
  BY DEF Rung, Untouched, InRing

(* An absent entry of a map is no ring.                                    *)
LEMMA NotAbsent ==
  ASSUME NEW r, NEW top, Holds(r, top)
  PROVE  r # NoRing
<1>1. /\ r.slots \in [0..RingCap-1 -> 0..MaxLines]
      /\ r.pos \in 0..RingCap /\ r.len \in 0..RingCap
      /\ r = [slots |-> r.slots, pos |-> r.pos, len |-> r.len]
  BY RingAssumption DEF Holds, RingType
<1>. QED
  BY <1>1, NoRingAssumption

LEMMA Initially == Init => RingInv
<1>. SUFFICES ASSUME Init PROVE RingInv
  OBVIOUS
<1>1. out \in [Processes -> 0..1] /\ running = {}
      /\ loggers = [p \in Processes |-> NoRing] /\ hand = [p \in Processes |-> NoRing]
  BY DEF Init
<1>. QED
  BY <1>1 DEF RingInv, Shape, Rung

LEMMA EmitKeeps ==
  ASSUME RingInv, NEW p \in Processes, Emit(p)
  PROVE  RingInv'
<1>1. /\ p \in running /\ out[p] < MaxLines
      /\ out' = [out EXCEPT ![p] = out[p] + 1]
      /\ loggers' = [loggers EXCEPT ![p] = RingAdd(loggers[p], out[p] + 1)]
      /\ UNCHANGED <<running, hand>>
  BY DEF Emit
<1>2. Shape'
  BY <1>1 DEF RingInv, Shape
<1>3. Rung(p)'
  <2>1. /\ loggers[p] # NoRing /\ hand[p] = NoRing
        /\ Holds(loggers[p], out[p]) /\ out[p] \in Nat
    BY <1>1 DEF RingInv, Shape, Rung, InRing
  <2>2. out[p] + 1 \in 0..MaxLines
    BY <1>1, <2>1, LineAssumption
  <2>3. Holds(RingAdd(loggers[p], out[p] + 1), out[p] + 1)
    BY <2>1, <2>2, AddHolds
  <2>4. /\ out'[p] = out[p] + 1 /\ hand'[p] = NoRing
        /\ loggers'[p] = RingAdd(loggers[p], out[p] + 1)
    BY <1>1, <2>1 DEF RingInv, Shape
  <2>5. loggers'[p] # NoRing
    BY <2>3, <2>4, NotAbsent
  <2>. QED
    BY <2>1, <2>3, <2>4, <2>5 DEF Rung, InRing
<1>4. ASSUME NEW q \in Processes, q # p
      PROVE  Rung(q)'
  BY <1>1, <1>4, UntouchedKeeps DEF RingInv, Shape, Untouched
<1>. QED
  BY <1>2, <1>3, <1>4 DEF RingInv

LEMMA StartOpenKeeps ==
  ASSUME RingInv, NEW p \in Processes, StartOpen(p)
  PROVE  RingInv'
<1>1. /\ p \notin running /\ hand[p] = NoRing /\ UNCHANGED <<running, loggers>>
      /\ \/ /\ hand' = [hand EXCEPT ![p] = EmptyRing] /\ out' = out
         \/ /\ out[p] + 1 <= MaxLines
            /\ hand' = [hand EXCEPT ![p] = RingAdd(EmptyRing, out[p] + 1)]
            /\ out' = [out EXCEPT ![p] = out[p] + 1]
  BY DEF StartOpen
<1>2. out[p] \in Nat /\ MaxLines \in Nat
  BY LineAssumption DEF RingInv, Shape
<1>3. Shape'
  <2>1. out' \in [Processes -> Nat]
    BY <1>1, <1>2 DEF RingInv, Shape
  <2>2. hand' = [q \in Processes |-> hand'[q]]
    BY <1>1 DEF RingInv, Shape
  <2>3. loggers' = [q \in Processes |-> loggers'[q]]
    <3>1. loggers' = loggers /\ loggers = [q \in Processes |-> loggers[q]]
      BY <1>1 DEF RingInv, Shape
    <3>. QED
      BY <3>1
  <2>. QED
    BY <2>1, <2>2, <2>3 DEF Shape
<1>4. Rung(p)'
  <2>1. loggers[p] = NoRing \/ Holds(loggers[p], out[p])
    BY <1>1, <1>2 DEF RingInv, Rung, InRing
  <2>2. /\ Holds(hand'[p], out'[p])
        /\ out'[p] - (IF hand'[p].len > 0 THEN 1 ELSE 0) = out[p]
    <3>1. CASE hand' = [hand EXCEPT ![p] = EmptyRing] /\ out' = out
      <4>1. hand'[p] = EmptyRing /\ out'[p] = out[p]
        BY <3>1 DEF RingInv, Shape
      <4>. QED
        BY <1>2, <4>1, EmptyHolds
    <3>2. CASE /\ out[p] + 1 <= MaxLines
               /\ hand' = [hand EXCEPT ![p] = RingAdd(EmptyRing, out[p] + 1)]
               /\ out' = [out EXCEPT ![p] = out[p] + 1]
      <4>1. hand'[p] = RingAdd(EmptyRing, out[p] + 1) /\ out'[p] = out[p] + 1
        BY <3>2 DEF RingInv, Shape
      <4>2. Holds(EmptyRing, out[p]) /\ out[p] + 1 \in 0..MaxLines /\ out[p] \in Int
        BY <1>2, <3>2, EmptyHolds
      <4>3. Holds(hand'[p], out'[p]) /\ hand'[p].len > 0
        BY <4>1, <4>2, AddHolds
      <4>. QED
        BY <1>2, <4>1, <4>3
    <3>. QED
      BY <1>1, <3>1, <3>2
  <2>3. hand'[p] # NoRing
    BY <2>2, NotAbsent
  <2>4. InRing(p)' = out[p]
    <3>1. InRing(p)' = out'[p] - (IF hand'[p] # NoRing /\ hand'[p].len > 0 THEN 1 ELSE 0)
      BY DEF InRing
    <3>. QED
      BY <2>2, <2>3, <3>1
  <2>. QED
    BY <1>1, <2>1, <2>2, <2>4 DEF Rung
<1>5. ASSUME NEW q \in Processes, q # p
      PROVE  Rung(q)'
  BY <1>1, <1>5, UntouchedKeeps DEF RingInv, Shape, Untouched
<1>. QED
  BY <1>3, <1>4, <1>5 DEF RingInv

LEMMA StartInstallKeeps ==
  ASSUME RingInv, NEW p \in Processes, StartInstall(p)
  PROVE  RingInv'
<1>1. /\ hand[p] # NoRing /\ out' = out
      /\ loggers' = [loggers EXCEPT ![p] = hand[p]]
      /\ hand' = [hand EXCEPT ![p] = NoRing]
      /\ running' \subseteq running \cup {p}
  BY DEF StartInstall
<1>2. Shape'
  BY <1>1 DEF RingInv, Shape
<1>3. Rung(p)'
  <2>1. loggers'[p] = hand[p] /\ hand'[p] = NoRing /\ Holds(hand[p], out[p])
    BY <1>1 DEF RingInv, Shape, Rung
  <2>2. InRing(p)' = out[p]
    BY <1>1, <2>1 DEF InRing, RingInv, Shape
  <2>. QED
    BY <1>1, <2>1, <2>2 DEF Rung
<1>4. ASSUME NEW q \in Processes, q # p
      PROVE  Rung(q)'
  BY <1>1, <1>4, UntouchedKeeps DEF RingInv, Shape, Untouched
<1>. QED
  BY <1>2, <1>3, <1>4 DEF RingInv

LEMMA Inductive == RingInv /\ [Next]_vars => RingInv'
<1>. SUFFICES ASSUME RingInv, [Next]_vars PROVE RingInv'
  OBVIOUS
<1>1. ASSUME UNCHANGED <<out, loggers, hand>>, running' \subseteq running
      PROVE  RingInv'
  <2>1. Shape'
    BY <1>1 DEF RingInv, Shape
  <2>2. \A p \in Processes : Rung(p)'
    BY <1>1, UntouchedKeeps DEF RingInv, Untouched
  <2>. QED
    BY <2>1, <2>2 DEF RingInv
<1>2. CASE RemoveProject
  <2>1. /\ running = {} /\ running' = running /\ out' = out /\ hand' = hand
        /\ loggers' = [p \in Processes |-> NoRing]
    BY <1>2 DEF RemoveProject
  <2>. QED
    BY <2>1 DEF RingInv, Shape, Rung, InRing
<1>3. ASSUME NEW p \in Processes,
             \/ Exit(p) \/ StartUnlogged(p)
             \/ FollowLook(p) \/ FollowAsk(p) \/ FollowOpen(p) \/ FollowRead(p)
      PROVE  RingInv'
  BY <1>1, <1>3
     DEF Exit, StartUnlogged, FollowLook, Look, FollowAsk, FollowOpen, FollowRead, writer
<1>4. CASE PollLook \/ \E k \in Keys : Connect(k) \/ Poll(k)
  BY <1>1, <1>4 DEF PollLook, Look, Connect, Poll, writer
<1>5. CASE UNCHANGED vars
  BY <1>1, <1>5 DEF vars, writer
<1>. QED
  BY <1>2, <1>3, <1>4, <1>5, EmitKeeps, StartOpenKeeps, StartInstallKeeps DEF Next

(* A ring gives the newest lines of its process, all of them in a row,     *)
(* however often it wrapped (internal/daemon/logger.go:108-124), for every *)
(* capacity.                                                               *)
THEOREM RingsNewest == Spec => []RingIsNewest
<1>1. RingInv => RingIsNewest
  <2>. SUFFICES ASSUME RingInv, NEW p \in Processes, loggers[p] # NoRing,
                       NEW n \in 1..RingCap
                PROVE  LET tail == RingTail(loggers[p], n)
                       IN  /\ Len(tail) = IF n < loggers[p].len
                                          THEN n ELSE loggers[p].len
                           /\ \A i \in 1..Len(tail) :
                                 tail[i] = InRing(p) - Len(tail) + i
    BY DEF RingIsNewest
  <2>1. Holds(loggers[p], InRing(p))
    BY DEF RingInv, Rung
  <2>2. InRing(p) \in Int
    BY DEF RingInv, Shape, InRing
  <2>3. n \in Nat \ {0}
    BY RingAssumption
  <2>. QED
    BY <2>1, <2>2, <2>3, TailHolds
<1>. QED
  BY <1>1, Initially, Inductive, PTL DEF Spec

-----------------------------------------------------------------------------
(* Induction on a number, over a set: the theorems of the library about it *)
(* are about an operator.                                                  *)
LEMMA Induction ==
  ASSUME NEW S \in SUBSET Nat, 0 \in S, \A i \in S : i + 1 \in S
  PROVE  S = Nat
<1>. DEFINE Less == {ss \in Nat \X Nat : ss[1] < ss[2]}
            T == Nat \ S
<1>1. IsWellFoundedOn(Less, Nat)
  BY NatLessThanWellFounded DEF OpToRel
<1>. SUFFICES ASSUME T # {} PROVE FALSE
  OBVIOUS
<1>2. PICK x \in T : \A y \in T : <<y, x>> \notin Less
  <2>1. T \subseteq Nat
    OBVIOUS
  <2>. HIDE DEF Less, T
  <2>. QED
    BY <1>1, <2>1, WFMin
<1>3. x \in Nat \ {0} /\ x - 1 \in Nat /\ x - 1 + 1 = x
  OBVIOUS
<1>4. x - 1 \in S
  <2>1. <<x - 1, x>> \in Less
    BY <1>3
  <2>. HIDE DEF Less
  <2>. QED
    BY <1>2, <1>3, <2>1
<1>. QED
  BY <1>3, <1>4

(* What RecentForKeys has collected after each turn of its loop. *)
Collects(g, es, c, keys, n) ==
    g = [i \in 0..c |->
            IF i = 0 THEN <<>>
            ELSE IF Len(g[i-1]) < n /\ es[i].key \in keys
                 THEN Append(g[i-1], es[i])
                 ELSE g[i-1]]

LEMMA CollectsAt ==
  ASSUME NEW c, NEW es, NEW keys, NEW n, NEW g, Collects(g, es, c, keys, n), NEW i \in 0..c
  PROVE  g[i] = IF i = 0 THEN <<>>
                ELSE IF Len(g[i-1]) < n /\ es[i].key \in keys
                     THEN Append(g[i-1], es[i]) ELSE g[i-1]
BY DEF Collects

LEMMA CollectMore ==
  ASSUME NEW c \in Nat, NEW es, NEW keys, NEW n, NEW g, Collects(g, es, c, keys, n)
  PROVE  \E h : Collects(h, es, c + 1, keys, n)
<1>. DEFINE h == [i \in 0..(c + 1) |->
                     IF i <= c THEN g[i]
                     ELSE IF Len(g[c]) < n /\ es[i].key \in keys
                          THEN Append(g[c], es[i]) ELSE g[c]]
<1>1. \A i \in 0..c : h[i] = g[i]
  OBVIOUS
<1>2. \A i \in 0..(c + 1) :
         h[i] = IF i = 0 THEN <<>>
                ELSE IF Len(h[i-1]) < n /\ es[i].key \in keys
                     THEN Append(h[i-1], es[i]) ELSE h[i-1]
  <2>. SUFFICES ASSUME NEW i \in 0..(c + 1)
                PROVE  h[i] = IF i = 0 THEN <<>>
                              ELSE IF Len(h[i-1]) < n /\ es[i].key \in keys
                                   THEN Append(h[i-1], es[i]) ELSE h[i-1]
    OBVIOUS
  <2>1. CASE i = 0
    BY <1>1, <2>1 DEF Collects
  <2>2. CASE i \in 1..c
    <3>1. i - 1 \in 0..c /\ h[i-1] = g[i-1] /\ h[i] = g[i]
      BY <1>1, <2>2
    <3>2. g[i] = IF Len(g[i-1]) < n /\ es[i].key \in keys
                 THEN Append(g[i-1], es[i]) ELSE g[i-1]
      <4>1. i \in 0..c /\ i # 0
        BY <2>2
      <4>. QED
        BY <4>1, CollectsAt
    <3>. QED
      BY <2>2, <3>1, <3>2
  <2>3. CASE i = c + 1
    <3>1. h[i-1] = g[c]
      BY <1>1, <2>3
    <3>. QED
      BY <2>3, <3>1
  <2>. QED
    BY <2>1, <2>2, <2>3
<1>3. h = [i \in 0..(c + 1) |-> h[i]]
  OBVIOUS
<1>. HIDE DEF h
<1>. QED
  BY <1>2, <1>3 DEF Collects

LEMMA CollectAll ==
  ASSUME NEW c \in Nat, NEW es, NEW keys, NEW n
  PROVE  \E g : Collects(g, es, c, keys, n)
<1>. DEFINE S == {i \in Nat : \E g : Collects(g, es, i, keys, n)}
<1>1. 0 \in S
  <2>. DEFINE g == [i \in 0..0 |-> <<>>]
  <2>1. Collects(g, es, 0, keys, n)
    BY DEF Collects
  <2>. QED
    BY <2>1
<1>2. \A i \in S : i + 1 \in S
  BY CollectMore
<1>3. S = Nat
  <2>. HIDE DEF S
  <2>1. S \in SUBSET Nat
    BY DEF S
  <2>. QED
    BY <1>1, <1>2, <2>1, Induction
<1>. QED
  BY <1>3

(* t is the events with these keys among the first c, at most n, in order. *)
Picks(t, es, c, keys, n) ==
    \E m \in [1..Len(t) -> 1..c] :
       /\ \A j \in 1..Len(t) : t[j] = es[m[j]] /\ es[m[j]].key \in keys
       /\ \A j \in 1..(Len(t) - 1) : m[j] < m[j+1]
       /\ \A k \in 1..c : es[k].key \in keys =>
             /\ Len(t) > 0 => m[1] <= k
             /\ \A j \in 1..(Len(t) - 1) : m[j] < k => m[j+1] <= k
             /\ Len(t) < n => Len(t) > 0 /\ k <= m[Len(t)]

LEMMA PickMore ==
  ASSUME NEW E, NEW c \in Nat, NEW es, es[c+1] \in E, NEW keys, NEW n \in Nat,
         NEW t \in Seq(E), Picks(t, es, c, keys, n), NEW t2,
         t2 = IF Len(t) < n /\ es[c+1].key \in keys THEN Append(t, es[c+1]) ELSE t
  PROVE  t2 \in Seq(E) /\ Picks(t2, es, c + 1, keys, n)
<1>. DEFINE last == Len(t)
<1>1. last \in Nat
  OBVIOUS
<1>2. PICK m \in [1..last -> 1..c] :
         /\ \A j \in 1..last : t[j] = es[m[j]] /\ es[m[j]].key \in keys
         /\ \A j \in 1..(last - 1) : m[j] < m[j+1]
         /\ \A k \in 1..c : es[k].key \in keys =>
               /\ last > 0 => m[1] <= k
               /\ \A j \in 1..(last - 1) : m[j] < k => m[j+1] <= k
               /\ last < n => last > 0 /\ k <= m[last]
  BY DEF Picks
<1>3. CASE ~(last < n /\ es[c+1].key \in keys)
  <2>1. t2 = t
    BY <1>3
  <2>2. m \in [1..last -> 1..(c+1)]
    OBVIOUS
  <2>3. ASSUME NEW k \in 1..(c+1), es[k].key \in keys
        PROVE  /\ last > 0 => m[1] <= k
               /\ \A j \in 1..(last - 1) : m[j] < k => m[j+1] <= k
               /\ last < n => last > 0 /\ k <= m[last]
    <3>1. CASE k = c + 1
      <4>1. \A j \in 1..last : m[j] <= k
        BY <3>1
      <4>. QED
        BY <1>1, <1>3, <2>3, <3>1, <4>1
    <3>2. CASE k # c + 1
      BY <1>2, <2>3, <3>2
    <3>. QED
      BY <3>1, <3>2
  <2>4. Picks(t, es, c + 1, keys, n)
    BY <1>2, <2>2, <2>3 DEF Picks
  <2>. QED
    BY <2>1, <2>4
<1>4. CASE last < n /\ es[c+1].key \in keys
  <2>1. /\ t2 \in Seq(E) /\ Len(t2) = last + 1 /\ t2[last + 1] = es[c+1]
        /\ \A j \in 1..last : t2[j] = t[j]
    <3>1. t2 = Append(t, es[c+1])
      BY <1>4
    <3>. QED
      BY <3>1, AppendProperties
  <2>. DEFINE m2 == [j \in 1..(last + 1) |-> IF j <= last THEN m[j] ELSE c + 1]
  <2>2. /\ m2 \in [1..Len(t2) -> 1..(c+1)] /\ m2[last + 1] = c + 1
        /\ \A j \in 1..last : m2[j] = m[j]
    BY <1>1, <2>1
  <2>. HIDE DEF m2
  <2>3. ASSUME NEW j \in 1..Len(t2) PROVE t2[j] = es[m2[j]] /\ es[m2[j]].key \in keys
    <3>1. CASE j \in 1..last
      BY <1>2, <2>1, <2>2, <3>1
    <3>2. CASE j = last + 1
      BY <1>4, <2>1, <2>2, <3>2
    <3>. QED
      BY <1>1, <2>1, <3>1, <3>2
  <2>4. ASSUME NEW j \in 1..last PROVE m2[j] < m2[j+1]
    <3>1. CASE j \in 1..(last - 1)
      BY <1>1, <1>2, <2>2, <3>1
    <3>2. CASE j = last
      <4>1. m[j] \in 1..c
        OBVIOUS
      <4>. QED
        BY <2>2, <3>2, <4>1
    <3>. QED
      BY <1>1, <3>1, <3>2
  <2>5. ASSUME NEW k \in 1..(c+1), es[k].key \in keys
        PROVE  /\ m2[1] <= k
               /\ \A j \in 1..last : m2[j] < k => m2[j+1] <= k
               /\ k <= m2[last + 1]
    <3>1. CASE k = c + 1
      <4>1. \A j \in 1..(last + 1) : m2[j] <= k
        BY <2>1, <2>2, <3>1
      <4>. QED
        BY <1>1, <2>2, <3>1, <4>1
    <3>2. CASE k # c + 1
      <4>1. k \in 1..c /\ last > 0 /\ k <= m[last] /\ m[1] <= k
        BY <1>2, <1>4, <2>5, <3>2
      <4>2. ASSUME NEW j \in 1..last, m2[j] < k PROVE m2[j+1] <= k
        <5>1. CASE j \in 1..(last - 1)
          BY <1>1, <1>2, <2>2, <2>5, <4>1, <4>2, <5>1
        <5>2. CASE j = last
          <6>1. m[last] \in 1..c
            BY <5>2
          <6>. QED
            BY <2>2, <4>1, <4>2, <5>2, <6>1
        <5>. QED
          BY <1>1, <5>1, <5>2
      <4>. QED
        BY <1>1, <2>2, <4>1, <4>2
    <3>. QED
      BY <3>1, <3>2
  <2>6. Picks(t2, es, c + 1, keys, n)
    <3>1. Len(t2) - 1 = last /\ Len(t2) = last + 1 /\ Len(t2) > 0
      BY <1>1, <2>1
    <3>2. \A j \in 1..(Len(t2) - 1) : m2[j] < m2[j+1]
      BY <2>4, <3>1
    <3>3. \A k \in 1..(c + 1) : es[k].key \in keys =>
             /\ Len(t2) > 0 => m2[1] <= k
             /\ \A j \in 1..(Len(t2) - 1) : m2[j] < k => m2[j+1] <= k
             /\ Len(t2) < n => Len(t2) > 0 /\ k <= m2[Len(t2)]
      BY <2>5, <3>1
    <3>. QED
      BY <2>2, <2>3, <3>2, <3>3 DEF Picks
  <2>. QED
    BY <2>1, <2>6
<1>. QED
  BY <1>3, <1>4

LEMMA CollectsPicks ==
  ASSUME NEW E, NEW c \in Nat, NEW es, \A k \in 1..c : es[k] \in E, NEW keys,
         NEW n \in Nat, NEW g, Collects(g, es, c, keys, n)
  PROVE  g[c] \in Seq(E) /\ Picks(g[c], es, c, keys, n)
<1>. DEFINE Good(i) == i <= c => g[i] \in Seq(E) /\ Picks(g[i], es, i, keys, n)
            S == {i \in Nat : Good(i)}
<1>1. 0 \in S
  <2>1. g[0] = <<>>
    BY DEF Collects
  <2>2. Picks(<<>>, es, 0, keys, n)
    <3>. DEFINE m == [j \in 1..0 |-> j]
    <3>1. m \in [1..Len(<<>>) -> 1..0]
      OBVIOUS
    <3>2. Len(<<>>) = 0
      OBVIOUS
    <3>3. \A k \in 1..0 : FALSE
      OBVIOUS
    <3>4. \A k \in 1..Len(<<>>) : FALSE
      BY <3>2, <3>3
    <3>5. \A k \in 1..(Len(<<>>) - 1) : FALSE
      BY <3>2
    <3>. HIDE DEF m
    <3>. QED
      BY <3>1, <3>3, <3>4, <3>5 DEF Picks
  <2>3. <<>> \in Seq(E)
    OBVIOUS
  <2>4. g[0] \in Seq(E) /\ Picks(g[0], es, 0, keys, n)
    BY <2>1, <2>2, <2>3, Zenon
  <2>. QED
    BY <2>4
<1>2. ASSUME NEW i \in S PROVE i + 1 \in S
  <2>. SUFFICES ASSUME i + 1 <= c PROVE Good(i + 1)
    OBVIOUS
  <2>1. i \in Nat /\ i <= c /\ g[i] \in Seq(E) /\ Picks(g[i], es, i, keys, n)
    BY <1>2
  <2>2. g[i+1] = IF Len(g[i]) < n /\ es[i+1].key \in keys
                 THEN Append(g[i], es[i+1]) ELSE g[i]
    <3>1. i + 1 \in 0..c /\ i + 1 # 0 /\ i + 1 - 1 = i
      BY <2>1
    <3>. QED
      BY <3>1, CollectsAt
  <2>3. es[i+1] \in E
    BY <2>1
  <2>. HIDE DEF S
  <2>. QED
    BY <2>1, <2>2, <2>3, PickMore
<1>3. S = Nat
  <2>1. S \in SUBSET Nat
    OBVIOUS
  <2>. HIDE DEF S
  <2>. QED
    BY <1>1, <1>2, <2>1, Induction
<1>. QED
  BY <1>3

LEMMA RecentIs ==
  ASSUME NEW E, NEW r, r.count \in Nat, NEW keys, NEW n \in Nat,
         \A k \in 1..r.count : NewestFirst(r)[k] \in E
  PROVE  /\ RecentForKeys(r, keys, n) \in Seq(E)
         /\ Picks(RecentForKeys(r, keys, n), NewestFirst(r), r.count, keys, n)
<1>1. \E g : Collects(g, NewestFirst(r), r.count, keys, n)
  BY CollectAll
<1>2. PICK g : /\ Collects(g, NewestFirst(r), r.count, keys, n)
               /\ RecentForKeys(r, keys, n) = g[r.count]
  BY <1>1 DEF Collects, RecentForKeys
<1>3. PICK c, es : c = r.count /\ es = NewestFirst(r) /\ c \in Nat
  OBVIOUS
<1>4. g[c] \in Seq(E) /\ Picks(g[c], es, c, keys, n)
  BY <1>2, <1>3, CollectsPicks
<1>. QED
  BY <1>2, <1>3, <1>4

-----------------------------------------------------------------------------
(* The ErrorRing: the i-th newest event is i slots before the position.    *)
Slot(pos, i) == IF pos >= i THEN pos - i ELSE pos - i + ErrorCap

ErrForm(r) ==
    /\ r.pos \in 0..ErrorCap-1 /\ r.count \in 0..ErrorCap
    /\ r.events = [i \in 0..ErrorCap-1 |-> r.events[i]]

LEMMA NewestAt ==
  ASSUME NEW r, ErrForm(r), NEW i \in 1..r.count
  PROVE  NewestFirst(r)[i] = r.events[Slot(r.pos, i)]
<1>1. /\ ErrorCap \in Nat \ {0} /\ r.pos \in 0..ErrorCap-1
      /\ r.count \in 0..ErrorCap /\ i \in 1..ErrorCap
  BY ErrorAssumption DEF ErrForm
<1>. DEFINE a == r.pos - 1 - (i - 1) + ErrorCap
<1>2. NewestFirst(r)[i] = r.events[a % ErrorCap]
  BY DEF NewestFirst
<1>3. a % ErrorCap = Slot(r.pos, i)
  <2>1. a = r.pos - i + ErrorCap
    BY <1>1
  <2>. HIDE DEF a
  <2>2. CASE r.pos >= i
    <3>1. a \in ErrorCap..(2*ErrorCap - 1) /\ a - ErrorCap = r.pos - i
      BY <1>1, <2>1, <2>2
    <3>. QED
      BY <1>1, <2>2, <3>1, Modulo DEF Slot
  <2>3. CASE ~(r.pos >= i)
    <3>1. a \in 0..(ErrorCap - 1)
      BY <1>1, <2>1, <2>3
    <3>. QED
      BY <1>1, <2>1, <2>3, <3>1, Modulo DEF Slot
  <2>. QED
    BY <2>2, <2>3
<1>. QED
  BY <1>2, <1>3

(* A new event comes first and moves the others one place on; the one that *)
(* is overwritten is beyond what the ring gives afterwards.                *)
LEMMA AddNewest ==
  ASSUME NEW r, ErrForm(r), NEW e
  PROVE  LET s == ErrorAdd(r, e)
         IN  /\ ErrForm(s) /\ s.count > 0 /\ s.count <= r.count + 1
             /\ NewestFirst(s)[1] = e
             /\ \A i \in 2..s.count : NewestFirst(s)[i] = NewestFirst(r)[i-1]
<1>. DEFINE s == ErrorAdd(r, e)
<1>1. /\ ErrorCap \in Nat \ {0} /\ r.pos \in 0..ErrorCap-1
      /\ r.count \in 0..ErrorCap /\ r.events = [i \in 0..ErrorCap-1 |-> r.events[i]]
  BY ErrorAssumption DEF ErrForm
<1>2. /\ s.events = [r.events EXCEPT ![r.pos] = e]
      /\ s.pos = (r.pos + 1) % ErrorCap
      /\ s.count = IF r.count < ErrorCap THEN r.count + 1 ELSE r.count
  BY DEF ErrorAdd
<1>. HIDE DEF s
<1>3. s.pos = IF r.pos + 1 = ErrorCap THEN 0 ELSE r.pos + 1
  <2>1. CASE r.pos + 1 = ErrorCap
    <3>1. ErrorCap \in ErrorCap..(2*ErrorCap - 1) /\ ErrorCap - ErrorCap = 0
      BY <1>1
    <3>. QED
      BY <1>1, <1>2, <2>1, <3>1, Modulo
  <2>2. CASE r.pos + 1 # ErrorCap
    <3>1. r.pos + 1 \in 0..(ErrorCap - 1)
      BY <1>1, <2>2
    <3>. QED
      BY <1>1, <1>2, <2>2, <3>1, Modulo
  <2>. QED
    BY <2>1, <2>2
<1>4. s.count \in 1..ErrorCap /\ s.count <= r.count + 1
  BY <1>1, <1>2
<1>5. ErrForm(s)
  <2>1. s.events = [i \in 0..ErrorCap-1 |-> s.events[i]]
    BY <1>1, <1>2
  <2>2. s.pos \in 0..ErrorCap-1 /\ s.count \in 0..ErrorCap
    BY <1>1, <1>3, <1>4
  <2>. QED
    BY <2>1, <2>2 DEF ErrForm
<1>6. NewestFirst(s)[1] = e
  <2>1. Slot(s.pos, 1) = r.pos
    BY <1>1, <1>3 DEF Slot
  <2>2. s.events[r.pos] = e
    BY <1>1, <1>2
  <2>3. 1 \in 1..s.count
    BY <1>4
  <2>. QED
    BY <1>5, <2>1, <2>2, <2>3, NewestAt
<1>7. ASSUME NEW i \in 2..s.count
      PROVE  NewestFirst(s)[i] = NewestFirst(r)[i-1]
  <2>1. i - 1 \in 1..r.count /\ i \in 1..s.count /\ i - 1 < ErrorCap
    BY <1>1, <1>4
  <2>2. Slot(s.pos, i) = Slot(r.pos, i - 1)
    <3>1. i \in 2..ErrorCap
      BY <1>1, <1>4
    <3>2. CASE r.pos + 1 = ErrorCap
      <4>1. s.pos = 0 /\ r.pos = ErrorCap - 1
        BY <1>1, <1>3, <3>2
      <4>2. Slot(0, i) = ErrorCap - i /\ Slot(ErrorCap - 1, i - 1) = ErrorCap - i
        BY <1>1, <3>1 DEF Slot
      <4>. QED
        BY <4>1, <4>2
    <3>3. CASE r.pos + 1 # ErrorCap
      <4>1. PICK a \in Nat : a = r.pos
        BY <1>1
      <4>2. s.pos = a + 1
        BY <1>3, <3>3, <4>1
      <4>3. Slot(a + 1, i) = Slot(a, i - 1)
        BY <1>1, <3>1, <4>1 DEF Slot
      <4>. QED
        BY <4>1, <4>2, <4>3
    <3>. QED
      BY <3>2, <3>3
  <2>3. Slot(r.pos, i - 1) # r.pos /\ Slot(r.pos, i - 1) \in 0..ErrorCap-1
    BY <1>1, <2>1 DEF Slot
  <2>4. s.events[Slot(r.pos, i - 1)] = r.events[Slot(r.pos, i - 1)]
    BY <1>1, <1>2, <2>3
  <2>5. NewestFirst(s)[i] = s.events[Slot(s.pos, i)]
    BY <1>5, <2>1, NewestAt
  <2>6. NewestFirst(r)[i-1] = r.events[Slot(r.pos, i - 1)]
    BY <2>1, NewestAt
  <2>. QED
    BY <2>2, <2>4, <2>5, <2>6
<1>8. s.count > 0
  BY <1>4
<1>. QED
  BY <1>4, <1>5, <1>6, <1>7, <1>8 DEF s

(* The c events es, newest first, are about lines that match a pattern; an *)
(* error line of a process that is newer than an event of it has an event  *)
(* before that one, or is a separator.                                     *)
Raised(e) == Last(e.lines)

Recorded(es, c, o, ss) ==
    /\ \A i \in 1..c :
          /\ es[i].key \in Processes
          /\ Raised(es[i]) \in ErrorLines /\ Raised(es[i]) <= o[es[i].key]
    /\ \A i \in 1..c, l \in ErrorLines :
          Raised(es[i]) < l /\ l <= o[es[i].key] =>
             \/ <<es[i].key, l>> \in ss
             \/ \E k \in 1..(i - 1) : es[k].key = es[i].key /\ Raised(es[k]) = l
    /\ \A i, j \in 1..c :
          i < j /\ es[i].key = es[j].key => Raised(es[j]) < Raised(es[i])

(* More lines, of which the error lines are separators. *)
LEMMA RecordedOn ==
  ASSUME NEW es, NEW c \in Nat, NEW o \in [Processes -> Nat], NEW ss,
         Recorded(es, c, o, ss),
         NEW o2 \in [Processes -> Nat], NEW ss2, ss \subseteq ss2,
         \A q \in Processes : o[q] <= o2[q],
         \A q \in Processes, l \in ErrorLines :
            o[q] < l /\ l <= o2[q] => <<q, l>> \in ss2
  PROVE  Recorded(es, c, o2, ss2)
<1>1. ErrorLines \subseteq Nat
  BY LineAssumption
<1>2. ASSUME NEW i \in 1..c
      PROVE  /\ es[i].key \in Processes
             /\ Raised(es[i]) \in ErrorLines /\ Raised(es[i]) <= o2[es[i].key]
  <2>1. /\ es[i].key \in Processes /\ Raised(es[i]) \in ErrorLines
        /\ Raised(es[i]) <= o[es[i].key]
    BY DEF Recorded
  <2>2. PICK q \in Processes, l \in Nat : q = es[i].key /\ l = Raised(es[i])
    BY <1>1, <2>1
  <2>. QED
    BY <2>1, <2>2
<1>3. ASSUME NEW i \in 1..c, NEW l \in ErrorLines,
             Raised(es[i]) < l, l <= o2[es[i].key]
      PROVE  \/ <<es[i].key, l>> \in ss2
             \/ \E k \in 1..(i - 1) : es[k].key = es[i].key /\ Raised(es[k]) = l
  <2>1. PICK q \in Processes : q = es[i].key
    BY <1>2
  <2>2. CASE l <= o[q]
    BY <1>3, <2>1, <2>2 DEF Recorded
  <2>3. CASE ~(l <= o[q])
    BY <1>1, <1>3, <2>1, <2>3
  <2>. QED
    BY <2>2, <2>3
<1>4. \A i, j \in 1..c :
         i < j /\ es[i].key = es[j].key => Raised(es[j]) < Raised(es[i])
  BY DEF Recorded
<1>. QED
  BY <1>2, <1>3, <1>4 DEF Recorded

(* A line that matches a pattern, and its event. *)
LEMMA RecordedMore ==
  ASSUME NEW es, NEW c \in Nat, NEW o \in [Processes -> Nat], NEW ss,
         Recorded(es, c, o, ss),
         NEW p \in Processes, NEW o2, o2 = [o EXCEPT ![p] = o[p] + 1],
         NEW es2, NEW c2 \in Nat, c2 <= c + 1,
         \A i \in 2..c2 : es2[i] = es[i-1],
         es2[1].key = p, Raised(es2[1]) = o[p] + 1, o[p] + 1 \in ErrorLines
  PROVE  Recorded(es2, c2, o2, ss)
<1>1. ErrorLines \subseteq Nat
  BY LineAssumption
<1>2. /\ o2 \in [Processes -> Nat] /\ o2[p] = o[p] + 1
      /\ \A q \in Processes : q # p => o2[q] = o[q]
  OBVIOUS
<1>3. ASSUME NEW i \in 2..c2
      PROVE  /\ i - 1 \in 1..c /\ es2[i] = es[i-1]
             /\ es2[i].key \in Processes /\ Raised(es2[i]) \in ErrorLines
             /\ Raised(es2[i]) <= o[es2[i].key]
  <2>1. i - 1 \in 1..c /\ es2[i] = es[i-1]
    OBVIOUS
  <2>. QED
    BY <2>1 DEF Recorded
<1>4. ASSUME NEW i \in 1..c2
      PROVE  /\ es2[i].key \in Processes
             /\ Raised(es2[i]) \in ErrorLines /\ Raised(es2[i]) <= o2[es2[i].key]
  <2>1. CASE i = 1
    <3>1. o[p] + 1 <= o[p] + 1
      OBVIOUS
    <3>. QED
      BY <1>2, <2>1, <3>1
  <2>2. CASE i # 1
    <3>1. i \in 2..c2
      BY <2>2
    <3>2. PICK q \in Processes, l \in Nat : q = es2[i].key /\ l = Raised(es2[i])
      BY <1>1, <1>3, <3>1
    <3>3. l <= o[q] /\ l \in ErrorLines
      BY <1>3, <3>1, <3>2
    <3>4. l <= o2[q]
      BY <1>2, <3>3
    <3>. QED
      BY <3>2, <3>3, <3>4
  <2>. QED
    BY <2>1, <2>2
<1>5. ASSUME NEW i \in 1..c2, NEW l \in ErrorLines,
             Raised(es2[i]) < l, l <= o2[es2[i].key]
      PROVE  \/ <<es2[i].key, l>> \in ss
             \/ \E k \in 1..(i - 1) : es2[k].key = es2[i].key /\ Raised(es2[k]) = l
  <2>1. CASE i = 1
    <3>1. o[p] + 1 < l /\ l <= o[p] + 1 /\ l \in Nat /\ o[p] \in Nat
      BY <1>1, <1>2, <1>5, <2>1
    <3>. QED
      BY <3>1
  <2>2. CASE i # 1
    <3>1. i \in 2..c2
      BY <2>2
    <3>2. PICK q \in Processes : q = es2[i].key
      BY <1>3, <3>1
    <3>3. CASE q = p /\ l = o[p] + 1
      <4>1. 1 \in 1..(i - 1) /\ es2[1].key = q /\ Raised(es2[1]) = l
        BY <3>1, <3>3
      <4>. QED
        BY <3>2, <4>1
    <3>4. CASE ~(q = p /\ l = o[p] + 1)
      <4>1. l <= o[q]
        <5>1. l \in Nat /\ o[q] \in Nat /\ l <= o2[q]
          BY <1>1, <1>5, <3>2
        <5>. QED
          BY <1>2, <3>4, <5>1
      <4>2. Raised(es[i-1]) < l /\ es[i-1].key = q /\ i - 1 \in 1..c
        BY <1>3, <1>5, <3>1, <3>2
      <4>3. \/ <<q, l>> \in ss
            \/ \E k \in 1..(i - 1 - 1) : es[k].key = q /\ Raised(es[k]) = l
        BY <4>1, <4>2 DEF Recorded
      <4>4. ASSUME NEW k \in 1..(i - 1 - 1), es[k].key = q, Raised(es[k]) = l
            PROVE  \E h \in 1..(i - 1) : es2[h].key = q /\ Raised(es2[h]) = l
        <5>1. k + 1 \in 1..(i - 1) /\ k + 1 \in 2..c2 /\ k + 1 - 1 = k
          BY <3>1
        <5>2. es2[k+1] = es[k]
          BY <5>1
        <5>. QED
          BY <4>4, <5>1, <5>2
      <4>. QED
        BY <3>2, <4>3, <4>4
    <3>. QED
      BY <3>3, <3>4
  <2>. QED
    BY <2>1, <2>2
<1>6. ASSUME NEW i \in 1..c2, NEW j \in 1..c2, i < j, es2[i].key = es2[j].key
      PROVE  Raised(es2[j]) < Raised(es2[i])
  <2>1. j \in 2..c2
    BY <1>6
  <2>2. CASE i = 1
    <3>1. PICK l \in Nat : l = Raised(es2[j])
      BY <1>1, <1>3, <2>1
    <3>2. l <= o[p] /\ o[p] \in Nat
      BY <1>3, <1>6, <2>1, <2>2, <3>1
    <3>3. l < o[p] + 1
      BY <3>2
    <3>. QED
      BY <2>2, <3>1, <3>3
  <2>3. CASE i # 1
    <3>1. i \in 2..c2
      BY <2>3
    <3>2. /\ i - 1 \in 1..c /\ j - 1 \in 1..c /\ i - 1 < j - 1
          /\ es2[i] = es[i-1] /\ es2[j] = es[j-1]
      BY <1>3, <1>6, <2>1, <3>1
    <3>. QED
      BY <1>6, <3>2 DEF Recorded
  <2>. QED
    BY <2>2, <2>3
<1>. QED
  BY <1>4, <1>5, <1>6 DEF Recorded

-----------------------------------------------------------------------------
ErrorsHeld(r, o, ss) == ErrForm(r) /\ Recorded(NewestFirst(r), r.count, o, ss)

ErrInv == ErrorsHeld(errRing, out, seps)

LEMMA ErrorsInit == Init => ErrInv
<1>. SUFFICES ASSUME Init PROVE ErrInv
  OBVIOUS
<1>1. errRing = EmptyErrors /\ ErrorCap \in Nat \ {0}
  BY ErrorAssumption DEF Init
<1>2. /\ errRing.pos = 0 /\ errRing.count = 0
      /\ errRing.events = [i \in 0..ErrorCap-1 |-> <<>>]
  BY <1>1 DEF EmptyErrors
<1>3. ErrForm(errRing)
  BY <1>1, <1>2 DEF ErrForm
<1>4. \A i \in 1..errRing.count : FALSE
  BY <1>2
<1>5. Recorded(NewestFirst(errRing), errRing.count, out, seps)
  BY <1>4 DEF Recorded
<1>. QED
  BY <1>3, <1>5 DEF ErrInv, ErrorsHeld

(* The event of a line ends with that line. *)
LEMMA EventRaised ==
  ASSUME NEW top \in Int, NEW r, Holds(r, top), r.len > 0, NEW p
  PROVE  Raised([key |-> p, lines |-> RingTail(r, ErrorContext)]) = top
<1>. DEFINE tail == RingTail(r, ErrorContext)
<1>1. ErrorContext \in Nat \ {0} /\ r.len \in Nat
  BY LineAssumption, RingAssumption DEF Holds, RingType
<1>2. /\ Len(tail) = IF ErrorContext < r.len THEN ErrorContext ELSE r.len
      /\ \A i \in 1..Len(tail) : tail[i] = top - Len(tail) + i
  BY <1>1, TailHolds
<1>. HIDE DEF tail
<1>3. Len(tail) \in Nat \ {0}
  BY <1>1, <1>2
<1>4. tail[Len(tail)] = top
  <2>1. tail[Len(tail)] = top - Len(tail) + Len(tail)
    BY <1>2, <1>3
  <2>. QED
    BY <1>3, <2>1
<1>. QED
  BY <1>4 DEF Raised, Last, tail

LEMMA ErrorsOn ==
  ASSUME NEW r, NEW o \in [Processes -> Nat], NEW ss, ErrorsHeld(r, o, ss),
         NEW o2 \in [Processes -> Nat], NEW ss2, ss \subseteq ss2,
         \A q \in Processes : o[q] <= o2[q],
         \A q \in Processes, l \in ErrorLines :
            o[q] < l /\ l <= o2[q] => <<q, l>> \in ss2
  PROVE  ErrorsHeld(r, o2, ss2)
<1>1. ErrForm(r) /\ r.count \in Nat
  BY ErrorAssumption DEF ErrorsHeld, ErrForm
<1>2. PICK es, c : es = NewestFirst(r) /\ c = r.count /\ c \in Nat
  BY <1>1
<1>3. Recorded(es, c, o, ss)
  BY <1>2 DEF ErrorsHeld
<1>4. Recorded(es, c, o2, ss2)
  BY <1>2, <1>3, RecordedOn
<1>. QED
  BY <1>1, <1>2, <1>4 DEF ErrorsHeld

LEMMA ErrorsMore ==
  ASSUME NEW r, NEW o \in [Processes -> Nat], NEW ss, ErrorsHeld(r, o, ss),
         NEW p \in Processes, NEW o2, o2 = [o EXCEPT ![p] = o[p] + 1],
         NEW e, e.key = p, Raised(e) = o[p] + 1, o[p] + 1 \in ErrorLines
  PROVE  ErrorsHeld(ErrorAdd(r, e), o2, ss)
<1>1. ErrForm(r) /\ r.count \in Nat
  BY ErrorAssumption DEF ErrorsHeld, ErrForm
<1>2. PICK s : s = ErrorAdd(r, e)
  OBVIOUS
<1>3. /\ ErrForm(s) /\ s.count > 0 /\ s.count <= r.count + 1
      /\ NewestFirst(s)[1] = e
      /\ \A i \in 2..s.count : NewestFirst(s)[i] = NewestFirst(r)[i-1]
  BY <1>1, <1>2, AddNewest
<1>4. s.count \in Nat
  BY <1>3, ErrorAssumption DEF ErrForm
<1>5. PICK es, c, es2, c2 :
         /\ es = NewestFirst(r) /\ c = r.count /\ c \in Nat
         /\ es2 = NewestFirst(s) /\ c2 = s.count /\ c2 \in Nat
  BY <1>1, <1>4
<1>6. Recorded(es, c, o, ss)
  BY <1>5 DEF ErrorsHeld
<1>7. /\ c2 <= c + 1 /\ \A i \in 2..c2 : es2[i] = es[i-1]
      /\ es2[1].key = p /\ Raised(es2[1]) = o[p] + 1
  BY <1>3, <1>5
<1>8. Recorded(es2, c2, o2, ss)
  BY <1>5, <1>6, <1>7, RecordedMore
<1>. QED
  BY <1>2, <1>3, <1>5, <1>8 DEF ErrorsHeld

LEMMA EmitErrors ==
  ASSUME RingInv, ErrInv, NEW p \in Processes, Emit(p)
  PROVE  ErrInv'
<1>1. /\ p \in running /\ out[p] < MaxLines
      /\ out' = [out EXCEPT ![p] = out[p] + 1] /\ seps' = seps
      /\ errRing' = IF out[p] + 1 \in ErrorLines
                    THEN ErrorAdd(errRing,
                           [key |-> p,
                            lines |-> RingTail(RingAdd(loggers[p], out[p] + 1),
                                               ErrorContext)])
                    ELSE errRing
  BY DEF Emit
<1>2. out \in [Processes -> Nat] /\ out[p] \in Nat /\ MaxLines \in Nat
  BY LineAssumption DEF RingInv, Shape
<1>3. PICK r, o, ss : /\ r = errRing /\ o = out /\ ss = seps
                      /\ o \in [Processes -> Nat]
  BY <1>2
<1>4. PICK o2 \in [Processes -> Nat] : o2 = out' /\ o2 = [o EXCEPT ![p] = o[p] + 1]
  <2>1. out' \in [Processes -> Nat]
    BY <1>1, <1>2
  <2>. QED
    BY <1>1, <1>3, <2>1
<1>5. ErrorsHeld(r, o, ss)
  BY <1>3 DEF ErrInv
<1>6. CASE o[p] + 1 \in ErrorLines
  <2>1. Holds(loggers[p], out[p]) /\ out[p] + 1 \in 0..MaxLines
    BY <1>1, <1>2 DEF RingInv, Rung, InRing
  <2>2. PICK ring : /\ ring = RingAdd(loggers[p], out[p] + 1)
                    /\ Holds(ring, out[p] + 1) /\ ring.len > 0
    BY <1>2, <2>1, AddHolds
  <2>3. PICK e : e = [key |-> p, lines |-> RingTail(ring, ErrorContext)]
    OBVIOUS
  <2>4. e.key = p /\ Raised(e) = o[p] + 1
    BY <1>2, <1>3, <2>2, <2>3, EventRaised
  <2>5. ErrorsHeld(ErrorAdd(r, e), o2, ss)
    BY <1>3, <1>4, <1>5, <1>6, <2>4, ErrorsMore
  <2>6. errRing' = ErrorAdd(r, e)
    BY <1>1, <1>3, <1>6, <2>2, <2>3
  <2>. QED
    BY <1>1, <1>3, <1>4, <2>5, <2>6 DEF ErrInv
<1>7. CASE o[p] + 1 \notin ErrorLines
  <2>1. ErrorLines \subseteq Nat
    BY LineAssumption
  <2>2. /\ \A q \in Processes : o[q] <= o2[q]
        /\ \A q \in Processes, l \in ErrorLines :
              o[q] < l /\ l <= o2[q] => <<q, l>> \in ss
    BY <1>3, <1>4, <1>7, <2>1
  <2>3. ErrorsHeld(r, o2, ss)
    BY <1>3, <1>5, <2>2, ErrorsOn
  <2>. QED
    BY <1>1, <1>3, <1>4, <1>7, <2>3 DEF ErrInv
<1>. QED
  BY <1>6, <1>7

LEMMA StartErrors ==
  ASSUME RingInv, ErrInv, NEW p \in Processes, StartOpen(p)
  PROVE  ErrInv'
<1>1. /\ errRing' = errRing
      /\ \/ out' = out /\ seps' = seps
         \/ /\ out' = [out EXCEPT ![p] = out[p] + 1]
            /\ seps' = seps \cup {<<p, out[p] + 1>>}
  BY DEF StartOpen
<1>2. out \in [Processes -> Nat]
  BY DEF RingInv, Shape
<1>3. CASE out' = out /\ seps' = seps
  BY <1>1, <1>3 DEF ErrInv
<1>4. CASE /\ out' = [out EXCEPT ![p] = out[p] + 1]
           /\ seps' = seps \cup {<<p, out[p] + 1>>}
  <2>1. PICK r, o, ss : /\ r = errRing /\ o = out /\ ss = seps
                      /\ o \in [Processes -> Nat]
    BY <1>2
  <2>2. out' \in [Processes -> Nat]
    BY <1>2, <1>4
  <2>3. PICK o2, ss2 :
           /\ o2 \in [Processes -> Nat] /\ o2 = out' /\ o2 = [o EXCEPT ![p] = o[p] + 1]
           /\ ss2 = seps' /\ ss2 = ss \cup {<<p, o[p] + 1>>}
    BY <1>4, <2>1, <2>2
  <2>4. ErrorsHeld(r, o, ss)
    BY <2>1 DEF ErrInv
  <2>5. ErrorLines \subseteq Nat
    BY LineAssumption
  <2>6. /\ \A q \in Processes : o[q] <= o2[q]
        /\ \A q \in Processes, l \in ErrorLines :
              o[q] < l /\ l <= o2[q] => <<q, l>> \in ss2
    BY <2>1, <2>3, <2>5
  <2>7. ErrorsHeld(r, o2, ss2)
    <3>1. ss \subseteq ss2
      BY <2>3
    <3>. QED
      BY <2>1, <2>3, <2>4, <2>6, <3>1, ErrorsOn
  <2>. QED
    BY <1>1, <2>1, <2>3, <2>7 DEF ErrInv
<1>. QED
  BY <1>1, <1>3, <1>4

LEMMA ErrorsKept == RingInv /\ ErrInv /\ [Next]_vars => ErrInv'
<1>. SUFFICES ASSUME RingInv, ErrInv, [Next]_vars PROVE ErrInv'
  OBVIOUS
<1>1. ASSUME UNCHANGED <<errRing, out, seps>> PROVE ErrInv'
  BY <1>1 DEF ErrInv
<1>2. CASE RemoveProject
  BY <1>1, <1>2 DEF RemoveProject
<1>3. ASSUME NEW p \in Processes,
             \/ StartInstall(p) \/ StartUnlogged(p) \/ Exit(p)
             \/ FollowLook(p) \/ FollowAsk(p) \/ FollowOpen(p) \/ FollowRead(p)
      PROVE  ErrInv'
  BY <1>1, <1>3
     DEF StartInstall, StartUnlogged, Exit, FollowLook, Look, FollowAsk, FollowOpen,
         FollowRead, writer
<1>4. CASE PollLook \/ \E k \in Keys : Connect(k) \/ Poll(k)
  BY <1>1, <1>4 DEF PollLook, Look, Connect, Poll, writer
<1>5. CASE UNCHANGED vars
  BY <1>1, <1>5 DEF vars, writer
<1>. QED
  BY <1>2, <1>3, <1>4, <1>5, EmitErrors, StartErrors DEF Next

(* Events of p, newest first, and none is missing but those of separators. *)
NoneMissing(t, p, o, ss) ==
    /\ \A i \in 1..Len(t) : Raised(t[i]) \in ErrorLines
    /\ \A i \in 1..(Len(t) - 1) :
          /\ Raised(t[i+1]) < Raised(t[i])
          /\ \A l \in (Raised(t[i+1]) + 1)..(Raised(t[i]) - 1) :
                l \notin ErrorLines \/ <<p, l>> \in ss
    /\ \A l \in ErrorLines :
          l \in 1..o[p] /\ t # <<>> /\ l > Raised(t[1]) => <<p, l>> \in ss

LEMMA PickedNewest ==
  ASSUME NEW es, NEW c \in Nat, NEW o \in [Processes -> Nat], NEW ss,
         Recorded(es, c, o, ss), NEW p \in Processes, NEW n \in Nat,
         NEW E, NEW t \in Seq(E), Picks(t, es, c, {p}, n)
  PROVE  NoneMissing(t, p, o, ss)
<1>1. Len(t) \in Nat /\ ErrorLines \subseteq Nat /\ (t # <<>> => Len(t) > 0)
  BY LineAssumption
<1>2. PICK m \in [1..Len(t) -> 1..c] :
         /\ \A j \in 1..Len(t) : t[j] = es[m[j]] /\ es[m[j]].key \in {p}
         /\ \A j \in 1..(Len(t) - 1) : m[j] < m[j+1]
         /\ \A k \in 1..c : es[k].key \in {p} =>
               /\ Len(t) > 0 => m[1] <= k
               /\ \A j \in 1..(Len(t) - 1) : m[j] < k => m[j+1] <= k
  BY DEF Picks
<1>3. ASSUME NEW i \in 1..Len(t)
      PROVE  /\ m[i] \in 1..c /\ t[i] = es[m[i]] /\ es[m[i]].key = p
             /\ Raised(t[i]) \in ErrorLines /\ Raised(t[i]) <= o[p]
  <2>1. m[i] \in 1..c /\ t[i] = es[m[i]] /\ es[m[i]].key = p
    BY <1>2
  <2>. QED
    BY <2>1 DEF Recorded
<1>4. ASSUME NEW i \in 1..(Len(t) - 1)
      PROVE  /\ Raised(t[i+1]) < Raised(t[i])
             /\ \A l \in (Raised(t[i+1]) + 1)..(Raised(t[i]) - 1) :
                   l \notin ErrorLines \/ <<p, l>> \in ss
  <2>1. i \in 1..Len(t) /\ i + 1 \in 1..Len(t)
    BY <1>1
  <2>2. PICK a \in 1..c, b \in 1..c : a = m[i] /\ b = m[i+1]
    BY <1>3, <2>1
  <2>3. /\ t[i] = es[a] /\ es[a].key = p /\ t[i+1] = es[b] /\ es[b].key = p
        /\ a < b
        /\ \A k \in 1..c : es[k].key = p /\ a < k => b <= k
    BY <1>2, <1>3, <2>1, <2>2
  <2>4. PICK x \in Nat, y \in Nat : x = Raised(es[a]) /\ y = Raised(es[b])
    BY <1>1, <1>3, <2>1, <2>3
  <2>5. y < x /\ x <= o[p]
    BY <1>3, <2>1, <2>3, <2>4 DEF Recorded
  <2>6. ASSUME NEW l \in (y + 1)..(x - 1), l \in ErrorLines
        PROVE  <<p, l>> \in ss
    <3>1. y < l /\ l < x /\ l <= o[p]
      BY <2>5
    <3>2. \/ <<p, l>> \in ss
          \/ \E k \in 1..(b - 1) : es[k].key = p /\ Raised(es[k]) = l
      <4>1. /\ Raised(es[b]) < l /\ l <= o[es[b].key] /\ l \in ErrorLines
            /\ b \in 1..c /\ es[b].key = p
        BY <2>3, <2>4, <2>6, <3>1
      <4>. QED
        BY <4>1 DEF Recorded
    <3>3. ASSUME NEW k \in 1..(b - 1), es[k].key = p, Raised(es[k]) = l
          PROVE  FALSE
      <4>1. k \in 1..c /\ k < b
        OBVIOUS
      <4>2. k <= a
        BY <2>3, <3>3, <4>1
      <4>3. CASE k = a
        BY <2>4, <3>1, <3>3, <4>3
      <4>4. CASE k < a
        <5>1. x < l
          BY <2>3, <2>4, <3>3, <4>1, <4>4 DEF Recorded
        <5>. QED
          BY <3>1, <5>1
      <4>. QED
        BY <4>2, <4>3, <4>4
    <3>. QED
      BY <3>2, <3>3
  <2>. QED
    BY <2>3, <2>4, <2>5, <2>6
<1>5. ASSUME NEW l \in ErrorLines, l \in 1..o[p], t # <<>>, l > Raised(t[1])
      PROVE  <<p, l>> \in ss
  <2>1. 1 \in 1..Len(t)
    BY <1>1, <1>5
  <2>2. PICK a \in 1..c : a = m[1]
    BY <1>3, <2>1
  <2>3. /\ t[1] = es[a] /\ es[a].key = p
        /\ \A k \in 1..c : es[k].key = p => a <= k
    BY <1>2, <1>3, <2>1, <2>2
  <2>4. PICK x \in Nat : x = Raised(es[a])
    BY <1>1, <1>3, <2>1, <2>3
  <2>5. x < l /\ l <= o[p]
    BY <1>1, <1>5, <2>3, <2>4
  <2>6. \/ <<p, l>> \in ss
        \/ \E k \in 1..(a - 1) : es[k].key = p /\ Raised(es[k]) = l
    BY <2>3, <2>4, <2>5 DEF Recorded
  <2>. QED
    BY <2>3, <2>6
<1>. QED
  BY <1>3, <1>4, <1>5 DEF NoneMissing

LEMMA ErrorsRead ==
  ASSUME RingInv, ErrInv
  PROVE  ErrorsAreNewest
<1>. SUFFICES ASSUME NEW p \in Processes, NEW n \in 1..ErrorCap
              PROVE  LET events == RecentForKeys(errRing, {p}, n)
                         raised(e) == Last(e.lines)
                     IN  /\ \A i \in 1..Len(events) : raised(events[i]) \in ErrorLines
                         /\ \A i \in 1..(Len(events) - 1) :
                               /\ raised(events[i+1]) < raised(events[i])
                               /\ \A l \in (raised(events[i+1]) + 1)
                                             ..(raised(events[i]) - 1) :
                                     l \notin ErrorLines \/ <<p, l>> \in seps
                         /\ \A l \in ErrorLines :
                               /\ l \in 1..out[p] /\ events # <<>>
                               /\ l > raised(events[1])
                               => <<p, l>> \in seps
  BY DEF ErrorsAreNewest
<1>1. PICK r, o, ss : /\ r = errRing /\ o = out /\ ss = seps
                      /\ o \in [Processes -> Nat]
  BY DEF RingInv, Shape
<1>2. ErrForm(r) /\ r.count \in Nat /\ Recorded(NewestFirst(r), r.count, o, ss)
  BY <1>1, ErrorAssumption DEF ErrInv, ErrorsHeld, ErrForm
<1>3. n \in Nat
  BY ErrorAssumption
<1>4. PICK es, c : es = NewestFirst(r) /\ c = r.count /\ c \in Nat
  BY <1>2
<1>. DEFINE E == {es[k] : k \in 1..c}
<1>5. \A k \in 1..c : es[k] \in E
  OBVIOUS
<1>. HIDE DEF E
<1>6. PICK t \in Seq(E) : t = RecentForKeys(r, {p}, n) /\ Picks(t, es, c, {p}, n)
  <2>1. /\ RecentForKeys(r, {p}, n) \in Seq(E)
        /\ Picks(RecentForKeys(r, {p}, n), NewestFirst(r), r.count, {p}, n)
    BY <1>2, <1>3, <1>4, <1>5, RecentIs
  <2>. QED
    BY <1>4, <2>1
<1>7. Recorded(es, c, o, ss)
  BY <1>2, <1>4
<1>8. NoneMissing(t, p, o, ss)
  BY <1>1, <1>3, <1>4, <1>6, <1>7, PickedNewest
<1>. QED
  BY <1>1, <1>6, <1>8 DEF NoneMissing, Raised

(* The events of a process are given newest first, without a gap, and each *)
(* ends with the line that raised it (errors.go:46-62, logger.go:98-105),  *)
(* for every capacity and any number of processes that share the ring.     *)
THEOREM ErrorsNewest == Spec => []ErrorsAreNewest
<1>1. Init => RingInv /\ ErrInv
  BY Initially, ErrorsInit
<1>2. RingInv /\ ErrInv /\ [Next]_vars => (RingInv /\ ErrInv)'
  BY Inductive, ErrorsKept
<1>3. RingInv /\ ErrInv => ErrorsAreNewest
  BY ErrorsRead
<1>. QED
  BY <1>1, <1>2, <1>3, PTL DEF Spec

-----------------------------------------------------------------------------
(* What a reader of the lines of one process is shown is a sequence of     *)
(* pairs of the process and a number.  The lines of a source are a block:  *)
(* the len lines up to top.                                                *)
Lo(a, b) == IF a < b THEN a ELSE b
Block(p, top, len) == [i \in 1..len |-> <<p, top - len + i>>]
Mark(s) == s[Len(s)][2]

Climbs(s, ss) ==
    \A i \in 1..(Len(s) - 1) :
        s[i][2] < s[i+1][2] \/ (s[i] = s[i+1] /\ s[i] \in ss)
Steps(s) == \A i \in 1..(Len(s) - 1) : s[i+1][2] = s[i][2] + 1

LEMMA Blocks ==
  ASSUME NEW p, NEW top \in Int, NEW len \in Nat
  PROVE  /\ Block(p, top, len) \in Seq({p} \X Int)
         /\ Len(Block(p, top, len)) = len
         /\ \A i \in 1..len : Block(p, top, len)[i] = <<p, top - len + i>>
         /\ \A at \in 0..len : SubSeq(Block(p, top, len), at + 1, len)
                                = Block(p, top, len - at)
<1>. DEFINE b == Block(p, top, len)
<1>1. b \in Seq({p} \X Int) /\ Len(b) = len
  BY DEF Block
<1>2. \A i \in 1..len : b[i] = <<p, top - len + i>>
  BY DEF Block
<1>3. ASSUME NEW at \in 0..len
      PROVE  SubSeq(b, at + 1, len) = Block(p, top, len - at)
  <2>. DEFINE c == Block(p, top, len - at)
              d == SubSeq(b, at + 1, len)
  <2>1. c \in Seq({p} \X Int) /\ Len(c) = len - at
    BY DEF Block
  <2>2. \A i \in 1..(len - at) : c[i] = <<p, top - (len - at) + i>>
    BY DEF Block
  <2>3. d \in Seq({p} \X Int) /\ Len(d) = len - at
        /\ \A i \in 1..(len - at) : d[i] = b[at + i]
    <3>. HIDE DEF b
    <3>1. at + 1 \in 1..(Len(b) + 1) /\ len \in ((at + 1) - 1)..Len(b)
          /\ len - (at + 1) + 1 = len - at
      BY <1>1
    <3>2. /\ d \in Seq({p} \X Int) /\ Len(d) = len - (at + 1) + 1
          /\ \A i \in 1..(len - (at + 1) + 1) : d[i] = b[at + 1 + i - 1]
      BY <1>1, <3>1, SubSeqProperties
    <3>3. \A i \in 1..(len - at) : at + 1 + i - 1 = at + i
      OBVIOUS
    <3>. QED
      BY <3>1, <3>2, <3>3
  <2>4. \A i \in 1..(len - at) : d[i] = c[i]
    <3>. SUFFICES ASSUME NEW i \in 1..(len - at) PROVE d[i] = c[i]
      OBVIOUS
    <3>1. at + i \in 1..len /\ top - len + (at + i) = top - (len - at) + i
      OBVIOUS
    <3>. HIDE DEF b, c, d
    <3>. QED
      BY <1>2, <2>2, <2>3, <3>1
  <2>. HIDE DEF c, d
  <2>. QED
    BY <2>1, <2>3, <2>4, SeqEqual DEF c, d
<1>. QED
  BY <1>1, <1>2, <1>3

(* A block appended to what was shown adds lines that are in a row.        *)
Extends(t, s, p, top, len) ==
    /\ top \in Int /\ len \in Nat /\ s \in Seq({p} \X Int)
    /\ t = s \o Block(p, top, len)

InARow(t, s, p, first) ==
    \A i \in 1..(Len(t) - 1) :
        \/ i \in 1..(Len(s) - 1) /\ t[i] = s[i] /\ t[i+1] = s[i+1]
        \/ s # <<>> /\ t[i] = s[Len(s)] /\ t[i+1] = <<p, first>>
        \/ t[i+1][2] = t[i][2] + 1

LEMMA Pairs ==
  ASSUME NEW p, NEW top, NEW len, NEW s, NEW t, Extends(t, s, p, top, len)
  PROVE  /\ t \in Seq({p} \X Int)
         /\ len > 0 => t # <<>> /\ Mark(t) = top
         /\ InARow(t, s, p, top - len + 1)
<1>. DEFINE b == Block(p, top, len)
            first == top - len + 1
<1>a. top \in Int /\ len \in Nat /\ s \in Seq({p} \X Int)
  BY DEF Extends
<1>. USE <1>a
<1>0. t = s \o b
  BY DEF Extends
<1>1. /\ b \in Seq({p} \X Int) /\ Len(b) = len
      /\ \A i \in 1..len : b[i] = <<p, top - len + i>>
  BY <1>0, Blocks
<1>. HIDE DEF b
<1>2. /\ t \in Seq({p} \X Int) /\ Len(t) = Len(s) + len
      /\ \A i \in 1..Len(s) : t[i] = s[i]
      /\ \A i \in 1..len : t[Len(s) + i] = b[i]
  <2>1. /\ t \in Seq({p} \X Int) /\ Len(t) = Len(s) + len /\ Len(s) \in Nat
        /\ \A i \in 1..(Len(s) + len) :
              t[i] = IF i <= Len(s) THEN s[i] ELSE b[i - Len(s)]
    <3>1. /\ s \o b \in Seq({p} \X Int) /\ Len(s \o b) = Len(s) + Len(b)
          /\ \A i \in 1..(Len(s) + Len(b)) :
                (s \o b)[i] = IF i <= Len(s) THEN s[i] ELSE b[i - Len(s)]
      BY <1>1, ConcatProperties, Zenon
    <3>. QED
      BY <1>0, <1>1, <3>1
  <2>2. ASSUME NEW i \in 1..len
        PROVE  t[Len(s) + i] = b[i]
    <3>1. Len(s) + i \in 1..(Len(s) + len) /\ ~(Len(s) + i <= Len(s))
          /\ Len(s) + i - Len(s) = i
      BY <2>1
    <3>2. t[Len(s) + i] = IF Len(s) + i <= Len(s) THEN s[Len(s) + i]
                          ELSE b[Len(s) + i - Len(s)]
      BY <2>1, <3>1
    <3>. QED
      BY <3>1, <3>2
  <2>. QED
    BY <2>1, <2>2
<1>3. len > 0 => t # <<>> /\ Mark(t) = top
  <2>. SUFFICES ASSUME len > 0 PROVE t # <<>> /\ Mark(t) = top
    OBVIOUS
  <2>1. t[Len(t)] = b[len]
    BY <1>2
  <2>2. b[len] = <<p, top>>
    <3>1. b[len] = <<p, top - len + len>>
      BY <1>1
    <3>. QED
      BY <3>1
  <2>. QED
    BY <1>1, <1>2, <2>1, <2>2 DEF Mark
<1>4. ASSUME NEW i \in 1..(Len(t) - 1)
      PROVE  \/ i \in 1..(Len(s) - 1) /\ t[i] = s[i] /\ t[i+1] = s[i+1]
             \/ s # <<>> /\ t[i] = s[Len(s)] /\ t[i+1] = <<p, first>>
             \/ t[i+1][2] = t[i][2] + 1
  <2>1. CASE i < Len(s)
    <3>1. Len(s) \in Nat /\ i \in Nat \ {0}
      BY <1>2, <2>1
    <3>2. i \in 1..(Len(s) - 1) /\ i \in 1..Len(s) /\ i + 1 \in 1..Len(s)
      BY <2>1, <3>1
    <3>. QED
      BY <1>2, <3>2
  <2>2. CASE i = Len(s)
    <3>1. 1 \in 1..len /\ Len(s) \in 1..Len(s) /\ s # <<>> /\ Len(s) \in Nat
      BY <1>2, <2>2
    <3>2. b[1] = <<p, top - len + 1>>
      BY <1>1, <3>1
    <3>3. t[Len(s)] = s[Len(s)] /\ t[Len(s) + 1] = b[1]
      BY <1>2, <3>1, Zenon
    <3>4. t[i] = s[Len(s)] /\ t[i+1] = b[1]
      BY <2>2, <3>3
    <3>. QED
      BY <3>1, <3>2, <3>4
  <2>3. CASE i > Len(s)
    <3>. DEFINE j == i - Len(s)
    <3>1. j \in 1..len /\ j + 1 \in 1..len /\ i = Len(s) + j /\ i + 1 = Len(s) + (j + 1)
      BY <1>2, <2>3
    <3>. HIDE DEF j
    <3>2. t[Len(s) + j] = b[j] /\ t[Len(s) + (j+1)] = b[j+1]
      BY <1>2, <3>1, Zenon
    <3>3. t[i] = <<p, top - len + j>> /\ t[i+1] = <<p, top - len + (j + 1)>>
      BY <1>1, <3>1, <3>2
    <3>. QED
      BY <3>1, <3>3
  <2>4. Len(s) \in Nat /\ i \in Nat
    OBVIOUS
  <2>. QED
    BY <2>1, <2>2, <2>3, <2>4
<1>. QED
  BY <1>2, <1>3, <1>4 DEF InARow

(* It leaves no gap if it begins with the next line, ...                   *)
LEMMA StepsOn ==
  ASSUME NEW p, NEW top, NEW len, NEW s, NEW t, Extends(t, s, p, top, len),
         Steps(s), s # <<>> => top - len + 1 = Mark(s) + 1
  PROVE  Steps(t)
<1>0. InARow(t, s, p, top - len + 1)
  BY Pairs
<1>1. \A i \in 1..(Len(t) - 1) :
         \/ i \in 1..(Len(s) - 1) /\ t[i] = s[i] /\ t[i+1] = s[i+1]
         \/ s # <<>> /\ t[i] = s[Len(s)] /\ t[i+1] = <<p, top - len + 1>>
         \/ t[i+1][2] = t[i][2] + 1
  BY <1>0 DEF InARow
<1>. SUFFICES ASSUME NEW i \in 1..(Len(t) - 1)
              PROVE  t[i+1][2] = t[i][2] + 1
  BY DEF Steps
<1>2. CASE i \in 1..(Len(s) - 1) /\ t[i] = s[i] /\ t[i+1] = s[i+1]
  BY <1>2 DEF Steps
<1>3. CASE s # <<>> /\ t[i] = s[Len(s)] /\ t[i+1] = <<p, top - len + 1>>
  BY <1>3 DEF Mark
<1>. QED
  BY <1>1, <1>2, <1>3

(* ... and keeps the order if it begins beyond the last line shown, or at  *)
(* it if that is a separator.                                              *)
LEMMA ClimbsOn ==
  ASSUME NEW p, NEW top, NEW len, NEW s, NEW t, Extends(t, s, p, top, len),
         NEW ss, NEW first \in Int, first = top - len + 1, Climbs(s, ss),
         s # <<>> => Mark(s) < first \/ (Mark(s) = first /\ <<p, first>> \in ss)
  PROVE  Climbs(t, ss)
<1>0. InARow(t, s, p, first)
  BY Pairs
<1>1. \A i \in 1..(Len(t) - 1) :
         \/ i \in 1..(Len(s) - 1) /\ t[i] = s[i] /\ t[i+1] = s[i+1]
         \/ s # <<>> /\ t[i] = s[Len(s)] /\ t[i+1] = <<p, first>>
         \/ t[i+1][2] = t[i][2] + 1
  BY <1>0 DEF InARow
<1>2. t \in Seq({p} \X Int) /\ s \in Seq({p} \X Int)
  BY Pairs DEF Extends
<1>. SUFFICES ASSUME NEW i \in 1..(Len(t) - 1)
              PROVE  t[i][2] < t[i+1][2] \/ (t[i] = t[i+1] /\ t[i] \in ss)
  BY DEF Climbs
<1>3. CASE i \in 1..(Len(s) - 1) /\ t[i] = s[i] /\ t[i+1] = s[i+1]
  BY <1>3 DEF Climbs
<1>4. CASE s # <<>> /\ t[i] = s[Len(s)] /\ t[i+1] = <<p, first>>
  <2>1. Len(s) \in 1..Len(s) /\ s[Len(s)] \in {p} \X Int
    BY <1>2, <1>4
  <2>2. s[Len(s)] = <<p, Mark(s)>>
    BY <2>1 DEF Mark
  <2>3. t[i][2] = Mark(s) /\ t[i+1][2] = first
    BY <1>4, <2>2
  <2>. QED
    BY <1>4, <2>2, <2>3
<1>5. CASE t[i+1][2] = t[i][2] + 1
  <2>1. t[i][2] \in Int
    BY <1>2
  <2>. QED
    BY <1>5, <2>1
<1>. QED
  BY <1>1, <1>3, <1>4, <1>5

-----------------------------------------------------------------------------
(* A stream that was shown s and has sent `sent` lines of a source, which  *)
(* now holds the size lines up to top.  The last line shown is at the      *)
(* place `at` of the source; a place before the first means that all of it *)
(* is new.  Otherwise the stream knows that place by its count, except at  *)
(* the first place of a new ring: it begins with a separator that may have *)
(* been shown from the file.                                               *)
Place(s, top, size) == Mark(s) - (top - size)

CaughtUp(p, s, sent, top, size, ss) ==
    /\ s \in Seq({p} \X Int) /\ sent \in Nat
    /\ Climbs(s, ss)
    /\ s = <<>> => sent = 0
    /\ s # <<>> =>
          LET at == Place(s, top, size)
          IN  /\ Mark(s) <= top
              /\ \/ at <= 0
                 \/ at = 1 /\ <<p, Mark(s)>> \in ss
                 \/ sent >= Lo(StreamLines, at) /\ sent <= Lo(StreamLines, size)

(* No line was lost yet, and none will be at the next poll.                *)
Whole(s, sent, top, size) ==
    /\ Steps(s)
    /\ s # <<>> =>
          LET at == Place(s, top, size)
          IN  /\ at >= 1 /\ sent = Lo(StreamLines, at)
              /\ size <= StreamLines \/ Mark(s) = top

LEMMA MarkIsInt ==
  ASSUME NEW p, NEW s \in Seq({p} \X Int), s # <<>>
  PROVE  Mark(s) \in Int
<1>1. Len(s) \in 1..Len(s)
  OBVIOUS
<1>2. s[Len(s)] \in {p} \X Int
  BY <1>1
<1>. QED
  BY <1>2 DEF Mark

(* One tick of a stream (sse.go:43-57).                                    *)
LEMMA Polled ==
  ASSUME NEW p, NEW s, NEW sent, NEW top \in Int, NEW size \in Nat, NEW ss,
         CaughtUp(p, s, sent, top, size, ss)
  PROVE  LET len == Lo(StreamLines, size)
             from == IF len < sent THEN 0 ELSE sent
             t == s \o SubSeq(Block(p, top, len), from + 1, len)
         IN  /\ CaughtUp(p, t, len, top, size, ss)
             /\ Whole(s, sent, top, size) => Whole(t, len, top, size)
<1>. DEFINE len == Lo(StreamLines, size)
            from == IF len < sent THEN 0 ELSE sent
            t == s \o SubSeq(Block(p, top, len), from + 1, len)
            at == Place(s, top, size)
            first == top - len + from + 1
<1>1. StreamLines \in Nat \ {0}
  BY LineAssumption
<1>2. s \in Seq({p} \X Int) /\ sent \in Nat /\ Climbs(s, ss) /\ (s = <<>> => sent = 0)
  BY DEF CaughtUp
<1>3. len \in Nat /\ len <= size /\ len <= StreamLines /\ from \in 0..len
  BY <1>1, <1>2 DEF Lo
<1>4. s # <<>> => /\ Mark(s) \in Int /\ Mark(s) <= top /\ at = Mark(s) - (top - size)
                  /\ \/ at <= 0
                     \/ at = 1 /\ <<p, Mark(s)>> \in ss
                     \/ sent >= Lo(StreamLines, at) /\ sent <= len
  BY <1>2, MarkIsInt DEF CaughtUp, Place
<1>. HIDE DEF len, at
<1>5. SubSeq(Block(p, top, len), from + 1, len) = Block(p, top, len - from)
  BY <1>3, Blocks
<1>6. t = s \o Block(p, top, len - from) /\ len - from \in Nat
      /\ top - (len - from) + 1 = first
  <2>1. t = s \o Block(p, top, len - from)
    BY <1>5
  <2>2. len - from \in Nat /\ top - (len - from) + 1 = first
    BY <1>3
  <2>. QED
    BY <2>1, <2>2
<1>7. ASSUME s # <<>>, from < len
      PROVE  Mark(s) < first \/ (Mark(s) = first /\ <<p, first>> \in ss)
  <2>1. CASE at <= 0
    BY <1>3, <1>4, <1>7, <2>1
  <2>2. CASE sent >= Lo(StreamLines, at) /\ sent <= len
    <3>1. from = sent /\ sent < StreamLines
      BY <1>1, <1>2, <1>3, <1>7, <2>2
    <3>2. sent >= at
      BY <1>1, <1>2, <1>4, <1>7, <2>2, <3>1 DEF Lo
    <3>. QED
      BY <1>2, <1>3, <1>4, <1>7, <3>1, <3>2
  <2>3. CASE at = 1 /\ <<p, Mark(s)>> \in ss
    <3>1. Mark(s) <= first
      BY <1>3, <1>4, <1>7, <2>3
    <3>2. Mark(s) = first => <<p, first>> \in ss
      BY <2>3
    <3>. QED
      BY <1>3, <1>4, <1>7, <3>1, <3>2
  <2>. QED
    BY <1>4, <1>7, <2>1, <2>2, <2>3
<1>8. /\ t \in Seq({p} \X Int)
      /\ len - from = 0 => t = s
      /\ len - from > 0 => t # <<>> /\ Mark(t) = top
      /\ from < len => Climbs(t, ss)
      /\ Steps(s) /\ (s # <<>> => first = Mark(s) + 1) => Steps(t)
  <2>. DEFINE rest == len - from
  <2>1. rest \in Nat /\ t = s \o Block(p, top, rest) /\ first = top - rest + 1
        /\ first \in Int
    <3>1. rest \in Nat /\ first = top - rest + 1 /\ first \in Int
      BY <1>3
    <3>2. t = s \o Block(p, top, rest)
      BY <1>6
    <3>. QED
      BY <3>1, <3>2
  <2>2. len - from = 0 => t = s
    <3>. SUFFICES ASSUME len - from = 0 PROVE t = s
      OBVIOUS
    <3>1. Block(p, top, 0) = <<>>
      BY DEF Block
    <3>. QED
      BY <1>2, <2>1, <3>1, ConcatEmptySeq
  <2>e. Extends(t, s, p, top, rest)
    BY <1>2, <2>1 DEF Extends
  <2>. HIDE DEF rest, t, first
  <2>3. /\ t \in Seq({p} \X Int)
        /\ rest > 0 => t # <<>> /\ Mark(t) = top
    BY <2>e, Pairs
  <2>4. from < len => Climbs(t, ss)
    BY <1>2, <1>7, <2>1, <2>e, ClimbsOn
  <2>5. Steps(s) /\ (s # <<>> => first = Mark(s) + 1) => Steps(t)
    BY <2>1, <2>e, StepsOn
  <2>. QED
    BY <2>2, <2>3, <2>4, <2>5 DEF rest
<1>. HIDE DEF t
<1>9. CaughtUp(p, t, len, top, size, ss)
  <2>1. CASE from < len
    <3>1. t # <<>> /\ Mark(t) = top /\ Place(t, top, size) = size /\ Climbs(t, ss)
      BY <1>3, <1>8, <2>1 DEF Place
    <3>2. len >= Lo(StreamLines, size)
      BY <1>1, <1>3 DEF len, Lo
    <3>. QED
      BY <1>3, <1>8, <3>1, <3>2 DEF CaughtUp, len
  <2>2. CASE from = len
    <3>1. t = s
      BY <1>3, <1>8, <2>2
    <3>2. CASE len = sent
      BY <3>1, <3>2
    <3>3. CASE len # sent
      <4>1. len = 0
        BY <1>2, <1>3, <2>2, <3>3
      <4>2. size = 0
        BY <1>1, <4>1 DEF len, Lo
      <4>3. s # <<>> => Place(s, top, size) <= 0 /\ Mark(s) <= top
        BY <1>4, <4>2 DEF at
      <4>. QED
        BY <1>2, <3>1, <4>1, <4>3 DEF CaughtUp
    <3>. QED
      BY <3>2, <3>3
  <2>. QED
    BY <1>3, <2>1, <2>2
<1>10. ASSUME Whole(s, sent, top, size)
       PROVE  Whole(t, len, top, size)
  <2>1. /\ Steps(s)
        /\ s # <<>> => /\ at >= 1 /\ sent = Lo(StreamLines, at)
                       /\ size <= StreamLines \/ Mark(s) = top
    BY <1>10 DEF Whole, at
  <2>2. CASE from < len
    <3>1. s # <<>> => first = Mark(s) + 1
      <4>. SUFFICES ASSUME s # <<>> PROVE first = Mark(s) + 1
        OBVIOUS
      <4>1. at <= size /\ at \in Int
        BY <1>4
      <4>2. sent <= len
        BY <1>1, <2>1, <4>1 DEF Lo, len
      <4>3. from = sent /\ sent < len
        BY <1>2, <1>3, <2>2, <4>2
      <4>4. at = sent /\ Mark(s) # top
        BY <1>1, <1>3, <1>4, <2>1, <4>1, <4>3 DEF Lo, len
      <4>5. len = size
        BY <1>1, <2>1, <4>4 DEF Lo, len
      <4>. QED
        BY <1>2, <1>3, <1>4, <4>3, <4>4, <4>5
    <3>2. Mark(t) = top /\ Place(t, top, size) = size /\ Steps(t)
      BY <1>3, <1>8, <2>1, <2>2, <3>1 DEF Place
    <3>3. size >= 1
      BY <1>3, <2>2
    <3>. QED
      BY <3>2, <3>3 DEF Whole, len
  <2>3. CASE from = len
    <3>1. t = s
      BY <1>3, <1>8, <2>3
    <3>2. s # <<>> => sent = len
      <4>. SUFFICES ASSUME s # <<>> PROVE sent = len
        OBVIOUS
      <4>1. at <= size /\ at \in Int /\ size >= 1
        BY <1>4, <2>1
      <4>2. sent <= len /\ len >= 1
        BY <1>1, <2>1, <4>1 DEF Lo, len
      <4>. QED
        BY <1>2, <1>3, <2>3, <4>2
    <3>. QED
      BY <2>1, <3>1, <3>2 DEF Whole, at
  <2>. QED
    BY <1>3, <2>2, <2>3
<1>. QED
  BY <1>9, <1>10 DEF t, len

(* How a source may change between two polls: it grows, or loses old lines *)
(* to a full ring; it is replaced by new lines; or a new ring begins with  *)
(* the separator that its file ended with.                                 *)
Moves(p, top, size, top2, size2, ss2) ==
    \/ top2 >= top /\ size2 >= size /\ top2 - size2 >= top - size
    \/ top2 - size2 >= top
    \/ top2 = top /\ size2 = 1 /\ <<p, top>> \in ss2

LEMMA Moved ==
  ASSUME NEW p, NEW s, NEW sent, NEW top \in Int, NEW size \in Nat, NEW ss,
         NEW top2 \in Int, NEW size2 \in Nat, NEW ss2, ss \subseteq ss2,
         CaughtUp(p, s, sent, top, size, ss), Moves(p, top, size, top2, size2, ss2)
  PROVE  CaughtUp(p, s, sent, top2, size2, ss2)
<1>1. StreamLines \in Nat \ {0}
  BY LineAssumption
<1>2. s \in Seq({p} \X Int) /\ sent \in Nat /\ (s = <<>> => sent = 0) /\ Climbs(s, ss2)
  BY DEF CaughtUp, Climbs
<1>3. CASE s = <<>>
  BY <1>2, <1>3 DEF CaughtUp
<1>4. CASE s # <<>>
  <2>. DEFINE m == Mark(s)
              at == m - (top - size)
              at2 == m - (top2 - size2)
  <2>1. m \in Int
    BY <1>2, <1>4, MarkIsInt
  <2>2. /\ m <= top
        /\ \/ at <= 0
           \/ at = 1 /\ <<p, m>> \in ss
           \/ sent >= Lo(StreamLines, at) /\ sent <= Lo(StreamLines, size)
    BY <1>4 DEF CaughtUp, Place
  <2>. HIDE DEF m
  <2>3. /\ m <= top2
        /\ \/ at2 <= 0
           \/ at2 = 1 /\ <<p, m>> \in ss2
           \/ sent >= Lo(StreamLines, at2) /\ sent <= Lo(StreamLines, size2)
    <3>1. CASE top2 >= top /\ size2 >= size /\ top2 - size2 >= top - size
      <4>1. m <= top2 /\ at2 <= at
        BY <2>1, <2>2, <3>1
      <4>2. CASE at2 > 0
        <5>1. at > 0 /\ (at = 1 => at2 = 1)
          BY <2>1, <4>1, <4>2
        <5>2. Lo(StreamLines, at2) <= Lo(StreamLines, at)
              /\ Lo(StreamLines, size) <= Lo(StreamLines, size2)
          BY <1>1, <2>1, <3>1, <4>1 DEF Lo
        <5>3. Lo(StreamLines, at) \in Int /\ Lo(StreamLines, at2) \in Int
              /\ Lo(StreamLines, size) \in Int /\ Lo(StreamLines, size2) \in Int
          BY <1>1, <2>1 DEF Lo
        <5>4. at \in Int /\ at2 \in Int
          BY <2>1
        <5>. HIDE DEF at, at2
        <5>5. \/ at2 = 1 /\ <<p, m>> \in ss2
              \/ sent >= Lo(StreamLines, at2) /\ sent <= Lo(StreamLines, size2)
          BY <1>2, <2>2, <5>1, <5>2, <5>3, <5>4
        <5>. QED
          BY <4>1, <5>5
      <4>. QED
        BY <2>1, <4>1, <4>2
    <3>2. CASE top2 - size2 >= top
      BY <2>1, <2>2, <3>2
    <3>3. CASE top2 = top /\ size2 = 1 /\ <<p, top>> \in ss2
      <4>1. m < top => at2 <= 0
        BY <2>1, <3>3
      <4>2. m = top => at2 = 1 /\ <<p, m>> \in ss2
        BY <2>1, <3>3
      <4>. QED
        BY <2>1, <2>2, <3>3, <4>1, <4>2
    <3>. QED
      BY <3>1, <3>2, <3>3 DEF Moves
  <2>. QED
    BY <1>2, <2>3 DEF CaughtUp, Place, m
<1>. QED
  BY <1>3, <1>4

(* A line that finds room keeps a stream whole.                            *)
LEMMA StaysWhole ==
  ASSUME NEW p, NEW s \in Seq({p} \X Int), NEW sent, NEW top \in Int,
         NEW size \in Nat, Whole(s, sent, top, size), size < StreamLines
  PROVE  Whole(s, sent, top + 1, size + 1)
<1>1. StreamLines \in Nat \ {0}
  BY LineAssumption
<1>2. s # <<>> => /\ Mark(s) \in Int
                  /\ Place(s, top + 1, size + 1) = Place(s, top, size)
  <2>. SUFFICES ASSUME s # <<>>
                PROVE  /\ Mark(s) \in Int
                       /\ Place(s, top + 1, size + 1) = Place(s, top, size)
    OBVIOUS
  <2>1. Mark(s) \in Int
    BY MarkIsInt
  <2>. QED
    BY <2>1 DEF Place
<1>3. size + 1 <= StreamLines
  BY <1>1
<1>. QED
  BY <1>2, <1>3 DEF Whole

-----------------------------------------------------------------------------
(* Consecutive lines that end with top.                                    *)
Ends(c, top) ==
    /\ c \in Seq(Int) /\ top \in Int
    /\ \A i \in 1..Len(c) : c[i] = top - Len(c) + i

LEMMA EndsBlock ==
  ASSUME NEW p, NEW c, NEW top, Ends(c, top)
  PROVE  Of(p, c) = Block(p, top, Len(c))
  BY DEF Ends, Of, Block

LEMMA NewestEnds ==
  ASSUME NEW c, NEW top, Ends(c, top), NEW n \in Nat \ {0}
  PROVE  Ends(Newest(c, n), top) /\ Len(Newest(c, n)) = Lo(n, Len(c))
<1>1. /\ c \in Seq(Int) /\ top \in Int /\ Len(c) \in Nat
      /\ \A i \in 1..Len(c) : c[i] = top - Len(c) + i
  BY DEF Ends
<1>2. CASE Len(c) > n
  <2>. DEFINE d == SubSeq(c, Len(c) - n + 1, Len(c))
  <2>1. d \in Seq(Int) /\ Len(d) = n /\ \A i \in 1..n : d[i] = c[Len(c) - n + i]
    <3>1. Len(c) - n + 1 \in Nat /\ Len(c) - n + 1 >= 1
      BY <1>1, <1>2
    <3>2. d \in Seq(Int) /\ Len(d) = n
      BY <1>1, <1>2, <3>1
    <3>3. \A i \in 1..n : d[i] = c[(Len(c) - n + 1) + i - 1]
      BY <1>1, <1>2, <3>1
    <3>4. \A i \in 1..n : (Len(c) - n + 1) + i - 1 = Len(c) - n + i
      BY <1>1
    <3>. HIDE DEF d
    <3>. QED
      BY <3>2, <3>3, <3>4
  <2>. HIDE DEF d
  <2>2. ASSUME NEW i \in 1..n
        PROVE  d[i] = top - n + i
    <3>1. Len(c) - n + i \in 1..Len(c)
          /\ top - Len(c) + (Len(c) - n + i) = top - n + i
      BY <1>1, <1>2
    <3>. QED
      BY <1>1, <2>1, <3>1
  <2>3. Newest(c, n) = d /\ Lo(n, Len(c)) = n
    BY <1>2 DEF Newest, Lo, d
  <2>. QED
    BY <1>1, <2>1, <2>2, <2>3 DEF Ends
<1>3. CASE ~(Len(c) > n)
  BY <1>1, <1>3 DEF Newest, Lo
<1>. QED
  BY <1>2, <1>3

LEMMA NewestBlock ==
  ASSUME NEW p, NEW top \in Int, NEW len \in Nat, NEW n \in Nat \ {0}
  PROVE  Newest(Block(p, top, len), n) = Block(p, top, Lo(n, len))
<1>1. Len(Block(p, top, len)) = len
  BY Blocks
<1>2. CASE len > n
  <2>1. len - n \in 0..len /\ len - (len - n) = n
    BY <1>2
  <2>2. SubSeq(Block(p, top, len), (len - n) + 1, len) = Block(p, top, len - (len - n))
    BY <2>1, Blocks
  <2>. QED
    BY <1>1, <1>2, <2>1, <2>2 DEF Newest, Lo
<1>3. CASE ~(len > n)
  <2>1. Lo(n, len) = len
    BY <1>3 DEF Lo
  <2>. QED
    BY <1>1, <1>3, <2>1 DEF Newest
<1>. QED
  BY <1>2, <1>3

(* A file of a process holds consecutive lines, the one that is written    *)
(* ends with the last line; it exists before a Logger does, and the        *)
(* separator in the hand of a Start is in it.                              *)
Even(f, top) == \E b \in Int : b + Len(f) <= top /\ \A i \in 1..Len(f) : f[i] = b + i

Now(fs) == IF fs = <<>> THEN <<>> ELSE fs[Len(fs)]

FilesAt(fs, top) ==
    /\ fs \in Seq(Seq(Int))
    /\ \A j \in 1..Len(fs) : Even(fs[j], top)
    /\ Ends(Now(fs), top)

Filed(p) ==
    /\ FilesAt(files[p], out[p])
    /\ loggers[p] # NoRing \/ hand[p] # NoRing => files[p] # <<>>
    /\ hand[p] # NoRing /\ hand[p].len > 0 =>
          hand[p].len = 1 /\ <<p, out[p]>> \in seps /\ Current(p) # <<>>

LEMMA CurrentEnds ==
  ASSUME NEW p \in Processes, Filed(p)
  PROVE  Ends(Current(p), out[p])
  BY DEF Filed, FilesAt, Now, Current, Last

(* What a reader gets of p: nothing or the lines of a kept ring, whatever  *)
(* happens, the newest lines of its file, or those of its ring, up to a    *)
(* top.                                                                    *)
Fixed(f, top, size) ==
    \/ f = Absent /\ size = 0
    \/ \E r : f = Kept(r) /\ Holds(r, top) /\ size = r.len

Yields(p, f, top, size) ==
    /\ top \in Int
    /\ \/ Fixed(f, top, size)
       \/ f = InFile /\ top = out[p] /\ size = Len(Current(p))
       \/ f = Live /\ loggers[p] # NoRing /\ top = InRing(p) /\ size = loggers[p].len

LEMMA RingEnds ==
  ASSUME NEW r, NEW top \in Int, Holds(r, top), NEW n \in Nat \ {0}
  PROVE  Ends(RingTail(r, n), top) /\ Len(RingTail(r, n)) = Lo(n, r.len) /\ r.len \in Nat
<1>. DEFINE tail == RingTail(r, n)
            len == r.len
<1>1. /\ Len(tail) = IF n < len THEN n ELSE len
      /\ \A i \in 1..Len(tail) : tail[i] = top - Len(tail) + i
  BY TailHolds
<1>2. len \in Nat
  BY RingAssumption DEF Holds, RingType
<1>3. tail \in Seq(Int)
  <2>1. tail = [i \in 1..Len(tail) |-> tail[i]]
    <3>. DEFINE m == IF n > len THEN len ELSE n
    <3>1. m \in Nat
      BY <1>2
    <3>2. tail = [i \in 1..m |-> r.slots[(r.pos - m + (i - 1) + RingCap) % RingCap]]
      BY DEF RingTail
    <3>. HIDE DEF tail, m
    <3>3. Len(tail) = m
      BY <3>1, <3>2
    <3>. QED
      BY <3>2, <3>3
  <2>2. Len(tail) \in Nat
    BY <1>1, <1>2
  <2>. HIDE DEF tail
  <2>3. \A i \in 1..Len(tail) : tail[i] \in Int
    BY <1>1, <2>2
  <2>. QED
    BY <2>1, <2>2, <2>3
<1>. HIDE DEF tail
<1>4. Ends(tail, top) /\ Len(tail) = Lo(n, len)
  BY <1>1, <1>2, <1>3 DEF Ends, Lo
<1>. QED
  BY <1>2, <1>4 DEF tail

LEMMA YieldsEnds ==
  ASSUME NEW p \in Processes, RingInv, Filed(p), NEW f, NEW top, NEW size,
         Yields(p, f, top, size), NEW n \in Nat \ {0}
  PROVE  /\ Ends(LinesIn(p, f, n), top) /\ Len(LinesIn(p, f, n)) = Lo(n, size)
         /\ top \in Int /\ size \in Nat
<1>1. top \in Int
  BY DEF Yields
<1>2. CASE f = Absent /\ size = 0
  <2>1. f.by = "none"
    BY <1>2 DEF Absent
  <2>2. LinesIn(p, f, n) = <<>> /\ Len(<<>>) = 0 /\ <<>> \in Seq(Int)
    BY <2>1 DEF LinesIn
  <2>3. Lo(n, 0) = 0 /\ Ends(<<>>, top)
    BY <1>1 DEF Lo, Ends
  <2>. QED
    BY <1>1, <1>2, <2>2, <2>3
<1>3. CASE f = InFile /\ top = out[p] /\ size = Len(Current(p))
  <2>1. f.by = "file"
    BY <1>3 DEF InFile
  <2>2. LinesIn(p, f, n) = Newest(Current(p), n)
    BY <2>1 DEF LinesIn, FileTail
  <2>3. Ends(Current(p), out[p])
    BY CurrentEnds
  <2>4. Len(Current(p)) \in Nat
    BY <2>3 DEF Ends
  <2>. QED
    BY <1>1, <1>3, <2>2, <2>3, <2>4, NewestEnds
<1>4. CASE f = Live /\ loggers[p] # NoRing /\ top = InRing(p) /\ size = loggers[p].len
  <2>1. f.by = "live"
    BY <1>4 DEF Live
  <2>2. LinesIn(p, f, n) = RingTail(loggers[p], n)
    BY <2>1 DEF LinesIn
  <2>3. Holds(loggers[p], top)
    BY <1>4 DEF RingInv, Rung
  <2>. QED
    BY <1>1, <1>4, <2>2, <2>3, RingEnds
<1>5. CASE \E r : f = Kept(r) /\ Holds(r, top) /\ size = r.len
  <2>1. PICK r : f = Kept(r) /\ Holds(r, top) /\ size = r.len
    BY <1>5
  <2>2. f.by = "kept" /\ f.ring = r
    BY <2>1 DEF Kept
  <2>3. LinesIn(p, f, n) = RingTail(r, n)
    BY <2>2 DEF LinesIn
  <2>. QED
    BY <1>1, <2>1, <2>3, RingEnds
<1>. QED
  BY <1>2, <1>3, <1>4, <1>5 DEF Yields, Fixed

(* The kinds of what is found are told apart.                              *)
LEMMA Kinds ==
  /\ Absent.by = "none" /\ InFile.by = "file" /\ Live.by = "live"
  /\ \A r : Kept(r).by = "kept" /\ Kept(r).ring = r
BY DEF Absent, InFile, Live, Kept

-----------------------------------------------------------------------------
(* The stream of a project that has one process reads what was found of    *)
(* that process.                                                           *)
OneProcess == \E p : Processes = {p}

LEMMA OneName ==
  ASSUME NEW p, Processes = {p}
  PROVE  InOrderOfName = <<p>>
<1>1. Cardinality(Processes) = 1
  BY FS_Singleton
<1>2. \E f \in [1..1 -> {p}] : IsInjective(f)
  <2>1. [i \in 1..1 |-> p] \in [1..1 -> {p}] /\ IsInjective([i \in 1..1 |-> p])
    BY DEF IsInjective
  <2>. QED
    BY <2>1
<1>3. InOrderOfName \in [1..1 -> {p}]
  BY <1>1, <1>2 DEF InOrderOfName, SetToSeq
<1>. QED
  BY <1>3

(* The fold of Aggregate over one name.                                    *)
LEMMA OneAggregate ==
  ASSUME NEW p, Processes = {p}, NEW of, p \in NamedIn(of), NEW n,
         Of(p, LinesIn(p, of[p], Share(of, n))) \in Seq({p} \X Int)
  PROVE  Aggregate(of, n) = Newest(Of(p, LinesIn(p, of[p], Share(of, n))), n)
<1>. DEFINE lines(q) == IF q \in NamedIn(of) THEN Of(q, LinesIn(q, of[q], Share(of, n)))
                        ELSE <<>>
            fold(h) == h = [S \in SUBSET {1} |->
                               IF S = {} THEN <<>>
                               ELSE h[S \ {Max(S)}] \o lines(<<p>>[Max(S)])]
            w == [S \in SUBSET {1} |-> IF S = {} THEN <<>> ELSE <<>> \o lines(p)]
            g == CHOOSE h : fold(h)
            all == FoldLeft(LAMBDA a, q : a \o lines(q), <<>>, <<p>>)
<1>1. Max({1}) = 1 /\ DOMAIN <<p>> = {1} /\ <<p>>[1] = p /\ {1} \ {1} = {}
  BY DEF Max
<1>. HIDE DEF lines
<1>2. fold(w)
  BY <1>1
<1>3. fold(g)
  BY <1>2
<1>4. all = g[{1}]
  BY <1>1 DEF FoldLeft, MapThenFoldSet
<1>5. g[{}] = <<>> /\ g[{1}] = g[{1} \ {1}] \o lines(p)
  BY <1>1, <1>3
<1>. HIDE DEF g, all
<1>6. all = <<>> \o lines(p)
  BY <1>1, <1>4, <1>5
<1>7. lines(p) = Of(p, LinesIn(p, of[p], Share(of, n)))
  BY DEF lines
<1>8. all = Of(p, LinesIn(p, of[p], Share(of, n)))
  BY <1>6, <1>7, ConcatEmptySeq
<1>9. Aggregate(of, n) = Newest(all, n)
  BY OneName DEF Aggregate, all, lines
<1>. QED
  BY <1>8, <1>9

LEMMA OneShare ==
  ASSUME NEW p, Processes = {p}, NEW of, p \in NamedIn(of)
  PROVE  Share(of, StreamLines) = StreamLines
<1>1. StreamLines \in Nat \ {0} /\ PerProcessMin \in Nat \ {0}
  BY LineAssumption
<1>2. NamedIn(of) = {p}
  BY DEF NamedIn
<1>3. Cardinality(NamedIn(of)) = 1
  BY <1>2, FS_Singleton
<1>4. StreamLines \div 1 = StreamLines
  BY <1>1
<1>. QED
  BY <1>1, <1>3, <1>4, StreamAssumption DEF Share

LEMMA ReadingIs ==
  ASSUME NEW p \in Processes, Processes = {p}, RingInv, Filed(p), NEW of, NEW top,
         NEW size, Yields(p, of[p], top, size)
  PROVE  Reading(Project, of) = Block(p, top, Lo(StreamLines, size))
<1>1. StreamLines \in Nat \ {0}
  BY LineAssumption
<1>2. top \in Int /\ size \in Nat
  BY <1>1, YieldsEnds
<1>3. Reading(Project, of) = LogLines(of, StreamLines)
  BY KeyAssumption DEF Reading
<1>4. CASE of[p].by = "none"
  <2>1. NamedIn(of) = {}
    BY <1>4 DEF NamedIn
  <2>2. size = 0
    BY <1>4, Kinds DEF Yields, Fixed
  <2>3. Lo(StreamLines, size) = 0
    BY <1>1, <2>2 DEF Lo
  <2>4. Block(p, top, 0) = <<>>
    BY DEF Block
  <2>. QED
    BY <1>3, <2>1, <2>3, <2>4 DEF LogLines
<1>5. CASE of[p].by # "none"
  <2>1. p \in NamedIn(of)
    BY <1>5 DEF NamedIn
  <2>2. Share(of, StreamLines) = StreamLines
    BY <2>1, OneShare
  <2>. DEFINE sub == LinesIn(p, of[p], StreamLines)
              len == Lo(StreamLines, size)
  <2>3. Ends(sub, top) /\ Len(sub) = len
    BY <1>1, YieldsEnds
  <2>4. len \in Nat
    BY <1>1, <1>2 DEF Lo
  <2>. HIDE DEF sub
  <2>5. Of(p, sub) = Block(p, top, len)
    BY <2>3, EndsBlock
  <2>6. Of(p, sub) \in Seq({p} \X Int)
    <3>. HIDE DEF len
    <3>1. Block(p, top, len) \in Seq({p} \X Int)
      BY <1>2, <2>4, Blocks
    <3>. QED
      BY <2>5, <3>1
  <2>7. Aggregate(of, StreamLines) = Newest(Of(p, sub), StreamLines)
    BY <2>1, <2>2, <2>6, OneAggregate DEF sub
  <2>8. Newest(Of(p, sub), StreamLines) = Block(p, top, Lo(StreamLines, len))
    BY <1>1, <1>2, <2>4, <2>5, NewestBlock
  <2>9. Lo(StreamLines, len) = len
    BY <1>1, <1>2 DEF Lo
  <2>. QED
    BY <1>3, <2>1, <2>7, <2>8, <2>9 DEF LogLines
<1>. QED
  BY <1>4, <1>5

(* The lines that the stream of k polls when they all belong to p.         *)
Watches(k, p) == k = p \/ (k = Project /\ Processes = {p})

Top(p, k) == IF k # p /\ loggers[p] # NoRing THEN InRing(p) ELSE out[p]
Size(p, k) ==
    CASE k = p -> Len(Current(p))
      [] k # p /\ loggers[p] # NoRing -> loggers[p].len
      [] k # p /\ loggers[p] = NoRing /\ p \in tracked -> Len(Current(p))
      [] k # p /\ loggers[p] = NoRing /\ p \notin tracked -> 0

LEMMA FindingYields ==
  ASSUME NEW p \in Processes, NEW k, k # p, RingInv
  PROVE  Yields(p, Finding(p), Top(p, k), Size(p, k))
<1>1. out[p] \in Int /\ InRing(p) \in Int
  BY DEF RingInv, Shape, InRing
<1>. QED
  BY <1>1 DEF Yields, Fixed, Finding, Top, Size

LEMMA TopSize ==
  ASSUME NEW p \in Processes, NEW k, RingInv, Filed(p)
  PROVE  Top(p, k) \in Int /\ Size(p, k) \in Nat
<1>1. out[p] \in Int
  BY DEF RingInv, Shape
<1>2. Len(Current(p)) \in Nat
  BY CurrentEnds DEF Ends
<1>3. CASE k = p
  BY <1>1, <1>2, <1>3 DEF Top, Size
<1>4. CASE k # p
  BY <1>4, FindingYields, YieldsEnds, LineAssumption
<1>. QED
  BY <1>3, <1>4

(* The stream of a process reads its file, whatever LogLines looked for.   *)
LEMMA FileReading ==
  ASSUME NEW p \in Processes, RingInv, Filed(p), NEW of
  PROVE  Reading(p, of) = Block(p, Top(p, p), Lo(StreamLines, Size(p, p)))
<1>1. StreamLines \in Nat \ {0}
  BY LineAssumption
<1>2. Ends(Current(p), out[p])
  BY CurrentEnds
<1>3. Reading(p, of) = Of(p, Newest(Current(p), StreamLines))
  BY DEF Reading, FileTail
<1>4. Top(p, p) = out[p] /\ Size(p, p) = Len(Current(p))
  BY DEF Top, Size
<1>. QED
  BY <1>1, <1>2, <1>3, <1>4, NewestEnds, EndsBlock

-----------------------------------------------------------------------------
(* Writing a line: the file grows, or a new one is begun.                  *)
Grown(fs, new, line) ==
    /\ new \in Seq(Seq(Int)) /\ Len(new) = Len(fs)
    /\ \A j \in 1..(Len(fs) - 1) : new[j] = fs[j]
    /\ new[Len(fs)] = Append(fs[Len(fs)], line)

Rotated(fs, new, line) ==
    /\ new \in Seq(Seq(Int)) /\ Len(new) = Len(fs) + 1
    /\ \A j \in 1..Len(fs) : new[j] = fs[j]
    /\ new[Len(fs) + 1] = <<line>>

LEMMA WrittenIs ==
  ASSUME NEW p \in Processes, Filed(p), files[p] # <<>>, NEW line \in Int,
         NEW new \in Written(p, line)
  PROVE  \/ Grown(files[p], new, line) /\ ~(Len(new) > Len(files[p]))
         \/ Rotated(files[p], new, line) /\ Len(new) > Len(files[p])
<1>. DEFINE fs == files[p]
<1>1. fs \in Seq(Seq(Int)) /\ Len(fs) \in Nat \ {0} /\ fs[Len(fs)] \in Seq(Int)
  <2>1. fs \in Seq(Seq(Int))
    BY DEF Filed, FilesAt
  <2>2. Len(fs) \in 1..Len(fs)
    BY <2>1
  <2>. QED
    BY <2>1, <2>2, ElementOfSeq
<1>2. CASE new = [fs EXCEPT ![Len(fs)] = Append(@, line)]
  <2>1. Append(fs[Len(fs)], line) \in Seq(Int)
    BY <1>1
  <2>2. new \in Seq(Seq(Int)) /\ Len(new) = Len(fs)
    BY <1>1, <1>2, <2>1, ExceptSeq
  <2>. QED
    BY <1>1, <1>2, <2>2 DEF Grown
<1>3. CASE new = Append(fs, <<line>>)
  <2>1. <<line>> \in Seq(Int)
    OBVIOUS
  <2>. QED
    BY <1>1, <1>3, <2>1, AppendProperties DEF Rotated
<1>. QED
  BY <1>2, <1>3 DEF Written

LEMMA GrownFiles ==
  ASSUME NEW fs, NEW top \in Int, NEW new, FilesAt(fs, top), fs # <<>>,
         Grown(fs, new, top + 1)
  PROVE  /\ FilesAt(new, top + 1) /\ new # <<>>
         /\ Len(Now(new)) = Len(Now(fs)) + 1
         /\ Now(fs) \in Seq(Int)
<1>1. /\ fs \in Seq(Seq(Int)) /\ Len(fs) \in Nat \ {0}
      /\ new \in Seq(Seq(Int)) /\ Len(new) = Len(fs) /\ new # <<>>
  BY DEF FilesAt, Grown
<1>. DEFINE c == fs[Len(fs)]
            d == new[Len(fs)]
<1>2. Now(fs) = c /\ Now(new) = d
  BY <1>1 DEF Now
<1>3. c \in Seq(Int) /\ Len(c) \in Nat /\ \A i \in 1..Len(c) : c[i] = top - Len(c) + i
  <2>1. Ends(c, top)
    BY <1>2 DEF FilesAt
  <2>. HIDE DEF c
  <2>. QED
    BY <2>1 DEF Ends
<1>4. d = Append(c, top + 1)
  BY DEF Grown
<1>. HIDE DEF c, d
<1>5. /\ d \in Seq(Int) /\ Len(d) = Len(c) + 1 /\ d[Len(c) + 1] = top + 1
      /\ \A i \in 1..Len(c) : d[i] = c[i]
  BY <1>3, <1>4, AppendProperties
<1>6. \A i \in 1..Len(d) : d[i] = top + 1 - Len(d) + i
  <2>. SUFFICES ASSUME NEW i \in 1..Len(d) PROVE d[i] = top + 1 - Len(d) + i
    OBVIOUS
  <2>1. CASE i = Len(c) + 1
    BY <1>3, <1>5, <2>1
  <2>2. CASE i # Len(c) + 1
    <3>1. i \in 1..Len(c)
      BY <1>3, <1>5, <2>2
    <3>2. d[i] = c[i] /\ c[i] = top - Len(c) + i
      BY <1>3, <1>5, <3>1
    <3>. QED
      BY <1>3, <1>5, <3>1, <3>2
  <2>. QED
    BY <2>1, <2>2
<1>7. Ends(d, top + 1)
  BY <1>5, <1>6 DEF Ends
<1>8. ASSUME NEW j \in 1..Len(new)
      PROVE  Even(new[j], top + 1)
  <2>1. CASE j = Len(fs)
    <3>. DEFINE b == top + 1 - Len(d)
    <3>1. b \in Int /\ b + Len(d) <= top + 1 /\ \A i \in 1..Len(d) : d[i] = b + i
      BY <1>3, <1>5, <1>6
    <3>2. new[j] = d
      BY <2>1 DEF d
    <3>. HIDE DEF b
    <3>. QED
      BY <3>1, <3>2 DEF Even
  <2>2. CASE j # Len(fs)
    <3>1. j \in 1..(Len(fs) - 1) /\ j \in 1..Len(fs)
      BY <1>1, <2>2
    <3>2. new[j] = fs[j] /\ Even(fs[j], top)
      BY <3>1 DEF Grown, FilesAt
    <3>3. PICK b \in Int : b + Len(fs[j]) <= top /\ \A i \in 1..Len(fs[j]) : fs[j][i] = b + i
      BY <3>2 DEF Even
    <3>4. Len(fs[j]) \in Nat
      BY <1>1, <3>1, ElementOfSeq, LenProperties
    <3>5. b + Len(fs[j]) <= top + 1
      BY <3>3, <3>4
    <3>. QED
      BY <3>2, <3>3, <3>5 DEF Even
  <2>. QED
    BY <2>1, <2>2
<1>. QED
  BY <1>1, <1>2, <1>3, <1>5, <1>7, <1>8 DEF FilesAt

LEMMA RotatedFiles ==
  ASSUME NEW fs, NEW top \in Int, NEW new, FilesAt(fs, top),
         Rotated(fs, new, top + 1)
  PROVE  FilesAt(new, top + 1) /\ new # <<>> /\ Len(Now(new)) = 1
<1>1. /\ fs \in Seq(Seq(Int)) /\ Len(fs) \in Nat
      /\ new \in Seq(Seq(Int)) /\ Len(new) = Len(fs) + 1 /\ new # <<>>
      /\ new[Len(fs) + 1] = <<top + 1>>
  BY DEF FilesAt, Rotated
<1>2. Now(new) = <<top + 1>>
  BY <1>1 DEF Now
<1>3. Ends(<<top + 1>>, top + 1)
  BY DEF Ends
<1>4. ASSUME NEW j \in 1..Len(new)
      PROVE  Even(new[j], top + 1)
  <2>1. CASE j = Len(fs) + 1
    <3>1. top + Len(<<top + 1>>) <= top + 1
          /\ \A i \in 1..Len(<<top + 1>>) : <<top + 1>>[i] = top + i
      OBVIOUS
    <3>. QED
      BY <1>1, <2>1, <3>1 DEF Even
  <2>2. CASE j # Len(fs) + 1
    <3>1. j \in 1..Len(fs)
      BY <1>1, <2>2
    <3>2. new[j] = fs[j] /\ Even(fs[j], top)
      BY <3>1 DEF Rotated, FilesAt
    <3>3. PICK b \in Int : b + Len(fs[j]) <= top /\ \A i \in 1..Len(fs[j]) : fs[j][i] = b + i
      BY <3>2 DEF Even
    <3>4. Len(fs[j]) \in Nat
      BY <1>1, <3>1, ElementOfSeq, LenProperties
    <3>5. b + Len(fs[j]) <= top + 1
      BY <3>3, <3>4
    <3>. QED
      BY <3>2, <3>3, <3>5 DEF Even
  <2>. QED
    BY <2>1, <2>2
<1>. QED
  BY <1>1, <1>2, <1>3, <1>4 DEF FilesAt

-----------------------------------------------------------------------------
(* The logs of all processes: what one step does to those of one of them.  *)
Forms ==
    /\ tracked \subseteq Processes
    /\ files = [p \in Processes |-> files[p]]
    /\ causes = [v \in Readers |-> causes[v]]

LogInv == Forms /\ \A p \in Processes : Filed(p)

Wrote(p) ==
    /\ files[p] # <<>> /\ out'[p] = out[p] + 1
    /\ \/ Grown(files[p], files'[p], out[p] + 1) /\ LineCauses(p, FALSE, p \in running)
       \/ Rotated(files[p], files'[p], out[p] + 1) /\ LineCauses(p, TRUE, p \in running)

LEMMA WroteFiles ==
  ASSUME RingInv, NEW p \in Processes, Filed(p), Wrote(p)
  PROVE  /\ FilesAt(files'[p], out'[p])
         /\ files'[p] # <<>>
         /\ Len(Now(files'[p])) > 0
<1>1. out[p] \in Int /\ FilesAt(files[p], out[p])
  BY DEF RingInv, Shape, Filed
<1>2. CASE Grown(files[p], files'[p], out[p] + 1)
  <2>1. /\ FilesAt(files'[p], out[p] + 1) /\ files'[p] # <<>>
        /\ Len(Now(files'[p])) = Len(Now(files[p])) + 1
        /\ Now(files[p]) \in Seq(Int)
    BY <1>1, <1>2, GrownFiles DEF Wrote
  <2>2. Len(Now(files[p])) \in Nat
    BY <2>1
  <2>. QED
    BY <2>1, <2>2 DEF Wrote
<1>3. CASE Rotated(files[p], files'[p], out[p] + 1)
  <2>1. FilesAt(files'[p], out[p] + 1) /\ files'[p] # <<>> /\ Len(Now(files'[p])) = 1
    BY <1>1, <1>3, RotatedFiles
  <2>. QED
    BY <2>1 DEF Wrote
<1>. QED
  BY <1>2, <1>3 DEF Wrote

LEMMA EmitWrites ==
  ASSUME RingInv, LogInv, NEW p \in Processes, Emit(p)
  PROVE  Wrote(p) /\ \A q \in Processes : q # p => files'[q] = files[q]
<1>1. /\ p \in running /\ out' = [out EXCEPT ![p] = out[p] + 1]
      /\ \E new \in Written(p, out[p] + 1) :
            /\ files' = [files EXCEPT ![p] = new]
            /\ LineCauses(p, Len(new) > Len(files[p]), TRUE)
  BY DEF Emit
<1>2. out[p] \in Int /\ out'[p] = out[p] + 1
  BY <1>1 DEF RingInv, Shape
<1>3. files[p] # <<>> /\ Filed(p)
  BY <1>1 DEF RingInv, Rung, LogInv, Filed
<1>4. PICK new \in Written(p, out[p] + 1) :
            /\ files' = [files EXCEPT ![p] = new]
            /\ LineCauses(p, Len(new) > Len(files[p]), TRUE)
  BY <1>1
<1>5. files'[p] = new /\ \A q \in Processes : q # p => files'[q] = files[q]
  BY <1>4 DEF LogInv, Forms
<1>6. CASE Grown(files[p], new, out[p] + 1) /\ ~(Len(new) > Len(files[p]))
  <2>1. (Len(new) > Len(files[p])) = FALSE /\ (p \in running) = TRUE
    BY <1>1, <1>6
  <2>2. LineCauses(p, FALSE, p \in running)
    BY <1>4, <2>1
  <2>. QED
    BY <1>2, <1>3, <1>5, <1>6, <2>2 DEF Wrote
<1>7. CASE Rotated(files[p], new, out[p] + 1) /\ Len(new) > Len(files[p])
  <2>1. (Len(new) > Len(files[p])) = TRUE /\ (p \in running) = TRUE
    BY <1>1, <1>7
  <2>2. LineCauses(p, TRUE, p \in running)
    BY <1>4, <2>1
  <2>. QED
    BY <1>2, <1>3, <1>5, <1>7, <2>2 DEF Wrote
<1>. QED
  BY <1>2, <1>3, <1>6, <1>7, WrittenIs

LEMMA StartWrites ==
  ASSUME RingInv, LogInv, NEW p \in Processes, StartOpen(p)
  PROVE  /\ \A q \in Processes : q # p => files'[q] = files[q]
         /\ \/ /\ Current(p) = <<>> /\ out' = out /\ seps' = seps /\ causes' = causes
               /\ hand' = [hand EXCEPT ![p] = EmptyRing]
               /\ files'[p] = IF files[p] = <<>> THEN <<<<>>>> ELSE files[p]
            \/ /\ Wrote(p) /\ seps' = seps \cup {<<p, out[p] + 1>>}
               /\ hand' = [hand EXCEPT ![p] = RingAdd(EmptyRing, out[p] + 1)]
<1>1. p \notin running
  BY DEF StartOpen
<1>2. CASE Current(p) = <<>>
  <2>1. /\ files' = [files EXCEPT ![p] = IF files[p] = <<>> THEN <<<<>>>> ELSE files[p]]
        /\ out' = out /\ seps' = seps /\ causes' = causes
        /\ hand' = [hand EXCEPT ![p] = EmptyRing]
    BY <1>2 DEF StartOpen
  <2>. QED
    BY <1>2, <2>1 DEF LogInv, Forms
<1>3. CASE Current(p) # <<>>
  <2>1. /\ out' = [out EXCEPT ![p] = out[p] + 1]
        /\ seps' = seps \cup {<<p, out[p] + 1>>}
        /\ hand' = [hand EXCEPT ![p] = RingAdd(EmptyRing, out[p] + 1)]
        /\ \E new \in Written(p, out[p] + 1) :
              /\ files' = [files EXCEPT ![p] = new]
              /\ LineCauses(p, Len(new) > Len(files[p]), FALSE)
    BY <1>3 DEF StartOpen
  <2>2. out[p] \in Int /\ out'[p] = out[p] + 1
    BY <2>1 DEF RingInv, Shape
  <2>3. files[p] # <<>> /\ Filed(p)
    BY <1>3 DEF LogInv, Current
  <2>4. PICK new \in Written(p, out[p] + 1) :
              /\ files' = [files EXCEPT ![p] = new]
              /\ LineCauses(p, Len(new) > Len(files[p]), FALSE)
    BY <2>1
  <2>5. files'[p] = new /\ \A q \in Processes : q # p => files'[q] = files[q]
    BY <2>4 DEF LogInv, Forms
  <2>6. CASE Grown(files[p], new, out[p] + 1) /\ ~(Len(new) > Len(files[p]))
    <3>1. (Len(new) > Len(files[p])) = FALSE /\ (p \in running) = FALSE
      BY <1>1, <2>6
    <3>2. LineCauses(p, FALSE, p \in running)
      BY <2>4, <3>1
    <3>. QED
      BY <2>1, <2>2, <2>3, <2>5, <2>6, <3>2 DEF Wrote
  <2>7. CASE Rotated(files[p], new, out[p] + 1) /\ Len(new) > Len(files[p])
    <3>1. (Len(new) > Len(files[p])) = TRUE /\ (p \in running) = FALSE
      BY <1>1, <2>7
    <3>2. LineCauses(p, TRUE, p \in running)
      BY <2>4, <3>1
    <3>. QED
      BY <2>1, <2>2, <2>3, <2>5, <2>7, <3>2 DEF Wrote
  <2>. QED
    BY <2>2, <2>3, <2>6, <2>7, WrittenIs
<1>. QED
  BY <1>2, <1>3

(* A step that leaves the logs of q alone.                                 *)
LEMMA FiledKept ==
  ASSUME NEW q \in Processes, Filed(q), files'[q] = files[q], out'[q] = out[q],
         loggers'[q] = loggers[q] \/ loggers'[q] = NoRing \/ hand[q] # NoRing,
         hand'[q] = hand[q] \/ hand'[q] = NoRing, seps \subseteq seps'
  PROVE  Filed(q)'
  BY DEF Filed, Current, Now

LEMMA LogsKept == RingInv /\ LogInv /\ [Next]_vars => LogInv'
<1>. SUFFICES ASSUME RingInv, LogInv, [Next]_vars PROVE LogInv'
  OBVIOUS
<1>0. \A q \in Processes : Filed(q) /\ Rung(q)
  BY DEF LogInv, RingInv
<1>1. ASSUME NEW p \in Processes, Emit(p)
      PROVE  LogInv'
  <2>1. /\ p \in running /\ out' = [out EXCEPT ![p] = out[p] + 1]
        /\ loggers' = [loggers EXCEPT ![p] = RingAdd(loggers[p], out[p] + 1)]
        /\ UNCHANGED <<tracked, hand, seps>>
    BY <1>1 DEF Emit
  <2>2. Wrote(p) /\ \A q \in Processes : q # p => files'[q] = files[q]
    BY <1>1, EmitWrites
  <2>3. Filed(p)'
    <3>1. FilesAt(files'[p], out'[p]) /\ files'[p] # <<>>
      BY <1>0, <2>2, WroteFiles
    <3>2. hand'[p] = NoRing
      BY <1>0, <2>1 DEF Rung
    <3>. QED
      BY <3>1, <3>2 DEF Filed
  <2>4. ASSUME NEW q \in Processes, q # p
        PROVE  Filed(q)'
    BY <1>0, <2>1, <2>2, <2>4, FiledKept DEF RingInv, Shape
  <2>5. Forms'
    <3>1. files' = [q \in Processes |-> files'[q]]
      BY <1>1 DEF Emit, LogInv, Forms
    <3>2. causes' = [v \in Readers |-> causes'[v]]
      BY <2>2 DEF Wrote, LineCauses
    <3>. QED
      BY <2>1, <3>1, <3>2 DEF LogInv, Forms, Readers, Keys
  <2>. QED
    BY <2>3, <2>4, <2>5 DEF LogInv
<1>2. ASSUME NEW p \in Processes, StartOpen(p)
      PROVE  LogInv'
  <2>1. UNCHANGED <<tracked, loggers>> /\ hand[p] = NoRing
    BY <1>2 DEF StartOpen
  <2>2. \A q \in Processes : q # p => files'[q] = files[q]
    BY <1>2, StartWrites
  <2>3. /\ \A q \in Processes : q # p => out'[q] = out[q] /\ hand'[q] = hand[q]
        /\ seps \subseteq seps'
    BY <1>2 DEF StartOpen, RingInv, Shape
  <2>4. Filed(p)'
    <3>1. CASE /\ Current(p) = <<>> /\ out' = out
               /\ hand' = [hand EXCEPT ![p] = EmptyRing]
               /\ files'[p] = IF files[p] = <<>> THEN <<<<>>>> ELSE files[p]
      <4>1. hand'[p] = EmptyRing /\ EmptyRing.len = 0
        BY <3>1 DEF RingInv, Shape, EmptyRing
      <4>2. FilesAt(<<<<>>>>, out[p])
        <5>1. out[p] \in Int
          BY DEF RingInv, Shape
        <5>2. Now(<<<<>>>>) = <<>> /\ Ends(<<>>, out[p])
          BY <5>1 DEF Now, Ends
        <5>3. FilesAt(<<<<>>>>, out[p])
          <6>1. out[p] + Len(<<>>) <= out[p] /\ \A i \in 1..Len(<<>>) : <<>>[i] = out[p] + i
            BY <5>1
          <6>2. Even(<<>>, out[p])
            BY <5>1, <6>1 DEF Even
          <6>3. <<<<>>>> \in Seq(Seq(Int)) /\ \A j \in 1..Len(<<<<>>>>) : <<<<>>>>[j] = <<>>
            OBVIOUS
          <6>. QED
            BY <5>2, <6>2, <6>3 DEF FilesAt
        <5>. QED
          BY <5>3
      <4>3. FilesAt(files'[p], out'[p]) /\ files'[p] # <<>>
        <5>1. FilesAt(files[p], out[p]) /\ out'[p] = out[p]
          BY <1>0, <3>1 DEF Filed
        <5>2. CASE files[p] = <<>>
          BY <3>1, <4>2, <5>1, <5>2
        <5>3. CASE files[p] # <<>>
          BY <3>1, <5>1, <5>3
        <5>. QED
          BY <5>2, <5>3
      <4>. QED
        BY <4>1, <4>3 DEF Filed
    <3>2. CASE /\ Wrote(p) /\ seps' = seps \cup {<<p, out[p] + 1>>}
               /\ hand' = [hand EXCEPT ![p] = RingAdd(EmptyRing, out[p] + 1)]
      <4>1. FilesAt(files'[p], out'[p]) /\ files'[p] # <<>> /\ Len(Now(files'[p])) > 0
        BY <1>0, <3>2, WroteFiles
      <4>2. hand'[p] = RingAdd(EmptyRing, out[p] + 1)
        BY <3>2 DEF RingInv, Shape
      <4>3. hand'[p].len = 1
        BY <4>2, RingAssumption DEF RingAdd, EmptyRing
      <4>4. <<p, out'[p]>> \in seps'
        BY <3>2 DEF Wrote
      <4>5. Current(p)' = Now(files'[p])
        BY DEF Current, Now, Last
      <4>6. Current(p)' # <<>>
        BY <4>1, <4>5
      <4>. QED
        BY <4>1, <4>3, <4>4, <4>6 DEF Filed
    <3>. QED
      BY <1>2, <3>1, <3>2, StartWrites
  <2>5. ASSUME NEW q \in Processes, q # p
        PROVE  Filed(q)'
    BY <1>0, <2>1, <2>2, <2>3, <2>5, FiledKept
  <2>6. Forms'
    <3>1. files' = [q \in Processes |-> files'[q]]
      BY <1>2 DEF StartOpen, LogInv, Forms
    <3>2. causes' = [v \in Readers |-> causes'[v]]
      BY <1>2 DEF StartOpen, LineCauses, LogInv, Forms
    <3>. QED
      BY <2>1, <3>1, <3>2 DEF LogInv, Forms, Readers, Keys
  <2>. QED
    BY <2>4, <2>5, <2>6 DEF LogInv
<1>3. ASSUME NEW p \in Processes, StartInstall(p)
      PROVE  LogInv'
  <2>1. /\ hand[p] # NoRing /\ loggers' = [loggers EXCEPT ![p] = hand[p]]
        /\ hand' = [hand EXCEPT ![p] = NoRing]
        /\ tracked' \subseteq tracked \cup {p}
        /\ UNCHANGED <<out, files, seps>>
        /\ causes' = [causes EXCEPT ![Project] =
                         IF stream[Project].on THEN @ \cup {"replaced"} ELSE @]
    BY <1>3 DEF StartInstall
  <2>2. ASSUME NEW q \in Processes
        PROVE  Filed(q)'
    BY <1>0, <2>1, FiledKept DEF RingInv, Shape
  <2>3. Forms'
    BY <2>1 DEF LogInv, Forms, Readers, Keys
  <2>. QED
    BY <2>2, <2>3 DEF LogInv
<1>4. CASE RemoveProject
  <2>1. /\ loggers' = [p \in Processes |-> NoRing] /\ tracked' = {}
        /\ UNCHANGED <<out, files, hand, seps>>
        /\ causes' = [causes EXCEPT ![Project] =
                         IF stream[Project].on THEN @ \cup {"replaced"} ELSE @]
    BY <1>4 DEF RemoveProject
  <2>2. ASSUME NEW q \in Processes
        PROVE  Filed(q)'
    BY <1>0, <2>1, FiledKept
  <2>3. Forms'
    BY <2>1 DEF LogInv, Forms, Readers, Keys
  <2>. QED
    BY <2>2, <2>3 DEF LogInv
<1>5. ASSUME UNCHANGED <<out, files, loggers, hand, seps>>, tracked' \subseteq Processes,
             causes' = [v \in Readers |-> causes'[v]]
      PROVE  LogInv'
  <2>1. \A q \in Processes : Filed(q)'
    BY <1>0, <1>5, FiledKept
  <2>2. Forms'
    BY <1>5 DEF LogInv, Forms, Readers, Keys
  <2>. QED
    BY <2>1, <2>2 DEF LogInv
<1>6. ASSUME NEW p \in Processes,
             \/ Exit(p) \/ StartUnlogged(p)
             \/ FollowLook(p) \/ FollowAsk(p) \/ FollowOpen(p) \/ FollowRead(p)
      PROVE  LogInv'
  <2>1. UNCHANGED <<out, files, loggers, hand, seps>> /\ tracked' \subseteq Processes
    BY <1>6 DEF Exit, StartUnlogged, FollowLook, Look, FollowAsk, FollowOpen, FollowRead,
                writer, LogInv, Forms
  <2>2. causes' = [v \in Readers |-> causes'[v]]
    BY <1>6 DEF Exit, StartUnlogged, FollowLook, Look, FollowAsk, FollowOpen, FollowRead,
                LogInv, Forms
  <2>. QED
    BY <1>5, <2>1, <2>2
<1>7. CASE PollLook \/ \E k \in Keys : Connect(k) \/ Poll(k)
  <2>1. UNCHANGED <<out, files, loggers, hand, seps>> /\ tracked' \subseteq Processes
    BY <1>7 DEF PollLook, Look, Connect, Poll, writer, LogInv, Forms
  <2>2. causes' = [v \in Readers |-> causes'[v]]
    BY <1>7 DEF PollLook, Look, Connect, Poll, LogInv, Forms
  <2>. QED
    BY <1>5, <2>1, <2>2
<1>8. CASE UNCHANGED vars
  BY <1>5, <1>8 DEF vars, writer, LogInv, Forms
<1>. QED
  BY <1>1, <1>2, <1>3, <1>4, <1>6, <1>7, <1>8 DEF Next

-----------------------------------------------------------------------------
(* What a step does to what the stream of k polls of the lines of p: it    *)
(* leaves it alone, appends a line for which there is room unless there is *)
(* a cause for a gap, or moves it in another way, for a cause.  While the  *)
(* project's stream reads nothing of p, lines come that it does not see;   *)
(* and it may be left with a file whose lines it has seen in a ring.       *)
Shifts(p, k) ==
    /\ seps \subseteq seps' /\ causes[k] \subseteq causes'[k]
    /\ Top(p, k)' \in Int /\ Size(p, k)' \in Nat
    /\ \/ Top(p, k)' = Top(p, k) /\ Size(p, k)' = Size(p, k)
       \/ /\ Top(p, k)' = Top(p, k) + 1 /\ Size(p, k)' = Size(p, k) + 1
          /\ stream[k].on /\ causes'[k] = {} => Size(p, k) < StreamLines
       \/ /\ Moves(p, Top(p, k), Size(p, k), Top(p, k)', Size(p, k)', seps')
          /\ stream[k].on => causes'[k] # {}
       \/ Size(p, k) = 0 /\ Size(p, k)' = 0 /\ Top(p, k)' >= Top(p, k)
       \/ k # p /\ (stream[k].on => "reread" \in causes'[k])

LEMMA LineCausesOf ==
  ASSUME NEW p, NEW r, NEW i, LineCauses(p, r, i), NEW k \in Keys
  PROVE  /\ causes[k] \subseteq causes'[k]
         /\ causes'[k] = {} /\ stream[k].on =>
              /\ ~Replaced(p, k, r)
              /\ k = p \/ loggers[p] = NoRing \/ i => ~Full(p, k)
<1>1. causes'[k] = causes[k] \cup StreamCauses(p, k, r, k = p \/ loggers[p] = NoRing \/ i)
  BY DEF LineCauses, Readers
<1>2. stream[k].on =>
         StreamCauses(p, k, r, k = p \/ loggers[p] = NoRing \/ i)
           = IF Replaced(p, k, r) THEN {"replaced"}
             ELSE IF (k = p \/ loggers[p] = NoRing \/ i) /\ Full(p, k) THEN {"full"} ELSE {}
  BY DEF StreamCauses
<1>. QED
  BY <1>1, <1>2

(* An aggregate of one process gives it its whole share.                   *)
LEMMA FullIs ==
  ASSUME NEW p \in Processes, NEW k \in Keys, Watches(k, p), RingInv, LogInv,
         k = p \/ p \in Subs
  PROVE  Full(p, k) <=> Size(p, k) >= StreamLines
<1>0. Filed(p) /\ StreamLines \in Nat \ {0}
  BY LineAssumption DEF LogInv
<1>1. CASE k = p
  BY <1>1 DEF Full, Size
<1>2. CASE k # p
  <2>1. k = Project /\ Processes = {p} /\ p \in Subs
    BY <1>2 DEF Watches
  <2>2. Finding(p).by # "none"
    BY <2>1, Kinds DEF Finding, Subs
  <2>3. p \in NamedIn(Findings)
    BY <2>2 DEF NamedIn, Findings
  <2>4. Share(Findings, StreamLines) = StreamLines
    BY <2>1, <2>3, OneShare
  <2>. DEFINE size == Size(p, k)
  <2>5. Yields(p, Finding(p), Top(p, k), size)
    BY <1>2, FindingYields
  <2>. HIDE DEF size
  <2>6. Len(LinesIn(p, Finding(p), StreamLines)) = Lo(StreamLines, size) /\ size \in Nat
    BY <1>0, <2>5, YieldsEnds
  <2>7. Full(p, k) <=> Lo(StreamLines, size) >= StreamLines
    BY <1>2, <2>1, <2>4, <2>6 DEF Full
  <2>. QED
    BY <1>0, <2>6, <2>7 DEF Lo, size
<1>. QED
  BY <1>1, <1>2

LEMMA InSubs ==
  ASSUME NEW p \in Processes
  PROVE  /\ p \in Subs <=> loggers[p] # NoRing \/ p \in tracked
         /\ (p \in Subs)' <=> loggers'[p] # NoRing \/ p \in tracked'
  BY DEF Subs

(* A line in a file that a stream reads.                                   *)
LEMMA FileShifts ==
  ASSUME NEW p \in Processes, NEW k \in Keys, Watches(k, p), RingInv, LogInv,
         Wrote(p), seps \subseteq seps',
         Top(p, k) = out[p] /\ Size(p, k) = Len(Current(p)),
         Top(p, k)' = out'[p] /\ Size(p, k)' = Len(Current(p))',
         k = p \/ (loggers[p] = NoRing /\ p \in tracked)
  PROVE  Shifts(p, k)
<1>1. out[p] \in Int /\ FilesAt(files[p], out[p]) /\ files[p] # <<>>
  <2>1. Filed(p) /\ out[p] \in Int
    BY DEF RingInv, Shape, LogInv
  <2>. QED
    BY <2>1 DEF Filed, Wrote
<1>2. Current(p) = Now(files[p]) /\ Current(p)' = Now(files'[p])
  BY DEF Current, Now, Last
<1>3. Size(p, k) \in Nat
  BY TopSize DEF LogInv
<1>4. CASE Grown(files[p], files'[p], out[p] + 1) /\ LineCauses(p, FALSE, p \in running)
  <2>1. Len(Now(files'[p])) = Len(Now(files[p])) + 1
    BY <1>1, <1>4, GrownFiles
  <2>2. /\ causes[k] \subseteq causes'[k]
        /\ causes'[k] = {} /\ stream[k].on => ~Full(p, k)
    BY <1>4, LineCausesOf
  <2>3. ~Full(p, k) => Size(p, k) < StreamLines
    <3>1. k = p \/ p \in Subs
      BY InSubs
    <3>2. StreamLines \in Nat
      BY LineAssumption
    <3>. QED
      BY <1>3, <3>1, <3>2, FullIs
  <2>4. Top(p, k)' = Top(p, k) + 1 /\ Size(p, k)' = Size(p, k) + 1
    BY <1>2, <2>1 DEF Wrote
  <2>5. Top(p, k)' \in Int /\ Size(p, k)' \in Nat
    BY <1>1, <1>3, <2>4
  <2>. QED
    BY <2>2, <2>3, <2>4, <2>5 DEF Shifts
<1>5. CASE Rotated(files[p], files'[p], out[p] + 1) /\ LineCauses(p, TRUE, p \in running)
  <2>1. Len(Now(files'[p])) = 1
    BY <1>1, <1>5, RotatedFiles
  <2>2. Replaced(p, k, TRUE)
    BY DEF Replaced, Watches
  <2>3. /\ causes[k] \subseteq causes'[k]
        /\ stream[k].on => causes'[k] # {}
    BY <1>5, <2>2, LineCausesOf
  <2>4. Top(p, k)' = out[p] + 1 /\ Size(p, k)' = 1
    BY <1>2, <2>1 DEF Wrote
  <2>5. Moves(p, Top(p, k), Size(p, k), Top(p, k)', Size(p, k)', seps')
    BY <1>1, <2>4 DEF Moves
  <2>. QED
    BY <1>1, <2>3, <2>4, <2>5 DEF Shifts
<1>. QED
  BY <1>4, <1>5 DEF Wrote

LEMMA EmitShifts ==
  ASSUME NEW p \in Processes, NEW k \in Keys, Watches(k, p), RingInv, LogInv, Emit(p)
  PROVE  Shifts(p, k)
<1>1. /\ p \in running /\ out' = [out EXCEPT ![p] = out[p] + 1]
      /\ loggers' = [loggers EXCEPT ![p] = RingAdd(loggers[p], out[p] + 1)]
      /\ UNCHANGED <<tracked, hand, seps>>
  BY DEF Emit
<1>2. /\ out[p] \in Int /\ out'[p] = out[p] + 1
      /\ loggers'[p] = RingAdd(loggers[p], out[p] + 1)
      /\ loggers[p] # NoRing /\ hand[p] = NoRing /\ Holds(loggers[p], InRing(p))
  BY <1>1 DEF RingInv, Shape, Rung
<1>3. Wrote(p)
  BY EmitWrites
<1>4. CASE k = p
  BY <1>1, <1>3, <1>4, FileShifts DEF Top, Size
<1>5. CASE k # p
  <2>1. InRing(p) = out[p] /\ InRing(p)' = out[p] + 1
    BY <1>1, <1>2 DEF InRing
  <2>2. loggers'[p] # NoRing
    <3>1. out[p] + 1 \in 0..MaxLines
      BY <1>2, LineAssumption DEF Emit, RingInv, Shape
    <3>2. Holds(loggers'[p], out[p] + 1)
      BY <1>2, <2>1, <3>1, AddHolds
    <3>. QED
      BY <3>2, NotAbsent
  <2>3. /\ Top(p, k) = out[p] /\ Top(p, k)' = out[p] + 1
        /\ Size(p, k) = loggers[p].len /\ Size(p, k)' = loggers'[p].len
    BY <1>2, <1>5, <2>1, <2>2 DEF Top, Size
  <2>4. /\ loggers[p].len \in 0..RingCap
        /\ loggers'[p].len = IF loggers[p].len < RingCap THEN loggers[p].len + 1
                             ELSE loggers[p].len
    BY <1>2 DEF Holds, RingType, RingAdd
  <2>5. /\ causes[k] \subseteq causes'[k]
        /\ causes'[k] = {} /\ stream[k].on => ~Full(p, k)
    <3>1. LineCauses(p, FALSE, p \in running) \/ LineCauses(p, TRUE, p \in running)
      BY <1>3 DEF Wrote
    <3>. QED
      BY <1>1, <3>1, LineCausesOf
  <2>6. Full(p, k) <=> Size(p, k) >= StreamLines
    BY <1>2, <1>5, InSubs, FullIs
  <2>7. StreamLines \in Nat /\ RingCap \in Nat /\ StreamLines <= RingCap
    BY LineAssumption, RingAssumption, StreamAssumption
  <2>8. CASE loggers[p].len < RingCap
    BY <1>1, <1>2, <2>3, <2>4, <2>5, <2>6, <2>7, <2>8 DEF Shifts
  <2>9. CASE ~(loggers[p].len < RingCap)
    <3>1. Size(p, k) = RingCap /\ Size(p, k)' = RingCap
      BY <2>3, <2>4, <2>7, <2>9
    <3>2. stream[k].on => causes'[k] # {}
      BY <2>5, <2>6, <2>7, <3>1
    <3>3. Moves(p, Top(p, k), Size(p, k), Top(p, k)', Size(p, k)', seps')
      BY <1>2, <2>3, <2>7, <3>1 DEF Moves
    <3>. QED
      BY <1>1, <1>2, <2>3, <2>5, <2>7, <3>1, <3>2, <3>3 DEF Shifts
  <2>. QED
    BY <2>8, <2>9
<1>. QED
  BY <1>4, <1>5

LEMMA StartOpenShifts ==
  ASSUME NEW p \in Processes, NEW k \in Keys, Watches(k, p), RingInv, LogInv,
         StartOpen(p)
  PROVE  Shifts(p, k)
<1>1. UNCHANGED <<tracked, loggers>> /\ hand[p] = NoRing
  BY DEF StartOpen
<1>2. out[p] \in Int /\ InRing(p) = out[p]
  BY <1>1 DEF RingInv, Shape, InRing
<1>t. Top(p, k) \in Int /\ Size(p, k) \in Nat
  BY TopSize DEF LogInv
<1>3. CASE /\ Current(p) = <<>> /\ out' = out /\ seps' = seps /\ causes' = causes
           /\ hand' = [hand EXCEPT ![p] = EmptyRing]
           /\ files'[p] = IF files[p] = <<>> THEN <<<<>>>> ELSE files[p]
  <2>1. hand'[p] = EmptyRing /\ EmptyRing.len = 0
    BY <1>3 DEF RingInv, Shape, EmptyRing
  <2>2. InRing(p)' = out[p]
    BY <1>2, <1>3, <2>1 DEF InRing
  <2>3. Current(p)' = <<>>
    BY <1>3 DEF Current, Last
  <2>4. Top(p, k)' = Top(p, k) /\ Size(p, k)' = Size(p, k)
    BY <1>1, <1>2, <1>3, <2>2, <2>3 DEF Top, Size
  <2>. QED
    BY <1>3, <1>t, <2>4 DEF Shifts
<1>4. CASE /\ Wrote(p) /\ seps' = seps \cup {<<p, out[p] + 1>>}
           /\ hand' = [hand EXCEPT ![p] = RingAdd(EmptyRing, out[p] + 1)]
  <2>0. causes[k] \subseteq causes'[k]
    <3>1. LineCauses(p, FALSE, p \in running) \/ LineCauses(p, TRUE, p \in running)
      BY <1>4 DEF Wrote
    <3>. QED
      BY <3>1, LineCausesOf
  <2>1. CASE k = p \/ (loggers[p] = NoRing /\ p \in tracked)
    <3>1. /\ Top(p, k) = out[p] /\ Size(p, k) = Len(Current(p))
          /\ Top(p, k)' = out'[p] /\ Size(p, k)' = Len(Current(p))'
      BY <1>1, <2>1 DEF Top, Size
    <3>. QED
      BY <1>4, <2>1, <3>1, FileShifts
  <2>2. CASE k # p /\ loggers[p] = NoRing /\ p \notin tracked
    <3>1. /\ Top(p, k) = out[p] /\ Size(p, k) = 0
          /\ Top(p, k)' = out[p] + 1 /\ Size(p, k)' = 0
      BY <1>1, <1>4, <2>2 DEF Top, Size, Wrote
    <3>. QED
      BY <1>2, <1>4, <2>0, <3>1 DEF Shifts
  <2>3. CASE k # p /\ loggers[p] # NoRing
    <3>1. hand'[p] = RingAdd(EmptyRing, out[p] + 1) /\ out'[p] = out[p] + 1
      BY <1>4 DEF RingInv, Shape, Wrote
    <3>2. hand'[p].len = 1
      BY <3>1, RingAssumption DEF RingAdd, EmptyRing
    <3>4. hand'[p] # NoRing
      <4>1. out[p] + 1 \in 0..MaxLines
        <5>1. out'[p] # out[p]
          BY <1>2, <1>4 DEF Wrote
        <5>2. Current(p) # <<>>
          BY <5>1 DEF StartOpen
        <5>. QED
          BY <1>2, <5>2, LineAssumption DEF StartOpen, RingInv, Shape
      <4>2. Holds(EmptyRing, out[p])
        BY <1>2, EmptyHolds
      <4>3. Holds(hand'[p], out[p] + 1)
        BY <1>2, <3>1, <4>1, <4>2, AddHolds
      <4>. QED
        BY <4>3, NotAbsent
    <3>5. InRing(p)' = out[p]
      <4>1. InRing(p)' = out'[p] - (IF hand'[p] # NoRing /\ hand'[p].len > 0 THEN 1 ELSE 0)
        BY DEF InRing
      <4>. QED
        BY <1>2, <3>1, <3>2, <3>4, <4>1
    <3>6. Top(p, k)' = Top(p, k) /\ Size(p, k)' = Size(p, k)
      BY <1>1, <1>2, <2>3, <3>5 DEF Top, Size
    <3>. QED
      BY <1>4, <1>t, <2>0, <3>6 DEF Shifts
  <2>. QED
    BY <2>1, <2>2, <2>3
<1>. QED
  BY <1>3, <1>4, StartWrites

LEMMA UnloggedShifts ==
  ASSUME NEW p \in Processes, NEW k \in Keys, Watches(k, p), RingInv, LogInv,
         StartUnlogged(p)
  PROVE  Shifts(p, k)
<1>1. /\ UNCHANGED <<out, files, loggers, hand, seps>> /\ tracked' = tracked \cup {p}
      /\ causes' = [causes EXCEPT ![Project] =
                       IF stream[Project].on /\ p \notin Subs
                       THEN @ \cup {"reread"} ELSE @]
  BY DEF StartUnlogged
<1>2. causes'[k] = IF k = Project /\ stream[Project].on /\ p \notin Subs
                   THEN causes[k] \cup {"reread"} ELSE causes[k]
  BY <1>1 DEF LogInv, Forms, Readers
<1>3. Top(p, k) \in Int /\ Size(p, k) \in Nat /\ Len(Current(p)) \in Nat
  <2>1. Filed(p)
    BY DEF LogInv
  <2>. QED
    BY <2>1, TopSize, CurrentEnds DEF Ends
<1>4. Top(p, k)' = Top(p, k)
  BY <1>1 DEF Top, InRing
<1>5. CASE k = p \/ p \in Subs
  <2>1. Size(p, k)' = Size(p, k)
    BY <1>1, <1>5, InSubs DEF Size, Current
  <2>. QED
    BY <1>1, <1>2, <1>3, <1>4, <2>1 DEF Shifts
<1>6. CASE k # p /\ p \notin Subs
  <2>1. k = Project /\ loggers[p] = NoRing
    BY <1>6, InSubs DEF Watches
  <2>2. Size(p, k)' = Len(Current(p))
    BY <1>1, <1>6, <2>1 DEF Size, Current
  <2>3. stream[k].on => "reread" \in causes'[k]
    BY <1>2, <1>6, <2>1
  <2>. QED
    BY <1>1, <1>2, <1>3, <1>4, <1>6, <2>2, <2>3 DEF Shifts
<1>. QED
  BY <1>5, <1>6

LEMMA InstallShifts ==
  ASSUME NEW p \in Processes, NEW k \in Keys, Watches(k, p), RingInv, LogInv,
         StartInstall(p)
  PROVE  Shifts(p, k)
<1>1. /\ hand[p] # NoRing /\ loggers'[p] = hand[p] /\ hand'[p] = NoRing
      /\ out' = out /\ files' = files /\ seps' = seps
      /\ causes' = [causes EXCEPT ![Project] =
                       IF stream[Project].on THEN @ \cup {"replaced"} ELSE @]
  BY DEF StartInstall, RingInv, Shape
<1>2. out[p] \in Int /\ Holds(hand[p], out[p])
  BY <1>1 DEF RingInv, Shape, Rung
<1>3. causes'[k] = IF k = Project /\ stream[k].on THEN causes[k] \cup {"replaced"}
                   ELSE causes[k]
  BY <1>1 DEF LogInv, Forms, Readers
<1>t. Top(p, k) \in Int /\ Size(p, k) \in Nat
  BY TopSize DEF LogInv
<1>4. CASE k = p
  <2>1. Top(p, k)' = Top(p, k) /\ Size(p, k)' = Size(p, k)
    BY <1>1, <1>4 DEF Top, Size, Current
  <2>. QED
    BY <1>1, <1>3, <1>t, <2>1 DEF Shifts
<1>5. CASE k # p
  <2>1. k = Project
    BY <1>5 DEF Watches
  <2>2. InRing(p)' = out[p]
    BY <1>1, <1>2 DEF InRing
  <2>3. Top(p, k)' = out[p] /\ Size(p, k)' = hand[p].len
    BY <1>1, <1>5, <2>2 DEF Top, Size
  <2>4. hand[p].len \in Nat
    BY <1>2, RingAssumption DEF Holds, RingType
  <2>5. Filed(p)
    BY DEF LogInv
  <2>6. Moves(p, Top(p, k), Size(p, k), Top(p, k)', Size(p, k)', seps')
    <3>1. CASE hand[p].len = 0
      <4>1. InRing(p) = out[p]
        BY <1>2, <3>1 DEF InRing
      <4>2. Top(p, k) = out[p]
        BY <4>1, <1>5 DEF Top
      <4>. QED
        BY <1>2, <2>3, <3>1, <4>2 DEF Moves
    <3>2. CASE hand[p].len > 0
      <4>1. hand[p].len = 1 /\ <<p, out[p]>> \in seps
        BY <1>1, <2>5, <3>2 DEF Filed
      <4>2. InRing(p) = out[p] - 1
        BY <1>1, <1>2, <3>2 DEF InRing
      <4>3. CASE loggers[p] = NoRing
        <5>1. Top(p, k) = out[p]
          BY <4>3 DEF Top
        <5>. QED
          BY <1>1, <2>3, <4>1, <5>1 DEF Moves
      <4>4. CASE loggers[p] # NoRing
        <5>1. Top(p, k) = out[p] - 1
          BY <1>5, <4>2, <4>4 DEF Top
        <5>. QED
          BY <1>2, <2>3, <4>1, <5>1 DEF Moves
      <4>. QED
        BY <4>3, <4>4
    <3>. QED
      BY <2>4, <3>1, <3>2
  <2>. QED
    BY <1>1, <1>2, <1>3, <2>1, <2>3, <2>4, <2>6 DEF Shifts
<1>. QED
  BY <1>4, <1>5

LEMMA RemoveShifts ==
  ASSUME NEW p \in Processes, NEW k \in Keys, Watches(k, p), RingInv, LogInv,
         RemoveProject
  PROVE  Shifts(p, k)
<1>1. /\ hand[p] = NoRing /\ loggers'[p] = NoRing /\ tracked' = {}
      /\ out' = out /\ files' = files /\ seps' = seps /\ hand' = hand
      /\ causes' = [causes EXCEPT ![Project] =
                       IF stream[Project].on THEN @ \cup {"replaced"} ELSE @]
  BY DEF RemoveProject
<1>2. out[p] \in Int
  BY DEF RingInv, Shape
<1>3. causes'[k] = IF k = Project /\ stream[k].on THEN causes[k] \cup {"replaced"}
                   ELSE causes[k]
  BY <1>1 DEF LogInv, Forms, Readers
<1>t. Top(p, k) \in Int /\ Size(p, k) \in Nat
  BY TopSize DEF LogInv
<1>4. CASE k = p
  <2>1. Top(p, k)' = Top(p, k) /\ Size(p, k)' = Size(p, k)
    BY <1>1, <1>4 DEF Top, Size, Current
  <2>. QED
    BY <1>1, <1>3, <1>t, <2>1 DEF Shifts
<1>5. CASE k # p
  <2>1. k = Project
    BY <1>5 DEF Watches
  <2>2. InRing(p) = out[p]
    BY <1>1, <1>2 DEF InRing
  <2>3. Top(p, k) = out[p]
    BY <1>5, <2>2 DEF Top
  <2>4. Top(p, k)' = out[p] /\ Size(p, k)' = 0
    BY <1>1, <1>5 DEF Top, Size
  <2>5. Moves(p, Top(p, k), Size(p, k), Top(p, k)', Size(p, k)', seps')
    BY <1>2, <2>3, <2>4 DEF Moves
  <2>. QED
    BY <1>1, <1>2, <1>3, <2>1, <2>4, <2>5 DEF Shifts
<1>. QED
  BY <1>4, <1>5

(* A step of another process, or of a reader.                              *)
LEMMA StillShifts ==
  ASSUME NEW p \in Processes, NEW k \in Keys, RingInv, LogInv, seps \subseteq seps',
         causes[k] \subseteq causes'[k],
         out'[p] = out[p], files'[p] = files[p],
         k = p \/ (loggers'[p] = loggers[p] /\ hand'[p] = hand[p] /\ tracked' = tracked)
  PROVE  Shifts(p, k)
<1>1. Current(p)' = Current(p)
  BY DEF Current, Last
<1>2. Top(p, k)' = Top(p, k) /\ Size(p, k)' = Size(p, k)
  BY <1>1 DEF Top, Size, InRing
<1>3. Top(p, k) \in Int /\ Size(p, k) \in Nat
  BY TopSize DEF LogInv
<1>. QED
  BY <1>2, <1>3 DEF Shifts

(* Every step is one of these to a stream that watches p.                  *)
LEMMA AllShift ==
  ASSUME NEW p \in Processes, NEW k \in Keys, Watches(k, p), RingInv, LogInv,
         [Next]_vars
  PROVE  Shifts(p, k)
<1>0. ASSUME NEW q \in Processes, q # p
      PROVE  k = p
  BY <1>0 DEF Watches
<1>1. ASSUME NEW q \in Processes, Emit(q)
      PROVE  Shifts(p, k)
  <2>1. CASE q = p
    BY <1>1, <2>1, EmitShifts
  <2>2. CASE q # p
    <3>1. Wrote(q) /\ files'[p] = files[p]
      BY <1>1, <2>2, EmitWrites
    <3>2. LineCauses(q, FALSE, q \in running) \/ LineCauses(q, TRUE, q \in running)
      BY <3>1 DEF Wrote
    <3>3. causes[k] \subseteq causes'[k]
      BY <3>2, LineCausesOf
    <3>4. out'[p] = out[p] /\ seps' = seps
      BY <1>1, <2>2 DEF Emit, RingInv, Shape
    <3>. QED
      BY <1>0, <2>2, <3>1, <3>3, <3>4, StillShifts
  <2>. QED
    BY <2>1, <2>2
<1>2. ASSUME NEW q \in Processes, StartOpen(q)
      PROVE  Shifts(p, k)
  <2>1. CASE q = p
    BY <1>2, <2>1, StartOpenShifts
  <2>2. CASE q # p
    <3>1. files'[p] = files[p]
      BY <1>2, <2>2, StartWrites
    <3>2. causes' = causes \/ LineCauses(q, FALSE, q \in running)
            \/ LineCauses(q, TRUE, q \in running)
      BY <1>2, StartWrites DEF Wrote
    <3>3. causes[k] \subseteq causes'[k]
      BY <3>2, LineCausesOf
    <3>4. out'[p] = out[p] /\ seps \subseteq seps'
      BY <1>2, <2>2 DEF StartOpen, RingInv, Shape
    <3>. QED
      BY <1>0, <2>2, <3>1, <3>3, <3>4, StillShifts
  <2>. QED
    BY <2>1, <2>2
<1>3. ASSUME NEW q \in Processes, StartInstall(q) \/ StartUnlogged(q)
      PROVE  Shifts(p, k)
  <2>1. CASE q = p
    BY <1>3, <2>1, InstallShifts, UnloggedShifts
  <2>2. CASE q # p
    <3>1. out' = out /\ files' = files /\ seps' = seps
      BY <1>3 DEF StartInstall, StartUnlogged
    <3>2. causes[k] \subseteq causes'[k]
      BY <1>3 DEF StartInstall, StartUnlogged, LogInv, Forms, Readers
    <3>. QED
      BY <1>0, <2>2, <3>1, <3>2, StillShifts
  <2>. QED
    BY <2>1, <2>2
<1>4. CASE RemoveProject
  BY <1>4, RemoveShifts
<1>5. ASSUME NEW q \in Processes,
             \/ Exit(q) \/ FollowLook(q) \/ FollowAsk(q) \/ FollowOpen(q)
             \/ FollowRead(q)
      PROVE  Shifts(p, k)
  <2>1. UNCHANGED <<out, files, loggers, tracked, hand, seps>>
    BY <1>5 DEF Exit, FollowLook, Look, FollowAsk, FollowOpen, FollowRead, writer
  <2>2. causes'[k] = causes[k]
    <3>1. Follower(q) # k
      BY KeyAssumption DEF Keys, Follower
    <3>. QED
      BY <1>5, <3>1 DEF Exit, FollowLook, Look, FollowAsk, FollowOpen, FollowRead, LogInv,
                        Forms, Readers
  <2>. QED
    BY <2>1, <2>2, StillShifts
<1>6. CASE PollLook \/ \E c \in Keys : Connect(c) \/ Poll(c)
  <2>1. UNCHANGED <<out, files, loggers, tracked, hand, seps>>
    BY <1>6 DEF PollLook, Look, Connect, Poll, writer
  <2>2. causes[k] \subseteq causes'[k]
    BY <1>6 DEF PollLook, Look, Connect, Poll, LogInv, Forms, Readers
  <2>. QED
    BY <2>1, <2>2, StillShifts
<1>7. CASE UNCHANGED vars
  BY <1>7, StillShifts DEF vars, writer
<1>. QED
  BY <1>1, <1>2, <1>3, <1>4, <1>5, <1>6, <1>7 DEF Next

-----------------------------------------------------------------------------
(* What LogLines found, until it is read: a Logger found is still there or *)
(* kept, and a kept one has no line beyond the last.                       *)
LookForm ==
    /\ looked \subseteq Readers
    /\ found = [v \in Readers |-> found[v]]
    /\ \A v \in Readers : found[v] = [p \in Processes |-> found[v][p]]

Knows(p, f) ==
    \/ f \in {Absent, InFile}
    \/ f = Live /\ loggers[p] # NoRing
    \/ \E r, top : f = Kept(r) /\ Holds(r, top) /\ top \in Int /\ top <= out[p]

LookInv ==
    /\ LookForm
    /\ \A v \in Readers, p \in Processes : Knows(p, found[v][p])

LEMMA LooksInit == Init => LookInv
<1>. SUFFICES ASSUME Init PROVE LookInv
  OBVIOUS
<1>1. looked = {} /\ found = [v \in Readers |-> Nothing]
  BY DEF Init
<1>. QED
  BY <1>1 DEF LookInv, LookForm, Knows, Nothing

LEMMA KnowsYields ==
  ASSUME NEW p \in Processes, RingInv, NEW f, Knows(p, f)
  PROVE  \E top, size : Yields(p, f, top, size) /\ top <= out[p]
<1>1. /\ out[p] \in Int /\ out[p] <= out[p]
      /\ InRing(p) \in Int /\ InRing(p) <= out[p]
  BY DEF RingInv, Shape, InRing
<1>2. CASE f = Absent
  BY <1>1, <1>2 DEF Yields, Fixed
<1>3. CASE f = InFile
  BY <1>1, <1>3 DEF Yields
<1>4. CASE f = Live /\ loggers[p] # NoRing
  BY <1>1, <1>4 DEF Yields
<1>5. CASE \E r, top : f = Kept(r) /\ Holds(r, top) /\ top \in Int /\ top <= out[p]
  BY <1>5 DEF Yields, Fixed
<1>. QED
  BY <1>2, <1>3, <1>4, <1>5 DEF Knows

LEMMA KnowsFinding ==
  ASSUME NEW p
  PROVE  Knows(p, Finding(p))
BY DEF Knows, Finding

LEMMA KnowsStays ==
  ASSUME NEW p \in Processes, NEW f, Knows(p, f), out[p] \in Int, out'[p] \in Int,
         out[p] <= out'[p], f = Live /\ loggers[p] # NoRing => loggers'[p] # NoRing
  PROVE  Knows(p, f)'
<1>1. CASE \E r, top : f = Kept(r) /\ Holds(r, top) /\ top \in Int /\ top <= out[p]
  <2>1. PICK r, top : f = Kept(r) /\ Holds(r, top) /\ top \in Int /\ top <= out[p]
    BY <1>1
  <2>2. top <= out'[p]
    BY <2>1
  <2>. QED
    BY <2>1, <2>2 DEF Knows
<1>. QED
  BY <1>1 DEF Knows

LEMMA LooksKept == RingInv /\ LookInv /\ [Next]_vars => LookInv'
<1>. SUFFICES ASSUME RingInv, LookInv, [Next]_vars PROVE LookInv'
  OBVIOUS
<1>0. /\ LookForm
      /\ \A v \in Readers, p \in Processes : Knows(p, found[v][p])
      /\ \A p \in Processes : out[p] \in Int
      /\ RingInv'
  BY Inductive DEF LookInv, RingInv, Shape
<1>1. ASSUME UNCHANGED lookup,
             \A p \in Processes : /\ out'[p] \in Int /\ out[p] <= out'[p]
                                  /\ loggers[p] # NoRing => loggers'[p] # NoRing
      PROVE  LookInv'
  <2>1. looked' = looked /\ found' = found
    BY <1>1 DEF lookup
  <2>2. ASSUME NEW v \in Readers, NEW p \in Processes
        PROVE  Knows(p, found[v][p])'
    <3>1. PICK f : f = found[v][p]
      OBVIOUS
    <3>2. Knows(p, f)'
      BY <1>0, <1>1, <3>1, KnowsStays
    <3>3. f = found'[v][p]
      BY <2>1, <3>1
    <3>. QED
      BY <3>2, <3>3
  <2>3. LookForm'
    BY <1>0, <2>1 DEF LookForm, Readers, Keys
  <2>. QED
    BY <2>2, <2>3 DEF LookInv, Readers, Keys
<1>2. ASSUME NEW v \in Readers, NEW of, out' = out, loggers' = loggers,
             looked' \subseteq Readers, found' = [found EXCEPT ![v] = of],
             of = [p \in Processes |-> of[p]],
             \A p \in Processes : Knows(p, of[p])
      PROVE  LookInv'
  <2>1. \A w \in Readers : found'[w] = IF w = v THEN of ELSE found[w]
    BY <1>0, <1>2 DEF LookForm
  <2>2. LookForm'
    BY <1>0, <1>2, <2>1 DEF LookForm, Readers, Keys
  <2>3. ASSUME NEW w \in Readers, NEW p \in Processes
        PROVE  Knows(p, found[w][p])'
    <3>1. PICK f : f = found'[w][p]
      OBVIOUS
    <3>2. Knows(p, f)
      BY <1>0, <1>2, <2>1, <3>1
    <3>3. Knows(p, f)'
      BY <1>2, <3>2 DEF Knows
    <3>. QED
      BY <3>1, <3>3
  <2>. QED
    BY <2>2, <2>3 DEF LookInv, Readers, Keys
<1>3. ASSUME NEW ps \in SUBSET Processes, Retain(ps), out' = out,
             \A p \in Processes \ ps : loggers'[p] = loggers[p]
      PROVE  LookInv'
  <2>1. /\ looked' = looked
        /\ \A v \in Readers, p \in Processes :
              found'[v][p] = IF p \in ps /\ found[v][p] = Live THEN Kept(loggers[p])
                                                              ELSE found[v][p]
    BY <1>3 DEF Retain
  <2>2. LookForm'
    BY <1>0, <1>3, <2>1 DEF LookForm, Retain, Readers, Keys
  <2>3. ASSUME NEW v \in Readers, NEW p \in Processes
        PROVE  Knows(p, found[v][p])'
    <3>1. CASE p \in ps /\ found[v][p] = Live
      <4>1. found'[v][p] = Kept(loggers[p])
        BY <2>1, <3>1
      <4>2. loggers[p] # NoRing
        <5>1. Knows(p, found[v][p])
          BY <1>0
        <5>. QED
          BY <3>1, <5>1, Kinds DEF Knows
      <4>3. Holds(loggers[p], InRing(p))
        BY <4>2 DEF RingInv, Rung
      <4>4. InRing(p) \in Int /\ InRing(p) <= out'[p]
        BY <1>3 DEF RingInv, Shape, InRing
      <4>5. PICK r, top : r = loggers[p] /\ top = InRing(p)
        OBVIOUS
      <4>6. found'[v][p] = Kept(r) /\ Holds(r, top) /\ top \in Int /\ top <= out'[p]
        BY <4>1, <4>3, <4>4, <4>5
      <4>. QED
        BY <4>6 DEF Knows
    <3>2. CASE ~(p \in ps /\ found[v][p] = Live)
      <4>1. PICK f : f = found[v][p]
        OBVIOUS
      <4>2. f = found'[v][p]
        BY <2>1, <3>2, <4>1
      <4>3. f = Live => loggers'[p] = loggers[p]
        BY <1>3, <3>2, <4>1
      <4>4. out[p] <= out'[p] /\ out'[p] \in Int
        BY <1>0, <1>3
      <4>5. Knows(p, f)'
        BY <1>0, <4>1, <4>3, <4>4, KnowsStays
      <4>. QED
        BY <4>2, <4>5
    <3>. QED
      BY <3>1, <3>2
  <2>. QED
    BY <2>2, <2>3 DEF LookInv, Readers, Keys
<1>4. ASSUME NEW p \in Processes, Emit(p)
      PROVE  LookInv'
  <2>1. /\ p \in running /\ running' = running /\ UNCHANGED lookup
        /\ out' = [out EXCEPT ![p] = out[p] + 1]
        /\ loggers' = [loggers EXCEPT ![p] = RingAdd(loggers[p], out[p] + 1)]
    BY <1>4 DEF Emit
  <2>2. loggers'[p] # NoRing
    <3>1. Rung(p)'
      BY <1>0 DEF RingInv
    <3>. QED
      BY <2>1, <3>1 DEF Rung
  <2>3. ASSUME NEW q \in Processes
        PROVE  /\ out'[q] \in Int /\ out[q] <= out'[q]
               /\ loggers[q] # NoRing => loggers'[q] # NoRing
    BY <1>0, <2>1, <2>2 DEF RingInv, Shape
  <2>. QED
    BY <1>1, <2>1, <2>3
<1>5. ASSUME NEW p \in Processes, StartOpen(p)
      PROVE  LookInv'
  <2>1. /\ UNCHANGED lookup /\ loggers' = loggers
        /\ out' = out \/ out' = [out EXCEPT ![p] = out[p] + 1]
    BY <1>5 DEF StartOpen
  <2>2. ASSUME NEW q \in Processes
        PROVE  /\ out'[q] \in Int /\ out[q] <= out'[q]
               /\ loggers[q] # NoRing => loggers'[q] # NoRing
    BY <1>0, <2>1 DEF RingInv, Shape
  <2>. QED
    BY <1>1, <2>1, <2>2
<1>6. ASSUME UNCHANGED <<out, loggers, looked, found>>
      PROVE  LookInv'
  BY <1>0, <1>1, <1>6 DEF lookup
<1>7. ASSUME NEW p \in Processes,
             StartUnlogged(p) \/ Exit(p) \/ FollowOpen(p) \/ FollowRead(p)
      PROVE  LookInv'
  BY <1>6, <1>7 DEF StartUnlogged, Exit, FollowOpen, FollowRead, lookup, writer
<1>8. ASSUME NEW p \in Processes, StartInstall(p)
      PROVE  LookInv'
  <2>1. /\ out' = out /\ loggers' = [loggers EXCEPT ![p] = hand[p]] /\ Retain({p})
    BY <1>8 DEF StartInstall
  <2>2. \A q \in Processes \ {p} : loggers'[q] = loggers[q]
    BY <2>1 DEF RingInv, Shape
  <2>. QED
    BY <1>3, <2>1, <2>2
<1>9. CASE RemoveProject
  BY <1>3, <1>9 DEF RemoveProject
<1>10. CASE PollLook
  <2>1. /\ out' = out /\ loggers' = loggers /\ looked' = looked \cup {Project}
        /\ found' = [found EXCEPT ![Project] = Findings]
    BY <1>10 DEF PollLook, Look, writer
  <2>2. Project \in Readers /\ looked' \subseteq Readers
    BY <1>0, <2>1 DEF LookForm, Readers, Keys
  <2>3. /\ Findings = [p \in Processes |-> Findings[p]]
        /\ \A p \in Processes : Knows(p, Findings[p])
    BY KnowsFinding DEF Findings
  <2>. HIDE DEF Findings
  <2>4. PICK of : of = Findings
    OBVIOUS
  <2>. QED
    BY <1>2, <2>1, <2>2, <2>3, <2>4
<1>11. ASSUME NEW p \in Processes, FollowLook(p)
       PROVE  LookInv'
  <2>1. /\ out' = out /\ loggers' = loggers /\ looked' = looked \cup {Follower(p)}
        /\ found' = [found EXCEPT ![Follower(p)] =
             [Nothing EXCEPT ![p] = IF loggers[p] # NoRing THEN Live ELSE InFile]]
    BY <1>11 DEF FollowLook, Look, writer
  <2>2. Follower(p) \in Readers /\ looked' \subseteq Readers
    BY <1>0, <2>1 DEF LookForm, Readers, Follower
  <2>3. PICK of : of = [Nothing EXCEPT ![p] = IF loggers[p] # NoRing THEN Live ELSE InFile]
    OBVIOUS
  <2>4. \A q \in Processes : of[q] = IF q # p THEN Absent
                                     ELSE IF loggers[p] # NoRing THEN Live ELSE InFile
    BY <2>3 DEF Nothing
  <2>5. of = [q \in Processes |-> of[q]] /\ \A q \in Processes : Knows(q, of[q])
    BY <2>3, <2>4 DEF Nothing, Knows
  <2>. QED
    BY <1>2, <2>1, <2>2, <2>3, <2>5
<1>12. ASSUME NEW v \in Readers, Answered(v), out' = out, loggers' = loggers
       PROVE  LookInv'
  <2>1. looked' \subseteq Readers /\ found' = [found EXCEPT ![v] = Nothing]
    BY <1>0, <1>12 DEF Answered, LookForm
  <2>2. Nothing = [p \in Processes |-> Nothing[p]] /\ \A p \in Processes : Knows(p, Nothing[p])
    BY DEF Nothing, Knows
  <2>. QED
    BY <1>2, <1>12, <2>1, <2>2
<1>13. ASSUME NEW p \in Processes, FollowAsk(p)
       PROVE  LookInv'
  BY <1>12, <1>13 DEF FollowAsk, Follower, Readers, writer
<1>14. ASSUME NEW k \in Keys, Poll(k)
       PROVE  LookInv'
  BY <1>12, <1>14 DEF Poll, Readers, writer
<1>15. ASSUME NEW k \in Keys, Connect(k)
       PROVE  LookInv'
  BY <1>6, <1>15 DEF Connect, lookup, writer
<1>16. CASE UNCHANGED vars
  BY <1>6, <1>16 DEF vars, lookup, writer
<1>. QED
  BY <1>4, <1>5, <1>7, <1>8, <1>9, <1>10, <1>11, <1>13, <1>14, <1>15, <1>16 DEF Next

-----------------------------------------------------------------------------
(* The streams.                                                            *)
Streamed(p, k) ==
    /\ k = p \/ "reread" \notin causes[k] =>
          CaughtUp(p, stream[k].shown, stream[k].sent, Top(p, k), Size(p, k), seps)
    /\ causes[k] = {} =>
          Whole(stream[k].shown, stream[k].sent, Top(p, k), Size(p, k))
    /\ ~stream[k].on => stream[k].shown = <<>> /\ stream[k].sent = 0

StreamForm ==
    /\ stream = [k \in Keys |-> stream[k]]
    /\ \A k \in Keys : stream[k] = [on |-> stream[k].on, sent |-> stream[k].sent,
                                    shown |-> stream[k].shown]

StreamInv ==
    /\ StreamForm
    /\ \A p \in Processes, k \in Keys : Watches(k, p) => Streamed(p, k)

(* What a stream has shown when it has read the size lines up to top.      *)
After(s, sent, p, top, size) ==
    LET len == Lo(StreamLines, size)
        from == IF len < sent THEN 0 ELSE sent
    IN  s \o SubSeq(Block(p, top, len), from + 1, len)

(* The project's stream between a lookup and the reading: it will be       *)
(* caught up when it has read the ring that it found and that has been     *)
(* replaced since; it is with the file if that is what it found.  Without  *)
(* a cause for a gap it reads what it would find now.                      *)
Asked(p) ==
    LET f == found[Project][p]
        s == stream[Project].shown
        sent == stream[Project].sent
    IN  /\ stream[Project].on
        /\ causes[Project] = {} => f = Finding(p)
        /\ "reread" \notin causes[Project] =>
              \/ f = Live
              \/ f = InFile /\ CaughtUp(p, s, sent, Top(p, p), Size(p, p), seps)
              \/ \E top, size :
                    /\ Fixed(f, top, size) /\ top \in Int
                    /\ CaughtUp(p, After(s, sent, p, top, size), Lo(StreamLines, size),
                                Top(p, Project), Size(p, Project), seps)

AskInv == \A p \in Processes : Processes = {p} /\ Project \in looked => Asked(p)

LEMMA ShiftCaught ==
  ASSUME NEW p \in Processes, NEW k \in Keys, RingInv, LogInv, Shifts(p, k),
         k = p \/ (stream[k].on /\ "reread" \notin causes'[k]),
         NEW s, NEW sent, CaughtUp(p, s, sent, Top(p, k), Size(p, k), seps)
  PROVE  CaughtUp(p, s, sent, Top(p, k)', Size(p, k)', seps')
<1>1. PICK top, size, top2, size2, ss, ss2 :
         /\ top = Top(p, k) /\ top2 = Top(p, k)'
         /\ size = Size(p, k) /\ size2 = Size(p, k)'
         /\ ss = seps /\ ss2 = seps'
  OBVIOUS
<1>2. top \in Int /\ size \in Nat
  BY <1>1, TopSize DEF LogInv
<1>3. /\ top2 \in Int /\ size2 \in Nat /\ ss \subseteq ss2
      /\ \/ top2 = top /\ size2 = size
         \/ top2 = top + 1 /\ size2 = size + 1
         \/ Moves(p, top, size, top2, size2, ss2)
         \/ size = 0 /\ size2 = 0 /\ top2 >= top
  BY <1>1 DEF Shifts
<1>4. Moves(p, top, size, top2, size2, ss2)
  BY <1>2, <1>3 DEF Moves
<1>5. CaughtUp(p, s, sent, top2, size2, ss2)
  BY <1>1, <1>2, <1>3, <1>4, Moved
<1>. QED
  BY <1>1, <1>5

(* Nothing shown: caught up with anything.                                 *)
LEMMA NothingCaught ==
  ASSUME NEW p, NEW top, NEW size, NEW ss
  PROVE  CaughtUp(p, <<>>, 0, top, size, ss) /\ Whole(<<>>, 0, top, size)
<1>1. <<>> \in Seq({p} \X Int) /\ Len(<<>>) = 0
  OBVIOUS
<1>2. Climbs(<<>>, ss) /\ Steps(<<>>)
  BY <1>1 DEF Climbs, Steps
<1>. QED
  BY <1>1, <1>2 DEF CaughtUp, Whole

LEMMA ShiftKeeps ==
  ASSUME NEW p \in Processes, NEW k \in Keys, RingInv, LogInv,
         Streamed(p, k), Shifts(p, k), stream'[k] = stream[k]
  PROVE  Streamed(p, k)'
<1>1. PICK s, sent, on, top, size, top2, size2 :
         /\ s = stream[k].shown /\ s = stream'[k].shown
         /\ sent = stream[k].sent /\ sent = stream'[k].sent
         /\ on = stream[k].on /\ on = stream'[k].on
         /\ top = Top(p, k) /\ top2 = Top(p, k)'
         /\ size = Size(p, k) /\ size2 = Size(p, k)'
  OBVIOUS
<1>2. top \in Int /\ size \in Nat
  BY <1>1, TopSize DEF LogInv
<1>3. /\ k = p \/ "reread" \notin causes[k] => CaughtUp(p, s, sent, top, size, seps)
      /\ causes[k] = {} => Whole(s, sent, top, size)
      /\ ~on => s = <<>> /\ sent = 0
  BY <1>1 DEF Streamed
<1>4. /\ causes[k] \subseteq causes'[k]
      /\ \/ top2 = top /\ size2 = size
         \/ /\ top2 = top + 1 /\ size2 = size + 1
            /\ on /\ causes'[k] = {} => size < StreamLines
         \/ on => causes'[k] # {}
         \/ size = 0 /\ size2 = 0 /\ top2 >= top /\ top2 \in Int
  BY <1>1 DEF Shifts
<1>5. ASSUME k = p \/ "reread" \notin causes'[k]
      PROVE  CaughtUp(p, s, sent, top2, size2, seps')
  <2>1. CASE k = p \/ on
    <3>1. CaughtUp(p, s, sent, Top(p, k), Size(p, k), seps)
      BY <1>1, <1>3, <1>4, <1>5
    <3>2. CaughtUp(p, s, sent, Top(p, k)', Size(p, k)', seps')
      BY <1>1, <1>5, <2>1, <3>1, ShiftCaught
    <3>. QED
      BY <1>1, <3>2
  <2>2. CASE ~on
    <3>1. PICK ss : ss = seps'
      OBVIOUS
    <3>2. CaughtUp(p, s, sent, top2, size2, ss)
      BY <1>3, <2>2, NothingCaught
    <3>. QED
      BY <3>1, <3>2
  <2>. QED
    BY <2>1, <2>2
<1>6. ASSUME causes'[k] = {}
      PROVE  Whole(s, sent, top2, size2)
  <2>1. PICK ss : ss = seps
    OBVIOUS
  <2>2. Whole(s, sent, top, size) /\ CaughtUp(p, s, sent, top, size, ss)
    BY <1>3, <1>4, <1>6, <2>1
  <2>3. s \in Seq({p} \X Int)
    BY <2>2 DEF CaughtUp
  <2>4. CASE ~on
    BY <1>3, <2>4, NothingCaught
  <2>5. CASE top2 = top /\ size2 = size
    BY <2>2, <2>5
  <2>6. CASE top2 = top + 1 /\ size2 = size + 1 /\ size < StreamLines
    BY <1>2, <2>2, <2>3, <2>6, StaysWhole
  <2>7. CASE size = 0 /\ size2 = 0 /\ top2 >= top /\ top2 \in Int
    <3>1. s = <<>>
      <4>. SUFFICES ASSUME s # <<>> PROVE FALSE
        OBVIOUS
      <4>1. Mark(s) \in Int
        BY <2>3, MarkIsInt
      <4>2. Mark(s) <= top /\ Mark(s) - (top - 0) >= 1
        BY <2>2, <2>7 DEF CaughtUp, Whole, Place
      <4>. QED
        BY <1>2, <4>1, <4>2
    <3>. QED
      BY <2>2, <3>1 DEF Whole
  <2>. QED
    BY <1>4, <1>6, <2>4, <2>5, <2>6, <2>7
<1>. QED
  BY <1>1, <1>3, <1>5, <1>6 DEF Streamed

LEMMA PolledAfter ==
  ASSUME NEW p, NEW s, NEW sent, NEW top \in Int, NEW size \in Nat, NEW ss,
         CaughtUp(p, s, sent, top, size, ss)
  PROVE  LET len == Lo(StreamLines, size)
             t == After(s, sent, p, top, size)
         IN  /\ CaughtUp(p, t, len, top, size, ss)
             /\ Whole(s, sent, top, size) => Whole(t, len, top, size)
BY Polled DEF After

LEMMA Sends ==
  ASSUME NEW k \in Keys, StreamForm, Poll(k), NEW p, NEW top \in Int, NEW size \in Nat,
         Reading(k, found[k]) = Block(p, top, Lo(StreamLines, size))
  PROVE  /\ stream'[k].on = stream[k].on
         /\ stream'[k].sent = Lo(StreamLines, size)
         /\ stream'[k].shown = After(stream[k].shown, stream[k].sent, p, top, size)
<1>1. PICK lines : lines = Reading(k, found[k])
  OBVIOUS
<1>2. LET from == IF Len(lines) < stream[k].sent THEN 0 ELSE stream[k].sent
      IN stream' = [stream EXCEPT
                      ![k].sent = Len(lines),
                      ![k].shown = @ \o SubSeq(lines, from + 1, Len(lines))]
  BY <1>1 DEF Poll, Answer
<1>3. PICK len : len = Lo(StreamLines, size)
  OBVIOUS
<1>4. len \in Nat
  BY <1>3, LineAssumption DEF Lo
<1>5. lines = Block(p, top, len) /\ Len(lines) = len
  <2>1. lines = Block(p, top, len)
    BY <1>1, <1>3
  <2>2. Len(Block(p, top, len)) = len
    BY <1>4, Blocks
  <2>. QED
    BY <2>1, <2>2
<1>6. PICK t : t = After(stream[k].shown, stream[k].sent, p, top, size)
  OBVIOUS
<1>7. stream' = [stream EXCEPT ![k].sent = len, ![k].shown = t]
  BY <1>2, <1>3, <1>5, <1>6 DEF After
<1>8. k \in DOMAIN stream
  BY DEF StreamForm
<1>9. stream'[k] = [stream[k] EXCEPT !.sent = len, !.shown = t]
  BY <1>7, <1>8
<1>10. stream'[k] = [on |-> stream[k].on, sent |-> len, shown |-> t]
  BY <1>9 DEF StreamForm
<1>. QED
  BY <1>3, <1>6, <1>10

(* A poll of a process key, ...                                            *)
LEMMA PollsFile ==
  ASSUME NEW p \in Processes, p \in Keys, RingInv, LogInv, StreamForm,
         Streamed(p, p), Poll(p)
  PROVE  Streamed(p, p)'
<1>1. /\ stream[p].on /\ UNCHANGED <<out, files, loggers, tracked, hand, seps>>
      /\ causes[p] \subseteq causes'[p]
  BY DEF Poll, Ready, writer, LogInv, Forms, Readers
<1>2. Top(p, p)' = Top(p, p) /\ Size(p, p)' = Size(p, p)
  BY <1>1 DEF Top, Size, Current
<1>3. Filed(p)
  BY DEF LogInv
<1>4. PICK s, sent, top, size, ss :
         /\ s = stream[p].shown /\ sent = stream[p].sent
         /\ top = Top(p, p) /\ size = Size(p, p) /\ ss = seps
  OBVIOUS
<1>5. top \in Int /\ size \in Nat
  BY <1>3, <1>4, TopSize
<1>6. Reading(p, found[p]) = Block(p, top, Lo(StreamLines, size))
  BY <1>3, <1>4, FileReading
<1>7. /\ stream'[p].on /\ stream'[p].sent = Lo(StreamLines, size)
      /\ stream'[p].shown = After(s, sent, p, top, size)
  BY <1>1, <1>4, <1>5, <1>6, Sends
<1>8. CaughtUp(p, s, sent, top, size, ss) /\ (causes[p] = {} => Whole(s, sent, top, size))
  BY <1>4 DEF Streamed
<1>9. /\ CaughtUp(p, After(s, sent, p, top, size), Lo(StreamLines, size), top, size, ss)
      /\ causes[p] = {} =>
           Whole(After(s, sent, p, top, size), Lo(StreamLines, size), top, size)
  BY <1>5, <1>8, PolledAfter
<1>. QED
  BY <1>1, <1>2, <1>4, <1>7, <1>9 DEF Streamed

(* ... and one of the project, which reads what it found.                  *)
LEMMA PollsFound ==
  ASSUME NEW p \in Processes, Processes = {p}, Project \in Keys, Project # p,
         RingInv, LogInv, LookInv, StreamForm, Streamed(p, Project), Asked(p), Poll(Project)
  PROVE  Streamed(p, Project)'
<1>1. /\ UNCHANGED <<out, files, loggers, tracked, hand, seps>>
      /\ causes[Project] \subseteq causes'[Project]
      /\ "reread" \notin causes'[Project] =>
            ~(found[Project][p] = InFile /\ loggers[p] # NoRing)
  BY DEF Poll, Overtaken, writer, LogInv, Forms, Readers
<1>2. Top(p, Project)' = Top(p, Project) /\ Size(p, Project)' = Size(p, Project)
  BY <1>1 DEF Top, Size, InRing, Current
<1>3. Filed(p)
  BY DEF LogInv
<1>4. PICK f, s, sent, top, size, ss :
         /\ f = found[Project][p]
         /\ s = stream[Project].shown /\ sent = stream[Project].sent
         /\ top = Top(p, Project) /\ size = Size(p, Project) /\ ss = seps
  OBVIOUS
<1>5. top \in Int /\ size \in Nat /\ stream[Project].on
  BY <1>3, <1>4, TopSize DEF Asked
<1>6. ASSUME NEW t, NEW n, Yields(p, f, t, n)
      PROVE  /\ t \in Int /\ n \in Nat
             /\ stream'[Project].on /\ stream'[Project].sent = Lo(StreamLines, n)
             /\ stream'[Project].shown = After(s, sent, p, t, n)
  <2>1. Reading(Project, found[Project]) = Block(p, t, Lo(StreamLines, n))
    BY <1>3, <1>4, <1>6, ReadingIs
  <2>2. t \in Int /\ n \in Nat
    BY <1>3, <1>6, YieldsEnds, LineAssumption
  <2>. QED
    BY <1>4, <1>5, <2>1, <2>2, Sends
<1>7. ASSUME "reread" \notin causes'[Project]
      PROVE  CaughtUp(p, stream'[Project].shown, stream'[Project].sent, top, size, ss)
  <2>1. /\ "reread" \notin causes[Project]
        /\ CaughtUp(p, s, sent, top, size, ss)
    BY <1>1, <1>4, <1>7 DEF Streamed
  <2>2. CASE f = Live
    <3>1. Knows(p, f)
      BY <1>4 DEF LookInv, Readers
    <3>2. loggers[p] # NoRing
      BY <2>2, <3>1, Kinds DEF Knows
    <3>3. f = Finding(p)
      BY <2>2, <3>2 DEF Finding
    <3>4. Yields(p, f, top, size)
      BY <1>4, <3>3, FindingYields
    <3>. QED
      BY <1>5, <1>6, <2>1, <3>4, PolledAfter
  <2>3. CASE f = InFile /\ CaughtUp(p, s, sent, Top(p, p), Size(p, p), seps)
    <3>1. PICK t, n : t = Top(p, p) /\ n = Size(p, p)
      OBVIOUS
    <3>2. t \in Int /\ n \in Nat
      BY <1>3, <3>1, TopSize
    <3>3. Yields(p, f, t, n)
      BY <2>3, <3>1, <3>2 DEF Yields, Top, Size
    <3>4. CaughtUp(p, After(s, sent, p, t, n), Lo(StreamLines, n), t, n, ss)
      BY <1>4, <2>3, <3>1, <3>2, PolledAfter
    <3>5. loggers[p] = NoRing
      BY <1>1, <1>4, <1>7, <2>3
    <3>6. top = t /\ (size = n \/ size = 0)
      BY <1>4, <3>1, <3>5 DEF Top, Size
    <3>7. Moves(p, t, n, top, size, ss)
      BY <3>2, <3>6 DEF Moves
    <3>8. Lo(StreamLines, n) \in Nat
      BY <3>2, LineAssumption DEF Lo
    <3>9. CaughtUp(p, After(s, sent, p, t, n), Lo(StreamLines, n), top, size, ss)
      BY <1>5, <3>2, <3>4, <3>7, Moved
    <3>. QED
      BY <1>6, <3>3, <3>9
  <2>4. CASE \E t, n : /\ Fixed(f, t, n) /\ t \in Int
                       /\ CaughtUp(p, After(s, sent, p, t, n), Lo(StreamLines, n),
                                   top, size, ss)
    <3>1. PICK t, n : /\ Fixed(f, t, n) /\ t \in Int
                      /\ CaughtUp(p, After(s, sent, p, t, n), Lo(StreamLines, n),
                                  top, size, ss)
      BY <2>4
    <3>2. Yields(p, f, t, n)
      BY <3>1 DEF Yields
    <3>. QED
      BY <1>6, <3>1, <3>2
  <2>. QED
    BY <1>4, <2>1, <2>2, <2>3, <2>4 DEF Asked
<1>8. ASSUME causes'[Project] = {}
      PROVE  Whole(stream'[Project].shown, stream'[Project].sent, top, size)
  <2>1. causes[Project] = {}
    BY <1>1, <1>8
  <2>2. f = Finding(p)
    BY <1>4, <2>1 DEF Asked
  <2>3. Yields(p, f, top, size)
    BY <1>4, <2>2, FindingYields
  <2>4. CaughtUp(p, s, sent, top, size, ss) /\ Whole(s, sent, top, size)
    BY <1>4, <2>1 DEF Streamed
  <2>. QED
    BY <1>5, <1>6, <2>3, <2>4, PolledAfter
<1>9. stream'[Project].on
  <2>1. Knows(p, f)
    BY <1>4 DEF LookInv, Readers
  <2>. QED
    BY <1>6, <2>1, KnowsYields
<1>. QED
  BY <1>1, <1>2, <1>4, <1>7, <1>8, <1>9 DEF Streamed

LEMMA StreamsKept ==
  RingInv /\ LogInv /\ LookInv /\ StreamInv /\ AskInv /\ [Next]_vars => StreamInv'
<1>. SUFFICES ASSUME RingInv, LogInv, LookInv, StreamInv, AskInv, [Next]_vars
              PROVE  StreamInv'
  OBVIOUS
<1>1. CASE stream' = stream
  <2>1. StreamForm'
    BY <1>1 DEF StreamInv, StreamForm, Keys
  <2>2. ASSUME NEW p \in Processes, NEW k \in Keys, Watches(k, p)
        PROVE  Streamed(p, k)'
    <3>1. Shifts(p, k)
      BY <2>2, AllShift
    <3>. QED
      BY <1>1, <2>2, <3>1, ShiftKeeps DEF StreamInv
  <2>. QED
    BY <2>1, <2>2 DEF StreamInv, Keys, Watches
<1>2. ASSUME NEW c \in Keys, Poll(c)
      PROVE  StreamInv'
  <2>1. /\ \E sent, shown : stream' = [stream EXCEPT ![c].sent = sent, ![c].shown = shown]
    BY <1>2 DEF Poll
  <2>2. PICK sent, shown : stream' = [stream EXCEPT ![c].sent = sent, ![c].shown = shown]
    BY <2>1
  <2>3. \A k \in Keys : k # c => stream'[k] = stream[k]
    BY <2>2 DEF StreamInv, StreamForm
  <2>4. StreamForm'
    <3>1. stream' = [k \in Keys |-> stream'[k]]
      BY <2>2 DEF StreamInv, StreamForm
    <3>2. stream'[c] = [on |-> stream[c].on, sent |-> sent, shown |-> shown]
      <4>1. stream'[c] = [stream[c] EXCEPT !.sent = sent, !.shown = shown]
        BY <2>2 DEF StreamInv, StreamForm
      <4>. QED
        BY <4>1 DEF StreamInv, StreamForm
    <3>3. stream'[c] = [on |-> stream'[c].on, sent |-> stream'[c].sent,
                        shown |-> stream'[c].shown]
      BY <3>2
    <3>4. \A k \in Keys : stream'[k] = [on |-> stream'[k].on, sent |-> stream'[k].sent,
                                        shown |-> stream'[k].shown]
      BY <2>3, <3>3 DEF StreamInv, StreamForm
    <3>. QED
      BY <3>1, <3>4 DEF StreamForm, Keys
  <2>5. ASSUME NEW p \in Processes, NEW k \in Keys, Watches(k, p)
        PROVE  Streamed(p, k)'
    <3>1. CASE k = c /\ k = p
      BY <1>2, <2>5, <3>1, PollsFile DEF StreamInv
    <3>2. CASE k = c /\ k # p
      <4>1. k = Project /\ Processes = {p}
        BY <2>5, <3>2 DEF Watches
      <4>2. Project \in looked
        BY <1>2, <3>2, <4>1 DEF Poll, Ready
      <4>3. Asked(p) /\ Streamed(p, Project)
        BY <2>5, <4>1, <4>2 DEF AskInv, StreamInv
      <4>. QED
        BY <1>2, <2>5, <3>2, <4>1, <4>3, PollsFound DEF StreamInv
    <3>3. CASE k # c
      <4>1. Shifts(p, k)
        BY <2>5, AllShift
      <4>. QED
        BY <2>3, <2>5, <3>3, <4>1, ShiftKeeps DEF StreamInv
    <3>. QED
      BY <3>1, <3>2, <3>3
  <2>. QED
    BY <2>4, <2>5 DEF StreamInv, Keys, Watches
<1>3. ASSUME NEW c \in Keys, Connect(c)
      PROVE  StreamInv'
  <2>1. /\ ~stream[c].on /\ stream' = [stream EXCEPT ![c].on = TRUE]
        /\ UNCHANGED <<out, files, loggers, tracked, hand, seps, causes>>
    BY <1>3 DEF Connect, writer
  <2>2. \A k \in Keys : /\ stream'[k].sent = stream[k].sent
                        /\ stream'[k].shown = stream[k].shown
                        /\ k # c => stream'[k] = stream[k]
                        /\ stream'[c].on
    <3>1. \A k \in Keys : k # c => stream'[k] = stream[k]
      BY <2>1 DEF StreamInv, StreamForm
    <3>2. stream'[c] = [stream[c] EXCEPT !.on = TRUE]
      BY <2>1 DEF StreamInv, StreamForm
    <3>3. stream'[c] = [on |-> TRUE, sent |-> stream[c].sent, shown |-> stream[c].shown]
      BY <3>2 DEF StreamInv, StreamForm
    <3>. QED
      BY <3>1, <3>3
  <2>3. StreamForm'
    <3>1. stream' = [k \in Keys |-> stream'[k]]
      BY <2>1 DEF StreamInv, StreamForm
    <3>2. stream'[c] = [stream[c] EXCEPT !.on = TRUE]
      BY <2>1 DEF StreamInv, StreamForm
    <3>3. stream'[c] = [on |-> TRUE, sent |-> stream[c].sent, shown |-> stream[c].shown]
      BY <3>2 DEF StreamInv, StreamForm
    <3>4. stream'[c] = [on |-> stream'[c].on, sent |-> stream'[c].sent,
                        shown |-> stream'[c].shown]
      BY <3>3
    <3>5. \A k \in Keys : stream'[k] = [on |-> stream'[k].on, sent |-> stream'[k].sent,
                                        shown |-> stream'[k].shown]
      BY <2>2, <3>4 DEF StreamInv, StreamForm
    <3>. QED
      BY <3>1, <3>5 DEF StreamForm, Keys
  <2>4. ASSUME NEW p \in Processes, NEW k \in Keys, Watches(k, p)
        PROVE  Streamed(p, k)'
    <3>1. Streamed(p, k)
      BY <2>4 DEF StreamInv
    <3>2. Top(p, k)' = Top(p, k) /\ Size(p, k)' = Size(p, k)
      BY <2>1 DEF Top, Size, InRing, Current
    <3>3. ~stream'[k].on => stream'[k].shown = <<>> /\ stream'[k].sent = 0
      BY <2>2, <3>1 DEF Streamed
    <3>. QED
      BY <2>1, <2>2, <3>1, <3>2, <3>3 DEF Streamed
  <2>. QED
    BY <2>3, <2>4 DEF StreamInv, Keys, Watches
<1>. QED
  <2>1. ASSUME NEW p \in Processes,
               \/ Emit(p) \/ StartOpen(p) \/ StartUnlogged(p) \/ StartInstall(p) \/ Exit(p)
               \/ FollowLook(p) \/ FollowAsk(p) \/ FollowOpen(p) \/ FollowRead(p)
        PROVE  stream' = stream
    BY <2>1 DEF Emit, StartOpen, StartUnlogged, StartInstall, Exit, FollowLook, Look,
                FollowAsk, FollowOpen, FollowRead
  <2>2. RemoveProject \/ PollLook => stream' = stream
    BY DEF RemoveProject, PollLook, Look
  <2>3. UNCHANGED vars => stream' = stream
    BY DEF vars
  <2>. QED
    BY <1>1, <1>2, <1>3, <2>1, <2>2, <2>3 DEF Next

-----------------------------------------------------------------------------
(* Between a lookup and the reading.                                       *)
LEMMA AskedStays ==
  ASSUME NEW p \in Processes, Project \in Keys, Project # p, RingInv, LogInv,
         Asked(p), Shifts(p, Project), p \in Keys, Shifts(p, p),
         stream'[Project] = stream[Project], found'[Project][p] = found[Project][p],
         causes'[Project] = {} => Finding(p)' = Finding(p)
  PROVE  Asked(p)'
<1>1. PICK f, s, sent :
         /\ f = found[Project][p] /\ f = found'[Project][p]
         /\ s = stream[Project].shown /\ s = stream'[Project].shown
         /\ sent = stream[Project].sent /\ sent = stream'[Project].sent
  OBVIOUS
<1>2. stream[Project].on /\ stream'[Project].on
  BY DEF Asked
<1>3. causes[Project] \subseteq causes'[Project]
  BY DEF Shifts
<1>4. causes'[Project] = {} => f = Finding(p)'
  BY <1>1, <1>3 DEF Asked
<1>5. ASSUME "reread" \notin causes'[Project]
      PROVE  \/ f = Live
             \/ f = InFile /\ CaughtUp(p, s, sent, Top(p, p)', Size(p, p)', seps')
             \/ \E top, size :
                   /\ Fixed(f, top, size) /\ top \in Int
                   /\ CaughtUp(p, After(s, sent, p, top, size), Lo(StreamLines, size),
                               Top(p, Project)', Size(p, Project)', seps')
  <2>1. CASE f = Live
    BY <2>1
  <2>2. CASE f = InFile /\ CaughtUp(p, s, sent, Top(p, p), Size(p, p), seps)
    <3>1. CaughtUp(p, s, sent, Top(p, p)', Size(p, p)', seps')
      BY <2>2, ShiftCaught
    <3>. QED
      BY <2>2, <3>1
  <2>3. CASE \E top, size :
                /\ Fixed(f, top, size) /\ top \in Int
                /\ CaughtUp(p, After(s, sent, p, top, size), Lo(StreamLines, size),
                            Top(p, Project), Size(p, Project), seps)
    <3>1. PICK top, size :
                /\ Fixed(f, top, size) /\ top \in Int
                /\ CaughtUp(p, After(s, sent, p, top, size), Lo(StreamLines, size),
                            Top(p, Project), Size(p, Project), seps)
      BY <2>3
    <3>2. PICK t, len : t = After(s, sent, p, top, size) /\ len = Lo(StreamLines, size)
      OBVIOUS
    <3>3. CaughtUp(p, t, len, Top(p, Project), Size(p, Project), seps)
      BY <3>1, <3>2
    <3>4. CaughtUp(p, t, len, Top(p, Project)', Size(p, Project)', seps')
      BY <1>2, <1>5, <3>3, ShiftCaught
    <3>. QED
      BY <3>1, <3>2, <3>4
  <2>. QED
    BY <1>1, <1>3, <1>5, <2>1, <2>2, <2>3 DEF Asked
<1>. QED
  BY <1>1, <1>2, <1>4, <1>5 DEF Asked

(* The Logger that was found is replaced, or removed.                      *)
LEMMA AskedKeeps ==
  ASSUME NEW p \in Processes, Project \in Keys, Project # p, RingInv, LogInv,
         Asked(p), Streamed(p, Project), Shifts(p, Project),
         stream'[Project] = stream[Project], causes'[Project] # {},
         loggers[p] # NoRing, found'[Project][p] = Kept(loggers[p])
  PROVE  Asked(p)'
<1>1. PICK r, s, sent, top, size :
         /\ r = loggers[p] /\ top = Top(p, Project) /\ size = Size(p, Project)
         /\ s = stream[Project].shown /\ s = stream'[Project].shown
         /\ sent = stream[Project].sent /\ sent = stream'[Project].sent
  OBVIOUS
<1>2. stream[Project].on /\ stream'[Project].on
  BY DEF Asked
<1>3. causes[Project] \subseteq causes'[Project]
  BY DEF Shifts
<1>4. top \in Int /\ size \in Nat
  BY <1>1, TopSize DEF LogInv
<1>5. Fixed(Kept(r), top, size)
  <2>1. Holds(r, top) /\ size = r.len
    BY <1>1 DEF RingInv, Rung, Top, Size
  <2>. QED
    BY <2>1 DEF Fixed
<1>6. ASSUME "reread" \notin causes'[Project]
      PROVE  CaughtUp(p, After(s, sent, p, top, size), Lo(StreamLines, size),
                      Top(p, Project)', Size(p, Project)', seps')
  <2>1. PICK ss, t, len : /\ ss = seps /\ t = After(s, sent, p, top, size)
                          /\ len = Lo(StreamLines, size)
    OBVIOUS
  <2>2. CaughtUp(p, s, sent, top, size, ss)
    BY <1>1, <1>3, <1>6, <2>1 DEF Streamed
  <2>3. CaughtUp(p, t, len, top, size, ss)
    BY <1>4, <2>1, <2>2, PolledAfter
  <2>4. CaughtUp(p, t, len, Top(p, Project), Size(p, Project), seps)
    BY <1>1, <2>1, <2>3
  <2>5. CaughtUp(p, t, len, Top(p, Project)', Size(p, Project)', seps')
    BY <1>2, <1>6, <2>4, ShiftCaught
  <2>. QED
    BY <2>1, <2>5
<1>. QED
  BY <1>1, <1>2, <1>4, <1>5, <1>6 DEF Asked

LEMMA Asks ==
  ASSUME NEW p \in Processes, Processes = {p}, Project \in Keys, Project # p,
         RingInv, LogInv, LookInv, Streamed(p, Project), Streamed(p, p), PollLook
  PROVE  Asked(p)'
<1>1. /\ stream[Project].on /\ found' = [found EXCEPT ![Project] = Findings]
      /\ UNCHANGED <<out, files, loggers, tracked, hand, seps, stream, causes>>
  BY DEF PollLook, Look, writer
<1>2. found'[Project][p] = Finding(p)
  BY <1>1 DEF LookInv, LookForm, Readers, Findings
<1>3. /\ Top(p, Project)' = Top(p, Project) /\ Size(p, Project)' = Size(p, Project)
      /\ Top(p, p)' = Top(p, p) /\ Size(p, p)' = Size(p, p)
      /\ Finding(p)' = Finding(p)
  BY <1>1 DEF Top, Size, InRing, Current, Finding
<1>4. PICK f, s, sent, top, size, ss :
         /\ f = Finding(p) /\ top = Top(p, Project) /\ size = Size(p, Project)
         /\ s = stream[Project].shown /\ sent = stream[Project].sent /\ ss = seps
  OBVIOUS
<1>5. top \in Int /\ size \in Nat
  BY <1>4, TopSize DEF LogInv
<1>6. ASSUME "reread" \notin causes[Project]
      PROVE  \/ f = Live
             \/ f = InFile /\ CaughtUp(p, s, sent, Top(p, p), Size(p, p), seps)
             \/ \E t, n :
                   /\ Fixed(f, t, n) /\ t \in Int
                   /\ CaughtUp(p, After(s, sent, p, t, n), Lo(StreamLines, n),
                               top, size, ss)
  <2>1. CaughtUp(p, s, sent, top, size, ss)
    BY <1>4, <1>6 DEF Streamed
  <2>2. CASE loggers[p] # NoRing
    BY <1>4, <2>2 DEF Finding
  <2>3. CASE loggers[p] = NoRing /\ p \in tracked
    <3>1. f = InFile /\ top = Top(p, p) /\ size = Size(p, p)
      BY <1>4, <2>3 DEF Finding, Top, Size
    <3>. QED
      BY <1>4, <2>1, <3>1
  <2>4. CASE loggers[p] = NoRing /\ p \notin tracked
    <3>1. f = Absent /\ size = 0
      BY <1>4, <2>4 DEF Finding, Size
    <3>2. Fixed(f, top, size)
      BY <3>1 DEF Fixed
    <3>3. CaughtUp(p, After(s, sent, p, top, size), Lo(StreamLines, size), top, size, ss)
      BY <1>5, <2>1, PolledAfter
    <3>. QED
      BY <1>5, <3>2, <3>3
  <2>. QED
    BY <2>2, <2>3, <2>4
<1>. QED
  BY <1>1, <1>2, <1>3, <1>4, <1>6 DEF Asked

(* What LogLines finds of p changes only with a cause for a gap.           *)
LEMMA FindingStays ==
  ASSUME NEW p \in Processes, Processes = {p}, RingInv, LogInv, [Next]_vars,
         stream[Project].on, causes'[Project] = {}
  PROVE  Finding(p)' = Finding(p)
<1>1. ASSUME loggers'[p] = NoRing <=> loggers[p] = NoRing,
             loggers[p] = NoRing => (p \in tracked' <=> p \in tracked)
      PROVE  Finding(p)' = Finding(p)
  BY <1>1 DEF Finding
<1>2. CASE Emit(p)
  <2>1. p \in running /\ running' = running /\ tracked' = tracked
    BY <1>2 DEF Emit
  <2>2. RingInv'
    BY Inductive
  <2>3. Rung(p)'
    BY <2>2 DEF RingInv
  <2>4. loggers[p] # NoRing /\ loggers'[p] # NoRing
    BY <2>1, <2>3 DEF RingInv, Rung
  <2>. QED
    BY <1>1, <2>1, <2>4
<1>3. CASE StartUnlogged(p)
  <2>1. /\ loggers' = loggers /\ tracked' = tracked \cup {p}
        /\ causes' = [causes EXCEPT ![Project] =
                         IF stream[Project].on /\ p \notin Subs
                         THEN @ \cup {"reread"} ELSE @]
    BY <1>3 DEF StartUnlogged
  <2>2. causes'[Project] = IF p \notin Subs THEN causes[Project] \cup {"reread"}
                                            ELSE causes[Project]
    BY <2>1 DEF LogInv, Forms, Readers, Keys
  <2>3. p \in Subs
    BY <2>2
  <2>. QED
    BY <1>1, <2>1, <2>3, InSubs
<1>4. CASE StartInstall(p) \/ RemoveProject
  <2>1. causes'[Project] = causes[Project] \cup {"replaced"}
    BY <1>4 DEF StartInstall, RemoveProject, LogInv, Forms, Readers, Keys
  <2>. QED
    BY <2>1
<1>5. ASSUME UNCHANGED <<loggers, tracked>>
      PROVE  Finding(p)' = Finding(p)
  BY <1>1, <1>5
<1>6. CASE \/ StartOpen(p) \/ Exit(p) \/ FollowLook(p) \/ FollowAsk(p)
           \/ FollowOpen(p) \/ FollowRead(p)
  BY <1>5, <1>6 DEF StartOpen, Exit, FollowLook, Look, FollowAsk, FollowOpen, FollowRead,
                    writer
<1>7. CASE PollLook \/ \E k \in Keys : Connect(k) \/ Poll(k)
  BY <1>5, <1>7 DEF PollLook, Look, Connect, Poll, writer
<1>8. CASE UNCHANGED vars
  BY <1>5, <1>8 DEF vars, writer
<1>. QED
  BY <1>2, <1>3, <1>4, <1>6, <1>7, <1>8 DEF Next

LEMMA AsksKept ==
  RingInv /\ LogInv /\ LookInv /\ StreamInv /\ AskInv /\ [Next]_vars => AskInv'
<1>. SUFFICES ASSUME RingInv, LogInv, LookInv, StreamInv, AskInv, [Next]_vars,
                     NEW p \in Processes, Processes = {p}, Project \in looked'
              PROVE  Asked(p)'
  BY DEF AskInv
<1>0. /\ Project \in Keys /\ p \in Keys /\ Project # p /\ Project \in Readers
      /\ Project # Follower(p)
  BY KeyAssumption DEF Keys, Readers, Follower
<1>1. Shifts(p, p) /\ Shifts(p, Project)
  BY <1>0, AllShift DEF Watches
<1>2. Streamed(p, p) /\ Streamed(p, Project)
  BY <1>0 DEF StreamInv, Watches
<1>3. CASE PollLook
  BY <1>0, <1>2, <1>3, Asks
<1>4. ASSUME Project \in looked, stream'[Project] = stream[Project],
             found'[Project][p] = found[Project][p]
      PROVE  Asked(p)'
  <2>1. Asked(p)
    BY <1>4 DEF AskInv
  <2>2. causes'[Project] = {} => Finding(p)' = Finding(p)
    BY <2>1, FindingStays DEF Asked
  <2>. QED
    BY <1>0, <1>1, <1>4, <2>1, <2>2, AskedStays
<1>5. ASSUME NEW ps, Retain(ps), stream' = stream,
             stream[Project].on => causes'[Project] # {}
      PROVE  Asked(p)'
  <2>1. /\ Project \in looked
        /\ found'[Project][p] = IF p \in ps /\ found[Project][p] = Live
                                THEN Kept(loggers[p]) ELSE found[Project][p]
    BY <1>0, <1>5 DEF Retain
  <2>2. CASE p \in ps /\ found[Project][p] = Live
    <3>1. Asked(p)
      BY <2>1 DEF AskInv
    <3>2. Knows(p, found[Project][p])
      BY <1>0 DEF LookInv
    <3>3. loggers[p] # NoRing
      BY <2>2, <3>2, Kinds DEF Knows
    <3>4. causes'[Project] # {}
      BY <1>5, <3>1 DEF Asked
    <3>. QED
      BY <1>0, <1>1, <1>2, <1>5, <2>1, <2>2, <3>1, <3>3, <3>4, AskedKeeps
  <2>3. CASE ~(p \in ps /\ found[Project][p] = Live)
    BY <1>4, <1>5, <2>1, <2>3
  <2>. QED
    BY <2>2, <2>3
<1>6. CASE StartInstall(p) \/ RemoveProject
  <2>1. stream[Project].on => causes'[Project] # {}
    BY <1>0, <1>6 DEF StartInstall, RemoveProject, LogInv, Forms
  <2>. QED
    BY <1>5, <1>6, <2>1 DEF StartInstall, RemoveProject
<1>7. ASSUME UNCHANGED <<stream, lookup>>
      PROVE  Asked(p)'
  BY <1>4, <1>7 DEF lookup
<1>8. CASE \/ Emit(p) \/ StartOpen(p) \/ StartUnlogged(p) \/ Exit(p)
           \/ FollowOpen(p) \/ FollowRead(p)
  BY <1>7, <1>8 DEF Emit, StartOpen, StartUnlogged, Exit, FollowOpen, FollowRead
<1>9. CASE FollowLook(p) \/ FollowAsk(p)
  <2>1. /\ stream' = stream /\ Project \in looked
        /\ \E of : found' = [found EXCEPT ![Follower(p)] = of]
    BY <1>0, <1>9 DEF FollowLook, Look, FollowAsk, Answered
  <2>2. found'[Project] = found[Project]
    BY <1>0, <2>1 DEF LookInv, LookForm
  <2>. QED
    BY <1>4, <2>1, <2>2
<1>10. ASSUME NEW k \in Keys, Poll(k)
       PROVE  Asked(p)'
  <2>1. /\ looked' = looked \ {k} /\ found' = [found EXCEPT ![k] = Nothing]
        /\ \E sent, shown : stream' = [stream EXCEPT ![k].sent = sent, ![k].shown = shown]
    BY <1>10 DEF Poll, Answered
  <2>2. k # Project /\ Project \in looked
    BY <2>1
  <2>3. stream'[Project] = stream[Project]
    BY <1>0, <2>1, <2>2 DEF StreamInv, StreamForm
  <2>4. found'[Project] = found[Project]
    BY <1>0, <2>1, <2>2 DEF LookInv, LookForm
  <2>. QED
    BY <1>4, <2>2, <2>3, <2>4
<1>11. ASSUME NEW k \in Keys, Connect(k)
       PROVE  Asked(p)'
  <2>1. /\ UNCHANGED lookup /\ ~stream[k].on /\ stream' = [stream EXCEPT ![k].on = TRUE]
    BY <1>11 DEF Connect
  <2>2. Project \in looked /\ found' = found
    BY <2>1 DEF lookup
  <2>3. Asked(p)
    BY <2>2 DEF AskInv
  <2>4. k # Project
    BY <2>1, <2>3 DEF Asked
  <2>5. stream'[Project] = stream[Project]
    BY <1>0, <2>1, <2>4 DEF StreamInv, StreamForm
  <2>. QED
    BY <1>4, <2>2, <2>5
<1>12. CASE UNCHANGED vars
  BY <1>7, <1>12 DEF vars
<1>. QED
  BY <1>3, <1>6, <1>8, <1>9, <1>10, <1>11, <1>12 DEF Next

LEMMA LogsInit == Init => LogInv
<1>. SUFFICES ASSUME Init PROVE LogInv
  OBVIOUS
<1>1. Forms
  BY DEF Init, Forms
<1>2. ASSUME NEW p \in Processes
      PROVE  Filed(p)
  <2>1. PICK top, fs : top = out[p] /\ fs = files[p]
    OBVIOUS
  <2>2. top \in 0..1 /\ fs = IF top = 0 THEN <<>> ELSE <<<<1>>>>
    BY <2>1 DEF Init
  <2>3. FilesAt(fs, top)
    <3>1. CASE top = 0
      <4>1. fs = <<>> /\ Now(fs) = <<>>
        BY <2>2, <3>1 DEF Now
      <4>2. fs \in Seq(Seq(Int)) /\ Len(fs) = 0 /\ <<>> \in Seq(Int) /\ Len(<<>>) = 0
        BY <4>1
      <4>3. Ends(<<>>, top) /\ \A j \in 1..Len(fs) : Even(fs[j], top)
        BY <3>1, <4>2 DEF Ends
      <4>. QED
        BY <4>1, <4>2, <4>3 DEF FilesAt
    <3>2. CASE top = 1
      <4>1. fs = <<<<1>>>> /\ Len(fs) = 1 /\ fs[1] = <<1>> /\ fs # <<>>
        BY <2>2, <3>2
      <4>2. Now(fs) = <<1>>
        BY <4>1 DEF Now
      <4>3. fs \in Seq(Seq(Int))
        BY <4>1
      <4>4. Even(<<1>>, top)
        <5>1. 0 + Len(<<1>>) <= top /\ \A i \in 1..Len(<<1>>) : <<1>>[i] = 0 + i
          BY <3>2
        <5>. QED
          BY <5>1 DEF Even
      <4>5. Ends(<<1>>, top)
        BY <3>2 DEF Ends
      <4>. QED
        BY <4>1, <4>2, <4>3, <4>4, <4>5 DEF FilesAt
    <3>. QED
      BY <2>2, <3>1, <3>2
  <2>4. loggers[p] = NoRing /\ hand[p] = NoRing
    BY DEF Init
  <2>. QED
    BY <2>1, <2>3, <2>4 DEF Filed
<1>. QED
  BY <1>1, <1>2 DEF LogInv

LEMMA StreamsInit == Init => StreamInv
<1>. SUFFICES ASSUME Init PROVE StreamInv
  OBVIOUS
<1>1. /\ stream = [k \in Keys |-> [on |-> FALSE, sent |-> 0, shown |-> <<>>]]
      /\ seps = {}
  BY DEF Init
<1>2. \A k \in Keys : /\ stream[k] = [on |-> FALSE, sent |-> 0, shown |-> <<>>]
                      /\ stream[k].on = FALSE /\ stream[k].sent = 0
                      /\ stream[k].shown = <<>>
  BY <1>1
<1>3. StreamForm
  BY <1>1, <1>2 DEF StreamForm
<1>4. ASSUME NEW p \in Processes, NEW k \in Keys
      PROVE  Streamed(p, k)
  <2>1. PICK top, size, ss : top = Top(p, k) /\ size = Size(p, k) /\ ss = seps
    OBVIOUS
  <2>2. CaughtUp(p, <<>>, 0, top, size, ss) /\ Whole(<<>>, 0, top, size)
    BY NothingCaught
  <2>. QED
    BY <1>2, <2>1, <2>2 DEF Streamed
<1>. QED
  BY <1>3, <1>4 DEF StreamInv

LEMMA AsksInit == Init => AskInv
BY DEF Init, AskInv

-----------------------------------------------------------------------------
(* A follower of p: what it has shown (s), from the files fs of p with the *)
(* newest line top, when it stands in file at a place.                     *)
Reads(f, p, fs, top) ==
    /\ f.shown \in Seq({p} \X Int) /\ Climbs(f.shown, {})
    /\ f.shown # <<>> => Mark(f.shown) <= top
    /\ f.pc = "idle" => f.shown = <<>>
    /\ f.pc = "reading" =>
          /\ f.file \in 1..Len(fs) /\ f.at \in 0..Len(fs[f.file])
          /\ f.shown # <<>> =>
                \A i \in (f.at + 1)..Len(fs[f.file]) : fs[f.file][i] > Mark(f.shown)

(* It has missed nothing. *)
ReadsAll(f, fs, top) ==
    /\ Steps(f.shown)
    /\ f.pc = "asked" /\ f.shown # <<>> => Mark(f.shown) = top
    /\ f.pc = "reading" =>
          /\ f.file = Len(fs)
          /\ f.shown # <<>> => Mark(f.shown) = top - Len(fs[Len(fs)]) + f.at

(* A line is written, to the newest file or to a new one. *)
LEMMA ReadsGrown ==
  ASSUME NEW f, NEW p, NEW fs, NEW top \in Int, NEW new, fs # <<>>,
         FilesAt(fs, top), Reads(f, p, fs, top), Grown(fs, new, top + 1)
  PROVE  /\ Reads(f, p, new, top + 1)
         /\ ReadsAll(f, fs, top) /\ f.pc # "asked" => ReadsAll(f, new, top + 1)
<1>1. /\ fs \in Seq(Seq(Int)) /\ new \in Seq(Seq(Int)) /\ Len(new) = Len(fs)
      /\ Len(fs) \in Nat /\ Len(fs) # 0 /\ fs[Len(fs)] \in Seq(Int)
      /\ \A j \in 1..(Len(fs) - 1) : new[j] = fs[j]
  BY DEF FilesAt, Grown
<1>2. PICK last \in Seq(Int) : last = fs[Len(fs)]
  BY <1>1
<1>3. /\ new[Len(fs)] = Append(last, top + 1) /\ Len(new[Len(fs)]) = Len(last) + 1
      /\ \A i \in 1..Len(last) : new[Len(fs)][i] = last[i]
      /\ new[Len(fs)][Len(last) + 1] = top + 1
  BY <1>2, AppendProperties DEF Grown
<1>4. f.shown # <<>> => Mark(f.shown) \in Int
  BY MarkIsInt DEF Reads
<1>5. ASSUME f.pc = "reading"
      PROVE  /\ f.file \in 1..Len(new) /\ f.at \in 0..Len(new[f.file])
             /\ f.shown # <<>> =>
                  \A i \in (f.at + 1)..Len(new[f.file]) : new[f.file][i] > Mark(f.shown)
  <2>1. /\ f.file \in 1..Len(fs) /\ f.at \in 0..Len(fs[f.file])
        /\ f.shown # <<>> =>
             \A i \in (f.at + 1)..Len(fs[f.file]) : fs[f.file][i] > Mark(f.shown)
    BY <1>5 DEF Reads
  <2>2. CASE f.file # Len(fs)
    <3>1. f.file \in 1..(Len(fs) - 1)
      BY <1>1, <2>1, <2>2
    <3>2. new[f.file] = fs[f.file]
      BY <1>1, <3>1
    <3>. QED
      BY <1>1, <2>1, <3>2
  <2>3. CASE f.file = Len(fs)
    <3>1. f.at \in 0..Len(last) /\ Len(last) \in Nat
      BY <1>2, <2>1, <2>3
    <3>2. f.shown # <<>> => \A i \in (f.at + 1)..Len(last) : last[i] > Mark(f.shown)
      BY <1>2, <2>1, <2>3
    <3>3. f.shown # <<>> => Mark(f.shown) <= top
      BY DEF Reads
    <3>4. ASSUME f.shown # <<>>, NEW i \in (f.at + 1)..(Len(last) + 1)
          PROVE  new[Len(fs)][i] > Mark(f.shown)
      <4>1. CASE i = Len(last) + 1
        BY <1>3, <1>4, <3>3, <3>4, <4>1
      <4>2. CASE i # Len(last) + 1
        <5>1. i \in (f.at + 1)..Len(last) /\ i \in 1..Len(last)
          BY <3>1, <4>2
        <5>. QED
          BY <1>3, <3>2, <3>4, <5>1
      <4>. QED
        BY <4>1, <4>2
    <3>5. Len(new[f.file]) = Len(last) + 1 /\ new[f.file] = new[Len(fs)]
      BY <1>3, <2>3
    <3>6. f.file \in 1..Len(new) /\ f.at \in 0..(Len(last) + 1)
      BY <1>1, <2>1, <3>1
    <3>. QED
      BY <3>4, <3>5, <3>6
  <2>. QED
    BY <2>2, <2>3
<1>6. Reads(f, p, new, top + 1)
  <2>1. f.shown # <<>> => Mark(f.shown) <= top + 1
    BY <1>4 DEF Reads
  <2>. QED
    BY <1>5, <2>1 DEF Reads
<1>7. ASSUME ReadsAll(f, fs, top), f.pc # "asked"
      PROVE  ReadsAll(f, new, top + 1)
  <2>1. ASSUME f.pc = "reading"
        PROVE  /\ f.file = Len(new)
               /\ f.shown # <<>> =>
                    Mark(f.shown) = (top + 1) - Len(new[Len(new)]) + f.at
    <3>1. /\ f.file = Len(fs) /\ f.at \in Int
          /\ f.shown # <<>> => Mark(f.shown) = top - Len(last) + f.at
      BY <1>2, <1>7, <2>1 DEF ReadsAll, Reads
    <3>2. Len(last) \in Nat /\ Len(new[Len(new)]) = Len(last) + 1
      BY <1>1, <1>2, <1>3
    <3>. QED
      BY <1>1, <1>4, <3>1, <3>2
  <2>. QED
    BY <1>7, <2>1 DEF ReadsAll
<1>. QED
  BY <1>6, <1>7

LEMMA ReadsRotated ==
  ASSUME NEW f, NEW p, NEW fs, NEW top \in Int, NEW new,
         FilesAt(fs, top), Reads(f, p, fs, top), Rotated(fs, new, top + 1)
  PROVE  /\ Reads(f, p, new, top + 1)
         /\ ReadsAll(f, fs, top) /\ f.pc \notin {"asked", "reading"} =>
               ReadsAll(f, new, top + 1)
<1>1. /\ fs \in Seq(Seq(Int)) /\ Len(fs) \in Nat /\ Len(new) = Len(fs) + 1
      /\ \A j \in 1..Len(fs) : new[j] = fs[j]
  BY DEF FilesAt, Rotated
<1>2. f.shown # <<>> => Mark(f.shown) \in Int
  BY MarkIsInt DEF Reads
<1>3. f.shown # <<>> => Mark(f.shown) <= top + 1
  BY <1>2 DEF Reads
<1>4. ASSUME f.pc = "reading"
      PROVE  /\ f.file \in 1..Len(new) /\ f.at \in 0..Len(new[f.file])
             /\ f.shown # <<>> =>
                  \A i \in (f.at + 1)..Len(new[f.file]) : new[f.file][i] > Mark(f.shown)
  <2>1. f.file \in 1..Len(fs)
    BY <1>4 DEF Reads
  <2>2. new[f.file] = fs[f.file] /\ f.file \in 1..Len(new)
    BY <1>1, <2>1
  <2>. QED
    BY <1>4, <2>2 DEF Reads
<1>5. Reads(f, p, new, top + 1)
  BY <1>3, <1>4 DEF Reads
<1>. QED
  BY <1>5 DEF ReadsAll

Below(s, top, len) == s # <<>> => Mark(s) < top - len + 1

LEMMA ClimbsAbove ==
  ASSUME NEW p, NEW top, NEW len, NEW s, NEW t, Extends(t, s, p, top, len),
         NEW ss, Climbs(s, ss), Below(s, top, len)
  PROVE  Climbs(t, ss)
<1>1. PICK first \in Int : first = top - len + 1
  <2>1. top - len + 1 \in Int
    BY DEF Extends
  <2>. QED
    BY <2>1
<1>2. s # <<>> => Mark(s) < first \/ (Mark(s) = first /\ <<p, first>> \in ss)
  BY <1>1 DEF Below
<1>. QED
  BY <1>1, <1>2, ClimbsOn

(* What is left of the file it stands in. *)
Rest(f, fs) == SubSeq(fs[f.file], f.at + 1, Len(fs[f.file]))

LEMMA ReadsOn ==
  ASSUME NEW f, NEW g, NEW p, NEW fs, NEW top \in Int, FilesAt(fs, top),
         Reads(f, p, fs, top), f.pc = "reading", g.pc = "reading",
         g.file = f.file, g.at = Len(fs[f.file]),
         g.shown = f.shown \o Of(p, Rest(f, fs))
  PROVE  Reads(g, p, fs, top) /\ (ReadsAll(f, fs, top) => ReadsAll(g, fs, top))
<1>1. PICK text, at : text = fs[f.file] /\ at = f.at
  OBVIOUS
<1>2. /\ f.file \in 1..Len(fs) /\ fs \in Seq(Seq(Int)) /\ at \in 0..Len(text)
      /\ Even(text, top)
  BY <1>1 DEF Reads, FilesAt
<1>3. text \in Seq(Int) /\ Len(text) \in Nat
  BY <1>1, <1>2
<1>4. PICK b \in Int : b + Len(text) <= top /\ \A i \in 1..Len(text) : text[i] = b + i
  BY <1>2 DEF Even
<1>5. PICK len \in Nat : len = Len(text) - at
  <2>1. Len(text) - at \in Nat
    BY <1>2, <1>3
  <2>. QED
    BY <2>1
<1>6. PICK rest : rest = SubSeq(text, at + 1, Len(text))
  OBVIOUS
<1>7. /\ rest \in Seq(Int) /\ Len(rest) = len
      /\ \A i \in 1..len : rest[i] = b + at + i
  <2>1. at + 1 \in 1..(Len(text) + 1) /\ at \in Int
    BY <1>2, <1>3
  <2>2. CASE len = 0
    <3>1. rest = <<>>
      BY <1>2, <1>3, <1>5, <1>6, <2>2, SubSeqProperties
    <3>. QED
      BY <2>2, <3>1
  <2>3. CASE len # 0
    <3>1. at + 1 \in 1..Len(text) /\ Len(text) \in 1..Len(text)
      BY <1>2, <1>3, <1>5, <2>3
    <3>2. /\ rest \in Seq(Int) /\ Len(rest) = Len(text) - (at + 1) + 1
          /\ \A i \in 1..(Len(text) - (at + 1) + 1) : rest[i] = text[at + 1 + i - 1]
      BY <1>3, <1>6, <3>1, SubSeqProperties
    <3>3. Len(text) - (at + 1) + 1 = len
      BY <1>3, <1>5, <2>1
    <3>4. ASSUME NEW i \in 1..len
          PROVE  rest[i] = b + at + i
      <4>1. at + 1 + i - 1 = at + i /\ at + i \in 1..Len(text)
        BY <1>2, <1>3, <1>5
      <4>. QED
        BY <1>4, <3>2, <3>3, <4>1, <2>1
    <3>. QED
      BY <3>2, <3>3, <3>4
  <2>. QED
    BY <2>2, <2>3
<1>8. PICK new \in Int : new = b + Len(text)
  BY <1>3, <1>4
<1>9. Ends(rest, new)
  <2>1. ASSUME NEW i \in 1..len
        PROVE  rest[i] = new - len + i
    BY <1>2, <1>3, <1>4, <1>5, <1>7, <1>8
  <2>. QED
    BY <1>7, <1>8, <2>1 DEF Ends
<1>10. g.shown = f.shown \o Block(p, new, len)
  BY <1>1, <1>6, <1>7, <1>9, EndsBlock DEF Rest
<1>11. Extends(g.shown, f.shown, p, new, len)
  BY <1>10 DEF Extends, Reads
<1>12. PICK first \in Int : first = new - len + 1
  <2>1. new - len + 1 \in Int
    OBVIOUS
  <2>. QED
    BY <2>1
<1>13. f.shown # <<>> => Mark(f.shown) \in Int /\ Mark(f.shown) <= top
  BY MarkIsInt DEF Reads
<1>14. len > 0 /\ f.shown # <<>> => Mark(f.shown) < first
  <2>. SUFFICES ASSUME len > 0, f.shown # <<>>
                PROVE  Mark(f.shown) < first
    OBVIOUS
  <2>1. at + 1 \in (at + 1)..Len(text) /\ at + 1 \in 1..Len(text)
    BY <1>2, <1>3, <1>5
  <2>2. text[at + 1] > Mark(f.shown)
    BY <1>1, <2>1 DEF Reads
  <2>3. text[at + 1] = b + (at + 1)
    BY <1>4, <2>1
  <2>. QED
    BY <1>2, <1>3, <1>4, <1>5, <1>8, <1>12, <1>13, <2>2, <2>3
<1>15. /\ g.shown \in Seq({p} \X Int)
       /\ len > 0 => g.shown # <<>> /\ Mark(g.shown) = new
  BY <1>11, Pairs
<1>16. len = 0 => g.shown = f.shown
  <2>. SUFFICES ASSUME len = 0 PROVE g.shown = f.shown
    OBVIOUS
  <2>1. Block(p, new, len) = <<>>
    BY DEF Block
  <2>. QED
    BY <1>10, <2>1, ConcatProperties DEF Reads
<1>17. Climbs(g.shown, {})
  <2>1. CASE len = 0
    BY <1>16, <2>1 DEF Reads
  <2>2. CASE len > 0
    <3>1. Climbs(f.shown, {})
      BY DEF Reads
    <3>2. Below(f.shown, new, len)
      BY <1>12, <1>14, <2>2 DEF Below
    <3>. QED
      BY <1>11, <3>1, <3>2, ClimbsAbove
  <2>. QED
    BY <2>1, <2>2
<1>18. g.shown # <<>> => Mark(g.shown) <= top
  <2>1. CASE len = 0
    BY <1>13, <1>16, <2>1
  <2>2. CASE len > 0
    BY <1>4, <1>8, <1>15, <2>2
  <2>. QED
    BY <2>1, <2>2
<1>19. Reads(g, p, fs, top)
  <2>1. g.file \in 1..Len(fs) /\ g.at \in 0..Len(fs[g.file])
    BY <1>1, <1>2, <1>3
  <2>2. \A i \in (g.at + 1)..Len(fs[g.file]) : FALSE
    BY <1>1, <1>3
  <2>. QED
    BY <1>15, <1>17, <1>18, <2>1, <2>2 DEF Reads
<1>20. ASSUME ReadsAll(f, fs, top)
       PROVE  ReadsAll(g, fs, top)
  <2>1. /\ Steps(f.shown) /\ f.file = Len(fs) /\ text = fs[Len(fs)]
        /\ f.shown # <<>> => Mark(f.shown) = top - Len(text) + at
    BY <1>1, <1>20 DEF ReadsAll
  <2>2. Len(text) > 0 => new = top
    <3>. SUFFICES ASSUME Len(text) > 0 PROVE new = top
      OBVIOUS
    <3>1. Ends(text, top)
      <4>1. fs # <<>>
        BY <1>2
      <4>. QED
        BY <2>1, <4>1 DEF FilesAt, Now
    <3>2. Len(text) \in 1..Len(text)
      BY <1>3
    <3>3. text[Len(text)] = top - Len(text) + Len(text)
          /\ text[Len(text)] = b + Len(text)
      BY <1>4, <3>1, <3>2 DEF Ends
    <3>. QED
      BY <1>3, <1>8, <3>3
  <2>3. CASE len = 0
    <3>1. at = Len(text)
      BY <1>2, <1>3, <1>5, <2>3
    <3>. QED
      BY <1>1, <1>3, <1>13, <1>16, <2>1, <2>3, <3>1 DEF ReadsAll
  <2>4. CASE len > 0
    <3>1. new = top
      BY <1>2, <1>3, <1>5, <2>2, <2>4
    <3>2. f.shown # <<>> => new - len + 1 = Mark(f.shown) + 1
      <4>. SUFFICES ASSUME f.shown # <<>>
                    PROVE  new - len + 1 = Mark(f.shown) + 1
        OBVIOUS
      <4>1. Mark(f.shown) = top - Len(text) + at
        BY <2>1
      <4>2. len = Len(text) - at /\ at \in Int
        BY <1>2, <1>5
      <4>. QED
        BY <1>3, <3>1, <4>1, <4>2
    <3>3. Steps(g.shown)
      BY <1>11, <2>1, <3>2, StepsOn
    <3>4. Mark(g.shown) = top - Len(text) + g.at
      BY <1>1, <1>3, <1>15, <2>4, <3>1
    <3>. QED
      BY <1>1, <2>1, <3>3, <3>4 DEF ReadsAll
  <2>. QED
    BY <2>3, <2>4
<1>. QED
  BY <1>19, <1>20

LEMMA Alone ==
  ASSUME NEW p, NEW top \in Int, NEW len \in Nat, NEW t, t = Block(p, top, len)
  PROVE  /\ t \in Seq({p} \X Int) /\ Climbs(t, {}) /\ Steps(t)
         /\ t # <<>> => Mark(t) = top
<1>1. /\ t \in Seq({p} \X Int) /\ Len(t) = len
      /\ \A i \in 1..len : t[i] = <<p, top - len + i>>
  BY Blocks
<1>2. ASSUME NEW i \in 1..(len - 1)
      PROVE  t[i][2] = top - len + i /\ t[i+1][2] = top - len + (i + 1)
  <2>1. i \in 1..len /\ i + 1 \in 1..len
    OBVIOUS
  <2>. QED
    BY <1>1, <2>1
<1>3. Climbs(t, {}) /\ Steps(t)
  BY <1>1, <1>2 DEF Climbs, Steps
<1>4. t # <<>> => Mark(t) = top
  <2>. SUFFICES ASSUME t # <<>> PROVE Mark(t) = top
    OBVIOUS
  <2>1. len \in 1..len
    BY <1>1
  <2>2. t[len] = <<p, top - len + len>>
    BY <1>1, <2>1
  <2>. QED
    BY <1>1, <2>2 DEF Mark
<1>. QED
  BY <1>1, <1>3, <1>4

Followed(p) ==
    /\ Reads(follow[p], p, files[p], out[p])
    /\ causes[Follower(p)] = {} => ReadsAll(follow[p], files[p], out[p])

FollowForm ==
    /\ follow = [p \in Processes |-> follow[p]]
    /\ \A p \in Processes :
          follow[p] = [pc |-> follow[p].pc, file |-> follow[p].file,
                       at |-> follow[p].at, shown |-> follow[p].shown]

FollowInv == FollowForm /\ \A p \in Processes : Followed(p)

LEMMA FollowersInit == Init => FollowInv
<1>. SUFFICES ASSUME Init PROVE FollowInv
  OBVIOUS
<1>1. follow = [p \in Processes |->
                   [pc |-> "idle", file |-> 0, at |-> 0, shown |-> <<>>]]
  BY DEF Init
<1>2. \A p \in Processes :
        /\ follow[p] = [pc |-> "idle", file |-> 0, at |-> 0, shown |-> <<>>]
        /\ follow[p].pc = "idle" /\ follow[p].shown = <<>>
        /\ follow[p].file = 0 /\ follow[p].at = 0
  BY <1>1
<1>3. FollowForm
  BY <1>1, <1>2 DEF FollowForm
<1>4. ASSUME NEW p \in Processes
      PROVE  Followed(p)
  <2>1. <<>> \in Seq({p} \X Int) /\ Len(<<>>) = 0
    OBVIOUS
  <2>2. Climbs(<<>>, {}) /\ Steps(<<>>)
    BY <2>1 DEF Climbs, Steps
  <2>3. Reads(follow[p], p, files[p], out[p])
    BY <1>2, <2>1, <2>2 DEF Reads
  <2>4. ReadsAll(follow[p], files[p], out[p])
    BY <1>2, <2>2 DEF ReadsAll
  <2>. QED
    BY <2>3, <2>4 DEF Followed
<1>. QED
  BY <1>3, <1>4 DEF FollowInv

LEMMA FollowerKey ==
  ASSUME NEW p \in Processes
  PROVE  Follower(p) \in Readers /\ Follower(p) \notin Keys
BY KeyAssumption DEF Follower, Readers, Keys

(* A follower of whom nothing concerns q's. *)
LEMMA FollowStays ==
  ASSUME NEW q \in Processes, Followed(q), follow'[q] = follow[q],
         files'[q] = files[q], out'[q] = out[q],
         causes'[Follower(q)] = {} => causes[Follower(q)] = {}
  PROVE  Followed(q)'
BY DEF Followed, Follower

LEMMA FilesOf ==
  ASSUME NEW p \in Processes, RingInv, LogInv
  PROVE  out[p] \in Int /\ FilesAt(files[p], out[p])
<1>1. out[p] \in Int
  BY DEF RingInv, Shape
<1>2. Filed(p)
  BY DEF LogInv
<1>. QED
  BY <1>1, <1>2 DEF Filed

LEMMA FollowWrites ==
  ASSUME NEW p \in Processes, RingInv, LogInv, Followed(p), Wrote(p),
         follow'[p] = follow[p]
  PROVE  /\ Followed(p)'
         /\ \A q \in Processes : q # p => causes'[Follower(q)] = causes[Follower(q)]
<1>1. PICK f, fs, new, top : /\ f = follow[p] /\ fs = files[p] /\ new = files'[p]
                             /\ top = out[p]
  OBVIOUS
<1>2. /\ top \in Int /\ FilesAt(fs, top) /\ Reads(f, p, fs, top)
      /\ causes[Follower(p)] = {} => ReadsAll(f, fs, top)
  BY <1>1, FilesOf DEF Followed
<1>3. fs # <<>> /\ out'[p] = top + 1
  BY <1>1 DEF Wrote
<1>4. PICK r \in BOOLEAN : /\ LineCauses(p, r, p \in running)
                           /\ IF r THEN Rotated(fs, new, top + 1)
                                   ELSE Grown(fs, new, top + 1)
  BY <1>1 DEF Wrote
<1>5. \A q \in Processes :
        causes'[Follower(q)] = causes[Follower(q)] \cup
                                 IF q = p THEN FollowCauses(p, r) ELSE {}
  <2>. SUFFICES ASSUME NEW q \in Processes
                PROVE  causes'[Follower(q)] = causes[Follower(q)] \cup
                                                IF q = p THEN FollowCauses(p, r) ELSE {}
    OBVIOUS
  <2>1. Follower(q) \in Readers /\ Follower(q) \notin Keys
    BY FollowerKey
  <2>2. Follower(q) = <<"follow", p>> <=> q = p
    BY DEF Follower
  <2>. QED
    BY <1>4, <2>1, <2>2 DEF LineCauses
<1>6. Reads(f, p, new, top + 1)
  BY <1>2, <1>3, <1>4, ReadsGrown, ReadsRotated
<1>7. ASSUME causes'[Follower(p)] = {}
      PROVE  ReadsAll(f, new, top + 1)
  <2>1. causes[Follower(p)] = {} /\ FollowCauses(p, r) = {}
    BY <1>5, <1>7
  <2>2. f.pc # "asked" /\ ~(f.pc = "reading" /\ r)
    BY <1>1, <2>1 DEF FollowCauses
  <2>3. ReadsAll(f, fs, top)
    BY <1>2, <2>1
  <2>4. CASE r
    BY <1>2, <1>4, <2>2, <2>3, <2>4, ReadsRotated
  <2>5. CASE ~r
    BY <1>2, <1>3, <1>4, <2>2, <2>3, <2>5, ReadsGrown
  <2>. QED
    BY <2>4, <2>5
<1>8. Followed(p)'
  BY <1>1, <1>3, <1>6, <1>7 DEF Followed, Follower
<1>9. \A q \in Processes : q # p => causes'[Follower(q)] = causes[Follower(q)]
  BY <1>5
<1>. QED
  BY <1>8, <1>9

LEMMA AskFollows ==
  ASSUME NEW p \in Processes, RingInv, LogInv, LookInv, FollowForm, FollowAsk(p)
  PROVE  Followed(p)'
<1>1. LET f == found[Follower(p)][p]
      IN  /\ follow' = [follow EXCEPT ![p].pc = "asked",
                                      ![p].shown = Of(p, LinesIn(p, f, HistoryLines))]
          /\ causes' = [causes EXCEPT ![Follower(p)] =
                           IF f.by = "kept" \/ hand[p] # NoRing THEN {"raced"} ELSE {}]
          /\ UNCHANGED <<out, files, loggers, hand>>
  BY DEF FollowAsk, writer
<1>2. HistoryLines \in Nat \ {0} /\ Filed(p) /\ out[p] \in Int
  BY LineAssumption DEF LogInv, RingInv, Shape
<1>3. PICK f, t : /\ f = found[Follower(p)][p]
                  /\ t = Of(p, LinesIn(p, f, HistoryLines))
  OBVIOUS
<1>4. ASSUME NEW top, NEW size, Yields(p, f, top, size)
      PROVE  /\ top \in Int /\ t \in Seq({p} \X Int) /\ Climbs(t, {}) /\ Steps(t)
             /\ t # <<>> => Mark(t) = top
  <2>1. /\ Ends(LinesIn(p, f, HistoryLines), top)
        /\ Len(LinesIn(p, f, HistoryLines)) = Lo(HistoryLines, size)
        /\ top \in Int /\ size \in Nat
    BY <1>2, <1>4, YieldsEnds
  <2>2. Lo(HistoryLines, size) \in Nat
    BY <1>2, <2>1 DEF Lo
  <2>3. t = Block(p, top, Lo(HistoryLines, size))
    BY <1>3, <2>1, EndsBlock
  <2>. QED
    BY <2>1, <2>2, <2>3, Alone
<1>5. Knows(p, f)
  BY <1>3, FollowerKey DEF LookInv
<1>6. /\ t \in Seq({p} \X Int) /\ Climbs(t, {}) /\ Steps(t)
      /\ t # <<>> => Mark(t) <= out[p]
  <2>1. PICK top, size : Yields(p, f, top, size) /\ top <= out[p]
    BY <1>5, KnowsYields
  <2>. QED
    BY <1>4, <2>1
<1>7. ASSUME f.by # "kept", hand[p] = NoRing, t # <<>>
      PROVE  Mark(t) = out[p]
  <2>1. CASE f = Absent
    <3>1. LinesIn(p, f, HistoryLines) = <<>>
      BY <2>1, Kinds DEF LinesIn
    <3>. QED
      BY <1>3, <1>7, <3>1 DEF Of
  <2>2. CASE f = InFile
    BY <1>2, <1>4, <1>7, <2>2 DEF Yields
  <2>3. CASE f = Live /\ loggers[p] # NoRing
    <3>1. InRing(p) = out[p]
      BY <1>2, <1>7 DEF InRing
    <3>. QED
      BY <1>2, <1>4, <1>7, <2>3, <3>1 DEF Yields
  <2>. QED
    BY <1>5, <1>7, <2>1, <2>2, <2>3, Kinds DEF Knows
<1>8. /\ follow'[p].pc = "asked" /\ follow'[p].shown = t
  <2>1. follow'[p] = [follow[p] EXCEPT !.pc = "asked", !.shown = t]
    BY <1>1, <1>3 DEF FollowForm
  <2>2. follow'[p] = [pc |-> "asked", file |-> follow[p].file, at |-> follow[p].at,
                      shown |-> t]
    BY <2>1 DEF FollowForm
  <2>. QED
    BY <2>2
<1>9. Reads(follow'[p], p, files'[p], out'[p])
  BY <1>1, <1>6, <1>8 DEF Reads
<1>10. causes'[Follower(p)] = {} => ReadsAll(follow'[p], files'[p], out'[p])
  <2>. SUFFICES ASSUME causes'[Follower(p)] = {}
                PROVE  ReadsAll(follow'[p], files'[p], out'[p])
    OBVIOUS
  <2>1. causes'[Follower(p)] = IF f.by = "kept" \/ hand[p] # NoRing THEN {"raced"} ELSE {}
    BY <1>1, <1>3, FollowerKey DEF LogInv, Forms
  <2>2. f.by # "kept" /\ hand[p] = NoRing
    BY <2>1
  <2>. QED
    BY <1>1, <1>6, <1>7, <1>8, <2>2 DEF ReadsAll
<1>. QED
  BY <1>9, <1>10 DEF Followed, Follower

LEMMA OpenFollows ==
  ASSUME NEW p \in Processes, RingInv, LogInv, FollowForm, Followed(p), FollowOpen(p)
  PROVE  Followed(p)'
<1>1. /\ follow[p].pc = "asked"
      /\ follow' = IF files[p] = <<>>
                   THEN [follow EXCEPT ![p].pc = "ended"]
                   ELSE [follow EXCEPT ![p].pc = "reading",
                                       ![p].file = Len(files[p]),
                                       ![p].at = Len(Current(p))]
      /\ UNCHANGED <<out, files, causes>>
  BY DEF FollowOpen, writer
<1>2. PICK f, g, fs, top : /\ f = follow[p] /\ g = follow'[p] /\ fs = files[p]
                           /\ top = out[p]
  OBVIOUS
<1>3. /\ f.pc = "asked" /\ Reads(f, p, fs, top) /\ FilesAt(fs, top) /\ top \in Int
      /\ causes[Follower(p)] = {} => ReadsAll(f, fs, top)
  BY <1>1, <1>2, FilesOf DEF Followed
<1>4. CASE fs = <<>>
  <2>1. g = [f EXCEPT !.pc = "ended"]
    BY <1>1, <1>2, <1>4 DEF FollowForm
  <2>2. f = [pc |-> f.pc, file |-> f.file, at |-> f.at, shown |-> f.shown]
    BY <1>2 DEF FollowForm
  <2>3. g.pc = "ended" /\ g.shown = f.shown
    BY <2>1, <2>2
  <2>4. Reads(g, p, fs, top) /\ (ReadsAll(f, fs, top) => ReadsAll(g, fs, top))
    BY <1>3, <2>3 DEF Reads, ReadsAll
  <2>. QED
    BY <1>1, <1>2, <1>3, <2>4 DEF Followed, Follower
<1>5. CASE fs # <<>>
  <2>1. g = [f EXCEPT !.pc = "reading", !.file = Len(fs), !.at = Len(Current(p))]
    BY <1>1, <1>2, <1>5 DEF FollowForm
  <2>2. f = [pc |-> f.pc, file |-> f.file, at |-> f.at, shown |-> f.shown]
    BY <1>2 DEF FollowForm
  <2>3. /\ g.pc = "reading" /\ g.shown = f.shown /\ g.file = Len(fs)
        /\ g.at = Len(Current(p))
    BY <2>1, <2>2
  <2>4. /\ fs \in Seq(Seq(Int)) /\ Len(fs) \in 1..Len(fs)
        /\ Current(p) = fs[Len(fs)] /\ fs[Len(fs)] \in Seq(Int)
    <3>1. fs \in Seq(Seq(Int)) /\ Len(fs) \in 1..Len(fs)
      BY <1>3, <1>5 DEF FilesAt
    <3>2. Current(p) = fs[Len(fs)]
      BY <1>2, <1>5 DEF Current, Last
    <3>. QED
      BY <3>1, <3>2
  <2>5. PICK text : text = fs[Len(fs)] /\ text \in Seq(Int)
    BY <2>4
  <2>6. Len(text) \in Nat /\ g.at = Len(text)
    BY <2>3, <2>4, <2>5
  <2>7. Reads(g, p, fs, top)
    <3>1. \A i \in (g.at + 1)..Len(fs[g.file]) : FALSE
      BY <2>3, <2>5, <2>6
    <3>2. g.file \in 1..Len(fs) /\ g.at \in 0..Len(fs[g.file])
      BY <2>3, <2>4, <2>5, <2>6
    <3>. QED
      BY <1>3, <2>3, <3>1, <3>2 DEF Reads
  <2>8. ASSUME ReadsAll(f, fs, top)
        PROVE  ReadsAll(g, fs, top)
    <3>1. f.shown # <<>> => Mark(f.shown) = top
      BY <1>3, <2>8 DEF ReadsAll
    <3>2. f.shown # <<>> => Mark(f.shown) = top - Len(fs[Len(fs)]) + g.at
      BY <1>3, <2>5, <2>6, <3>1
    <3>. QED
      BY <2>3, <2>8, <3>2 DEF ReadsAll
  <2>. QED
    BY <1>1, <1>2, <1>3, <2>7, <2>8 DEF Followed, Follower
<1>. QED
  BY <1>4, <1>5

LEMMA ReadFollows ==
  ASSUME NEW p \in Processes, RingInv, LogInv, FollowForm, Followed(p), FollowRead(p)
  PROVE  Followed(p)'
<1>1. /\ follow[p].pc = "reading"
      /\ LET text == files[p][follow[p].file]
         IN follow' = [follow EXCEPT
                        ![p].at = Len(text),
                        ![p].shown = @ \o Of(p, SubSeq(text, follow[p].at + 1,
                                                       Len(text)))]
      /\ UNCHANGED <<out, files, causes>>
  BY DEF FollowRead, writer
<1>2. PICK f, g, fs, top : /\ f = follow[p] /\ g = follow'[p] /\ fs = files[p]
                           /\ top = out[p]
  OBVIOUS
<1>3. /\ f.pc = "reading" /\ Reads(f, p, fs, top) /\ FilesAt(fs, top) /\ top \in Int
      /\ causes[Follower(p)] = {} => ReadsAll(f, fs, top)
  BY <1>1, <1>2, FilesOf DEF Followed
<1>4. PICK at, t : at = Len(fs[f.file]) /\ t = f.shown \o Of(p, Rest(f, fs))
  OBVIOUS
<1>5. follow' = [follow EXCEPT ![p].at = at, ![p].shown = t]
  BY <1>1, <1>2, <1>4 DEF Rest
<1>6. g = [f EXCEPT !.at = at, !.shown = t]
  BY <1>2, <1>5 DEF FollowForm
<1>7. f = [pc |-> f.pc, file |-> f.file, at |-> f.at, shown |-> f.shown]
  BY <1>2 DEF FollowForm
<1>8. g.pc = "reading" /\ g.file = f.file /\ g.at = at /\ g.shown = t
  BY <1>3, <1>6, <1>7
<1>9. Reads(g, p, fs, top) /\ (ReadsAll(f, fs, top) => ReadsAll(g, fs, top))
  BY <1>3, <1>4, <1>8, ReadsOn
<1>. QED
  BY <1>1, <1>2, <1>3, <1>9 DEF Followed, Follower

LEMMA FollowersKept ==
  RingInv /\ LogInv /\ LookInv /\ FollowInv /\ [Next]_vars => FollowInv'
<1>. SUFFICES ASSUME RingInv, LogInv, LookInv, FollowInv, [Next]_vars
              PROVE  FollowInv'
  OBVIOUS
<1>1. FollowForm /\ \A q \in Processes : Followed(q)
  BY DEF FollowInv
<1>2. ASSUME follow' = follow
      PROVE  FollowForm'
  BY <1>1, <1>2 DEF FollowForm
<1>3. ASSUME NEW p \in Processes, Wrote(p), follow' = follow,
             \A q \in Processes : q # p => files'[q] = files[q] /\ out'[q] = out[q]
      PROVE  FollowInv'
  <2>1. /\ Followed(p)'
        /\ \A q \in Processes : q # p => causes'[Follower(q)] = causes[Follower(q)]
    BY <1>1, <1>3, FollowWrites
  <2>2. ASSUME NEW q \in Processes, q # p PROVE Followed(q)'
    BY <1>1, <1>3, <2>1, <2>2, FollowStays
  <2>. QED
    BY <1>2, <1>3, <2>1, <2>2 DEF FollowInv
<1>4. ASSUME follow' = follow, out' = out, files' = files,
             \A q \in Processes : causes'[Follower(q)] = {} => causes[Follower(q)] = {}
      PROVE  FollowInv'
  <2>1. ASSUME NEW q \in Processes PROVE Followed(q)'
    BY <1>1, <1>4, FollowStays
  <2>. QED
    BY <1>2, <1>4, <2>1 DEF FollowInv
<1>5. ASSUME NEW p \in Processes, Emit(p)
      PROVE  FollowInv'
  <2>1. Wrote(p) /\ \A q \in Processes : q # p => files'[q] = files[q]
    BY <1>5, EmitWrites
  <2>2. follow' = follow /\ \A q \in Processes : q # p => out'[q] = out[q]
    BY <1>5 DEF Emit, RingInv, Shape
  <2>. QED
    BY <1>3, <2>1, <2>2
<1>6. ASSUME NEW p \in Processes, StartOpen(p)
      PROVE  FollowInv'
  <2>1. follow' = follow
    BY <1>6 DEF StartOpen
  <2>2. \A q \in Processes : q # p => files'[q] = files[q] /\ out'[q] = out[q]
    <3>1. \A q \in Processes : q # p => files'[q] = files[q]
      BY <1>6, StartWrites
    <3>2. \A q \in Processes : q # p => out'[q] = out[q]
      BY <1>6 DEF StartOpen, RingInv, Shape
    <3>. QED
      BY <3>1, <3>2
  <2>3. CASE Wrote(p)
    BY <1>3, <2>1, <2>2, <2>3
  <2>4. CASE ~Wrote(p)
    <3>1. /\ out' = out /\ causes' = causes
          /\ files'[p] = IF files[p] = <<>> THEN <<<<>>>> ELSE files[p]
      BY <1>6, <2>4, StartWrites
    <3>2. Followed(p)'
      <4>1. CASE files[p] # <<>>
        BY <1>1, <2>1, <3>1, <4>1, FollowStays
      <4>2. CASE files[p] = <<>>
        <5>1. PICK f, top : f = follow[p] /\ top = out[p]
          OBVIOUS
        <5>2. /\ Reads(f, p, <<>>, top)
              /\ causes[Follower(p)] = {} => ReadsAll(f, <<>>, top)
          BY <1>1, <4>2, <5>1 DEF Followed
        <5>3. f.pc # "reading"
          BY <5>2 DEF Reads
        <5>4. Reads(f, p, <<<<>>>>, top)
          BY <5>2, <5>3 DEF Reads
        <5>5. ReadsAll(f, <<>>, top) => ReadsAll(f, <<<<>>>>, top)
          BY <5>3 DEF ReadsAll
        <5>6. files'[p] = <<<<>>>> /\ follow'[p] = f /\ out'[p] = top
          BY <2>1, <3>1, <4>2, <5>1
        <5>. QED
          BY <3>1, <5>2, <5>4, <5>5, <5>6 DEF Followed, Follower
      <4>. QED
        BY <4>1, <4>2
    <3>3. ASSUME NEW q \in Processes, q # p PROVE Followed(q)'
      BY <1>1, <2>1, <2>2, <3>1, <3>3, FollowStays
    <3>. QED
      BY <1>2, <2>1, <3>2, <3>3 DEF FollowInv
  <2>. QED
    BY <2>3, <2>4
<1>7. CASE \/ \E p \in Processes : StartInstall(p) \/ StartUnlogged(p)
           \/ RemoveProject
  <2>1. /\ follow' = follow /\ out' = out /\ files' = files
        /\ \E c : causes' = [causes EXCEPT ![Project] = c]
    BY <1>7 DEF StartInstall, StartUnlogged, RemoveProject
  <2>2. \A q \in Processes : causes'[Follower(q)] = causes[Follower(q)]
    BY <2>1, FollowerKey DEF LogInv, Forms, Keys
  <2>. QED
    BY <1>4, <2>1, <2>2
<1>8. ASSUME NEW k \in Keys, Poll(k)
      PROVE  FollowInv'
  <2>1. /\ follow' = follow /\ out' = out /\ files' = files
        /\ \E c : causes' = [causes EXCEPT ![k] = c]
    BY <1>8 DEF Poll, writer
  <2>2. \A q \in Processes : causes'[Follower(q)] = causes[Follower(q)]
    BY <2>1, FollowerKey DEF LogInv, Forms, Keys
  <2>. QED
    BY <1>4, <2>1, <2>2
<1>9. CASE \/ UNCHANGED vars \/ PollLook
           \/ \E k \in Keys : Connect(k)
           \/ \E p \in Processes : Exit(p) \/ FollowLook(p)
  <2>1. follow' = follow /\ out' = out /\ files' = files /\ causes' = causes
    BY <1>9 DEF vars, writer, PollLook, Look, FollowLook, Connect, Exit
  <2>. QED
    BY <1>4, <2>1
<1>10. ASSUME NEW p \in Processes, FollowAsk(p) \/ FollowOpen(p) \/ FollowRead(p)
       PROVE  FollowInv'
  <2>1. out' = out /\ files' = files
    BY <1>10 DEF FollowAsk, FollowOpen, FollowRead, writer
  <2>2. Followed(p)'
    BY <1>1, <1>10, AskFollows, OpenFollows, ReadFollows
  <2>3. PICK pc, file, at, shown :
          follow' = [follow EXCEPT ![p].pc = pc, ![p].file = file, ![p].at = at,
                                   ![p].shown = shown]
    <3>t. PICK t : t = Of(p, LinesIn(p, found[Follower(p)][p], HistoryLines))
      OBVIOUS
    <3>1. CASE FollowAsk(p)
      <4>1. follow' = [follow EXCEPT ![p].pc = "asked", ![p].file = follow[p].file,
                                     ![p].at = follow[p].at,
                                     ![p].shown = t]
        BY <3>1, <3>t, <1>1 DEF FollowAsk, FollowForm
      <4>. QED
        BY <4>1
    <3>2. CASE FollowOpen(p) /\ files[p] = <<>>
      <4>1. follow' = [follow EXCEPT ![p].pc = "ended", ![p].file = follow[p].file,
                                     ![p].at = follow[p].at,
                                     ![p].shown = follow[p].shown]
        BY <3>2, <1>1 DEF FollowOpen, FollowForm
      <4>. QED
        BY <4>1
    <3>3. CASE FollowOpen(p) /\ files[p] # <<>>
      <4>1. follow' = [follow EXCEPT ![p].pc = "reading", ![p].file = Len(files[p]),
                                     ![p].at = Len(Current(p)),
                                     ![p].shown = follow[p].shown]
        BY <3>3, <1>1 DEF FollowOpen, FollowForm
      <4>. QED
        BY <4>1
    <3>4. CASE FollowRead(p)
      <4>1. PICK at, shown : follow' = [follow EXCEPT ![p].at = at, ![p].shown = shown]
        BY <3>4 DEF FollowRead
      <4>2. follow' = [follow EXCEPT ![p].pc = follow[p].pc, ![p].file = follow[p].file,
                                     ![p].at = at, ![p].shown = shown]
        BY <4>1, <1>1 DEF FollowForm
      <4>. QED
        BY <4>2
    <3>. QED
      BY <1>10, <3>1, <3>2, <3>3, <3>4
  <2>4. follow' = [follow EXCEPT ![p] = [pc |-> pc, file |-> file, at |-> at,
                                         shown |-> shown]]
    <3>1. [follow[p] EXCEPT !.pc = pc, !.file = file, !.at = at, !.shown = shown]
            = [pc |-> pc, file |-> file, at |-> at, shown |-> shown]
      <4>1. PICK a, b, c, d : follow[p] = [pc |-> a, file |-> b, at |-> c, shown |-> d]
        BY <1>1 DEF FollowForm
      <4>2. [[pc |-> a, file |-> b, at |-> c, shown |-> d]
               EXCEPT !.pc = pc, !.file = file, !.at = at, !.shown = shown]
              = [pc |-> pc, file |-> file, at |-> at, shown |-> shown]
        <5>1. [[pc |-> a, file |-> b, at |-> c, shown |-> d] EXCEPT !.pc = pc]
                = [pc |-> pc, file |-> b, at |-> c, shown |-> d]
          OBVIOUS
        <5>2. [[pc |-> pc, file |-> b, at |-> c, shown |-> d] EXCEPT !.file = file]
                = [pc |-> pc, file |-> file, at |-> c, shown |-> d]
          OBVIOUS
        <5>3. [[pc |-> pc, file |-> file, at |-> c, shown |-> d] EXCEPT !.at = at]
                = [pc |-> pc, file |-> file, at |-> at, shown |-> d]
          OBVIOUS
        <5>4. [[pc |-> pc, file |-> file, at |-> at, shown |-> d] EXCEPT !.shown = shown]
                = [pc |-> pc, file |-> file, at |-> at, shown |-> shown]
          OBVIOUS
        <5>. QED
          BY <5>1, <5>2, <5>3, <5>4
      <4>. QED
        BY <4>1, <4>2
    <3>. QED
      BY <2>3, <3>1
  <2>5. FollowForm'
    BY <1>1, <2>4 DEF FollowForm
  <2>6. ASSUME NEW q \in Processes, q # p PROVE Followed(q)'
    <3>1. follow'[q] = follow[q]
      BY <1>1, <2>4, <2>6 DEF FollowForm
    <3>2. causes'[Follower(q)] = causes[Follower(q)]
      <4>1. \/ causes' = causes
            \/ \E c : causes' = [causes EXCEPT ![Follower(p)] = c]
        BY <1>10 DEF FollowAsk, FollowOpen, FollowRead
      <4>2. Follower(q) # Follower(p)
        BY <2>6 DEF Follower
      <4>3. Follower(q) \in Readers /\ causes = [v \in Readers |-> causes[v]]
        BY FollowerKey DEF LogInv, Forms
      <4>. QED
        BY <4>1, <4>2, <4>3
    <3>. QED
      BY <1>1, <2>1, <3>1, <3>2, FollowStays
  <2>. QED
    BY <2>2, <2>5, <2>6 DEF FollowInv
<1>. QED
  BY <1>5, <1>6, <1>7, <1>8, <1>9, <1>10 DEF Next

-----------------------------------------------------------------------------
Inv == RingInv /\ LogInv /\ LookInv /\ StreamInv /\ AskInv /\ FollowInv

LEMMA InvHolds == Spec => []Inv
<1>1. Init => Inv
  BY Initially, LogsInit, LooksInit, StreamsInit, AsksInit, FollowersInit DEF Inv
<1>2. Inv /\ [Next]_vars => Inv'
  BY Inductive, LogsKept, LooksKept, StreamsKept, AsksKept, FollowersKept DEF Inv
<1>. QED
  BY <1>1, <1>2, PTL DEF Spec

(* What has been shown of one process. *)
LEMMA ClimbsRises ==
  ASSUME NEW p, NEW s \in Seq({p} \X Int), Climbs(s, seps)
  PROVE  Rising(s)
BY DEF Climbs, Rising

LEMMA StepsUnbroken ==
  ASSUME NEW p, NEW s \in Seq({p} \X Int), Steps(s)
  PROVE  Unbroken(s)
BY DEF Steps, Unbroken

LEMMA ClimbsAnyway ==
  ASSUME NEW s, Climbs(s, {})
  PROVE  Climbs(s, seps)
BY DEF Climbs

LEMMA ReaderIs ==
  ASSUME Inv, NEW v \in Readers, v # Project \/ OneProcess
  PROVE  /\ v # Project \/ "reread" \notin causes[v] => Rising(ShownTo(v))
         /\ causes[v] = {} => Unbroken(ShownTo(v))
<1>1. CASE v \in Keys
  <2>1. PICK p \in Processes : Watches(v, p)
    <3>1. CASE v \in Processes
      BY <3>1 DEF Watches
    <3>2. CASE v = Project
      <4>1. PICK p : Processes = {p}
        BY <3>2 DEF OneProcess
      <4>. QED
        BY <3>2, <4>1 DEF Watches
    <3>. QED
      BY <1>1, <3>1, <3>2 DEF Keys
  <2>2. PICK s : s = ShownTo(v) /\ s = stream[v].shown
    BY <1>1 DEF ShownTo
  <2>3. Streamed(p, v)
    BY <1>1, <2>1 DEF Inv, StreamInv
  <2>4. v # Project \/ "reread" \notin causes[v] => s \in Seq({p} \X Int) /\ Climbs(s, seps)
    BY <2>1, <2>2, <2>3 DEF Streamed, CaughtUp, Watches
  <2>5. causes[v] = {} => s \in Seq({p} \X Int) /\ Steps(s)
    BY <2>2, <2>3, <2>4 DEF Streamed, Whole
  <2>. QED
    BY <2>2, <2>4, <2>5, ClimbsRises, StepsUnbroken
<1>2. CASE v \notin Keys
  <2>1. PICK p \in Processes : v = Follower(p)
    BY <1>2 DEF Readers, Follower
  <2>2. PICK s : s = ShownTo(v) /\ s = follow[p].shown
    BY <1>2, <2>1 DEF ShownTo, Follower
  <2>3. Followed(p)
    BY DEF Inv, FollowInv
  <2>4. s \in Seq({p} \X Int) /\ Climbs(s, {})
    BY <2>2, <2>3 DEF Followed, Reads
  <2>5. causes[v] = {} => Steps(s)
    BY <2>1, <2>2, <2>3 DEF Followed, ReadsAll
  <2>. QED
    BY <2>2, <2>4, <2>5, ClimbsAnyway, ClimbsRises, StepsUnbroken
<1>. QED
  BY <1>1, <1>2

(* The event stream of a process and `nanny logs -f` show its lines in     *)
(* order and none twice, whatever processes the project has, through any   *)
(* rotation, restart and removal, also one between the lookup of a Logger  *)
(* and its reading (sse.go:17-61, cmd/logs.go:27-95, manager.go:259-274).  *)
THEOREM ProcessInOrder ==
  Spec => [](\A v \in Readers \ {Project} : Rising(ShownTo(v)))
<1>1. Inv => \A v \in Readers \ {Project} : Rising(ShownTo(v))
  BY ReaderIs
<1>. QED
  BY <1>1, InvHolds, PTL

(* They miss a line only for a reason: it scrolled out of a full source,   *)
(* a rotation or a restart replaced the source, or it was written between  *)
(* the snapshot of a follower and its opening of the file.                 *)
THEOREM ProcessGaps ==
  Spec => [](\A v \in Readers \ {Project} : causes[v] = {} => Unbroken(ShownTo(v)))
<1>1. Inv => \A v \in Readers \ {Project} : causes[v] = {} => Unbroken(ShownTo(v))
  BY ReaderIs
<1>. QED
  BY <1>1, InvHolds, PTL

(* In a project of one process the stream of the project, too, shows a     *)
(* line twice only if it changed between the file of the process and its   *)
(* ring in one of the two ways that are recorded: it looked before a Start *)
(* installed the first Logger and read the file after (manager.go:259-274),*)
(* or a Start that could not open the file left it there (manager.go:419). *)
(* A ring that was replaced between the lookup and the reading repeats     *)
(* nothing.  Of a larger project this is false: the aggregate is cut to    *)
(* the newest lines of all its processes by position, so that the lines of *)
(* one are sent again when those of another shift them (sse.go:44-50).     *)
THEOREM OneProcessInOrder == OneProcess /\ Spec => []InOrder
<1>. SUFFICES ASSUME OneProcess PROVE Spec => []InOrder
  OBVIOUS
<1>1. Inv => InOrder
  BY ReaderIs DEF InOrder
<1>. QED
  BY <1>1, InvHolds, PTL

(* A line is missing between two that any reader of such a project shows   *)
(* only for a recorded cause, whatever comes between lookup and reading.   *)
THEOREM OneProcessGaps == OneProcess /\ Spec => []GapsHaveCauses
<1>. SUFFICES ASSUME OneProcess PROVE Spec => []GapsHaveCauses
  OBVIOUS
<1>1. Inv => GapsHaveCauses
  BY ReaderIs DEF GapsHaveCauses
<1>. QED
  BY <1>1, InvHolds, PTL
=============================================================================
