------------------------------- MODULE Rings --------------------------------
(***************************************************************************)
(* The two ring buffers of the log path: the lines a Logger keeps in       *)
(* memory (internal/daemon/logger.go:16-36) and the error events of the    *)
(* daemon (internal/daemon/errors.go:26-62).  Only their position          *)
(* arithmetic is here; LogStream.tla uses them.                            *)
(***************************************************************************)
EXTENDS Integers, Sequences

CONSTANTS
    RingCap,     \* lines a Logger keeps (ringCap, 500)
    ErrorCap     \* events the ErrorRing keeps (50)

ASSUME RingAssumption == RingCap \in Nat \ {0}
ASSUME ErrorAssumption == ErrorCap \in Nat \ {0}

(* An empty slot; lines are numbered from 1 (LogStream.tla). *)
NoLine == 0

(* slots is indexed from 0, as the array is. *)
EmptyRing == [slots |-> [i \in 0..RingCap-1 |-> NoLine], pos |-> 0, len |-> 0]

RingAdd(r, line) ==
    [slots |-> [r.slots EXCEPT ![r.pos] = line],
     pos   |-> (r.pos + 1) % RingCap,
     len   |-> IF r.len < RingCap THEN r.len + 1 ELSE r.len]

(* Mutant: reads as if the ring had never wrapped. *)
TailFromZero(r, n) ==
    LET actual == IF n > r.len THEN r.len ELSE n
    IN  [i \in 1..actual |-> r.slots[(r.len - actual + (i - 1)) % RingCap]]

(* tailLocked: the last n lines, oldest first.  i is one more than the i   *)
(* of the code, whose slices start at 0.                                   *)
RingTail(r, n) ==
    LET actual == IF n > r.len THEN r.len ELSE n
    IN  [i \in 1..actual |->
            r.slots[(r.pos - actual + (i - 1) + RingCap) % RingCap]]

-----------------------------------------------------------------------------
EmptyErrors == [events |-> [i \in 0..ErrorCap-1 |-> <<>>], pos |-> 0, count |-> 0]

ErrorAdd(r, event) ==
    [events |-> [r.events EXCEPT ![r.pos] = event],
     pos    |-> (r.pos + 1) % ErrorCap,
     count  |-> IF r.count < ErrorCap THEN r.count + 1 ELSE r.count]

(* Mutant: the oldest event comes first. *)
OldestFirst(r) ==
    [i \in 1..r.count |-> r.events[(r.pos - r.count + (i - 1) + ErrorCap) % ErrorCap]]

(* The events, newest first. *)
NewestFirst(r) ==
    [i \in 1..r.count |-> r.events[(r.pos - 1 - (i - 1) + ErrorCap) % ErrorCap]]

(* RecentForKey: up to n events of the keys a name stands for, which the   *)
(* loop has collected after all its turns.                                 *)
RecentForKeys(r, keys, n) ==
    LET got[i \in 0..r.count] ==
            IF i = 0 THEN <<>>
            ELSE IF Len(got[i-1]) < n /\ NewestFirst(r)[i].key \in keys
                 THEN Append(got[i-1], NewestFirst(r)[i])
                 ELSE got[i-1]
    IN  got[r.count]
=============================================================================
