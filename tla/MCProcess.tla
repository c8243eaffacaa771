----------------------------- MODULE MCProcess -----------------------------
(* Process.tla with two concurrent callers of Stop: enough for one of them *)
(* to overtake the other at every lock section.                            *)
EXTENDS Process

CONSTANTS c1, c2

MCCallers == {c1, c2}

AllForks == {"group", "escaped"} \X BOOLEAN
=============================================================================
