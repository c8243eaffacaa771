---------------------------- MODULE MCLogStream -----------------------------
(* The definitions the logstream*.cfg files give the constants of          *)
(* LogStream.                                                              *)
EXTENDS LogStream

CONSTANTS x, y, project

(* Three lines in error, of which the ErrorRing of logstream.cfg keeps two. *)
Matching == {2, 3, 5}
=============================================================================
