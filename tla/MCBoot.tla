------------------------------- MODULE MCBoot -------------------------------
(* The definitions the boot*.cfg files give the constants of Boot.         *)
EXTENDS Boot, TLC

CONSTANTS a, b,         \* projects
          p1, p2, p3    \* pids

Interchangeable == Permutations(Projects) \cup Permutations(Pids)
=============================================================================
