---------------------------- MODULE MCLogStream ----------------------------
(* Instances of LogStream for TLC. *)
EXTENDS LogStream

CONSTANTS c1, j1, j2

\* One client submits both jobs.
MCBoth == [j \in Job |-> c1]
=============================================================================
