----------------------------- MODULE MCSession -----------------------------
(* Instances of Session for TLC. *)
EXTENDS Session

CONSTANTS c1, j1

MCOwn == [j \in Job |-> c1]

\* Three chunks, the last of which is not full.
MCZipSize == [j \in Job |-> 2 * ChunkSize + 1]
=============================================================================
