----------------------------- MODULE MCJobCount -----------------------------
(***************************************************************************)
(* Instances of JobCount for TLC: a job that fans out to three tasks next  *)
(* to a job with two, so that counters of different jobs are interleaved.  *)
(***************************************************************************)
EXTENDS JobCount, TLC

CONSTANTS j1, j2, a1, a2, a3, a4, b1, b2, w1, w2

MCJob == {j1, j2}
MCTask == {a1, a2, a3, b1, b2}
MCOwner == a1 :> j1 @@ a2 :> j1 @@ a3 :> j1 @@ b1 :> j2 @@ b2 :> j2

\* One job with four tasks, for the runs with failures.
MCOneJob == {j1}
MCOneTask == {a1, a2, a3, a4}
MCOneOwner == a1 :> j1 @@ a2 :> j1 @@ a3 :> j1 @@ a4 :> j1
MCWorker == {w1, w2}

NoFaults == {}
SafeFaults == FaultKinds \ UnsafeFaults
=============================================================================
