----------------------------- MODULE Completion -----------------------------
(***************************************************************************)
(* What a crawl job promises to whoever submitted it, with the counter,    *)
(* the broker and the crawlers abstracted away: a job begins with one      *)
(* task, a live task may beget others or end, and "completed" is said      *)
(* once, when no task of the job is left, and nothing follows it.          *)
(* Module JobCount, the protocol the code runs, is shown to implement it.  *)
(***************************************************************************)
CONSTANTS Job, Task

VARIABLES live,    \* live[j]: the tasks of job j that still have to be accounted for
          phase    \* "new", "active", or "completed" once the client has been told

vars == <<live, phase>>

TypeOK == /\ live \in [Job -> SUBSET Task]
          /\ phase \in [Job -> {"new", "active", "completed"}]

Init == /\ live = [j \in Job |-> {}]
        /\ phase = [j \in Job |-> "new"]

\* A client submits job j; its first task is t.
Begin(j, t) ==
    /\ phase[j] = "new"
    /\ phase' = [phase EXCEPT ![j] = "active"]
    /\ live' = [live EXCEPT ![j] = {t}]

\* Some live task of an active job begets tasks, ends, or is lost. Only a job
\* that still has a live task can change: nothing comes back from nothing.
Work(j, S) ==
    /\ phase[j] = "active"
    /\ live[j] # {}
    /\ live' = [live EXCEPT ![j] = S]
    /\ UNCHANGED phase

\* The client is told that j is complete.
Complete(j) ==
    /\ phase[j] = "active"
    /\ live[j] = {}
    /\ phase' = [phase EXCEPT ![j] = "completed"]
    /\ UNCHANGED live

Next == \E j \in Job : \/ \E t \in Task : Begin(j, t)
                       \/ \E S \in SUBSET Task : Work(j, S)
                       \/ Complete(j)

Spec == Init /\ [][Next]_vars
=============================================================================
