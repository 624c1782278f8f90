------------------------------ MODULE JobCount ------------------------------
(***************************************************************************)
(* The completion counter of a crawl job.                                  *)
(*                                                                         *)
(* Nobody sees all tasks (sub-jobs) of a crawl at once: they sit in the    *)
(* broker, in crawler processes, or in HTTP requests on their way. The     *)
(* program decides that a crawl is over from one Redis field,              *)
(* HGET job:<id> count: the server sets it to 1, a crawler adds the number *)
(* of sub-jobs before it sends them to the broker, and every task          *)
(* subtracts 1 in the "finally" of Crawler.add. The crawler that takes the *)
(* field to zero publishes "completed successfully" and deletes the key.   *)
(*                                                                         *)
(* What a task does between its start and its sub-jobs (robots, page,      *)
(* Postgres) is left open here: it ends with no sub-jobs (NoSubJobs) or    *)
(* with some set of fresh ones (IncJobCount). Module Crawler fills it in.  *)
(***************************************************************************)
EXTENDS Integers, FiniteSets

CONSTANTS Job,        \* identifiers of crawl jobs
          Task,       \* identities of the tasks of all jobs
          Owner,      \* Owner[t]: the job that task t belongs to
          Worker,     \* crawler processes
          NoTask,     \* "holds no task"
          Faults      \* the failures that may happen, see FaultKinds

\* Failures the code meets, and swallows:
\*   noSubscriber   the server has no Redis, or its HSETNX fails
\*   pushFails      the server's POST to the broker fails
\*   badJob         jobhandler cannot build the Crawler of a task
\*   initFails      the crawler's HSETNX fails
\*   incFails       the crawler's HINCRBY +n fails
\*   sendFails      the crawler's POST of the sub-jobs fails
\*   decFails       the crawler's HINCRBY -1, its DEL, or its PUBLISH fails
\*   crash          a crawler process dies before its HINCRBY -1
\*   lateCrash      a crawler process dies after it and before the TACK
\*   redeliver      after a lateCrash the broker hands the task out again
FaultKinds == {"noSubscriber", "pushFails", "badJob", "initFails", "incFails",
               "sendFails", "decFails", "crash", "lateCrash", "redeliver"}

ASSUME JobCountAssumption ==
    /\ IsFiniteSet(Task)
    /\ Owner \in [Task -> Job]
    /\ NoTask \notin Task
    /\ Faults \subseteq FaultKinds

VARIABLES
    counter,  \* counter[j]: the field "count" of hash job:<j>, 0 if there is none
    keys,     \* the jobs j whose hash job:<j> exists
    place,    \* place[t]: where task t is, see Places
    pc,       \* pc[w]: how far crawler w is with its task
    cur,      \* cur[w]: the task crawler w works on
    subs,     \* subs[w]: the sub-jobs w has counted and not yet sent
    told      \* told[j]: how many "completed successfully" were published

vars == <<counter, keys, place, pc, cur, subs, told>>

\* unused: not created; pushing: in the server's POST; promised: counted by a
\* crawler and not yet sent; queued: in the broker; pulled: handed out, no TACK
\* yet; gone: acknowledged, or lost.
Places == {"unused", "pushing", "promised", "queued", "pulled", "gone"}
PCs == {"idle", "start", "crawl", "send", "dec", "publish", "delete", "ack"}

\* The steps of a task at which its own "- 1" is still to come.
Uncounted == {"start", "crawl", "send", "dec"}

TypeOK ==
    /\ counter \in [Job -> Int]
    /\ keys \in SUBSET Job
    /\ place \in [Task -> Places]
    /\ pc \in [Worker -> PCs]
    /\ cur \in [Worker -> Task \cup {NoTask}]
    /\ subs \in [Worker -> SUBSET Task]
    /\ told \in [Job -> Nat]

Init ==
    /\ counter = [j \in Job |-> 0]
    /\ keys = {}
    /\ place = [t \in Task |-> "unused"]
    /\ pc = [w \in Worker |-> "idle"]
    /\ cur = [w \in Worker |-> NoTask]
    /\ subs = [w \in Worker |-> {}]
    /\ told = [j \in Job |-> 0]

TasksOf(j) == {t \in Task : Owner[t] = j}
JobOf(w) == Owner[cur[w]]

\* The tasks of S moved to place q.
Move(S, q) == [t \in Task |-> IF t \in S THEN q ELSE place[t]]

\* Mutant: HSET instead of HSETNX.
SetAlways(j) == keys' = keys \cup {j} /\ counter' = [counter EXCEPT ![j] = 1]

\* HSETNX job:<j> count 1
SetIfAbsent(j) ==
    /\ keys' = keys \cup {j}
    /\ counter' = [counter EXCEPT ![j] = IF j \in keys THEN @ ELSE 1]

\* HINCRBY job:<j> count n, which creates the hash when it is not there
IncrBy(j, n) ==
    /\ keys' = keys \cup {j}
    /\ counter' = [counter EXCEPT ![j] = @ + n]

-----------------------------------------------------------------------------
(* The server *)

\* readLoop receives a job: it initialises the counter, then starts the
\* goroutine that pushes the job. Clients make a fresh identifier per job.
Submit(t) ==
    /\ \A u \in TasksOf(Owner[t]) : place[u] = "unused"
    /\ place' = Move({t}, "pushing")
    /\ \/ SetIfAbsent(Owner[t])
       \/ "noSubscriber" \in Faults /\ UNCHANGED <<counter, keys>>
    /\ UNCHANGED <<pc, cur, subs, told>>

\* The goroutine's POST to the broker; its error is logged, no more.
PushToBroker(t) ==
    /\ place[t] = "pushing"
    /\ \/ place' = Move({t}, "queued")
       \/ "pushFails" \in Faults /\ place' = Move({t}, "gone")
    /\ UNCHANGED <<counter, keys, pc, cur, subs, told>>

-----------------------------------------------------------------------------
(* A crawler *)

Goto(w, p) == pc' = [pc EXCEPT ![w] = p]

\* The broker answers a PULL with task t and process_job starts on it.
Pull(w, t) ==
    /\ pc[w] = "idle"
    /\ place[t] = "queued"
    /\ place' = Move({t}, "pulled")
    /\ cur' = [cur EXCEPT ![w] = t]
    /\ Goto(w, "start")
    /\ UNCHANGED <<counter, keys, subs, told>>

\* Job(...) or Crawler(...) raises: jobhandler logs it, add() never runs.
BadJob(w) ==
    /\ "badJob" \in Faults
    /\ pc[w] = "start"
    /\ Goto(w, "ack")
    /\ UNCHANGED <<counter, keys, place, cur, subs, told>>

InitJobCount(w) ==
    /\ pc[w] = "start"
    /\ \/ SetIfAbsent(JobOf(w))
       \/ "initFails" \in Faults /\ UNCHANGED <<counter, keys>>
    /\ Goto(w, "crawl")
    /\ UNCHANGED <<place, cur, subs, told>>

\* Every way through add() that sends no sub-job: an early return, an exception,
\* a page without new links, a depth of 1.
NoSubJobs(w) ==
    /\ pc[w] = "crawl"
    /\ Goto(w, "dec")
    /\ UNCHANGED <<counter, keys, place, cur, subs, told>>

\* Mutants: one sub-job too few is counted; one too many.
IncOneLess(w, S) ==
    /\ pc[w] = "crawl" /\ S # {}
    /\ \A t \in S : Owner[t] = JobOf(w) /\ place[t] = "unused"
    /\ place' = Move(S, "promised") /\ subs' = [subs EXCEPT ![w] = S]
    /\ IncrBy(JobOf(w), Cardinality(S) - 1)
    /\ Goto(w, "send") /\ UNCHANGED <<cur, told>>
IncOneMore(w, S) ==
    /\ pc[w] = "crawl" /\ S # {}
    /\ \A t \in S : Owner[t] = JobOf(w) /\ place[t] = "unused"
    /\ place' = Move(S, "promised") /\ subs' = [subs EXCEPT ![w] = S]
    /\ IncrBy(JobOf(w), Cardinality(S) + 1)
    /\ Goto(w, "send") /\ UNCHANGED <<cur, told>>

\* inc_job_count for the sub-jobs S, just before they are sent.
IncJobCount(w, S) ==
    /\ pc[w] = "crawl"
    /\ S # {}
    /\ \A t \in S : Owner[t] = JobOf(w) /\ place[t] = "unused"
    /\ place' = Move(S, "promised")
    /\ subs' = [subs EXCEPT ![w] = S]
    /\ \/ IncrBy(JobOf(w), Cardinality(S))
       \/ "incFails" \in Faults /\ UNCHANGED <<counter, keys>>
    /\ Goto(w, "send")
    /\ UNCHANGED <<cur, told>>

\* One POST for all of S; add() ignores the result.
SendToBroker(w) ==
    /\ pc[w] = "send"
    /\ \/ place' = Move(subs[w], "queued")
       \/ "sendFails" \in Faults /\ place' = Move(subs[w], "gone")
    /\ subs' = [subs EXCEPT ![w] = {}]
    /\ Goto(w, "dec")
    /\ UNCHANGED <<counter, keys, cur, told>>

\* Mutants: the job is over at 1; at -1.
DecDoneAtOne(w) ==
    /\ pc[w] = "dec" /\ IncrBy(JobOf(w), -1)
    /\ Goto(w, IF counter'[JobOf(w)] <= 1 THEN "publish" ELSE "ack")
    /\ UNCHANGED <<place, cur, subs, told>>
DecDoneBelowZero(w) ==
    /\ pc[w] = "dec" /\ IncrBy(JobOf(w), -1)
    /\ Goto(w, IF counter'[JobOf(w)] < 0 THEN "publish" ELSE "ack")
    /\ UNCHANGED <<place, cur, subs, told>>

\* The HINCRBY -1 of dec_job_count_and_check, and its test of the result. A Redis
\* error is swallowed, also when only the reply was lost.
DecJobCount(w) ==
    /\ pc[w] = "dec"
    /\ \/ /\ IncrBy(JobOf(w), -1)
          /\ Goto(w, IF counter'[JobOf(w)] <= 0 THEN "publish" ELSE "ack")
       \/ /\ "decFails" \in Faults
          /\ \/ IncrBy(JobOf(w), -1)
             \/ UNCHANGED <<counter, keys>>
          /\ Goto(w, "ack")
    /\ UNCHANGED <<place, cur, subs, told>>

\* publish_log swallows a Redis error.
PublishCompleted(w) ==
    /\ pc[w] = "publish"
    /\ \/ told' = [told EXCEPT ![JobOf(w)] = @ + 1]
       \/ "decFails" \in Faults /\ UNCHANGED told
    /\ Goto(w, "delete")
    /\ UNCHANGED <<counter, keys, place, cur, subs>>

\* Mutants: the key is kept; the field reads as nil afterwards.
KeepCount(w) ==
    /\ pc[w] = "delete" /\ Goto(w, "ack")
    /\ UNCHANGED <<counter, keys, place, cur, subs, told>>
DeleteToNil(w) ==
    /\ pc[w] = "delete" /\ Goto(w, "ack")
    /\ counter' = [counter EXCEPT ![JobOf(w)] = NoTask] /\ keys' = keys \ {JobOf(w)}
    /\ UNCHANGED <<place, cur, subs, told>>

\* The DEL that follows the announcement.
DeleteCount(w) ==
    /\ pc[w] = "delete"
    /\ \/ /\ counter' = [counter EXCEPT ![JobOf(w)] = 0]
          /\ keys' = keys \ {JobOf(w)}
       \/ "decFails" \in Faults /\ UNCHANGED <<counter, keys>>
    /\ Goto(w, "ack")
    /\ UNCHANGED <<place, cur, subs, told>>

\* process_job acknowledges the task whether or not jobhandler succeeded.
Ack(w) ==
    /\ pc[w] = "ack"
    /\ place' = Move({cur[w]}, "gone")
    /\ cur' = [cur EXCEPT ![w] = NoTask]
    /\ Goto(w, "idle")
    /\ UNCHANGED <<counter, keys, subs, told>>

\* The process dies and another takes its place. The broker queues the task
\* again or forgets it; sub-jobs not yet sent are gone.
Crash(w) ==
    /\ \/ "crash" \in Faults /\ pc[w] \in Uncounted
       \/ "lateCrash" \in Faults /\ pc[w] \in {"publish", "delete", "ack"}
    /\ \E q \in {"gone"} \cup
                (IF pc[w] \in Uncounted \/ "redeliver" \in Faults THEN {"queued"} ELSE {}) :
          place' = [t \in Task |-> IF t = cur[w] THEN q
                                   ELSE IF t \in subs[w] THEN "gone" ELSE place[t]]
    /\ cur' = [cur EXCEPT ![w] = NoTask]
    /\ subs' = [subs EXCEPT ![w] = {}]
    /\ Goto(w, "idle")
    /\ UNCHANGED <<counter, keys, told>>

-----------------------------------------------------------------------------
\* What crawler w does by itself once it holds a task.
Step(w) ==
    \/ BadJob(w)
    \/ InitJobCount(w)
    \/ NoSubJobs(w)
    \/ \E S \in SUBSET Task : IncJobCount(w, S)
    \/ SendToBroker(w)
    \/ DecJobCount(w)
    \/ PublishCompleted(w)
    \/ DeleteCount(w)
    \/ Ack(w)

Next ==
    \/ \E t \in Task : Submit(t) \/ PushToBroker(t)
    \/ \E w \in Worker : \/ \E t \in Task : Pull(w, t)
                         \/ Step(w)
                         \/ Crash(w)

Spec == Init /\ [][Next]_vars

\* The server's goroutine runs, a running task keeps running, and the broker
\* answers the PULL a free crawler always has outstanding.
Fairness ==
    /\ \A t \in Task : WF_vars(PushToBroker(t))
    /\ WF_vars(\E w \in Worker, t \in Task : Pull(w, t))
    /\ \A w \in Worker : WF_vars(Step(w))

FairSpec == Spec /\ Fairness

-----------------------------------------------------------------------------
(* Properties *)

\* The "- 1" of task t is still to come.
IsLive(t) == \/ place[t] \in {"pushing", "promised", "queued"}
             \/ \E w \in Worker : cur[w] = t /\ pc[w] \in Uncounted

Live(j) == {t \in TasksOf(j) : IsLive(t)}

Submitted(j) == \E t \in TasksOf(j) : place[t] # "unused"

\* The failures after which the counter can fall below the number of live tasks.
UnsafeFaults == {"initFails", "incFails", "redeliver"}

\* "completed successfully" (dec_job_count_and_check) is never published while a
\* task of the job is in the broker, on its way there, or running, and no task of
\* the job appears afterwards.
CompletedMeansDone == \A j \in Job : told[j] > 0 => Live(j) = {}

\* It is published at most once per job: the server exports the archive each time
\* (SendToSubscriber), and two exports overwrite each other at the client.
CompletedOnce == \A j \in Job : told[j] <= 1

\* While the key exists the counter is never below the number of live tasks, and
\* only the first task of a job can find it missing: no interleaving of the
\* crawlers' HINCRBYs with the sends loses a task.
CounterCoversLive ==
    \A j \in Job :
        /\ j \in keys => counter[j] >= Cardinality(Live(j))
        /\ j \notin keys => Cardinality(Live(j)) <= 1

\* Without failures the counter is exact.
CounterExact == \A j \in Job : j \in keys => counter[j] = Cardinality(Live(j))

\* Without failures no key is left behind once every task of a job is over:
\* a stale job:<id> would make the next job of that name start from its count.
NoStaleKey ==
    \A j \in Job :
        j \in keys => \/ Live(j) # {}
                      \/ \E w \in Worker : cur[w] # NoTask /\ JobOf(w) = j

\* Without failures every submitted job is announced as complete.
EventuallyCompleted == \A j \in Job : Submitted(j) ~> told[j] > 0

-----------------------------------------------------------------------------
(* The abstract specification *)

Phase(j) == IF told[j] > 0 THEN "completed" ELSE IF Submitted(j) THEN "active" ELSE "new"

Abstract == INSTANCE Completion WITH live <- [j \in Job |-> Live(j)],
                                     phase <- [j \in Job |-> Phase(j)]
\* The counter protocol implements Completion.
CompletionSpec == Abstract!Spec
=============================================================================
