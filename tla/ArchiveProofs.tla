---------------------------- MODULE ArchiveProofs ---------------------------
(***************************************************************************)
(* A crawl is complete: when a job is announced, every page within its     *)
(* depth was logged for it, and so its archive has all these pages.        *)
(*                                                                         *)
(* The crawl goes breadth first (QueueInv), and add() takes its course     *)
(* (CourseInv). What is still owed to a job is promised by a task or a     *)
(* sub-job (OweInv); when none is left, it is all in the log.              *)
(***************************************************************************)
EXTENDS Archive, CrawlerProofs, WellFoundedInduction

-----------------------------------------------------------------------------
(* The hypotheses *)

\* There is one crawler. The broker is a queue, no page has a crawl delay, nothing
\* fails inside add(), and no task is lost. A repeated request is made after the
\* first one was announced.
Undisturbed ==
    /\ \A v, w \in Worker : v = w
    /\ Ordered
    /\ Delayed = {}
    /\ CrawlFaults = {}
    /\ Faults \subseteq {"noSubscriber", "decFails", "lateCrash"}
    /\ Compatible
    /\ Separate \/ ~Overlap

LEMMA UndisturbedMeans ==
    ASSUME Undisturbed
    PROVE  /\ Faults \subseteq Count!FaultKinds /\ Faults \cap Count!UnsafeFaults = {}
           /\ Compatible /\ InTurn /\ "insertFails" \notin CrawlFaults
  BY DEF Undisturbed, InTurn, Count!FaultKinds, Count!UnsafeFaults

-----------------------------------------------------------------------------
(* What the counter protocol gives *)

\* A crawler has the task it holds, and those it has counted and not yet sent, for
\* itself.
Possession ==
    /\ \A w \in Worker : pc[w] = "idle" <=> cur[w] = NoTask
    /\ \A w \in Worker : pc[w] # "idle" => cur[w] \in Task /\ place[cur[w]] = "pulled"
    /\ \A w \in Worker : pc[w] # "send" => subs[w] = {}
    /\ \A w \in Worker : \A t \in subs[w] : place[t] = "promised"

LEMMA PossessionHolds ==
    ASSUME Faults \subseteq Count!FaultKinds
    PROVE  Spec => []Possession
<1>1. Proofs!BaseInv => Possession
  BY DEF Proofs!BaseInv, Proofs!TypeOK, Proofs!HoldInv, Proofs!SubsInv, Possession
<1>2. /\ Proofs!IsFiniteSet(Task)
      /\ Owner \in [Task -> Job]
      /\ NoTask \notin Task
      /\ Faults \subseteq Proofs!FaultKinds
  BY CrawlerAssumption DEF Count!FaultKinds, Proofs!FaultKinds, IsFiniteSet, Proofs!IsFiniteSet
<1>3. Init => Proofs!BaseInv
  BY <1>2, SameProtocol, Proofs!BaseInit DEF Init
<1>4. Proofs!BaseInv /\ [Next]_vars => Proofs!BaseInv'
  BY <1>2, SameProtocol, NextOfCount, Proofs!BaseStep
<1>5. QED
  BY <1>1, <1>3, <1>4, PTL DEF Spec

\* A job that was announced was submitted.
AnnouncedInv == \A j \in Job : told[j] > 0 => Count!Submitted(j)

LEMMA SubmittedGrows ==
    ASSUME TypeInv, [Next]_vars, NEW j, Count!Submitted(j)
    PROVE  Count!Submitted(j)'
  BY TaskStays DEF Count!Submitted, Count!TasksOf

LEMMA AnnouncedStep ==
    ASSUME TypeInv, Possession, AnnouncedInv, [Next]_vars
    PROVE  AnnouncedInv'
<1>1. SUFFICES ASSUME NEW j \in Job, told'[j] > 0 PROVE Count!Submitted(j)'
  BY DEF AnnouncedInv
<1>2. [Count!Next]_(Count!vars)
  BY NextOfCount
<1>3. CASE told'[j] = told[j]
  BY <1>1, <1>3, SubmittedGrows DEF AnnouncedInv
<1>4. ASSUME NEW w \in Worker, Count!PublishCompleted(w), told'[j] # told[j] PROVE Count!Submitted(j)'
  <2>1. told \in [Job -> Nat]
    BY DEF TypeInv, Basis, Count!TypeOK
  <2>2. Count!JobOf(w) = j /\ cur[w] \in Task /\ place[cur[w]] = "pulled"
    BY <1>4, <2>1 DEF Count!PublishCompleted, Possession
  <2>3. Count!Submitted(j)
    BY <2>2 DEF Count!Submitted, Count!TasksOf, Count!JobOf
  <2>4. QED
    BY <2>3, SubmittedGrows
<1>5. QED
  BY <1>2, <1>3, <1>4 DEF Count!Next, Count!Step, Count!vars, Count!Submit, Count!PushToBroker,
     Count!Pull, Count!BadJob, Count!InitJobCount, Count!NoSubJobs, Count!IncJobCount,
     Count!SendToBroker, Count!DecJobCount, Count!DeleteCount, Count!Ack, Count!Crash

LEMMA AnnouncedHolds ==
    ASSUME Faults \subseteq Count!FaultKinds
    PROVE  Spec => []AnnouncedInv
<1>1. Init => AnnouncedInv
  BY DEF Init, Count!Init, AnnouncedInv
<1>2. QED
  BY <1>1, AnnouncedStep, TypeInvHolds, PossessionHolds, PTL DEF Spec

-----------------------------------------------------------------------------
(* The queue *)

\* A task that is on its way or in the broker; that a crawler is in add() with.
Waiting(t) == place[t] \in {"pushing", "promised", "queued"}
Current(t) == \E w \in Worker : cur[w] = t /\ pc[w] \in {"start", "crawl"}

\* A task that can still have sub-jobs.
Active(t) == Waiting(t) \/ Current(t)

\* A step that neither makes a task nor hands one out.
Still ==
    /\ work' = work
    /\ \A t \in Task : (Used(t)' <=> Used(t)) /\ (Waiting(t)' <=> Waiting(t))
    /\ \A t \in Task : place'[t] = "pushing" => place[t] = "pushing"
    /\ \A w \in Worker : pc'[w] \in {"start", "crawl"} => pc[w] \in {"start", "crawl"} /\ cur'[w] = cur[w]
    /\ \A w \in Worker : pc'[w] = "start" => pc[w] = "start"

LEMMA StillActive ==
    ASSUME Still, NEW t \in Task, Active(t)'
    PROVE  Active(t)
  BY DEF Still, Active, Current

LEMMA SamePlaces ==
    ASSUME work' = work, place' = place, cur' = cur, NEW w \in Worker,
           \A v \in Worker \ {w} : pc'[v] = pc[v],
           pc'[w] \in {"start", "crawl"} => pc[w] \in {"start", "crawl"},
           pc'[w] = "start" => pc[w] = "start"
    PROVE  Still
  BY DEF Still, Used, Active, Waiting, Current

LEMMA QueueStep ==
    ASSUME Undisturbed, TypeInv, Possession, [Next]_vars
    PROVE  \/ \E t \in Task : Submit(t)
           \/ \E w \in Worker, t \in Task : Pull(w, t)
           \/ \E w \in Worker : IncJobCount(w)
           \/ Still
<1>0. /\ place \in [Task -> Count!Places] /\ pc \in [Worker -> Count!PCs]
      /\ Faults \subseteq {"noSubscriber", "decFails", "lateCrash"}
  BY DEF TypeInv, Basis, Count!TypeOK, Undisturbed
<1>1. ASSUME NEW t \in Task, PushToBroker(t) PROVE Still
  <2>1. /\ place[t] = "pushing" /\ place' = Count!Move({t}, "queued")
        /\ UNCHANGED <<pc, cur, work>>
    BY <1>0, <1>1 DEF PushToBroker, Count!PushToBroker
  <2>2. \A u \in Task : place'[u] = IF u = t THEN "queued" ELSE place[u]
    BY <2>1 DEF Count!Move
  <2>3. QED
    BY <2>1, <2>2 DEF Still, Used, Active, Waiting, Current
<1>2. ASSUME NEW w \in Worker, Count!NoSubJobs(w) \/ UNCHANGED counting, UNCHANGED work
      PROVE  Still
  BY <1>0, <1>2, SamePlaces DEF Count!NoSubJobs, Count!Goto, counting
<1>3. ASSUME NEW w \in Worker, InitJobCount(w) PROVE Still
  BY <1>0, <1>3, SamePlaces DEF InitJobCount, Count!InitJobCount, Count!Goto
<1>4. ASSUME NEW w \in Worker, AfterCrawl(w) PROVE Still
  <2>1. CASE Count!DecJobCount(w) \/ Count!PublishCompleted(w) \/ Count!DeleteCount(w)
    BY <1>0, <1>4, <2>1, SamePlaces DEF AfterCrawl, Count!DecJobCount, Count!PublishCompleted,
       Count!DeleteCount, Count!Goto
  <2>2. CASE Count!SendToBroker(w)
    <3>1. /\ place' = Count!Move(subs[w], "queued") /\ pc' = [pc EXCEPT ![w] = "dec"]
          /\ cur' = cur /\ work' = work /\ \A t \in subs[w] : place[t] = "promised"
      BY <1>0, <1>4, <2>2 DEF AfterCrawl, Count!SendToBroker, Count!Goto, Possession
    <3>2. \A t \in Task : place'[t] = IF t \in subs[w] THEN "queued" ELSE place[t]
      BY <3>1 DEF Count!Move
    <3>3. \A v \in Worker : pc'[v] = IF v = w THEN "dec" ELSE pc[v]
      BY <1>0, <3>1
    <3>4. QED
      BY <3>1, <3>2, <3>3 DEF Still, Used, Active, Waiting, Current
  <2>3. CASE Count!Ack(w)
    <3>1. /\ place' = Count!Move({cur[w]}, "gone") /\ pc' = [pc EXCEPT ![w] = "idle"]
          /\ cur' = [cur EXCEPT ![w] = NoTask] /\ work' = work /\ place[cur[w]] = "pulled"
      BY <1>4, <2>3 DEF AfterCrawl, Count!Ack, Count!Goto, Possession
    <3>2. \A t \in Task : place'[t] = IF t = cur[w] THEN "gone" ELSE place[t]
      BY <3>1 DEF Count!Move
    <3>3. \A v \in Worker : /\ pc'[v] = IF v = w THEN "idle" ELSE pc[v]
                            /\ v # w => cur'[v] = cur[v]
      BY <1>0, <3>1 DEF TypeInv, Basis, Count!TypeOK
    <3>4. QED
      BY <3>1, <3>2, <3>3 DEF Still, Used, Active, Waiting, Current
  <2>4. QED
    BY <1>4, <2>1, <2>2, <2>3 DEF AfterCrawl
<1>5. ASSUME NEW w \in Worker, Crash(w) PROVE Still
  <2>1. pc[w] \in {"publish", "delete", "ack"} /\ subs[w] = {} /\ place[cur[w]] = "pulled"
    BY <1>0, <1>5 DEF Crash, Count!Crash, Possession
  <2>2. /\ place' = [t \in Task |-> IF t = cur[w] THEN "gone" ELSE place[t]]
        /\ pc' = [pc EXCEPT ![w] = "idle"] /\ cur' = [cur EXCEPT ![w] = NoTask] /\ work' = work
    BY <1>0, <1>5, <2>1 DEF Crash, Count!Crash, Count!Uncounted, Count!Goto
  <2>3. \A t \in Task : place'[t] = IF t = cur[w] THEN "gone" ELSE place[t]
    BY <2>2
  <2>4. \A v \in Worker : /\ pc'[v] = IF v = w THEN "idle" ELSE pc[v]
                          /\ v # w => cur'[v] = cur[v]
    BY <1>0, <2>2 DEF TypeInv, Basis, Count!TypeOK
  <2>5. QED
    BY <2>1, <2>2, <2>3, <2>4 DEF Still, Used, Active, Waiting, Current
<1>6. ASSUME NEW w \in Worker, Step(w), ~IncJobCount(w) PROVE Still
  <2>1. CASE ~AfterCrawl(w) /\ ~BadJob(w) /\ ~InitJobCount(w)
    <3>1. Count!NoSubJobs(w) \/ UNCHANGED counting
      BY <1>6, <2>1 DEF Step, CheckRobot, CrawlReady, CheckIfPresent, CheckJob,
         CheckNewUrl, CheckSeenUrl, LinksOfLog, DepthHandler, Scrape, SelectUrl, InsertTbs,
         Unlock, CheckIfVisited, Raise, Branch, SendOrFinish, Finish, Advance
    <3>2. UNCHANGED work
      BY <1>6, <2>1 DEF Step, CheckRobot, CrawlReady, CheckIfPresent, CheckJob,
         CheckNewUrl, CheckSeenUrl, LinksOfLog, DepthHandler, Scrape, SelectUrl, InsertTbs,
         Unlock, CheckIfVisited, Raise
    <3>3. QED
      BY <1>2, <3>1, <3>2
  <2>2. ~BadJob(w)
    BY <1>0 DEF BadJob, Count!BadJob
  <2>3. QED
    BY <1>3, <1>4, <1>6, <2>1, <2>2 DEF Step
<1>7. ASSUME UNCHANGED <<place, pc, cur, work>> PROVE Still
  BY <1>7 DEF Still, Used, Active, Waiting, Current
<1>8. QED
  BY <1>1, <1>5, <1>6, <1>7 DEF Next, DelayPasses, counting, vars

\* Tasks that are counted and not sent are held by their crawler; while the server
\* pushes a job's first task there is no other.
SentInv == \A t \in Task : place[t] = "promised" => \E w \in Worker : t \in subs[w]
FirstInv ==
    \A t, u \in Task : place[t] = "pushing" /\ Owner[u] = Owner[t] /\ u # t => ~Used(u)

\* The tasks of a job are made in ascending order, and only the first is as deep as
\* the job.
LowerInv ==
    \A t, u \in Task : Owner[t] = Owner[u] /\ t < u /\ Used(u)
                       => Used(t) /\ work[u].depth < Depth[Owner[u]]

\* Breadth first: those that are active differ in depth by one at most, the deeper
\* work first, and the crawler is at the first of them.
BreadthInv ==
    \A t, u \in Task : Owner[t] = Owner[u] /\ t < u /\ Active(t) /\ Active(u)
                       => work[u].depth <= work[t].depth /\ work[t].depth <= work[u].depth + 1
FrontInv ==
    \A w \in Worker : pc[w] \in {"start", "crawl"} =>
        \A t \in Task : Owner[t] = JobOf(w) /\ Active(t) => cur[w] <= t

QueueInv == SentInv /\ FirstInv /\ LowerInv /\ BreadthInv /\ FrontInv

OutInv ==
    \A w \in Worker : step[w] = "count" => \A o \in mem[w].out : o.depth = DepthOf(w) - 1

LEMMA QueueInit == Init => QueueInv
<1> SUFFICES ASSUME Init PROVE QueueInv
  OBVIOUS
<1>1. \A t \in Task : place[t] = "unused"
  BY DEF Init, Count!Init
<1>2. \A w \in Worker : pc[w] = "idle"
  BY DEF Init, Count!Init
<1>3. \A t \in Task : ~Used(t) /\ ~Active(t)
  BY <1>1, <1>2 DEF Used, Active, Waiting, Current
<1>4. QED
  BY <1>1, <1>2, <1>3 DEF QueueInv, SentInv, FirstInv, LowerInv, BreadthInv, FrontInv

LEMMA ActiveIsUsed ==
    ASSUME Possession, NEW t \in Task, Active(t)
    PROVE  Used(t)
  BY DEF Possession, Active, Waiting, Current, Used

LEMMA SentStep ==
    ASSUME TypeInv, Possession, SentInv, [Next]_vars
    PROVE  SentInv'
<1>0. /\ place \in [Task -> Count!Places] /\ subs \in [Worker -> SUBSET Task]
      /\ \A w \in Worker : pc[w] # "send" => subs[w] = {}
  BY DEF TypeInv, Basis, Count!TypeOK, Possession
<1>1. [Count!Next]_(Count!vars)
  BY NextOfCount
<1>2. SUFFICES ASSUME NEW t \in Task, place'[t] = "promised" PROVE \E w \in Worker : t \in subs'[w]
  BY DEF SentInv
<1>3. ASSUME place'[t] = place[t], subs' = subs PROVE \E w \in Worker : t \in subs'[w]
  BY <1>2, <1>3 DEF SentInv
<1>4. ASSUME NEW u \in Task, NEW q \in {"pushing", "queued", "pulled"}, place' = Count!Move({u}, q), subs' = subs
      PROVE  \E w \in Worker : t \in subs'[w]
  BY <1>2, <1>3, <1>4 DEF Count!Move
<1>5. ASSUME NEW w \in Worker, NEW S \in SUBSET Task, Count!IncJobCount(w, S)
      PROVE  \E v \in Worker : t \in subs'[v]
  <2>1. /\ place' = Count!Move(S, "promised") /\ subs' = [subs EXCEPT ![w] = S] /\ pc[w] = "crawl"
    BY <1>5 DEF Count!IncJobCount
  <2>2. CASE t \in S
    BY <1>0, <2>1, <2>2
  <2>3. CASE t \notin S
    <3>1. place[t] = "promised"
      BY <1>2, <2>1, <2>3 DEF Count!Move
    <3>2. PICK v \in Worker : t \in subs[v]
      BY <3>1 DEF SentInv
    <3>3. v # w
      BY <1>0, <2>1, <3>2
    <3>4. QED
      BY <1>0, <2>1, <3>2, <3>3
  <2>4. QED
    BY <2>2, <2>3
<1>6. ASSUME NEW w \in Worker, Count!SendToBroker(w) PROVE \E v \in Worker : t \in subs'[v]
  <2>1. PICK q \in {"queued", "gone"} : place' = Count!Move(subs[w], q)
    BY <1>6 DEF Count!SendToBroker
  <2>2. subs' = [subs EXCEPT ![w] = {}]
    BY <1>6 DEF Count!SendToBroker
  <2>3. t \notin subs[w] /\ place[t] = "promised"
    BY <1>2, <2>1 DEF Count!Move
  <2>4. QED
    BY <1>0, <2>2, <2>3 DEF SentInv
<1>7. ASSUME NEW w \in Worker, Count!Crash(w) PROVE \E v \in Worker : t \in subs'[v]
  <2>1. PICK q \in {"queued", "gone"} :
          place' = [u \in Task |-> IF u = cur[w] THEN q
                                   ELSE IF u \in subs[w] THEN "gone" ELSE place[u]]
    BY <1>7 DEF Count!Crash
  <2>2. subs' = [subs EXCEPT ![w] = {}]
    BY <1>7 DEF Count!Crash
  <2>3. t \notin subs[w] /\ place[t] = "promised"
    BY <1>2, <2>1
  <2>4. QED
    BY <1>0, <2>2, <2>3 DEF SentInv
<1>8. ASSUME NEW w \in Worker, Count!Ack(w) PROVE \E v \in Worker : t \in subs'[v]
  BY <1>2, <1>3, <1>8 DEF Count!Ack, Count!Move
<1>9. ASSUME NEW w \in Worker,
             \/ Count!BadJob(w) \/ Count!InitJobCount(w) \/ Count!NoSubJobs(w) \/ Count!DecJobCount(w)
             \/ Count!PublishCompleted(w) \/ Count!DeleteCount(w)
      PROVE  \E v \in Worker : t \in subs'[v]
  BY <1>3, <1>9 DEF Count!BadJob, Count!InitJobCount, Count!NoSubJobs, Count!DecJobCount,
     Count!PublishCompleted, Count!DeleteCount
<1>10. ASSUME NEW u \in Task, Count!Submit(u) \/ Count!PushToBroker(u) PROVE \E v \in Worker : t \in subs'[v]
  BY <1>2, <1>3, <1>10 DEF Count!Submit, Count!PushToBroker, Count!Move
<1>11. ASSUME NEW w \in Worker, NEW u \in Task, Count!Pull(w, u) PROVE \E v \in Worker : t \in subs'[v]
  BY <1>4, <1>11 DEF Count!Pull
<1>12. QED
  BY <1>1, <1>3, <1>5, <1>6, <1>7, <1>8, <1>9, <1>10, <1>11 DEF Count!Next, Count!Step, Count!vars

\* Sub-jobs get the first unused tasks of the job, in any order.
LEMMA SubJobsInOrder ==
    ASSUME Ordered, TypeInv, NEW w \in Worker, IncJobCount(w)
    PROVE  \E S, carried :
              /\ S \subseteq Task /\ carried \in [S -> mem[w].out]
              /\ \A t \in S : Owner[t] = JobOf(w) /\ ~Used(t)
              /\ \A t \in S, u \in Task : Owner[u] = JobOf(w) /\ ~Used(u) /\ u < t => u \in S
              /\ \A o \in mem[w].out : \E t \in S : carried[t] = o
              /\ work' = [t \in Task |-> IF t \in S THEN carried[t] ELSE work[t]]
              /\ place' = [t \in Task |-> IF t \in S THEN "promised" ELSE place[t]]
              /\ pc' = [pc EXCEPT ![w] = "send"] /\ cur' = cur
<1> DEFINE out == mem[w].out
           n == Cardinality(out)
           S == Fresh(JobOf(w), n)
<1>1. S \in SUBSET Task /\ \A t \in S : Owner[t] = JobOf(w) /\ ~Used(t)
  BY DEF Fresh, Unused, Count!TasksOf, Used
<1>2. PICK carried \in Bijection(S, out) :
        work' = [t \in Task |-> IF t \in S THEN carried[t] ELSE work[t]]
  BY DEF IncJobCount
<1>3. place' = [t \in Task |-> IF t \in S THEN "promised" ELSE place[t]]
      /\ pc' = [pc EXCEPT ![w] = "send"] /\ cur' = cur
  BY DEF IncJobCount, Count!IncJobCount, Count!Move, Count!Goto
<1>4. ASSUME NEW t \in S, NEW u \in Task, Owner[u] = JobOf(w), ~Used(u), u < t PROVE u \in S
  <2> DEFINE T == {v \in Unused(JobOf(w)) : v < t}
             U == {v \in Unused(JobOf(w)) : v < u}
  <2>1. u \in Unused(JobOf(w)) /\ Unused(JobOf(w)) \subseteq Task /\ Task \subseteq Nat
    BY <1>4, CrawlerAssumption DEF Unused, Count!TasksOf, Used
  <2>2. Cardinality(T) < n /\ t \in Task
    BY <1>1 DEF Fresh
  <2>3. IsFiniteSet(T) /\ IsFiniteSet(out)
    BY <2>1, CrawlerAssumption, FS_Subset DEF TypeInv, LocalsTyped, Bounded
  <2>4. U \subseteq T
    BY <1>4, <2>1, <2>2
  <2>5. Cardinality(U) <= Cardinality(T) /\ Cardinality(U) \in Nat /\ Cardinality(T) \in Nat
    BY <2>3, <2>4, FS_Subset, FS_CardinalityType
  <2>6. n \in Nat
    BY <2>3, FS_CardinalityType
  <2>7. Cardinality(U) < n
    BY <2>2, <2>5, <2>6
  <2>8. QED
    BY <2>1, <2>7 DEF Fresh
<1> HIDE DEF S, out, n
<1>5. carried \in [S -> out] /\ \A o \in out : \E t \in S : carried[t] = o
  BY <1>2 DEF Bijection, Injection, Surjection
<1>6. QED
  BY <1>1, <1>2, <1>3, <1>4, <1>5 DEF out

LEMMA FirstStep ==
    ASSUME Undisturbed, TypeInv, Possession, FirstInv, [Next]_vars
    PROVE  FirstInv'
<1>1. SUFFICES ASSUME NEW t \in Task, NEW u \in Task, place'[t] = "pushing",
                      Owner[u] = Owner[t], u # t
               PROVE  ~Used(u)'
  BY DEF FirstInv, Used
<1>2. ASSUME NEW v \in Task, Submit(v) PROVE ~Used(u)'
  <2>1. /\ place' = Count!Move({v}, "pushing")
        /\ \A x \in Task : Owner[x] = Owner[v] => place[x] = "unused"
    BY <1>2 DEF Submit, Count!Submit, Count!TasksOf
  <2>2. \A x \in Task : place'[x] = IF x = v THEN "pushing" ELSE place[x]
    BY <2>1 DEF Count!Move
  <2>3. CASE v = t
    BY <1>1, <2>1, <2>2, <2>3 DEF Used
  <2>4. CASE v # t
    <3>1. place[t] = "pushing" /\ ~Used(u)
      BY <1>1, <2>2, <2>4 DEF FirstInv
    <3>2. u # v
      BY <1>1, <2>1, <3>1
    <3>3. QED
      BY <2>2, <3>1, <3>2 DEF Used
  <2>5. QED
    BY <2>3, <2>4
<1>3. ASSUME NEW w \in Worker, NEW v \in Task, Pull(w, v) PROVE ~Used(u)'
  <2>1. place[v] = "queued" /\ place' = Count!Move({v}, "pulled")
    BY <1>3 DEF Pull, Count!Pull
  <2>2. \A x \in Task : place'[x] = IF x = v THEN "pulled" ELSE place[x]
    BY <2>1 DEF Count!Move
  <2>3. QED
    BY <1>1, <2>1, <2>2 DEF FirstInv, Used
<1>4. ASSUME NEW w \in Worker, IncJobCount(w) PROVE ~Used(u)'
  <2>1. PICK S :
          /\ \A x \in S : Owner[x] = JobOf(w)
          /\ place' = [x \in Task |-> IF x \in S THEN "promised" ELSE place[x]]
    BY <1>4, SubJobsInOrder DEF Undisturbed
  <2>2. place[t] = "pushing" /\ ~Used(u)
    BY <1>1, <2>1 DEF FirstInv
  <2>3. cur[w] \in Task /\ place[cur[w]] = "pulled"
    BY <1>4 DEF IncJobCount, At, Possession
  <2>4. JobOf(w) # Owner[t]
    BY <2>2, <2>3 DEF FirstInv, JobOf, Used
  <2>5. QED
    BY <1>1, <2>1, <2>2, <2>4 DEF Used
<1>5. CASE Still
  BY <1>1, <1>5 DEF Still, FirstInv
<1>6. QED
  BY <1>2, <1>3, <1>4, <1>5, QueueStep

LEMMA LowerStep ==
    ASSUME Undisturbed, TypeInv, Possession, DepthInv, OutInv, LowerInv, [Next]_vars
    PROVE  LowerInv'
<1>1. SUFFICES ASSUME NEW t \in Task, NEW u \in Task, Owner[t] = Owner[u], t < u, Used(u)'
               PROVE  Used(t)' /\ work'[u].depth < Depth[Owner[u]]
  BY DEF LowerInv, Used
<1>2. ASSUME Used(u) PROVE Used(t)' /\ work'[u].depth < Depth[Owner[u]]
  <2>1. Used(t) /\ work[u].depth < Depth[Owner[u]]
    BY <1>1, <1>2 DEF LowerInv
  <2>2. QED
    BY <1>2, <2>1, TaskStays DEF Used
<1>3. ASSUME NEW v \in Task, Submit(v), ~Used(u) PROVE FALSE
  <2>1. u = v
    BY <1>1, <1>3 DEF Submit, Count!Submit, Count!Move, Used
  <2>2. v <= t
    BY <1>1, <1>3, <2>1 DEF Submit, Count!TasksOf
  <2>3. QED
    BY <1>1, <2>1, <2>2, CrawlerAssumption
<1>4. ASSUME NEW w \in Worker, NEW v \in Task, Pull(w, v), ~Used(u) PROVE FALSE
  BY <1>1, <1>4 DEF Pull, Count!Pull, Count!Move, Used
<1>5. ASSUME NEW w \in Worker, IncJobCount(w), ~Used(u)
      PROVE  Used(t)' /\ work'[u].depth < Depth[Owner[u]]
  <2>1. PICK S, carried :
          /\ S \subseteq Task /\ carried \in [S -> mem[w].out]
          /\ \A x \in S : Owner[x] = JobOf(w) /\ ~Used(x)
          /\ \A x \in S, y \in Task : Owner[y] = JobOf(w) /\ ~Used(y) /\ y < x => y \in S
          /\ \A o \in mem[w].out : \E x \in S : carried[x] = o
          /\ work' = [x \in Task |-> IF x \in S THEN carried[x] ELSE work[x]]
          /\ place' = [x \in Task |-> IF x \in S THEN "promised" ELSE place[x]]
          /\ pc' = [pc EXCEPT ![w] = "send"] /\ cur' = cur
    <3>1. Ordered
      BY DEF Undisturbed
    <3>2. QED
      BY <1>5, <3>1, SubJobsInOrder
  <2>2. u \in S /\ Owner[u] = JobOf(w)
    BY <1>1, <1>5, <2>1 DEF Used
  <2>3. Used(t)'
    BY <1>1, <2>1, <2>2 DEF Used
  <2>4. work'[u] \in mem[w].out /\ step[w] = "count"
    BY <1>5, <2>1, <2>2 DEF IncJobCount, At
  <2>5. work'[u].depth = DepthOf(w) - 1
    BY <2>4 DEF OutInv
  <2>6. DepthOf(w) \in 1..Depth[JobOf(w)] /\ Depth[JobOf(w)] \in Nat
    BY <2>4, CrawlAtHop, RootTyped DEF DepthInv, AtHop, DepthOf
  <2>7. QED
    BY <2>2, <2>3, <2>5, <2>6
<1>6. CASE Still
  BY <1>1, <1>2, <1>6 DEF Still
<1>7. QED
  BY <1>2, <1>3, <1>4, <1>5, <1>6, QueueStep

\* The tasks that are made belong to the job of the crawler that makes them, and come
\* after all that were made before.
LEMMA ActiveStep ==
    ASSUME Undisturbed, TypeInv, Possession, LowerInv, OutInv,
           NEW w \in Worker, IncJobCount(w),
           NEW t \in Task, Active(t)'
    PROVE  \/ Active(t) /\ Used(t) /\ t # cur[w] /\ work'[t] = work[t]
           \/ /\ Owner[t] = JobOf(w) /\ ~Used(t)
              /\ work'[t].depth = DepthOf(w) - 1 /\ work'[t] \in mem[w].out
              /\ \A u \in Task : Owner[u] = JobOf(w) /\ Used(u) => u < t
<1>0. Ordered /\ \A v \in Worker : v = w
  BY DEF Undisturbed
<1>1. PICK S, carried :
          /\ S \subseteq Task /\ carried \in [S -> mem[w].out]
          /\ \A x \in S : Owner[x] = JobOf(w) /\ ~Used(x)
          /\ \A x \in S, y \in Task : Owner[y] = JobOf(w) /\ ~Used(y) /\ y < x => y \in S
          /\ work' = [x \in Task |-> IF x \in S THEN carried[x] ELSE work[x]]
          /\ place' = [x \in Task |-> IF x \in S THEN "promised" ELSE place[x]]
          /\ pc' = [pc EXCEPT ![w] = "send"] /\ cur' = cur
  BY <1>0, SubJobsInOrder
<1>2. step[w] = "count" /\ pc[w] = "crawl" /\ cur[w] \in Task /\ place[cur[w]] = "pulled"
  BY DEF IncJobCount, At, Possession
<1>3. CASE t \in S
  <2>1. work'[t] \in mem[w].out
    BY <1>1, <1>3
  <2>2. work'[t].depth = DepthOf(w) - 1
    BY <1>2, <2>1 DEF OutInv
  <2>3. ASSUME NEW u \in Task, Owner[u] = JobOf(w), Used(u) PROVE u < t
    <3>1. u # t /\ ~(t < u)
      BY <1>1, <1>3, <2>3 DEF LowerInv
    <3>2. QED
      BY <3>1, CrawlerAssumption
  <2>4. QED
    BY <1>1, <1>3, <2>1, <2>2, <2>3
<1>4. CASE t \notin S
  <2>1. place'[t] = place[t] /\ work'[t] = work[t]
    BY <1>1, <1>4
  <2>2. \A v \in Worker : pc'[v] = "send"
    BY <1>0, <1>1 DEF TypeInv, Basis, Count!TypeOK
  <2>3. place[t] \in {"pushing", "promised", "queued"}
    BY <2>1, <2>2 DEF Active, Waiting, Current
  <2>4. QED
    BY <1>2, <2>1, <2>3 DEF Active, Waiting, Used
<1>5. QED
  BY <1>3, <1>4

LEMMA BreadthStep ==
    ASSUME Undisturbed, TypeInv, Possession, DepthInv, OutInv, QueueInv, [Next]_vars
    PROVE  BreadthInv'
<1>0. LowerInv /\ BreadthInv /\ FrontInv
  BY DEF QueueInv
<1>1. SUFFICES ASSUME NEW t \in Task, NEW u \in Task, Owner[t] = Owner[u], t < u, Active(t)', Active(u)'
               PROVE  work'[u].depth <= work'[t].depth /\ work'[t].depth <= work'[u].depth + 1
  BY DEF BreadthInv, Active, Waiting, Current
<1>2. ASSUME Active(t), Active(u), work'[t] = work[t], work'[u] = work[u]
      PROVE  work'[u].depth <= work'[t].depth /\ work'[t].depth <= work'[u].depth + 1
  BY <1>0, <1>1, <1>2 DEF BreadthInv
<1>3. ASSUME NEW v \in Task, Submit(v)
      PROVE  work'[u].depth <= work'[t].depth /\ work'[t].depth <= work'[u].depth + 1
  <2>1. /\ place' = Count!Move({v}, "pushing") /\ work' = work /\ pc' = pc /\ cur' = cur
        /\ \A x \in Task : Owner[x] = Owner[v] => place[x] = "unused"
    BY <1>3 DEF Submit, Count!Submit, Count!TasksOf
  <2>2. \A x \in Task : x # v /\ Active(x)' => Active(x)
    BY <2>1 DEF Count!Move, Active, Waiting, Current
  <2>3. \A x \in Task : Owner[x] = Owner[v] => ~Active(x)
    BY <2>1, ActiveIsUsed DEF Used
  <2>4. t # v /\ u # v
    BY <1>1, <2>2, <2>3, CrawlerAssumption
  <2>5. QED
    BY <1>1, <1>2, <2>1, <2>2, <2>4
<1>4. ASSUME NEW w \in Worker, NEW v \in Task, Pull(w, v)
      PROVE  work'[u].depth <= work'[t].depth /\ work'[t].depth <= work'[u].depth + 1
  <2>1. /\ place[v] = "queued" /\ place' = Count!Move({v}, "pulled") /\ work' = work
        /\ pc[w] = "idle" /\ pc' = [pc EXCEPT ![w] = "start"] /\ cur' = [cur EXCEPT ![w] = v]
    BY <1>4 DEF Pull, Count!Pull, Count!Goto
  <2>2. \A x \in Worker : x = w /\ cur'[w] = v
    BY <2>1 DEF Undisturbed, TypeInv, Basis, Count!TypeOK
  <2>3. \A x \in Task : Active(x)' => Active(x)
    BY <2>1, <2>2 DEF Count!Move, Active, Waiting, Current
  <2>4. QED
    BY <1>1, <1>2, <2>1, <2>3
<1>5. ASSUME NEW w \in Worker, IncJobCount(w)
      PROVE  work'[u].depth <= work'[t].depth /\ work'[t].depth <= work'[u].depth + 1
  <2> DEFINE d == DepthOf(w)
             New(x) == Owner[x] = JobOf(w) /\ ~Used(x) /\ work'[x].depth = d - 1
  <2>1. /\ \A x \in {t, u} : (Active(x) /\ Used(x) /\ x # cur[w] /\ work'[x] = work[x]) \/ New(x)
        /\ New(t) => ~Used(u)
    <3>1. \A x \in {t, u} : \/ Active(x) /\ Used(x) /\ x # cur[w] /\ work'[x] = work[x]
                            \/ New(x) /\ \A y \in Task : Owner[y] = JobOf(w) /\ Used(y) => y < x
      BY <1>0, <1>1, <1>5, ActiveStep
    <3>2. New(t) /\ Used(u) => u < t
      BY <1>1, <3>1
    <3>3. ~(u < t)
      BY <1>1, CrawlerAssumption
    <3>4. QED
      BY <3>1, <3>2, <3>3
  <2>2. step[w] # "none" /\ pc[w] = "crawl" /\ d \in Nat /\ work \in [Task -> Work] /\ cur[w] \in Task
    BY <1>5, CrawlTyped DEF IncJobCount, At, TypeInv, TablesTyped
  <2>3. CASE Active(t) /\ work'[t] = work[t] /\ Active(u) /\ work'[u] = work[u]
    BY <1>2, <2>3
  <2>4. CASE New(t) /\ New(u)
    BY <2>2, <2>4
  <2>5. CASE Active(t) /\ t # cur[w] /\ work'[t] = work[t] /\ New(u)
    <3>1. Owner[cur[w]] = Owner[t] /\ Active(cur[w])
      BY <1>1, <2>2, <2>5 DEF JobOf, Active, Current
    <3>2. cur[w] < t
      <4>1. cur[w] <= t
        BY <1>0, <2>2, <2>5, <3>1 DEF FrontInv, JobOf
      <4>2. QED
        BY <2>2, <2>5, <4>1, CrawlerAssumption
    <3>3. work[t].depth <= d /\ d <= work[t].depth + 1 /\ work[t].depth \in Nat
      BY <1>0, <2>2, <2>5, <3>1, <3>2 DEF BreadthInv, DepthOf, Work
    <3>4. work'[t].depth = work[t].depth /\ work'[u].depth = d - 1
      BY <2>5
    <3>5. QED
      BY <2>2, <3>3, <3>4
  <2>6. QED
    BY <2>1, <2>3, <2>4, <2>5
<1>6. CASE Still
  BY <1>1, <1>2, <1>6, StillActive DEF Still
<1>7. QED
  BY <1>3, <1>4, <1>5, <1>6, QueueStep

LEMMA FrontStep ==
    ASSUME Undisturbed, TypeInv, Possession, QueueInv, [Next]_vars
    PROVE  FrontInv'
<1>0. SentInv /\ FirstInv /\ FrontInv
  BY DEF QueueInv
<1>1. SUFFICES ASSUME NEW w \in Worker, pc'[w] \in {"start", "crawl"},
                      NEW t \in Task, Owner[t] = JobOf(w)', Active(t)'
               PROVE  cur'[w] <= t
  BY DEF FrontInv, JobOf, Active, Waiting, Current
<1>2. ASSUME NEW v \in Task, Submit(v) PROVE cur'[w] <= t
  <2>1. /\ place' = Count!Move({v}, "pushing") /\ pc' = pc /\ cur' = cur
        /\ \A x \in Task : Owner[x] = Owner[v] => place[x] = "unused"
    BY <1>2 DEF Submit, Count!Submit, Count!TasksOf
  <2>2. cur[w] \in Task /\ place[cur[w]] = "pulled" /\ JobOf(w)' = JobOf(w)
    BY <1>1, <2>1 DEF Possession, JobOf
  <2>3. Owner[v] # JobOf(w)
    BY <2>1, <2>2 DEF JobOf
  <2>4. Active(t)
    BY <1>1, <2>1, <2>2, <2>3 DEF Count!Move, Active, Waiting, Current
  <2>5. QED
    BY <1>0, <1>1, <2>1, <2>2, <2>4 DEF FrontInv
<1>3. ASSUME NEW x \in Worker, NEW v \in Task, Pull(x, v) PROVE cur'[w] <= t
  <2>1. /\ place[v] = "queued" /\ place' = Count!Move({v}, "pulled")
        /\ pc[w] = "idle" /\ cur' = [cur EXCEPT ![w] = v] /\ x = w
        /\ \A y \in Task : Owner[y] = Owner[v] /\ place[y] = "queued" => v <= y
    BY <1>3 DEF Undisturbed, Pull, Count!Pull, Count!TasksOf
  <2>2. cur'[w] = v /\ Owner[t] = Owner[v]
    BY <1>1, <2>1 DEF TypeInv, Basis, Count!TypeOK, JobOf
  <2>3. CASE t = v
    BY <2>2, <2>3, CrawlerAssumption
  <2>4. CASE t # v
    <3>1. place'[t] = place[t]
      BY <2>1, <2>4 DEF Count!Move
    <3>2. \A y \in Worker : y = w
      BY DEF Undisturbed
    <3>3. ~Current(t)'
      BY <2>2, <2>4, <3>2 DEF Current
    <3>4. place[t] \in {"pushing", "promised", "queued"}
      BY <1>1, <3>1, <3>3 DEF Active, Waiting
    <3>5. place[t] # "promised"
      BY <1>0, <2>1, <3>2 DEF SentInv, Possession
    <3>6. place[t] # "pushing"
      BY <1>0, <2>1, <2>2, <2>4 DEF FirstInv, Used
    <3>7. QED
      BY <2>1, <2>2, <3>4, <3>5, <3>6
  <2>5. QED
    BY <2>3, <2>4
<1>4. ASSUME NEW x \in Worker, IncJobCount(x) PROVE FALSE
  BY <1>1, <1>4 DEF Undisturbed, IncJobCount, Count!IncJobCount, Count!Goto, TypeInv, Basis, Count!TypeOK
<1>5. CASE Still
  BY <1>0, <1>1, <1>5, StillActive DEF Still, FrontInv, JobOf
<1>6. QED
  BY <1>2, <1>3, <1>4, <1>5, QueueStep

-----------------------------------------------------------------------------
(* What was shown before, under these hypotheses *)

Ground ==
    /\ TypeInv /\ Possession /\ DepthInv /\ OneAtATime
    /\ LockMeansScraping /\ AnnouncedInv /\ Count!CompletedMeansDone

LEMMA GroundHolds ==
    ASSUME Undisturbed
    PROVE  Spec => []Ground
<1>1. /\ Faults \subseteq Count!FaultKinds /\ Faults \cap Count!UnsafeFaults = {}
      /\ Compatible /\ InTurn /\ "insertFails" \notin CrawlFaults
      /\ "raises" \notin CrawlFaults /\ "crash" \notin Faults
  BY UndisturbedMeans DEF Undisturbed
<1>2. Spec => []TypeInv /\ []Possession /\ []DepthInv /\ []OneAtATime
  BY <1>1, TypeInvHolds, PossessionHolds, DepthInvHolds, OneAtATimeHolds
<1>3. Spec => []LockMeansScraping /\ []AnnouncedInv /\ []Count!CompletedMeansDone
  BY <1>1, LocksAreGivenBack, AnnouncedHolds, CrawlCompletionIsSafe
<1>4. Ground <=> /\ TypeInv /\ Possession /\ DepthInv /\ OneAtATime
                 /\ LockMeansScraping /\ AnnouncedInv /\ Count!CompletedMeansDone
  BY DEF Ground
<1>5. QED
  BY <1>2, <1>3, <1>4, PTL

-----------------------------------------------------------------------------
(* The course of add() *)

\* The page of a task was logged; it is still to be logged.
Past(t) == \E w \in Worker : cur[w] = t /\ step[w] \in {"unlock", "visited", "count"}
ToDo(t) == Active(t) /\ ~Past(t)

\* What a crawler knows is so: nobody else writes.
Known(w) ==
    /\ step[w] \notin {"frontier", "depth"}
    /\ step[w] \in {"job", "url"} => ~mem[w].inRedis
    /\ step[w] \in {"url", "scrape", "select", "insert"} =>
          (mem[w].jobInDb <=> JobRows(JobOf(w)) # {})
    /\ step[w] = "insert" => (mem[w].urlRow <=> UrlOf(w) \in urls)
    /\ step[w] \in {"select", "insert", "unlock", "visited"} => mem[w].found = Web[UrlOf(w)]

KnownInv == \A w \in Worker : Known(w)

\* No page is to be waited for.
ReadyInv == \A p \in Page : robot[p] # "ahead"

\* A known page is logged, a job with a log has a row, and a job with a row was
\* submitted and its root is known.
RowInv ==
    /\ \A p \in urls : \E r \in log : r.url = p
    /\ \A r \in log : JobRows(r.job) # {}
    /\ \A r \in jobs : Count!Submitted(r.job) /\ r.url \in urls

\* A job has no row while its first task is still to be done: the task will not be
\* taken for a duplicate.
NewInv ==
    \A t \in Task : ToDo(t) /\ work[t].depth = Depth[Owner[t]] => JobRows(Owner[t]) = {}

\* A job that has a row and is not done is alone.
LoneInv == \A t \in Task : Active(t) /\ JobRows(Owner[t]) # {} => Alone(Owner[t])

CourseInv == KnownInv /\ ReadyInv /\ RowInv /\ NewInv /\ LoneInv /\ OutInv /\ QueueInv

LEMMA CourseInit == Init => CourseInv
<1> SUFFICES ASSUME Init PROVE CourseInv
  OBVIOUS
<1>1. /\ \A w \in Worker : step[w] = "none"
      /\ urls = {} /\ log = {} /\ jobs = {} /\ \A p \in Page : robot[p] = "none"
  BY DEF Init
<1>2. KnownInv /\ OutInv /\ ReadyInv /\ RowInv
  BY <1>1 DEF KnownInv, Known, OutInv, ReadyInv, RowInv
<1>3. NewInv /\ LoneInv
  BY <1>1 DEF NewInv, LoneInv, JobRows
<1>4. QED
  BY <1>2, <1>3, QueueInit DEF CourseInv

\* Crawler w goes from s to t, and the tables stay.
Goes(w, s, t, m) == step[w] = s /\ Moves(w, t, m) /\ UNCHANGED db

\* The steps of a crawler that changes no table.
Walk(w) ==
    \/ Goes(w, "none", "robots", mem[w]) /\ pc[w] = "start"
    \/ Goes(w, "robots", "ready", mem[w])
    \/ Goes(w, "ready", "present", mem[w])
    \/ Goes(w, "present", "job", [mem[w] EXCEPT !.inRedis = FALSE])
    \/ Goes(w, "job", "url", [mem[w] EXCEPT !.jobInDb = JobRows(JobOf(w)) # {}])
    \/ Goes(w, "url", "scrape", mem[w])
    \/ Goes(w, "scrape", "select", [mem[w] EXCEPT !.found = Web[UrlOf(w)]])
    \/ Goes(w, "select", "insert", [mem[w] EXCEPT !.urlRow = UrlOf(w) \in urls])
    \/ Goes(w, "unlock", "visited", mem[w])

\* It is done with a page that has nothing to go on with.
Ends(w) ==
    \/ Goes(w, "unlock", "none", Blank) /\ DepthOf(w) <= 1
    \/ Goes(w, "visited", "none", Blank) /\ Unvisited(Web[UrlOf(w)]) = {}

\* It has found sub-jobs.
Finds(w) ==
    LET out == SubJobs(Unvisited(Web[UrlOf(w)]), DepthOf(w) - 1)
    IN  Goes(w, "visited", "count", [Blank EXCEPT !.out = out])

\* It finds the whole job done before, and copies it.
CopiesJob(w) ==
    step[w] = "url" /\ Copies(w) /\ JobRows(JobOf(w)) = {} /\ Moves(w, "none", Blank)

Logs(w) == Inserts(w) /\ Moves(w, "unlock", mem[w])

Course(w) ==
    Walk(w) \/ Ends(w) \/ Finds(w) \/ CopiesJob(w) \/ Logs(w) \/ IncJobCount(w)

LEMMA CourseBasis ==
    ASSUME Undisturbed, Ground, CourseInv, NEW w \in Worker
    PROVE  /\ TypeInv /\ DepthInv /\ KnownInv
           /\ pc[w] = "crawl" => step[w] # "none" /\ mem[w] \in Locals
           /\ pc[w] = "crawl" /\ JobRows(JobOf(w)) # {} => Alone(JobOf(w))
           /\ CrawlFaults = {} /\ "badJob" \notin Faults
<1>1. pc[w] = "crawl" => step[w] # "none" /\ mem[w] \in Locals
  BY DEF Ground, TypeInv, LocalsTyped
<1>2. ASSUME pc[w] = "crawl", JobRows(JobOf(w)) # {} PROVE Alone(JobOf(w))
  <2>1. cur[w] \in Task /\ Active(cur[w])
    BY <1>1, <1>2, CrawlTyped DEF Ground, Active, Current
  <2>2. QED
    BY <1>2, <2>1 DEF CourseInv, LoneInv, JobOf
<1>3. QED
  BY <1>1, <1>2 DEF Ground, CourseInv, Undisturbed

LEMMA EarlyCourse ==
    ASSUME Undisturbed, Ground, CourseInv, [Next]_vars, NEW w \in Worker,
           InitJobCount(w) \/ CheckRobot(w) \/ CrawlReady(w) \/ CheckIfPresent(w) \/ CheckJob(w)
    PROVE  Walk(w)
<1>0. TypeInv /\ DepthInv /\ KnownInv /\ (pc[w] = "crawl" => step[w] # "none" /\ mem[w] \in Locals)
  BY CourseBasis
<1> USE DEF At, Walk, Goes
<1>1. CASE InitJobCount(w)
  BY <1>0, <1>1, InitMoves DEF InitJobCount, Count!InitJobCount
<1>2. CASE CheckRobot(w)
  BY <1>0, <1>2, AdvanceKeepsMem DEF CheckRobot, Steps
<1>3. CASE CrawlReady(w)
  <2>1. UrlOf(w) \in Page
    BY <1>0, <1>3, CrawlTyped DEF CrawlReady
  <2>2. robot[UrlOf(w)] # "ahead"
    BY <2>1 DEF CourseInv, ReadyInv
  <2>3. QED
    BY <1>0, <1>3, <2>2, AdvanceKeepsMem DEF CrawlReady, Steps
<1>4. CASE CheckIfPresent(w)
  <2>1. step[w] = "present"
    BY <1>4 DEF CheckIfPresent
  <2>2. \A v \in Worker : v = w
    BY DEF Undisturbed
  <2>3. UrlOf(w) \notin locks
    BY <2>1, <2>2 DEF Ground, LockMeansScraping
  <2>4. (UrlOf(w) \in locks) = FALSE
    BY <2>3
  <2>5. Moves(w, "job", [mem[w] EXCEPT !.inRedis = UrlOf(w) \in locks])
    BY <1>0, <1>4, PresentMoves
  <2>6. QED
    BY <1>4, <2>4, <2>5 DEF CheckIfPresent
<1>5. CASE CheckJob(w)
  <2>1. step[w] = "job" /\ pc[w] = "crawl" /\ cur[w] \in Task /\ JobOf(w) = Owner[cur[w]]
    BY <1>0, <1>5, CrawlTyped DEF CheckJob, JobOf
  <2>2. ASSUME NEW r \in JobRows(JobOf(w)) PROVE r.depth # DepthOf(w)
    <3>1. r.depth = Depth[JobOf(w)]
      BY <1>0 DEF JobRows, DepthInv, JobRowIsRequest
    <3>2. ToDo(cur[w])
      BY <2>1 DEF Undisturbed, ToDo, Active, Current, Past
    <3>3. work[cur[w]].depth # Depth[Owner[cur[w]]]
      BY <2>1, <2>2, <3>2 DEF CourseInv, NewInv
    <3>4. QED
      BY <2>1, <3>1, <3>3 DEF DepthOf
  <2> DEFINE m == [mem[w] EXCEPT !.jobInDb = JobRows(JobOf(w)) # {}]
  <2>3. Set(w, m) /\ Advance(w, "url") /\ UNCHANGED db
    BY <1>5, <2>2 DEF CheckJob
  <2>4. m \in Locals
    BY <1>0, <2>1 DEF Locals
  <2>5. Moves(w, "url", m)
    BY <1>0, <2>1, <2>3, <2>4, AdvanceMoves DEF Steps, Set
  <2>6. QED
    BY <2>1, <2>3, <2>5
<1>6. QED
  BY <1>1, <1>2, <1>3, <1>4, <1>5

\* A known page of a job without a row is the root of a job that has one.
LEMMA UrlCourse ==
    ASSUME Undisturbed, Ground, CourseInv, [Next]_vars, NEW w \in Worker,
           CheckNewUrl(w) \/ CheckSeenUrl(w)
    PROVE  Walk(w) \/ CopiesJob(w)
<1> DEFINE j == JobOf(w)
<1>1. /\ TypeInv /\ DepthInv /\ step[w] = "url" /\ pc[w] = "crawl" /\ mem[w] \in Locals
      /\ JobRows(j) # {} => Alone(j)
  BY CourseBasis DEF CheckNewUrl, CheckSeenUrl, At
<1>2. ~mem[w].inRedis /\ (mem[w].jobInDb <=> JobRows(j) # {})
  BY <1>1 DEF CourseInv, KnownInv, Known
<1>3. Compatible
  BY DEF Undisturbed
<1>4. CASE CheckNewUrl(w)
  <2>1. CASE (mem[w].jobInDb \/ UrlOf(w) \notin urls) /\ Advance(w, "scrape") /\ UNCHANGED mem
    <3>1. Moves(w, "scrape", mem[w])
      BY <1>1, <2>1, AdvanceKeepsMem DEF Steps
    <3>2. UNCHANGED db
      BY <1>4 DEF CheckNewUrl
    <3>3. QED
      BY <1>1, <3>1, <3>2 DEF Walk, Goes
  <2>2. CASE ~mem[w].jobInDb /\ UrlOf(w) \in urls
    <3>1. j \in Job /\ UrlOf(w) = RootOf(j)
      BY <1>1, <1>2, <2>2, CrawlTyped, InsertedIsRequest DEF DepthInv
    <3>2. PICK r \in log : r.url = UrlOf(w)
      BY <2>2 DEF CourseInv, RowInv
    <3>3. r.job \in Job /\ r.depth \in 0..(Depth[r.job] - 1) /\ r.url \in Hops(RootOf(r.job), r.depth)
      BY <1>1 DEF DepthInv, LoggedAtHop, TypeInv, TablesTyped, LogRow
    <3>4. SameRequest(r.job, j)
      <4>1. r.url \in Site(r.job) /\ RootOf(j) \in Site(j)
        BY <3>1, <3>3, HopInSite, RootInSite
      <4>2. QED
        BY <1>3, <3>1, <3>2, <3>3, <4>1, SameSite
    <3>5. PICK q \in jobs : q.job = r.job
      BY DEF CourseInv, RowInv, JobRows
    <3>6. q.url = UrlOf(w)
      BY <1>1, <3>1, <3>4, <3>5 DEF DepthInv, JobRowIsRequest, SameRequest
    <3>7. QED
      BY <1>4, <2>2, <3>2, <3>6 DEF CheckNewUrl
  <2>3. QED
    BY <1>2, <1>4, <2>1, <2>2 DEF CheckNewUrl, Branch
<1>5. CASE CheckSeenUrl(w)
  <2>1. PICK row1 \in {r \in log : r.url = UrlOf(w)}, row2 \in {r \in jobs : r.url = UrlOf(w)} :
          LET dif == row2.depth - DepthOf(w)
          IN  /\ jobs' = jobs \cup InsertedJob(w)
              /\ log' = log \cup Copied(w, row1, dif)
              /\ \/ dif >= 0 /\ Branch(w, TRUE, Finish(w))
                 \/ /\ dif < 0
                    /\ Set(w, [mem[w] EXCEPT !.sub = SubDepth(dif)])
                    /\ Advance(w, "frontier")
    BY <1>5 DEF CheckSeenUrl
  <2> DEFINE dif == row2.depth - DepthOf(w)
  <2>2. dif >= 0
    BY <1>1, <1>3, SeenIsSame
  <2>3. row2.depth \in Nat /\ DepthOf(w) \in Nat
    BY <1>1, CrawlTyped DEF TypeInv, TablesTyped, JobRow
  <2>4. Branch(w, TRUE, Finish(w))
    <3>1. ~(dif < 0)
      BY <2>2, <2>3
    <3> HIDE DEF dif
    <3>2. QED
      BY <2>1, <3>1 DEF dif
  <2>5. /\ jobs' = jobs \cup InsertedJob(w) /\ log' = log \cup Copied(w, row1, dif)
        /\ UNCHANGED <<urls, links>>
    BY <1>5, <2>1 DEF CheckSeenUrl
  <2>6. CASE mem[w].jobInDb
    <3>1. InsertedJob(w) = {} /\ Copied(w, row1, dif) \subseteq log
      BY <1>1, <1>2, <2>6, SeenIsOwn
    <3>2. UNCHANGED db
      BY <2>5, <3>1 DEF db
    <3>3. Advance(w, "scrape") /\ UNCHANGED mem
      BY <1>2, <2>4, <2>6 DEF Branch
    <3>4. Moves(w, "scrape", mem[w])
      BY <1>1, <3>3, AdvanceKeepsMem DEF Steps
    <3>5. QED
      BY <1>1, <3>2, <3>4 DEF Walk, Goes
  <2>7. CASE ~mem[w].jobInDb
    <3>1. Finish(w)
      BY <1>2, <2>4, <2>7 DEF Branch
    <3>2. Moves(w, "none", Blank)
      BY <1>1, <3>1, FinishMoves
    <3>3. Copies(w)
      BY <1>1, <2>5 DEF Copies
    <3>4. JobRows(JobOf(w)) = {}
      BY <1>2, <2>7
    <3>5. QED
      BY <1>1, <3>2, <3>3, <3>4 DEF CopiesJob
  <2>8. QED
    BY <2>6, <2>7
<1>6. QED
  BY <1>4, <1>5

LEMMA LateCourse ==
    ASSUME Undisturbed, Ground, CourseInv, [Next]_vars, NEW w \in Worker,
           Scrape(w) \/ SelectUrl(w) \/ InsertTbs(w) \/ Unlock(w) \/ CheckIfVisited(w)
    PROVE  Walk(w) \/ Logs(w) \/ Ends(w) \/ Finds(w)
<1>0. /\ TypeInv /\ DepthInv /\ (pc[w] = "crawl" => step[w] # "none" /\ mem[w] \in Locals)
      /\ CrawlFaults = {}
  BY CourseBasis
<1> USE DEF At
<1>1. CASE Scrape(w)
  <2> DEFINE m == [mem[w] EXCEPT !.found = Web[UrlOf(w)]]
  <2>1. Set(w, m) /\ step[w] = "scrape" /\ pc[w] = "crawl" /\ Advance(w, "select") /\ UNCHANGED db
    BY <1>0, <1>1 DEF Scrape
  <2>2. m \in Locals
    BY <1>0, <2>1, CrawlTyped, CrawlerAssumption DEF Locals
  <2>3. Moves(w, "select", m)
    BY <1>0, <2>1, <2>2, AdvanceMoves DEF Steps, Set
  <2>4. QED
    BY <2>1, <2>3 DEF Walk, Goes
<1>2. CASE SelectUrl(w)
  <2>1. Moves(w, "insert", [mem[w] EXCEPT !.urlRow = UrlOf(w) \in urls])
    BY <1>0, <1>2, SelectMoves
  <2>2. QED
    BY <1>2, <2>1 DEF SelectUrl, Walk, Goes
<1>3. CASE InsertTbs(w)
  <2>1. Moves(w, "unlock", mem[w]) /\ step[w] = "insert"
    BY <1>0, <1>3, InsertMoves DEF InsertTbs
  <2>2. (mem[w].urlRow <=> UrlOf(w) \in urls) /\ (mem[w].jobInDb <=> JobRows(JobOf(w)) # {})
    BY <2>1 DEF CourseInv, KnownInv, Known
  <2>3. Inserts(w)
    BY <1>0, <1>3, <2>1, <2>2 DEF InsertTbs, Inserts
  <2>4. QED
    BY <2>1, <2>3 DEF Logs
<1>4. CASE Unlock(w)
  <2>1. CASE DepthOf(w) > 1 /\ Advance(w, "visited") /\ UNCHANGED mem
    <3>1. Moves(w, "visited", mem[w])
      BY <1>0, <1>4, <2>1, AdvanceKeepsMem DEF Unlock, Steps
    <3>2. QED
      BY <1>4, <3>1 DEF Unlock, Walk, Goes
  <2>2. CASE DepthOf(w) <= 1 /\ Finish(w)
    <3>1. Moves(w, "none", Blank)
      BY <1>0, <2>2, FinishMoves
    <3>2. QED
      BY <1>4, <2>2, <3>1 DEF Unlock, Ends, Goes
  <2>3. QED
    BY <1>4, <2>1, <2>2 DEF Unlock
<1>5. CASE CheckIfVisited(w)
  <2> DEFINE S == Unvisited(Web[UrlOf(w)])
             out == SubJobs(S, DepthOf(w) - 1)
  <2>1. step[w] = "visited" /\ pc[w] = "crawl" /\ UNCHANGED db
    BY <1>5 DEF CheckIfVisited
  <2>2. mem[w].found = Web[UrlOf(w)]
    BY <2>1 DEF CourseInv, KnownInv, Known
  <2>3. SendOrFinish(w, out)
    BY <1>0, <1>5, <2>2 DEF CheckIfVisited
  <2>4. out \in SUBSET Work
    <3>1. Moves(w, "none", Blank) \/ Found(w, out)
      BY <1>0, <1>5, <2>2, VisitedMoves
    <3>2. CASE out = {}
      BY <3>2
    <3>3. CASE out # {}
      <4>1. step' = [step EXCEPT ![w] = "count"]
        BY <2>3, <3>3 DEF SendOrFinish, Advance, Goto
      <4>2. step'[w] = "count"
        BY <1>0, <4>1 DEF TypeInv, LocalsTyped
      <4>3. QED
        BY <3>1, <4>2 DEF Moves, Found
    <3>4. QED
      BY <3>2, <3>3
  <2> HIDE DEF out
  <2>5. CASE out = {}
    <3>1. Moves(w, "none", Blank)
      BY <1>0, <2>3, <2>5, FinishMoves DEF SendOrFinish
    <3>2. S = {}
      BY <2>5 DEF out, SubJobs
    <3>3. QED
      BY <2>1, <3>1, <3>2 DEF Ends, Goes
  <2>6. CASE out # {}
    <3>1. Moves(w, "count", [Blank EXCEPT !.out = out])
      <4>1. "count" \in Steps \ {"none"} /\ [Blank EXCEPT !.out = out] \in Locals
        BY <2>4 DEF Steps, Blank, Locals
      <4>2. QED
        BY <1>0, <2>1, <2>3, <2>6, <4>1, AdvanceMoves DEF SendOrFinish, Set
    <3>2. QED
      BY <2>1, <3>1 DEF Finds, Goes, out
  <2>7. QED
    BY <2>5, <2>6
<1>6. QED
  BY <1>1, <1>2, <1>3, <1>4, <1>5

\* What add() does when nothing goes wrong.
LEMMA CourseStep ==
    ASSUME Undisturbed, Ground, CourseInv, [Next]_vars
    PROVE  \/ Outside /\ UNCHANGED <<db, work>>
           \/ \E w \in Worker : Crash(w) \/ Course(w)
<1>1. ASSUME NEW w \in Worker, LinksOfLog(w) \/ DepthHandler(w) \/ Raise(w) \/ BadJob(w) PROVE FALSE
  <2>1. CrawlFaults = {} /\ "badJob" \notin Faults
    BY CourseBasis
  <2>2. Known(w)
    BY DEF CourseInv, KnownInv
  <2>3. QED
    BY <1>1, <2>1, <2>2 DEF LinksOfLog, DepthHandler, At, Raise, BadJob, Count!BadJob, Known
<1>2. ASSUME NEW w \in Worker, AfterCrawl(w) PROVE Outside /\ UNCHANGED <<db, work>>
  BY <1>2, AfterIsOutside DEF Ground, AfterCrawl
<1>3. ASSUME NEW w \in Worker, Step(w), ~AfterCrawl(w) PROVE Course(w)
  BY <1>1, <1>3, EarlyCourse, UrlCourse, LateCourse DEF Step, Course
<1>4. ASSUME \/ \E t \in Task : Submit(t) \/ PushToBroker(t)
             \/ \E w \in Worker, t \in Task : Pull(w, t)
             \/ \E p \in Page : DelayPasses(p)
             \/ UNCHANGED vars
      PROVE  Outside /\ UNCHANGED <<db, work>>
  BY <1>4, RestIsOutside DEF Ground, Submit, PushToBroker, Pull, DelayPasses, vars, db
<1>5. QED
  BY <1>2, <1>3, <1>4 DEF Next

-----------------------------------------------------------------------------
(* How tasks move on *)

\* A task is over when add() is.
LEMMA Leaves ==
    ASSUME Undisturbed, Ground, [Next]_vars, \A w \in Worker : ~IncJobCount(w),
           NEW w \in Worker, step[w] # "none", pc'[w] # "crawl", NEW t \in Task, t = cur[w]
    PROVE  ~Active(t)'
<1>0. /\ \A v \in Worker : v = w
      /\ TypeInv /\ Possession /\ pc[w] = "crawl" /\ place[t] = "pulled"
  BY DEF Undisturbed, Ground, TypeInv, LocalsTyped, Possession
<1>1. ~\E v \in Task : Submit(v)
  BY <1>0 DEF Submit, Count!Submit
<1>2. ~\E x \in Worker, v \in Task : Pull(x, v)
  BY <1>0 DEF Pull, Count!Pull
<1>3. Still
  BY <1>0, <1>1, <1>2, QueueStep
<1>4. ~Waiting(t)' /\ ~Current(t)'
  BY <1>0, <1>3 DEF Still, Waiting, Current
<1>5. QED
  BY <1>4 DEF Active

\* What a step with no new sub-jobs does to a task.
LEMMA Flow ==
    ASSUME Undisturbed, Ground, CourseInv, [Next]_vars,
           \A w \in Worker : ~IncJobCount(w),
           NEW t \in Task
    PROVE  /\ Active(t)' => Active(t) \/ Submit(t)
           /\ ToDo(t)' => ToDo(t) \/ Submit(t)
           /\ work'[t] = work[t]
<1>0. /\ \A v, w \in Worker : v = w
      /\ TypeInv /\ Possession /\ pc \in [Worker -> Count!PCs] /\ cur \in [Worker -> Task \cup {NoTask}]
      /\ \A w \in Worker : (step[w] # "none" <=> pc[w] = "crawl")
  BY DEF Undisturbed, Ground, TypeInv, Basis, Count!TypeOK, LocalsTyped
<1>1. ASSUME NEW v \in Task, Submit(v) PROVE (Active(t)' => Active(t) \/ Submit(t)) /\ work' = work
  BY <1>1 DEF Submit, Count!Submit, Count!Move, Active, Waiting, Current
<1>2. ASSUME NEW w \in Worker, NEW v \in Task, Pull(w, v) PROVE (Active(t)' => Active(t)) /\ work' = work
  <2>1. /\ place[v] = "queued" /\ place' = Count!Move({v}, "pulled") /\ work' = work
        /\ cur' = [cur EXCEPT ![w] = v]
    BY <1>2 DEF Pull, Count!Pull
  <2>2. \A x \in Worker : x = w /\ cur'[w] = v
    BY <1>0, <2>1
  <2>3. QED
    BY <2>1, <2>2 DEF Count!Move, Active, Waiting, Current
<1>3. (Active(t)' => Active(t) \/ Submit(t)) /\ work'[t] = work[t]
  BY <1>0, <1>1, <1>2, QueueStep, StillActive DEF Still
<1>4. ASSUME ToDo(t)', Active(t), NEW w \in Worker, cur[w] = t, step[w] \in {"unlock", "visited", "count"}
      PROVE  FALSE
  <2>1. pc[w] = "crawl" /\ place[t] = "pulled" /\ ~Past(t)' /\ Active(t)'
    BY <1>0, <1>4 DEF Possession, ToDo
  <2>2. CASE Outside
    BY <1>4, <2>1, <2>2 DEF Outside, local, Past
  <2>3. CASE Walk(w) \/ Finds(w)
    BY <1>4, <2>1, <2>3 DEF Walk, Finds, Goes, Moves, Past
  <2>4. CASE Ends(w)
    <3>1. step'[w] = "none" /\ pc'[w] # "crawl"
      BY <2>4 DEF Ends, Goes, Moves
    <3>2. QED
      BY <1>0, <1>4, <2>1, <3>1, Leaves
  <2>5. ~CopiesJob(w) /\ ~Logs(w) /\ ~Crash(w)
    BY <1>0, <1>4, <2>1 DEF CopiesJob, Logs, Inserts, Crash, Count!Crash, Undisturbed
  <2>6. QED
    BY <1>0, <2>2, <2>3, <2>4, <2>5, CourseStep DEF Course
<1>5. ToDo(t)' => ToDo(t) \/ Submit(t)
  BY <1>3, <1>4 DEF ToDo, Past
<1>6. QED
  BY <1>3, <1>5

LEMMA ToDoHere ==
    ASSUME Undisturbed, NEW w \in Worker, pc'[w] \in {"start", "crawl"},
           step'[w] \notin {"unlock", "visited", "count"}
    PROVE  ToDo(cur[w])' \/ cur'[w] # cur[w]
<1>1. \A v \in Worker : v = w
  BY DEF Undisturbed
<1>2. QED
  BY <1>1 DEF ToDo, Active, Current, Past

\* A task that is to be done stays so until its page is logged.
LEMMA Kept ==
    ASSUME Undisturbed, Ground, CourseInv, [Next]_vars, NEW t \in Task, ToDo(t)
    PROVE  /\ work'[t] = work[t]
           /\ ToDo(t)' \/ \E w \in Worker : cur[w] = t /\ (Logs(w) \/ CopiesJob(w))
<1>0. /\ \A v, w \in Worker : v = w
      /\ TypeInv /\ Possession /\ pc \in [Worker -> Count!PCs] /\ cur \in [Worker -> Task \cup {NoTask}]
      /\ \A w \in Worker : (step[w] # "none" <=> pc[w] = "crawl")
  BY DEF Undisturbed, Ground, TypeInv, Basis, Count!TypeOK, LocalsTyped
<1>1. work'[t] = work[t]
  BY <1>0, ActiveIsUsed, TaskStays DEF ToDo, Used
<1>2. CASE Current(t)
  <2>1. PICK w \in Worker : cur[w] = t /\ pc[w] \in {"start", "crawl"}
    BY <1>2 DEF Current
  <2>2. step[w] \notin {"unlock", "visited", "count"}
    BY <2>1 DEF ToDo, Past
  <2>3. CASE Outside /\ pc[w] = "crawl"
    <3>1. pc'[w] = "crawl" /\ cur'[w] = cur[w] /\ step'[w] = step[w]
      BY <2>3 DEF Outside, local
    <3>2. QED
      BY <1>1, <2>1, <2>2, <3>1, ToDoHere
  <2>4. CASE Walk(w)
    <3>1. cur'[w] = t /\ pc'[w] = "crawl" /\ step'[w] \notin {"unlock", "visited", "count"}
      BY <2>1, <2>2, <2>4 DEF Walk, Goes, Moves
    <3>2. QED
      BY <1>1, <2>1, <3>1, ToDoHere
  <2>5. CASE CopiesJob(w) \/ Logs(w)
    BY <1>1, <2>1, <2>5
  <2>6. ~Ends(w) /\ ~Finds(w) /\ ~IncJobCount(w)
    BY <2>2 DEF Ends, Finds, Goes, IncJobCount, At
  <2>7. ~Crash(w)
    BY <2>1 DEF Undisturbed, Crash, Count!Crash
  <2>8. CASE Outside /\ pc[w] = "start"
    <3>1. step[w] = "none"
      BY <1>0, <2>8
    <3>2. \/ pc'[w] = "start" /\ cur'[w] = cur[w]
          \/ InitJobCount(w)
      <4>1. ASSUME NEW v \in Task, Submit(v) \/ PushToBroker(v) PROVE pc'[w] = "start" /\ cur'[w] = cur[w]
        BY <2>8, <4>1 DEF Submit, PushToBroker, Count!Submit, Count!PushToBroker
      <4>2. ASSUME NEW x \in Worker, NEW v \in Task, Pull(x, v) PROVE FALSE
        BY <1>0, <2>8, <4>2 DEF Pull, Count!Pull
      <4>3. ASSUME NEW x \in Worker, Step(x), ~InitJobCount(x) PROVE FALSE
        <5>1. x = w
          BY <1>0
        <5>2. ~BadJob(w)
          BY CourseBasis DEF BadJob, Count!BadJob
        <5>3. ~Raise(w) /\ ~AfterCrawl(w)
          BY <2>8 DEF Raise, Finish, AfterCrawl, Count!NoSubJobs, Count!SendToBroker, Count!DecJobCount,
             Count!PublishCompleted, Count!DeleteCount, Count!Ack
        <5>4. QED
          BY <2>8, <4>3, <5>1, <5>2, <5>3 DEF Step, CheckRobot, CrawlReady, CheckIfPresent, CheckJob,
             CheckNewUrl, CheckSeenUrl, LinksOfLog, DepthHandler, Scrape, SelectUrl, InsertTbs,
             Unlock, CheckIfVisited, IncJobCount, At
      <4>4. ASSUME NEW x \in Worker, InitJobCount(x) PROVE InitJobCount(w)
        BY <1>0, <4>4
      <4>5. ASSUME UNCHANGED counting PROVE pc'[w] = "start" /\ cur'[w] = cur[w]
        BY <2>8, <4>5 DEF counting
      <4>6. ASSUME NEW x \in Worker, Crash(x) PROVE FALSE
        <5>1. x = w
          BY <1>0
        <5>2. QED
          BY <2>7, <4>6, <5>1
      <4>7. QED
        BY <4>1, <4>2, <4>3, <4>4, <4>5, <4>6 DEF Next, DelayPasses, vars, counting
    <3>3. ~InitJobCount(w)
      BY <1>0, <2>8 DEF Outside, InitJobCount, Count!InitJobCount, Count!Goto
    <3>4. pc'[w] = "start" /\ cur'[w] = t /\ step'[w] = "none"
      BY <2>1, <2>8, <3>1, <3>2, <3>3 DEF Outside, local
    <3>5. QED
      BY <1>1, <2>1, <3>4, ToDoHere
  <2>9. QED
    BY <1>0, <1>1, <2>1, <2>3, <2>4, <2>5, <2>6, <2>7, <2>8, CourseStep DEF Course
<1>3. CASE Waiting(t)
  <2>1. \A w \in Worker : pc[w] # "idle" => cur[w] # t
    BY <1>0, <1>3 DEF Possession, Waiting
  <2>2. ~Past(t)'
    <3>1. SUFFICES ASSUME NEW w \in Worker, cur'[w] = t, step'[w] \in {"unlock", "visited", "count"}
                   PROVE  FALSE
      BY DEF Past
    <3>2. CASE Outside
      BY <1>0, <2>1, <3>1, <3>2 DEF Outside, local
    <3>3. CASE Course(w)
      <4>1. pc[w] = "crawl" /\ cur'[w] = cur[w]
        <5>1. CASE IncJobCount(w)
          BY <1>0, <3>1, <5>1, LastMoves DEF Moves
        <5>2. CASE ~IncJobCount(w)
          BY <1>0, <3>1, <3>3, <5>2 DEF Course, Walk, Ends, Finds, CopiesJob, Logs, Goes, Moves, Inserts
        <5>3. QED
          BY <5>1, <5>2
      <4>2. QED
        BY <2>1, <3>1, <4>1
    <3>4. CASE Crash(w)
      BY <1>0, <3>1, <3>4, CrashMoves
    <3>5. QED
      BY <1>0, <3>2, <3>3, <3>4, CourseStep
  <2>3. Active(t)'
    <3>1. ASSUME NEW v \in Task, Submit(v) PROVE Active(t)'
      BY <1>3, <3>1 DEF Submit, Count!Submit, Count!Move, Active, Waiting
    <3>2. ASSUME NEW w \in Worker, NEW v \in Task, Pull(w, v) PROVE Active(t)'
      <4>1. /\ place' = Count!Move({v}, "pulled") /\ cur'[w] = v /\ pc'[w] = "start"
        BY <1>0, <3>2 DEF Pull, Count!Pull, Count!Goto
      <4>2. QED
        BY <1>3, <4>1 DEF Count!Move, Active, Waiting, Current
    <3>3. ASSUME NEW w \in Worker, IncJobCount(w) PROVE Active(t)'
      <4>1. \E S : place' = [x \in Task |-> IF x \in S THEN "promised" ELSE place[x]]
        BY <1>0, <3>3, SubJobsAssigned
      <4>2. QED
        BY <1>3, <4>1 DEF Active, Waiting
    <3>4. CASE Still
      BY <1>3, <3>4 DEF Still, Active
    <3>5. QED
      BY <1>0, <3>1, <3>2, <3>3, <3>4, QueueStep
  <2>4. QED
    BY <1>1, <2>2, <2>3 DEF ToDo
<1>4. QED
  BY <1>2, <1>3 DEF ToDo, Active

-----------------------------------------------------------------------------
(* The invariants of the course *)

LEMMA SameTask ==
    ASSUME TypeInv, [Next]_vars, NEW w \in Worker, step[w] # "none", cur'[w] = cur[w]
    PROVE  JobOf(w)' = JobOf(w) /\ UrlOf(w)' = UrlOf(w) /\ DepthOf(w)' = DepthOf(w)
<1>1. work'[cur[w]] = work[cur[w]]
  BY CrawlTyped, TaskStays
<1>2. QED
  BY <1>1 DEF JobOf, UrlOf, DepthOf

LEMMA KnownStep ==
    ASSUME Undisturbed, Ground, CourseInv, [Next]_vars
    PROVE  KnownInv' /\ OutInv'
<1> DEFINE Out(w) == step[w] = "count" => \A o \in mem[w].out : o.depth = DepthOf(w) - 1
<1>1. SUFFICES ASSUME NEW w \in Worker PROVE Known(w)' /\ Out(w)'
  BY DEF KnownInv, OutInv
<1>2. /\ Known(w) /\ Out(w) /\ TypeInv /\ \A v \in Worker : v = w
      /\ (step[w] # "none" => pc[w] = "crawl" /\ mem[w] \in Locals)
  BY CourseBasis DEF CourseInv, KnownInv, OutInv, Undisturbed, Ground, TypeInv, LocalsTyped
<1>3. ASSUME step'[w] = "none" PROVE Known(w)' /\ Out(w)'
  BY <1>3 DEF Known
<1>4. CASE Outside /\ UNCHANGED <<db, work>>
  <2>1. CASE step[w] = "none"
    BY <1>3, <1>4, <2>1 DEF Outside, local
  <2>2. CASE step[w] # "none"
    <3>1. cur'[w] = cur[w] /\ step'[w] = step[w] /\ mem'[w] = mem[w]
      BY <1>2, <1>4, <2>2 DEF Outside, local
    <3>2. JobOf(w)' = JobOf(w) /\ UrlOf(w)' = UrlOf(w) /\ DepthOf(w)' = DepthOf(w)
      BY <1>2, <2>2, <3>1, SameTask
    <3>3. JobRows(JobOf(w))' = JobRows(JobOf(w)) /\ urls' = urls
      BY <1>4, <3>2 DEF JobRows, db
    <3>4. QED
      BY <1>2, <3>1, <3>2, <3>3 DEF Known
  <2>3. QED
    BY <2>1, <2>2
<1>5. CASE Crash(w)
  BY <1>2, <1>3, <1>5, CrashMoves
<1>6. ASSUME NEW s, NEW t, NEW m, Goes(w, s, t, m), s # "none",
             t \notin {"none", "frontier", "depth", "count"},
             t \in {"job", "url"} => ~m.inRedis,
             t \in {"url", "scrape", "select", "insert"} => (m.jobInDb <=> JobRows(JobOf(w)) # {}),
             t = "insert" => (m.urlRow <=> UrlOf(w) \in urls),
             t \in {"select", "insert", "unlock", "visited"} => m.found = Web[UrlOf(w)]
      PROVE  Known(w)' /\ Out(w)'
  <2>1. /\ step[w] # "none" /\ cur'[w] = cur[w] /\ step'[w] = t /\ mem'[w] = m
        /\ urls' = urls /\ jobs' = jobs
    BY <1>6 DEF Goes, Moves, db
  <2>2. JobOf(w)' = JobOf(w) /\ UrlOf(w)' = UrlOf(w)
    BY <1>2, <2>1, SameTask
  <2>3. JobRows(JobOf(w))' = JobRows(JobOf(w))
    BY <2>1, <2>2 DEF JobRows
  <2>4. QED
    BY <1>6, <2>1, <2>2, <2>3 DEF Known
<1>7. CASE Walk(w)
  <2>1. CASE Goes(w, "none", "robots", mem[w])
    BY <2>1 DEF Goes, Moves, Known
  <2>2. CASE Goes(w, "robots", "ready", mem[w]) \/ Goes(w, "ready", "present", mem[w])
    BY <1>6, <2>2
  <2>3. CASE Goes(w, "present", "job", [mem[w] EXCEPT !.inRedis = FALSE])
    <3> DEFINE m == [mem[w] EXCEPT !.inRedis = FALSE]
    <3>1. ~m.inRedis
      BY <1>2, <2>3 DEF Goes, Locals
    <3> HIDE DEF m
    <3>2. Goes(w, "present", "job", m)
      BY <2>3 DEF m
    <3>3. QED
      BY <1>6, <3>1, <3>2
  <2>4. CASE Goes(w, "job", "url", [mem[w] EXCEPT !.jobInDb = JobRows(JobOf(w)) # {}])
    <3> DEFINE b == JobRows(JobOf(w)) # {}
               m == [mem[w] EXCEPT !.jobInDb = b]
    <3>1. mem[w] \in Locals /\ ~mem[w].inRedis
      BY <1>2, <2>4 DEF Goes, Known
    <3> HIDE DEF b
    <3>2. m.jobInDb = b /\ m.inRedis = mem[w].inRedis
      BY <3>1 DEF Locals
    <3> HIDE DEF m
    <3>3. Goes(w, "job", "url", m)
      BY <2>4 DEF m, b
    <3>4. m.jobInDb <=> JobRows(JobOf(w)) # {}
      BY <3>2 DEF b
    <3>5. QED
      BY <1>6, <3>1, <3>2, <3>3, <3>4
  <2>5. CASE Goes(w, "url", "scrape", mem[w])
    <3>1. mem[w].jobInDb <=> JobRows(JobOf(w)) # {}
      BY <1>2, <2>5 DEF Goes, Known
    <3>2. QED
      BY <1>6, <2>5, <3>1
  <2>6. CASE Goes(w, "scrape", "select", [mem[w] EXCEPT !.found = Web[UrlOf(w)]])
    <3> DEFINE m == [mem[w] EXCEPT !.found = Web[UrlOf(w)]]
    <3>1. mem[w] \in Locals /\ (mem[w].jobInDb <=> JobRows(JobOf(w)) # {})
      BY <1>2, <2>6 DEF Goes, Known
    <3>2. m.jobInDb = mem[w].jobInDb /\ m.found = Web[UrlOf(w)]
      BY <3>1 DEF Locals
    <3> HIDE DEF m
    <3>3. Goes(w, "scrape", "select", m)
      BY <2>6 DEF m
    <3>4. QED
      BY <1>6, <3>1, <3>2, <3>3
  <2>7. CASE Goes(w, "select", "insert", [mem[w] EXCEPT !.urlRow = UrlOf(w) \in urls])
    <3> DEFINE b == UrlOf(w) \in urls
               m == [mem[w] EXCEPT !.urlRow = b]
    <3>1. /\ mem[w] \in Locals /\ (mem[w].jobInDb <=> JobRows(JobOf(w)) # {})
          /\ mem[w].found = Web[UrlOf(w)]
      BY <1>2, <2>7 DEF Goes, Known
    <3> HIDE DEF b
    <3>2. m.jobInDb = mem[w].jobInDb /\ m.found = mem[w].found /\ m.urlRow = b
      BY <3>1 DEF Locals
    <3> HIDE DEF m
    <3>3. Goes(w, "select", "insert", m) /\ (m.urlRow <=> UrlOf(w) \in urls)
      BY <2>7, <3>2 DEF m, b
    <3>4. QED
      BY <1>6, <3>1, <3>2, <3>3
  <2>8. CASE Goes(w, "unlock", "visited", mem[w])
    <3>1. mem[w].found = Web[UrlOf(w)]
      BY <1>2, <2>8 DEF Goes, Known
    <3>2. QED
      BY <1>6, <2>8, <3>1
  <2>9. QED
    BY <1>7, <2>1, <2>2, <2>3, <2>4, <2>5, <2>6, <2>7, <2>8 DEF Walk
<1>8. CASE Finds(w)
  <2> DEFINE S == SubJobs(Unvisited(Web[UrlOf(w)]), DepthOf(w) - 1)
             m == [Blank EXCEPT !.out = S]
  <2>1. m.out = S
    BY DEF Blank
  <2>2. \A o \in S : o.depth = DepthOf(w) - 1
    BY DEF SubJobs
  <2> HIDE DEF S, m
  <2>3. step[w] # "none" /\ step'[w] = "count" /\ mem'[w] = m /\ cur'[w] = cur[w]
    BY <1>8 DEF Finds, Goes, Moves, S, m
  <2>4. DepthOf(w)' = DepthOf(w)
    BY <1>2, <2>3, SameTask
  <2>5. Out(w)'
    BY <2>1, <2>2, <2>3, <2>4
  <2>6. Known(w)'
    BY <2>3 DEF Known
  <2>7. QED
    BY <2>5, <2>6
<1>9. CASE Ends(w) \/ CopiesJob(w) \/ IncJobCount(w)
  <2>1. step'[w] = "none"
    BY <1>2, <1>9, LastMoves DEF Ends, CopiesJob, Goes, Moves
  <2>2. QED
    BY <1>3, <2>1
<1>10. CASE Logs(w)
  <2>1. /\ step[w] = "insert" /\ cur'[w] = cur[w] /\ step'[w] = "unlock" /\ mem'[w] = mem[w]
    BY <1>10 DEF Logs, Inserts, Moves
  <2>2. UrlOf(w)' = UrlOf(w)
    BY <1>2, <2>1, SameTask
  <2>3. mem[w].found = Web[UrlOf(w)]
    BY <1>2, <2>1 DEF Known
  <2>4. QED
    BY <2>1, <2>2, <2>3 DEF Known
<1>11. QED
  BY <1>2, <1>4, <1>5, <1>7, <1>8, <1>9, <1>10, CourseStep DEF Course

LEMMA ReadyStep ==
    ASSUME Undisturbed, Ground, ReadyInv, [Next]_vars
    PROVE  ReadyInv'
<1>1. robot \in [Page -> {"none", "ahead", "passed"}] /\ Delayed = {}
  BY DEF Ground, TypeInv, TablesTyped, Undisturbed
<1>2. ASSUME NEW w \in Worker, Step(w) PROVE ReadyInv'
  BY <1>1, <1>2 DEF ReadyInv, Step, BadJob, InitJobCount, CheckRobot, CrawlReady, CheckIfPresent, CheckJob,
     CheckNewUrl, CheckSeenUrl, LinksOfLog, DepthHandler, Scrape, SelectUrl, InsertTbs,
     Unlock, CheckIfVisited, IncJobCount, Raise, AfterCrawl
<1>3. ASSUME NEW p \in Page, DelayPasses(p) PROVE ReadyInv'
  BY <1>1, <1>3 DEF ReadyInv, DelayPasses
<1>4. QED
  BY <1>2, <1>3 DEF Next, Submit, PushToBroker, Pull, Crash, vars, ReadyInv

\* The row of link_log for w's page.
LogRowOf(w) == [job |-> JobOf(w), url |-> UrlOf(w), depth |-> Depth[JobOf(w)] - DepthOf(w)]

LEMMA LogsMeans ==
    ASSUME Ground, KnownInv, NEW w \in Worker, Logs(w)
    PROVE  /\ step[w] = "insert" /\ step'[w] = "unlock" /\ cur'[w] = cur[w]
           /\ urls' = urls \cup {UrlOf(w)}
           /\ log' = log \cup {LogRowOf(w)}
           /\ jobs \subseteq jobs' /\ \E r \in jobs' : r.job = JobOf(w)
           /\ \A r \in jobs' \ jobs : r.job = JobOf(w) /\ r.url = UrlOf(w) /\ JobRows(JobOf(w)) = {}
           /\ JobRows(JobOf(w)) = {} => UrlOf(w) \notin urls
<1> DEFINE j == JobOf(w)
           row == [job |-> j, url |-> UrlOf(w), depth |-> DepthOf(w)]
           new == IF mem[w].jobInDb THEN {} ELSE {row}
<1>1. /\ step[w] = "insert" /\ step'[w] = "unlock" /\ cur'[w] = cur[w]
      /\ ~mem[w].jobInDb => JobRows(j) = {}
      /\ urls' = urls \cup {UrlOf(w)}
      /\ jobs' = jobs \cup new
      /\ log' = log \cup {[row EXCEPT !.depth = r.depth - DepthOf(w)] : r \in JobRows(j) \cup new}
  BY DEF Logs, Inserts, Moves
<1>2. /\ TypeInv /\ DepthInv /\ (mem[w].jobInDb <=> JobRows(j) # {})
      /\ JobRows(j) = {} => UrlOf(w) \notin urls
  BY <1>1 DEF Ground, KnownInv, Known, DepthInv, LocalInv, Local
<1>3. \A r \in JobRows(j) \cup new : r.job = j /\ r.depth = Depth[j]
  <2>1. \A r \in JobRows(j) : r.job = j /\ r.depth = Depth[j]
    BY <1>2 DEF JobRows, DepthInv, JobRowIsRequest
  <2>2. ASSUME NEW r \in new PROVE r.job = j /\ r.depth = Depth[j]
    <3>1. JobRows(j) = {} /\ r = row
      BY <1>1, <2>2
    <3>2. DepthOf(w) = Depth[j]
      BY <1>1, <1>2, <3>1, InsertedIsRequest DEF DepthInv
    <3>3. QED
      BY <3>1, <3>2
  <2>3. QED
    BY <2>1, <2>2
<1>4. JobRows(j) \cup new # {}
  BY <1>2
<1>5. ASSUME NEW r \in JobRows(j) \cup new
      PROVE  [row EXCEPT !.depth = r.depth - DepthOf(w)] = LogRowOf(w)
  BY <1>3 DEF LogRowOf
<1>6. {[row EXCEPT !.depth = r.depth - DepthOf(w)] : r \in JobRows(j) \cup new} = {LogRowOf(w)}
  BY <1>4, <1>5
<1>7. \E r \in jobs' : r.job = j
  BY <1>1, <1>3, <1>4 DEF JobRows
<1>8. \A r \in new : r.job = j /\ r.url = UrlOf(w) /\ JobRows(j) = {}
  BY <1>1
<1>9. QED
  BY <1>1, <1>2, <1>6, <1>7, <1>8

LEMMA CopyOfOne ==
    ASSUME NEW row, NEW source
    PROVE  {[job |-> p[1].job, url |-> p[2].url, depth |-> p[2].depth] : p \in {q \in {row} \X source : TRUE}}
             = {[job |-> row.job, url |-> l.url, depth |-> l.depth] : l \in source}
<1> DEFINE C(p) == [job |-> p[1].job, url |-> p[2].url, depth |-> p[2].depth]
           D(l) == [job |-> row.job, url |-> l.url, depth |-> l.depth]
           pairs == {q \in {row} \X source : TRUE}
<1>1. \A l \in source : <<row, l>> \in pairs /\ C(<<row, l>>) = D(l)
  OBVIOUS
<1>2. \A p \in pairs : p[2] \in source /\ C(p) = D(p[2])
  OBVIOUS
<1> HIDE DEF C, D, pairs
<1>3. {C(p) : p \in pairs} = {D(l) : l \in source}
  <2>1. \A l \in source : D(l) \in {C(p) : p \in pairs}
    BY <1>1
  <2>2. \A p \in pairs : C(p) \in {D(l) : l \in source}
    BY <1>2
  <2>3. QED
    BY <2>1, <2>2
<1>4. QED
  BY <1>3 DEF C, D, pairs

\* A job that is copied from asked for the same.
LEMMA CopiesMeans ==
    ASSUME Compatible, Ground, RowInv, NEW w \in Worker, CopiesJob(w)
    PROVE  /\ step[w] = "url" /\ step'[w] = "none" /\ cur'[w] = cur[w]
           /\ JobRows(JobOf(w)) = {} /\ UrlOf(w) = RootOf(JobOf(w)) /\ UrlOf(w) \in urls
           /\ urls' = urls
           /\ \E row : row.job = JobOf(w) /\ row.url = UrlOf(w) /\ jobs' = jobs \cup {row}
           /\ \E i \in Job :
                 /\ i # JobOf(w) /\ SameRequest(i, JobOf(w)) /\ JobRows(i) # {}
                 /\ log' = log \cup {[job |-> JobOf(w), url |-> l.url, depth |-> l.depth] :
                                        l \in {r \in log : r.job = i}}
<1> DEFINE j == JobOf(w)
           row == [job |-> j, url |-> UrlOf(w), depth |-> DepthOf(w)]
<1>1. /\ step[w] = "url" /\ step'[w] = "none" /\ cur'[w] = cur[w] /\ JobRows(j) = {}
      /\ TypeInv /\ DepthInv /\ urls' = urls
  BY DEF CopiesJob, Copies, Moves, Ground
<1>2. PICK row1 \in log, row2 \in jobs :
        /\ row1.url = UrlOf(w) /\ row2.url = UrlOf(w)
        /\ jobs' = jobs \cup InsertedJob(w)
        /\ log' = log \cup Copied(w, row1, row2.depth - DepthOf(w))
  BY DEF CopiesJob, Copies
<1>3. InsertedJob(w) = {row}
  BY <1>1 DEF InsertedJob
<1>4. UrlOf(w) = RootOf(j) /\ DepthOf(w) = Depth[j] /\ j \in Job
  BY <1>1, InsertedIsRequest, CrawlTyped DEF DepthInv
<1>5. UrlOf(w) \in urls
  BY <1>2 DEF RowInv
<1>6. row1.job \in Job /\ SameRequest(row1.job, j) /\ JobRows(row1.job) # {} /\ row1.job # j
  <2>1. /\ row1.job \in Job /\ row1.depth \in 0..(Depth[row1.job] - 1)
        /\ row1.url \in Hops(RootOf(row1.job), row1.depth)
    BY <1>1 DEF DepthInv, LoggedAtHop, TypeInv, TablesTyped, LogRow
  <2>2. row1.url \in Site(row1.job) /\ RootOf(j) \in Site(j)
    BY <1>4, <2>1, HopInSite, RootInSite
  <2>3. SameRequest(row1.job, j)
    BY <1>2, <1>4, <2>1, <2>2, SameSite
  <2>4. JobRows(row1.job) # {}
    BY DEF RowInv
  <2>5. QED
    BY <1>1, <2>1, <2>3, <2>4
<1>7. row2.depth - DepthOf(w) = 0
  <2>1. row2.job \in Job /\ row2.url = RootOf(row2.job) /\ row2.depth = Depth[row2.job]
    BY <1>1 DEF DepthInv, JobRowIsRequest, TypeInv, TablesTyped, JobRow
  <2>2. row2.url \in Site(row2.job) /\ RootOf(j) \in Site(j)
    BY <1>4, <2>1, RootInSite
  <2>3. SameRequest(row2.job, j)
    BY <1>2, <1>4, <2>1, <2>2, SameSite
  <2>4. Depth[j] \in Nat
    BY <1>4, RootTyped
  <2>5. QED
    BY <1>4, <2>1, <2>3, <2>4 DEF SameRequest
<1>8. Copied(w, row1, row2.depth - DepthOf(w))
        = {[job |-> j, url |-> l.url, depth |-> l.depth] : l \in {r \in log : r.job = row1.job}}
  <2> DEFINE source == {l \in log : l.job = row1.job}
  <2>1. TargetRows(w, 0) = {row}
    BY <1>3 DEF TargetRows
  <2>2. Copied(w, row1, 0) = {[job |-> p[1].job, url |-> p[2].url, depth |-> p[2].depth] :
                                 p \in {q \in {row} \X source : TRUE}}
    BY <2>1 DEF Copied
  <2> HIDE DEF source
  <2>3. row.job = j
    OBVIOUS
  <2> HIDE DEF row
  <2>4. {[job |-> p[1].job, url |-> p[2].url, depth |-> p[2].depth] : p \in {q \in {row} \X source : TRUE}}
          = {[job |-> j, url |-> l.url, depth |-> l.depth] : l \in source}
    BY <2>3, CopyOfOne
  <2>5. QED
    BY <1>7, <2>2, <2>4 DEF source
<1>9. QED
  BY <1>1, <1>2, <1>3, <1>4, <1>5, <1>6, <1>8

\* All other steps leave the tables alone.
LEMMA TablesCourse ==
    ASSUME Undisturbed, Ground, CourseInv, [Next]_vars
    PROVE  UNCHANGED db \/ \E w \in Worker : Logs(w) \/ CopiesJob(w)
  BY CourseStep DEF Course, Walk, Ends, Finds, Goes, IncJobCount, Crash

LEMMA RowStep ==
    ASSUME Undisturbed, Ground, CourseInv, [Next]_vars
    PROVE  RowInv'
<1>0. TypeInv /\ RowInv /\ KnownInv /\ Compatible
  BY DEF Ground, CourseInv, Undisturbed
<1>1. \A r \in jobs : Count!Submitted(r.job)'
  BY <1>0, SubmittedGrows DEF RowInv
<1>2. CASE UNCHANGED db
  <2>1. urls' = urls /\ log' = log /\ jobs' = jobs
    BY <1>2 DEF db
  <2>2. \A r \in log : JobRows(r.job)' # {}
    BY <1>0, <2>1 DEF RowInv, JobRows
  <2>3. QED
    BY <1>0, <1>1, <2>1, <2>2 DEF RowInv
<1>3. ASSUME NEW w \in Worker, step[w] # "none", NEW j, j = JobOf(w) PROVE Count!Submitted(j)'
  <2>1. Count!Submitted(j)
    BY <1>0, <1>3, CrawlTyped DEF Count!Submitted, Count!TasksOf, JobOf
  <2>2. QED
    BY <1>0, <2>1, SubmittedGrows
<1>4. ASSUME NEW w \in Worker, Logs(w) PROVE RowInv'
  <2>1. /\ step[w] = "insert" /\ urls' = urls \cup {UrlOf(w)}
        /\ log' = log \cup {LogRowOf(w)}
        /\ jobs \subseteq jobs' /\ \E r \in jobs' : r.job = JobOf(w)
        /\ \A r \in jobs' \ jobs : r.job = JobOf(w) /\ r.url = UrlOf(w)
    BY <1>0, <1>4, LogsMeans
  <2>2. LogRowOf(w).url = UrlOf(w) /\ LogRowOf(w).job = JobOf(w)
    BY DEF LogRowOf
  <2>3. \A p \in urls' : \E r \in log' : r.url = p
    BY <1>0, <2>1, <2>2 DEF RowInv
  <2>4. \A r \in log' : JobRows(r.job)' # {}
    BY <1>0, <2>1, <2>2 DEF RowInv, JobRows
  <2>5. \A r \in jobs' : Count!Submitted(r.job)' /\ r.url \in urls'
    BY <1>0, <1>1, <1>3, <2>1 DEF RowInv
  <2>6. QED
    BY <2>3, <2>4, <2>5 DEF RowInv
<1>5. ASSUME NEW w \in Worker, CopiesJob(w) PROVE RowInv'
  <2>1. /\ step[w] = "url" /\ UrlOf(w) \in urls /\ urls' = urls
        /\ \E row : row.job = JobOf(w) /\ row.url = UrlOf(w) /\ jobs' = jobs \cup {row}
        /\ \E i \in Job :
              log' = log \cup {[job |-> JobOf(w), url |-> l.url, depth |-> l.depth] :
                                   l \in {r \in log : r.job = i}}
    BY <1>0, <1>5, CopiesMeans
  <2>2. \A r \in log' : r \in log \/ r.job = JobOf(w)
    BY <2>1
  <2>3. \A p \in urls' : \E r \in log' : r.url = p
    BY <1>0, <2>1 DEF RowInv
  <2>4. \A r \in log' : JobRows(r.job)' # {}
    BY <1>0, <2>1, <2>2 DEF RowInv, JobRows
  <2>5. \A r \in jobs' : Count!Submitted(r.job)' /\ r.url \in urls'
    BY <1>0, <1>1, <1>3, <2>1 DEF RowInv
  <2>6. QED
    BY <2>3, <2>4, <2>5 DEF RowInv
<1>6. QED
  BY <1>2, <1>4, <1>5, TablesCourse

\* As long as a job has no row it has one task.
LEMMA OnlyTask ==
    ASSUME Ground, LowerInv, NEW t \in Task, NEW u \in Task, Owner[t] = Owner[u],
           Used(t), Used(u), JobRows(Owner[t]) = {}
    PROVE  t = u
<1>1. work[t].depth = Depth[Owner[t]] /\ work[u].depth = Depth[Owner[t]]
  <2>1. work[t] = Request(Owner[t]) /\ work[u] = Request(Owner[t])
    BY DEF Ground, DepthInv, WorkInv
  <2>2. Request(Owner[t]).depth = Depth[Owner[t]]
    BY DEF Request
  <2>3. QED
    BY <2>1, <2>2
<1>2. Depth[Owner[t]] \in Nat
  BY CrawlerAssumption
<1>3. ~(t < u) /\ ~(u < t)
  BY <1>1, <1>2 DEF LowerInv
<1>4. QED
  BY <1>3, CrawlerAssumption

LEMMA NewStep ==
    ASSUME Undisturbed, Ground, CourseInv, [Next]_vars
    PROVE  NewInv'
<1>0. /\ TypeInv /\ RowInv /\ KnownInv /\ Compatible /\ LowerInv /\ OutInv /\ NewInv
      /\ \A v, w \in Worker : v = w
      /\ Possession /\ DepthInv
  BY DEF Ground, CourseInv, QueueInv, Undisturbed
<1>1. SUFFICES ASSUME NEW t \in Task, ToDo(t)', work'[t].depth = Depth[Owner[t]]
               PROVE  JobRows(Owner[t])' = {}
  BY DEF NewInv, ToDo, Active, Waiting, Current, Past
<1>2. ASSUME NEW w \in Worker, IncJobCount(w) PROVE JobRows(Owner[t])' = {}
  <2>1. /\ step[w] = "count" /\ jobs' = jobs /\ Owner[t] \in Job
        /\ DepthOf(w) \in 1..Depth[JobOf(w)] /\ Depth[JobOf(w)] \in Nat
    <3>1. step[w] = "count" /\ jobs' = jobs
      BY <1>2 DEF IncJobCount, At, db
    <3>2. JobOf(w) \in Job /\ AtHop(JobOf(w), work[cur[w]])
      BY <1>0, <3>1, CrawlAtHop DEF DepthInv
    <3>3. QED
      BY <3>1, <3>2, RootTyped, CrawlerAssumption DEF AtHop, DepthOf
  <2>2. \/ Active(t) /\ t # cur[w] /\ work'[t] = work[t]
        \/ Owner[t] = JobOf(w) /\ work'[t].depth = DepthOf(w) - 1
    BY <1>0, <1>1, <1>2, ActiveStep DEF ToDo
  <2>3. CASE Active(t) /\ t # cur[w] /\ work'[t] = work[t]
    <3>1. ToDo(t)
      BY <1>0, <2>3 DEF ToDo, Past
    <3>2. QED
      BY <1>0, <1>1, <2>1, <2>3, <3>1 DEF NewInv, JobRows
  <2>4. CASE Owner[t] = JobOf(w) /\ work'[t].depth = DepthOf(w) - 1
    BY <1>1, <2>1, <2>4
  <2>5. QED
    BY <2>2, <2>3, <2>4
<1>3. ASSUME \A w \in Worker : ~IncJobCount(w) PROVE JobRows(Owner[t])' = {}
  <2>1. (ToDo(t) \/ Submit(t)) /\ work'[t] = work[t]
    BY <1>1, <1>3, Flow
  <2>2. CASE Submit(t)
    <3>1. ~Count!Submitted(Owner[t]) /\ jobs' = jobs
      BY <2>2 DEF Submit, Count!Submit, Count!Submitted, db
    <3>2. QED
      BY <1>0, <3>1 DEF RowInv, JobRows
  <2>3. CASE ToDo(t)
    <3>1. JobRows(Owner[t]) = {}
      BY <1>0, <1>1, <2>1, <2>3 DEF NewInv
    <3>2. ASSUME NEW w \in Worker, Logs(w) \/ CopiesJob(w), Owner[t] = JobOf(w) PROVE FALSE
      <4>1. step[w] # "none" /\ cur'[w] = cur[w]
        BY <1>0, <3>2, LogsMeans, CopiesMeans
      <4>2. cur[w] \in Task /\ Used(cur[w]) /\ Owner[cur[w]] = Owner[t]
        BY <1>0, <3>2, <4>1, CrawlTyped DEF Used, JobOf
      <4>3. Used(t)
        BY <1>0, <2>3, ActiveIsUsed DEF ToDo
      <4>4. t = cur[w]
        BY <1>0, <3>1, <4>2, <4>3, OnlyTask
      <4>5. CASE Logs(w)
        <5>1. step'[w] = "unlock"
          BY <1>0, <4>5, LogsMeans
        <5>2. QED
          BY <1>1, <4>1, <4>4, <5>1 DEF ToDo, Past
      <4>6. CASE CopiesJob(w)
        <5>1. ~Active(t)'
          BY <1>3, <4>1, <4>4, <4>6, Leaves DEF CopiesJob, Moves
        <5>2. QED
          BY <1>1, <5>1 DEF ToDo
      <4>7. QED
        BY <3>2, <4>5, <4>6
    <3>3. ASSUME NEW w \in Worker, Logs(w) \/ CopiesJob(w) PROVE \A r \in jobs' \ jobs : r.job = JobOf(w)
      <4>1. CASE Logs(w)
        BY <1>0, <4>1, LogsMeans
      <4>2. CASE CopiesJob(w)
        <5>1. \E row : row.job = JobOf(w) /\ jobs' = jobs \cup {row}
          BY <1>0, <4>2, CopiesMeans
        <5>2. QED
          BY <5>1
      <4>3. QED
        BY <3>3, <4>1, <4>2
    <3>4. QED
      BY <3>1, <3>2, <3>3, TablesCourse DEF JobRows, db
  <2>4. QED
    BY <2>1, <2>2, <2>3
<1>4. QED
  BY <1>2, <1>3

LEMMA ActiveIsLive ==
    ASSUME NEW t \in Task, Active(t)
    PROVE  Count!Live(Owner[t]) # {}
<1>1. Count!IsLive(t)
  BY DEF Active, Waiting, Current, Count!IsLive, Count!Uncounted
<1>2. QED
  BY <1>1 DEF Count!Live, Count!TasksOf

LEMMA LoneStep ==
    ASSUME Undisturbed, Ground, CourseInv, [Next]_vars
    PROVE  LoneInv'
<1>0. /\ TypeInv /\ RowInv /\ KnownInv /\ Compatible /\ LowerInv /\ OutInv /\ LoneInv
      /\ Possession /\ DepthInv /\ OneAtATime
  BY DEF Ground, CourseInv, QueueInv, Undisturbed
<1>1. SUFFICES ASSUME NEW t \in Task, Active(t)', JobRows(Owner[t])' # {}
               PROVE  Alone(Owner[t])'
  BY DEF LoneInv, Active, Waiting, Current, Alone, Overlaps, JobRows
<1> DEFINE i == Owner[t]
<1>2. i \in Job
  BY CrawlerAssumption
<1>3. CASE UNCHANGED db
  <2>1. jobs' = jobs /\ log' = log
    BY <1>3 DEF db
  <2>2. JobRows(i) # {} /\ (Alone(i) => Alone(i)')
    BY <1>1, <2>1 DEF JobRows, Alone, Overlaps
  <2>3. CASE Active(t)
    BY <1>0, <2>2, <2>3 DEF LoneInv
  <2>4. ASSUME NEW w \in Worker, IncJobCount(w), ~Active(t) PROVE Alone(i)
    <3>1. Owner[t] = JobOf(w)
      BY <1>0, <1>1, <2>4, ActiveStep
    <3>2. cur[w] \in Task /\ Active(cur[w]) /\ Owner[cur[w]] = i
      BY <1>0, <2>4, <3>1, CrawlTyped DEF IncJobCount, At, Possession, Active, Current, JobOf
    <3>3. QED
      BY <1>0, <2>2, <3>2 DEF LoneInv
  <2>5. ASSUME Submit(t) PROVE FALSE
    <3>1. ~Count!Submitted(i)
      BY <2>5 DEF Submit, Count!Submit, Count!Submitted
    <3>2. QED
      BY <1>0, <2>2, <3>1 DEF RowInv, JobRows
  <2>6. QED
    BY <1>1, <2>2, <2>3, <2>4, <2>5, Flow
<1>4. ASSUME NEW w \in Worker, Logs(w) \/ CopiesJob(w) PROVE Alone(Owner[t])'
  <2> DEFINE j == JobOf(w)
  <2>1. /\ step[w] # "none" /\ step[w] # "count" /\ cur'[w] = cur[w] /\ step'[w] # step[w]
        /\ \A r \in (jobs' \ jobs) \cup (log' \ log) : r.job = j
    <3>1. CASE Logs(w)
      BY <1>0, <3>1, LogsMeans DEF LogRowOf
    <3>2. CASE CopiesJob(w)
      <4>1. /\ step[w] = "url" /\ step'[w] = "none" /\ cur'[w] = cur[w]
            /\ \E row : row.job = j /\ jobs' = jobs \cup {row}
            /\ \E k \in Job : log' = log \cup {[job |-> j, url |-> l.url, depth |-> l.depth] :
                                                   l \in {r \in log : r.job = k}}
        BY <1>0, <3>2, CopiesMeans
      <4>2. \A r \in jobs' \ jobs : r.job = j
        BY <4>1
      <4>3. \A r \in log' \ log : r.job = j
        BY <4>1
      <4>4. QED
        BY <4>1, <4>2, <4>3
    <3>3. QED
      BY <1>4, <3>1, <3>2
  <2>2. \A v \in Worker : ~IncJobCount(v)
    BY <2>1 DEF Undisturbed, IncJobCount, At
  <2>3. pc[w] = "crawl" /\ cur[w] \in Task /\ Used(cur[w]) /\ Active(cur[w]) /\ Owner[cur[w]] = j /\ j \in Job
    BY <1>0, <2>1, CrawlTyped DEF Used, Active, Current, JobOf
  <2>4. Active(t)
    <3>1. ~Submit(t)
      BY <2>1 DEF Submit, local
    <3>2. QED
      BY <1>1, <2>2, <3>1, Flow
  <2>5. CASE i # j
    <3>1. JobRows(i) # {}
      BY <1>1, <2>1, <2>5 DEF JobRows
    <3>2. ~Overlaps(j, i)
      BY <1>0, <1>2, <2>3, <2>4, <2>5, ActiveIsLive DEF OneAtATime
    <3>3. Alone(i)
      BY <1>0, <2>4, <3>1 DEF LoneInv
    <3>4. QED
      BY <2>1, <3>2, <3>3 DEF Alone, Overlaps
  <2>6. CASE i = j /\ JobRows(j) # {}
    <3>1. Alone(i)
      BY <1>0, <2>4, <2>6 DEF LoneInv
    <3>2. QED
      BY <2>1, <2>6, <3>1 DEF Alone, Overlaps
  <2>7. CASE i = j /\ JobRows(j) = {}
    <3>1. t = cur[w]
      BY <1>0, <2>3, <2>4, <2>7, ActiveIsUsed, OnlyTask
    <3>2. ~CopiesJob(w)
      BY <1>1, <2>1, <2>2, <3>1, Leaves DEF CopiesJob, Moves
    <3>3. UrlOf(w) \notin urls /\ UrlOf(w) = RootOf(j)
      BY <1>0, <1>4, <2>1, <2>7, <3>2, LogsMeans, InsertedIsRequest DEF DepthInv
    <3>4. ASSUME NEW r \in jobs, SameRequest(r.job, j) PROVE FALSE
      BY <1>0, <3>3, <3>4 DEF DepthInv, JobRowIsRequest, SameRequest, RowInv
    <3>5. ASSUME NEW r \in jobs \cup log, Overlaps(r.job, j) PROVE FALSE
      <4>1. r.job \in Job
        BY <1>0 DEF TypeInv, TablesTyped, JobRow, LogRow
      <4>2. SameRequest(r.job, j)
        BY <1>0, <2>3, <3>5, <4>1 DEF Compatible
      <4>3. \E q \in jobs : q.job = r.job
        BY <1>0 DEF RowInv, JobRows
      <4>4. QED
        BY <3>4, <4>2, <4>3
    <3>6. QED
      BY <2>1, <2>7, <3>5 DEF Alone, Overlaps
  <2>8. QED
    BY <2>5, <2>6, <2>7
<1>5. QED
  BY <1>3, <1>4, TablesCourse

LEMMA CourseHolds ==
    ASSUME Undisturbed
    PROVE  Spec => []CourseInv
<1>1. Ground /\ CourseInv /\ [Next]_vars => CourseInv'
  <2> SUFFICES ASSUME Ground, CourseInv, [Next]_vars PROVE CourseInv'
    OBVIOUS
  <2>1. KnownInv' /\ OutInv' /\ ReadyInv' /\ RowInv' /\ NewInv' /\ LoneInv'
    BY KnownStep, ReadyStep, RowStep, NewStep, LoneStep DEF CourseInv
  <2>2. SentInv' /\ FirstInv' /\ LowerInv' /\ BreadthInv' /\ FrontInv'
    BY SentStep, FirstStep, LowerStep, BreadthStep, FrontStep DEF Ground, CourseInv, QueueInv
  <2>3. QED
    BY <2>1, <2>2 DEF CourseInv, QueueInv
<1>2. QED
  BY <1>1, CourseInit, GroundHolds, PTL DEF Spec

-----------------------------------------------------------------------------
(* What is still owed to a job *)

\* Page p was logged for job j, at most d links from its root.
Logged(j, p, d) == \E r \in log : r.job = j /\ r.url = p /\ r.depth <= d

\* It was, or a task that is to be done, or a sub-job that was found, will see to it.
Promise(j, p, d) ==
    \/ Logged(j, p, d)
    \/ \E t \in Task : /\ Owner[t] = j /\ ToDo(t)
                       /\ Norm[work[t].href] = p /\ work[t].depth >= Depth[j] - d
    \/ \E w \in Worker : /\ step[w] = "count" /\ JobOf(w) = j
                         /\ \E o \in mem[w].out : Norm[o.href] = p /\ o.depth >= Depth[j] - d

\* A crawler is about to look for the sub-jobs of a page it has logged.
Expanding(r) ==
    \E w \in Worker : /\ step[w] \in {"unlock", "visited"}
                      /\ JobOf(w) = r.job /\ UrlOf(w) = r.url
                      /\ DepthOf(w) = Depth[r.job] - r.depth

RootInv == \A j \in Job : Count!Submitted(j) => Promise(j, RootOf(j), 0)
ExpandInv ==
    \A r \in log : r.depth + 1 < Depth[r.job] =>
        Expanding(r) \/ \A h \in Web[r.url] : Promise(r.job, Norm[h], r.depth + 1)

\* Breadth first: what is logged is not farther from the root than what is to come.
LogOrder ==
    \A r \in log, t \in Task :
        Owner[t] = r.job /\ Active(t) => r.depth + work[t].depth <= Depth[r.job]

OweInv == RootInv /\ ExpandInv /\ LogOrder

LEMMA OweInit == Init => OweInv
  BY DEF Init, Count!Init, OweInv, RootInv, ExpandInv, LogOrder, Count!Submitted, Count!TasksOf

LEMMA LogGrows ==
    ASSUME [Next]_vars
    PROVE  log \subseteq log'
  BY DbStep DEF db, AddsJob, Inserts, Copies

LEMMA LogOrderStep ==
    ASSUME Undisturbed, Ground, CourseInv, LogOrder, [Next]_vars
    PROVE  LogOrder'
<1>0. /\ \A v, w \in Worker : v = w
      /\ TypeInv /\ Possession /\ DepthInv /\ RowInv /\ KnownInv /\ LowerInv /\ OutInv /\ BreadthInv /\ FrontInv
      /\ Compatible
  BY DEF Undisturbed, Ground, CourseInv, QueueInv
<1>1. SUFFICES ASSUME NEW r \in log', NEW t \in Task, Owner[t] = r.job, Active(t)'
               PROVE  r.depth + work'[t].depth <= Depth[r.job]
  BY DEF LogOrder, Active, Waiting, Current
<1>2. r \in log => r.depth \in Int /\ r.job \in Job
  BY <1>0 DEF TypeInv, TablesTyped, LogRow
<1>3. ASSUME NEW w \in Worker, IncJobCount(w) PROVE r.depth + work'[t].depth <= Depth[r.job]
  <2>1. /\ step[w] = "count" /\ log' = log /\ cur[w] \in Task /\ Active(cur[w])
        /\ JobOf(w) = Owner[cur[w]] /\ DepthOf(w) = work[cur[w]].depth
    BY <1>0, <1>3 DEF IncJobCount, At, db, Possession, Active, Current, JobOf, DepthOf
  <2>2. \/ Active(t) /\ t # cur[w] /\ work'[t] = work[t]
        \/ Owner[t] = JobOf(w) /\ work'[t].depth = DepthOf(w) - 1
    BY <1>0, <1>1, <1>3, ActiveStep
  <2>3. CASE Active(t) /\ work'[t] = work[t]
    BY <1>1, <2>1, <2>3 DEF LogOrder
  <2>4. CASE Owner[t] = JobOf(w) /\ work'[t].depth = DepthOf(w) - 1
    <3>1. r.depth + DepthOf(w) <= Depth[r.job]
      BY <1>1, <2>1, <2>4 DEF LogOrder
    <3>2. DepthOf(w) \in Nat /\ Depth[r.job] \in Nat /\ r.depth \in Int
      BY <1>0, <1>1, <1>2, <2>1, RootTyped DEF TypeInv, TablesTyped, Work
    <3>3. QED
      BY <2>4, <3>1, <3>2
  <2>5. QED
    BY <2>2, <2>3, <2>4
<1>4. ASSUME \A w \in Worker : ~IncJobCount(w) PROVE r.depth + work'[t].depth <= Depth[r.job]
  <2>1. (Active(t) \/ Submit(t)) /\ work'[t] = work[t]
    BY <1>1, <1>4, Flow
  <2>2. CASE r \in log
    <3>1. ~Submit(t)
      <4>1. Count!Submitted(r.job)
        BY <1>0, <2>2 DEF RowInv, JobRows
      <4>2. QED
        BY <1>1, <4>1 DEF Submit, Count!Submit, Count!Submitted
    <3>2. QED
      BY <1>1, <2>1, <2>2, <3>1 DEF LogOrder
  <2>3. ASSUME r \notin log, NEW w \in Worker, Logs(w)
        PROVE  r.depth + work'[t].depth <= Depth[r.job]
    <3>1. step[w] = "insert" /\ r = LogRowOf(w)
      BY <1>0, <1>1, <2>3, LogsMeans
    <3>2. r.job = JobOf(w) /\ r.depth = Depth[JobOf(w)] - DepthOf(w)
      BY <3>1 DEF LogRowOf
    <3>3. cur[w] \in Task /\ pc[w] = "crawl" /\ Active(cur[w]) /\ Owner[cur[w]] = JobOf(w) /\ JobOf(w) \in Job
      BY <1>0, <3>1, CrawlTyped DEF Active, Current, JobOf
    <3>4. Active(t)
      BY <2>1, <2>3, <3>1 DEF Submit, Logs, Inserts, Moves, local
    <3>5. cur[w] <= t
      BY <1>0, <1>1, <3>2, <3>3, <3>4 DEF FrontInv
    <3>6. cur[w] = t \/ cur[w] < t
      BY <3>3, <3>5, CrawlerAssumption
    <3>7. work[t].depth \in Nat /\ DepthOf(w) \in Nat /\ Depth[JobOf(w)] \in Nat
      BY <1>0, <3>3, RootTyped DEF TypeInv, TablesTyped, Work, DepthOf
    <3>8. work[t].depth <= DepthOf(w)
      BY <1>0, <1>1, <3>2, <3>3, <3>4, <3>6, <3>7 DEF BreadthInv, DepthOf
    <3>9. QED
      BY <2>1, <3>2, <3>7, <3>8
  <2>4. ASSUME r \notin log, NEW w \in Worker, CopiesJob(w) PROVE FALSE
    <3>1. /\ step[w] = "url" /\ step'[w] = "none" /\ JobRows(JobOf(w)) = {}
          /\ \E i \in Job : log' = log \cup {[job |-> JobOf(w), url |-> l.url, depth |-> l.depth] :
                                                 l \in {q \in log : q.job = i}}
      BY <1>0, <2>4, CopiesMeans
    <3>2. r.job = JobOf(w)
      BY <1>1, <2>4, <3>1
    <3>3. cur[w] \in Task /\ Used(cur[w]) /\ Owner[cur[w]] = JobOf(w)
      BY <1>0, <3>1, CrawlTyped DEF Used, JobOf
    <3>4. Used(t)
      BY <1>0, <2>1, <2>4, <3>1, ActiveIsUsed DEF Submit, CopiesJob, Moves, local
    <3>5. t = cur[w]
      BY <1>0, <1>1, <3>1, <3>2, <3>3, <3>4, OnlyTask
    <3>6. pc'[w] # "crawl"
      BY <2>4 DEF CopiesJob, Moves
    <3>7. QED
      BY <1>1, <1>4, <3>1, <3>5, <3>6, Leaves
  <2>5. QED
    BY <1>1, <2>2, <2>3, <2>4, TablesCourse DEF db
<1>5. QED
  BY <1>3, <1>4

\* A job that is copied from owes nothing: it is not at work.
LEMMA SourceIsDone ==
    ASSUME Undisturbed, Ground, NEW w \in Worker, step[w] # "none",
           NEW i \in Job, i # JobOf(w), SameRequest(i, JobOf(w)),
           NEW p, NEW d, Promise(i, p, d)
    PROVE  Logged(i, p, d)
<1> DEFINE j == JobOf(w)
<1>1. /\ \A v \in Worker : v = w
      /\ TypeInv /\ OneAtATime
  BY DEF Undisturbed, Ground
<1>2. j \in Job /\ Count!Live(j) # {}
  <2>1. cur[w] \in Task /\ Active(cur[w]) /\ Owner[cur[w]] = j /\ j \in Job
    BY <1>1, CrawlTyped DEF Active, Current, JobOf
  <2>2. QED
    BY <2>1, ActiveIsLive
<1>3. Overlaps(i, j)
  <2>1. RootOf(i) \in Site(i) /\ RootOf(j) \in Site(j) /\ RootOf(i) = RootOf(j)
    BY <1>2, RootInSite DEF SameRequest
  <2>2. QED
    BY <2>1 DEF Overlaps
<1>4. Count!Live(i) = {}
  BY <1>1, <1>2, <1>3 DEF OneAtATime
<1>5. ~\E t \in Task : Owner[t] = i /\ ToDo(t)
  BY <1>4, ActiveIsLive DEF ToDo
<1>6. ~\E v \in Worker : JobOf(v) = i
  BY <1>1
<1>7. QED
  BY <1>5, <1>6 DEF Promise

\* What is owed stays owed until it is logged.
LEMMA PromiseStays ==
    ASSUME Undisturbed, Ground, CourseInv, RootInv, [Next]_vars,
           NEW j \in Job, NEW p, NEW d \in Nat, Promise(j, p, d)
    PROVE  Promise(j, p, d)'
<1>0. /\ \A v, w \in Worker : v = w
      /\ TypeInv /\ Possession /\ DepthInv /\ RowInv /\ KnownInv /\ Compatible /\ Ordered
      /\ pc \in [Worker -> Count!PCs]
  BY DEF Undisturbed, Ground, CourseInv, TypeInv, Basis, Count!TypeOK
<1>1. CASE Logged(j, p, d)
  BY <1>1, LogGrows DEF Promise, Logged
<1>2. ASSUME NEW t \in Task, Owner[t] = j, ToDo(t),
             Norm[work[t].href] = p, work[t].depth >= Depth[j] - d
      PROVE  Promise(j, p, d)'
  <2>1. work'[t] = work[t]
    BY <1>2, Kept
  <2>2. CASE ToDo(t)'
    BY <1>2, <2>1, <2>2 DEF Promise
  <2>3. ASSUME NEW w \in Worker, cur[w] = t, Logs(w) PROVE Promise(j, p, d)'
    <3>1. LogRowOf(w) \in log'
      BY <1>0, <2>3, LogsMeans
    <3>2. /\ LogRowOf(w).job = j /\ LogRowOf(w).url = p
          /\ LogRowOf(w).depth = Depth[j] - work[t].depth
      BY <1>2, <2>3 DEF LogRowOf, JobOf, UrlOf, DepthOf
    <3>3. work[t].depth \in Nat /\ Depth[j] \in Nat
      BY <1>0, RootTyped DEF TypeInv, TablesTyped, Work
    <3>4. Depth[j] - work[t].depth <= d
      BY <1>2, <3>3
    <3>5. QED
      BY <3>1, <3>2, <3>4 DEF Promise, Logged
  <2>4. ASSUME NEW w \in Worker, cur[w] = t, CopiesJob(w) PROVE Promise(j, p, d)'
    <3>1. j = JobOf(w) /\ UrlOf(w) = p
      BY <1>2, <2>4 DEF JobOf, UrlOf
    <3>2. /\ step[w] = "url" /\ UrlOf(w) = RootOf(j)
          /\ \E i \in Job :
                /\ i # j /\ SameRequest(i, j) /\ JobRows(i) # {}
                /\ log' = log \cup {[job |-> j, url |-> l.url, depth |-> l.depth] :
                                       l \in {r \in log : r.job = i}}
      BY <1>0, <2>4, <3>1, CopiesMeans
    <3>3. PICK i \in Job :
                /\ i # j /\ SameRequest(i, j) /\ JobRows(i) # {}
                /\ log' = log \cup {[job |-> j, url |-> l.url, depth |-> l.depth] :
                                       l \in {r \in log : r.job = i}}
      BY <3>2
    <3>4. Promise(i, RootOf(i), 0)
      <4>1. Count!Submitted(i)
        BY <1>0, <3>3 DEF RowInv, JobRows
      <4>2. QED
        BY <4>1 DEF RootInv
    <3>5. Logged(i, RootOf(i), 0)
      BY <3>1, <3>2, <3>3, <3>4, SourceIsDone
    <3>6. PICK l \in log : l.job = i /\ l.url = RootOf(i) /\ l.depth <= 0
      BY <3>5 DEF Logged
    <3>7. [job |-> j, url |-> l.url, depth |-> l.depth] \in log'
      BY <3>3, <3>6
    <3>8. l.url = p /\ l.depth <= d
      <4>1. l.depth \in Int
        BY <1>0 DEF TypeInv, TablesTyped, LogRow
      <4>2. QED
        BY <3>1, <3>2, <3>3, <3>6, <4>1 DEF SameRequest
    <3>9. QED
      BY <3>7, <3>8 DEF Promise, Logged
  <2>5. QED
    BY <1>2, <2>2, <2>3, <2>4, Kept
<1>3. ASSUME NEW w \in Worker, step[w] = "count", JobOf(w) = j, NEW o \in mem[w].out,
             Norm[o.href] = p, o.depth >= Depth[j] - d
      PROVE  Promise(j, p, d)'
  <2>0. pc[w] = "crawl" /\ cur[w] \in Task
    BY <1>0, <1>3, CrawlTyped
  <2>1. CASE Outside
    <3>1. step'[w] = "count" /\ cur'[w] = cur[w] /\ mem'[w] = mem[w]
      BY <1>0, <1>3, <2>0, <2>1 DEF Outside, local
    <3>2. JobOf(w)' = j
      BY <1>3, <3>1 DEF JobOf
    <3>3. QED
      BY <1>3, <3>1, <3>2 DEF Promise
  <2>2. CASE IncJobCount(w)
    <3>1. PICK S, carried :
            /\ S \subseteq Task /\ carried \in [S -> mem[w].out]
            /\ \A t \in S : Owner[t] = JobOf(w) /\ ~Used(t)
            /\ \A t \in S, u \in Task : Owner[u] = JobOf(w) /\ ~Used(u) /\ u < t => u \in S
            /\ \A q \in mem[w].out : \E t \in S : carried[t] = q
            /\ work' = [t \in Task |-> IF t \in S THEN carried[t] ELSE work[t]]
            /\ place' = [t \in Task |-> IF t \in S THEN "promised" ELSE place[t]]
            /\ pc' = [pc EXCEPT ![w] = "send"] /\ cur' = cur
      BY <1>0, <2>2, SubJobsInOrder
    <3>2. PICK t \in S : carried[t] = o
      BY <1>3, <3>1
    <3>3. t \in Task /\ Owner[t] = j /\ work'[t] = o /\ place'[t] = "promised"
      BY <1>3, <3>1, <3>2
    <3>4. step'[w] = "none"
      BY <1>0, <2>2, LastMoves DEF Moves
    <3>5. ToDo(t)'
      BY <1>0, <3>3, <3>4 DEF ToDo, Active, Waiting, Past
    <3>6. QED
      BY <1>3, <3>3, <3>5 DEF Promise
  <2>3. ~Crash(w)
    BY <2>0 DEF Undisturbed, Crash, Count!Crash
  <2>4. Course(w) => IncJobCount(w)
    BY <1>3 DEF Course, Walk, Ends, Finds, CopiesJob, Logs, Inserts, Goes
  <2>5. QED
    BY <1>0, <2>1, <2>2, <2>3, <2>4, CourseStep
<1>4. QED
  BY <1>1, <1>2, <1>3 DEF Promise

LEMMA RootStep ==
    ASSUME Undisturbed, Ground, CourseInv, RootInv, [Next]_vars
    PROVE  RootInv'
<1>1. SUFFICES ASSUME NEW j \in Job, Count!Submitted(j)' PROVE Promise(j, RootOf(j), 0)'
  BY DEF RootInv, RootOf
<1>2. CASE Count!Submitted(j)
  <2>1. Promise(j, RootOf(j), 0)
    BY <1>2 DEF RootInv
  <2>2. QED
    BY <2>1, PromiseStays
<1>3. CASE ~Count!Submitted(j)
  <2>0. TypeInv /\ Possession /\ WorkInv
    BY DEF Ground, DepthInv
  <2>1. PICK t \in Task : Owner[t] = j /\ Submit(t)
    BY <1>1, <1>3, <2>0, SubmittedStep
  <2>2. place[t] = "unused" /\ place'[t] = "pushing" /\ UNCHANGED <<work, cur, step>>
    BY <2>0, <2>1 DEF Submit, Count!Submit, Count!Move, local, Count!TasksOf
  <2>3. work[t] = Request(j)
    BY <2>0, <2>1, <2>2 DEF WorkInv, Used
  <2>4. \A w \in Worker : step[w] # "none" => cur[w] # t
    BY <2>0, <2>2, CrawlTyped DEF Possession
  <2>5. ToDo(t)'
    BY <2>2, <2>4 DEF ToDo, Active, Waiting, Past
  <2>6. Norm[work'[t].href] = RootOf(j) /\ work'[t].depth >= Depth[j] - 0
    BY <2>2, <2>3, RootTyped DEF Request, RootOf
  <2>7. QED
    BY <2>1, <2>5, <2>6 DEF Promise
<1>4. QED
  BY <1>2, <1>3

\* check_if_visited drops a target that is in table url: this job has logged it, and
\* not farther from the root than it would be from here.
LEMMA Dropped ==
    ASSUME Undisturbed, Ground, CourseInv, LogOrder,
           NEW w \in Worker, step[w] = "visited",
           NEW r \in log, r.job = JobOf(w), r.url = UrlOf(w), DepthOf(w) = Depth[r.job] - r.depth,
           r.depth + 1 < Depth[r.job],
           NEW h \in Web[r.url], h \in urls
    PROVE  Logged(r.job, Norm[h], r.depth + 1)
<1> DEFINE j == JobOf(w)
<1>1. TypeInv /\ DepthInv /\ RowInv /\ pc[w] = "crawl" /\ JobRows(j) # {}
  BY DEF Ground, CourseInv, TypeInv, LocalsTyped, DepthInv, LocalInv, Local
<1>2. /\ j \in Job /\ cur[w] \in Task /\ Owner[cur[w]] = j /\ Active(cur[w])
      /\ Depth[j] \in Nat /\ RootOf(j) \in Page
  BY <1>1, CrawlTyped, RootTyped DEF Active, Current, JobOf
<1>3. r.depth \in 0..(Depth[j] - 1) /\ r.url \in Hops(RootOf(j), r.depth)
  BY <1>1 DEF DepthInv, LoggedAtHop
<1>4. Norm[h] \in Hops(RootOf(j), r.depth + 1)
  BY <1>2, <1>3, HopStep
<1>5. Norm[h] = h
  BY <1>1, CrawlerAssumption DEF TypeInv, TablesTyped
<1>6. PICK q \in log : q.url = h
  BY <1>1 DEF RowInv
<1>7. q.job \in Job /\ q.depth \in 0..(Depth[q.job] - 1) /\ q.url \in Hops(RootOf(q.job), q.depth)
  BY <1>1 DEF DepthInv, LoggedAtHop, TypeInv, TablesTyped, LogRow
<1>8. h \in Site(j)
  <2>1. r.depth + 1 \in 0..(Depth[j] - 1)
    BY <1>2, <1>3
  <2>2. QED
    BY <1>2, <1>4, <1>5, <2>1, HopInSite
<1>9. h \in Site(q.job)
  BY <1>6, <1>7, HopInSite
<1>10. q.job = j
  <2>1. Alone(j)
    BY <1>1, CourseBasis
  <2>2. Overlaps(q.job, j)
    BY <1>8, <1>9 DEF Overlaps
  <2>3. QED
    BY <2>1, <2>2 DEF Alone
<1>11. q.depth + work[cur[w]].depth <= Depth[j]
  BY <1>2, <1>10 DEF LogOrder
<1>12. q.depth <= r.depth + 1
  BY <1>2, <1>3, <1>7, <1>10, <1>11 DEF DepthOf
<1>13. QED
  BY <1>5, <1>6, <1>10, <1>12 DEF Logged

LEMMA ExpandStep ==
    ASSUME Undisturbed, Ground, CourseInv, OweInv, [Next]_vars
    PROVE  ExpandInv'
<1>0. /\ \A v, w \in Worker : v = w
      /\ TypeInv /\ Possession /\ DepthInv /\ RowInv /\ KnownInv /\ Compatible
      /\ RootInv /\ ExpandInv /\ LogOrder
  BY DEF Undisturbed, Ground, CourseInv, OweInv
<1>1. SUFFICES ASSUME NEW r \in log', r.depth + 1 < Depth[r.job]
               PROVE  Expanding(r)' \/ \A h \in Web[r.url] : Promise(r.job, Norm[h], r.depth + 1)'
  BY DEF ExpandInv
<1>2. ASSUME r \in log, NEW h \in Web[r.url], Promise(r.job, Norm[h], r.depth + 1)
      PROVE  Promise(r.job, Norm[h], r.depth + 1)'
  <2>1. r.job \in Job /\ r.depth + 1 \in Nat
    BY <1>0, <1>2 DEF TypeInv, TablesTyped, LogRow, DepthInv, LoggedAtHop
  <2>2. QED
    BY <1>0, <1>2, <2>1, PromiseStays
<1>3. ASSUME r \in log, NEW w \in Worker, step[w] \in {"unlock", "visited"},
             JobOf(w) = r.job, UrlOf(w) = r.url, DepthOf(w) = Depth[r.job] - r.depth
      PROVE  Expanding(r)' \/ \A h \in Web[r.url] : Promise(r.job, Norm[h], r.depth + 1)'
  <2>0. pc[w] = "crawl" /\ DepthOf(w) > 1 /\ DepthOf(w) \in Nat
    <3>1. /\ pc[w] = "crawl" /\ Depth[r.job] \in Nat
      BY <1>0, <1>3, CrawlTyped, RootTyped
    <3>2. r.depth \in 0..(Depth[r.job] - 1)
      BY <1>0, <1>3 DEF DepthInv, LoggedAtHop
    <3>3. QED
      BY <1>1, <1>3, <3>1, <3>2
  <2>1. ASSUME step'[w] \in {"unlock", "visited"}, cur'[w] = cur[w] PROVE Expanding(r)'
    <3>1. JobOf(w)' = JobOf(w) /\ UrlOf(w)' = UrlOf(w) /\ DepthOf(w)' = DepthOf(w)
      BY <1>0, <1>3, <2>1, SameTask
    <3>2. QED
      BY <1>3, <2>1, <3>1 DEF Expanding
  <2>2. CASE Outside
    <3>1. step'[w] = step[w] /\ cur'[w] = cur[w]
      BY <2>0, <2>2 DEF Outside, local
    <3>2. QED
      BY <1>3, <2>1, <3>1
  <2>3. CASE Walk(w)
    <3>1. step'[w] = "visited" /\ cur'[w] = cur[w]
      BY <1>3, <2>3 DEF Walk, Goes, Moves
    <3>2. QED
      BY <2>1, <3>1
  <2>4. ASSUME step[w] = "visited", NEW h \in Web[r.url], h \in urls
        PROVE  Promise(r.job, Norm[h], r.depth + 1)'
    <3>1. Logged(r.job, Norm[h], r.depth + 1)
      BY <1>0, <1>1, <1>3, <2>4, Dropped
    <3>2. QED
      BY <1>2, <1>3, <2>4, <3>1 DEF Promise
  <2>5. CASE Ends(w)
    <3>1. step[w] = "visited" /\ Unvisited(Web[r.url]) = {}
      BY <1>3, <2>0, <2>5 DEF Ends, Goes
    <3>2. \A h \in Web[r.url] : h \in urls
      BY <3>1 DEF Unvisited
    <3>3. QED
      BY <2>4, <3>1, <3>2
  <2>6. CASE Finds(w)
    <3> DEFINE out == SubJobs(Unvisited(Web[UrlOf(w)]), DepthOf(w) - 1)
    <3>1. step[w] = "visited" /\ step'[w] = "count" /\ cur'[w] = cur[w] /\ mem'[w] = [Blank EXCEPT !.out = out]
      BY <2>6 DEF Finds, Goes, Moves
    <3>2. mem'[w].out = out
      BY <3>1 DEF Blank
    <3>3. JobOf(w)' = r.job
      BY <1>3, <3>1 DEF JobOf
    <3>4. ASSUME NEW h \in Web[r.url], h \notin urls PROVE Promise(r.job, Norm[h], r.depth + 1)'
      <4> DEFINE o == [href |-> h, depth |-> DepthOf(w) - 1]
      <4>1. o \in out
        BY <1>3, <3>4 DEF SubJobs, Unvisited
      <4>2. o.depth >= Depth[r.job] - (r.depth + 1)
        <5>1. r.depth \in Int /\ Depth[r.job] \in Nat
          BY <1>0, <1>3, RootTyped DEF TypeInv, TablesTyped, LogRow
        <5>2. QED
          BY <1>3, <5>1
      <4>3. o.href = h
        OBVIOUS
      <4> HIDE DEF o, out
      <4>4. QED
        BY <3>1, <3>2, <3>3, <4>1, <4>2, <4>3 DEF Promise
    <3>5. QED
      BY <2>4, <3>1, <3>4
  <2>7. ~CopiesJob(w) /\ ~Logs(w) /\ ~IncJobCount(w)
    BY <1>3 DEF CopiesJob, Logs, Inserts, IncJobCount, At
  <2>8. ~Crash(w)
    BY <2>0 DEF Undisturbed, Crash, Count!Crash
  <2>9. QED
    BY <1>0, <2>2, <2>3, <2>5, <2>6, <2>7, <2>8, CourseStep DEF Course
<1>4. CASE r \in log
  <2>1. Expanding(r) \/ \A h \in Web[r.url] : Promise(r.job, Norm[h], r.depth + 1)
    BY <1>0, <1>1, <1>4 DEF ExpandInv
  <2>2. CASE Expanding(r)
    BY <1>3, <1>4, <2>2 DEF Expanding
  <2>3. QED
    BY <1>2, <1>4, <2>1, <2>2
<1>5. ASSUME NEW w \in Worker, r \notin log, Logs(w) PROVE Expanding(r)'
  <2>1. step[w] = "insert" /\ step'[w] = "unlock" /\ cur'[w] = cur[w] /\ r = LogRowOf(w)
    BY <1>0, <1>1, <1>5, LogsMeans
  <2>2. JobOf(w)' = JobOf(w) /\ UrlOf(w)' = UrlOf(w) /\ DepthOf(w)' = DepthOf(w)
    BY <1>0, <2>1, SameTask
  <2>3. r.job = JobOf(w) /\ r.url = UrlOf(w) /\ r.depth = Depth[JobOf(w)] - DepthOf(w)
    BY <2>1 DEF LogRowOf
  <2>4. DepthOf(w) \in Nat /\ Depth[JobOf(w)] \in Nat
    BY <1>0, <2>1, CrawlTyped, RootTyped
  <2>5. DepthOf(w) = Depth[r.job] - r.depth
    BY <2>3, <2>4
  <2>6. QED
    BY <2>1, <2>2, <2>3, <2>5 DEF Expanding
<1>6. ASSUME NEW w \in Worker, r \notin log, CopiesJob(w)
      PROVE  \A h \in Web[r.url] : Promise(r.job, Norm[h], r.depth + 1)'
  <2> DEFINE j == JobOf(w)
  <2>1. /\ step[w] = "url"
        /\ \E i \in Job :
              /\ i # j /\ SameRequest(i, j) /\ JobRows(i) # {}
              /\ log' = log \cup {[job |-> j, url |-> l.url, depth |-> l.depth] :
                                     l \in {q \in log : q.job = i}}
    BY <1>0, <1>6, CopiesMeans
  <2>2. PICK i \in Job :
              /\ i # j /\ SameRequest(i, j) /\ JobRows(i) # {}
              /\ log' = log \cup {[job |-> j, url |-> l.url, depth |-> l.depth] :
                                     l \in {q \in log : q.job = i}}
    BY <2>1
  <2>3. PICK l \in log : l.job = i /\ r = [job |-> j, url |-> l.url, depth |-> l.depth]
    BY <1>1, <1>6, <2>2
  <2>4. r.job = j /\ r.url = l.url /\ r.depth = l.depth
    BY <2>3
  <2>5. ~Expanding(l)
    BY <1>0, <2>2, <2>3 DEF Expanding
  <2>6. l.depth + 1 < Depth[l.job]
    BY <1>1, <2>2, <2>3, <2>4 DEF SameRequest
  <2>7. \A h \in Web[l.url] : Promise(i, Norm[h], l.depth + 1)
    BY <1>0, <2>3, <2>5, <2>6 DEF ExpandInv
  <2>8. ASSUME NEW h \in Web[r.url] PROVE Promise(r.job, Norm[h], r.depth + 1)'
    <3>1. Logged(i, Norm[h], l.depth + 1)
      <4>1. Promise(i, Norm[h], l.depth + 1)
        BY <2>4, <2>7, <2>8
      <4>2. QED
        BY <2>1, <2>2, <4>1, SourceIsDone
    <3>2. PICK q \in log : q.job = i /\ q.url = Norm[h] /\ q.depth <= l.depth + 1
      BY <3>1 DEF Logged
    <3>3. [job |-> j, url |-> q.url, depth |-> q.depth] \in log'
      BY <2>2, <3>2
    <3>4. QED
      BY <2>4, <3>2, <3>3 DEF Promise, Logged
  <2>9. QED
    BY <2>8
<1>7. QED
  BY <1>1, <1>4, <1>5, <1>6, TablesCourse DEF db

LEMMA OweHolds ==
    ASSUME Undisturbed
    PROVE  Spec => []OweInv
<1>1. Ground /\ CourseInv /\ OweInv /\ [Next]_vars => OweInv'
  BY RootStep, ExpandStep, LogOrderStep DEF OweInv
<1>2. QED
  BY <1>1, OweInit, GroundHolds, CourseHolds, PTL DEF Spec

-----------------------------------------------------------------------------
(* The crawl is complete *)

\* A set of numbers has a least one.
LEMMA LeastElement ==
    ASSUME NEW T, T \subseteq Nat, T # {}
    PROVE  \E x \in T : \A y \in T : x <= y
<1> DEFINE R == OpToRel(<, Nat)
<1>1. IsWellFoundedOn(R, Nat)
  BY NatLessThanWellFounded
<1>2. \A x, y \in Nat : x < y => <<x, y>> \in R
  BY DEF OpToRel
<1> HIDE DEF R
<1>3. PICK x \in T : \A y \in T : ~(<<y, x>> \in R)
  BY <1>1, WFMin
<1>4. ASSUME NEW y \in T PROVE x <= y
  <2>1. x \in Nat /\ y \in Nat /\ ~(y < x)
    BY <1>2, <1>3
  <2>2. QED
    BY <2>1
<1>5. QED
  BY <1>4

\* A page that is k + 1 links away is the target of one that is k links away.
LEMMA HopBefore ==
    ASSUME NEW j \in Job, NEW p \in Page, NEW k \in Nat, k + 1 <= Depth[j],
           NEW q \in Hops(p, k + 1)
    PROVE  \E b \in Hops(p, k) : \E h \in Web[b] : q = Norm[h]
<1>1. Depth[j] \in Nat /\ k \in 0..Depth[j] /\ k + 1 \in 0..Depth[j]
  BY CrawlerAssumption
<1>2. PICK f \in Walks(p, k + 1) : q = f[k + 1]
  BY <1>1, HopDomain
<1>3. f \in [0..(k + 1) -> Page] /\ f[0] = p /\ \A i \in 1..(k + 1) : f[i] \in Targets(f[i - 1])
  BY <1>2 DEF Walks
<1> DEFINE g == [i \in 0..k |-> f[i]]
<1>4. g \in Walks(p, k)
  <2>1. g \in [0..k -> Page] /\ g[0] = p
    BY <1>3
  <2>2. ASSUME NEW i \in 1..k PROVE g[i] \in Targets(g[i - 1])
    <3>1. i \in 1..(k + 1) /\ g[i] = f[i] /\ g[i - 1] = f[i - 1]
      OBVIOUS
    <3>2. QED
      BY <1>3, <3>1
  <2>3. QED
    BY <2>1, <2>2 DEF Walks
<1>5. g[k] = f[k]
  OBVIOUS
<1>6. f[k] \in Hops(p, k)
  BY <1>1, <1>4, <1>5, HopDomain
<1>7. q \in Targets(f[k])
  <2>1. k + 1 \in 1..(k + 1) /\ (k + 1) - 1 = k
    OBVIOUS
  <2>2. QED
    BY <1>2, <1>3, <2>1
<1>8. QED
  BY <1>6, <1>7 DEF Targets

\* A job that is not at work has nothing outstanding.
LEMMA OwedIsLogged ==
    ASSUME Ground, NEW j \in Job, Count!Live(j) = {}, NEW p, NEW d, Promise(j, p, d)
    PROVE  Logged(j, p, d)
<1>1. ~\E t \in Task : Owner[t] = j /\ ToDo(t)
  BY ActiveIsLive DEF ToDo
<1>2. ASSUME NEW w \in Worker, step[w] # "none" PROVE JobOf(w) # j
  <2>1. cur[w] \in Task /\ Active(cur[w]) /\ Owner[cur[w]] = JobOf(w)
    BY <1>2, CrawlTyped DEF Ground, Active, Current, JobOf
  <2>2. QED
    BY <2>1, ActiveIsLive
<1>3. QED
  BY <1>1, <1>2 DEF Promise

LEMMA AnnouncedIsLogged ==
    ASSUME Ground, OweInv, NEW j \in Job, told[j] > 0,
           NEW n \in 0..(Depth[j] - 1), NEW q \in Hops(RootOf(j), n)
    PROVE  Logged(j, q, n)
<1>1. RootOf(j) \in Page /\ Depth[j] \in Nat
  BY RootTyped
<1>2. Count!Live(j) = {} /\ Count!Submitted(j) /\ TypeInv /\ LoggedAtHop
  BY DEF Ground, Count!CompletedMeansDone, AnnouncedInv, DepthInv
<1> DEFINE Bad == {k \in 0..(Depth[j] - 1) : ~\A p \in Hops(RootOf(j), k) : Logged(j, p, k)}
<1>3. ASSUME NEW k \in Bad, \A i \in Bad : k <= i PROVE FALSE
  <2>1. k \in 0..(Depth[j] - 1) /\ ~\A p \in Hops(RootOf(j), k) : Logged(j, p, k)
    OBVIOUS
  <2>2. PICK p \in Hops(RootOf(j), k) : ~Logged(j, p, k)
    BY <2>1
  <2>3. CASE k = 0
    <3>1. p = RootOf(j)
      <4>1. 0 \in 0..Depth[j]
        BY <1>1
      <4>2. PICK f \in Walks(RootOf(j), 0) : p = f[0]
        BY <1>1, <2>2, <2>3, <4>1, HopDomain
      <4>3. QED
        BY <4>2 DEF Walks
    <3>2. Promise(j, RootOf(j), 0)
      BY <1>2 DEF OweInv, RootInv
    <3>3. QED
      BY <1>2, <2>2, <2>3, <3>1, <3>2, OwedIsLogged
  <2>4. CASE k # 0
    <3>1. k - 1 \in 0..(Depth[j] - 1) /\ k - 1 \in Nat /\ (k - 1) + 1 = k /\ k <= Depth[j] /\ ~(k <= k - 1)
      BY <1>1, <2>1, <2>4
    <3>2. k - 1 \notin Bad
      BY <1>3, <3>1
    <3>3. \A b \in Hops(RootOf(j), k - 1) : Logged(j, b, k - 1)
      BY <3>1, <3>2
    <3> HIDE DEF Bad
    <3>4. PICK b \in Hops(RootOf(j), k - 1) : \E h \in Web[b] : p = Norm[h]
      <4> DEFINE i == k - 1
      <4>1. i \in Nat /\ i + 1 <= Depth[j] /\ p \in Hops(RootOf(j), i + 1)
        BY <2>2, <3>1
      <4> HIDE DEF i
      <4>2. \E b \in Hops(RootOf(j), i) : \E h \in Web[b] : p = Norm[h]
        BY <1>1, <4>1, HopBefore
      <4>3. QED
        BY <4>2 DEF i
    <3>5. PICK h \in Web[b] : p = Norm[h]
      BY <3>4
    <3>6. PICK r \in log : r.job = j /\ r.url = b /\ r.depth <= k - 1
      BY <3>3, <3>4 DEF Logged
    <3>7. r.depth \in Nat /\ r.depth + 1 < Depth[r.job] /\ r.depth + 1 <= k
      BY <1>1, <1>2, <2>1, <3>6 DEF LoggedAtHop
    <3>8. ~Expanding(r)
      <4>1. ASSUME NEW w \in Worker, step[w] # "none" PROVE JobOf(w) # j
        <5>1. cur[w] \in Task /\ Active(cur[w]) /\ Owner[cur[w]] = JobOf(w)
          BY <1>2, <4>1, CrawlTyped DEF Active, Current, JobOf
        <5>2. QED
          BY <1>2, <5>1, ActiveIsLive
      <4>2. QED
        BY <3>6, <4>1 DEF Expanding
    <3>9. Promise(j, p, r.depth + 1)
      BY <3>5, <3>6, <3>7, <3>8 DEF OweInv, ExpandInv
    <3>10. Logged(j, p, r.depth + 1)
      BY <1>2, <3>9, OwedIsLogged
    <3>11. PICK l \in log : l.job = j /\ l.url = p /\ l.depth <= r.depth + 1
      BY <3>10 DEF Logged
    <3>12. l.depth <= k
      <4>1. l.depth \in Int
        BY <1>2 DEF TypeInv, TablesTyped, LogRow
      <4>2. QED
        BY <2>1, <3>7, <3>11, <4>1
    <3>13. QED
      BY <2>2, <3>11, <3>12 DEF Logged
  <2>5. QED
    BY <2>3, <2>4
<1>4. Bad = {}
  <2>1. Bad \subseteq Nat
    BY <1>1
  <2> HIDE DEF Bad
  <2>2. ASSUME NEW x \in Bad PROVE FALSE
    <3>1. PICK k \in Bad : \A i \in Bad : k <= i
      BY <2>1, <2>2, LeastElement
    <3>2. QED
      BY <1>3, <3>1
  <2>3. QED
    BY <2>2
<1>5. QED
  BY <1>4

\* When a job is announced as complete, every page that its depth asks for was
\* fetched or copied for it and is in its tables: check_if_visited, the duplicate test
\* of add() and the copying of check_url cut nothing off. It needs a broker that
\* hands out a job's tasks in order, one crawler, and that nothing fails in add().
THEOREM CrawlIsComplete ==
    Undisturbed => (Spec => []CompleteCrawl)
<1> SUFFICES ASSUME Undisturbed PROVE Spec => []CompleteCrawl
  OBVIOUS
<1>1. ASSUME Ground, OweInv PROVE CompleteCrawl
  <2>1. SUFFICES ASSUME NEW j \in Job, told[j] > 0, NEW k \in 0..(Depth[j] - 1),
                        NEW p \in Hops(RootOf(j), k)
                 PROVE  p \in Covered(j)
    BY DEF CompleteCrawl
  <2>2. PICK r \in log : r.job = j /\ r.url = p
    BY <1>1, <2>1, AnnouncedIsLogged DEF Logged
  <2>3. [url |-> p, depth |-> r.depth] \in PagesOf(j)
    BY <2>2 DEF PagesOf
  <2>4. QED
    BY <2>3 DEF Covered
<1>2. QED
  BY <1>1, GroundHolds, OweHolds, PTL

-----------------------------------------------------------------------------
(* The archive *)

\* What the query has fetched is all there.
ArchiveInv ==
    /\ DOMAIN fetched = Job
    /\ DOMAIN built = Job
    /\ ArchiveWhole

LEMMA ArchiveStep ==
    ASSUME CompleteCrawl, ArchiveInv, [ArchiveNext]_archiveVars
    PROVE  ArchiveInv'
<1>0. DOMAIN fetched = Job /\ DOMAIN built = Job /\ ArchiveWhole
  BY DEF ArchiveInv
<1>1. CASE UNCHANGED archive
  BY <1>0, <1>1 DEF archive, ArchiveInv, ArchiveWhole
<1>2. ASSUME NEW i \in Job, BuildZip(i) PROVE ArchiveInv'
  <2>1. /\ told[i] > 0
        /\ fetched' = [fetched EXCEPT ![i] = PagesOf(i)]
        /\ built' = [built EXCEPT ![i] = TRUE]
    BY <1>2 DEF BuildZip
  <2>2. DOMAIN fetched' = Job /\ DOMAIN built' = Job
    BY <1>0, <2>1
  <2>3. ASSUME NEW j \in Job, built'[j], NEW k \in 0..(Depth[j] - 1)
        PROVE  Hops(RootOf(j), k) \subseteq Urls(fetched'[j])
    <3>1. CASE j = i
      <4>1. fetched'[j] = PagesOf(i)
        BY <1>0, <2>1, <3>1
      <4>2. Hops(RootOf(i), k) \subseteq Covered(i)
        BY <2>1, <2>3, <3>1 DEF CompleteCrawl
      <4>3. QED
        BY <3>1, <4>1, <4>2 DEF Covered, Urls
    <3>2. CASE j # i
      <4>1. fetched'[j] = fetched[j] /\ built[j]
        BY <1>0, <2>1, <2>3, <3>2
      <4>2. QED
        BY <1>0, <2>3, <4>1 DEF ArchiveWhole
    <3>3. QED
      BY <3>1, <3>2
  <2>4. QED
    BY <2>2, <2>3 DEF ArchiveInv, ArchiveWhole, RootOf
<1>3. QED
  BY <1>1, <1>2 DEF ArchiveNext, archiveVars

\* The archive of a job has every page within the depth the user asked for, however
\* long after the announcement it is made, and whatever other jobs write meanwhile.
THEOREM ArchiveIsComplete ==
    Undisturbed => (ArchiveSpec => []ArchiveWhole)
<1> SUFFICES ASSUME Undisturbed PROVE ArchiveSpec => []ArchiveWhole
  OBVIOUS
<1>1. ArchiveInit => Init /\ ArchiveInv
  BY DEF ArchiveInit, ArchiveInv, ArchiveWhole
<1>2. [ArchiveNext]_archiveVars => [Next]_vars
  BY DEF ArchiveNext, BuildZip, archiveVars
<1>3. ArchiveSpec => Spec
  BY <1>1, <1>2, PTL DEF ArchiveSpec, Spec
<1>4. Spec => []CompleteCrawl
  BY CrawlIsComplete
<1>5. ArchiveInv => ArchiveWhole
  BY DEF ArchiveInv
<1>6. QED
  BY <1>1, <1>3, <1>4, <1>5, ArchiveStep, PTL DEF ArchiveSpec
=============================================================================
