--------------------------- MODULE JobCountProofs ---------------------------
(***************************************************************************)
(* For every number of jobs, tasks and crawlers: as long as no failure in  *)
(* UnsafeFaults occurs, "completed successfully" is published only when    *)
(* the job has no task left, at most once, and the counter protocol        *)
(* implements Completion.                                                  *)
(*                                                                         *)
(* The proof has two parts. The lemmas SubmitLive to CrashLive say what    *)
(* each action does to the sets of live tasks; the lemmas InvSubmit to     *)
(* InvCrash, put together in InvStep, then only compare those sets with    *)
(* the counter. At the end: with fewer failures the counter is exact, and  *)
(* no key is left behind.                                                  *)
(***************************************************************************)
EXTENDS JobCount, FiniteSetTheorems, TLAPS

NoUnsafeFaults == Faults \cap UnsafeFaults = {}

-----------------------------------------------------------------------------
(* The inductive invariant *)

\* A crawler holds a task exactly while it is not idle; the broker counts the
\* task as handed out, and to nobody else.
HoldInv ==
    /\ \A w \in Worker : pc[w] = "idle" <=> cur[w] = NoTask
    /\ \A w \in Worker : cur[w] # NoTask => place[cur[w]] = "pulled"
    /\ \A v, w \in Worker : cur[v] = cur[w] /\ cur[w] # NoTask => v = w

\* Counted and unsent sub-jobs belong to the job of the crawler that sends them.
SubsInv ==
    \A w \in Worker :
        /\ pc[w] # "send" => subs[w] = {}
        /\ \A t \in subs[w] : /\ place[t] = "promised"
                              /\ Owner[t] = JobOf(w)
                              /\ \A v \in Worker : t \in subs[v] => v = w

BaseInv == TypeOK /\ HoldInv /\ SubsInv

\* The counter covers the live tasks, is not there before the job is submitted,
\* and is there for every task that has passed InitJobCount.
CountInv ==
    /\ CounterCoversLive
    /\ \A j \in keys : Submitted(j)
    /\ \A w \in Worker : pc[w] \in {"crawl", "send", "dec"} => JobOf(w) \in keys

\* Whoever is about to publish or to delete does so for a job with no live task,
\* has not published yet, and is alone.
PublishInv ==
    /\ \A w \in Worker : pc[w] \in {"publish", "delete"} => Live(JobOf(w)) = {}
    /\ \A w \in Worker : pc[w] = "publish" => told[JobOf(w)] = 0
    /\ \A v, w \in Worker :
          pc[v] = "publish" /\ pc[w] = "publish" /\ JobOf(v) = JobOf(w) => v = w

ToldInv ==
    \A j \in Job : told[j] > 0 => Live(j) = {} /\ Submitted(j)

IInv == /\ BaseInv
        /\ CountInv
        /\ PublishInv
        /\ ToldInv
        /\ CompletedOnce
-----------------------------------------------------------------------------
(* Types and possession: these hold whatever fails *)

LEMMA BaseInit == Init => BaseInv
  BY JobCountAssumption
  DEF Init, BaseInv, TypeOK, HoldInv, SubsInv, Places, PCs

LEMMA BaseStep == BaseInv /\ [Next]_vars => BaseInv'
<1> SUFFICES ASSUME BaseInv, [Next]_vars PROVE BaseInv'
  OBVIOUS
<1> USE JobCountAssumption
    DEF BaseInv, TypeOK, HoldInv, SubsInv, Places, PCs, Move, Goto, JobOf, Uncounted
<1>1. ASSUME NEW t \in Task, Submit(t) PROVE BaseInv'
  BY <1>1 DEF Submit, SetIfAbsent, TasksOf
<1>2. ASSUME NEW t \in Task, PushToBroker(t) PROVE BaseInv'
  BY <1>2 DEF PushToBroker
<1>3. ASSUME NEW w \in Worker, NEW t \in Task, Pull(w, t) PROVE BaseInv'
  BY <1>3 DEF Pull
<1>4. ASSUME NEW w \in Worker, BadJob(w) PROVE BaseInv'
  BY <1>4 DEF BadJob
<1>5. ASSUME NEW w \in Worker, InitJobCount(w) PROVE BaseInv'
  BY <1>5 DEF InitJobCount, SetIfAbsent
<1>6. ASSUME NEW w \in Worker, NoSubJobs(w) PROVE BaseInv'
  BY <1>6 DEF NoSubJobs
<1>7. ASSUME NEW w \in Worker, NEW S \in SUBSET Task, IncJobCount(w, S) PROVE BaseInv'
  <2>1. Cardinality(S) \in Int
    BY FS_Subset, FS_CardinalityType
  <2>2. QED
    BY <1>7, <2>1 DEF IncJobCount, IncrBy
<1>8. ASSUME NEW w \in Worker, SendToBroker(w) PROVE BaseInv'
  BY <1>8 DEF SendToBroker
<1>9. ASSUME NEW w \in Worker, DecJobCount(w) PROVE BaseInv'
  BY <1>9 DEF DecJobCount, IncrBy
<1>10. ASSUME NEW w \in Worker, PublishCompleted(w) PROVE BaseInv'
  BY <1>10 DEF PublishCompleted
<1>11. ASSUME NEW w \in Worker, DeleteCount(w) PROVE BaseInv'
  BY <1>11 DEF DeleteCount
<1>12. ASSUME NEW w \in Worker, Ack(w) PROVE BaseInv'
  BY <1>12 DEF Ack
<1>13. ASSUME NEW w \in Worker, Crash(w) PROVE BaseInv'
  BY <1>13 DEF Crash
<1>14. CASE UNCHANGED vars
  BY <1>14 DEF vars
<1>15. QED
  BY <1>1, <1>2, <1>3, <1>4, <1>5, <1>6, <1>7, <1>8, <1>9, <1>10, <1>11,
     <1>12, <1>13, <1>14 DEF Next, Step

\* Every variable keeps its type, whatever fails.
THEOREM TypeCorrect == Spec => []TypeOK
<1>1. BaseInv => TypeOK
  BY DEF BaseInv
<1>2. QED
  BY <1>1, BaseInit, BaseStep, PTL DEF Spec
-----------------------------------------------------------------------------
(* What each action does to the live tasks *)

\* No job but k gains or loses a live task.
OnlyJob(k) == \A j \in Job : j # k => Live(j)' = Live(j)

LiveSame == \A j \in Job : Live(j)' = Live(j)

\* The task of a crawler whose "- 1" is to come is live.
LEMMA CurIsLive ==
    ASSUME BaseInv, NEW w \in Worker, pc[w] \in Uncounted
    PROVE  cur[w] \in Task /\ JobOf(w) \in Job /\ cur[w] \in Live(JobOf(w))
  BY JobCountAssumption
  DEF BaseInv, TypeOK, HoldInv, Live, IsLive, TasksOf, JobOf, Uncounted

\* A crawler at work works for some job.
LEMMA BusyJob ==
    ASSUME BaseInv, NEW w \in Worker, pc[w] # "idle"
    PROVE  cur[w] \in Task /\ JobOf(w) \in Job
  BY JobCountAssumption DEF BaseInv, TypeOK, HoldInv, JobOf

LEMMA SubmitLive ==
    ASSUME BaseInv, NEW t \in Task, Submit(t)
    PROVE  /\ Live(Owner[t]) = {}
           /\ Live(Owner[t])' = {t}
           /\ OnlyJob(Owner[t])
<1> USE JobCountAssumption DEF BaseInv, TypeOK, HoldInv, Submit, TasksOf, Move
<1>1. \A u \in Task : IsLive(u)' <=> IsLive(u) \/ u = t
  BY DEF IsLive
<1>2. \A u \in TasksOf(Owner[t]) : ~IsLive(u)
  BY DEF IsLive, Uncounted
<1>3. QED
  BY <1>1, <1>2 DEF Live, OnlyJob

LEMMA PushLive ==
    ASSUME BaseInv, NEW t \in Task, PushToBroker(t)
    PROVE  /\ t \in Live(Owner[t])
           /\ Live(Owner[t])' \subseteq Live(Owner[t])
           /\ OnlyJob(Owner[t])
<1> USE JobCountAssumption DEF BaseInv, TypeOK, HoldInv, PushToBroker, Move
<1>1. IsLive(t)
  BY DEF IsLive
<1>2. \A u \in Task : u # t => (IsLive(u)' <=> IsLive(u))
  BY DEF IsLive
<1>3. QED
  BY <1>1, <1>2 DEF Live, OnlyJob, TasksOf

LEMMA PullLive ==
    ASSUME BaseInv, NEW w \in Worker, NEW t \in Task, Pull(w, t)
    PROVE  LiveSame
<1> USE JobCountAssumption
    DEF BaseInv, TypeOK, HoldInv, Pull, Move, Goto, Uncounted
<1>1. IsLive(t) /\ IsLive(t)'
  BY DEF IsLive
<1>2. \A u \in Task : u # t => (IsLive(u)' <=> IsLive(u))
  BY DEF IsLive
<1>3. QED
  BY <1>1, <1>2 DEF Live, LiveSame, TasksOf

\* A crawler that only moves on, before or after its "- 1", changes no live set.
LEMMA MoveOnLive ==
    ASSUME BaseInv, NEW w \in Worker, NEW p, Goto(w, p), UNCHANGED <<place, cur>>,
           pc[w] \in Uncounted <=> p \in Uncounted
    PROVE  LiveSame
<1>1. \A u \in Task : IsLive(u)' <=> IsLive(u)
  BY DEF IsLive, Goto, BaseInv, TypeOK
<1>2. QED
  BY <1>1 DEF Live, LiveSame, TasksOf

\* A crawler that passes its "- 1" takes exactly its task out of the live set.
LEMMA RetireLive ==
    ASSUME BaseInv, NEW w \in Worker, NEW p, Goto(w, p), UNCHANGED <<place, cur>>,
           pc[w] \in Uncounted, p \notin Uncounted
    PROVE  /\ Live(JobOf(w))' = Live(JobOf(w)) \ {cur[w]}
           /\ OnlyJob(JobOf(w))
<1>1. \A u \in Task : IsLive(u)' <=> IsLive(u) /\ u # cur[w]
  BY DEF IsLive, Goto, BaseInv, TypeOK, HoldInv, Uncounted
<1>2. JobOf(w)' = JobOf(w)
  BY DEF JobOf
<1>3. QED
  BY <1>1, <1>2, CurIsLive DEF Live, OnlyJob, TasksOf, JobOf

LEMMA IncLive ==
    ASSUME BaseInv, NEW w \in Worker, NEW S \in SUBSET Task, IncJobCount(w, S)
    PROVE  /\ Live(JobOf(w)) \cap S = {}
           /\ Live(JobOf(w))' = Live(JobOf(w)) \cup S
           /\ OnlyJob(JobOf(w))
<1> USE JobCountAssumption
    DEF BaseInv, TypeOK, HoldInv, IncJobCount, Move, Goto, Uncounted
<1>1. \A u \in S : ~IsLive(u)
  BY DEF IsLive
<1>2. \A u \in Task : IsLive(u)' <=> IsLive(u) \/ u \in S
  BY DEF IsLive
<1>3. JobOf(w)' = JobOf(w)
  BY DEF JobOf
<1>4. QED
  BY <1>1, <1>2, <1>3 DEF Live, OnlyJob, TasksOf, JobOf

LEMMA SendLive ==
    ASSUME BaseInv, NEW w \in Worker, SendToBroker(w)
    PROVE  /\ Live(JobOf(w))' \subseteq Live(JobOf(w))
           /\ OnlyJob(JobOf(w))
<1> USE JobCountAssumption
    DEF BaseInv, TypeOK, HoldInv, SubsInv, SendToBroker, Move, Goto, Uncounted
<1>1. \A u \in Task : u \notin subs[w] => (IsLive(u)' <=> IsLive(u))
  BY DEF IsLive
<1>2. \A u \in subs[w] : IsLive(u) /\ Owner[u] = JobOf(w)
  BY DEF IsLive
<1>3. JobOf(w)' = JobOf(w)
  BY DEF JobOf
<1>4. QED
  BY <1>1, <1>2, <1>3 DEF Live, OnlyJob, TasksOf

LEMMA AckLive ==
    ASSUME BaseInv, NEW w \in Worker, Ack(w)
    PROVE  LiveSame
<1> USE JobCountAssumption
    DEF BaseInv, TypeOK, HoldInv, Ack, Move, Goto, Uncounted
<1>1. \A u \in Task : IsLive(u)' <=> IsLive(u)
  BY DEF IsLive
<1>2. QED
  BY <1>1 DEF Live, LiveSame, TasksOf

\* Without redelivery after the "- 1", a crash only takes tasks away; after the
\* "- 1" it takes none.
LEMMA CrashLive ==
    ASSUME BaseInv, NoUnsafeFaults, NEW w \in Worker, Crash(w)
    PROVE  /\ JobOf(w) \in Job
           /\ \A j \in Job : Live(j)' \subseteq Live(j)
           /\ \A j \in Job : j # JobOf(w) => Live(j)' = Live(j)
           /\ pc[w] \notin Uncounted => LiveSame
<1> USE JobCountAssumption DEF BaseInv, TypeOK, HoldInv, SubsInv, Crash, Goto
<1>1. cur[w] \in Task /\ place[cur[w]] = "pulled" /\ "redeliver" \notin Faults
  BY DEF NoUnsafeFaults, UnsafeFaults, Uncounted
<1>2. PICK q \in {"gone", "queued"} :
          /\ q = "queued" => pc[w] \in Uncounted
          /\ place' = [t \in Task |-> IF t = cur[w] THEN q
                                      ELSE IF t \in subs[w] THEN "gone" ELSE place[t]]
  BY <1>1
<1>3. \A u \in Task : IsLive(u)' => IsLive(u)
  BY <1>1, <1>2 DEF IsLive, Uncounted
<1>4. \A u \in Task : u # cur[w] /\ u \notin subs[w] => (IsLive(u)' <=> IsLive(u))
  BY <1>1, <1>2 DEF IsLive, Uncounted
<1>5. \A u \in subs[w] : Owner[u] = JobOf(w)
  OBVIOUS
<1>6. pc[w] \notin Uncounted => subs[w] = {} /\ ~IsLive(cur[w])
  BY <1>1 DEF IsLive, Uncounted
<1>7. QED
  BY <1>1, <1>3, <1>4, <1>5, <1>6 DEF Live, LiveSame, TasksOf, JobOf
-----------------------------------------------------------------------------
(* The invariant *)

LEMMA TaskSets ==
    ASSUME NEW S \in SUBSET Task
    PROVE  /\ IsFiniteSet(S)
           /\ Cardinality(S) \in Nat
           /\ \A R \in SUBSET S : Cardinality(R) <= Cardinality(S)
           /\ S # {} => Cardinality(S) >= 1
<1>1. IsFiniteSet(S)
  BY JobCountAssumption, FS_Subset
<1>2. Cardinality(S) \in Nat
  BY <1>1, FS_CardinalityType
<1>3. \A R \in SUBSET S : Cardinality(R) <= Cardinality(S)
  BY <1>1, FS_Subset
<1>4. S # {} => Cardinality(S) # 0
  BY <1>1, FS_EmptySet
<1>5. QED
  BY <1>1, <1>2, <1>3, <1>4

LEMMA LiveTasks == \A j : Live(j) \subseteq Task /\ Live(j)' \subseteq Task
  BY DEF Live, TasksOf

LEMMA InvInit == Init => IInv
<1> SUFFICES ASSUME Init PROVE IInv
  OBVIOUS
<1>1. BaseInv
  BY BaseInit
<1>2. \A j \in Job : Live(j) = {}
  BY JobCountAssumption DEF Init, Live, IsLive, TasksOf, Uncounted
<1>3. \A j \in Job : Cardinality(Live(j)) = 0
  BY <1>2, FS_EmptySet
<1>4. QED
  BY <1>1, <1>2, <1>3
  DEF Init, IInv, CountInv, CounterCoversLive, PublishInv, ToldInv, CompletedOnce

\* A step that adds no live task, leaves the counter, the keys and the
\* announcements alone, and brings no crawler into the counted part or closer to
\* an announcement.
LEMMA QuietStep ==
    ASSUME IInv, BaseInv',
           \A j \in Job : Live(j)' \subseteq Live(j),
           UNCHANGED <<counter, keys, told>>,
           \A w \in Worker : pc'[w] \in {"crawl", "send", "dec"} =>
               pc[w] \in {"crawl", "send", "dec"} /\ cur'[w] = cur[w],
           \A w \in Worker : pc'[w] \in {"publish", "delete"} =>
               pc[w] = pc'[w] /\ cur'[w] = cur[w],
           \A t \in Task : place[t] # "unused" => place'[t] # "unused"
    PROVE  IInv'
<1>0. \A w \in Worker : pc[w] # "idle" => JobOf(w) \in Job
  BY JobCountAssumption DEF IInv, BaseInv, TypeOK, HoldInv, JobOf
<1>1. \A j \in Job : /\ Cardinality(Live(j)) \in Nat
                     /\ Cardinality(Live(j)') \in Nat
                     /\ Cardinality(Live(j)') <= Cardinality(Live(j))
  BY TaskSets, LiveTasks
<1>2. CountInv'
  BY <1>1
  DEF IInv, BaseInv, TypeOK, CountInv, CounterCoversLive, JobOf, Submitted, TasksOf
<1>3. PublishInv'
  BY <1>0 DEF IInv, PublishInv, JobOf
<1>4. ToldInv' /\ CompletedOnce'
  BY DEF IInv, ToldInv, CompletedOnce, Submitted, TasksOf
<1>5. QED
  BY <1>2, <1>3, <1>4 DEF IInv

LEMMA InvSubmit ==
    ASSUME IInv, BaseInv', NEW t \in Task, Submit(t)
    PROVE  IInv'
<1> DEFINE k == Owner[t]
<1>1. k \in Job /\ BaseInv
  BY JobCountAssumption DEF IInv
<1>2. Live(k) = {} /\ Live(k)' = {t} /\ OnlyJob(k)
  BY <1>1, SubmitLive
<1>3. \A w \in Worker : pc[w] # "idle" => JobOf(w) \in Job /\ JobOf(w) # k
  BY JobCountAssumption
  DEF IInv, BaseInv, TypeOK, HoldInv, Submit, TasksOf, JobOf
<1>4. told[k] = 0 /\ k \notin keys
  BY <1>1 DEF IInv, BaseInv, TypeOK, CountInv, ToldInv, Submit, Submitted
<1>5. Cardinality(Live(k)) = 0 /\ Cardinality(Live(k)') = 1
  BY <1>2, FS_EmptySet, FS_Singleton
<1>6. /\ UNCHANGED <<pc, cur, told>>
      /\ \/ UNCHANGED <<counter, keys>>
         \/ /\ k \in keys'
            /\ \A j \in Job : j # k => counter'[j] = counter[j] /\ (j \in keys' <=> j \in keys)
            /\ counter'[k] = 1
  BY <1>1, <1>4 DEF Submit, SetIfAbsent, IInv, BaseInv, TypeOK
<1>7. \A j \in keys' : Submitted(j)'
  BY <1>1, <1>6 DEF IInv, BaseInv, TypeOK, CountInv, Submitted, TasksOf, Submit, Move
<1>8. CountInv'
  <2>1. \A w \in Worker : pc'[w] \in {"crawl", "send", "dec"} => JobOf(w)' \in keys'
    BY <1>3, <1>6 DEF IInv, CountInv, JobOf
  <2>2. CounterCoversLive'
    <3> SUFFICES ASSUME NEW j \in Job
                 PROVE  /\ j \in keys' => counter'[j] >= Cardinality(Live(j)')
                        /\ j \notin keys' => Cardinality(Live(j)') <= 1
      BY DEF CounterCoversLive
    <3>1. CASE j = k
      BY <3>1, <1>4, <1>5, <1>6
    <3>2. CASE j # k
      <4>1. Live(j)' = Live(j)
        BY <3>2, <1>2 DEF OnlyJob
      <4>2. QED
        BY <3>2, <4>1, <1>6 DEF IInv, CountInv, CounterCoversLive
    <3>3. QED
      BY <3>1, <3>2
  <2>3. QED
    BY <2>1, <2>2, <1>7 DEF CountInv
<1>9. PublishInv'
  BY <1>2, <1>3, <1>6 DEF IInv, PublishInv, OnlyJob, JobOf
<1>10. ToldInv' /\ CompletedOnce'
  BY <1>1, <1>2, <1>4, <1>6
  DEF IInv, ToldInv, CompletedOnce, OnlyJob, Submitted, TasksOf, Submit, Move
<1>11. QED
  BY <1>8, <1>9, <1>10 DEF IInv

\* The steps of a crawler that find its task's "- 1" still to come.
LEMMA InvInitJobCount ==
    ASSUME IInv, BaseInv', NoUnsafeFaults, NEW w \in Worker, InitJobCount(w)
    PROVE  IInv'
<1> DEFINE k == JobOf(w)
<1>1. BaseInv /\ pc[w] \in Uncounted
  BY DEF IInv, InitJobCount, Uncounted
<1>2. k \in Job /\ cur[w] \in Live(k) /\ cur[w] \in Task
  BY <1>1, CurIsLive
<1>3. /\ Goto(w, "crawl")
      /\ UNCHANGED <<place, cur, told>>
      /\ SetIfAbsent(k)
  BY DEF InitJobCount, NoUnsafeFaults, UnsafeFaults
<1>4. \A j \in Job : Live(j)' = Live(j)
  BY <1>1, <1>3, MoveOnLive DEF LiveSame, Uncounted
<1>5. \A v \in Worker : JobOf(v)' = JobOf(v)
  BY <1>3 DEF JobOf
<1>6. /\ keys' = keys \cup {k}
      /\ \A j \in keys : counter'[j] = counter[j]
      /\ k \notin keys => counter'[k] = 1
  BY <1>1, <1>2, <1>3 DEF BaseInv, TypeOK, SetIfAbsent
<1>7. CounterCoversLive'
  <2> SUFFICES ASSUME NEW j \in Job
               PROVE  /\ j \in keys' => counter'[j] >= Cardinality(Live(j)')
                      /\ j \notin keys' => Cardinality(Live(j)') <= 1
    BY DEF CounterCoversLive
  <2>1. Cardinality(Live(j)) \in Nat
    BY LiveTasks, TaskSets
  <2>2. QED
    BY <1>4, <1>6, <2>1 DEF IInv, CountInv, CounterCoversLive
<1>8. \A j \in keys' : Submitted(j)'
  BY <1>1, <1>2, <1>3, <1>6
  DEF IInv, BaseInv, TypeOK, HoldInv, CountInv, Submitted, TasksOf, JobOf, Uncounted
<1>9. \A v \in Worker : v # w => pc'[v] = pc[v]
  BY <1>1, <1>3 DEF Goto, BaseInv, TypeOK
<1>10. pc'[w] = "crawl"
  BY <1>1, <1>3 DEF Goto, BaseInv, TypeOK
<1>11. CountInv'
  BY <1>5, <1>6, <1>7, <1>8, <1>9, <1>10 DEF IInv, CountInv
<1>12. PublishInv'
  <2>1. \A v \in Worker : pc[v] # "idle" => JobOf(v) \in Job
    BY JobCountAssumption DEF IInv, BaseInv, TypeOK, HoldInv, JobOf
  <2>2. QED
    BY <1>3, <1>4, <1>5, <1>9, <1>10, <2>1 DEF IInv, PublishInv
<1>13. ToldInv' /\ CompletedOnce'
  BY <1>3, <1>4 DEF IInv, ToldInv, CompletedOnce, Submitted, TasksOf
<1>14. QED
  BY <1>11, <1>12, <1>13 DEF IInv

LEMMA InvIncJobCount ==
    ASSUME IInv, BaseInv', NoUnsafeFaults,
           NEW w \in Worker, NEW S \in SUBSET Task, IncJobCount(w, S)
    PROVE  IInv'
<1> DEFINE k == JobOf(w)
<1>1. BaseInv /\ pc[w] \in Uncounted /\ pc[w] = "crawl" /\ k \in keys
  BY DEF IInv, CountInv, IncJobCount, Uncounted
<1>2. k \in Job /\ cur[w] \in Live(k) /\ cur[w] \in Task
  BY <1>1, CurIsLive
<1>3. /\ Goto(w, "send")
      /\ UNCHANGED <<cur, told>>
      /\ IncrBy(k, Cardinality(S))
  BY DEF IncJobCount, NoUnsafeFaults, UnsafeFaults
<1>4. /\ Live(k) \cap S = {}
      /\ Live(k)' = Live(k) \cup S
      /\ OnlyJob(k)
  BY <1>1, IncLive
<1>5. /\ Cardinality(Live(k)) \in Nat
      /\ Cardinality(S) \in Nat
      /\ Cardinality(Live(k)') = Cardinality(Live(k)) + Cardinality(S)
  <2>1. IsFiniteSet(Live(k)) /\ IsFiniteSet(S) /\ Live(k) \cap S = {}
    BY <1>4, LiveTasks, TaskSets
  <2>2. Cardinality(Live(k) \cup S) =
            Cardinality(Live(k)) + Cardinality(S) - Cardinality(Live(k) \cap S)
    BY <2>1, FS_Union
  <2>3. Cardinality(Live(k) \cap S) = 0
    BY <1>4, FS_EmptySet
  <2>4. Cardinality(Live(k)) \in Nat /\ Cardinality(S) \in Nat
    BY LiveTasks, TaskSets
  <2>5. QED
    BY <1>4, <2>2, <2>3, <2>4
<1>6. \A v \in Worker : JobOf(v)' = JobOf(v)
  BY <1>3 DEF JobOf
<1>7. /\ keys' = keys
      /\ counter'[k] = counter[k] + Cardinality(S)
      /\ \A j \in Job : j # k => counter'[j] = counter[j]
      /\ counter[k] \in Int
  BY <1>1, <1>2, <1>3, <1>5 DEF BaseInv, TypeOK, IncrBy
<1>8. CounterCoversLive'
  <2> SUFFICES ASSUME NEW j \in Job
               PROVE  /\ j \in keys' => counter'[j] >= Cardinality(Live(j)')
                      /\ j \notin keys' => Cardinality(Live(j)') <= 1
    BY DEF CounterCoversLive
  <2>1. CASE j = k
    <3>1. counter[k] >= Cardinality(Live(k)) /\ k \in keys'
      BY <1>1, <1>2, <1>7 DEF IInv, CountInv, CounterCoversLive
    <3>2. counter'[k] >= Cardinality(Live(k)')
      BY <1>5, <1>7, <3>1
    <3>3. Live(k)' = Live(j)'
      BY <1>6, <2>1
    <3>4. QED
      BY <2>1, <3>1, <3>2, <3>3
  <2>2. CASE j # k
    BY <1>4, <1>7, <2>2 DEF IInv, CountInv, CounterCoversLive, OnlyJob
  <2>3. QED
    BY <2>1, <2>2
<1>9. \A j \in keys : Submitted(j)'
  BY DEF IInv, BaseInv, TypeOK, CountInv, Submitted, TasksOf, IncJobCount, Move
<1>10. \A v \in Worker : v # w => pc'[v] = pc[v]
  BY <1>1, <1>3 DEF Goto, BaseInv, TypeOK
<1>11. pc'[w] = "send"
  BY <1>1, <1>3 DEF Goto, BaseInv, TypeOK
<1>12. CountInv'
  BY <1>1, <1>6, <1>7, <1>8, <1>9, <1>10, <1>11 DEF IInv, CountInv
<1>13. \A v \in Worker : pc[v] \in {"publish", "delete"} => JobOf(v) \in Job /\ JobOf(v) # k
  <2> SUFFICES ASSUME NEW v \in Worker, pc[v] \in {"publish", "delete"}
               PROVE  JobOf(v) \in Job /\ JobOf(v) # k
    OBVIOUS
  <2>1. JobOf(v) \in Job
    BY <1>1, BusyJob
  <2>2. Live(JobOf(v)) = {}
    BY DEF IInv, PublishInv
  <2>3. QED
    BY <1>2, <2>1, <2>2
<1>14. PublishInv'
  BY <1>3, <1>4, <1>6, <1>10, <1>11, <1>13 DEF IInv, PublishInv, OnlyJob
<1>15. told[k] = 0
  BY <1>1, <1>2 DEF IInv, ToldInv, BaseInv, TypeOK
<1>16. ToldInv' /\ CompletedOnce'
  <2>1. \A j \in Job : Submitted(j) => Submitted(j)'
    BY DEF IInv, BaseInv, TypeOK, Submitted, TasksOf, IncJobCount, Move
  <2>2. QED
    BY <1>3, <1>4, <1>15, <2>1 DEF IInv, ToldInv, CompletedOnce, OnlyJob
<1>17. QED
  BY <1>12, <1>14, <1>16 DEF IInv

\* The "- 1" of a live task. Only when it was the last one can the counter reach
\* zero, because the counter covered the live tasks before.
LEMMA InvDecJobCount ==
    ASSUME IInv, BaseInv', NEW w \in Worker, DecJobCount(w)
    PROVE  IInv'
<1> DEFINE k == JobOf(w)
<1>1. BaseInv /\ pc[w] = "dec" /\ pc[w] \in Uncounted /\ k \in keys
  BY DEF IInv, CountInv, DecJobCount, Uncounted
<1>2. k \in Job /\ cur[w] \in Live(k) /\ cur[w] \in Task
  BY <1>1, CurIsLive
<1>3. UNCHANGED <<place, cur, subs, told>>
  BY DEF DecJobCount
<1>4. PICK p \in {"publish", "ack"} :
         /\ Goto(w, p)
         /\ \/ /\ IncrBy(k, -1)
               /\ p = "publish" => counter'[k] <= 0
            \/ p = "ack" /\ UNCHANGED <<counter, keys>>
  BY DEF DecJobCount
<1>5. Live(k)' = Live(k) \ {cur[w]} /\ OnlyJob(k)
  BY <1>1, <1>3, <1>4, RetireLive DEF Uncounted
<1>6. /\ Cardinality(Live(k)) \in Nat
      /\ Cardinality(Live(k)') = Cardinality(Live(k)) - 1
  BY <1>2, <1>5, LiveTasks, TaskSets, FS_RemoveElement
<1>7. counter[k] \in Int /\ counter[k] >= Cardinality(Live(k))
  BY <1>1, <1>2 DEF IInv, BaseInv, TypeOK, CountInv, CounterCoversLive
<1>8. /\ keys' = keys
      /\ \A j \in Job : j # k => counter'[j] = counter[j]
      /\ counter'[k] = counter[k] - 1 \/ (p = "ack" /\ counter'[k] = counter[k])
      /\ p = "publish" => counter'[k] <= 0
  <2>1. CASE IncrBy(k, -1)
    <3>1. keys' = keys /\ counter' = [counter EXCEPT ![k] = @ + (-1)]
      BY <1>1, <2>1 DEF IncrBy
    <3>2. counter[k] + (-1) = counter[k] - 1 /\ counter'[k] = counter[k] - 1
      BY <1>2, <1>7, <3>1 DEF IInv, BaseInv, TypeOK
    <3>3. \A j \in Job : j # k => counter'[j] = counter[j]
      BY <1>2, <3>1 DEF IInv, BaseInv, TypeOK
    <3>4. QED
      BY <1>4, <3>1, <3>2, <3>3
  <2>2. CASE p = "ack" /\ UNCHANGED <<counter, keys>>
    BY <2>2
  <2>3. QED
    BY <1>4, <2>1, <2>2
<1>9. counter'[k] >= Cardinality(Live(k)')
  BY <1>6, <1>7, <1>8
<1>10. p = "publish" => Live(k)' = {}
  <2>1. p = "publish" => Cardinality(Live(k)') <= 0
    BY <1>6, <1>7, <1>8
  <2>2. Live(k)' # {} => Cardinality(Live(k)') >= 1
    BY LiveTasks, TaskSets
  <2>3. QED
    BY <1>6, <2>1, <2>2
<1>11. \A v \in Worker : JobOf(v)' = JobOf(v)
  BY <1>3 DEF JobOf
<1>12. pc'[w] = p /\ \A v \in Worker : v # w => pc'[v] = pc[v]
  BY <1>1, <1>4 DEF Goto, BaseInv, TypeOK
<1>13. CounterCoversLive'
  <2> SUFFICES ASSUME NEW j \in Job
               PROVE  /\ j \in keys' => counter'[j] >= Cardinality(Live(j)')
                      /\ j \notin keys' => Cardinality(Live(j)') <= 1
    BY DEF CounterCoversLive
  <2>1. CASE j = k
    <3>1. Live(k)' = Live(j)'
      BY <1>11, <2>1
    <3>2. QED
      BY <1>1, <1>8, <1>9, <2>1, <3>1
  <2>2. CASE j # k
    BY <1>5, <1>8, <2>2 DEF IInv, CountInv, CounterCoversLive, OnlyJob
  <2>3. QED
    BY <2>1, <2>2
<1>14. CountInv'
  <2>1. \A j \in keys : Submitted(j)'
    BY <1>3 DEF IInv, CountInv, Submitted, TasksOf
  <2>2. QED
    BY <1>8, <1>11, <1>12, <1>13, <2>1 DEF IInv, CountInv
<1>15. \A v \in Worker : pc[v] \in {"publish", "delete"} => JobOf(v) \in Job /\ JobOf(v) # k
  <2> SUFFICES ASSUME NEW v \in Worker, pc[v] \in {"publish", "delete"}
               PROVE  JobOf(v) \in Job /\ JobOf(v) # k
    OBVIOUS
  <2>1. JobOf(v) \in Job
    BY <1>1, BusyJob
  <2>2. Live(JobOf(v)) = {}
    BY DEF IInv, PublishInv
  <2>3. QED
    BY <1>2, <2>1, <2>2
<1>16. told[k] = 0
  BY <1>1, <1>2 DEF IInv, ToldInv, BaseInv, TypeOK
<1>17. PublishInv'
  BY <1>3, <1>5, <1>10, <1>11, <1>12, <1>15, <1>16 DEF IInv, PublishInv, OnlyJob
<1>18. ToldInv' /\ CompletedOnce'
  BY <1>3, <1>5, <1>16
  DEF IInv, ToldInv, CompletedOnce, OnlyJob, Submitted, TasksOf
<1>19. QED
  BY <1>14, <1>17, <1>18 DEF IInv

\* The announcement itself, for a job that has no task left.
LEMMA InvPublishCompleted ==
    ASSUME IInv, BaseInv', NEW w \in Worker, PublishCompleted(w)
    PROVE  IInv'
<1> DEFINE k == JobOf(w)
<1>1. /\ BaseInv
      /\ pc[w] = "publish"
      /\ Goto(w, "delete")
      /\ UNCHANGED <<counter, keys, place, cur, subs>>
      /\ told' = [told EXCEPT ![k] = @ + 1] \/ told' = told
  BY DEF IInv, PublishCompleted
<1>2. cur[w] \in Task /\ k \in Job
  BY <1>1, BusyJob
<1>3. Live(k) = {} /\ told[k] = 0
  BY <1>1 DEF IInv, PublishInv
<1>4. \A j \in Job : Live(j)' = Live(j)
  BY <1>1, MoveOnLive DEF LiveSame, Uncounted
<1>5. \A v \in Worker : JobOf(v)' = JobOf(v)
  BY <1>1 DEF JobOf
<1>6. pc'[w] = "delete" /\ \A v \in Worker : v # w => pc'[v] = pc[v]
  BY <1>1 DEF Goto, BaseInv, TypeOK
<1>7. CountInv'
  BY <1>1, <1>4, <1>5, <1>6
  DEF IInv, CountInv, CounterCoversLive, Submitted, TasksOf
<1>8. (\A j \in Job : j # k => told'[j] = told[j]) /\ told'[k] \in {0, 1}
  BY <1>1, <1>2, <1>3 DEF BaseInv, TypeOK
<1>9. \A v \in Worker : pc'[v] = "publish" => JobOf(v) \in Job /\ JobOf(v) # k
  <2> SUFFICES ASSUME NEW v \in Worker, pc'[v] = "publish"
               PROVE  JobOf(v) \in Job /\ JobOf(v) # k
    OBVIOUS
  <2>1. v # w /\ pc[v] = "publish"
    BY <1>6
  <2>2. QED
    BY <1>1, <2>1, BusyJob DEF IInv, PublishInv
<1>10. PublishInv'
  <2>1. \A v \in Worker : pc[v] \in {"publish", "delete"} => JobOf(v) \in Job
    BY <1>1, BusyJob
  <2>2. \A v \in Worker : pc'[v] \in {"publish", "delete"} => pc[v] \in {"publish", "delete"}
    BY <1>1, <1>6
  <2>3. QED
    BY <1>4, <1>5, <1>6, <1>8, <1>9, <2>1, <2>2 DEF IInv, PublishInv
<1>11. Submitted(k)
  BY <1>1, <1>2 DEF BaseInv, HoldInv, TypeOK, Submitted, TasksOf, JobOf
<1>12. CompletedOnce'
  BY <1>8 DEF IInv, CompletedOnce
<1>13. ToldInv'
  BY <1>1, <1>3, <1>4, <1>8, <1>11 DEF IInv, ToldInv, Submitted, TasksOf
<1>14. QED
  BY <1>7, <1>10, <1>12, <1>13 DEF IInv

\* The counter is deleted when no task is left that could still need it.
LEMMA InvDeleteCount ==
    ASSUME IInv, BaseInv', NEW w \in Worker, DeleteCount(w)
    PROVE  IInv'
<1> DEFINE k == JobOf(w)
<1>1. /\ BaseInv
      /\ pc[w] = "delete"
      /\ Goto(w, "ack")
      /\ UNCHANGED <<place, cur, subs, told>>
      /\ \/ counter' = [counter EXCEPT ![k] = 0] /\ keys' = keys \ {k}
         \/ UNCHANGED <<counter, keys>>
  BY DEF IInv, DeleteCount
<1>2. cur[w] \in Task /\ k \in Job
  BY <1>1, BusyJob
<1>3. Live(k) = {} /\ Cardinality(Live(k)) = 0
  BY <1>1, FS_EmptySet DEF IInv, PublishInv
<1>4. \A j \in Job : Live(j)' = Live(j)
  BY <1>1, MoveOnLive DEF LiveSame, Uncounted
<1>5. \A v \in Worker : JobOf(v)' = JobOf(v)
  BY <1>1 DEF JobOf
<1>6. pc'[w] = "ack" /\ \A v \in Worker : v # w => pc'[v] = pc[v]
  BY <1>1 DEF Goto, BaseInv, TypeOK
<1>7. /\ keys' \subseteq keys
      /\ \A j \in Job : j # k => counter'[j] = counter[j] /\ (j \in keys' <=> j \in keys)
      /\ k \in keys' => counter'[k] = counter[k]
  BY <1>1, <1>2 DEF BaseInv, TypeOK
<1>8. CounterCoversLive'
  <2> SUFFICES ASSUME NEW j \in Job
               PROVE  /\ j \in keys' => counter'[j] >= Cardinality(Live(j)')
                      /\ j \notin keys' => Cardinality(Live(j)') <= 1
    BY DEF CounterCoversLive
  <2>1. CASE j = k
    BY <1>3, <1>4, <1>7, <2>1 DEF IInv, CountInv, CounterCoversLive
  <2>2. CASE j # k
    BY <1>4, <1>7, <2>2 DEF IInv, CountInv, CounterCoversLive
  <2>3. QED
    BY <2>1, <2>2
<1>9. \A v \in Worker : pc'[v] \in {"crawl", "send", "dec"} => JobOf(v) \in keys'
  <2> SUFFICES ASSUME NEW v \in Worker, pc'[v] \in {"crawl", "send", "dec"}
               PROVE  JobOf(v) \in keys'
    OBVIOUS
  <2>1. v # w /\ pc[v] \in {"crawl", "send", "dec"}
    BY <1>6
  <2>2. JobOf(v) \in Job /\ JobOf(v) # k
    BY <1>1, <1>3, <2>1, CurIsLive DEF Uncounted
  <2>3. QED
    BY <1>7, <2>1, <2>2 DEF IInv, CountInv
<1>10. CountInv'
  BY <1>1, <1>5, <1>7, <1>8, <1>9 DEF IInv, CountInv, Submitted, TasksOf
<1>11. PublishInv'
  <2>1. \A v \in Worker : pc[v] \in {"publish", "delete"} => JobOf(v) \in Job
    BY <1>1, BusyJob
  <2>2. QED
    BY <1>1, <1>4, <1>5, <1>6, <2>1 DEF IInv, PublishInv
<1>12. ToldInv' /\ CompletedOnce'
  BY <1>1, <1>4 DEF IInv, ToldInv, CompletedOnce, Submitted, TasksOf
<1>13. QED
  BY <1>10, <1>11, <1>12 DEF IInv

LEMMA InvPushToBroker ==
    ASSUME IInv, BaseInv', NEW t \in Task, PushToBroker(t)
    PROVE  IInv'
<1>1. BaseInv
  BY DEF IInv
<1>2. \A j \in Job : Live(j)' \subseteq Live(j)
  BY <1>1, PushLive DEF OnlyJob
<1>3. QED
  BY <1>1, <1>2, QuietStep DEF PushToBroker, Move, BaseInv, TypeOK

LEMMA InvPull ==
    ASSUME IInv, BaseInv', NEW w \in Worker, NEW t \in Task, Pull(w, t)
    PROVE  IInv'
<1>1. BaseInv
  BY DEF IInv
<1>2. \A j \in Job : Live(j)' \subseteq Live(j)
  BY <1>1, PullLive DEF LiveSame
<1>3. QED
  BY <1>1, <1>2, QuietStep DEF Pull, Goto, Move, BaseInv, TypeOK

LEMMA InvBadJob ==
    ASSUME IInv, BaseInv', NEW w \in Worker, BadJob(w)
    PROVE  IInv'
<1>1. BaseInv
  BY DEF IInv
<1>2. \A j \in Job : Live(j)' \subseteq Live(j)
  <2>1. OnlyJob(JobOf(w)) /\ Live(JobOf(w))' = Live(JobOf(w)) \ {cur[w]}
    BY <1>1, RetireLive DEF BadJob, Uncounted
  <2>2. JobOf(w)' = JobOf(w)
    BY DEF BadJob, JobOf
  <2>3. QED
    BY <2>1, <2>2 DEF OnlyJob
<1>3. QED
  BY <1>1, <1>2, QuietStep DEF BadJob, Goto, BaseInv, TypeOK

LEMMA InvNoSubJobs ==
    ASSUME IInv, BaseInv', NEW w \in Worker, NoSubJobs(w)
    PROVE  IInv'
<1>1. BaseInv
  BY DEF IInv
<1>2. \A j \in Job : Live(j)' \subseteq Live(j)
  BY <1>1, MoveOnLive DEF NoSubJobs, LiveSame, Uncounted
<1>3. QED
  BY <1>1, <1>2, QuietStep DEF NoSubJobs, Goto, BaseInv, TypeOK

LEMMA InvSendToBroker ==
    ASSUME IInv, BaseInv', NEW w \in Worker, SendToBroker(w)
    PROVE  IInv'
<1>1. BaseInv
  BY DEF IInv
<1>2. \A j \in Job : Live(j)' \subseteq Live(j)
  <2>1. OnlyJob(JobOf(w)) /\ Live(JobOf(w))' \subseteq Live(JobOf(w))
    BY <1>1, SendLive
  <2>2. JobOf(w)' = JobOf(w)
    BY DEF SendToBroker, JobOf
  <2>3. QED
    BY <2>1, <2>2 DEF OnlyJob
<1>3. QED
  BY <1>1, <1>2, QuietStep DEF SendToBroker, Goto, Move, BaseInv, TypeOK

LEMMA InvAck ==
    ASSUME IInv, BaseInv', NEW w \in Worker, Ack(w)
    PROVE  IInv'
<1>1. BaseInv
  BY DEF IInv
<1>2. \A j \in Job : Live(j)' \subseteq Live(j)
  BY <1>1, AckLive DEF LiveSame
<1>3. QED
  BY <1>1, <1>2, QuietStep DEF Ack, Goto, Move, BaseInv, TypeOK

LEMMA InvCrash ==
    ASSUME IInv, BaseInv', NoUnsafeFaults, NEW w \in Worker, Crash(w)
    PROVE  IInv'
<1>1. BaseInv
  BY DEF IInv
<1>2. \A j \in Job : Live(j)' \subseteq Live(j)
  BY <1>1, CrashLive
<1>3. UNCHANGED <<counter, keys, told>>
  BY DEF Crash
<1>4. pc'[w] = "idle" /\ \A v \in Worker : v # w => pc'[v] = pc[v] /\ cur'[v] = cur[v]
  BY <1>1 DEF Crash, Goto, BaseInv, TypeOK
<1>5. \A t \in Task : place[t] # "unused" => place'[t] # "unused"
  BY <1>1 DEF Crash, BaseInv, TypeOK
<1>6. QED
  BY <1>2, <1>3, <1>4, <1>5, QuietStep

LEMMA InvStep == NoUnsafeFaults /\ IInv /\ [Next]_vars => IInv'
<1> SUFFICES ASSUME NoUnsafeFaults, IInv, [Next]_vars PROVE IInv'
  OBVIOUS
<1>1. BaseInv'
  BY BaseStep DEF IInv
<1>2. ASSUME NEW t \in Task, Submit(t) PROVE IInv'
  BY <1>1, <1>2, InvSubmit
<1>3. ASSUME NEW t \in Task, PushToBroker(t) PROVE IInv'
  BY <1>1, <1>3, InvPushToBroker
<1>4. ASSUME NEW w \in Worker, NEW t \in Task, Pull(w, t) PROVE IInv'
  BY <1>1, <1>4, InvPull
<1>5. ASSUME NEW w \in Worker, Crash(w) PROVE IInv'
  BY <1>1, <1>5, InvCrash
<1>6. ASSUME NEW w \in Worker, Step(w) PROVE IInv'
  <2>1. CASE BadJob(w)
    BY <1>1, <2>1, InvBadJob
  <2>2. CASE InitJobCount(w)
    BY <1>1, <2>2, InvInitJobCount
  <2>3. CASE NoSubJobs(w)
    BY <1>1, <2>3, InvNoSubJobs
  <2>4. ASSUME NEW S \in SUBSET Task, IncJobCount(w, S) PROVE IInv'
    BY <1>1, <2>4, InvIncJobCount
  <2>5. CASE SendToBroker(w)
    BY <1>1, <2>5, InvSendToBroker
  <2>6. CASE DecJobCount(w)
    BY <1>1, <2>6, InvDecJobCount
  <2>7. CASE PublishCompleted(w)
    BY <1>1, <2>7, InvPublishCompleted
  <2>8. CASE DeleteCount(w)
    BY <1>1, <2>8, InvDeleteCount
  <2>9. CASE Ack(w)
    BY <1>1, <2>9, InvAck
  <2>10. QED
    BY <1>6, <2>1, <2>2, <2>3, <2>4, <2>5, <2>6, <2>7, <2>8, <2>9 DEF Step
<1>7. CASE UNCHANGED vars
  <2>1. \A j \in Job : Live(j)' = Live(j)
    BY <1>7 DEF vars, Live, IsLive, TasksOf
  <2>2. QED
    BY <1>1, <1>7, <2>1, QuietStep DEF vars
<1>8. QED
  BY <1>2, <1>3, <1>4, <1>5, <1>6, <1>7 DEF Next

-----------------------------------------------------------------------------
(* Results *)

\* The inductive invariant holds as long as no failure in UnsafeFaults occurs.
THEOREM Invariant == ASSUME NoUnsafeFaults PROVE Spec => []IInv
<1>1. Init => IInv
  BY InvInit
<1>2. IInv /\ [Next]_vars => IInv'
  BY InvStep
<1>3. QED
  BY <1>1, <1>2, PTL DEF Spec

\* "completed successfully" is never published for a job with a task left.
THEOREM CompletionIsSafe == ASSUME NoUnsafeFaults PROVE Spec => []CompletedMeansDone
<1>1. IInv => CompletedMeansDone
  BY DEF IInv, ToldInv, CompletedMeansDone
<1>2. QED
  BY <1>1, Invariant, PTL

\* It is published at most once per job.
THEOREM CompletionIsUnique == ASSUME NoUnsafeFaults PROVE Spec => []CompletedOnce
<1>1. IInv => CompletedOnce
  BY DEF IInv
<1>2. QED
  BY <1>1, Invariant, PTL

\* The counter in Redis never falls below the number of live tasks.
THEOREM CounterIsSafe == ASSUME NoUnsafeFaults PROVE Spec => []CounterCoversLive
<1>1. IInv => CounterCoversLive
  BY DEF IInv, CountInv
<1>2. QED
  BY <1>1, Invariant, PTL

LEMMA AbstractInit == Init => Abstract!Init
<1> SUFFICES ASSUME Init PROVE Abstract!Init
  OBVIOUS
<1>1. \A j \in Job : Live(j) = {}
  BY JobCountAssumption DEF Init, Live, IsLive, TasksOf, Uncounted
<1>2. \A j \in Job : Phase(j) = "new"
  BY DEF Init, Phase, Submitted, TasksOf
<1>3. QED
  BY <1>1, <1>2 DEF Abstract!Init

LEMMA LiveIsSubmitted ==
    ASSUME BaseInv, NEW j \in Job, Live(j) # {}
    PROVE  Submitted(j)
  BY DEF BaseInv, TypeOK, HoldInv, Live, IsLive, Submitted, TasksOf, Uncounted

\* A step that changes the live tasks of one job, if it had any, is the abstract
\* Work or a stutter.
LEMMA WorkOrStutter ==
    ASSUME IInv, NEW k \in Job, OnlyJob(k), Live(k)' # Live(k) => Live(k) # {},
           UNCHANGED told, \A j \in Job : Submitted(j)' <=> Submitted(j)
    PROVE  [Abstract!Next]_(Abstract!vars)
<1>1. \A j \in Job : Phase(j)' = Phase(j)
  BY DEF Phase
<1>2. [j \in Job |-> Phase(j)]' = [j \in Job |-> Phase(j)]
  BY <1>1
<1>3. CASE Live(k)' = Live(k)
  <2>1. [j \in Job |-> Live(j)]' = [j \in Job |-> Live(j)]
    BY <1>3 DEF OnlyJob
  <2>2. QED
    BY <1>2, <2>1 DEF Abstract!vars
<1>4. CASE Live(k)' # Live(k)
  <2>1. Live(k) # {} /\ Phase(k) = "active"
    BY <1>4, LiveIsSubmitted DEF IInv, ToldInv, Phase, BaseInv, TypeOK
  <2>2. [j \in Job |-> Live(j)]' = [[j \in Job |-> Live(j)] EXCEPT ![k] = Live(k)']
    BY DEF OnlyJob
  <2>3. Live(k)' \in SUBSET Task
    BY LiveTasks
  <2>4. Abstract!Work(k, Live(k)')
    BY <1>2, <2>1, <2>2 DEF Abstract!Work
  <2>5. QED
    BY <2>3, <2>4 DEF Abstract!Next
<1>5. QED
  BY <1>3, <1>4

LEMMA AbstractSubmit ==
    ASSUME IInv, NEW t \in Task, Submit(t)
    PROVE  [Abstract!Next]_(Abstract!vars)
<1>1. PICK k \in Job : k = Owner[t]
  BY JobCountAssumption
<1>2. BaseInv
  BY DEF IInv
<1>3. Live(k)' = {t} /\ OnlyJob(k)
  BY <1>1, <1>2, SubmitLive
<1>4. ~Submitted(k) /\ told[k] = 0
  BY <1>1, <1>2 DEF Submit, Submitted, TasksOf, IInv, ToldInv, BaseInv, TypeOK
<1>5. Submitted(k)' /\ \A j \in Job : j # k => (Submitted(j)' <=> Submitted(j))
  BY <1>1, <1>2 DEF Submit, Submitted, TasksOf, Move, BaseInv, TypeOK
<1>6. UNCHANGED told
  BY DEF Submit
<1>7. /\ Phase(k) = "new"
      /\ Phase(k)' = "active"
      /\ \A j \in Job : j # k => Phase(j)' = Phase(j)
  BY <1>4, <1>5, <1>6 DEF Phase
<1>8. [j \in Job |-> Live(j)]' = [[j \in Job |-> Live(j)] EXCEPT ![k] = {t}]
  BY <1>3 DEF OnlyJob
<1>9. [j \in Job |-> Phase(j)]' = [[j \in Job |-> Phase(j)] EXCEPT ![k] = "active"]
  BY <1>7
<1>10. Abstract!Begin(k, t)
  BY <1>7, <1>8, <1>9 DEF Abstract!Begin
<1>11. QED
  BY <1>10 DEF Abstract!Next

LEMMA AbstractPublish ==
    ASSUME IInv, NEW w \in Worker, PublishCompleted(w)
    PROVE  [Abstract!Next]_(Abstract!vars)
<1>1. BaseInv /\ pc[w] = "publish"
  BY DEF IInv, PublishCompleted
<1>2. PICK k \in Job : k = JobOf(w)
  BY <1>1, BusyJob
<1>3. \A j \in Job : Live(j)' = Live(j)
  BY <1>1, MoveOnLive DEF PublishCompleted, LiveSame, Uncounted
<1>4. [j \in Job |-> Live(j)]' = [j \in Job |-> Live(j)]
  BY <1>3
<1>5. \A j \in Job : Submitted(j)' <=> Submitted(j)
  BY DEF PublishCompleted, Submitted, TasksOf
<1>6. CASE UNCHANGED told
  BY <1>2, <1>3, <1>5, <1>6, WorkOrStutter DEF OnlyJob
<1>7. CASE told' = [told EXCEPT ![k] = @ + 1]
  <2>1. Live(k) = {} /\ told[k] = 0
    BY <1>1, <1>2 DEF IInv, PublishInv
  <2>2. Submitted(k)
    BY <1>1, <1>2, BusyJob DEF BaseInv, TypeOK, HoldInv, Submitted, TasksOf, JobOf
  <2>3. told'[k] = 1 /\ \A j \in Job : j # k => told'[j] = told[j]
    BY <1>1, <1>7, <2>1 DEF BaseInv, TypeOK
  <2>4. /\ Phase(k) = "active"
        /\ Phase(k)' = "completed"
        /\ \A j \in Job : j # k => Phase(j)' = Phase(j)
    BY <1>5, <2>1, <2>2, <2>3 DEF Phase
  <2>5. [j \in Job |-> Phase(j)]' = [[j \in Job |-> Phase(j)] EXCEPT ![k] = "completed"]
    BY <2>4
  <2>6. Abstract!Complete(k)
    BY <1>4, <2>1, <2>4, <2>5 DEF Abstract!Complete
  <2>7. QED
    BY <2>6 DEF Abstract!Next
<1>8. QED
  BY <1>2, <1>6, <1>7 DEF PublishCompleted

\* Every step of the protocol is a step of Completion or a stutter.
LEMMA AbstractStep ==
    NoUnsafeFaults /\ IInv /\ [Next]_vars => [Abstract!Next]_(Abstract!vars)
<1> SUFFICES ASSUME NoUnsafeFaults, IInv, [Next]_vars
             PROVE  [Abstract!Next]_(Abstract!vars)
  OBVIOUS
<1>1. BaseInv
  BY DEF IInv
<1>2. ASSUME NEW t \in Task, PushToBroker(t) PROVE [Abstract!Next]_(Abstract!vars)
  <2>1. PICK k \in Job : k = Owner[t]
    BY JobCountAssumption
  <2>2. Live(k) # {} /\ OnlyJob(k)
    BY <1>1, <1>2, <2>1, PushLive
  <2>3. \A j \in Job : Submitted(j)' <=> Submitted(j)
    BY <1>1, <1>2 DEF PushToBroker, Submitted, TasksOf, Move, BaseInv, TypeOK
  <2>4. QED
    BY <1>2, <2>2, <2>3, WorkOrStutter DEF PushToBroker
<1>3. ASSUME NEW w \in Worker, NEW t \in Task, Pull(w, t)
      PROVE  [Abstract!Next]_(Abstract!vars)
  <2>1. PICK k \in Job : k = Owner[t]
    BY JobCountAssumption
  <2>2. Live(k)' = Live(k) /\ OnlyJob(k)
    BY <1>1, <1>3, PullLive DEF LiveSame, OnlyJob
  <2>3. \A j \in Job : Submitted(j)' <=> Submitted(j)
    BY <1>1, <1>3 DEF Pull, Submitted, TasksOf, Move, BaseInv, TypeOK
  <2>4. QED
    BY <1>3, <2>2, <2>3, WorkOrStutter DEF Pull
<1>4. ASSUME NEW w \in Worker, Crash(w) PROVE [Abstract!Next]_(Abstract!vars)
  <2>1. PICK k \in Job : k = JobOf(w)
    BY <1>1, <1>4, CrashLive
  <2>2. /\ OnlyJob(k)
        /\ Live(k)' # Live(k) => Live(k) # {}
    BY <1>1, <1>4, <2>1, CrashLive DEF OnlyJob
  <2>3. \A j \in Job : Submitted(j)' <=> Submitted(j)
    BY <1>1, <1>4
    DEF Crash, Submitted, TasksOf, BaseInv, TypeOK, HoldInv, SubsInv, Uncounted
  <2>4. QED
    BY <1>4, <2>2, <2>3, WorkOrStutter DEF Crash
<1>5. ASSUME NEW w \in Worker, Step(w) PROVE [Abstract!Next]_(Abstract!vars)
  <2>1. CASE PublishCompleted(w)
    BY <2>1, AbstractPublish
  <2>2. CASE ~PublishCompleted(w)
    <3>1. UNCHANGED told /\ pc[w] # "idle"
      BY <1>5, <2>2
      DEF Step, BadJob, InitJobCount, NoSubJobs, IncJobCount, SendToBroker,
          DecJobCount, DeleteCount, Ack
    <3>2. PICK k \in Job : k = JobOf(w)
      BY <1>1, <3>1, BusyJob
    <3>3. OnlyJob(k) /\ (Live(k)' # Live(k) => Live(k) # {})
      <4>1. CASE BadJob(w) \/ DecJobCount(w) \/ SendToBroker(w)
        <5>1. pc[w] \in Uncounted
          BY <4>1 DEF BadJob, DecJobCount, SendToBroker, Uncounted
        <5>2. Live(k) # {}
          BY <1>1, <3>2, <5>1, CurIsLive
        <5>3. OnlyJob(k)
          <6>1. CASE BadJob(w)
            BY <1>1, <3>2, <6>1, RetireLive DEF BadJob, Uncounted
          <6>2. CASE DecJobCount(w)
            <7>1. PICK p \in {"publish", "ack"} : Goto(w, p)
              BY <6>2 DEF DecJobCount
            <7>2. QED
              BY <1>1, <3>2, <6>2, <7>1, RetireLive DEF DecJobCount, Uncounted
          <6>3. CASE SendToBroker(w)
            BY <1>1, <3>2, <6>3, SendLive
          <6>4. QED
            BY <4>1, <6>1, <6>2, <6>3
        <5>4. QED
          BY <5>2, <5>3
      <4>2. ASSUME NEW S \in SUBSET Task, IncJobCount(w, S)
            PROVE  OnlyJob(k) /\ (Live(k)' # Live(k) => Live(k) # {})
        <5>1. pc[w] \in Uncounted
          BY <4>2 DEF IncJobCount, Uncounted
        <5>2. QED
          BY <1>1, <3>2, <4>2, <5>1, CurIsLive, IncLive
      <4>3. CASE InitJobCount(w) \/ NoSubJobs(w) \/ DeleteCount(w)
        BY <1>1, <4>3, MoveOnLive
        DEF InitJobCount, NoSubJobs, DeleteCount, LiveSame, OnlyJob, Uncounted
      <4>4. CASE Ack(w)
        BY <1>1, <4>4, AckLive DEF LiveSame, OnlyJob
      <4>5. QED
        BY <1>5, <2>2, <4>1, <4>2, <4>3, <4>4 DEF Step
    <3>4. \A j \in Job : Submitted(j)' <=> Submitted(j)
      <4>1. ASSUME NEW S \in SUBSET Task, IncJobCount(w, S)
            PROVE  \A j \in Job : Submitted(j)' <=> Submitted(j)
        <5>1. Submitted(k)
          BY <1>1, <3>1, <3>2, BusyJob DEF BaseInv, TypeOK, HoldInv, Submitted, TasksOf, JobOf
        <5>2. \A t \in Task : (place'[t] # "unused") <=> (place[t] # "unused" \/ t \in S)
          BY <1>1, <4>1 DEF IncJobCount, Move, BaseInv, TypeOK
        <5>3. \A t \in S : Owner[t] = k
          BY <3>2, <4>1 DEF IncJobCount
        <5>4. QED
          BY <5>1, <5>2, <5>3 DEF Submitted, TasksOf
      <4>2. CASE SendToBroker(w)
        BY <1>1, <4>2
        DEF SendToBroker, Submitted, TasksOf, Move, BaseInv, TypeOK, SubsInv
      <4>3. CASE Ack(w)
        BY <1>1, <3>1, <4>3, BusyJob
        DEF Ack, Submitted, TasksOf, Move, BaseInv, TypeOK, HoldInv
      <4>4. CASE UNCHANGED place
        BY <4>4 DEF Submitted, TasksOf
      <4>5. QED
        BY <1>5, <2>2, <4>1, <4>2, <4>3, <4>4
        DEF Step, BadJob, InitJobCount, NoSubJobs, DecJobCount, DeleteCount
    <3>5. QED
      BY <3>1, <3>3, <3>4, WorkOrStutter
  <2>3. QED
    BY <2>1, <2>2
<1>6. ASSUME NEW t \in Task, Submit(t) PROVE [Abstract!Next]_(Abstract!vars)
  BY <1>6, AbstractSubmit
<1>7. CASE UNCHANGED vars
  <2>1. \A j \in Job : Live(j)' = Live(j) /\ Phase(j)' = Phase(j)
    BY <1>7 DEF vars, Live, IsLive, TasksOf, Phase, Submitted
  <2>2. /\ [j \in Job |-> Live(j)]' = [j \in Job |-> Live(j)]
        /\ [j \in Job |-> Phase(j)]' = [j \in Job |-> Phase(j)]
    BY <2>1
  <2>3. QED
    BY <2>2 DEF Abstract!vars
<1>8. QED
  BY <1>2, <1>3, <1>4, <1>5, <1>6, <1>7 DEF Next

\* The counter protocol of the code implements Completion: a job begins with one
\* task, only live tasks beget tasks, and its completion is announced once, at
\* the end.
THEOREM Refinement == ASSUME NoUnsafeFaults PROVE Spec => CompletionSpec
<1>1. Init => Abstract!Init
  BY AbstractInit
<1>2. IInv /\ [Next]_vars => [Abstract!Next]_(Abstract!vars)
  BY AbstractStep
<1>3. QED
  BY <1>1, <1>2, Invariant, PTL DEF Spec, CompletionSpec, Abstract!Spec

-----------------------------------------------------------------------------
(* Where the counter is exact *)

\* Failures after which every "- 1" still comes: the server's HSETNX is made up
\* for by the first crawler's, and who dies after its own "- 1" owes none.
NoLostCount == Faults \subseteq {"noSubscriber", "lateCrash"}

\* A key without a task is one that its job's last crawler is about to delete.
KeyInv ==
    \A j \in Job :
        j \in keys /\ Live(j) = {} =>
            \E w \in Worker : pc[w] \in {"publish", "delete"} /\ JobOf(w) = j

LEMMA SendKeepsLive ==
    ASSUME BaseInv, NoLostCount, NEW w \in Worker, SendToBroker(w)
    PROVE  LiveSame
<1> USE JobCountAssumption
    DEF BaseInv, TypeOK, HoldInv, SubsInv, SendToBroker, Move, Goto, Uncounted
<1>1. "sendFails" \notin Faults
  BY DEF NoLostCount
<1>2. \A u \in Task : IsLive(u)' <=> IsLive(u)
  BY <1>1 DEF IsLive
<1>3. QED
  BY <1>2 DEF Live, LiveSame, TasksOf

LEMMA PushKeepsLive ==
    ASSUME BaseInv, NoLostCount, NEW t \in Task, PushToBroker(t)
    PROVE  LiveSame
<1> USE JobCountAssumption DEF BaseInv, TypeOK, HoldInv, PushToBroker, Move
<1>1. "pushFails" \notin Faults
  BY DEF NoLostCount
<1>2. \A u \in Task : IsLive(u)' <=> IsLive(u)
  BY <1>1 DEF IsLive
<1>3. QED
  BY <1>2 DEF Live, LiveSame, TasksOf

\* Only three actions change a set of live tasks.
LEMMA LiveSteps ==
    ASSUME BaseInv, NoLostCount, [Next]_vars,
           \A t \in Task : ~Submit(t),
           \A w \in Worker : ~DecJobCount(w),
           \A w \in Worker : \A S \in SUBSET Task : ~IncJobCount(w, S)
    PROVE  LiveSame
<1>1. ASSUME NEW w \in Worker, InitJobCount(w) \/ NoSubJobs(w) \/ PublishCompleted(w) \/ DeleteCount(w)
      PROVE  LiveSame
  BY <1>1, MoveOnLive
  DEF InitJobCount, NoSubJobs, PublishCompleted, DeleteCount, Uncounted
<1>2. ASSUME NEW w \in Worker, Crash(w) PROVE LiveSame
  BY <1>2, CrashLive DEF Crash, NoLostCount, NoUnsafeFaults, UnsafeFaults, Uncounted
<1>3. ASSUME NEW w \in Worker, BadJob(w) PROVE LiveSame
  BY <1>3 DEF BadJob, NoLostCount
<1>4. CASE UNCHANGED vars
  BY <1>4 DEF vars, LiveSame, Live, IsLive, TasksOf
<1>5. QED
  BY <1>1, <1>2, <1>3, <1>4, PullLive, AckLive, SendKeepsLive, PushKeepsLive DEF Next, Step

\* The effect of "+ n" and of "- 1" on both sides.
LEMMA IncCounts ==
    ASSUME IInv, NoLostCount, NEW w \in Worker, NEW S \in SUBSET Task, IncJobCount(w, S)
    PROVE  /\ JobOf(w) \in Job
           /\ JobOf(w) \in keys
           /\ keys' = keys
           /\ Live(JobOf(w))' # {}
           /\ Cardinality(Live(JobOf(w))') = Cardinality(Live(JobOf(w))) + Cardinality(S)
           /\ counter'[JobOf(w)] = counter[JobOf(w)] + Cardinality(S)
           /\ \A j \in Job : j # JobOf(w) => Live(j)' = Live(j) /\ counter'[j] = counter[j]
<1>1. BaseInv /\ pc[w] \in Uncounted /\ JobOf(w) \in keys
  BY DEF IInv, CountInv, IncJobCount, Uncounted
<1>2. JobOf(w) \in Job
  BY <1>1, CurIsLive
<1>3. IncrBy(JobOf(w), Cardinality(S)) /\ S # {}
  BY DEF IncJobCount, NoLostCount
<1>4. /\ Live(JobOf(w)) \cap S = {}
      /\ Live(JobOf(w))' = Live(JobOf(w)) \cup S
      /\ OnlyJob(JobOf(w))
  BY <1>1, IncLive
<1>5. Cardinality(Live(JobOf(w)) \cup S) = Cardinality(Live(JobOf(w))) + Cardinality(S)
  <2>1. IsFiniteSet(Live(JobOf(w))) /\ IsFiniteSet(S)
    BY LiveTasks, TaskSets
  <2>2. Cardinality(Live(JobOf(w))) \in Nat /\ Cardinality(S) \in Nat
    BY LiveTasks, TaskSets
  <2>3. Cardinality(Live(JobOf(w)) \cap S) = 0
    BY <1>4, FS_EmptySet
  <2>4. Cardinality(Live(JobOf(w)) \cup S) =
            Cardinality(Live(JobOf(w))) + Cardinality(S) - Cardinality(Live(JobOf(w)) \cap S)
    BY <2>1, FS_Union
  <2>5. QED
    BY <2>2, <2>3, <2>4
<1>6. QED
  BY <1>1, <1>2, <1>3, <1>4, <1>5 DEF BaseInv, TypeOK, IncrBy, OnlyJob

LEMMA DecCounts ==
    ASSUME IInv, NoLostCount, NEW w \in Worker, DecJobCount(w)
    PROVE  /\ JobOf(w) \in Job
           /\ JobOf(w) \in keys
           /\ keys' = keys
           /\ Cardinality(Live(JobOf(w))') = Cardinality(Live(JobOf(w))) - 1
           /\ counter'[JobOf(w)] = counter[JobOf(w)] - 1
           /\ counter'[JobOf(w)] <= 0 => pc'[w] = "publish"
           /\ UNCHANGED cur
           /\ \A v \in Worker : v # w => pc'[v] = pc[v]
           /\ \A j \in Job : j # JobOf(w) => Live(j)' = Live(j) /\ counter'[j] = counter[j]
<1>1. BaseInv /\ pc[w] = "dec" /\ pc[w] \in Uncounted /\ JobOf(w) \in keys
  BY DEF IInv, CountInv, DecJobCount, Uncounted
<1>2. JobOf(w) \in Job /\ cur[w] \in Live(JobOf(w))
  BY <1>1, CurIsLive
<1>3. /\ UNCHANGED <<place, cur, subs, told>>
      /\ IncrBy(JobOf(w), -1)
      /\ Goto(w, IF counter'[JobOf(w)] <= 0 THEN "publish" ELSE "ack")
  BY DEF DecJobCount, NoLostCount
<1>4. Live(JobOf(w))' = Live(JobOf(w)) \ {cur[w]} /\ OnlyJob(JobOf(w))
  BY <1>1, <1>3, RetireLive DEF Uncounted
<1>5. Cardinality(Live(JobOf(w))') = Cardinality(Live(JobOf(w))) - 1
  BY <1>2, <1>4, LiveTasks, TaskSets, FS_RemoveElement
<1>6. keys' = keys /\ counter' = [counter EXCEPT ![JobOf(w)] = @ + (-1)]
  BY <1>1, <1>3 DEF IncrBy
<1>7. counter[JobOf(w)] \in Int /\ counter \in [Job -> Int]
  BY <1>1, <1>2 DEF BaseInv, TypeOK
<1>8. counter'[JobOf(w)] = counter[JobOf(w)] - 1
  BY <1>2, <1>6, <1>7
<1>9. /\ counter'[JobOf(w)] <= 0 => pc'[w] = "publish"
      /\ \A v \in Worker : v # w => pc'[v] = pc[v]
  BY <1>1, <1>3 DEF BaseInv, TypeOK, Goto
<1>10. QED
  BY <1>1, <1>2, <1>3, <1>4, <1>5, <1>6, <1>7, <1>8, <1>9 DEF OnlyJob

\* In every other step a counter keeps its value, or a crawler with a live task
\* sets it to 1 because it was not there.
LEMMA CounterSteps ==
    ASSUME IInv, NoLostCount, [Next]_vars,
           \A t \in Task : ~Submit(t),
           \A w \in Worker : ~DecJobCount(w),
           \A w \in Worker : \A S \in SUBSET Task : ~IncJobCount(w, S)
    PROVE  \A j \in keys' :
              \/ j \in keys /\ counter'[j] = counter[j]
              \/ counter'[j] = 1 /\ j \notin keys /\ Live(j) # {}
<1>1. ASSUME NEW w \in Worker, InitJobCount(w)
      PROVE  \A j \in keys' :
                \/ j \in keys /\ counter'[j] = counter[j]
                \/ counter'[j] = 1 /\ j \notin keys /\ Live(j) # {}
  <2>1. JobOf(w) \in Job /\ Live(JobOf(w)) # {}
    BY <1>1, CurIsLive DEF IInv, InitJobCount, Uncounted
  <2>2. SetIfAbsent(JobOf(w))
    BY <1>1 DEF InitJobCount, NoLostCount
  <2>3. QED
    BY <2>1, <2>2 DEF SetIfAbsent, IInv, BaseInv, TypeOK
<1>2. ASSUME NEW w \in Worker, DeleteCount(w)
      PROVE  \A j \in keys' : j \in keys /\ counter'[j] = counter[j]
  BY <1>2 DEF DeleteCount, IInv, BaseInv, TypeOK
<1>3. CASE UNCHANGED <<counter, keys>>
  BY <1>3
<1>4. QED
  BY <1>1, <1>2, <1>3
  DEF Next, Step, vars, PushToBroker, Pull, BadJob, NoSubJobs, SendToBroker,
      PublishCompleted, Ack, Crash

LEMMA ExactStep == NoLostCount /\ IInv /\ CounterExact /\ [Next]_vars => CounterExact'
<1> SUFFICES ASSUME NoLostCount, IInv, CounterExact, [Next]_vars,
                    NEW j \in Job, j \in keys'
             PROVE  counter'[j] = Cardinality(Live(j)')
  BY DEF CounterExact
<1>1. Cardinality(Live(j)) \in Nat /\ (j \in keys => counter[j] = Cardinality(Live(j)))
  BY LiveTasks, TaskSets DEF CounterExact
<1>2. ASSUME NEW t \in Task, Submit(t) PROVE counter'[j] = Cardinality(Live(j)')
  <2>1. Live(Owner[t])' = {t} /\ OnlyJob(Owner[t]) /\ Owner[t] \in Job
    BY <1>2, SubmitLive, JobCountAssumption DEF IInv
  <2>2. Owner[t] \notin keys
    BY <1>2 DEF IInv, CountInv, BaseInv, TypeOK, Submit, Submitted
  <2>3. CASE j = Owner[t]
    <3>1. counter'[j] = 1
      BY <1>2, <2>1, <2>2, <2>3 DEF Submit, SetIfAbsent, IInv, BaseInv, TypeOK
    <3>2. Live(j)' = {t}
      BY <2>1, <2>3, JobCountAssumption
    <3>3. Cardinality({t}) = 1
      BY FS_Singleton
    <3>4. QED
      BY <3>1, <3>2, <3>3
  <2>4. CASE j # Owner[t]
    <3>1. j \in keys /\ counter'[j] = counter[j]
      BY <1>2, <2>1, <2>4 DEF Submit, SetIfAbsent, IInv, BaseInv, TypeOK
    <3>2. QED
      BY <1>1, <2>1, <2>4, <3>1 DEF OnlyJob
  <2>5. QED
    BY <2>3, <2>4
<1>3. ASSUME NEW w \in Worker, NEW S \in SUBSET Task, IncJobCount(w, S)
      PROVE  counter'[j] = Cardinality(Live(j)')
  <2>1. CASE j = JobOf(w)
    <3>1. Live(j)' = Live(JobOf(w))'
      BY <1>3, <2>1 DEF IncJobCount, JobOf
    <3>2. QED
      BY <1>1, <1>3, <2>1, <3>1, IncCounts
  <2>2. CASE j # JobOf(w)
    BY <1>1, <1>3, <2>2, IncCounts
  <2>3. QED
    BY <2>1, <2>2
<1>4. ASSUME NEW w \in Worker, DecJobCount(w) PROVE counter'[j] = Cardinality(Live(j)')
  <2>1. CASE j = JobOf(w)
    <3>1. Live(j)' = Live(JobOf(w))'
      BY <1>4, <2>1 DEF DecJobCount, JobOf
    <3>2. QED
      BY <1>1, <1>4, <2>1, <3>1, DecCounts
  <2>2. CASE j # JobOf(w)
    BY <1>1, <1>4, <2>2, DecCounts
  <2>3. QED
    BY <2>1, <2>2
<1>5. CASE /\ \A t \in Task : ~Submit(t)
           /\ \A w \in Worker : ~DecJobCount(w)
           /\ \A w \in Worker : \A S \in SUBSET Task : ~IncJobCount(w, S)
  <2>1. Live(j)' = Live(j)
    BY <1>5, LiveSteps DEF IInv, LiveSame
  <2>2. CASE j \in keys /\ counter'[j] = counter[j]
    BY <1>1, <2>1, <2>2
  <2>3. CASE counter'[j] = 1 /\ j \notin keys /\ Live(j) # {}
    <3>1. Cardinality(Live(j)) <= 1
      BY <2>3 DEF IInv, CountInv, CounterCoversLive
    <3>2. Cardinality(Live(j)) >= 1
      BY <2>3, LiveTasks, TaskSets
    <3>3. QED
      BY <1>1, <2>1, <2>3, <3>1, <3>2
  <2>4. QED
    BY <1>5, <2>2, <2>3, CounterSteps
<1>6. QED
  BY <1>2, <1>3, <1>4, <1>5

\* Without a failure that loses a "- 1", the counter is the number of live tasks
\* whenever the key is there: every HINCRBY of every crawler, in any order.
THEOREM CounterIsExact == ASSUME NoLostCount PROVE Spec => []CounterExact
<1>1. NoUnsafeFaults
  BY DEF NoLostCount, NoUnsafeFaults, UnsafeFaults
<1>2. Init => CounterExact
  BY DEF Init, CounterExact
<1>3. IInv /\ CounterExact /\ [Next]_vars => CounterExact'
  BY ExactStep
<1>4. Spec => []IInv
  BY <1>1, Invariant
<1>5. QED
  BY <1>2, <1>3, <1>4, PTL DEF Spec

LEMMA KeyStep ==
    Faults \subseteq {"noSubscriber"} /\ IInv /\ CounterExact /\ KeyInv /\ [Next]_vars => KeyInv'
<1> SUFFICES ASSUME Faults \subseteq {"noSubscriber"}, IInv, CounterExact, KeyInv, [Next]_vars,
                    NEW j \in Job, j \in keys', Live(j)' = {}
             PROVE  \E w \in Worker : pc'[w] \in {"publish", "delete"} /\ JobOf(w)' = j
  BY DEF KeyInv
<1> DEFINE Left == \E w \in Worker : pc'[w] \in {"publish", "delete"} /\ JobOf(w)' = j
<1>0. NoLostCount /\ BaseInv
  BY DEF NoLostCount, IInv
<1>1. ASSUME NEW t \in Task, Submit(t) PROVE Left
  <2>1. Live(Owner[t])' = {t} /\ OnlyJob(Owner[t])
    BY <1>0, <1>1, SubmitLive
  <2>2. j # Owner[t]
    BY <2>1, JobCountAssumption
  <2>3. j \in keys /\ Live(j) = {}
    BY <1>1, <2>1, <2>2 DEF Submit, SetIfAbsent, OnlyJob
  <2>4. QED
    BY <1>1, <2>3 DEF KeyInv, Submit, JobOf
<1>2. ASSUME NEW w \in Worker, NEW S \in SUBSET Task, IncJobCount(w, S) PROVE Left
  <2>1. /\ keys' = keys
        /\ Live(JobOf(w))' # {}
        /\ \A i \in Job : i # JobOf(w) => Live(i)' = Live(i)
    BY <1>0, <1>2, IncCounts
  <2>2. j # JobOf(w)
    BY <1>2, <2>1 DEF IncJobCount, JobOf
  <2>3. PICK v \in Worker : pc[v] \in {"publish", "delete"} /\ JobOf(v) = j
    BY <2>1, <2>2 DEF KeyInv
  <2>4. pc'[v] = pc[v] /\ JobOf(v)' = j
    BY <1>0, <1>2, <2>3 DEF IncJobCount, Goto, JobOf, BaseInv, TypeOK
  <2>5. QED
    BY <2>3, <2>4
<1>3. ASSUME NEW w \in Worker, DecJobCount(w) PROVE Left
  <2>1. CASE j = JobOf(w)
    <3>1. Live(j)' = Live(JobOf(w))' /\ JobOf(w)' = j
      BY <1>3, <2>1 DEF DecJobCount, JobOf
    <3>2. Cardinality(Live(JobOf(w))') = 0
      BY <3>1, FS_EmptySet
    <3>3. counter[JobOf(w)] = Cardinality(Live(JobOf(w)))
      BY <1>0, <1>3, DecCounts DEF CounterExact
    <3>4. Cardinality(Live(JobOf(w))) \in Nat
      BY LiveTasks, TaskSets
    <3>5. counter'[JobOf(w)] <= 0
      BY <1>0, <1>3, <3>2, <3>3, <3>4, DecCounts
    <3>6. QED
      BY <1>0, <1>3, <3>1, <3>5, DecCounts
  <2>2. CASE j # JobOf(w)
    <3>1. j \in keys /\ Live(j) = {}
      BY <1>0, <1>3, <2>2, DecCounts
    <3>2. PICK v \in Worker : pc[v] \in {"publish", "delete"} /\ JobOf(v) = j
      BY <3>1 DEF KeyInv
    <3>3. pc'[v] = pc[v] /\ JobOf(v)' = j
      BY <1>0, <1>3, <2>2, <3>2, DecCounts DEF JobOf
    <3>4. QED
      BY <3>2, <3>3
  <2>3. QED
    BY <2>1, <2>2
<1>4. CASE /\ \A t \in Task : ~Submit(t)
           /\ \A w \in Worker : ~DecJobCount(w)
           /\ \A w \in Worker : \A S \in SUBSET Task : ~IncJobCount(w, S)
  <2>1. Live(j) = {}
    BY <1>0, <1>4, LiveSteps DEF LiveSame
  <2>2. j \in keys
    BY <1>0, <1>4, <2>1, CounterSteps
  <2>3. PICK v \in Worker : pc[v] \in {"publish", "delete"} /\ JobOf(v) = j
    BY <2>1, <2>2 DEF KeyInv
  <2>4. cur[v] # NoTask
    BY <1>0, <2>3 DEF BaseInv, HoldInv
  <2>5. ~DeleteCount(v)
    BY <1>0, <2>3 DEF DeleteCount
  <2>6. JobOf(v)' = j /\ pc'[v] \in {"publish", "delete"}
    <3>1. CASE PublishCompleted(v)
      BY <1>0, <2>3, <3>1 DEF PublishCompleted, Goto, JobOf, BaseInv, TypeOK
    <3>2. CASE ~PublishCompleted(v)
      <4>1. ASSUME NEW w \in Worker, w # v, Step(w) \/ (\E t \in Task : Pull(w, t))
            PROVE  cur'[v] = cur[v] /\ pc'[v] = pc[v]
        BY <1>0, <4>1
        DEF Step, Pull, BadJob, InitJobCount, NoSubJobs, IncJobCount, SendToBroker,
            DecJobCount, PublishCompleted, DeleteCount, Ack, Goto, BaseInv, TypeOK
      <4>2. ~Step(v) /\ (\A t \in Task : ~Pull(v, t))
        BY <2>3, <2>5, <3>2
        DEF Step, Pull, BadJob, InitJobCount, NoSubJobs, IncJobCount, SendToBroker,
            DecJobCount, Ack
      <4>3. \A w \in Worker : ~Crash(w)
        BY DEF Crash
      <4>4. ASSUME NEW t \in Task, PushToBroker(t) PROVE cur'[v] = cur[v] /\ pc'[v] = pc[v]
        BY <4>4 DEF PushToBroker
      <4>5. cur'[v] = cur[v] /\ pc'[v] = pc[v]
        BY <1>4, <4>1, <4>2, <4>3, <4>4 DEF Next, vars
      <4>6. QED
        BY <2>3, <4>5 DEF JobOf
    <3>3. QED
      BY <3>1, <3>2
  <2>7. QED
    BY <2>6
<1>5. QED
  BY <1>1, <1>2, <1>3, <1>4

\* When nothing fails but, possibly, the server's own HSETNX, no key outlives its job:
\* the crawler that took the last task's "- 1" still holds that task until the DEL.
\* Every other failure of FaultKinds is excluded: a push or a sending that fails, a
\* crash, and an HINCRBY or a DEL that fails can each leave a key behind.
THEOREM NoKeyLeftBehind ==
    ASSUME Faults \subseteq {"noSubscriber"} PROVE Spec => []NoStaleKey
<1>1. NoLostCount /\ NoUnsafeFaults
  BY DEF NoLostCount, NoUnsafeFaults, UnsafeFaults
<1>2. Init => KeyInv
  BY DEF Init, KeyInv
<1>3. IInv /\ CounterExact /\ KeyInv /\ [Next]_vars => KeyInv'
  BY KeyStep
<1>4. Spec => []IInv
  BY <1>1, Invariant
<1>5. Spec => []CounterExact
  BY <1>1, CounterIsExact
<1>6. IInv /\ KeyInv => NoStaleKey
  BY DEF IInv, BaseInv, HoldInv, KeyInv, NoStaleKey, JobOf
<1>7. QED
  BY <1>2, <1>3, <1>4, <1>5, <1>6, PTL DEF Spec
=============================================================================
