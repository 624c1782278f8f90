---------------------------- MODULE CrawlerProofs ---------------------------
(***************************************************************************)
(* The crawl, for every web, every depth, and every number of jobs, tasks  *)
(* and crawlers.                                                           *)
(*                                                                         *)
(* It implements the counter protocol of JobCount, whatever fails; what it *)
(* writes has the right types, and the URL locks are given back. A task, a *)
(* job row and a logged page tell the truth about how far from the job's   *)
(* root their page is, and a job that was announced as complete does not   *)
(* change any more.                                                        *)
(*                                                                         *)
(* That a crawler holds a task while it works comes from JobCountProofs    *)
(* (Basis). The lemmas InitMoves to CrashMoves say where each action takes *)
(* its crawler and what it does to its locals; the invariants are proved   *)
(* from them.                                                              *)
(*                                                                         *)
(* What is said of depths needs hypotheses which the code does not         *)
(* enforce. Jobs whose sites overlap ask for the same root and depth       *)
(* (Compatible): otherwise check_url copies the rows of one job into       *)
(* another at the wrong depths. Such jobs run one after the other          *)
(* (InTurn): otherwise a task of the second may find its page known before *)
(* either job has a row. insert_tbs hits no database error: otherwise a    *)
(* sub-job may be the first to insert the job's row, with its own url and  *)
(* depth.                                                                  *)
(***************************************************************************)
EXTENDS Crawler, TLAPS, FiniteSetTheorems

\* Advance is the step of a crawler that JobCount does not see.
LEMMA FinishIsNoSubJobs ==
    ASSUME NEW w \in Worker, Finish(w)
    PROVE  Count!Step(w)
  BY DEF Finish, Count!Step

LEMMA AdvanceIsStutter ==
    ASSUME NEW w, NEW s, Advance(w, s)
    PROVE  UNCHANGED Count!vars
  BY DEF Advance, counting, Count!vars

\* Whichever way Branch goes, it ends the crawl of the task or moves on in it.
LEMMA BranchStep ==
    ASSUME NEW w \in Worker, NEW known, NEW seen, Branch(w, known, seen),
           seen => Count!Step(w) \/ UNCHANGED Count!vars
    PROVE  Count!Step(w) \/ UNCHANGED Count!vars
  BY FinishIsNoSubJobs, AdvanceIsStutter DEF Branch

LEMMA SendOrFinishStep ==
    ASSUME NEW w \in Worker, NEW out, SendOrFinish(w, out)
    PROVE  Count!Step(w) \/ UNCHANGED Count!vars
  BY FinishIsNoSubJobs, AdvanceIsStutter DEF SendOrFinish

\* Every step of a crawler is one of the counter protocol or invisible to it.
LEMMA StepOfCount ==
    ASSUME NEW w \in Worker, Step(w)
    PROVE  Count!Step(w) \/ UNCHANGED Count!vars
<1>1. CASE BadJob(w)
  BY <1>1 DEF BadJob, Count!Step
<1>2. CASE InitJobCount(w)
  BY <1>2 DEF InitJobCount, Count!Step
<1>3. CASE CheckRobot(w)
  BY <1>3, AdvanceIsStutter DEF CheckRobot
<1>4. CASE CrawlReady(w)
  BY <1>4, FinishIsNoSubJobs, AdvanceIsStutter DEF CrawlReady
<1>5. CASE CheckIfPresent(w)
  BY <1>5, AdvanceIsStutter DEF CheckIfPresent
<1>6. CASE CheckJob(w)
  BY <1>6, FinishIsNoSubJobs, AdvanceIsStutter DEF CheckJob
<1>7. CASE CheckNewUrl(w)
  BY <1>7, BranchStep, AdvanceIsStutter DEF CheckNewUrl
<1>8. CASE CheckSeenUrl(w)
  BY <1>8, BranchStep, FinishIsNoSubJobs, AdvanceIsStutter DEF CheckSeenUrl
<1>9. CASE LinksOfLog(w)
  BY <1>9, BranchStep, SendOrFinishStep, FinishIsNoSubJobs DEF LinksOfLog
<1>10. CASE DepthHandler(w)
  BY <1>10, SendOrFinishStep, FinishIsNoSubJobs DEF DepthHandler
<1>11. CASE Scrape(w)
  BY <1>11, AdvanceIsStutter DEF Scrape
<1>12. CASE SelectUrl(w)
  BY <1>12, AdvanceIsStutter DEF SelectUrl
<1>13. CASE InsertTbs(w)
  BY <1>13, AdvanceIsStutter DEF InsertTbs
<1>14. CASE Unlock(w)
  BY <1>14, FinishIsNoSubJobs, AdvanceIsStutter DEF Unlock
<1>15. CASE CheckIfVisited(w)
  BY <1>15, SendOrFinishStep, FinishIsNoSubJobs DEF CheckIfVisited
<1>16. CASE IncJobCount(w)
  <2> DEFINE S == Fresh(JobOf(w), Cardinality(mem[w].out))
  <2>1. S \in SUBSET Task
    BY DEF Fresh, Unused, Count!TasksOf
  <2>2. Count!IncJobCount(w, S)
    BY <1>16 DEF IncJobCount
  <2>3. QED
    BY <2>1, <2>2 DEF Count!Step
<1>17. CASE Raise(w)
  BY <1>17, FinishIsNoSubJobs DEF Raise
<1>18. CASE AfterCrawl(w)
  BY <1>18 DEF AfterCrawl, Count!Step
<1>19. QED
  BY <1>1, <1>2, <1>3, <1>4, <1>5, <1>6, <1>7, <1>8, <1>9, <1>10, <1>11, <1>12,
     <1>13, <1>14, <1>15, <1>16, <1>17, <1>18 DEF Step

LEMMA NextOfCount == [Next]_vars => [Count!Next]_(Count!vars)
<1> SUFFICES ASSUME [Next]_vars PROVE [Count!Next]_(Count!vars)
  OBVIOUS
<1>1. ASSUME NEW t \in Task, Submit(t) PROVE Count!Next
  BY <1>1 DEF Submit, Count!Next
<1>2. ASSUME NEW t \in Task, PushToBroker(t) PROVE Count!Next
  BY <1>2 DEF PushToBroker, Count!Next
<1>3. ASSUME NEW w \in Worker, NEW t \in Task, Pull(w, t) PROVE Count!Next
  BY <1>3 DEF Pull, Count!Next
<1>4. ASSUME NEW w \in Worker, Step(w) PROVE [Count!Next]_(Count!vars)
  BY <1>4, StepOfCount DEF Count!Next
<1>5. ASSUME NEW w \in Worker, Crash(w) PROVE Count!Next
  BY <1>5 DEF Crash, Count!Next
<1>6. ASSUME NEW p \in Page, DelayPasses(p) PROVE UNCHANGED Count!vars
  BY <1>6 DEF DelayPasses, counting, Count!vars
<1>7. CASE UNCHANGED vars
  BY <1>7 DEF vars, Count!vars
<1>8. QED
  BY <1>1, <1>2, <1>3, <1>4, <1>5, <1>6, <1>7 DEF Next

\* The crawl implements the counter protocol.
THEOREM CrawlerImplementsCount == Spec => CountSpec
<1>1. Init => Count!Init
  BY DEF Init
<1>2. QED
  BY <1>1, NextOfCount, PTL DEF Spec, CountSpec, Count!Spec

-----------------------------------------------------------------------------
(* What JobCountProofs shows therefore holds of the crawl. *)

Proofs == INSTANCE JobCountProofs

LEMMA SameProtocol ==
    /\ Count!Init <=> Proofs!Init
    /\ [Count!Next]_(Count!vars) <=> [Proofs!Next]_(Proofs!vars)
<1>1. Count!Init <=> Proofs!Init
  BY DEF Count!Init, Proofs!Init
<1>2. \A t : Count!Submit(t) <=> Proofs!Submit(t)
  BY DEF Count!Submit, Proofs!Submit, Count!SetIfAbsent, Proofs!SetIfAbsent, Count!Move,
     Proofs!Move, Count!TasksOf, Proofs!TasksOf
<1>3. \A t : Count!PushToBroker(t) <=> Proofs!PushToBroker(t)
  BY DEF Count!PushToBroker, Proofs!PushToBroker, Count!Move, Proofs!Move
<1>4. \A w, t : Count!Pull(w, t) <=> Proofs!Pull(w, t)
  BY DEF Count!Pull, Proofs!Pull, Count!Move, Proofs!Move, Count!Goto, Proofs!Goto
<1>5. \A w : Count!BadJob(w) <=> Proofs!BadJob(w)
  BY DEF Count!BadJob, Proofs!BadJob, Count!Goto, Proofs!Goto
<1>6. \A w : Count!InitJobCount(w) <=> Proofs!InitJobCount(w)
  BY DEF Count!InitJobCount, Proofs!InitJobCount, Count!SetIfAbsent, Proofs!SetIfAbsent,
     Count!JobOf, Proofs!JobOf, Count!Goto, Proofs!Goto
<1>7. \A w : Count!NoSubJobs(w) <=> Proofs!NoSubJobs(w)
  BY DEF Count!NoSubJobs, Proofs!NoSubJobs, Count!Goto, Proofs!Goto
<1>8. \A w, S : Count!IncJobCount(w, S) <=> Proofs!IncJobCount(w, S)
  BY DEF Count!Cardinality, Proofs!Cardinality, Count!IncJobCount, Proofs!IncJobCount,
     Count!Move, Proofs!Move, Count!IncrBy, Proofs!IncrBy, Count!JobOf, Proofs!JobOf,
     Count!Goto, Proofs!Goto
<1>9. \A w : Count!SendToBroker(w) <=> Proofs!SendToBroker(w)
  BY DEF Count!SendToBroker, Proofs!SendToBroker, Count!Move, Proofs!Move, Count!Goto, Proofs!Goto
<1>10. \A w : Count!DecJobCount(w) <=> Proofs!DecJobCount(w)
  BY DEF Count!DecJobCount, Proofs!DecJobCount, Count!IncrBy, Proofs!IncrBy, Count!JobOf,
     Proofs!JobOf, Count!Goto, Proofs!Goto
<1>11. \A w : Count!PublishCompleted(w) <=> Proofs!PublishCompleted(w)
  BY DEF Count!PublishCompleted, Proofs!PublishCompleted, Count!JobOf, Proofs!JobOf,
     Count!Goto, Proofs!Goto
<1>12. \A w : Count!DeleteCount(w) <=> Proofs!DeleteCount(w)
  BY DEF Count!DeleteCount, Proofs!DeleteCount, Count!JobOf, Proofs!JobOf, Count!Goto, Proofs!Goto
<1>13. \A w : Count!Ack(w) <=> Proofs!Ack(w)
  BY DEF Count!Ack, Proofs!Ack, Count!Move, Proofs!Move, Count!Goto, Proofs!Goto
<1>14. \A w : Count!Crash(w) <=> Proofs!Crash(w)
  BY DEF Count!Crash, Proofs!Crash, Count!Goto, Proofs!Goto, Count!Uncounted, Proofs!Uncounted
<1>15. \A w : Count!Step(w) <=> Proofs!Step(w)
  BY <1>2, <1>3, <1>4, <1>5, <1>6, <1>7, <1>8, <1>9, <1>10, <1>11, <1>12, <1>13, <1>14 DEF
     Count!Step, Proofs!Step
<1>16. Count!vars = Proofs!vars
  BY DEF Count!vars, Proofs!vars
<1>17. Count!Next <=> Proofs!Next
  BY <1>2, <1>3, <1>4, <1>5, <1>6, <1>7, <1>8, <1>9, <1>10, <1>11, <1>12, <1>13, <1>14, <1>15
     DEF Count!Next, Proofs!Next
<1>18. UNCHANGED Count!vars <=> UNCHANGED Proofs!vars
  BY DEF Count!vars, Proofs!vars
<1>19. QED
  BY <1>1, <1>17, <1>18

\* "completed successfully" is never published while a page of the job is still to
\* be crawled.
THEOREM CrawlCompletionIsSafe ==
    ASSUME Faults \cap Count!UnsafeFaults = {}, Faults \subseteq Count!FaultKinds
    PROVE  Spec => []Count!CompletedMeansDone
<1>1. Count!CompletedMeansDone <=> Proofs!CompletedMeansDone
  BY DEF Count!CompletedMeansDone, Proofs!CompletedMeansDone, Count!Live, Proofs!Live,
     Count!IsLive, Proofs!IsLive, Count!TasksOf, Proofs!TasksOf, Count!Uncounted, Proofs!Uncounted
<1>2. /\ Proofs!IsFiniteSet(Task)
      /\ Owner \in [Task -> Job]
      /\ NoTask \notin Task
      /\ Faults \subseteq Proofs!FaultKinds
  BY CrawlerAssumption DEF Count!FaultKinds, Proofs!FaultKinds, IsFiniteSet, Proofs!IsFiniteSet
<1>3. Proofs!NoUnsafeFaults
  BY DEF Proofs!NoUnsafeFaults, Count!UnsafeFaults, Proofs!UnsafeFaults
<1>4. Proofs!Spec => []Proofs!CompletedMeansDone
  BY <1>2, <1>3, Proofs!CompletionIsSafe
<1>5. Init => Proofs!Init
  BY SameProtocol DEF Init
<1>6. [Next]_vars => [Proofs!Next]_(Proofs!vars)
  BY SameProtocol, NextOfCount
<1>7. QED
  BY <1>1, <1>4, <1>5, <1>6, PTL DEF Spec, Proofs!Spec

-----------------------------------------------------------------------------
(* What the counter protocol gives *)

\* A crawler that is not idle holds a task that was created, and so are the
\* sub-jobs it has counted.
Held ==
    \A w \in Worker : /\ pc[w] # "idle" => cur[w] \in Task /\ place[cur[w]] # "unused"
                      /\ \A t \in subs[w] : place[t] # "unused"

Basis == Count!TypeOK /\ Held

\* Whatever fails.
LEMMA BasisHolds ==
    ASSUME Faults \subseteq Count!FaultKinds
    PROVE  Spec => []Basis
<1>1. Proofs!BaseInv => Basis
  BY DEF Proofs!BaseInv, Proofs!TypeOK, Proofs!HoldInv, Proofs!SubsInv, Basis, Held, Count!TypeOK,
     Count!Places, Proofs!Places, Count!PCs, Proofs!PCs
<1>2. /\ Proofs!IsFiniteSet(Task)
      /\ Owner \in [Task -> Job]
      /\ NoTask \notin Task
      /\ Faults \subseteq Proofs!FaultKinds
  BY CrawlerAssumption DEF Count!FaultKinds, Proofs!FaultKinds, IsFiniteSet, Proofs!IsFiniteSet
<1>3. Init => Proofs!BaseInv
  BY <1>2, SameProtocol, Proofs!BaseInit DEF Init
<1>4. Proofs!BaseInv /\ [Next]_vars => Proofs!BaseInv'
  BY <1>2, SameProtocol, NextOfCount, Proofs!BaseStep
<1>5. QED
  BY <1>1, <1>3, <1>4, PTL DEF Spec

\* The task of a crawler that is not idle, and its job and page.
LEMMA BusyTask ==
    ASSUME Basis, NEW w \in Worker, pc[w] # "idle"
    PROVE  cur[w] \in Task /\ JobOf(w) \in Job /\ place[cur[w]] # "unused"
  BY CrawlerAssumption DEF Basis, Held, JobOf

-----------------------------------------------------------------------------
(* Types *)

LEMMA RangeFinite ==
    ASSUME NEW S, IsFiniteSet(S), NEW f
    PROVE  IsFiniteSet({f[x] : x \in S})
<1> DEFINE T == {f[x] : x \in S}
           g == [x \in S |-> f[x]]
<1>1. g \in Surjection(S, T)
  BY DEF Surjection
<1>2. QED
  BY <1>1, FS_Surjection

LEMMA SubJobsFinite ==
    ASSUME NEW S, IsFiniteSet(S), NEW d
    PROVE  IsFiniteSet(SubJobs(S, d))
<1> DEFINE f == [h \in S |-> [href |-> h, depth |-> d]]
<1>1. SubJobs(S, d) = {f[h] : h \in S}
  BY DEF SubJobs
<1> HIDE DEF f
<1>2. IsFiniteSet({f[h] : h \in S})
  BY RangeFinite
<1>3. QED
  BY <1>1, <1>2

\* What the type invariant needs of the past: a sub-job's depth is a number, and
\* there are finitely many of them to choose an order for.
Bounded(w) ==
    /\ IsFiniteSet(mem[w].found)
    /\ IsFiniteSet(mem[w].out)
    /\ step[w] = "visited" => DepthOf(w) > 1

LocalsTyped ==
    /\ step \in [Worker -> Steps]
    /\ mem \in [Worker -> Locals]
    /\ \A w \in Worker : step[w] # "none" <=> pc[w] = "crawl"
    /\ \A w \in Worker : Bounded(w)

TablesTyped ==
    /\ work \in [Task -> Work]
    /\ urls \subseteq Page /\ jobs \subseteq JobRow /\ log \subseteq LogRow
    /\ links \subseteq LinkRow /\ IsFiniteSet(links)
    /\ locks \subseteq Page
    /\ robot \in [Page -> {"none", "ahead", "passed"}]

TypeInv == Basis /\ LocalsTyped /\ TablesTyped

LEMMA TypeInit == Init => LocalsTyped /\ TablesTyped
<1> SUFFICES ASSUME Init PROVE LocalsTyped /\ TablesTyped
  OBVIOUS
<1>1. work \in [Task -> Work]
  BY CrawlerAssumption DEF Init, Work
<1>2. Blank \in Locals
  BY DEF Blank, Locals
<1>3. IsFiniteSet({})
  BY FS_EmptySet
<1>4. LocalsTyped
  BY <1>2, <1>3 DEF Init, Count!Init, LocalsTyped, Bounded, Steps, Blank
<1>5. QED
  BY <1>1, <1>3, <1>4 DEF Init, TablesTyped

LEMMA TypeInvMeans == TypeInv => TypeOK
  BY DEF TypeInv, Basis, LocalsTyped, TablesTyped, TypeOK

\* The page, depth and locals of a crawler in the middle of add().
LEMMA CrawlTyped ==
    ASSUME TypeInv, NEW w \in Worker, step[w] # "none"
    PROVE  /\ pc[w] = "crawl"
           /\ cur[w] \in Task /\ place[cur[w]] # "unused" /\ JobOf(w) \in Job
           /\ work[cur[w]] \in Work /\ DepthOf(w) \in Nat /\ UrlOf(w) \in Page
           /\ mem[w] \in Locals
<1>1. pc[w] = "crawl" /\ mem[w] \in Locals
  BY DEF TypeInv, LocalsTyped
<1>2. cur[w] \in Task /\ JobOf(w) \in Job /\ place[cur[w]] # "unused"
  BY <1>1, BusyTask DEF TypeInv
<1>3. QED
  BY <1>1, <1>2, CrawlerAssumption DEF TypeInv, TablesTyped, Work, DepthOf, UrlOf

-----------------------------------------------------------------------------
(* The local part of a step *)

\* The locals and the task of a crawler are its own.
Others(w) ==
    \A v \in Worker \ {w} : /\ step'[v] = step[v] /\ mem'[v] = mem[v]
                            /\ pc'[v] = pc[v] /\ cur'[v] = cur[v]

\* Crawler w goes on to s, with its locals at m.
Moves(w, s, m) ==
    /\ step' \in [Worker -> Steps] /\ mem' \in [Worker -> Locals]
    /\ step'[w] = s /\ mem'[w] = m
    /\ pc'[w] = "crawl" <=> s # "none"
    /\ cur'[w] = cur[w]
    /\ Others(w)

LEMMA LeaveMoves ==
    ASSUME TypeInv, NEW w \in Worker, Rest(w), cur' = cur,
           NEW p \in Count!PCs \ {"crawl"}, pc' = [pc EXCEPT ![w] = p]
    PROVE  Moves(w, "none", Blank)
<1>1. Blank \in Locals /\ "none" \in Steps
  BY DEF Blank, Locals, Steps
<1>2. step' = [step EXCEPT ![w] = "none"] /\ mem' = [mem EXCEPT ![w] = Blank]
  BY DEF Rest, Goto, Set
<1>3. pc \in [Worker -> Count!PCs]
  BY DEF TypeInv, Basis, Count!TypeOK
<1>4. QED
  BY <1>1, <1>2, <1>3 DEF TypeInv, LocalsTyped, Others, Moves

LEMMA FinishMoves ==
    ASSUME TypeInv, NEW w \in Worker, Finish(w)
    PROVE  Moves(w, "none", Blank)
<1>1. "dec" \in Count!PCs \ {"crawl"}
  BY DEF Count!PCs
<1>2. Rest(w) /\ pc' = [pc EXCEPT ![w] = "dec"] /\ cur' = cur
  BY DEF Finish, Count!NoSubJobs, Count!Goto
<1>3. QED
  BY <1>1, <1>2, LeaveMoves

LEMMA AdvanceMoves ==
    ASSUME TypeInv, NEW w \in Worker, pc[w] = "crawl",
           NEW s \in Steps \ {"none"}, Advance(w, s),
           NEW m \in Locals, mem' = [mem EXCEPT ![w] = m]
    PROVE  Moves(w, s, m)
<1>1. step' = [step EXCEPT ![w] = s] /\ pc' = pc /\ cur' = cur
  BY DEF Advance, Goto, counting
<1>2. QED
  BY <1>1 DEF TypeInv, LocalsTyped, Others, Moves

LEMMA AdvanceKeepsMem ==
    ASSUME TypeInv, NEW w \in Worker, pc[w] = "crawl",
           NEW s \in Steps \ {"none"}, Advance(w, s), UNCHANGED mem
    PROVE  Moves(w, s, mem[w])
<1>1. mem[w] \in Locals /\ mem' = [mem EXCEPT ![w] = mem[w]]
  BY DEF TypeInv, LocalsTyped
<1>2. QED
  BY <1>1, AdvanceMoves

LEMMA BranchMoves ==
    ASSUME TypeInv, NEW w \in Worker, pc[w] = "crawl",
           NEW known, NEW seen, Branch(w, known, seen)
    PROVE  \/ Moves(w, "none", Blank)
           \/ Moves(w, "scrape", mem[w])
           \/ ~mem[w].jobInDb /\ seen
<1>1. "scrape" \in Steps \ {"none"}
  BY DEF Steps
<1>2. QED
  BY <1>1, FinishMoves, AdvanceKeepsMem DEF Branch

LEMMA SendOrFinishMoves ==
    ASSUME TypeInv, NEW w \in Worker, pc[w] = "crawl",
           NEW out \in SUBSET Work, SendOrFinish(w, out)
    PROVE  \/ Moves(w, "none", Blank)
           \/ Moves(w, "count", [Blank EXCEPT !.out = out])
<1>1. "count" \in Steps \ {"none"} /\ [Blank EXCEPT !.out = out] \in Locals
  BY DEF Steps, Blank, Locals
<1>2. QED
  BY <1>1, FinishMoves, AdvanceMoves DEF SendOrFinish, Set

LEMMA SubJobsTyped ==
    ASSUME NEW S \in SUBSET Href, NEW d \in Nat
    PROVE  SubJobs(S, d) \in SUBSET Work
  BY DEF SubJobs, Work

\* The targets of some rows of table links.
LEMMA TargetsOfRows ==
    ASSUME TypeInv, NEW rows \in SUBSET links
    PROVE  {l.target : l \in rows} \subseteq Href /\ IsFiniteSet({l.target : l \in rows})
<1>1. IsFiniteSet(rows)
  BY FS_Subset DEF TypeInv, TablesTyped
<1> DEFINE f == [l \in rows |-> l.target]
<1>2. {l.target : l \in rows} = {f[l] : l \in rows}
  OBVIOUS
<1> HIDE DEF f
<1>3. IsFiniteSet({f[l] : l \in rows})
  BY <1>1, RangeFinite
<1>4. {l.target : l \in rows} \subseteq Href
  BY DEF TypeInv, TablesTyped, LinkRow
<1>5. QED
  BY <1>2, <1>3, <1>4

LEMMA UnvisitedFinite ==
    ASSUME NEW S, IsFiniteSet(S)
    PROVE  Unvisited(S) \subseteq S /\ IsFiniteSet(Unvisited(S))
  BY FS_Subset DEF Unvisited

-----------------------------------------------------------------------------
(* Where each action takes its crawler *)

LEMMA InitMoves ==
    ASSUME TypeInv, NEW w \in Worker, InitJobCount(w)
    PROVE  step[w] = "none" /\ Moves(w, "robots", mem[w])
<1>1. pc \in [Worker -> Count!PCs]
  BY DEF TypeInv, Basis, Count!TypeOK
<1>2. QED
  BY <1>1 DEF InitJobCount, Count!InitJobCount, Count!Goto, Goto, Moves, Others,
     TypeInv, LocalsTyped, Steps

LEMMA ReadyMoves ==
    ASSUME TypeInv, NEW w \in Worker, CheckRobot(w) \/ CrawlReady(w)
    PROVE  \E s \in {"ready", "present"} : Moves(w, s, mem[w]) \/ Moves(w, "none", Blank)
<1>1. {"ready", "present"} \subseteq Steps \ {"none"}
  BY DEF Steps
<1>2. QED
  BY <1>1, FinishMoves, AdvanceKeepsMem DEF CheckRobot, CrawlReady, At

LEMMA PresentMoves ==
    ASSUME TypeInv, NEW w \in Worker, CheckIfPresent(w)
    PROVE  Moves(w, "job", [mem[w] EXCEPT !.inRedis = UrlOf(w) \in locks])
<1> DEFINE b == UrlOf(w) \in locks
           m == [mem[w] EXCEPT !.inRedis = b]
<1>1. b \in BOOLEAN /\ mem[w] \in Locals
  BY DEF TypeInv, LocalsTyped
<1> HIDE DEF b
<1>2. m \in Locals
  BY <1>1 DEF Locals
<1>3. Set(w, m)
  BY DEF CheckIfPresent, b
<1>4. Moves(w, "job", m)
  BY <1>2, <1>3, AdvanceMoves DEF CheckIfPresent, At, Steps, Set
<1>5. QED
  BY <1>4 DEF b

LEMMA JobMoves ==
    ASSUME TypeInv, NEW w \in Worker, CheckJob(w)
    PROVE  \/ Moves(w, "none", Blank)
           \/ Moves(w, "url", [mem[w] EXCEPT !.jobInDb = JobRows(JobOf(w)) # {}])
<1> DEFINE m == [mem[w] EXCEPT !.jobInDb = JobRows(JobOf(w)) # {}]
<1>1. m \in Locals
  BY DEF TypeInv, LocalsTyped, Locals
<1>2. QED
  BY <1>1, AdvanceMoves, FinishMoves DEF CheckJob, At, Steps, Set

LEMMA NewUrlMoves ==
    ASSUME TypeInv, NEW w \in Worker, CheckNewUrl(w)
    PROVE  Moves(w, "none", Blank) \/ \E s \in {"scrape", "depth"} : Moves(w, s, mem[w])
  BY BranchMoves, AdvanceKeepsMem DEF CheckNewUrl, At, Steps

LEMMA SeenUrlMoves ==
    ASSUME TypeInv, NEW w \in Worker, CheckSeenUrl(w)
    PROVE  \/ Moves(w, "none", Blank)
           \/ Moves(w, "scrape", mem[w])
           \/ \E row \in jobs, d \in Nat :
                 /\ row.url = UrlOf(w) /\ row.depth - DepthOf(w) < 0
                 /\ Moves(w, "frontier", [mem[w] EXCEPT !.sub = d])
<1>1. PICK row \in {r \in jobs : r.url = UrlOf(w)} :
        LET dif == row.depth - DepthOf(w)
        IN  \/ Branch(w, TRUE, Finish(w))
            \/ /\ dif < 0
               /\ Set(w, [mem[w] EXCEPT !.sub = SubDepth(dif)])
               /\ Advance(w, "frontier")
  BY DEF CheckSeenUrl
<1> DEFINE dif == row.depth - DepthOf(w)
           m == [mem[w] EXCEPT !.sub = SubDepth(dif)]
<1>2. pc[w] = "crawl" /\ row.depth \in Nat /\ DepthOf(w) \in Nat
  BY CrawlTyped DEF CheckSeenUrl, At, TypeInv, TablesTyped, JobRow
<1>3. CASE Branch(w, TRUE, Finish(w))
  BY <1>2, <1>3, FinishMoves, AdvanceKeepsMem DEF Branch, Steps
<1>4. CASE dif < 0 /\ Set(w, m) /\ Advance(w, "frontier")
  <2>1. SubDepth(dif) \in Nat
    BY <1>2, <1>4 DEF SubDepth
  <2>2. m \in Locals
    BY <2>1 DEF TypeInv, LocalsTyped, Locals
  <2>3. Moves(w, "frontier", m)
    BY <1>2, <1>4, <2>2, AdvanceMoves DEF Steps, Set
  <2>4. QED
    BY <1>4, <2>1, <2>3
<1>5. QED
  BY <1>1, <1>3, <1>4

\* Crawler w has found the sub-jobs out.
Found(w, out) ==
    /\ out \in SUBSET Work /\ out # {} /\ IsFiniteSet(out)
    /\ Moves(w, "count", [Blank EXCEPT !.out = out])

LEMMA SendMoves ==
    ASSUME TypeInv, NEW w \in Worker, pc[w] = "crawl",
           NEW out \in SUBSET Work, IsFiniteSet(out), SendOrFinish(w, out)
    PROVE  Moves(w, "none", Blank) \/ Found(w, out)
<1>1. CASE out = {}
  BY <1>1, FinishMoves DEF SendOrFinish
<1>2. CASE out # {}
  BY <1>2, SendOrFinishMoves DEF Found
<1>3. QED
  BY <1>1, <1>2

LEMMA LinksMoves ==
    ASSUME TypeInv, NEW w \in Worker, LinksOfLog(w)
    PROVE  \/ Moves(w, "none", Blank)
           \/ Moves(w, "scrape", mem[w])
           \/ \E out : Found(w, out)
<1> DEFINE logged == {r.url : r \in {l \in log : l.job = JobOf(w)}}
           rows == {l \in links : LinkSourceKnown /\ l.src \in logged}
           tbr == IF DepthOf(w) > 1
                  THEN SubJobs(Unvisited({l.target : l \in rows}), mem[w].sub) ELSE {}
<1>1. pc[w] = "crawl" /\ mem[w].sub \in Nat
  BY DEF LinksOfLog, At, TypeInv, LocalsTyped, Locals
<1>2. tbr \in SUBSET Work /\ IsFiniteSet(tbr)
  BY <1>1, TargetsOfRows, SubJobsTyped, SubJobsFinite, UnvisitedFinite, FS_EmptySet
<1>3. Branch(w, TRUE, SendOrFinish(w, tbr)) \/ Branch(w, TRUE, Finish(w))
  BY DEF LinksOfLog
<1> HIDE DEF tbr
<1>4. Moves(w, "none", Blank) \/ Moves(w, "scrape", mem[w]) \/ SendOrFinish(w, tbr)
  BY <1>1, <1>3, FinishMoves, AdvanceKeepsMem DEF Branch, Steps
<1>5. QED
  BY <1>1, <1>2, <1>4, SendMoves

LEMMA DepthMoves ==
    ASSUME TypeInv, NEW w \in Worker, DepthHandler(w)
    PROVE  \/ Moves(w, "none", Blank)
           \/ /\ DepthOf(w) > 1
              /\ jobs' = jobs \cup InsertedJob(w)
              /\ \E rows \in SUBSET links :
                    /\ \A l \in rows : l.src = UrlOf(w)
                    /\ Found(w, SubJobs({l.target : l \in rows}, DepthOf(w) - 1))
<1> DEFINE rows == {l \in links : LinkSourceKnown /\ l.src = UrlOf(w)}
           sent == IF DepthOf(w) > 1
                   THEN SubJobs({l.target : l \in rows}, DepthOf(w) - 1) ELSE {}
<1>1. pc[w] = "crawl" /\ DepthOf(w) \in Nat
  BY CrawlTyped DEF DepthHandler, At
<1>2. DepthOf(w) > 1 => DepthOf(w) - 1 \in Nat
  BY <1>1
<1>3. sent \in SUBSET Work /\ IsFiniteSet(sent)
  BY <1>2, TargetsOfRows, SubJobsTyped, SubJobsFinite, FS_EmptySet
<1>4. (jobs' = jobs \cup InsertedJob(w) /\ SendOrFinish(w, sent)) \/ Finish(w)
  BY DEF DepthHandler
<1>5. sent = {} \/ (DepthOf(w) > 1 /\ sent = SubJobs({l.target : l \in rows}, DepthOf(w) - 1))
  OBVIOUS
<1>6. rows \in SUBSET links /\ \A l \in rows : l.src = UrlOf(w)
  OBVIOUS
<1> HIDE DEF sent, rows
<1>7. Moves(w, "none", Blank) \/ (jobs' = jobs \cup InsertedJob(w) /\ Found(w, sent))
  BY <1>1, <1>3, <1>4, FinishMoves, SendMoves
<1>8. Found(w, sent) => sent # {}
  BY DEF Found
<1>9. QED
  BY <1>5, <1>6, <1>7, <1>8

LEMMA ScrapeMoves ==
    ASSUME TypeInv, NEW w \in Worker, Scrape(w)
    PROVE  \E targets \in SUBSET Web[UrlOf(w)] :
              /\ IsFiniteSet(targets)
              /\ Moves(w, "select", [mem[w] EXCEPT !.found = targets])
<1>1. PICK targets \in {Web[UrlOf(w)], {}} : Set(w, [mem[w] EXCEPT !.found = targets])
  BY DEF Scrape
<1>2. UrlOf(w) \in Page /\ mem[w] \in Locals
  BY CrawlTyped DEF Scrape, At
<1>3. targets \subseteq Href /\ IsFiniteSet(targets)
  BY <1>2, CrawlerAssumption, FS_EmptySet
<1> DEFINE m == [mem[w] EXCEPT !.found = targets]
<1>4. m \in Locals
  BY <1>2, <1>3 DEF Locals
<1>5. Moves(w, "select", m)
  BY <1>1, <1>4, AdvanceMoves DEF Scrape, At, Steps, Set
<1>6. QED
  BY <1>3, <1>5

LEMMA SelectMoves ==
    ASSUME TypeInv, NEW w \in Worker, SelectUrl(w)
    PROVE  Moves(w, "insert", [mem[w] EXCEPT !.urlRow = UrlOf(w) \in urls])
<1> DEFINE b == UrlOf(w) \in urls
           m == [mem[w] EXCEPT !.urlRow = b]
<1>1. b \in BOOLEAN /\ mem[w] \in Locals
  BY DEF TypeInv, LocalsTyped
<1> HIDE DEF b
<1>2. m \in Locals
  BY <1>1 DEF Locals
<1>3. Set(w, m)
  BY DEF SelectUrl, b
<1>4. Moves(w, "insert", m)
  BY <1>2, <1>3, AdvanceMoves DEF SelectUrl, At, Steps, Set
<1>5. QED
  BY <1>4 DEF b

LEMMA InsertMoves ==
    ASSUME TypeInv, NEW w \in Worker, InsertTbs(w)
    PROVE  Moves(w, "unlock", mem[w])
  BY AdvanceKeepsMem DEF InsertTbs, At, Steps

LEMMA UnlockMoves ==
    ASSUME TypeInv, NEW w \in Worker, Unlock(w)
    PROVE  Moves(w, "none", Blank) \/ (DepthOf(w) > 1 /\ Moves(w, "visited", mem[w]))
  BY FinishMoves, AdvanceKeepsMem DEF Unlock, At, Steps

LEMMA VisitedMoves ==
    ASSUME TypeInv, NEW w \in Worker, CheckIfVisited(w)
    PROVE  \/ Moves(w, "none", Blank)
           \/ Found(w, SubJobs(Unvisited(mem[w].found), DepthOf(w) - 1))
<1> DEFINE sent == SubJobs(Unvisited(mem[w].found), DepthOf(w) - 1)
<1>1. /\ pc[w] = "crawl" /\ DepthOf(w) \in Nat /\ DepthOf(w) > 1
      /\ mem[w].found \subseteq Href /\ IsFiniteSet(mem[w].found)
  BY CrawlTyped DEF CheckIfVisited, At, TypeInv, LocalsTyped, Bounded, Locals
<1>2. DepthOf(w) - 1 \in Nat
  BY <1>1
<1>3. sent \in SUBSET Work /\ IsFiniteSet(sent)
  BY <1>1, <1>2, SubJobsTyped, SubJobsFinite, UnvisitedFinite
<1>4. SendOrFinish(w, sent) \/ Finish(w)
  BY DEF CheckIfVisited
<1> HIDE DEF sent
<1>5. Moves(w, "none", Blank) \/ Found(w, sent)
  BY <1>1, <1>3, <1>4, FinishMoves, SendMoves
<1>6. QED
  BY <1>5 DEF sent

LEMMA LastMoves ==
    ASSUME TypeInv, NEW w \in Worker, IncJobCount(w) \/ Raise(w)
    PROVE  Moves(w, "none", Blank)
<1>1. CASE IncJobCount(w)
  BY <1>1, LeaveMoves DEF IncJobCount, Count!IncJobCount, Count!Goto, Count!PCs
<1>2. CASE Raise(w)
  BY <1>2, FinishMoves DEF Raise
<1>3. QED
  BY <1>1, <1>2

\* Nobody's locals change, and who is in add() stays there.
Outside ==
    /\ UNCHANGED local
    /\ \A v \in Worker : pc'[v] = "crawl" <=> pc[v] = "crawl"
    /\ \A v \in Worker : pc[v] = "crawl" => cur'[v] = cur[v]

LEMMA AfterIsOutside ==
    ASSUME TypeInv, NEW w \in Worker, BadJob(w) \/ AfterCrawl(w)
    PROVE  Outside
<1>1. pc \in [Worker -> Count!PCs] /\ cur \in [Worker -> Task \cup {NoTask}]
  BY DEF TypeInv, Basis, Count!TypeOK
<1>2. CASE BadJob(w)
  BY <1>1, <1>2 DEF Outside, BadJob, Count!BadJob, Count!Goto
<1>3. CASE Count!SendToBroker(w) \/ Count!PublishCompleted(w) \/ Count!DeleteCount(w)
  BY <1>1, <1>3 DEF Outside, BadJob, AfterCrawl, Count!SendToBroker, Count!PublishCompleted,
     Count!DeleteCount, Count!Goto
<1>4. CASE Count!DecJobCount(w)
  BY <1>1, <1>4 DEF Outside, BadJob, AfterCrawl, Count!DecJobCount, Count!Goto
<1>5. CASE Count!Ack(w)
  BY <1>1, <1>5 DEF Outside, BadJob, AfterCrawl, Count!Ack, Count!Goto
<1>6. QED
  BY <1>2, <1>3, <1>4, <1>5 DEF AfterCrawl

\* The steps of the server, the broker and the clock, and the hand-out of a task.
LEMMA RestIsOutside ==
    ASSUME TypeInv,
           \/ \E t \in Task : Submit(t) \/ PushToBroker(t)
           \/ \E w \in Worker, t \in Task : Pull(w, t)
           \/ \E p \in Page : DelayPasses(p)
           \/ UNCHANGED vars
    PROVE  Outside
<1>1. pc \in [Worker -> Count!PCs] /\ cur \in [Worker -> Task \cup {NoTask}]
  BY DEF TypeInv, Basis, Count!TypeOK
<1>2. CASE \E t \in Task : Submit(t) \/ PushToBroker(t)
  BY <1>2 DEF Outside, Submit, PushToBroker, Count!Submit, Count!PushToBroker
<1>3. CASE \E w \in Worker, t \in Task : Pull(w, t)
  BY <1>1, <1>3 DEF Outside, Pull, Count!Pull, Count!Goto
<1>4. CASE (\E p \in Page : DelayPasses(p)) \/ UNCHANGED vars
  BY <1>4 DEF Outside, DelayPasses, counting, vars, local
<1>5. QED
  BY <1>2, <1>3, <1>4

LEMMA CrashMoves ==
    ASSUME TypeInv, NEW w \in Worker, Crash(w)
    PROVE  /\ Others(w)
           /\ step' \in [Worker -> Steps] /\ mem' \in [Worker -> Locals]
           /\ step'[w] = "none" /\ mem'[w] = Blank /\ pc'[w] = "idle"
<1>1. Blank \in Locals /\ "none" \in Steps
  BY DEF Blank, Locals, Steps
<1>2. QED
  BY <1>1 DEF Crash, Rest, Goto, Set, Count!Crash, Count!Goto, Others,
     TypeInv, LocalsTyped, Basis, Count!TypeOK

-----------------------------------------------------------------------------
(* The locals keep their types *)

\* A task that was created stays created, and keeps its work.
LEMMA TaskStays ==
    ASSUME TypeInv, [Next]_vars, NEW t \in Task, place[t] # "unused"
    PROVE  place'[t] # "unused" /\ work'[t] = work[t]
<1>1. place'[t] # "unused"
  <2>1. [Count!Next]_(Count!vars)
    BY NextOfCount
  <2>2. place \in [Task -> Count!Places]
    BY DEF TypeInv, Basis, Count!TypeOK
  <2>3. QED
    BY <2>1, <2>2 DEF Count!Next, Count!Step, Count!vars, Count!Submit, Count!PushToBroker,
       Count!Pull, Count!BadJob, Count!InitJobCount, Count!NoSubJobs, Count!IncJobCount,
       Count!SendToBroker, Count!DecJobCount, Count!PublishCompleted, Count!DeleteCount,
       Count!Ack, Count!Crash, Count!Move
<1>2. work'[t] = work[t]
  <2>1. ASSUME NEW w \in Worker, IncJobCount(w) PROVE work'[t] = work[t]
    BY <2>1 DEF IncJobCount, Fresh, Unused
  <2>2. ASSUME NEW w \in Worker, Step(w), ~IncJobCount(w) PROVE work' = work
    BY <2>2 DEF Step, BadJob, InitJobCount, CheckRobot, CrawlReady, CheckIfPresent, CheckJob,
       CheckNewUrl, CheckSeenUrl, LinksOfLog, DepthHandler, Scrape, SelectUrl, InsertTbs,
       Unlock, CheckIfVisited, Raise, AfterCrawl
  <2>3. QED
    BY <2>1, <2>2 DEF Next, vars, Submit, PushToBroker, Pull, Crash, DelayPasses
<1>3. QED
  BY <1>1, <1>2

LEMMA OthersBounded ==
    ASSUME TypeInv, [Next]_vars, NEW w, NEW v \in Worker \ {w}, Others(w)
    PROVE  Bounded(v)'
<1>1. step[v] = "visited" => work'[cur[v]] = work[cur[v]]
  BY CrawlTyped, TaskStays
<1>2. QED
  BY <1>1 DEF TypeInv, LocalsTyped, Others, Bounded, DepthOf

LEMMA MovesTyped ==
    ASSUME TypeInv, [Next]_vars, NEW w \in Worker, NEW s, NEW m, Moves(w, s, m),
           IsFiniteSet(m.found), IsFiniteSet(m.out),
           s = "visited" => step[w] # "none" /\ DepthOf(w) > 1
    PROVE  LocalsTyped'
<1>1. \A v \in Worker : step'[v] # "none" <=> pc'[v] = "crawl"
  BY DEF TypeInv, LocalsTyped, Moves, Others
<1>2. s = "visited" => DepthOf(w)' > 1
  BY CrawlTyped, TaskStays DEF Moves, DepthOf
<1>3. Bounded(w)'
  BY <1>2 DEF Bounded, Moves
<1>4. \A v \in Worker : Bounded(v)'
  BY <1>3, OthersBounded DEF Moves
<1>5. QED
  BY <1>1, <1>4 DEF LocalsTyped, Moves

LEMMA FinishTyped ==
    ASSUME TypeInv, [Next]_vars, NEW w \in Worker, Moves(w, "none", Blank)
    PROVE  LocalsTyped'
  BY MovesTyped, FS_EmptySet DEF Blank

LEMMA OutsideTyped ==
    ASSUME TypeInv, [Next]_vars, Outside
    PROVE  LocalsTyped'
<1>1. ASSUME NEW v \in Worker PROVE Bounded(v)'
  <2>1. step[v] = "visited" => work'[cur[v]] = work[cur[v]] /\ cur'[v] = cur[v]
    BY CrawlTyped, TaskStays DEF Outside
  <2>2. QED
    BY <2>1 DEF Outside, TypeInv, LocalsTyped, Bounded, DepthOf, local
<1>2. QED
  BY <1>1 DEF Outside, TypeInv, LocalsTyped, local

LEMMA FoundTyped ==
    ASSUME TypeInv, [Next]_vars, NEW w \in Worker, NEW out, Found(w, out)
    PROVE  LocalsTyped'
<1> DEFINE m == [Blank EXCEPT !.out = out]
<1>1. m.out = out /\ m.found = {}
  BY DEF Blank
<1> HIDE DEF m
<1>2. Moves(w, "count", m) /\ IsFiniteSet(out)
  BY DEF m, Found
<1>3. QED
  BY <1>1, <1>2, MovesTyped, FS_EmptySet

\* Changing one flag, or the depth for sub-jobs, changes neither set.
LEMMA FlagTyped ==
    ASSUME TypeInv, [Next]_vars, NEW w \in Worker, NEW s \in Steps \ {"visited"}, NEW x,
           \/ Moves(w, s, mem[w])
           \/ Moves(w, s, [mem[w] EXCEPT !.inRedis = x])
           \/ Moves(w, s, [mem[w] EXCEPT !.jobInDb = x])
           \/ Moves(w, s, [mem[w] EXCEPT !.urlRow = x])
           \/ Moves(w, s, [mem[w] EXCEPT !.sub = x])
    PROVE  LocalsTyped'
<1>1. mem[w] \in Locals /\ IsFiniteSet(mem[w].found) /\ IsFiniteSet(mem[w].out)
  BY DEF TypeInv, LocalsTyped, Bounded
<1>2. \A m \in {mem[w], [mem[w] EXCEPT !.inRedis = x], [mem[w] EXCEPT !.jobInDb = x],
                [mem[w] EXCEPT !.urlRow = x], [mem[w] EXCEPT !.sub = x]} :
         m.found = mem[w].found /\ m.out = mem[w].out
  BY <1>1 DEF Locals
<1>3. QED
  BY <1>1, <1>2, MovesTyped

LEMMA LocalsStep == TypeInv /\ [Next]_vars => LocalsTyped'
<1> SUFFICES ASSUME TypeInv, [Next]_vars PROVE LocalsTyped'
  OBVIOUS
<1>0. {"robots", "ready", "present", "job", "url", "depth", "scrape", "frontier", "insert",
       "unlock"} \subseteq Steps \ {"visited"}
  BY DEF Steps
<1>1. ASSUME NEW w \in Worker, InitJobCount(w) PROVE LocalsTyped'
  BY <1>0, <1>1, InitMoves, FlagTyped
<1>2. ASSUME NEW w \in Worker, CheckRobot(w) \/ CrawlReady(w) PROVE LocalsTyped'
  BY <1>0, <1>2, ReadyMoves, FlagTyped, FinishTyped
<1>3. ASSUME NEW w \in Worker, CheckIfPresent(w) PROVE LocalsTyped'
  BY <1>0, <1>3, PresentMoves, FlagTyped
<1>4. ASSUME NEW w \in Worker, CheckJob(w) PROVE LocalsTyped'
  BY <1>0, <1>4, JobMoves, FlagTyped, FinishTyped
<1>5. ASSUME NEW w \in Worker, CheckNewUrl(w) PROVE LocalsTyped'
  BY <1>0, <1>5, NewUrlMoves, FlagTyped, FinishTyped
<1>6. ASSUME NEW w \in Worker, CheckSeenUrl(w) PROVE LocalsTyped'
  BY <1>0, <1>6, SeenUrlMoves, FlagTyped, FinishTyped
<1>7. ASSUME NEW w \in Worker, LinksOfLog(w) PROVE LocalsTyped'
  BY <1>0, <1>7, LinksMoves, FlagTyped, FinishTyped, FoundTyped
<1>8. ASSUME NEW w \in Worker, DepthHandler(w) PROVE LocalsTyped'
  BY <1>8, DepthMoves, FinishTyped, FoundTyped
<1>9. ASSUME NEW w \in Worker, Scrape(w) PROVE LocalsTyped'
  <2>1. PICK targets : /\ IsFiniteSet(targets)
                       /\ Moves(w, "select", [mem[w] EXCEPT !.found = targets])
    BY <1>9, ScrapeMoves
  <2> DEFINE m == [mem[w] EXCEPT !.found = targets]
  <2>2. mem[w] \in Locals /\ IsFiniteSet(mem[w].out)
    BY DEF TypeInv, LocalsTyped, Bounded
  <2>3. m.found = targets /\ m.out = mem[w].out
    BY <2>2 DEF Locals
  <2> HIDE DEF m
  <2>4. Moves(w, "select", m)
    BY <2>1 DEF m
  <2>5. QED
    BY <2>1, <2>2, <2>3, <2>4, MovesTyped
<1>10. ASSUME NEW w \in Worker, SelectUrl(w) \/ InsertTbs(w) PROVE LocalsTyped'
  BY <1>0, <1>10, SelectMoves, InsertMoves, FlagTyped
<1>11. ASSUME NEW w \in Worker, Unlock(w) PROVE LocalsTyped'
  <2>1. step[w] # "none" /\ IsFiniteSet(mem[w].found) /\ IsFiniteSet(mem[w].out)
    BY <1>11 DEF Unlock, At, TypeInv, LocalsTyped, Bounded
  <2>2. CASE DepthOf(w) > 1 /\ Moves(w, "visited", mem[w])
    BY <2>1, <2>2, MovesTyped
  <2>3. QED
    BY <1>11, <2>2, UnlockMoves, FinishTyped
<1>12. ASSUME NEW w \in Worker, CheckIfVisited(w) PROVE LocalsTyped'
  BY <1>12, VisitedMoves, FinishTyped, FoundTyped
<1>13. ASSUME NEW w \in Worker, IncJobCount(w) \/ Raise(w) PROVE LocalsTyped'
  BY <1>13, LastMoves, FinishTyped
<1>14. ASSUME NEW w \in Worker, BadJob(w) \/ AfterCrawl(w) PROVE LocalsTyped'
  BY <1>14, AfterIsOutside, OutsideTyped
<1>15. ASSUME NEW w \in Worker, Crash(w) PROVE LocalsTyped'
  <2>0. step'[w] = "none" /\ mem'[w].found = {} /\ mem'[w].out = {}
    BY <1>15, CrashMoves DEF Blank
  <2>1. Bounded(w)'
    BY <2>0, FS_EmptySet DEF Bounded
  <2>2. \A v \in Worker : Bounded(v)'
    BY <1>15, <2>1, CrashMoves, OthersBounded
  <2>3. \A v \in Worker : step'[v] # "none" <=> pc'[v] = "crawl"
    BY <1>15, CrashMoves DEF TypeInv, LocalsTyped, Others
  <2>4. QED
    BY <1>15, <2>2, <2>3, CrashMoves DEF LocalsTyped
<1>16. QED
  <2>1. ASSUME Outside PROVE LocalsTyped'
    BY <2>1, OutsideTyped
  <2>2. ASSUME NEW w \in Worker, Step(w) PROVE LocalsTyped'
    BY <1>1, <1>2, <1>3, <1>4, <1>5, <1>6, <1>7, <1>8, <1>9, <1>10, <1>11, <1>12, <1>13,
       <1>14, <2>2 DEF Step
  <2>3. QED
    BY <1>15, <2>1, <2>2, RestIsOutside DEF Next

-----------------------------------------------------------------------------
(* The tables *)

\* inc_job_count gives fresh tasks of the crawler's job the sub-jobs it found.
LEMMA SubJobsAssigned ==
    ASSUME TypeInv, NEW w \in Worker, IncJobCount(w)
    PROVE  \E S \in SUBSET Task : \E carried \in [S -> mem[w].out] :
              /\ \A t \in S : Owner[t] = JobOf(w) /\ place[t] = "unused"
              /\ work' = [t \in Task |-> IF t \in S THEN carried[t] ELSE work[t]]
              /\ place' = [t \in Task |-> IF t \in S THEN "promised" ELSE place[t]]
<1> DEFINE out == mem[w].out
           S == Fresh(JobOf(w), Cardinality(out))
           orders == Bijection(S, out)
<1>1. S \in SUBSET Task /\ \A t \in S : Owner[t] = JobOf(w) /\ place[t] = "unused"
  BY DEF Fresh, Unused, Count!TasksOf
<1>2. IsFiniteSet(S) /\ IsFiniteSet(out) /\ Cardinality(S) = Cardinality(out)
  BY <1>1, CrawlerAssumption, FS_Subset DEF TypeInv, LocalsTyped, Bounded, IncJobCount
<1>3. place' = [t \in Task |-> IF t \in S THEN "promised" ELSE place[t]]
  BY DEF IncJobCount, Count!IncJobCount, Count!Move
<1>4. PICK carried \in IF Ordered THEN orders ELSE {CHOOSE f \in orders : TRUE} :
        work' = [t \in Task |-> IF t \in S THEN carried[t] ELSE work[t]]
  BY DEF IncJobCount
<1> HIDE DEF out, S
<1>5. orders # {}
  BY <1>2, FS_SameCardinalityBij DEF ExistsBijection
<1>6. carried \in orders
  BY <1>4, <1>5
<1>7. carried \in [S -> out]
  BY <1>6 DEF Bijection, Injection
<1>8. QED
  BY <1>1, <1>3, <1>4, <1>7 DEF out

\* The rows of the pages of log that are copied have the types of the rows they
\* are made from.
LEMMA CopiedTyped ==
    ASSUME TypeInv, NEW w \in Worker, step[w] # "none", NEW row1, NEW dif
    PROVE  InsertedJob(w) \subseteq JobRow /\ Copied(w, row1, dif) \subseteq LogRow
<1>1. JobOf(w) \in Job /\ UrlOf(w) \in Page /\ DepthOf(w) \in Nat
  BY CrawlTyped
<1>2. jobs \subseteq JobRow /\ log \subseteq LogRow
  BY DEF TypeInv, TablesTyped
<1>3. InsertedJob(w) \subseteq JobRow
  BY <1>1 DEF InsertedJob, JobRow
<1>4. TargetRows(w, dif) \subseteq JobRow
  BY <1>2, <1>3 DEF TargetRows, JobRows
<1>5. ASSUME NEW r \in Copied(w, row1, dif) PROVE r \in LogRow
  <2>1. PICK p \in TargetRows(w, dif) \X {l \in log : l.job = row1.job} :
          r = [job |-> p[1].job, url |-> p[2].url, depth |-> p[2].depth]
    BY <1>5 DEF Copied
  <2>2. p[1] \in JobRow /\ p[2] \in LogRow
    BY <2>1, <1>2, <1>4
  <2>3. QED
    BY <2>1, <2>2 DEF JobRow, LogRow
<1>6. QED
  BY <1>3, <1>5

LEMMA TablesStep == TypeInv /\ [Next]_vars => TablesTyped'
<1> SUFFICES ASSUME TypeInv, [Next]_vars PROVE TablesTyped'
  OBVIOUS
<1> USE DEF TablesTyped, At, db
<1>0. TablesTyped
  BY DEF TypeInv
<1>1. ASSUME UNCHANGED <<work, db, locks, robot>> PROVE TablesTyped'
  BY <1>0, <1>1
<1>2. ASSUME NEW w \in Worker, CheckRobot(w) PROVE TablesTyped'
  <2>1. robot' \in [Page -> {"none", "ahead", "passed"}]
    BY <1>0, <1>2 DEF CheckRobot
  <2>2. QED
    BY <1>0, <1>2, <2>1 DEF CheckRobot
<1>3. ASSUME NEW w \in Worker, CheckSeenUrl(w) PROVE TablesTyped'
  <2>1. PICK row1, dif : /\ jobs' = jobs \cup InsertedJob(w)
                         /\ log' = log \cup Copied(w, row1, dif)
    BY <1>3 DEF CheckSeenUrl
  <2>2. InsertedJob(w) \subseteq JobRow /\ Copied(w, row1, dif) \subseteq LogRow
    BY <1>3, CopiedTyped DEF CheckSeenUrl
  <2>3. QED
    BY <1>0, <1>3, <2>1, <2>2 DEF CheckSeenUrl
<1>4. ASSUME NEW w \in Worker, DepthHandler(w) PROVE TablesTyped'
  <2>1. InsertedJob(w) \subseteq JobRow
    BY <1>4, CopiedTyped DEF DepthHandler
  <2>2. QED
    BY <1>0, <1>4, <2>1 DEF DepthHandler
<1>5. ASSUME NEW w \in Worker, Scrape(w) \/ Unlock(w) PROVE TablesTyped'
  <2>1. UrlOf(w) \in Page
    BY <1>5, CrawlTyped DEF Scrape, Unlock
  <2>2. locks' \subseteq Page
    BY <1>0, <1>5, <2>1 DEF Scrape, Unlock
  <2>3. QED
    BY <1>0, <1>5, <2>2 DEF Scrape, Unlock
<1>6. ASSUME NEW w \in Worker, InsertTbs(w) PROVE TablesTyped'
  <2> DEFINE row == [job |-> JobOf(w), url |-> UrlOf(w), depth |-> DepthOf(w)]
             new == IF mem[w].jobInDb THEN {} ELSE {row}
             logged == {[row EXCEPT !.depth = r.depth - DepthOf(w)] :
                          r \in JobRows(JobOf(w)) \cup new}
             linked == {[src |-> UrlOf(w), target |-> h] : h \in mem[w].found}
  <2>1. /\ JobOf(w) \in Job /\ UrlOf(w) \in Page /\ DepthOf(w) \in Nat
        /\ mem[w].found \subseteq Href /\ IsFiniteSet(mem[w].found)
    BY <1>6, CrawlTyped DEF InsertTbs, TypeInv, LocalsTyped, Locals, Bounded
  <2>2. new \subseteq JobRow /\ JobRows(JobOf(w)) \subseteq JobRow
    BY <1>0, <2>1 DEF JobRow, JobRows
  <2>3. logged \subseteq LogRow
    <3>1. \A r \in JobRows(JobOf(w)) \cup new : r.depth - DepthOf(w) \in Int
      BY <2>1, <2>2 DEF JobRow
    <3>2. QED
      BY <2>1, <3>1 DEF LogRow
  <2>4. linked \subseteq LinkRow /\ IsFiniteSet(linked)
    <3> DEFINE f == [h \in mem[w].found |-> [src |-> UrlOf(w), target |-> h]]
    <3>1. linked = {f[h] : h \in mem[w].found}
      OBVIOUS
    <3> HIDE DEF f
    <3>2. IsFiniteSet({f[h] : h \in mem[w].found})
      BY <2>1, RangeFinite
    <3>3. linked \subseteq LinkRow
      BY <2>1 DEF LinkRow
    <3>4. QED
      BY <3>1, <3>2, <3>3
  <2>5. IsFiniteSet(links \cup linked)
    BY <1>0, <2>4, FS_Union
  <2>6. \/ UNCHANGED db
        \/ /\ urls' = urls \cup {UrlOf(w)} /\ jobs' = jobs \cup new
           /\ log' = log \cup logged /\ links' = links \cup linked
    BY <1>6 DEF InsertTbs
  <2>7. UNCHANGED <<work, locks, robot>>
    BY <1>6 DEF InsertTbs
  <2> HIDE DEF new, logged, linked
  <2>8. QED
    BY <1>0, <2>1, <2>2, <2>3, <2>4, <2>5, <2>6, <2>7
<1>7. ASSUME NEW w \in Worker, IncJobCount(w) PROVE TablesTyped'
  <2>1. PICK S \in SUBSET Task : \E carried \in [S -> mem[w].out] :
          work' = [t \in Task |-> IF t \in S THEN carried[t] ELSE work[t]]
    BY <1>7, SubJobsAssigned
  <2>2. mem[w].out \subseteq Work
    BY DEF TypeInv, LocalsTyped, Locals
  <2>3. work' \in [Task -> Work]
    BY <1>0, <2>1, <2>2
  <2>4. QED
    BY <1>0, <1>7, <2>3 DEF IncJobCount
<1>8. ASSUME NEW p \in Page, DelayPasses(p) PROVE TablesTyped'
  <2>1. robot' \in [Page -> {"none", "ahead", "passed"}]
    BY <1>0, <1>8 DEF DelayPasses
  <2>2. QED
    BY <1>0, <1>8, <2>1 DEF DelayPasses
<1>9. QED
  <2>1. ASSUME NEW w \in Worker, Step(w) PROVE TablesTyped'
    BY <1>1, <1>2, <1>3, <1>4, <1>5, <1>6, <1>7, <2>1 DEF Step, BadJob, InitJobCount,
       CrawlReady, CheckIfPresent, CheckJob, CheckNewUrl, LinksOfLog, SelectUrl,
       CheckIfVisited, Raise, AfterCrawl
  <2>2. QED
    BY <1>1, <1>8, <2>1 DEF Next, vars, Submit, PushToBroker, Pull, Crash

LEMMA TypeInvHolds ==
    ASSUME Faults \subseteq Count!FaultKinds
    PROVE  Spec => []TypeInv
<1>1. Init => LocalsTyped /\ TablesTyped
  BY TypeInit
<1>2. Basis /\ LocalsTyped /\ TablesTyped /\ [Next]_vars => (LocalsTyped /\ TablesTyped)'
  BY LocalsStep, TablesStep DEF TypeInv
<1>3. Spec => []Basis
  BY BasisHolds
<1>4. Basis /\ LocalsTyped /\ TablesTyped => TypeInv
  BY DEF TypeInv
<1>5. QED
  BY <1>1, <1>2, <1>3, <1>4, PTL DEF Spec

\* Every variable of the crawl keeps its type, whatever fails: in particular no
\* depth that is sent is negative, though row depths are subtracted from each other.
THEOREM CrawlTypeCorrect ==
    ASSUME Faults \subseteq Count!FaultKinds
    PROVE  Spec => []TypeOK
  BY TypeInvHolds, TypeInvMeans, PTL

-----------------------------------------------------------------------------
(* The URL locks *)

\* Crawler w holds the lock of page p.
Holds(w, p) == (\E s \in {"select", "insert", "unlock"} : At(w, s)) /\ UrlOf(w) = p

\* A crawler that does not move keeps what it holds.
LEMMA HoldStays ==
    ASSUME TypeInv, [Next]_vars, NEW w \in Worker, NEW p, Holds(w, p),
           step'[w] \in {"select", "insert", "unlock"}, pc'[w] = "crawl", cur'[w] = cur[w]
    PROVE  Holds(w, p)'
<1>1. work'[cur[w]] = work[cur[w]]
  BY CrawlTyped, TaskStays DEF Holds, At
<1>2. QED
  BY <1>1 DEF Holds, At, UrlOf

LEMMA LockStep ==
    ASSUME "raises" \notin CrawlFaults, "crash" \notin Faults,
           TypeInv, [Next]_vars, LockMeansScraping
    PROVE  LockMeansScraping'
<1>0. \A p \in locks : \E w \in Worker : Holds(w, p)
  BY DEF LockMeansScraping, Holds
<1>1. SUFFICES \A p \in locks' : \E w \in Worker : Holds(w, p)'
  BY DEF LockMeansScraping, Holds, At, UrlOf
<1>2. \A w \in Worker : pc[w] = "crawl" <=> step[w] # "none"
  BY DEF TypeInv, LocalsTyped
<1>3. ASSUME NEW v \in Worker, NEW p, Holds(v, p), NEW w \in Worker \ {v}, Others(w)
      PROVE  Holds(v, p)'
  BY <1>3, HoldStays DEF Others, Holds, At
\* Crawler w moves, and gives up no lock.
<1>4. ASSUME NEW w \in Worker, Others(w), locks' = locks,
             \A p : Holds(w, p) => Holds(w, p)'
      PROVE  \A p \in locks' : \E v \in Worker : Holds(v, p)'
  BY <1>0, <1>3, <1>4
<1>5. ASSUME locks' = locks, UNCHANGED local,
             \A v \in Worker : pc[v] = "crawl" => pc'[v] = "crawl" /\ cur'[v] = cur[v]
      PROVE  \A p \in locks' : \E v \in Worker : Holds(v, p)'
  BY <1>0, <1>5, HoldStays DEF local, Holds, At
<1>6. ASSUME NEW w \in Worker, NEW s, NEW m, Moves(w, s, m), locks' = locks,
             \A p : Holds(w, p) => s \in {"insert", "unlock"}
      PROVE  \A p \in locks' : \E v \in Worker : Holds(v, p)'
  <2>1. \A p : Holds(w, p) => Holds(w, p)'
    BY <1>6, HoldStays DEF Moves
  <2>2. QED
    BY <1>4, <1>6, <2>1 DEF Moves
<1>7. ASSUME NEW w \in Worker, Step(w)
      PROVE  \A p \in locks' : \E v \in Worker : Holds(v, p)'
  <2> USE DEF Holds, At
  <2>1. CASE InitJobCount(w)
    BY <1>6, <2>1, InitMoves DEF InitJobCount
  <2>2. CASE CheckRobot(w) \/ CrawlReady(w)
    BY <1>6, <2>2, ReadyMoves DEF CheckRobot, CrawlReady
  <2>3. CASE CheckIfPresent(w)
    BY <1>6, <2>3, PresentMoves DEF CheckIfPresent
  <2>4. CASE CheckJob(w)
    BY <1>6, <2>4, JobMoves DEF CheckJob
  <2>5. CASE CheckNewUrl(w)
    BY <1>6, <2>5, NewUrlMoves DEF CheckNewUrl
  <2>6. CASE CheckSeenUrl(w)
    BY <1>6, <2>6, SeenUrlMoves DEF CheckSeenUrl
  <2>7. CASE LinksOfLog(w)
    BY <1>6, <2>7, LinksMoves DEF LinksOfLog, Found
  <2>8. CASE DepthHandler(w)
    BY <1>6, <2>8, DepthMoves DEF DepthHandler, Found
  \* The page that is locked is the crawler's own.
  <2>9. CASE Scrape(w)
    <3>1. PICK m : Moves(w, "select", m)
      BY <2>9, ScrapeMoves
    <3>2. work'[cur[w]] = work[cur[w]] /\ pc[w] = "crawl"
      BY <2>9, CrawlTyped, TaskStays DEF Scrape
    <3>3. Holds(w, UrlOf(w))'
      BY <3>1, <3>2 DEF Moves, UrlOf
    <3>4. UrlOf(w)' = UrlOf(w)
      BY <3>1, <3>2 DEF Moves, UrlOf
    <3>5. locks' = locks \cup {UrlOf(w)}
      BY <2>9 DEF Scrape
    <3>6. \A p : ~Holds(w, p)
      BY <2>9 DEF Scrape
    <3>7. QED
      BY <1>0, <1>3, <3>1, <3>3, <3>4, <3>5, <3>6 DEF Moves
  <2>10. CASE SelectUrl(w)
    BY <1>6, <2>10, SelectMoves DEF SelectUrl
  <2>11. CASE InsertTbs(w)
    BY <1>6, <2>11, InsertMoves DEF InsertTbs
  \* It gives up its own page and no other.
  <2>12. CASE Unlock(w)
    <3>1. Others(w) /\ locks' = locks \ {UrlOf(w)}
      BY <2>12, UnlockMoves DEF Unlock, Moves
    <3>2. QED
      BY <1>0, <1>3, <3>1
  <2>13. CASE CheckIfVisited(w)
    BY <1>6, <2>13, VisitedMoves DEF CheckIfVisited, Found
  <2>14. CASE IncJobCount(w)
    BY <1>6, <2>14, LastMoves DEF IncJobCount
  <2>15. CASE BadJob(w) \/ AfterCrawl(w)
    BY <1>5, <2>15, AfterIsOutside DEF BadJob, AfterCrawl, Outside
  <2>16. ~Raise(w)
    BY DEF Raise
  <2>17. QED
    BY <1>7, <2>1, <2>2, <2>3, <2>4, <2>5, <2>6, <2>7, <2>8, <2>9, <2>10, <2>11, <2>12,
       <2>13, <2>14, <2>15, <2>16 DEF Step
\* Without "crash" a process dies only after add(), when it holds no lock.
<1>8. ASSUME NEW w \in Worker, Crash(w)
      PROVE  \A p \in locks' : \E v \in Worker : Holds(v, p)'
  <2>1. pc[w] # "crawl" /\ locks' = locks
    BY <1>8 DEF Crash, Count!Crash
  <2>2. QED
    BY <1>4, <1>8, <2>1, CrashMoves DEF Holds, At
<1>9. CASE (\E t \in Task : Submit(t) \/ PushToBroker(t)) \/ (\E w \in Worker, t \in Task : Pull(w, t))
            \/ (\E p \in Page : DelayPasses(p)) \/ UNCHANGED vars
  <2>1. locks' = locks
    BY <1>9 DEF Submit, PushToBroker, Pull, DelayPasses, vars
  <2>2. QED
    BY <1>5, <1>9, <2>1, RestIsOutside DEF Outside
<1>10. QED
  BY <1>1, <1>7, <1>8, <1>9 DEF Next

\* As long as nothing raises inside the try of add() and no crawler dies in it, a
\* URL is locked only while a crawler is between its add_entry and its remove:
\* every early return, swallowed database error and skipped page gives the lock
\* back, so no page stays shut off from later jobs. Two crawlers may hold the same
\* lock, and the first to leave removes it for both: the invariant is one way only.
THEOREM LocksAreGivenBack ==
    ASSUME Faults \subseteq Count!FaultKinds,
           "raises" \notin CrawlFaults, "crash" \notin Faults
    PROVE  Spec => []LockMeansScraping
<1>1. Init => LockMeansScraping
  BY DEF Init, LockMeansScraping
<1>2. QED
  BY <1>1, TypeInvHolds, LockStep, PTL DEF Spec


-----------------------------------------------------------------------------
(* Walks in the web *)

LEMMA HopDomain ==
    ASSUME NEW p \in Page, NEW j \in Job, NEW k \in 0..Depth[j]
    PROVE  Hops(p, k) = {f[k] : f \in Walks(p, k)}
<1>1. k \in UNION {0..Depth[i] : i \in Job}
  BY Zenon
<1>2. QED
  BY <1>1 DEF Hops, HopTable

LEMMA HopType ==
    ASSUME NEW p \in Page, NEW j \in Job, NEW k \in 0..Depth[j]
    PROVE  Hops(p, k) \subseteq Page
<1>1. Depth[j] \in Nat
  BY CrawlerAssumption
<1>2. \A f \in Walks(p, k) : f[k] \in Page
  BY <1>1 DEF Walks
<1>3. QED
  BY <1>2, HopDomain

\* A page is no link away from itself.
LEMMA HopZero ==
    ASSUME NEW p \in Page, NEW j \in Job
    PROVE  p \in Hops(p, 0)
<1> DEFINE f == [i \in 0..0 |-> p]
<1>1. 0 \in 0..Depth[j]
  BY CrawlerAssumption
<1>2. f \in Walks(p, 0) /\ f[0] = p
  BY DEF Walks
<1>3. QED
  BY <1>1, <1>2, HopDomain

\* A link leads one further.
LEMMA HopStep ==
    ASSUME NEW p \in Page, NEW j \in Job, NEW k \in Nat, k + 1 <= Depth[j],
           NEW q \in Hops(p, k), NEW h \in Web[q]
    PROVE  Norm[h] \in Hops(p, k + 1)
<1>1. Depth[j] \in Nat /\ k \in 0..Depth[j] /\ k + 1 \in 0..Depth[j]
  BY CrawlerAssumption
<1>2. PICK f \in Walks(p, k) : q = f[k]
  BY <1>1, HopDomain
<1>3. q \in Page
  BY <1>1, HopType
<1>4. Norm[h] \in Page /\ Norm[h] \in Targets(q)
  BY <1>3, CrawlerAssumption DEF Targets
<1> DEFINE g == [i \in 0..(k + 1) |-> IF i <= k THEN f[i] ELSE Norm[h]]
<1>5. g \in [0..(k + 1) -> Page]
  BY <1>2, <1>4 DEF Walks
<1>6. g[0] = p
  BY <1>2 DEF Walks
<1>7. ASSUME NEW i \in 1..(k + 1) PROVE g[i] \in Targets(g[i - 1])
  <2>1. CASE i <= k
    BY <2>1, <1>2 DEF Walks
  <2>2. CASE i = k + 1
    BY <2>2, <1>2, <1>4
  <2>3. QED
    BY <2>1, <2>2
<1>8. g \in Walks(p, k + 1)
  BY <1>5, <1>6, <1>7 DEF Walks
<1>9. g[k + 1] = Norm[h]
  OBVIOUS
<1>10. QED
  BY <1>1, <1>8, <1>9, HopDomain

-----------------------------------------------------------------------------
(* Depths: the inductive invariant *)

\* The pages a job may come to: those fewer than Depth[j] links away from its root.
Site(j) == UNION {Hops(RootOf(j), k) : k \in 0..(Depth[j] - 1)}

Overlaps(i, j) == Site(i) \cap Site(j) # {}
SameRequest(i, j) == RootOf(i) = RootOf(j) /\ Depth[i] = Depth[j]

\* No page belongs to the sites of two jobs.
Separate == \A i, j \in Job : i # j => ~Overlaps(i, j)

\* Two jobs with a page in common are the same request, made twice.
Compatible == \A i, j \in Job : Overlaps(i, j) => SameRequest(i, j)

\* There are none, or the second is made after the first was announced, and the
\* announcement can be trusted.
InTurn == Separate \/ (~Overlap /\ Faults \cap Count!UnsafeFaults = {})

\* Two jobs with a page in common do not run at the same time.
OneAtATime == \A i, j \in Job : i # j /\ Overlaps(i, j) => Count!Live(i) = {} \/ Count!Live(j) = {}

\* The depth an href carries and its distance from the root add up to the job's depth.
AtHop(j, o) ==
    /\ o.depth \in 1..Depth[j]
    /\ Norm[o.href] \in Hops(RootOf(j), Depth[j] - o.depth)

Request(j) == [href |-> Root[j], depth |-> Depth[j]]
Used(t) == place[t] # "unused"

\* Tasks are honest; one that is not its job's first one has a job row before it.
WorkInv ==
    \A t \in Task :
        /\ ~Used(t) => work[t] = Request(Owner[t])
        /\ Used(t) => AtHop(Owner[t], work[t])
        /\ Used(t) => work[t] = Request(Owner[t]) \/ JobRows(Owner[t]) # {}

LinkInv == \A l \in links : l.target \in Web[l.src]

\* What a crawler knows of its page, its job and its sub-jobs.
Local(w) ==
    /\ step[w] # "frontier"
    /\ mem[w].jobInDb => step[w] # "none" /\ JobRows(JobOf(w)) # {}
    /\ step[w] \in {"unlock", "visited", "count"} => JobRows(JobOf(w)) # {}
    /\ step[w] \in {"select", "insert", "unlock", "visited"} =>
          mem[w].found \subseteq Web[UrlOf(w)]
    /\ step[w] = "count" => \A o \in mem[w].out : AtHop(JobOf(w), o)
    /\ step[w] \in {"scrape", "select", "insert"} /\ JobRows(JobOf(w)) = {} => UrlOf(w) \notin urls

LocalInv == \A w \in Worker : Local(w)

DepthInv == WorkInv /\ LinkInv /\ JobRowIsRequest /\ LoggedAtHop /\ LocalInv

LEMMA DepthInit == Init => DepthInv
<1> SUFFICES ASSUME Init PROVE DepthInv
  OBVIOUS
<1>1. WorkInv
  BY DEF Init, Count!Init, WorkInv, Used, Request
<1>2. LocalInv
  BY DEF Init, LocalInv, Local, Blank
<1>3. QED
  BY <1>1, <1>2 DEF Init, DepthInv, LinkInv, JobRowIsRequest, LoggedAtHop

-----------------------------------------------------------------------------
(* Pages and sites *)

LEMMA RootTyped ==
    ASSUME NEW j \in Job
    PROVE  RootOf(j) \in Page /\ Depth[j] \in Nat /\ Depth[j] >= 1
  BY CrawlerAssumption DEF RootOf

LEMMA RequestAtHop ==
    ASSUME NEW j \in Job
    PROVE  AtHop(j, Request(j))
<1>1. RootOf(j) \in Hops(RootOf(j), 0)
  BY RootTyped, HopZero
<1>2. Depth[j] - Depth[j] = 0 /\ Depth[j] \in 1..Depth[j]
  BY RootTyped
<1>3. QED
  BY <1>1, <1>2 DEF AtHop, Request, RootOf

LEMMA RootInSite ==
    ASSUME NEW j \in Job
    PROVE  RootOf(j) \in Site(j)
<1>1. 0 \in 0..(Depth[j] - 1) /\ RootOf(j) \in Hops(RootOf(j), 0)
  BY RootTyped, HopZero
<1>2. QED
  BY <1>1 DEF Site

LEMMA HopInSite ==
    ASSUME NEW j \in Job, NEW k \in 0..(Depth[j] - 1), NEW p \in Hops(RootOf(j), k)
    PROVE  p \in Site(j)
  BY DEF Site

LEMMA AtHopInSite ==
    ASSUME NEW j \in Job, NEW o, AtHop(j, o)
    PROVE  Norm[o.href] \in Site(j)
<1>1. Depth[j] - o.depth \in 0..(Depth[j] - 1)
  BY RootTyped DEF AtHop
<1>2. QED
  BY <1>1, HopInSite DEF AtHop

\* Jobs that a page belongs to are the same request.
LEMMA SameSite ==
    ASSUME Compatible, NEW i \in Job, NEW j \in Job, NEW p \in Site(i), p \in Site(j)
    PROVE  Overlaps(i, j) /\ SameRequest(i, j)
  BY DEF Compatible, Overlaps

\* And only one of them has a crawler at work.
LEMMA SameJob ==
    ASSUME TypeInv, OneAtATime,
           NEW v \in Worker, step[v] # "none", NEW w \in Worker, step[w] # "none",
           Overlaps(JobOf(v), JobOf(w))
    PROVE  JobOf(v) = JobOf(w)
<1>1. \A u \in {v, w} : /\ cur[u] \in Task /\ pc[u] = "crawl" /\ JobOf(u) \in Job
  BY CrawlTyped
<1>2. \A u \in {v, w} : cur[u] \in Count!Live(JobOf(u))
  BY <1>1 DEF Count!Live, Count!TasksOf, Count!IsLive, Count!Uncounted, JobOf
<1>3. QED
  BY <1>1, <1>2 DEF OneAtATime

\* The links of a page, one depth less.
LEMMA SubJobsAtHop ==
    ASSUME NEW j \in Job, NEW o, AtHop(j, o), o.depth > 1,
           NEW S \in SUBSET Web[Norm[o.href]],
           NEW s \in SubJobs(S, o.depth - 1)
    PROVE  AtHop(j, s)
<1> DEFINE k == Depth[j] - o.depth
<1>1. Depth[j] \in Nat /\ o.depth \in 1..Depth[j] /\ RootOf(j) \in Page
  BY RootTyped DEF AtHop
<1>2. k \in Nat /\ k + 1 <= Depth[j] /\ k + 1 = Depth[j] - (o.depth - 1)
      /\ o.depth - 1 \in 1..Depth[j]
  BY <1>1
<1>3. PICK h \in S : s = [href |-> h, depth |-> o.depth - 1]
  BY DEF SubJobs
<1>4. Norm[o.href] \in Hops(RootOf(j), k)
  BY DEF AtHop
<1>5. Norm[h] \in Hops(RootOf(j), k + 1)
  BY <1>1, <1>2, <1>3, <1>4, HopStep
<1>6. QED
  BY <1>2, <1>3, <1>5 DEF AtHop

-----------------------------------------------------------------------------
(* How tasks come about *)

\* A task is created by the user's request or as a sub-job, and in no other way.
LEMMA TaskIsMade ==
    ASSUME TypeInv, [Next]_vars, NEW t \in Task, ~Used(t)
    PROVE  \/ ~Used(t)' /\ work'[t] = work[t]
           \/ work'[t] = work[t] /\ Submit(t)
           \/ \E w \in Worker : IncJobCount(w)
<1>1. Count!TypeOK /\ Held /\ place[t] = "unused"
  BY DEF TypeInv, Basis, Used
<1>2. CASE \E u \in Task : Submit(u)
  BY <1>1, <1>2 DEF Submit, Count!Submit, Count!Move, Used
<1>3. CASE \E u \in Task : PushToBroker(u)
  BY <1>1, <1>3 DEF PushToBroker, Count!PushToBroker, Count!Move, Used
<1>4. CASE \E w \in Worker, u \in Task : Pull(w, u)
  BY <1>1, <1>4 DEF Pull, Count!Pull, Count!Move, Used
<1>5. ASSUME NEW w \in Worker, Count!NoSubJobs(w) \/ UNCHANGED counting, UNCHANGED work
      PROVE  ~Used(t)' /\ work'[t] = work[t]
  BY <1>1, <1>5 DEF Count!NoSubJobs, counting, Used
<1>6. ASSUME NEW w \in Worker, Step(w), ~IncJobCount(w)
      PROVE  ~Used(t)' /\ work'[t] = work[t]
  <2>1. UNCHANGED work
    BY <1>6 DEF Step, BadJob, InitJobCount, CheckRobot, CrawlReady, CheckIfPresent, CheckJob,
       CheckNewUrl, CheckSeenUrl, LinksOfLog, DepthHandler, Scrape, SelectUrl, InsertTbs,
       Unlock, CheckIfVisited, Raise, AfterCrawl
  <2>2. CASE AfterCrawl(w)
    BY <1>1, <2>1, <2>2 DEF AfterCrawl, Count!SendToBroker, Count!DecJobCount,
       Count!PublishCompleted, Count!DeleteCount, Count!Ack, Count!Move, Held, Used
  <2>3. CASE BadJob(w) \/ InitJobCount(w)
    BY <1>1, <2>1, <2>3 DEF BadJob, InitJobCount, Count!BadJob, Count!InitJobCount, Used
  <2>4. CASE ~AfterCrawl(w) /\ ~BadJob(w) /\ ~InitJobCount(w)
    <3>1. Count!NoSubJobs(w) \/ UNCHANGED counting
      BY <1>6, <2>4 DEF Step, CheckRobot, CrawlReady, CheckIfPresent, CheckJob,
         CheckNewUrl, CheckSeenUrl, LinksOfLog, DepthHandler, Scrape, SelectUrl, InsertTbs,
         Unlock, CheckIfVisited, Raise, Branch, SendOrFinish, Finish, Advance
    <3>2. QED
      BY <1>5, <2>1, <3>1
  <2>5. QED
    BY <2>2, <2>3, <2>4
<1>7. CASE \E w \in Worker : Crash(w)
  BY <1>1, <1>7 DEF Crash, Count!Crash, Count!Uncounted, Held, Used
<1>8. CASE (\E p \in Page : DelayPasses(p)) \/ UNCHANGED vars
  BY <1>1, <1>8 DEF DelayPasses, counting, vars, Used
<1>9. QED
  BY <1>2, <1>3, <1>4, <1>6, <1>7, <1>8 DEF Next

\* A job is submitted by its user.
LEMMA SubmittedStep ==
    ASSUME TypeInv, [Next]_vars, NEW j \in Job, Count!Submitted(j)', ~Count!Submitted(j)
    PROVE  \E t \in Task : Owner[t] = j /\ Submit(t)
<1>1. PICK t \in Task : Owner[t] = j /\ ~Used(t) /\ Used(t)'
  BY DEF Count!Submitted, Count!TasksOf, Used
<1>2. ASSUME NEW w \in Worker, IncJobCount(w) PROVE FALSE
  <2>1. t \in Fresh(JobOf(w), Cardinality(mem[w].out))
    BY <1>1, <1>2 DEF IncJobCount, Count!IncJobCount, Count!Move, Used, TypeInv, Basis, Count!TypeOK
  <2>2. JobOf(w) = j
    BY <1>1, <2>1 DEF Fresh, Unused, Count!TasksOf
  <2>3. cur[w] \in Task /\ place[cur[w]] # "unused"
    BY <1>2, CrawlTyped DEF IncJobCount, At
  <2>4. QED
    BY <2>2, <2>3 DEF Count!Submitted, Count!TasksOf, JobOf
<1>3. QED
  BY <1>1, <1>2, TaskIsMade

LEMMA ToldGrows ==
    ASSUME TypeInv, [Next]_vars, NEW j \in Job, told[j] > 0
    PROVE  told'[j] > 0
<1>1. [Count!Next]_(Count!vars)
  BY NextOfCount
<1>2. told \in [Job -> Nat]
  BY DEF TypeInv, Basis, Count!TypeOK
<1>3. ASSUME NEW w \in Worker, Count!PublishCompleted(w) PROVE told'[j] > 0
  <2>1. CASE UNCHANGED told
    BY <2>1
  <2>2. CASE told' = [told EXCEPT ![Count!JobOf(w)] = @ + 1]
    BY <1>2, <2>2
  <2>3. QED
    BY <1>3, <2>1, <2>2 DEF Count!PublishCompleted
<1>4. QED
  BY <1>1, <1>3 DEF Count!Next, Count!Step, Count!vars, Count!Submit, Count!PushToBroker,
     Count!Pull, Count!BadJob, Count!InitJobCount, Count!NoSubJobs, Count!IncJobCount,
     Count!SendToBroker, Count!DecJobCount, Count!DeleteCount, Count!Ack, Count!Crash

\* Of two jobs that were submitted and have a page in common one was announced.
SerialInv ==
    \A i, j \in Job : i # j /\ Overlaps(i, j) /\ Count!Submitted(i) /\ Count!Submitted(j)
                      => told[i] > 0 \/ told[j] > 0

LEMMA SerialStep ==
    ASSUME ~Overlap, TypeInv, SerialInv, [Next]_vars
    PROVE  SerialInv'
<1>1. SUFFICES ASSUME NEW i \in Job, NEW j \in Job, i # j, Overlaps(i, j),
                      Count!Submitted(i)', Count!Submitted(j)'
               PROVE  told'[i] > 0 \/ told'[j] > 0
  BY DEF SerialInv, Overlaps
<1>2. ASSUME NEW a \in Job, NEW b \in Job, a # b, ~Count!Submitted(a), Count!Submitted(a)',
             Count!Submitted(b)'
      PROVE  told'[b] > 0
  <2>1. PICK t \in Task : Owner[t] = a /\ Submit(t)
    BY <1>2, SubmittedStep
  <2>2. CASE Count!Submitted(b)
    BY <1>2, <2>1, <2>2, ToldGrows DEF Submit
  <2>3. CASE ~Count!Submitted(b)
    <3>1. PICK u \in Task : Owner[u] = b /\ Submit(u)
      BY <1>2, <2>3, SubmittedStep
    <3>2. place' = Count!Move({t}, "pushing") /\ place' = Count!Move({u}, "pushing")
      BY <2>1, <3>1 DEF Submit, Count!Submit
    <3>3. place[t] = "unused"
      BY <2>1 DEF Submit, Count!Submit, Count!TasksOf
    <3>4. place'[t] = "pushing" /\ (u # t => place'[t] = place[t])
      BY <3>2 DEF Count!Move
    <3>5. QED
      BY <1>2, <2>1, <3>1, <3>3, <3>4
  <2>4. QED
    BY <2>2, <2>3
<1>3. CASE Count!Submitted(i) /\ Count!Submitted(j)
  BY <1>1, <1>3, ToldGrows DEF SerialInv
<1>4. QED
  BY <1>1, <1>2, <1>3

\* Two jobs with a page in common do not run at the same time.
LEMMA OneAtATimeHolds ==
    ASSUME Faults \subseteq Count!FaultKinds, InTurn
    PROVE  Spec => []OneAtATime
<1>1. CASE Separate
  <2>1. Init => OneAtATime
    BY <1>1 DEF Separate, OneAtATime
  <2>2. OneAtATime /\ [Next]_vars => OneAtATime'
    BY <1>1 DEF Separate, OneAtATime, Overlaps
  <2>3. QED
    BY <2>1, <2>2, PTL DEF Spec
<1>2. CASE ~Overlap /\ Faults \cap Count!UnsafeFaults = {}
  <2>1. Init => SerialInv
    BY DEF Init, Count!Init, SerialInv, Count!Submitted, Count!TasksOf
  <2>2. TypeInv /\ SerialInv /\ [Next]_vars => SerialInv'
    BY <1>2, SerialStep
  <2>3. SerialInv /\ Count!CompletedMeansDone /\ TypeInv => OneAtATime
    <3> SUFFICES ASSUME SerialInv, Count!CompletedMeansDone, TypeInv PROVE OneAtATime
      OBVIOUS
    <3>1. ASSUME NEW j \in Job, Count!Live(j) # {} PROVE Count!Submitted(j)
      <4>1. PICK t \in Count!TasksOf(j) : Count!IsLive(t)
        BY <3>1 DEF Count!Live
      <4>2. t \in Task /\ place[t] # "unused"
        BY <4>1, BusyTask DEF Count!TasksOf, Count!IsLive, Count!Uncounted, TypeInv
      <4>3. QED
        BY <4>1, <4>2 DEF Count!Submitted
    <3>2. QED
      BY <3>1 DEF SerialInv, Count!CompletedMeansDone, OneAtATime
  <2>4. Spec => []Count!CompletedMeansDone
    BY <1>2, CrawlCompletionIsSafe
  <2>5. QED
    BY <2>1, <2>2, <2>3, <2>4, TypeInvHolds, PTL DEF Spec
<1>3. QED
  BY <1>1, <1>2 DEF InTurn

-----------------------------------------------------------------------------
(* What a crawler in add() may rely on *)

LEMMA CrawlAtHop ==
    ASSUME TypeInv, WorkInv, NEW w \in Worker, step[w] # "none"
    PROVE  /\ JobOf(w) \in Job
           /\ AtHop(JobOf(w), work[cur[w]])
           /\ UrlOf(w) \in Site(JobOf(w))
           /\ JobRows(JobOf(w)) = {} => work[cur[w]] = Request(JobOf(w))
<1>1. cur[w] \in Task /\ Used(cur[w]) /\ JobOf(w) \in Job
  BY CrawlTyped DEF Used
<1>2. /\ AtHop(JobOf(w), work[cur[w]])
      /\ JobRows(JobOf(w)) = {} => work[cur[w]] = Request(JobOf(w))
  BY <1>1 DEF WorkInv, JobOf
<1>3. UrlOf(w) \in Site(JobOf(w))
  BY <1>1, <1>2, AtHopInSite DEF UrlOf
<1>4. QED
  BY <1>1, <1>2, <1>3

\* Only the job's first task inserts the job's row.
LEMMA InsertedIsRequest ==
    ASSUME TypeInv, WorkInv, NEW w \in Worker, step[w] # "none", JobRows(JobOf(w)) = {}
    PROVE  UrlOf(w) = RootOf(JobOf(w)) /\ DepthOf(w) = Depth[JobOf(w)]
<1>1. work[cur[w]] = Request(JobOf(w))
  BY CrawlAtHop
<1>2. QED
  BY <1>1 DEF Request, UrlOf, DepthOf, RootOf

LEMMA InsertedRow ==
    ASSUME NEW w \in Worker, jobs' = jobs \cup InsertedJob(w)
    PROVE  \E r \in jobs' : r.job = JobOf(w)
<1>1. CASE JobRows(JobOf(w)) = {}
  <2> DEFINE row == [job |-> JobOf(w), url |-> UrlOf(w), depth |-> DepthOf(w)]
  <2>1. row \in InsertedJob(w) /\ row.job = JobOf(w)
    BY <1>1 DEF InsertedJob
  <2>2. QED
    BY <2>1
<1>2. CASE JobRows(JobOf(w)) # {}
  BY <1>2 DEF JobRows
<1>3. QED
  BY <1>1, <1>2

\* What check_url finds about the page is of jobs that are the same request as w's
\* own: the difference of depths is not negative, and what it copies is true of the
\* jobs it is copied to.
LEMMA SeenIsSame ==
    ASSUME Compatible, TypeInv, DepthInv, NEW w \in Worker, step[w] # "none",
           NEW row1 \in log, row1.url = UrlOf(w), NEW row2 \in jobs, row2.url = UrlOf(w)
    PROVE  /\ row2.depth - DepthOf(w) >= 0
           /\ \A r \in Copied(w, row1, row2.depth - DepthOf(w)) :
                  r.depth \in 0..(Depth[r.job] - 1) /\ r.url \in Hops(RootOf(r.job), r.depth)
<1> DEFINE j == JobOf(w)
           dif == row2.depth - DepthOf(w)
<1>1. j \in Job /\ UrlOf(w) \in Site(j) /\ AtHop(j, work[cur[w]])
  BY CrawlAtHop DEF DepthInv
<1>2. row1 \in LogRow /\ row2 \in JobRow
  BY DEF TypeInv, TablesTyped
<1>3. row1.job \in Job /\ SameRequest(row1.job, j)
  <2>1. row1.job \in Job /\ row1.depth \in 0..(Depth[row1.job] - 1)
        /\ row1.url \in Hops(RootOf(row1.job), row1.depth)
    BY <1>2 DEF DepthInv, LoggedAtHop, LogRow
  <2>2. UrlOf(w) \in Site(row1.job)
    BY <2>1, HopInSite
  <2>3. QED
    BY <1>1, <2>1, <2>2, SameSite
<1>4. ASSUME NEW r \in jobs, r.url = UrlOf(w) PROVE SameRequest(r.job, j)
  <2>1. r.job \in Job /\ r.url = RootOf(r.job)
    BY DEF DepthInv, JobRowIsRequest, TypeInv, TablesTyped, JobRow
  <2>2. UrlOf(w) \in Site(r.job)
    BY <1>4, <2>1, RootInSite
  <2>3. QED
    BY <1>1, <2>1, <2>2, SameSite
<1>5. row2.depth = Depth[j]
  BY <1>4 DEF DepthInv, JobRowIsRequest, SameRequest
<1>6. Depth[j] \in Nat /\ DepthOf(w) \in 1..Depth[j]
  BY <1>1, RootTyped DEF AtHop, DepthOf
<1>7. dif >= 0
  BY <1>5, <1>6
<1>8. \A r \in TargetRows(w, dif) : SameRequest(r.job, j)
  BY <1>4 DEF TargetRows, JobRows, InsertedJob, SameRequest
<1>9. ASSUME NEW r \in Copied(w, row1, dif)
      PROVE  r.depth \in 0..(Depth[r.job] - 1) /\ r.url \in Hops(RootOf(r.job), r.depth)
  <2>1. PICK p \in TargetRows(w, dif) \X {l \in log : l.job = row1.job} :
          r = [job |-> p[1].job, url |-> p[2].url, depth |-> p[2].depth]
    BY <1>9 DEF Copied
  <2>2. SameRequest(r.job, row1.job)
    BY <2>1, <1>3, <1>8 DEF SameRequest
  <2>3. p[2] \in log /\ p[2].job = row1.job /\ r.url = p[2].url /\ r.depth = p[2].depth
    BY <2>1
  <2>4. p[2].depth \in 0..(Depth[row1.job] - 1) /\ p[2].url \in Hops(RootOf(row1.job), p[2].depth)
    BY <2>3 DEF DepthInv, LoggedAtHop
  <2>5. QED
    BY <2>2, <2>3, <2>4 DEF SameRequest
<1>10. QED
  BY <1>7, <1>9

-----------------------------------------------------------------------------
(* Depths in the tables *)

\* insert_tbs succeeds.
Inserts(w) ==
    LET row == [job |-> JobOf(w), url |-> UrlOf(w), depth |-> DepthOf(w)]
        new == IF mem[w].jobInDb THEN {} ELSE {row}
    IN  /\ step[w] = "insert"
        /\ ~mem[w].jobInDb => JobRows(JobOf(w)) = {}
        /\ urls' = urls \cup {UrlOf(w)}
        /\ jobs' = jobs \cup new
        /\ log' = log \cup {[row EXCEPT !.depth = r.depth - DepthOf(w)] :
                              r \in JobRows(JobOf(w)) \cup new}
        /\ links' = links \cup {[src |-> UrlOf(w), target |-> h] : h \in mem[w].found}

\* depth_handler gives the job its row.
AddsJob(w) ==
    step[w] # "none" /\ jobs' = jobs \cup InsertedJob(w) /\ UNCHANGED <<urls, log, links>>

\* check_url copies.
Copies(w) ==
    /\ step[w] # "none"
    /\ \E row1 \in log, row2 \in jobs :
          /\ row1.url = UrlOf(w) /\ row2.url = UrlOf(w)
          /\ jobs' = jobs \cup InsertedJob(w)
          /\ log' = log \cup Copied(w, row1, row2.depth - DepthOf(w))
    /\ UNCHANGED <<urls, links>>

LEMMA DbStep ==
    ASSUME [Next]_vars
    PROVE  UNCHANGED db \/ \E w \in Worker : AddsJob(w) \/ Inserts(w) \/ Copies(w)
<1>1. ASSUME NEW w \in Worker, CheckSeenUrl(w) PROVE Copies(w)
  BY <1>1 DEF CheckSeenUrl, At, Copies
<1>2. ASSUME NEW w \in Worker, DepthHandler(w) PROVE UNCHANGED db \/ AddsJob(w)
  BY <1>2 DEF DepthHandler, At, AddsJob, db
<1>3. ASSUME NEW w \in Worker, InsertTbs(w) PROVE UNCHANGED db \/ Inserts(w)
  BY <1>3 DEF InsertTbs, At, Inserts, db
<1>4. ASSUME NEW w \in Worker, Step(w)
      PROVE  UNCHANGED db \/ \E v \in Worker : AddsJob(v) \/ Inserts(v) \/ Copies(v)
  BY <1>1, <1>2, <1>3, <1>4 DEF Step, BadJob, InitJobCount, CheckRobot, CrawlReady,
     CheckIfPresent, CheckJob, CheckNewUrl, LinksOfLog, Scrape, SelectUrl, Unlock,
     CheckIfVisited, IncJobCount, Raise, AfterCrawl
<1>5. QED
  BY <1>4 DEF Next, vars, Submit, PushToBroker, Pull, Crash, DelayPasses, db

LEMMA RowsGrow ==
    ASSUME [Next]_vars
    PROVE  jobs \subseteq jobs' /\ \A j : JobRows(j) \subseteq JobRows(j)'
<1>1. jobs \subseteq jobs'
  BY DbStep DEF db, AddsJob, Inserts, Copies
<1>2. QED
  BY <1>1 DEF JobRows

LEMMA TablesDepth ==
    ASSUME Compatible, OneAtATime, TypeInv, DepthInv, [Next]_vars
    PROVE  (JobRowIsRequest /\ LoggedAtHop /\ LinkInv)'
<1>0. JobRowIsRequest /\ LoggedAtHop /\ LinkInv /\ WorkInv
  BY DEF DepthInv
<1>1. CASE UNCHANGED db
  BY <1>0, <1>1 DEF db, JobRowIsRequest, LoggedAtHop, LinkInv
<1>2. ASSUME NEW w \in Worker, AddsJob(w)
      PROVE  (JobRowIsRequest /\ LoggedAtHop /\ LinkInv)'
  <2>1. \A r \in InsertedJob(w) : r.url = RootOf(r.job) /\ r.depth = Depth[r.job]
    BY <1>0, <1>2, InsertedIsRequest DEF AddsJob, InsertedJob
  <2>2. QED
    BY <1>0, <1>2, <2>1 DEF AddsJob, JobRowIsRequest, LoggedAtHop, LinkInv
<1>3. ASSUME NEW w \in Worker, Inserts(w)
      PROVE  (JobRowIsRequest /\ LoggedAtHop /\ LinkInv)'
  <2> DEFINE j == JobOf(w)
             row == [job |-> j, url |-> UrlOf(w), depth |-> DepthOf(w)]
             new == IF mem[w].jobInDb THEN {} ELSE {row}
  <2>1. /\ j \in Job /\ AtHop(j, work[cur[w]]) /\ UrlOf(w) \in Site(j)
        /\ DepthOf(w) \in 1..Depth[j] /\ Depth[j] \in Nat
        /\ UrlOf(w) \in Hops(RootOf(j), Depth[j] - DepthOf(w))
    BY <1>0, <1>3, CrawlAtHop, RootTyped DEF Inserts, AtHop, UrlOf, DepthOf
  <2>2. /\ jobs' = jobs \cup new /\ urls' = urls \cup {UrlOf(w)}
        /\ log' = log \cup {[row EXCEPT !.depth = r.depth - DepthOf(w)] : r \in JobRows(j) \cup new}
        /\ links' = links \cup {[src |-> UrlOf(w), target |-> h] : h \in mem[w].found}
    BY <1>3 DEF Inserts
  <2>3. \A r \in new : r.job = j /\ r.url = RootOf(j) /\ r.depth = Depth[j]
    BY <1>0, <1>3, InsertedIsRequest DEF Inserts
  <2>4. JobRowIsRequest'
    BY <1>0, <2>2, <2>3 DEF JobRowIsRequest
  <2>5. LoggedAtHop'
    <3>1. ASSUME NEW r \in JobRows(j) \cup new,
                 NEW l, l = [row EXCEPT !.depth = r.depth - DepthOf(w)]
          PROVE  l.depth \in 0..(Depth[l.job] - 1) /\ l.url \in Hops(RootOf(l.job), l.depth)
      <4>1. r.depth = Depth[j]
        BY <1>0, <2>3 DEF JobRowIsRequest, JobRows
      <4>2. l.job = j /\ l.url = UrlOf(w) /\ l.depth = Depth[j] - DepthOf(w)
        BY <3>1, <4>1
      <4>3. QED
        BY <2>1, <4>2
    <3>2. QED
      BY <1>0, <2>2, <3>1 DEF LoggedAtHop
  <2>6. LinkInv'
    <3>1. mem[w].found \subseteq Web[UrlOf(w)]
      BY <1>3 DEF DepthInv, LocalInv, Local, Inserts
    <3>2. QED
      BY <1>0, <2>2, <3>1 DEF LinkInv
  <2>7. QED
    BY <2>4, <2>5, <2>6
<1>4. ASSUME NEW w \in Worker, Copies(w)
      PROVE  (JobRowIsRequest /\ LoggedAtHop /\ LinkInv)'
  <2>1. \A r \in InsertedJob(w) : r.url = RootOf(r.job) /\ r.depth = Depth[r.job]
    BY <1>0, <1>4, InsertedIsRequest DEF Copies, InsertedJob
  <2>2. PICK row1 \in log, row2 \in jobs :
          /\ row1.url = UrlOf(w) /\ row2.url = UrlOf(w)
          /\ log' = log \cup Copied(w, row1, row2.depth - DepthOf(w))
    BY <1>4 DEF Copies
  <2>3. LoggedAtHop'
    <3>1. \A r \in Copied(w, row1, row2.depth - DepthOf(w)) :
             r.depth \in 0..(Depth[r.job] - 1) /\ r.url \in Hops(RootOf(r.job), r.depth)
      BY <1>4, <2>2, SeenIsSame DEF Copies
    <3>2. QED
      BY <1>0, <2>2, <3>1 DEF LoggedAtHop
  <2>4. QED
    BY <1>0, <1>4, <2>1, <2>3 DEF Copies, JobRowIsRequest, LinkInv
<1>5. QED
  BY <1>1, <1>2, <1>3, <1>4, DbStep

-----------------------------------------------------------------------------
(* Depths in the tasks *)

LEMMA WorkStep ==
    ASSUME Compatible, OneAtATime, TypeInv, DepthInv, [Next]_vars
    PROVE  WorkInv'
<1>1. SUFFICES ASSUME NEW t \in Task
               PROVE  /\ ~Used(t)' => work'[t] = Request(Owner[t])
                      /\ Used(t)' => /\ AtHop(Owner[t], work'[t])
                                     /\ \/ work'[t] = Request(Owner[t])
                                        \/ JobRows(Owner[t])' # {}
  BY DEF WorkInv, AtHop, Request
<1>2. Owner[t] \in Job /\ JobRows(Owner[t]) \subseteq JobRows(Owner[t])'
  BY CrawlerAssumption, RowsGrow
<1>3. CASE Used(t)
  <2>1. Used(t)' /\ work'[t] = work[t]
    BY <1>3, TaskStays DEF Used
  <2>2. QED
    BY <1>2, <1>3, <2>1 DEF DepthInv, WorkInv
<1>4. CASE ~Used(t)
  <2>1. work[t] = Request(Owner[t])
    BY <1>4 DEF DepthInv, WorkInv
  <2>2. CASE work'[t] = work[t]
    BY <1>2, <2>1, <2>2, RequestAtHop
  <2>3. ASSUME NEW w \in Worker, IncJobCount(w), work'[t] # work[t]
        PROVE  Used(t)' /\ AtHop(Owner[t], work'[t]) /\ JobRows(Owner[t])' # {}
    <3>1. PICK S \in SUBSET Task : \E carried \in [S -> mem[w].out] :
            /\ \A u \in S : Owner[u] = JobOf(w) /\ place[u] = "unused"
            /\ work' = [u \in Task |-> IF u \in S THEN carried[u] ELSE work[u]]
            /\ place' = [u \in Task |-> IF u \in S THEN "promised" ELSE place[u]]
      BY <2>3, SubJobsAssigned
    <3>2. t \in S
      BY <2>3, <3>1
    <3>3. work'[t] \in mem[w].out /\ Used(t)' /\ Owner[t] = JobOf(w)
      BY <3>1, <3>2 DEF Used
    <3>4. JobRows(JobOf(w)) # {} /\ \A o \in mem[w].out : AtHop(JobOf(w), o)
      BY <2>3 DEF DepthInv, LocalInv, Local, IncJobCount, At
    <3>5. QED
      BY <1>2, <3>3, <3>4
  <2>4. QED
    BY <1>4, <2>2, <2>3, TaskIsMade
<1>5. QED
  BY <1>3, <1>4

-----------------------------------------------------------------------------
(* Depths in the locals *)

\* A page that is stored while a crawler holds it is stored for the crawler's job.
LEMMA UnseenStays ==
    ASSUME OneAtATime, TypeInv, DepthInv, [Next]_vars,
           NEW v \in Worker, step[v] # "none", UrlOf(v) \notin urls, UrlOf(v) \in urls'
    PROVE  \E r \in jobs' : r.job = JobOf(v)
<1>1. PICK w \in Worker : Inserts(w)
  BY DbStep DEF db, AddsJob, Copies
<1>2. UrlOf(v) = UrlOf(w) /\ step[w] # "none"
  BY <1>1 DEF Inserts
<1>3. JobOf(v) = JobOf(w)
  <2>1. UrlOf(v) \in Site(JobOf(v)) /\ UrlOf(w) \in Site(JobOf(w))
    BY <1>2, CrawlAtHop DEF DepthInv
  <2>2. QED
    BY <1>2, <2>1, SameJob DEF Overlaps
<1>4. CASE mem[w].jobInDb
  BY <1>1, <1>3, <1>4 DEF DepthInv, LocalInv, Local, JobRows, Inserts
<1>5. CASE ~mem[w].jobInDb
  BY <1>1, <1>3, <1>5 DEF Inserts
<1>6. QED
  BY <1>4, <1>5

LEMMA LocalStays ==
    ASSUME Compatible, OneAtATime, TypeInv, DepthInv, [Next]_vars, NEW v \in Worker,
           step'[v] = step[v], mem'[v] = mem[v], step[v] # "none" => cur'[v] = cur[v]
    PROVE  Local(v)'
<1>1. Local(v)
  BY DEF DepthInv, LocalInv
<1>2. CASE step[v] = "none"
  BY <1>1, <1>2 DEF Local
<1>3. CASE step[v] # "none"
  <2>1. cur'[v] = cur[v] /\ work'[cur[v]] = work[cur[v]]
    BY <1>3, CrawlTyped, TaskStays
  <2>2. JobOf(v)' = JobOf(v) /\ UrlOf(v)' = UrlOf(v)
    BY <2>1 DEF JobOf, UrlOf
  <2>3. JobRows(JobOf(v)) # {} => JobRows(JobOf(v))' # {}
    BY <2>2, RowsGrow DEF JobRows
  <2>4. \A o : AtHop(JobOf(v), o) => AtHop(JobOf(v), o)'
    BY <2>2 DEF AtHop
  <2>5. JobRows(JobOf(v))' = {} /\ UrlOf(v) \notin urls => UrlOf(v) \notin urls'
    BY <1>3, <2>2, UnseenStays DEF JobRows
  <2>6. QED
    BY <1>1, <2>1, <2>2, <2>3, <2>4, <2>5 DEF Local
<1>4. QED
  BY <1>2, <1>3

LEMMA OutsideLocal ==
    ASSUME Compatible, OneAtATime, TypeInv, DepthInv, [Next]_vars, Outside
    PROVE  LocalInv'
<1>1. \A v \in Worker : step[v] # "none" => pc[v] = "crawl"
  BY DEF TypeInv, LocalsTyped
<1>2. QED
  BY <1>1, LocalStays DEF Outside, local, LocalInv

\* What is to be shown of a crawler that goes on to s with its locals at m.
LEMMA MovesLocal ==
    ASSUME Compatible, OneAtATime, TypeInv, DepthInv, [Next]_vars,
           NEW w \in Worker, step[w] # "none", NEW s, NEW m, Moves(w, s, m),
           s # "frontier",
           m.jobInDb => s # "none" /\ \E r \in jobs' : r.job = JobOf(w),
           s \in {"unlock", "visited", "count"} => \E r \in jobs' : r.job = JobOf(w),
           s \in {"select", "insert", "unlock", "visited"} => m.found \subseteq Web[UrlOf(w)],
           s = "count" => \A o \in m.out : AtHop(JobOf(w), o),
           s \in {"scrape", "select", "insert"} =>
               UrlOf(w) \notin urls' \/ \E r \in jobs' : r.job = JobOf(w)
    PROVE  LocalInv'
<1>1. cur'[w] = cur[w] /\ work'[cur[w]] = work[cur[w]]
  BY CrawlTyped, TaskStays DEF Moves
<1>2. JobOf(w)' = JobOf(w) /\ UrlOf(w)' = UrlOf(w)
  BY <1>1 DEF JobOf, UrlOf
<1>3. (\E r \in jobs' : r.job = JobOf(w)) => JobRows(JobOf(w))' # {}
  BY <1>2 DEF JobRows
<1>4. \A o : AtHop(JobOf(w), o) => AtHop(JobOf(w), o)'
  BY <1>2 DEF AtHop
<1>5. Local(w)'
  BY <1>2, <1>3, <1>4 DEF Local, Moves
<1>6. \A v \in Worker \ {w} : Local(v)'
  BY LocalStays DEF Moves, Others
<1>7. QED
  BY <1>5, <1>6 DEF LocalInv

LEMMA BlankLocal ==
    ASSUME Compatible, OneAtATime, TypeInv, DepthInv, [Next]_vars,
           NEW w \in Worker, step[w] # "none", Moves(w, "none", Blank)
    PROVE  LocalInv'
  BY MovesLocal DEF Blank

LEMMA FoundLocal ==
    ASSUME Compatible, OneAtATime, TypeInv, DepthInv, [Next]_vars,
           NEW w \in Worker, step[w] # "none", NEW out, Found(w, out),
           \E r \in jobs' : r.job = JobOf(w),
           \A o \in out : AtHop(JobOf(w), o)
    PROVE  LocalInv'
<1> DEFINE m == [Blank EXCEPT !.out = out]
<1>1. m.out = out /\ ~m.jobInDb
  BY DEF Blank
<1> HIDE DEF m
<1>2. Moves(w, "count", m)
  BY DEF m, Found
<1>3. QED
  BY <1>1, <1>2, MovesLocal

\* A crawler whose locals stay, apart from a flag that says nothing about the job.
LEMMA KeepLocal ==
    ASSUME Compatible, OneAtATime, TypeInv, DepthInv, [Next]_vars,
           NEW w \in Worker, step[w] # "none", NEW s, NEW m, Moves(w, s, m),
           m.jobInDb = mem[w].jobInDb, m.found = mem[w].found,
           s \notin {"none", "frontier", "count"},
           s \in {"unlock", "visited"} => \E r \in jobs' : r.job = JobOf(w),
           s \in {"select", "insert", "unlock", "visited"} => mem[w].found \subseteq Web[UrlOf(w)],
           s \in {"scrape", "select", "insert"} =>
               UrlOf(w) \notin urls' \/ \E r \in jobs' : r.job = JobOf(w)
    PROVE  LocalInv'
<1>1. mem[w].jobInDb => \E r \in jobs' : r.job = JobOf(w)
  BY RowsGrow DEF DepthInv, LocalInv, Local, JobRows
<1>2. QED
  BY <1>1, MovesLocal

LEMMA LocalStep ==
    ASSUME Compatible, OneAtATime, "insertFails" \notin CrawlFaults, TypeInv, DepthInv, [Next]_vars
    PROVE  LocalInv'
<1>0. /\ LocalInv /\ WorkInv /\ LinkInv
      /\ \A w \in Worker : step[w] # "none" => JobRows(JobOf(w)) = {} \/ \E r \in jobs' : r.job = JobOf(w)
  BY RowsGrow DEF DepthInv, JobRows
<1> USE DEF At
\* The job of a crawler that begins has no flag set yet.
<1>1. ASSUME NEW w \in Worker, InitJobCount(w) PROVE LocalInv'
  <2>1. step[w] = "none" /\ Moves(w, "robots", mem[w]) /\ ~mem[w].jobInDb
    BY <1>0, <1>1, InitMoves DEF LocalInv, Local
  <2>2. Local(w)'
    BY <2>1 DEF Local, Moves
  <2>3. \A v \in Worker \ {w} : Local(v)'
    BY <2>1, LocalStays DEF Moves, Others
  <2>4. QED
    BY <2>2, <2>3 DEF LocalInv
<1>2. ASSUME NEW w \in Worker, CheckRobot(w) \/ CrawlReady(w) PROVE LocalInv'
  <2>1. step[w] # "none"
    BY <1>2 DEF CheckRobot, CrawlReady
  <2>2. QED
    BY <1>2, <2>1, ReadyMoves, KeepLocal, BlankLocal
<1>3. ASSUME NEW w \in Worker, CheckIfPresent(w) PROVE LocalInv'
  <2> DEFINE m == [mem[w] EXCEPT !.inRedis = UrlOf(w) \in locks]
  <2>1. step[w] # "none" /\ mem[w] \in Locals
    BY <1>3 DEF CheckIfPresent, TypeInv, LocalsTyped
  <2>2. m.jobInDb = mem[w].jobInDb /\ m.found = mem[w].found
    BY <2>1 DEF Locals
  <2>3. Moves(w, "job", m)
    BY <1>3, PresentMoves
  <2> HIDE DEF m
  <2>4. QED
    BY <2>1, <2>2, <2>3, KeepLocal
<1>4. ASSUME NEW w \in Worker, CheckJob(w) PROVE LocalInv'
  <2> DEFINE m == [mem[w] EXCEPT !.jobInDb = JobRows(JobOf(w)) # {}]
  <2>1. step[w] # "none" /\ mem[w] \in Locals
    BY <1>4 DEF CheckJob, TypeInv, LocalsTyped
  <2>2. m.jobInDb => \E r \in jobs' : r.job = JobOf(w)
    BY <1>0, <2>1 DEF Locals
  <2> HIDE DEF m
  <2>3. Moves(w, "none", Blank) \/ Moves(w, "url", m)
    BY <1>4, JobMoves DEF m
  <2>4. QED
    BY <2>1, <2>2, <2>3, MovesLocal, BlankLocal
<1>5. ASSUME NEW w \in Worker, CheckNewUrl(w) PROVE LocalInv'
  <2>1. step[w] = "url" /\ urls' = urls
    BY <1>5 DEF CheckNewUrl, db
  <2>2. CASE Moves(w, "scrape", mem[w])
    <3>1. mem[w].jobInDb \/ UrlOf(w) \notin urls
      <4>1. step'[w] = "scrape" /\ step \in [Worker -> Steps]
        BY <2>2 DEF Moves, TypeInv, LocalsTyped
      <4>2. QED
        BY <1>5, <4>1 DEF CheckNewUrl, Branch, Advance, Goto, Finish, Rest
    <3>2. mem[w].jobInDb => \E r \in jobs' : r.job = JobOf(w)
      BY <1>0, <2>1 DEF LocalInv, Local
    <3>3. QED
      BY <2>1, <2>2, <3>1, <3>2, KeepLocal
  <2>3. CASE Moves(w, "depth", mem[w])
    BY <2>1, <2>3, KeepLocal
  <2>4. QED
    BY <1>5, <2>1, <2>2, <2>3, NewUrlMoves, BlankLocal
<1>6. ASSUME NEW w \in Worker, CheckSeenUrl(w) PROVE LocalInv'
  <2>1. step[w] # "none"
    BY <1>6 DEF CheckSeenUrl
  <2>2. PICK row1 \in {r \in log : r.url = UrlOf(w)} : jobs' = jobs \cup InsertedJob(w)
    BY <1>6 DEF CheckSeenUrl
  <2>3. \A row \in jobs : row.url = UrlOf(w) => ~(row.depth - DepthOf(w) < 0)
    <3>1. ASSUME NEW row \in jobs, row.url = UrlOf(w) PROVE ~(row.depth - DepthOf(w) < 0)
      <4>1. row.depth \in Nat /\ DepthOf(w) \in Nat
        BY <2>1, CrawlTyped DEF TypeInv, TablesTyped, JobRow
      <4>2. row.depth - DepthOf(w) >= 0
        BY <2>1, <2>2, <3>1, SeenIsSame
      <4>3. QED
        BY <4>1, <4>2
    <3>2. QED
      BY <3>1
  <2>4. Moves(w, "none", Blank) \/ Moves(w, "scrape", mem[w])
    BY <1>6, <2>3, SeenUrlMoves
  <2>5. \E r \in jobs' : r.job = JobOf(w)
    BY <2>2, InsertedRow
  <2>6. QED
    BY <2>1, <2>4, <2>5, KeepLocal, BlankLocal
\* Nobody is there.
<1>7. ASSUME NEW w \in Worker, LinksOfLog(w) PROVE LocalInv'
  BY <1>0, <1>7 DEF LinksOfLog, LocalInv, Local
<1>8. ASSUME NEW w \in Worker, DepthHandler(w) PROVE LocalInv'
  <2>1. step[w] # "none" /\ step[w] = "depth"
    BY <1>8 DEF DepthHandler
  <2>2. ASSUME NEW rows \in SUBSET links, \A l \in rows : l.src = UrlOf(w), DepthOf(w) > 1,
               jobs' = jobs \cup InsertedJob(w),
               Found(w, SubJobs({l.target : l \in rows}, DepthOf(w) - 1))
        PROVE  LocalInv'
    <3> DEFINE S == {l.target : l \in rows}
    <3>1. S \subseteq Web[UrlOf(w)]
      BY <1>0, <2>2 DEF LinkInv
    <3>2. AtHop(JobOf(w), work[cur[w]]) /\ JobOf(w) \in Job
      BY <1>0, <2>1, CrawlAtHop
    <3> HIDE DEF S
    <3>3. \A o \in SubJobs(S, DepthOf(w) - 1) : AtHop(JobOf(w), o)
      <4>1. DepthOf(w) > 1
        BY <2>2
      <4>2. QED
        BY <3>1, <3>2, <4>1, SubJobsAtHop DEF DepthOf, UrlOf
    <3>4. \E r \in jobs' : r.job = JobOf(w)
      BY <2>2, InsertedRow
    <3>5. Found(w, SubJobs(S, DepthOf(w) - 1))
      BY <2>2 DEF S
    <3>6. QED
      BY <2>1, <3>3, <3>4, <3>5, FoundLocal
  <2>3. QED
    BY <1>8, <2>1, <2>2, DepthMoves, BlankLocal
<1>9. ASSUME NEW w \in Worker, Scrape(w) PROVE LocalInv'
  <2>1. PICK targets \in SUBSET Web[UrlOf(w)] :
          Moves(w, "select", [mem[w] EXCEPT !.found = targets])
    BY <1>9, ScrapeMoves
  <2> DEFINE m == [mem[w] EXCEPT !.found = targets]
  <2>2. step[w] # "none" /\ mem[w] \in Locals
    BY <1>9 DEF Scrape, TypeInv, LocalsTyped
  <2>3. m.found = targets /\ m.jobInDb = mem[w].jobInDb
    BY <2>2 DEF Locals
  <2> HIDE DEF m
  <2>4. Moves(w, "select", m)
    BY <2>1 DEF m
  <2>5. m.jobInDb => \E r \in jobs' : r.job = JobOf(w)
    BY <1>0, <2>2, <2>3 DEF LocalInv, Local
  <2>6. step[w] = "scrape" /\ urls' = urls
    BY <1>9 DEF Scrape, db
  <2>7. UrlOf(w) \notin urls' \/ \E r \in jobs' : r.job = JobOf(w)
    BY <1>0, <2>6 DEF LocalInv, Local
  <2>8. QED
    BY <2>1, <2>2, <2>3, <2>4, <2>5, <2>7, MovesLocal
<1>10. ASSUME NEW w \in Worker, SelectUrl(w) PROVE LocalInv'
  <2> DEFINE m == [mem[w] EXCEPT !.urlRow = UrlOf(w) \in urls]
  <2>1. step[w] = "select" /\ mem[w].found \subseteq Web[UrlOf(w)] /\ mem[w] \in Locals
    BY <1>0, <1>10 DEF SelectUrl, LocalInv, Local, TypeInv, LocalsTyped
  <2>2. m.jobInDb = mem[w].jobInDb /\ m.found = mem[w].found
    BY <2>1 DEF Locals
  <2>3. Moves(w, "insert", m)
    BY <1>10, SelectMoves
  <2> HIDE DEF m
  <2>4. urls' = urls
    BY <1>10 DEF SelectUrl, db
  <2>5. UrlOf(w) \notin urls' \/ \E r \in jobs' : r.job = JobOf(w)
    BY <1>0, <2>1, <2>4 DEF LocalInv, Local
  <2>6. QED
    BY <2>1, <2>2, <2>3, <2>5, KeepLocal
\* Whether insert_tbs succeeds or finds that others were first: the job has its row.
<1>11. ASSUME NEW w \in Worker, InsertTbs(w) PROVE LocalInv'
  <2>1. step[w] = "insert" /\ mem[w].found \subseteq Web[UrlOf(w)]
    BY <1>0, <1>11 DEF InsertTbs, LocalInv, Local
  <2>2. \E r \in jobs' : r.job = JobOf(w)
    <3>1. CASE JobRows(JobOf(w)) # {}
      BY <1>0, <2>1, <3>1
    <3>2. CASE JobRows(JobOf(w)) = {}
      <4>1. ~mem[w].jobInDb /\ UrlOf(w) \notin urls
        BY <1>0, <2>1, <3>2 DEF LocalInv, Local
      <4>2. QED
        BY <1>11, <3>2, <4>1 DEF InsertTbs
    <3>3. QED
      BY <3>1, <3>2
  <2>3. QED
    BY <1>11, <2>1, <2>2, InsertMoves, KeepLocal
<1>12. ASSUME NEW w \in Worker, Unlock(w) PROVE LocalInv'
  <2>1. /\ step[w] = "unlock" /\ mem[w].found \subseteq Web[UrlOf(w)]
        /\ \E r \in jobs' : r.job = JobOf(w)
    BY <1>0, <1>12 DEF Unlock, LocalInv, Local
  <2>2. QED
    BY <1>12, <2>1, UnlockMoves, KeepLocal, BlankLocal
<1>13. ASSUME NEW w \in Worker, CheckIfVisited(w) PROVE LocalInv'
  <2> DEFINE S == Unvisited(mem[w].found)
  <2>1. step[w] = "visited" /\ DepthOf(w) > 1
    BY <1>13 DEF CheckIfVisited, TypeInv, LocalsTyped, Bounded
  <2>2. S \subseteq Web[UrlOf(w)] /\ \E r \in jobs' : r.job = JobOf(w)
    BY <1>0, <2>1 DEF LocalInv, Local, Unvisited
  <2>3. AtHop(JobOf(w), work[cur[w]]) /\ JobOf(w) \in Job
    BY <1>0, <2>1, CrawlAtHop
  <2>4. Moves(w, "none", Blank) \/ Found(w, SubJobs(S, DepthOf(w) - 1))
    BY <1>13, VisitedMoves
  <2> HIDE DEF S
  <2>5. \A o \in SubJobs(S, DepthOf(w) - 1) : AtHop(JobOf(w), o)
    BY <2>1, <2>2, <2>3, SubJobsAtHop DEF DepthOf, UrlOf
  <2>6. QED
    BY <2>1, <2>2, <2>4, <2>5, BlankLocal, FoundLocal
<1>14. ASSUME NEW w \in Worker, IncJobCount(w) \/ Raise(w) PROVE LocalInv'
  <2>1. step[w] # "none"
    BY <1>14 DEF IncJobCount, Raise, Finish, Count!NoSubJobs, TypeInv, LocalsTyped
  <2>2. QED
    BY <1>14, <2>1, LastMoves, BlankLocal
<1>15. ASSUME NEW w \in Worker, BadJob(w) \/ AfterCrawl(w) PROVE LocalInv'
  BY <1>15, AfterIsOutside, OutsideLocal
<1>16. ASSUME NEW w \in Worker, Crash(w) PROVE LocalInv'
  <2>1. Local(w)'
    BY <1>16, CrashMoves DEF Local, Blank
  <2>2. \A v \in Worker \ {w} : Local(v)'
    BY <1>16, CrashMoves, LocalStays DEF Others
  <2>3. QED
    BY <2>1, <2>2 DEF LocalInv
<1>17. QED
  <2>1. ASSUME NEW w \in Worker, Step(w) PROVE LocalInv'
    BY <1>1, <1>2, <1>3, <1>4, <1>5, <1>6, <1>7, <1>8, <1>9, <1>10, <1>11, <1>12, <1>13,
       <1>14, <1>15, <2>1 DEF Step
  <2>2. QED
    BY <1>16, <2>1, RestIsOutside, OutsideLocal DEF Next

-----------------------------------------------------------------------------
(* Depths: the theorems *)

LEMMA DepthInvHolds ==
    ASSUME Faults \subseteq Count!FaultKinds, Compatible, InTurn, "insertFails" \notin CrawlFaults
    PROVE  Spec => []DepthInv
<1>1. TypeInv /\ OneAtATime /\ DepthInv /\ [Next]_vars => DepthInv'
  BY TablesDepth, WorkStep, LocalStep DEF DepthInv
<1>2. QED
  BY <1>1, DepthInit, TypeInvHolds, OneAtATimeHolds, PTL DEF Spec

\* No sub-job goes beyond the depth the user asked for, however often a page is
\* crawled, re-sent, or handed out again after a crash: depth and distance from the
\* root always add up to the requested depth.
THEOREM SubJobsKeepDepth ==
    ASSUME Faults \subseteq Count!FaultKinds, Compatible, InTurn, "insertFails" \notin CrawlFaults
    PROVE  Spec => []SubJobAtHop
<1>1. DepthInv => SubJobAtHop
  BY DEF DepthInv, WorkInv, SubJobAtHop, Used, AtHop
<1>2. QED
  BY <1>1, DepthInvHolds, PTL

\* A page is logged for a job at its distance from the job's root.
THEOREM LogIsHonest ==
    ASSUME Faults \subseteq Count!FaultKinds, Compatible, InTurn, "insertFails" \notin CrawlFaults
    PROVE  Spec => []LoggedAtHop
<1>1. DepthInv => LoggedAtHop
  BY DEF DepthInv
<1>2. QED
  BY <1>1, DepthInvHolds, PTL

\* The row of a job is the user's request, whichever crawler comes first and however
\* often it is tried: it is never made from a sub-job.
THEOREM JobRowsAreRequests ==
    ASSUME Faults \subseteq Count!FaultKinds, Compatible, InTurn, "insertFails" \notin CrawlFaults
    PROVE  Spec => []JobRowIsRequest
<1>1. DepthInv => JobRowIsRequest
  BY DEF DepthInv
<1>2. QED
  BY <1>1, DepthInvHolds, PTL

\* No other job that wrote rows shares a page with job j.
Alone(j) == \A r \in jobs \cup log : Overlaps(r.job, j) => r.job = j

\* Then all that check_url finds is of w's own job: no row is inserted, the difference
\* of depths is not negative, and every row it copies is there already.
LEMMA SeenIsOwn ==
    ASSUME TypeInv, DepthInv, NEW w \in Worker, step[w] # "none", Alone(JobOf(w)),
           NEW row1 \in log, row1.url = UrlOf(w), NEW row2 \in jobs, row2.url = UrlOf(w)
    PROVE  /\ InsertedJob(w) = {}
           /\ row2.depth - DepthOf(w) >= 0
           /\ Copied(w, row1, row2.depth - DepthOf(w)) \subseteq log
<1> DEFINE j == JobOf(w)
           dif == row2.depth - DepthOf(w)
<1>1. j \in Job /\ UrlOf(w) \in Site(j) /\ AtHop(j, work[cur[w]])
  BY CrawlAtHop DEF DepthInv
<1>2. row1 \in LogRow /\ row2 \in JobRow
  BY DEF TypeInv, TablesTyped
<1>3. row1.job = j
  <2>1. row1.job \in Job /\ row1.depth \in 0..(Depth[row1.job] - 1)
        /\ row1.url \in Hops(RootOf(row1.job), row1.depth)
    BY <1>2 DEF DepthInv, LoggedAtHop, LogRow
  <2>2. UrlOf(w) \in Site(row1.job)
    BY <2>1, HopInSite
  <2>3. QED
    BY <1>1, <2>1, <2>2 DEF Alone, Overlaps
<1>4. ASSUME NEW r \in jobs, r.url = UrlOf(w) PROVE r.job = j
  <2>1. r.job \in Job /\ r.url = RootOf(r.job)
    BY DEF DepthInv, JobRowIsRequest, TypeInv, TablesTyped, JobRow
  <2>2. UrlOf(w) \in Site(r.job)
    BY <1>4, <2>1, RootInSite
  <2>3. QED
    BY <1>1, <2>1, <2>2 DEF Alone, Overlaps
<1>5. row2 \in JobRows(j)
  BY <1>4 DEF JobRows
<1>6. InsertedJob(w) = {}
  BY <1>5 DEF InsertedJob
<1>7. row2.depth = Depth[j]
  BY <1>4 DEF DepthInv, JobRowIsRequest
<1>8. Depth[j] \in Nat /\ DepthOf(w) \in 1..Depth[j]
  BY <1>1, RootTyped DEF AtHop, DepthOf
<1>9. dif >= 0
  BY <1>7, <1>8
<1>10. \A r \in TargetRows(w, dif) : r.job = j
  BY <1>4, <1>6 DEF TargetRows, JobRows
<1>11. ASSUME NEW r \in Copied(w, row1, dif) PROVE r \in log
  <2>1. PICK p \in TargetRows(w, dif) \X {l \in log : l.job = row1.job} :
          r = [job |-> p[1].job, url |-> p[2].url, depth |-> p[2].depth]
    BY <1>11 DEF Copied
  <2>2. p[2] \in log /\ p[2].job = j /\ p[1].job = j
    BY <2>1, <1>3, <1>10
  <2>3. p[2] \in LogRow
    BY <2>2 DEF TypeInv, TablesTyped
  <2>4. p[2] = [job |-> p[2].job, url |-> p[2].url, depth |-> p[2].depth]
    BY <2>3 DEF LogRow
  <2>5. QED
    BY <2>1, <2>2, <2>4
<1>12. QED
  BY <1>6, <1>9, <1>11

\* A crawler that writes a row writes it for the job of a live task.
LEMMA SettledStep ==
    ASSUME Separate, TypeInv, DepthInv, Count!CompletedMeansDone, [Next]_vars,
           NEW j \in Job, told[j] > 0
    PROVE  PagesOf(j)' = PagesOf(j)
<1>1. ASSUME NEW w \in Worker, step[w] # "none" PROVE JobOf(w) # j
  <2>1. pc[w] = "crawl" /\ cur[w] \in Task
    BY <1>1, CrawlTyped
  <2>2. Count!IsLive(cur[w])
    BY <1>1, <2>1 DEF Count!IsLive, Count!Uncounted
  <2>3. Count!Live(j) = {}
    BY DEF Count!CompletedMeansDone
  <2>4. QED
    BY <2>1, <2>2, <2>3 DEF Count!Live, Count!TasksOf, JobOf
<1>2. ASSUME NEW w \in Worker, AddsJob(w) \/ Inserts(w)
      PROVE  /\ \A r \in jobs' : r.job = j => r \in jobs
             /\ \A r \in log' : r.job = j => r \in log
             /\ jobs \subseteq jobs' /\ log \subseteq log'
  <2>1. JobOf(w) # j
    BY <1>1, <1>2 DEF AddsJob, Inserts
  <2>2. CASE AddsJob(w)
    BY <2>1, <2>2 DEF AddsJob, InsertedJob
  <2>3. CASE Inserts(w)
    BY <2>1, <2>3 DEF Inserts
  <2>4. QED
    BY <1>2, <2>2, <2>3
<1>3. ASSUME NEW w \in Worker, Copies(w) PROVE UNCHANGED <<jobs, log>>
  <2>1. JobOf(w) \in Job /\ \A r \in jobs \cup log : r.job \in Job
    BY <1>3, CrawlTyped DEF Copies, TypeInv, TablesTyped, JobRow, LogRow
  <2>2. Alone(JobOf(w))
    BY <2>1 DEF Separate, Alone
  <2>3. QED
    BY <1>3, <2>2, SeenIsOwn DEF Copies
<1>4. {r \in jobs' : r.job = j} = {r \in jobs : r.job = j}
      /\ {r \in log' : r.job = j} = {r \in log : r.job = j}
  BY <1>2, <1>3, DbStep DEF db
<1>5. QED
  BY <1>4 DEF PagesOf, JobRows

\* The export of a job that was announced as complete finds the same pages whenever
\* it looks: nobody writes a row for the job any more.
THEOREM AnnouncedPagesSettled ==
    ASSUME Faults \subseteq Count!FaultKinds, Faults \cap Count!UnsafeFaults = {},
           Separate, "insertFails" \notin CrawlFaults
    PROVE  Spec => PagesSettled
<1>1. TypeInv /\ DepthInv /\ Count!CompletedMeansDone /\ [Next]_vars
      => [\A j \in Job : told[j] > 0 => PagesOf(j)' = PagesOf(j)]_vars
  BY SettledStep
<1>2. Spec => []Count!CompletedMeansDone
  BY CrawlCompletionIsSafe
<1>3. Compatible /\ InTurn
  BY DEF Separate, Compatible, InTurn, SameRequest
<1>4. QED
  BY <1>1, <1>2, <1>3, TypeInvHolds, DepthInvHolds, PTL DEF Spec, PagesSettled
=============================================================================
