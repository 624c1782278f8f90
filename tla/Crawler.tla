------------------------------ MODULE Crawler ------------------------------
(***************************************************************************)
(* Crawler.add: what a crawler does with one task, over the tables url,    *)
(* job, link_log and links of Postgres, the URL locks and robots entries   *)
(* in Redis, and the broker.                                               *)
(*                                                                         *)
(* The counter protocol is that of JobCount: every action here is one of   *)
(* its actions with the data filled in, or leaves its variables alone.     *)
(* There is one action for each Redis command and each transaction, since  *)
(* other crawlers run in between.                                          *)
(*                                                                         *)
(* Rows that agree in all modelled columns are one row, and the targets of *)
(* a page's links are absolute as urljoin makes them. Norm is              *)
(* url_normalize: the tables url and link_log hold normalised URLs, links  *)
(* and sub-jobs hold them as written.                                      *)
(***************************************************************************)
EXTENDS Integers, FiniteSets, Functions

CONSTANTS Job, Task, Owner, Worker, NoTask, Faults,     \* as in JobCount
          Page,             \* normalised URLs
          Href,             \* URLs as written in a page or by the user
          Norm,             \* Norm[h]: the normal form of h
          Web,              \* Web[p]: the targets of the links of page p
          Root, Depth,      \* Root[j], Depth[j]: what the user asked for
          Delayed,          \* the pages whose robots.txt yields a crawl delay
          LinkSourceKnown,  \* links.sourceUrl_id is filled in: no source does so
          Ordered,          \* the broker hands out the tasks of a job in order
          Overlap,          \* a job may be submitted while another one runs
          CrawlFaults       \* the failures inside add() that may happen

\*   fetchFails    the page cannot be fetched: it is stored without links
\*   insertFails   insert_tbs hits a database error, and swallows it
\*   lookupFails   check_if_visited or depth_handler hits one, and swallows it
\*   raises        anything else raises inside the try of add()
CrawlFaultKinds == {"fetchFails", "insertFails", "lookupFails", "raises"}

ASSUME CrawlerAssumption ==
    /\ Task \subseteq Nat /\ IsFiniteSet(Task)
    /\ Owner \in [Task -> Job]
    /\ NoTask \notin Task
    /\ Page \subseteq Href /\ Norm \in [Href -> Page] /\ \A p \in Page : Norm[p] = p
    /\ Web \in [Page -> SUBSET Href] /\ \A p \in Page : IsFiniteSet(Web[p])
    /\ Root \in [Job -> Href] /\ Depth \in [Job -> Nat \ {0}]
    /\ Delayed \subseteq Page
    /\ LinkSourceKnown \in BOOLEAN /\ Ordered \in BOOLEAN /\ Overlap \in BOOLEAN
    /\ CrawlFaults \subseteq CrawlFaultKinds

VARIABLES
    counter, keys, place, pc, cur, subs, told,   \* as in JobCount
    work,     \* work[t]: the href and depth task t carries
    urls,     \* table url
    jobs,     \* table job; job_id is unique
    log,      \* table link_log: page url belongs to job, depth links from its root
    links,    \* table links
    locks,    \* the URLs that are keys in Redis (add_entry): being scraped
    robot,    \* robot[p]: Redis hash robot:<p>: none, nextcrawl ahead, or passed
    step,     \* step[w]: where in add() crawler w is
    mem       \* mem[w]: the local variables of add()

Count == INSTANCE JobCount

counting == <<counter, keys, place, pc, cur, subs, told>>
db == <<urls, jobs, log, links>>
local == <<step, mem>>
vars == <<counter, keys, place, pc, cur, subs, told,
          work, urls, jobs, log, links, locks, robot, step, mem>>

Work == [href : Href, depth : Nat]
JobRow == [job : Job, url : Page, depth : Nat]
LogRow == [job : Job, url : Page, depth : Int]
LinkRow == [src : Page, target : Href]
Steps == {"none", "robots", "ready", "present", "job", "url", "frontier", "depth",
          "scrape", "select", "insert", "unlock", "visited", "count"}

\* inRedis, jobInDb: as in add(); urlRow: existing_url of insert_tbs; found: the
\* targets extracted from the page; sub: sub_depth of check_url; out: the
\* sub-jobs to be sent.
Locals == [inRedis : BOOLEAN, jobInDb : BOOLEAN, urlRow : BOOLEAN,
           found : SUBSET Href, sub : Nat, out : SUBSET Work]
Blank == [inRedis |-> FALSE, jobInDb |-> FALSE, urlRow |-> FALSE,
          found |-> {}, sub |-> 0, out |-> {}]

TypeOK ==
    /\ Count!TypeOK
    /\ work \in [Task -> Work]
    /\ urls \subseteq Page
    /\ jobs \subseteq JobRow
    /\ log \subseteq LogRow
    /\ links \subseteq LinkRow
    /\ locks \subseteq Page
    /\ robot \in [Page -> {"none", "ahead", "passed"}]
    /\ step \in [Worker -> Steps]
    /\ mem \in [Worker -> Locals]
    /\ \A w \in Worker : step[w] # "none" <=> pc[w] = "crawl"

\* A task carries its job's root until it is made a sub-job.
Init ==
    /\ Count!Init
    /\ work = [t \in Task |-> [href |-> Root[Owner[t]], depth |-> Depth[Owner[t]]]]
    /\ urls = {} /\ jobs = {} /\ log = {} /\ links = {}
    /\ locks = {}
    /\ robot = [p \in Page |-> "none"]
    /\ step = [w \in Worker |-> "none"]
    /\ mem = [w \in Worker |-> Blank]

JobOf(w) == Owner[cur[w]]
DepthOf(w) == work[cur[w]].depth

\* The page of w's task: Crawler.__init__ normalises the URL.
UrlOf(w) == Norm[work[cur[w]].href]

\* SELECT ... FROM job WHERE job_id = j
JobRows(j) == {r \in jobs : r.job = j}
Unused(j) == {t \in Count!TasksOf(j) : place[t] = "unused"}

At(w, s) == pc[w] = "crawl" /\ step[w] = s
Goto(w, s) == step' = [step EXCEPT ![w] = s]
Set(w, m) == mem' = [mem EXCEPT ![w] = m]
Rest(w) == Goto(w, "none") /\ Set(w, Blank)

\* The next Redis command or transaction of add().
Advance(w, s) == Goto(w, s) /\ UNCHANGED counting

\* Mutants: an early return skips the "finally"; the locals are not reset.
FinishSkipsFinally(w) ==
    /\ pc[w] = "crawl" /\ pc' = [pc EXCEPT ![w] = "ack"] /\ Rest(w)
    /\ UNCHANGED <<counter, keys, place, cur, subs, told>>
FinishKeepsLocals(w) == Count!NoSubJobs(w) /\ UNCHANGED local

\* add() is over without sub-jobs: what is left is its "finally".
Finish(w) == Count!NoSubJobs(w) /\ Rest(w)

-----------------------------------------------------------------------------
(* Server and broker *)

\* The user asks for job j; its first task is pushed.
Submit(t) ==
    /\ Overlap \/ \A j \in Job \ {Owner[t]} : Count!Submitted(j) => told[j] > 0
    /\ \A u \in Count!TasksOf(Owner[t]) : t <= u
    /\ Count!Submit(t)
    /\ UNCHANGED <<work, db, locks, robot, local>>

PushToBroker(t) == Count!PushToBroker(t) /\ UNCHANGED <<work, db, locks, robot, local>>

Pull(w, t) ==
    /\ Ordered => \A u \in Count!TasksOf(Owner[t]) : place[u] = "queued" => t <= u
    /\ Count!Pull(w, t)
    /\ UNCHANGED <<work, db, locks, robot, local>>

-----------------------------------------------------------------------------
(* The beginning of add() *)

BadJob(w) == Count!BadJob(w) /\ UNCHANGED <<work, db, locks, robot, local>>

InitJobCount(w) ==
    /\ Count!InitJobCount(w)
    /\ Goto(w, "robots")
    /\ UNCHANGED <<work, db, locks, robot, mem>>

\* check_robot, robots.txt and add_robot. The entry is made for the page and not
\* for its host, so update_next_time, which looks for the host, finds none.
CheckRobot(w) ==
    /\ At(w, "robots")
    /\ robot' = IF robot[UrlOf(w)] = "none" /\ UrlOf(w) \in Delayed
                THEN [robot EXCEPT ![UrlOf(w)] = "ahead"] ELSE robot
    /\ Advance(w, "ready")
    /\ UNCHANGED <<work, db, locks, mem>>

\* Mutant: the crawler waits for the delay to pass.
CrawlWaits(w) ==
    /\ At(w, "ready") /\ robot[UrlOf(w)] # "ahead"
    /\ Advance(w, "present")
    /\ UNCHANGED <<work, db, locks, robot, mem>>

\* A page whose nextcrawl is ahead is given up, not postponed.
CrawlReady(w) ==
    /\ At(w, "ready")
    /\ \/ robot[UrlOf(w)] # "ahead" /\ Advance(w, "present") /\ UNCHANGED mem
       \/ robot[UrlOf(w)] = "ahead" /\ Finish(w)
    /\ UNCHANGED <<work, db, locks, robot>>

CheckIfPresent(w) ==
    /\ At(w, "present")
    /\ Set(w, [mem[w] EXCEPT !.inRedis = UrlOf(w) \in locks])
    /\ Advance(w, "job")
    /\ UNCHANGED <<work, db, locks, robot>>

\* A task as deep as its job's row is a duplicate and ends.
CheckJob(w) ==
    /\ At(w, "job")
    /\ LET rows == JobRows(JobOf(w))
           duplicate == \E r \in rows : r.depth = DepthOf(w)
       IN  \/ duplicate /\ Finish(w)
           \/ /\ ~duplicate
              /\ Set(w, [mem[w] EXCEPT !.jobInDb = rows # {}])
              /\ Advance(w, "url")
    /\ UNCHANGED <<work, db, locks, robot>>

-----------------------------------------------------------------------------
(* check_url, and the choice between the branches of add() *)

\* inserted_job: a row for w's job, if it has none.
InsertedJob(w) ==
    IF JobRows(JobOf(w)) = {}
    THEN {[job |-> JobOf(w), url |-> UrlOf(w), depth |-> DepthOf(w)]}
    ELSE {}

\* job_row: the inserted row, else the job's own (dif = 0) or, as the code has
\* it for dif > 0 and dif < 0, those of every job with this root.
TargetRows(w, dif) ==
    IF InsertedJob(w) # {} THEN InsertedJob(w)
    ELSE IF dif = 0 THEN JobRows(JobOf(w))
    ELSE {r \in jobs : r.url = UrlOf(w)}

\* Mutants: the copy from a deeper job stops one link early, or late.
CopiedTooFew(w, row1, dif) ==
    LET source == {l \in log : l.job = row1.job}
    IN  {[job |-> p[1].job, url |-> p[2].url, depth |-> p[2].depth] :
            p \in {q \in TargetRows(w, dif) \X source : q[2].depth < q[1].depth - 1}}
CopiedTooFar(w, row1, dif) ==
    LET source == {l \in log : l.job = row1.job}
    IN  {[job |-> p[1].job, url |-> p[2].url, depth |-> p[2].depth] :
            p \in {q \in TargetRows(w, dif) \X source : q[2].depth <= q[1].depth}}

\* The rows of link_log that are copied from the job of row1 to target.
Copied(w, row1, dif) ==
    LET source == {l \in log : l.job = row1.job}
    IN  {[job |-> p[1].job, url |-> p[2].url, depth |-> p[2].depth] :
            p \in {q \in TargetRows(w, dif) \X source :
                      \/ dif = 0
                      \/ dif > 0 /\ q[2].depth < q[1].depth /\ q[2].depth >= row1.depth
                      \/ dif < 0 /\ q[2].depth < q[1].depth - 1}}

\* The branches of add() after check_url; seen is taken when the page is known
\* but the job is not.
Branch(w, known, seen) ==
    \/ mem[w].inRedis /\ Finish(w)
    \/ /\ ~mem[w].inRedis
       /\ mem[w].jobInDb \/ ~known
       /\ Advance(w, "scrape")
       /\ UNCHANGED mem
    \/ ~mem[w].inRedis /\ ~mem[w].jobInDb /\ known /\ seen

\* The page is unknown, or known and not the root of any job.
CheckNewUrl(w) ==
    /\ At(w, "url")
    /\ \/ UrlOf(w) \notin urls
       \/ \A r \in log : r.url # UrlOf(w)
       \/ \A r \in jobs : r.url # UrlOf(w)
    /\ Branch(w, UrlOf(w) \in urls, Advance(w, "depth") /\ UNCHANGED mem)
    /\ UNCHANGED <<work, db, locks, robot>>

\* max(1, abs(dif))
SubDepth(dif) == IF -dif > 1 THEN -dif ELSE 1

\* It is the root of some job: what that job logged is copied. The queries take
\* an arbitrary row1 of link_log and row2 of job. If row2's job was shallower
\* than this one, the links of the copied pages come next (LinksOfLog).
CheckSeenUrl(w) ==
    /\ At(w, "url")
    /\ UrlOf(w) \in urls
    /\ \E row1 \in {r \in log : r.url = UrlOf(w)}, row2 \in {r \in jobs : r.url = UrlOf(w)} :
          LET dif == row2.depth - DepthOf(w)
          IN  /\ jobs' = jobs \cup InsertedJob(w)
              /\ log' = log \cup Copied(w, row1, dif)
              /\ \/ dif >= 0 /\ Branch(w, TRUE, Finish(w))
                 \/ /\ dif < 0
                    /\ Set(w, [mem[w] EXCEPT !.sub = SubDepth(dif)])
                    /\ Advance(w, "frontier")
    /\ UNCHANGED <<work, urls, links, locks, robot>>

\* check_if_visited: the targets, as written, that are not in table url.
Unvisited(targets) == targets \ urls

\* Mutant: a sub-job is as deep as its parent.
SubJobsSameDepth(targets, d) == {[href |-> h, depth |-> d + 1] : h \in targets}

SubJobs(targets, d) == {[href |-> h, depth |-> d] : h \in targets}

\* Sub-jobs are sent if there are any.
SendOrFinish(w, out) ==
    \/ out = {} /\ Finish(w)
    \/ out # {} /\ Set(w, [Blank EXCEPT !.out = out]) /\ Advance(w, "count")

\* The links of all pages logged for the job, joined on sourceUrl_id.
LinksOfLog(w) ==
    /\ At(w, "frontier")
    /\ LET logged == {r.url : r \in {l \in log : l.job = JobOf(w)}}
           rows == {l \in links : LinkSourceKnown /\ l.src \in logged}
           tbr == IF DepthOf(w) > 1
                  THEN SubJobs(Unvisited({l.target : l \in rows}), mem[w].sub) ELSE {}
       IN  \/ Branch(w, TRUE, SendOrFinish(w, tbr))
           \/ "lookupFails" \in CrawlFaults /\ Branch(w, TRUE, Finish(w))
    /\ UNCHANGED <<work, db, locks, robot>>

\* depth_handler: the job gets its row, its root no row in link_log; all links of
\* the page are sent.
DepthHandler(w) ==
    /\ At(w, "depth")
    /\ \/ /\ jobs' = jobs \cup InsertedJob(w)
          /\ LET rows == {l \in links : LinkSourceKnown /\ l.src = UrlOf(w)}
                 sent == IF DepthOf(w) > 1
                         THEN SubJobs({l.target : l \in rows}, DepthOf(w) - 1) ELSE {}
             IN  SendOrFinish(w, sent)
       \/ "lookupFails" \in CrawlFaults /\ Finish(w) /\ UNCHANGED jobs
    /\ UNCHANGED <<work, urls, log, links, locks, robot>>

-----------------------------------------------------------------------------
(* Scraping a page *)

\* Extractor fetches the page, then add_entry locks the URL.
Scrape(w) ==
    /\ At(w, "scrape")
    /\ \E targets \in {Web[UrlOf(w)]} \cup (IF "fetchFails" \in CrawlFaults THEN {{}} ELSE {}) :
          Set(w, [mem[w] EXCEPT !.found = targets])
    /\ locks' = locks \cup {UrlOf(w)}
    /\ Advance(w, "select")
    /\ UNCHANGED <<work, db, robot>>

\* insert_tbs looks for the url row ...
SelectUrl(w) ==
    /\ At(w, "select")
    /\ Set(w, [mem[w] EXCEPT !.urlRow = UrlOf(w) \in urls])
    /\ Advance(w, "insert")
    /\ UNCHANGED <<work, db, locks, robot>>

\* Mutant: the page is logged at the depth still to go.
InsertDepthToGo(w) ==
    LET row == [job |-> JobOf(w), url |-> UrlOf(w), depth |-> DepthOf(w)]
    IN  /\ At(w, "insert")
        /\ urls' = urls \cup {UrlOf(w)}
        /\ jobs' = jobs \cup (IF mem[w].jobInDb THEN {} ELSE {row})
        /\ log' = log \cup {row}
        /\ links' = links \cup {[src |-> UrlOf(w), target |-> h] : h \in mem[w].found}
        /\ Advance(w, "unlock")
        /\ UNCHANGED <<work, locks, robot, mem>>
\* ... and inserts everything in one transaction, which fails if meanwhile someone
\* else inserted the url, or the job. add() does not learn about it.
InsertTbs(w) ==
    LET row == [job |-> JobOf(w), url |-> UrlOf(w), depth |-> DepthOf(w)]
        new == IF mem[w].jobInDb THEN {} ELSE {row}
        conflict == \/ ~mem[w].urlRow /\ UrlOf(w) \in urls
                    \/ ~mem[w].jobInDb /\ JobRows(JobOf(w)) # {}
    IN  /\ At(w, "insert")
        /\ \/ /\ ~conflict
              /\ urls' = urls \cup {UrlOf(w)}
              /\ jobs' = jobs \cup new
              /\ log' = log \cup {[row EXCEPT !.depth = r.depth - DepthOf(w)] :
                                    r \in JobRows(JobOf(w)) \cup new}
              /\ links' = links \cup {[src |-> UrlOf(w), target |-> h] : h \in mem[w].found}
           \/ (conflict \/ "insertFails" \in CrawlFaults) /\ UNCHANGED db
        /\ Advance(w, "unlock")
        /\ UNCHANGED <<work, locks, robot, mem>>

\* Mutant: the lock is removed under the URL as written.
UnlockRaw(w) ==
    /\ At(w, "unlock")
    /\ locks' = locks \ {work[cur[w]].href}
    /\ \/ DepthOf(w) > 1 /\ Advance(w, "visited") /\ UNCHANGED mem
       \/ DepthOf(w) <= 1 /\ Finish(w)
    /\ UNCHANGED <<work, db, robot>>

\* The page can be locked again: remove, and the test of the depth.
Unlock(w) ==
    /\ At(w, "unlock")
    /\ locks' = locks \ {UrlOf(w)}
    /\ \/ DepthOf(w) > 1 /\ Advance(w, "visited") /\ UNCHANGED mem
       \/ DepthOf(w) <= 1 /\ Finish(w)
    /\ UNCHANGED <<work, db, robot>>

CheckIfVisited(w) ==
    /\ At(w, "visited")
    /\ \/ SendOrFinish(w, SubJobs(Unvisited(mem[w].found), DepthOf(w) - 1))
       \/ "lookupFails" \in CrawlFaults /\ Finish(w)
    /\ UNCHANGED <<work, db, locks, robot>>

-----------------------------------------------------------------------------
(* The end of add() *)

\* The first n unused tasks of job j: Task bounds how many sub-jobs there are.
Fresh(j, n) == {t \in Unused(j) : Cardinality({u \in Unused(j) : u < t}) < n}

IncJobCount(w) ==
    LET out == mem[w].out
        S == Fresh(JobOf(w), Cardinality(out))
        orders == Bijection(S, out)
    IN  /\ At(w, "count")
        /\ Cardinality(S) = Cardinality(out)
        /\ Count!IncJobCount(w, S)
        /\ \E carried \in IF Ordered THEN orders ELSE {CHOOSE f \in orders : TRUE} :
              work' = [t \in Task |-> IF t \in S THEN carried[t] ELSE work[t]]
        /\ Rest(w)
        /\ UNCHANGED <<db, locks, robot>>

\* Mutant: an exception skips the "finally".
RaiseSkipsFinally(w) ==
    /\ "raises" \in CrawlFaults
    /\ FinishSkipsFinally(w)
    /\ UNCHANGED <<work, db, locks, robot>>

\* An exception anywhere in the try: no sub-jobs, and the lock stays.
Raise(w) ==
    /\ "raises" \in CrawlFaults
    /\ Finish(w)
    /\ UNCHANGED <<work, db, locks, robot>>

\* The steps that are JobCount's alone.
AfterCrawl(w) ==
    /\ \/ Count!SendToBroker(w)
       \/ Count!DecJobCount(w)
       \/ Count!PublishCompleted(w)
       \/ Count!DeleteCount(w)
       \/ Count!Ack(w)
    /\ UNCHANGED <<work, db, locks, robot, local>>

Crash(w) == Count!Crash(w) /\ Rest(w) /\ UNCHANGED <<work, db, locks, robot>>

-----------------------------------------------------------------------------
\* Time: nextcrawl passes, the robots entry expires after an hour.
DelayPasses(p) ==
    /\ \/ robot[p] = "ahead" /\ robot' = [robot EXCEPT ![p] = "passed"]
       \/ robot[p] = "passed" /\ robot' = [robot EXCEPT ![p] = "none"]
    /\ UNCHANGED <<counting, work, db, locks, local>>

Step(w) ==
    \/ BadJob(w) \/ InitJobCount(w)
    \/ CheckRobot(w) \/ CrawlReady(w) \/ CheckIfPresent(w) \/ CheckJob(w)
    \/ CheckNewUrl(w) \/ CheckSeenUrl(w) \/ LinksOfLog(w) \/ DepthHandler(w)
    \/ Scrape(w) \/ SelectUrl(w) \/ InsertTbs(w) \/ Unlock(w) \/ CheckIfVisited(w)
    \/ IncJobCount(w) \/ Raise(w) \/ AfterCrawl(w)

Next ==
    \/ \E t \in Task : Submit(t) \/ PushToBroker(t)
    \/ \E w \in Worker : \/ \E t \in Task : Pull(w, t)
                         \/ Step(w)
                         \/ Crash(w)
    \/ \E p \in Page : DelayPasses(p)

Spec == Init /\ [][Next]_vars

\* As in JobCount.
Fairness ==
    /\ WF_vars(\E t \in Task : PushToBroker(t))
    /\ WF_vars(\E w \in Worker, t \in Task : Pull(w, t))
    /\ \A w \in Worker : WF_vars(Step(w))

FairSpec == Spec /\ Fairness

-----------------------------------------------------------------------------
(* Properties *)

Targets(p) == {Norm[h] : h \in Web[p]}

\* The ways of k links that start at page p.
Walks(p, k) ==
    {f \in [0..k -> Page] : f[0] = p /\ \A i \in 1..k : f[i] \in Targets(f[i - 1])}

\* The pages that are exactly k links away from p, tabulated for the depths asked for.
HopTable ==
    [p \in Page |-> [k \in UNION {0..Depth[j] : j \in Job} |-> {f[k] : f \in Walks(p, k)}]]
Hops(p, k) == HopTable[p][k]

RootOf(j) == Norm[Root[j]]

\* What the export of job j selects, FROM job UNION link_log. The root is in it
\* twice, at the job's depth and at depth 0.
PagesOf(j) ==
    {[url |-> r.url, depth |-> r.depth] : r \in JobRows(j)}
        \cup {[url |-> r.url, depth |-> r.depth] : r \in {l \in log : l.job = j}}

Covered(j) == {r.url : r \in PagesOf(j)}

\* A job announced as complete has every page its depth asks for: all that are
\* fewer than Depth[j] links away from its root. check_if_visited, the URL locks
\* and the copied logs must not cut off pages that are still to be expanded.
CompleteCrawl ==
    \A j \in Job : told[j] > 0 =>
        \A k \in 0..(Depth[j] - 1) : Hops(RootOf(j), k) \subseteq Covered(j)

\* link_log is honest: a page logged at depth d is d links away from the job's
\* root, within the requested depth.
LoggedAtHop ==
    \A r \in log : /\ r.depth \in 0..(Depth[r.job] - 1)
                   /\ r.url \in Hops(RootOf(r.job), r.depth)

\* A sub-job never goes beyond the depth the user asked for: depth plus distance
\* is constant, however often a page is crawled, re-sent or copied.
SubJobAtHop ==
    \A t \in Task : place[t] # "unused" =>
        LET j == Owner[t] IN
        /\ work[t].depth \in 1..Depth[j]
        /\ Norm[work[t].href] \in Hops(RootOf(j), Depth[j] - work[t].depth)

\* The job row, by which duplicates are found, depths are computed and the export
\* is started, is that of the user's request and not of a sub-job.
JobRowIsRequest == \A r \in jobs : r.url = RootOf(r.job) /\ r.depth = Depth[r.job]

\* A locked URL is being scraped. The locks do not expire: one left behind shuts
\* its page off from every later job.
LockMeansScraping ==
    \A p \in locks :
        \E w \in Worker : (\E s \in {"select", "insert", "unlock"} : At(w, s)) /\ UrlOf(w) = p

\* Once a job is announced its pages stay what they are: it makes no difference
\* when the export looks.
PagesSettled == [][\A j \in Job : told[j] > 0 => PagesOf(j)' = PagesOf(j)]_vars

\* Every step is one of the counter protocol, whatever fails: what JobCount
\* shows of completion holds of the crawl.
CountSpec == Count!Spec

\* Every crawl ends and is announced: links in circles, duplicates and pages that
\* vanish do not keep a job alive, and no task waits for a page another one locks.
CrawlEnds == \A j \in Job : Count!Submitted(j) ~> told[j] > 0
=============================================================================
