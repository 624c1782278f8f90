# Web-Swab: a verification development

TLA+ models of Web-Swab, a crawler made of a terminal client (Go), a WebSocket
server (Go), a task broker (external), crawler processes (Python), Redis and
Postgres. The models are checked with TLC on small instances; the central results
are also proved with TLAPS for every value of the constants.

Contents: [the system](#the-system), [plan](#plan), [modules](#modules),
[runs](#runs), [proofs](#proofs), [findings](#findings),
[limits](#what-is-abstracted-and-what-is-left-out).

## The system

The client sends a job `{id, url, depth}` to the server. The server puts a counter
for it into Redis, pushes it as a task to the broker and subscribes the client to
the job's Redis channel. Crawlers pull tasks in batches over TCP. For each one,
`Crawler.add` fetches a page, stores it in Postgres and pushes a sub-job for each
link while there is depth to go. Every task decrements the counter in the end. The
one that brings it to zero publishes "completed successfully" on the channel, upon
which the server exports everything stored for the job as a zip to the client.

| Component | State | Operations | Hard part | What makes it correct |
|---|---|---|---|---|
| Completion counter (`caching.py`, `subscriber.go`, end of `crawler.py`) | Redis `job:<id> count` | HSETNX by server and crawler, HINCRBY +n and -1, DEL, PUBLISH | several processes, any of which fails or dies between two commands; errors are swallowed | completion is announced once, after the last task, and in the end |
| `Crawler.add` (`crawler.py`, `jobrepository.py`, `caching.py`) | tables `url`, `job`, `link_log`, `links`; URL locks; robots entries | robots check, duplicate check, copy of another job's log, scrape, sub-jobs | a task is a dozen separate transactions and Redis commands, and other crawlers run in between | a completed job has every page its depth asks for, logged at its true depth; no sub-job goes too deep |
| Page extractor (`extractor.py`) | none | fetch, parse | fails silently | - |
| Broker connection (`socket_client/server.py`) | queue, `pull_event`, `running`, four coroutines | pull, heartbeat, process a batch, acknowledge, close | coroutines that wait for each other, a connection that breaks in the middle of a batch | one PULL outstanding, no ACK without work, the process ends when the connection does |
| WebSocket server (`websockets/server.go`) | subscribers by key, message channels, job id channel | subscribe, readLoop, re-key, send, delete | four kinds of goroutines over one map and channels with a bound; the second job of a connection | a connection gets its jobs' messages, in order, and no others; a connection's goroutines and those of its active job end with it |
| Redis log subscriptions (`subscriber.go`) | cancel functions by job | Subscribe, Unsubscribe, Close | subscribed before or after the job is pushed; lines that Redis or go-redis drops | the subscription of the active job ends with its connection |
| Export (`exporter.go`, `server.go`, `text_input.go`) | rows queried, frames under way, chunks received | BuildZip, stream, assemble, save | a query over tables other jobs write to; frames among log lines | every page of the job is in the archive; "download complete" only for the whole archive |
| Client loops (`client.go`) | `SendChan`, `LogChan`, `quitch` | sendLoop, listener, shutdown | one loop ends while the other is busy; sends without a receiver | both end, no event is lost |
| Client UI (`text_input.go`, `log_panel.go`) | form, log lines, scroll offset | Update, Push, scroll, resize | offset, height and lines change independently | the slice drawn is within the lines, one focused input |
| Broker (not in the repository) | tasks and leases | ingest, PULL, TACK, HEARTBEAT | redelivery | - |
| Configuration, connections, message types, server repositories | none that changes | - | - | - |

The components share the broker (tasks), Redis (counter, locks, robots entries,
log channel) and Postgres (tables). No two of them share memory; within the crawler
process four coroutines and their threads do, and within the server goroutines.

`PROJECT.json` lists the hazards, with the line where each one bites and the
property that would catch it.

## Plan

1. `Completion`, `JobCount`, `JobCountProofs`: the completion counter, the protocol
   everything else hangs on. *Modelled, checked, proved.*
2. `Crawler`, `CrawlerProofs`: `Crawler.add` over its tables, as an instance of
   `JobCount`. *Modelled, checked; the refinement, the types, the locks, the depths
   and, in `ArchiveProofs`, completeness are proved.*
3. `BrokerClient`, `BrokerClientProofs`: the crawler's connection. *Modelled, checked;
   its safety properties are proved.*
4. `Delivery`, `LogStream`, `LogStreamProofs`: the server's subscribers, the Redis
   subscriptions and the streams of messages. *Modelled, checked, proved.*
5. `Chunks`, `Export`, `Session`, `SessionProofs`: the archive as frames, on the wire
   and through the server's channels to a file. *Modelled, checked; the refinement and
   the safety are proved.*
6. `Archive`, `ArchiveProofs`: what `BuildZip` finds in the crawlers' tables.
   *Modelled, checked, proved.*
7. `WsClient`, `WsClientProofs`; `ClientUI`, `ClientUIProofs`: the terminal client.
   *Modelled, checked; the safety properties are proved.*

## Modules

### Completion

The abstract specification: a job has a set of live tasks and a phase. While it is
active, live tasks beget others or end; `Complete` needs an empty set; nothing
revives a job without live tasks, or a completed one.

### JobCount

One action for each Redis command or broker call that touches the counter.

| Variable | In the code |
|---|---|
| `counter[j]`, `keys` | field `count` of hash `job:<j>`, and whether the hash exists (0 if not: HINCRBY creates it) |
| `place[t]` | where a task is: the server's POST, counted and unsent, in the broker, pulled, gone |
| `pc[w]`, `cur[w]`, `subs[w]` | the position of crawler `w` in `process_job`/`add`, its task, the sub-jobs it has counted |
| `told[j]` | how often "completed successfully" was published |

`Submit` is `readLoop` (HSETNX, then the goroutine `PushToBroker`), `Pull` to `Ack`
are `process_job`, `jobhandler` and the beginning and end of `add`. Between them a
task ends without sub-jobs (`NoSubJobs`) or with some (`IncJobCount`,
`SendToBroker`). `dec_job_count_and_check` is three actions, `DecJobCount`,
`PublishCompleted` and `DeleteCount`, since a crash or another crawler may come in
between. A batch is modelled by its first unprocessed task: the others count as
queued, as nothing else can be told from the counter.

`Faults` is a set of failures the code swallows; each is a disjunct of the action
that meets it. Three of them (`UnsafeFaults`: `initFails`, `incFails`, `redeliver`)
let the counter fall below the number of tasks, so that completion is announced
early. The safety properties are about all others. No clever interleaving is needed
for these: `inc_job_count` swallows its error and the
sub-jobs go out uncounted, and a task redelivered after its -1 subtracts twice.

### Crawler

`Count == INSTANCE JobCount` shares the variables of the protocol; every action is
one of `JobCount`'s with the data filled in (`Submit`, `IncJobCount`, `Finish` =
`NoSubJobs`, ...) or leaves its variables alone. That is a theorem
(`CrawlerImplementsCount`) and a run (`CountSpec`).

The position within `add` is `step[w]`, its local variables are `mem[w]`:

    robots -> ready -> present -> job -> url -+-> frontier (links of a copied log)
(check_robot, crawl_ready,              +-> depth    (depth_handler)
check_if_present, check_job,           +-> scrape -> select -> insert -> unlock ->
visited        check_url)                             +-> end            then: count ->
send

| Variable | In the code |
|---|---|
| `urls`, `jobs`, `log`, `links` | the tables `url`, `job`, `link_log`, `links`, with the columns that queries read |
| `locks` | the keys `add_entry` sets and `remove` deletes |
| `robot[p]` | hash `robot:<p>`: none, `nextcrawl` ahead, passed |
| `work[t]` | the URL as written and the depth of a task |

`check_url` is `CheckNewUrl` (nothing to copy), or `CheckSeenUrl` and, when the other
job was shallower, `LinksOfLog`. Its queries take the first row of an unordered
result: `\E row1, row2`. The copy targets of `job_row` are `TargetRows`, with the
fallback on `url_id` for unequal depths as in the code. `insert_tbs` is two actions:
the SELECT for the url row, and the transaction that fails when somebody inserted it
meanwhile.

### BrokerClient

The four coroutines of `BrokerClient` (`reader`, `writer`, `puller`, `beater`), each
action what one of them does between two awaits; the ends of blocking calls are
actions. The messages on the wire are two sequences. The broker is external: it
answers in order, leases tasks to a batch, and rejects the ACK of a task that is not
leased. `Trouble` selects what goes wrong: the connection breaks (what is on its way
arrives in part), the broker rejects a heartbeat or gives up on a task, a batch is
malformed. `Restart` starts a new process with the broker's leases returned.

### Delivery and LogStream

`Delivery` is the abstract specification: each stream of messages (a job's log, the
frames of its export) belongs to one connection, which gets some of its messages, in
the order in which they were sent, each once. `LogStream` is the server.

| Variable | In the code |
|---|---|
| `loop[c]`, `reader[c]` | the loop of `subscribe()` and `readLoop` of connection `c` |
| `id[c]`, `active[c]`, `jobIDChan[c]`, `readErr` | the locals `id` and `activeJobID`, and the channels between the two |
| `subscribers` | the map from keys to subscribers; a connection is its own first key |
| `box[c]`, `taken[c]`, `received[c]` | all that was put into `msgs`, what the loop took out of it, what the client has; `Len(box) - taken` is the fill of the channel |
| `submitted`, `pushing`, `pushed` | the jobs clients have sent, those with a goroutine in `PushToBroker`, those the broker has |
| `cancels`, `stream[j]`, `feed[j]` | `LogSubscriber.cancels`, the goroutine of a subscription, the lines it has not handled |
| `exporter[j]`, `at[s]`, `to[s]` | the goroutine of `ExportJob`; the call of `SendToSubscriber` in stream `s`: its message and the subscriber it has looked up |

`SendToSubscriber` is two actions, `LookUp` and `Put` or `TimesOut`: between the
unlock of the map and the place in the channel the subscriber may be re-keyed, or
gone. `Return` is `subscribe()` with its deferred calls, in the order they run. The
loop's `select` is `Loop`, any of its ready cases. `Receive` is `readLoop` from
`Read` to the `go` statement: the id goes to `jobIDChan`, or nowhere when another one
waits, and the goroutine that pushes the job is started. `PushToBroker` is that
goroutine: it comes before or after the subscription, or fails, which is only logged.
Lines are published of jobs the broker has. The counter, set in between, is
`JobCount!Submit`. `Trouble` selects what goes wrong: the client leaves or is slow, a
push fails, Redis drops a line, `BuildZip` fails.

### Chunks, Export and Session

`Chunks` is the arithmetic of `StreamZipOverWebSocket` and of `EXPORT_END`: bytes are
their positions, so a gap, an overlap or a wrong order is a different sequence.
`Export` is one archive on a wire that may lose frames, and its assembly by
`model.Update`. `Session` puts the UI's end of it (`Update`) behind `LogStream` and
shows (`ExportSpec`) that the server's channels, with log lines in between, are such
a wire.

### Archive

One action over the tables of `Crawler`, `BuildZip`: the query for the pages of a job
(`PagesOf`), at any time after the announcement, with crawlers at work on other jobs.
The outbound links of the manifest are not modelled. They are joined on
`links."sourceUrl_id"`, which nothing fills in, so there are none; and their targets
are as the page has them, so that a relative one would be no page's file
(`extractor.py:71`, `exporter.go:177`).

### WsClient

`sendLoop` and `listener`, each action what one of them does up to its next channel
or socket operation. A goroutine can receive from an unbuffered channel only when it
is parked (`Park`), which is what makes the listener's non-blocking `quitch` miss.
Submissions are goroutines of their own that wait at `SendChan`.

### ClientUI

`Update` with one action per key or message: the panel (`LogEvent`, `ScrollUp`,
`ScrollDown`, `WindowSize`) and the form (`Type`, `Up`, `Down`, `Submit`). Texts are
what the code asks of them: whether the URL is empty, and what the depth reads as
(`asked` is what was submitted).

### MC modules

`MCJobCount`, `MCCrawler`, `MCArchive`, `MCLogStream` and `MCSession` give the
constants their values. The others take theirs from the `.cfg`.

## Runs

| Run | Instance | Shows |
|---|---|---|
| `jobcount_faults` | 1 job, 4 tasks, 2 crawlers, all faults but the unsafe ones | `CompletedMeansDone`, `CompletedOnce`, `CounterCoversLive`, refinement of `Completion` |
| `jobcount_live` | 2 jobs (3 and 2 tasks), 2 crawlers, no fault, fair | `CounterExact`, `NoStaleKey`, `EventuallyCompleted` |
| `archive_whole` | 3 jobs for one root, of depths 3, 3 and 2, and one of depth 1 for a page it links to, each after the announcement of those before and none deeper than an earlier one; 1 crawler, tasks in any order, archives at any time after the announcement | `LoggedAtHop` across copied logs; `ArchiveWhole` |
| `crawler_pair` | 2 crawlers, 2 jobs (3 and 7 tasks) one after the other in either order, for one root in two spellings, depths 2 and 3; tasks in any order, pages found by several of them; a page with a crawl delay that passes at any time or never; failing lookups; fair | `LoggedAtHop`, `LockMeansScraping`, `CrawlEnds` |
| `crawler_faults` | a job of depth 3 (4 tasks) and one of depth 1 for a page that it meets, one after the other in either order; 1 crawler, failures in `add`, Redis, broker and process | `SubJobAtHop`, `CountSpec` |
| `crawler_race` | 2 crawlers, a page at two depths | `CompleteCrawl` **violated**, see [findings](#findings) |
| `archive_deeper` | 2 jobs for one root, depths 2 and 3, the second after the first; 1 crawler, no failure | `ArchiveWhole` **violated**, see [findings](#findings) |
| `brokerclient_trouble` | 2 tasks, batches of 2, 1 restart, all trouble, fair | `PullToken`, `AckedMeansProcessed`, `AtMostOncePerProcess`, `LossEndsProcess`, `AllProcessed` |
| `logstream_trouble` | 1 connection, 2 jobs of 2 lines, archives of 1 frame, a channel of 1, all trouble, fair | `OneEntry`, `Unsubscribed`, refinement of `Delivery`, `GoroutinesEnd` |
| `session_file` | 1 job, an archive of 3 chunks, a channel of 2, a client that leaves, lines dropped, builds that fail, fair | `SuccessIsWhole`, refinement of `Export`, `FileArrives` |
| `wsclient_loops` | 2 submissions, 4 events, `LogChan` of 2, a connection that breaks, fair | `LoopsEnd`, `EventsHandled` |
| `clientui_safe` | 20 lines, heights with panels of different sizes, an unreadable and two readable depths | `WindowInside`, `FocusFollows` |

**Bounds.** `Task` bounds the sub-jobs of a job: an action that would need more tasks
than are left is disabled. In `crawler_race` it exceeds what the web needs. In
`archive_whole` one of the two deepest requests has tasks for its sub-jobs, and more
than it needs; the others have one each, which is enough when they come later, and where
the other deepest one comes first its crawl stops, which is the same instance under
another name. In `crawler_pair` it is as much as the web needs when no page is crawled
again for nothing: `CrawlEnds` confirms that no crawl is cut off there, since a blocked
one would never be announced. In `crawler_faults`, which has only safety properties, it
leaves no task for pages that are crawled again while all others were as well; a page
that a crash leaves uncrawled makes room for them. Four tasks on two crawlers give the
counter every pattern that matters: siblings that end in either order, a child that ends
before its parent, a last task that crashes.

`archive_whole` has the relations of two requests in which what is known is all that is
asked for: equal, shallower than the one before, and of depth 1 for a page that was met
(`depth_handler`). A deeper one is `archive_deeper`. In `crawler_pair` both crawlers are
at work on one page at once (A is linked from R and from B, which itself is a link of
R), one of them loses the insert of its row, tasks find their URL locked, a page is
logged at two depths, the second job copies the first one's log or part of it, and a
task that is back at the root under its other spelling takes the rows of `job_row` by
`url_id`, of which there is one then. What does not occur there is a conflict on the row
of a job, and `job_row` with rows of two jobs: the properties these endanger are proved
only, under hypotheses that exclude them (see [proofs](#proofs)). In `crawler_race` a
page is found at two distances, and what lies beyond it is within the requested depth
only by the shorter way.

`MaxBatch = 2` makes a batch that is partly processed, `MaxBeats = 1` lets a heartbeat
stand anywhere between ACKs and PULLs, one restart gives every task a second process.
With two jobs on one connection the first is re-keyed at every point of its lines and
its export, and each is pushed at every point of its subscription; a channel of one is
full after each message. Three chunks, the last of them partial, make a first, a middle
and a last one, and two places for five frames a channel that fills and drains. A second
connection would multiply the states and add only what the theorems of `LogStreamProofs`
say for any number: nobody gets what is another's. 20 lines exceed the smallest panel,
so that all three cases of `ScrollUp` occur. All runs are without deadlock checking,
since each system is meant to come to rest: all jobs done, or all processes ended.

**Fairness.** `JobCount` and `Crawler`: the server's goroutine runs, a process that
holds a task goes on with it (threads and timeouts on all calls), and the broker
hands a queued task to some idle crawler, because an idle crawler always has a PULL
outstanding, which is what `BrokerClient!PullToken` shows. No fairness on crashes,
time or submission. `BrokerClient`: asyncio runs each ready coroutine, `recv` and
`sendall` return once the connection is gone, `jobhandler` returns, and the broker
answers. There is no fairness on trouble, arrivals or restarts. `LogStream` and
`Session`: each goroutine is fair by itself (the two of a connection, and of a job the
push, the subscription and the export); a `select` takes some ready case;
`SendToSubscriber` puts its message or gives up, by its timer. There is none on
clients: whether they submit, read or leave. `Session` adds that the crawl goes on,
which is `EventuallyCompleted` of `JobCount`, and that the UI handles its events, as
each `Update` issues the next `waitForServerEvent`. `WsClient`: the two goroutines and
the UI run on; `Read` and `Write` return when the connection or their context ends.

Each property has a mutant in `PROJECT.json`, an operator of the module that changes
one definition the way a bug would; it stands before the definition it changes.

## Proofs

`JobCountProofs` proves, for all jobs, tasks, crawlers:

* `TypeCorrect`: `Spec => []TypeOK`, whatever fails;
* under `NoUnsafeFaults` (`Faults \cap UnsafeFaults = {}`): `CompletionIsSafe`
  (`CompletedMeansDone`), `CompletionIsUnique` (`CompletedOnce`), `CounterIsSafe`
  (`CounterCoversLive`), and `Refinement` (`Spec => CompletionSpec`).

The argument. None of the safety properties is inductive: that a zero means "no task
left" needs the counter to bound the number of live tasks, and that needs each live
task to be known in exactly one place. The inductive invariant `IInv` has these parts:

* `HoldInv`: a crawler that is not idle holds a task, which the broker has handed out
  and nobody else holds;
* `SubsInv`: counted and unsent sub-jobs belong to the job of the one crawler that is
  about to send them;
* `CountInv`: `CounterCoversLive`; a key belongs to a submitted job; it exists for
  every task that has passed `InitJobCount`;
* `PublishInv`: who is about to publish or delete does so for a job without live
  tasks, and of those who publish there is one, who has not done so before;
* `ToldInv`: a job that was announced has no live task.

The lemmas `SubmitLive` to `CrashLive` say for each action how it changes the sets of
live tasks (a task added, one removed, a set added, none), `TaskSets` takes the
cardinalities from the library's theorems on finite sets, and the lemmas `InvSubmit`
to `InvCrash`, put together in `InvStep`, only compare them with the counter.

The assumption on faults is needed: TLC finds an early announcement with `incFails`
alone, with `redeliver` after a `lateCrash`, and with `initFails` when the server had
no Redis either (`noSubscriber`).

`CounterIsExact` (`CounterExact`) needs `NoLostCount`: the failures that leave no task
uncounted and subtract none twice are a server without Redis and a crawler that dies
after its -1. `NoKeyLeftBehind` (`NoStaleKey`) is about a system in which nothing fails,
with the exception of the server's own HSETNX (`noSubscriber`): a task that is lost or not
subtracted, a failing decrement, or a crash before the DEL leave the key. `KeyInv` says
that a key without a live task is one that its job's last crawler is about to delete.
`IncCounts` and `DecCounts` compare an HINCRBY with the change of the set of live tasks.

`CrawlerProofs` proves `CrawlerImplementsCount` (`Spec => CountSpec`, one step per
action of `Crawler`), without assumption on the failures. From it and
`CompletionIsSafe` follows, with its assumption, `CrawlCompletionIsSafe`: in a crawl,
too, completion is announced only when no task is left.

It proves `CrawlTypeCorrect` (`TypeOK`, whatever fails) and
`LocksAreGivenBack` (`LockMeansScraping`, without `raises` and `crash`: either leaves a
lock behind, which is a hazard). The lemmas `InitMoves` to `CrashMoves` say once for
each action where it takes its crawler, and what it does to its locals. `TypeInv` adds to
`TypeOK` that a busy crawler holds a task that was created (`Basis`, from
`JobCountProofs`) and, at each step, which locals are set. That depths stay natural
numbers is the hard part, as `check_url` subtracts them from each other.

And it proves, for every web, that depth and distance from the root add
up: `SubJobsKeepDepth` (`SubJobAtHop`), `LogIsHonest` (`LoggedAtHop`) and
`JobRowsAreRequests` (`JobRowIsRequest`), with any of the failures of `Faults`. The site
of a job is the pages it may come to. The hypotheses exclude what
[findings](#findings) describes:

* `Compatible`: jobs whose sites overlap ask for the same root and depth. Otherwise
  `check_url` copies the rows of one job to another at the wrong depths.
* `InTurn`: no page belongs to two sites (`Separate`), or jobs run one after the other
  (`~Overlap`, where a job that was announced has no task left: no unsafe faults).
  Otherwise a task of the second job may find its page known before either has a row.
* `insertFails` does not occur: a transaction that fails after the url row and before
  the job's lets a sub-job make the row of its job.

`AnnouncedPagesSettled` (`PagesSettled`: nobody writes a row for a job that was
announced) needs `Separate` and the assumption of `CompletionIsSafe`. It and
`JobRowIsRequest` are in no run: an instance that would put them at risk has two jobs at
work on a page, and there they fail (see [findings](#findings)). For jobs that share
pages and differ in depth `LoggedAtHop` is only model-checked, in `archive_whole` and
`crawler_pair`. The inductive invariant `DepthInv`:

* `WorkInv`: a task is at its depth, and only the first one comes before its job's row;
* `LinkInv`: the stored links are those of the page;
* `LocalInv`: a crawler's sub-jobs, links and `job_in_db` are what the rows say, and a
  page that is about to be stored for a job without a row is unknown;
* `JobRowIsRequest` and `LoggedAtHop`.

`OneAtATime` (of two jobs whose sites overlap one has no live task) is what `InTurn`
gives. With `Compatible` a page that `check_url` finds known is then of a job that made
the same request and is done (`SeenIsSame`). `Hops(p, k)` are the ends of the walks of
`k` links from `p`: walks are functions, so that a longer one is made from a shorter one
(`HopStep`) without induction.

`ArchiveProofs` proves that nothing is missing: `CrawlIsComplete` (`CompleteCrawl`) and
`ArchiveIsComplete` (`ArchiveWhole`), for every web, every number of jobs and every
depth. `Undisturbed` is the hypothesis, and it excludes what breaks completeness or what
the argument does not cover: one crawler and `Ordered` (else the race of `crawler_race`,
or its like with one crawler); no crawl delay and no failure inside `add()` (either
drops pages); only those `Faults` that lose no task and none of its sub-jobs (a server
without Redis, a failing decrement, a crash after the decrement); `Compatible`; and
`Separate` or no overlap in time. Jobs may still repeat a request, and are then copied.
The argument:

* The crawl goes breadth first (`QueueInv`): a counted sub-job has a crawler that will
  send it (`SentInv`), a job has one task while its first is being pushed
  (`FirstInv`), tasks are used in their order and only the first is as deep as the job
  (`LowerInv`), those that are to come are in the order of their distance from the root
  and at most one link apart in it (`BreadthInv`), and the current one is the first of
  them (`FrontInv`). `OutInv` says of sub-jobs that are not tasks yet how deep they are.
* `add()` takes its course (`CourseInv`): what a crawler knows is so when it uses
  it (`KnownInv`), no page waits (`ReadyInv`), tables `url`, `job` and `link_log` agree
  (`RowInv`), a first task is not taken for a duplicate (`NewInv`), a job with a row is
  alone with its pages (`LoneInv`). `CourseStep` lists the steps that can
  happen then.
* What is owed to a job is promised (`OweInv`): its root, and each link of a page it has
  logged, is itself logged no farther from the root, or a task or a sub-job that is still
  to be done will see to it (`Promise`). The delicate case is a link that
  `check_if_visited` drops since its target is known: breadth first, whoever stored it did
  so at no greater distance (`LogOrder`, `Dropped`).
* A job that was announced has no task, so what was promised is logged; along a walk
  from the root this is every page (`AnnouncedIsLogged`).
* The archive has the rows of its job at some time after the announcement, and rows are
  never deleted (`ArchiveInv`, `ArchiveStep`).

What would be an induction (on links, members of a set) takes a least
counterexample (`LeastElement`) and refutes it.

`BrokerClientProofs` proves, for all tasks, batches, heartbeats, restarts and any
`Trouble`: `TypeCorrect`, `AckFollowsRun` (`AckedMeansProcessed`), `OneToken`
(`PullToken`) and `RunsOnce` (`AtMostOncePerProcess`). With `TypeOK` the first two are
inductive as they stand:

* an ACK appears only where `ProcessJob` has just run its task (`NoNewAck` covers all
  other steps, which move messages along or lose them: `AmongAppend`, `AmongTail`,
  `AmongPrefix`);
* `Tokens` adds up the places a PULL can be in. `CountAppend`, `CountTail` and
  `CountPrefix` say how a queue's share of it changes, and each step moves the token,
  or loses it together with the connection (`TokenKept`). The invariant itself is what
  makes `event' = TRUE` a move: a batch in hand means that no PULL is due already.

`RunsOnce` needs more, since the broker may hand a task out again and its answers take
time. `OnceInv` says of a task that this process has run: the broker has it as done; or
the ACK is ahead of any PULL that could bring it back (`AckAhead`), wherever the two
are; or a rejection is on its way that will end the process before the task could be
run (`Refused`, `Guarded`). `PullToken` is what keeps a second PULL from overtaking.

`LogStreamProofs` proves, for all connections, jobs, lines, frames, buffers and
`Trouble`: `TypeCorrect`, `EntryIsUnique` (`OneEntry`), `EndsUnsubscribed`
(`Unsubscribed`) and `Refinement` (`Spec => DeliverySpec`). Its inductive invariant:

* `OwnJobs`: whatever a connection knows of a job (on its way, in `jobIDChan`, as its
  key, as active) it knows because its own client submitted it; and a job on its way
  (`OnItsWay`) is there once, and has no goroutine that pushes it, nor been pushed, which
  is why it goes to the broker at most once;
* `Fresh`, `OwnEntries`: nothing leads to a connection before it is made, and what is
  under a job's key is that job's client or nothing. With `OwnJobs`, re-keying one
  connection and deleting another touch different keys, and `OneEntry` is preserved;
* `UpToDate`: the client of a connection that stands has what the loop has taken, so
  that what it gets next is the next in the channel;
* `FeedInv`, `SendInv`, `BoxInv`: along the way of a message (the feed of its
  subscription, `SendToSubscriber`, the channel) each station is in order, leads to
  the stream's owner, and is ahead of the one after it.

`Publish` and a frame that is looked up are the steps `Send`, a write that arrives is
the step `Deliver`, everything else is a stutter.

`SessionProofs` proves, for all connections, jobs, sizes of archives and of chunks:

* `ServerIsAWire` (`SessionSpec => ExportSpec`), whatever goes wrong. What the UI has
  not handled of a channel is, for each job, a concatenation of frames
  (`FramesUnderWay`). `WireAppend` and `WireDrop` say what a message at its end and one
  taken from its front do to it. `Put` is then `SendFrame`, as are `TimesOut` and a key
  nobody is known by, where the frame is lost; `Update` is `ReceiveFrame`; all else is a
  stutter.
* `ArchiveIsWhole` (`SuccessIsWhole`), without `slow`: a frame dropped after two seconds
  leaves an archive with a gap, which the client saves, see [findings](#findings).

For the second, `ChunkCount` and `AssemblyWhole` are the arithmetic: the chunks, put
together in order, are the archive, for any size. Both it and the concatenations above
are recursive functions; what would be an induction takes the least index at
which the claim fails (`LeastElement`, from the library's well-foundedness of `<`) and
refutes it. `FrameInv` is why frames arrive without gaps:

* `Alone`: a job is submitted once, and is in one place on its way to its subscription;
* `Quiet`: nothing is sent to a connection before it is made;
* `ExporterInv`: an export begins with the announcement, and sends at most `Frames`;
* `Preceded`, `NextInLine`: a frame that the client may still receive is behind the one
  before it; the next one due has its predecessor in the channel, unless the
  connection has another job by now. Then the key is gone for good, which is where
  `Alone` comes in: no later frame of the job could follow the gap.

`UIInv` says what the UI has collected and saved after `k` frames (`Shows`), and that
these are the frames of what it has handled.

`ClientUIProofs` proves, for every number of lines, every text and every height:
`TypeCorrect`, `WindowCorrect` (`WindowInside`) and `FocusCorrect` (`FocusFollows`). That
`Depth` is positive, as `Crawler` assumes, is how `Submit` reads its input. The window needs
`PanelInv`: the panel has a row at least, and the offset is 0 or below the number of
lines; `lines` never falls, and a new line resets the offset. `PanelSteps` and
`FormSteps` say which steps touch the panel and which the form, so that each invariant
is compared with those only.

`WsClientProofs` proves `TypeCorrect` (`TypeOK`) of the client's loops, for any
submissions, events and capacity of `LogChan`: every event that was read is in `LogChan`,
in the listener's hand, or handled, and what was sent was submitted and waits no more. The
last is inductive only with `PayloadInv`: so has what `sendLoop` is about to write.

Only model-checked: liveness (`EventuallyCompleted`, `CrawlEnds`, `AllProcessed`,
`LossEndsProcess`, `GoroutinesEnd`, `FileArrives`, `LoopsEnd`, `EventsHandled`), which
the prover does not reach. The theorems about depths and completeness state hypotheses that
some runs do not meet (`archive_whole` and `crawler_pair` have jobs of different depths and
a broker without order): there the properties are model-checked and not proved.

## Findings

`src/README.md:30` says the crawler "crawls pages at the requested depth".

* `crawler_race`: `check_if_visited` (`jobrepository.py:389-416`) drops links to
  pages in table `url`. When a page is reachable at two depths and another
  crawler stores it, and its links, for the deeper task first, the shallower one finds
  the links visited: what lies beyond them, within the requested depth, is never
  crawled. One crawler meets the same if the broker does not keep the order of tasks.
* `archive_deeper`: a deeper request for a root that is known copies what is there, and
  sends the links of the copied pages on. These are found by a join on
  `links."sourceUrl_id"` (`jobrepository.py:310`). Nothing sets that column: the extractor
  fills in `sourceUrl` (`extractor.py:58-74`), `insert_tbs` stores the links as they come.
  So nothing is sent, and the job is announced with the pages of the shallower one.
  For the same reason `depth_handler` finds no links (`jobrepository.py:49`), so that a
  job whose root another one has met gets that page and no more, and the archive's
  manifest has no outbound links (`exporter.go:168`).

Met while modelling, each the outcome of an instance or of a reading, without a run
of its own:

* A job submitted while another one for the same root still runs copies the rows that
  one has so far (`jobrepository.py:177`), and is announced without the rest:
  `ArchiveWhole` fails with `Overlap`. If a
  page links back to the root under another spelling, the copy by `url_id`
  (`jobrepository.py:214`) also writes into the log of the other job, even after that
  was announced: `PagesSettled` fails on such a web. `JobRowIsRequest` fails for
  overlapping jobs with
  different roots and two crawlers.
* If a page met by one job is the root of another, that job's depths are copied as
  they are (`jobrepository.py:175`).
* A page with a crawl delay is dropped on the first visit, since its own robots entry
  is written just before `crawl_ready` looks at it (`crawler.py:58`). The entry is kept
  for the page rather than the host, so `update_next_time(root_url)` finds nothing.
  With two crawlers one may write the entry after the other has looked, and the page is
  fetched during its delay: a property that delays are honoured does not hold.
* An exception between `add_entry` and `remove` leaves the URL locked without expiry.
* With failures a job may never be announced: the failed POST of a sub-job, of the
  server, or a task whose `Crawler` cannot be built are not subtracted.
* A job may be pushed before its subscription stands (`server.go:197`): the first lines,
  and the announcement of a short crawl, can be lost, and no archive is made.
* A second job on a connection takes the first one's key (`server.go:148`): the rest
  of the first job's log and archive is dropped, its subscription is never cancelled.
  A third that arrives while an id waits in `jobIDChan` is crawled unseen. The entry
  under the last key stays in the map (`server.go:108`).
* A frame that finds the channel full for two seconds is dropped, and the client does
  not compare the chunks with the total (`text_input.go:163-172`): with `slow`,
  `SuccessIsWhole` fails.
* Had the manifest links, most would lead nowhere: they are stored as they are in the
  page, relative ones too (`extractor.py:71`), and looked up among normalised URLs
  (`exporter.go:150`, `177`).
* A failing query leaves an archive without pages, reported as a success
  (`exporter.go:127`). The root is in the rows twice, so the manifest counts it
  twice (`exporter.go:148`, `201-219`).
* A submission after `sendLoop` has ended is shown as submitted and waits for ever
  (`text_input.go:269-273`).
* After the panel has grown, `ScrollUp` may move down, as it takes the offset back to
  the new maximum (`log_panel.go:56-63`).

## What is abstracted, and what is left out

* A transaction of Postgres is one action. The queries of `check_url` before its
  first commit are one action although they are single statements at READ COMMITTED.
* Tables are sets: rows that agree in the modelled columns are one row. Contents,
  metadata, anchor texts and timestamps are left out.
* `link_log.job_id` holds the job's identifier, not its row number (`job_id` is
  unique: the queries' `ON CONFLICT (job_id)` requires it, the migrations are not
  part of the sources).
* `links."sourceUrl_id"` is never set, so `LinkSourceKnown`, which says that the joins on
  it find something, is `FALSE` in all runs. The theorems are about both values: about
  the code as it is, and with the column filled in.
* A HINCRBY is applied once or not at all. A Redis client that retries after a timeout
  could apply it twice.
* A task is run by one crawler at a time, unless `redeliver` is among the faults. A
  crawler that has lost its connection in the middle of a batch does go on with it
  (`socket_client/server.py:219-227`) while the broker may hand its tasks out again.
* The sub-jobs of a task are a set. `depth_handler` would send a link twice that is
  twice on a page.
* The page's links are absolute, as `check_if_visited` makes them (`urljoin`) before they
  become sub-jobs; `Norm` is `url_normalize`, with one
  page that has two spellings.
* Job identifiers are fresh. In the code they are milliseconds of the client's clock.
* `connect`'s handshake and the framing of messages are left out; a connection that
  cannot be made is a process that does not start.
* The frames of an archive are made of positions, not bytes; base64 and JSON are data.
  `box` keeps what was taken out of a channel, so that order can be spoken of.
* A write of the server to a client that is gone may succeed or fail, as TCP does.

Not modelled:

* `publish`, `closeSlow` and `publishLimiter` of the server: nothing calls them.
  `LogSubscriber.Close` runs when the process ends.
* The server's `job_repository.go` and `user_repository.go`: not called by the
  running program. Configuration and connections: read and opened once at start.
* The cursor's mode, styles and drawing of the UI; HTML parsing; the zip's files.
* The broker itself is not in the repository: it is what its clients' code expects.
