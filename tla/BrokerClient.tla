---------------------------- MODULE BrokerClient ----------------------------
(***************************************************************************)
(* BrokerClient: the TCP connection of a crawler process to the broker.    *)
(*                                                                         *)
(* Four asyncio coroutines share a queue of outgoing messages, the event   *)
(* pull_event and the flag running. They interleave only at their awaits,  *)
(* so an action here is what one of them does between two awaits. Blocking *)
(* calls (recv, sendall, jobhandler) run in threads; their ends are        *)
(* actions. The broker is not part of the repository: it is modelled from  *)
(* what this client sends it and handles from it.                          *)
(***************************************************************************)
EXTENDS Integers, Sequences, FiniteSets

CONSTANTS Task,          \* the tasks in the broker
          MaxBatch,      \* how many tasks the broker puts into one answer
          MaxBeats,      \* bound: heartbeats without an answer
          MaxRestarts,   \* bound: how often the process is started again
          Trouble        \* what may go wrong, see TroubleKinds

\*   breaks     the connection breaks
\*   rejects    the broker rejects a heartbeat
\*   expires    the broker gives up waiting for a task, although the client lives
\*   badBatch   an element of a batch has no id, no data, or an id of another type
TroubleKinds == {"breaks", "rejects", "expires", "badBatch"}

ASSUME BrokerClientAssumption ==
    /\ IsFiniteSet(Task)
    /\ MaxBatch \in Nat \ {0} /\ MaxBeats \in Nat \ {0} /\ MaxRestarts \in Nat
    /\ Trouble \subseteq TroubleKinds

VARIABLES
    running,    \* self.running
    event,      \* self.pull_event is set
    queue,      \* self.queue: messages for the writer
    reader, writer, puller, beater,   \* what the four coroutines wait for
    batch,      \* the tasks of the current batch not yet processed
    sending,    \* the message the writer's thread sends
    up,         \* the TCP connection stands
    toBroker,   \* messages on their way to the broker
    toClient,   \* messages on their way to the client
    lease,      \* the broker's view of each task
    runs,       \* how often jobhandler has run each task to its end
    restarts    \* how often the process was started again

coroutines == <<reader, writer, puller, beater>>
wire == <<up, toBroker, toClient>>
vars == <<running, event, queue, coroutines, batch, sending, wire, lease, runs, restarts>>

\* Messages; a batch is a sequence of tasks, empty for "nothing to do" and for an
\* answer that cannot be parsed. ok = FALSE is the payload "0".
Pull == [type |-> "PULL"]
Beat == [type |-> "HEARTBEAT"]
Tack(t) == [type |-> "TACK", task |-> t]
Reply(type, ok) == [type |-> type, ok |-> ok]
Batch(s) == [type |-> "PULL", tasks |-> s]

Out == {Pull, Beat} \cup {Tack(t) : t \in Task}
Batches == UNION {{s \in [1..n -> Task] : \A i, k \in 1..n : s[i] = s[k] => i = k} :
                     n \in 0..MaxBatch}
In == {Batch(s) : s \in Batches} \cup {Reply(y, ok) : y \in {"HEARTBEAT", "TACK"}, ok \in BOOLEAN}

TypeOK ==
    /\ running \in BOOLEAN /\ event \in BOOLEAN /\ up \in BOOLEAN
    /\ queue \in Seq(Out) /\ toBroker \in Seq(Out) /\ toClient \in Seq(In)
    /\ reader \in {"recv", "job", "stopped"}
    /\ writer \in {"get", "send", "stopped"}
    /\ puller \in {"wait", "stopped"}
    /\ beater \in {"sleep", "stopped"}
    /\ batch \in Batches
    /\ batch # <<>> <=> reader = "job"
    /\ sending \in Out
    /\ lease \in [Task -> {"new", "queued", "leased", "done"}]
    /\ runs \in [Task -> Nat]
    /\ restarts \in 0..MaxRestarts

\* __init__ and a connect() that got through: pull_event is set from the start.
Init ==
    /\ running = TRUE /\ event = TRUE /\ up = TRUE
    /\ queue = <<>> /\ toBroker = <<>> /\ toClient = <<>> /\ batch = <<>>
    /\ reader = "recv" /\ writer = "get" /\ puller = "wait" /\ beater = "sleep"
    /\ sending = Beat
    /\ lease = [t \in Task |-> "new"]
    /\ runs = [t \in Task |-> 0]
    /\ restarts = 0

\* Mutant: pull_event is not set.
CloseQuietly == running' = FALSE /\ up' = FALSE /\ UNCHANGED event

\* close(): the second call does nothing. Setting pull_event wakes the pull loop,
\* and the message that one then queues wakes the writer.
Close ==
    /\ running' = FALSE
    /\ event' = IF running THEN TRUE ELSE event
    /\ up' = FALSE

-----------------------------------------------------------------------------
(* The coroutines *)

\* The body of pull_loop, and its next look at running.
PullLoop ==
    /\ puller = "wait" /\ event
    /\ event' = FALSE
    /\ queue' = Append(queue, Pull)
    /\ puller' = IF running THEN "wait" ELSE "stopped"
    /\ UNCHANGED <<running, reader, writer, beater, batch, sending, wire, lease, runs, restarts>>

\* How many messages of a type are on their way, or answered and not yet read.
Count(q, type) == Cardinality({i \in DOMAIN q : q[i].type = type})
OnTheWay(type) ==
    Count(queue, type) + Count(toBroker, type) + Count(toClient, type)
        + (IF writer = "send" /\ sending.type = type THEN 1 ELSE 0)

\* heartbeat_loop after its sleep.
HeartbeatLoop ==
    /\ beater = "sleep"
    /\ \/ /\ running
          /\ OnTheWay("HEARTBEAT") < MaxBeats
          /\ queue' = Append(queue, Beat)
          /\ UNCHANGED beater
       \/ ~running /\ beater' = "stopped" /\ UNCHANGED queue
    /\ UNCHANGED <<running, event, reader, writer, puller, batch, sending, wire, lease, runs,
                   restarts>>

\* writer: queue.get() returns.
WriterGets ==
    /\ writer = "get" /\ queue # <<>>
    /\ sending' = Head(queue)
    /\ queue' = Tail(queue)
    /\ writer' = "send"
    /\ UNCHANGED <<running, event, reader, puller, beater, batch, wire, lease, runs, restarts>>

\* sendall returns. Over a broken connection it may still succeed, into the
\* kernel's buffer, but not on a closed socket. What is queued when running is
\* found FALSE is never sent.
WriterSends ==
    /\ writer = "send" /\ running
    /\ toBroker' = IF up THEN Append(toBroker, sending) ELSE toBroker
    /\ writer' = "get"
    /\ UNCHANGED <<running, event, queue, reader, puller, beater, batch, sending, up, toClient,
                   lease, runs, restarts>>

WriterFails ==
    /\ writer = "send" /\ ~up
    /\ Close
    /\ writer' = "stopped"
    /\ UNCHANGED <<queue, reader, puller, beater, batch, sending, toBroker, toClient, lease,
                   runs, restarts>>

\* Mutant: a rejected ACK is ignored.
ReceiveReplyLoosely ==
    /\ reader = "recv" /\ running /\ toClient # <<>> /\ Head(toClient).type # "PULL"
    /\ \/ /\ Head(toClient).ok \/ Head(toClient).type = "TACK"
          /\ UNCHANGED <<running, event, up, reader>>
       \/ ~Head(toClient).ok /\ Head(toClient).type # "TACK" /\ Close /\ reader' = "stopped"
    /\ toClient' = Tail(toClient)
    /\ UNCHANGED <<queue, writer, puller, beater, batch, sending, toBroker, lease, runs,
                   restarts>>

\* A rejected heartbeat or ACK closes the connection, others are ignored.
ReceiveReply ==
    /\ reader = "recv" /\ running
    /\ toClient # <<>>
    /\ LET msg == Head(toClient)
       IN  /\ msg.type # "PULL"
           /\ \/ msg.ok /\ UNCHANGED <<running, event, up, reader>>
              \/ ~msg.ok /\ Close /\ reader' = "stopped"
    /\ toClient' = Tail(toClient)
    /\ UNCHANGED <<queue, writer, puller, beater, batch, sending, toBroker, lease, runs,
                   restarts>>

\* Mutant: nothing to do is not followed by another PULL.
ReceiveBatchQuietly ==
    /\ reader = "recv" /\ running /\ toClient # <<>> /\ Head(toClient).type = "PULL"
    /\ batch' = Head(toClient).tasks
    /\ reader' = IF batch' = <<>> THEN "recv" ELSE "job"
    /\ toClient' = Tail(toClient)
    /\ UNCHANGED <<running, event, queue, writer, puller, beater, sending, up, toBroker, lease,
                   runs, restarts>>

\* A batch: its first task is started. No tasks: ask again.
ReceiveBatch ==
    /\ reader = "recv" /\ running
    /\ toClient # <<>>
    /\ LET msg == Head(toClient)
       IN  /\ msg.type = "PULL"
           /\ batch' = msg.tasks
           /\ \/ msg.tasks = <<>> /\ event' = TRUE /\ UNCHANGED reader
              \/ msg.tasks # <<>> /\ reader' = "job" /\ UNCHANGED event
    /\ toClient' = Tail(toClient)
    /\ UNCHANGED <<running, queue, writer, puller, beater, sending, up, toBroker, lease, runs,
                   restarts>>

\* Mutants: the last task of the batch is acknowledged for every task; signal_pull
\* is called for every task; the batch is left when the client was closed.
RunHead(acked, more) ==
    /\ reader = "job"
    /\ runs' = [runs EXCEPT ![Head(batch)] = @ + 1]
    /\ queue' = Append(queue, Tack(acked))
    /\ batch' = Tail(batch)
    /\ reader' = IF more THEN "job" ELSE IF running THEN "recv" ELSE "stopped"
    /\ UNCHANGED <<running, writer, puller, beater, sending, wire, lease, restarts>>
AckLast == RunHead(batch[Len(batch)], Len(batch) > 1) /\ event' = (event \/ Len(batch) = 1)
SignalEachTask == RunHead(Head(batch), Len(batch) > 1) /\ event' = TRUE
LeaveBatch == /\ RunHead(Head(batch), Len(batch) > 1 /\ running)
              /\ event' = (event \/ Len(batch) = 1)

\* jobhandler is through with a task, well or badly: process_job queues the ACK,
\* and the next task of the batch is started, whether or not the client still
\* runs. After the last one the next PULL is due.
ProcessJob ==
    /\ reader = "job"
    /\ runs' = [runs EXCEPT ![Head(batch)] = @ + 1]
    /\ queue' = Append(queue, Tack(Head(batch)))
    /\ batch' = Tail(batch)
    /\ \/ Len(batch) = 1 /\ event' = TRUE /\ reader' = (IF running THEN "recv" ELSE "stopped")
       \/ Len(batch) > 1 /\ UNCHANGED <<event, reader>>
    /\ UNCHANGED <<running, writer, puller, beater, sending, wire, lease, restarts>>

\* job["id"] raises, or job.id.encode() does once the task has run: what is left of
\* the batch is dropped, the connection closed.
BadBatch ==
    /\ "badBatch" \in Trouble
    /\ reader = "job"
    /\ batch' = <<>>
    /\ \/ UNCHANGED runs
       \/ runs' = [runs EXCEPT ![Head(batch)] = @ + 1]
    /\ Close
    /\ reader' = "stopped"
    /\ UNCHANGED <<queue, writer, puller, beater, sending, toBroker, toClient, lease,
                   restarts>>

\* recv_exact raises: the connection is gone.
ReaderFails ==
    /\ reader = "recv" /\ ~up
    /\ Close
    /\ reader' = "stopped"
    /\ UNCHANGED <<queue, writer, puller, beater, batch, sending, toBroker, toClient, lease,
                   runs, restarts>>

-----------------------------------------------------------------------------
(* The broker, the network, and whoever starts the process *)

\* The server, or a crawler, pushes a task.
Push(t) ==
    /\ lease[t] = "new"
    /\ lease' = [lease EXCEPT ![t] = "queued"]
    /\ UNCHANGED <<running, event, queue, coroutines, batch, sending, wire, runs, restarts>>

\* Lets the broker answer its next message, of this type, with reply. What arrived
\* before the connection went is still read, its answer is lost.
Answer(type, reply) ==
    /\ toBroker # <<>> /\ Head(toBroker).type = type
    /\ toBroker' = Tail(toBroker)
    /\ toClient' = IF up THEN Append(toClient, reply) ELSE toClient
    /\ UNCHANGED <<running, event, queue, coroutines, batch, sending, up, runs, restarts>>

\* It hands out some queued tasks, or none if there are none.
BrokerAnswersPull ==
    \E s \in Batches :
        /\ \A i \in DOMAIN s : lease[s[i]] = "queued"
        /\ s = <<>> <=> \A t \in Task : lease[t] # "queued"
        /\ Answer("PULL", Batch(s))
        /\ lease' = [t \in Task |-> IF \E i \in DOMAIN s : s[i] = t THEN "leased" ELSE lease[t]]

BrokerAnswersBeat ==
    \E ok \in {TRUE} \cup (IF "rejects" \in Trouble THEN {FALSE} ELSE {}) :
        Answer("HEARTBEAT", Reply("HEARTBEAT", ok)) /\ UNCHANGED lease

\* An ACK for a task that is not leased is rejected.
BrokerAnswersTack ==
    LET t == Head(toBroker).task
    IN  /\ Answer("TACK", Reply("TACK", lease[t] = "leased"))
        /\ lease' = IF lease[t] = "leased" THEN [lease EXCEPT ![t] = "done"] ELSE lease

\* Tasks leased to a client that is gone are queued again, or those it is slow with.
LeaseExpires(t) ==
    /\ ~up \/ "expires" \in Trouble
    /\ lease[t] = "leased"
    /\ lease' = [lease EXCEPT ![t] = "queued"]
    /\ UNCHANGED <<running, event, queue, coroutines, batch, sending, wire, runs, restarts>>

\* Of what is on its way, some arrives and the rest is lost.
ConnectionBreaks ==
    /\ "breaks" \in Trouble
    /\ up /\ up' = FALSE
    /\ \E m \in 0..Len(toBroker), n \in 0..Len(toClient) :
          toBroker' = SubSeq(toBroker, 1, m) /\ toClient' = SubSeq(toClient, 1, n)
    /\ UNCHANGED <<running, event, queue, coroutines, batch, sending, lease, runs, restarts>>

\* connect() returns when all four coroutines have ended, and with it the process.
Ended == reader = "stopped" /\ writer = "stopped" /\ puller = "stopped" /\ beater = "stopped"

\* Somebody runs the crawler again, after the leases of the old connection.
Restart ==
    /\ Ended /\ restarts < MaxRestarts
    /\ \A t \in Task : lease[t] # "leased"
    /\ running' = TRUE /\ event' = TRUE /\ up' = TRUE
    /\ queue' = <<>> /\ toBroker' = <<>> /\ toClient' = <<>> /\ batch' = <<>>
    /\ reader' = "recv" /\ writer' = "get" /\ puller' = "wait" /\ beater' = "sleep"
    /\ sending' = Beat
    /\ restarts' = restarts + 1
    /\ UNCHANGED <<lease, runs>>

-----------------------------------------------------------------------------
Client ==
    \/ PullLoop \/ HeartbeatLoop \/ WriterGets \/ WriterSends \/ WriterFails
    \/ ReceiveReply \/ ReceiveBatch \/ ProcessJob \/ BadBatch \/ ReaderFails

Broker == BrokerAnswersPull \/ BrokerAnswersBeat \/ BrokerAnswersTack

Next ==
    \/ Client \/ Broker
    \/ \E t \in Task : Push(t) \/ LeaseExpires(t)
    \/ ConnectionBreaks
    \/ Restart

Spec == Init /\ [][Next]_vars

\* asyncio runs every coroutine that can run, recv and sendall come to an end once
\* the connection is gone, jobhandler returns, and the broker answers.
Fairness ==
    /\ WF_vars(PullLoop) /\ WF_vars(HeartbeatLoop)
    /\ WF_vars(WriterGets) /\ WF_vars(WriterSends \/ WriterFails)
    /\ WF_vars(ReceiveReply \/ ReceiveBatch \/ ReaderFails) /\ WF_vars(ProcessJob)
    /\ WF_vars(Broker)

FairSpec == Spec /\ Fairness

-----------------------------------------------------------------------------
(* Properties *)

\* The PULL is a token: it is due, on its way, answered, or its batch is being
\* processed. There are never two, so that no two batches wait for one reader, and
\* while the connection stands it is not lost, or the crawler would idle for ever.
PullToken ==
    LET tokens == OnTheWay("PULL") + (IF event THEN 1 ELSE 0) + (IF reader = "job" THEN 1 ELSE 0)
    IN  running => /\ tokens <= 1
                   /\ up => tokens = 1

\* A task is acknowledged only after it was processed: whatever breaks in a batch,
\* no task is lost that nobody ran.
AckedMeansProcessed ==
    \A t \in Task :
        \/ lease[t] = "done"
        \/ \E i \in DOMAIN queue : queue[i] = Tack(t)
        \/ \E i \in DOMAIN toBroker : toBroker[i] = Tack(t)
        \/ writer = "send" /\ sending = Tack(t)
        => runs[t] > 0

\* One process runs a task at most once: a task the broker gave up on, and hands out
\* again, is preceded by the rejection of its ACK, which closes the connection.
AtMostOncePerProcess == \A t \in Task : runs[t] <= 1 + restarts

\* As long as the connection stands every pushed task is processed and acknowledged,
\* also one that is pushed while the crawler polls an empty broker.
AllProcessed == \A t \in Task : lease[t] = "queued" ~> (lease[t] = "done" \/ ~up)

\* However the connection is lost, all four coroutines end and with them the
\* process, the one that waits for an event and the one that waits for a message
\* included; one that hangs would keep the crawler from being run again.
LossEndsProcess == ~up ~> Ended
=============================================================================
