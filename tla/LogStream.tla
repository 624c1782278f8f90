----------------------------- MODULE LogStream -----------------------------
(***************************************************************************)
(* The WebSocket server: how the log lines of a job, and the frames of its *)
(* export, get from Redis to the connection that submitted the job.        *)
(*                                                                         *)
(* A connection is two goroutines, the loop of subscribe() and readLoop. A *)
(* job has one that pushes it to the broker, one for its Redis             *)
(* subscription, and one for its export once its last line, "completed     *)
(* successfully", has been handled. The last two send through the map      *)
(* subscribers into the channel msgs of a connection.                      *)
(*                                                                         *)
(* The lines of a job are numbered in the order in which Redis publishes   *)
(* them. Job identifiers are fresh.                                        *)
(***************************************************************************)
EXTENDS Integers, Sequences, FiniteSets

CONSTANTS Conn, Job, NoConn, NoJob,
          Client,      \* Client[j]: the connection whose client submits job j
          Logs,        \* the lines of a job; the last one announces its completion
          Frames,      \* the frames of its export
          Buffer,      \* subscriberMessageBuffer
          Trouble      \* what may go wrong, see TroubleKinds

\*   leaves      a client's connection ends
\*   slow        a client does not read for seconds: sends and writes time out
\*   drops       Redis does not deliver a published line
\*   pushFails   the broker does not take a job
\*   buildFails  BuildZip returns an error
TroubleKinds == {"leaves", "slow", "drops", "pushFails", "buildFails"}

ASSUME LogStreamAssumption ==
    /\ NoConn \notin Conn /\ NoJob \notin Job /\ Conn \cap Job = {}
    /\ Client \in [Job -> Conn]
    /\ Logs \in Nat \ {0} /\ Frames \in Nat \ {0} /\ Buffer \in Nat \ {0}
    /\ Trouble \subseteq TroubleKinds

VARIABLES
    up,          \* the connections that stand
    loop,        \* loop[c]: the loop of subscribe(): "none", "run", "done"
    reader,      \* reader[c]: readLoop
    toServer,    \* toServer[c]: jobs on their way from the client
    jobIDChan,   \* jobIDChan[c]: the job's id, or none (its capacity is 1)
    readErr,     \* the connections with an error in readErrc
    id, active,  \* id[c], activeJobID of subscribe()
    subscribers, \* the map from keys, of connections or of jobs, to subscribers
    box,         \* box[c]: everything that was put into the channel msgs
    taken,       \* taken[c]: how much of it the loop has taken out
    received,    \* received[c]: how much of it the client has received
    submitted,   \* the jobs that a client has sent
    pushing,     \* those with a goroutine that pushes them
    pushed,      \* those the broker has
    published,   \* published[j]: the lines of job j that Redis has published
    cancels,     \* the keys of LogSubscriber.cancels
    stream,      \* stream[j]: its goroutine: "none", "asked", "on", "ended"
    feed,        \* feed[j]: lines the goroutine has not handled yet
    exporter,    \* exporter[j]: ExportJob: "none", "building", "streaming", "ended"
    at, to       \* at[s]: the last message of stream s that SendToSubscriber was called
                 \* with; to[s]: for whom it waits to put it into msgs

connection == <<up, loop, reader, toServer, jobIDChan, readErr, id, active>>
channel == <<box, taken, received>>
redis == <<published, cancels, stream, feed>>
sending == <<exporter, at, to>>
vars == <<connection, subscribers, channel, submitted, pushing, pushed, redis, sending>>

Stream == Job \X {"log", "export"}
LogOf(j) == <<j, "log">>
ExportOf(j) == <<j, "export">>
Owner(s) == Client[s[1]]
Message == [stream : Stream, n : Nat]
Key == Conn \cup Job

TypeOK ==
    /\ up \subseteq Conn /\ readErr \subseteq Conn
    /\ loop \in [Conn -> {"none", "run", "done"}] /\ reader \in [Conn -> {"none", "run", "done"}]
    /\ toServer \in [Conn -> Seq(Job)]
    /\ jobIDChan \in [Conn -> Job \cup {NoJob}] /\ active \in [Conn -> Job \cup {NoJob}]
    /\ id \in [Conn -> Key]
    /\ subscribers \in [Key -> Conn \cup {NoConn}]
    /\ box \in [Conn -> Seq(Message)]
    /\ taken \in [Conn -> Nat] /\ received \in [Conn -> Nat]
    /\ \A c \in Conn : received[c] <= taken[c] /\ taken[c] <= Len(box[c])
    /\ submitted \subseteq Job /\ cancels \subseteq submitted
    /\ pushing \subseteq submitted /\ pushed \subseteq submitted /\ pushing \cap pushed = {}
    /\ published \in [Job -> 0..Logs]
    /\ stream \in [Job -> {"none", "asked", "on", "ended"}]
    /\ feed \in [Job -> Seq(1..Logs)]
    /\ exporter \in [Job -> {"none", "building", "streaming", "ended"}]
    /\ at \in [Stream -> Nat] /\ to \in [Stream -> Conn \cup {NoConn}]

Init ==
    /\ up = {} /\ readErr = {}
    /\ loop = [c \in Conn |-> "none"] /\ reader = [c \in Conn |-> "none"]
    /\ toServer = [c \in Conn |-> <<>>]
    /\ jobIDChan = [c \in Conn |-> NoJob] /\ active = [c \in Conn |-> NoJob]
    /\ id = [c \in Conn |-> c]
    /\ subscribers = [k \in Key |-> NoConn]
    /\ box = [c \in Conn |-> <<>>]
    /\ taken = [c \in Conn |-> 0] /\ received = [c \in Conn |-> 0]
    /\ submitted = {} /\ pushing = {} /\ pushed = {} /\ cancels = {}
    /\ published = [j \in Job |-> 0]
    /\ stream = [j \in Job |-> "none"]
    /\ feed = [j \in Job |-> <<>>]
    /\ exporter = [j \in Job |-> "none"]
    /\ at = [s \in Stream |-> 0] /\ to = [s \in Stream |-> NoConn]

-----------------------------------------------------------------------------
(* The client *)

\* It connects: subscribe() adds the subscriber and accepts.
Connect(c) ==
    /\ loop[c] = "none"
    /\ up' = up \cup {c}
    /\ loop' = [loop EXCEPT ![c] = "run"] /\ reader' = [reader EXCEPT ![c] = "run"]
    /\ subscribers' = [subscribers EXCEPT ![c] = c]
    /\ UNCHANGED <<toServer, jobIDChan, readErr, id, active, channel, submitted,
                   pushing, pushed, redis, sending>>

\* Its user submits a job.
Submit(j) ==
    LET c == Client[j]
    IN  /\ c \in up /\ j \notin submitted
        /\ submitted' = submitted \cup {j}
        /\ toServer' = [toServer EXCEPT ![c] = Append(@, j)]
        /\ UNCHANGED <<up, loop, reader, jobIDChan, readErr, id, active, subscribers,
                       channel, pushing, pushed, redis, sending>>

Leave(c) ==
    /\ "leaves" \in Trouble
    /\ c \in up /\ up' = up \ {c}
    /\ UNCHANGED <<loop, reader, toServer, jobIDChan, readErr, id, active, subscribers,
                   channel, submitted, pushing, pushed, redis, sending>>

-----------------------------------------------------------------------------
(* readLoop *)

\* A job: its count is set, its id is handed to the loop of subscribe(), unless an
\* earlier one is still in the channel, and a goroutine is to push it.
Receive(c) ==
    /\ reader[c] = "run" /\ loop[c] = "run"
    /\ toServer[c] # <<>>
    /\ LET j == Head(toServer[c])
       IN  /\ pushing' = pushing \cup {j}
           /\ jobIDChan' = [jobIDChan EXCEPT ![c] = IF @ = NoJob THEN j ELSE @]
    /\ toServer' = [toServer EXCEPT ![c] = Tail(@)]
    /\ UNCHANGED <<up, loop, reader, readErr, id, active, subscribers, channel,
                   submitted, pushed, redis, sending>>

\* Mutant: the goroutine does not end when the broker has the job.
PushAgain(j) ==
    /\ j \in pushing
    /\ pushed' = pushed \cup {j}
    /\ UNCHANGED <<connection, subscribers, channel, submitted, pushing, redis,
                   sending>>

\* That goroutine: PushToBroker, whose error is only logged.
PushToBroker(j) ==
    /\ j \in pushing /\ pushing' = pushing \ {j}
    /\ \/ pushed' = pushed \cup {j}
       \/ "pushFails" \in Trouble /\ UNCHANGED pushed
    /\ UNCHANGED <<connection, subscribers, channel, submitted, redis, sending>>

\* Mutant: readErrc has no buffer, its receiver may be gone.
ReadFailsUnbuffered(c) ==
    /\ reader[c] = "run" /\ c \notin up /\ loop[c] = "run"
    /\ reader' = [reader EXCEPT ![c] = "done"]
    /\ readErr' = readErr \cup {c}
    /\ UNCHANGED <<up, loop, toServer, jobIDChan, id, active, subscribers, channel,
                   submitted, pushing, pushed, redis, sending>>

ReadFails(c) ==
    /\ reader[c] = "run" /\ c \notin up
    /\ reader' = [reader EXCEPT ![c] = "done"]
    /\ readErr' = readErr \cup {c}
    /\ UNCHANGED <<up, loop, toServer, jobIDChan, id, active, subscribers, channel,
                   submitted, pushing, pushed, redis, sending>>

-----------------------------------------------------------------------------
(* The loop of subscribe() *)

\* Mutant: the deferred Unsubscribe is bound to the job there was at the beginning.
ReturnSubscribed(c) ==
    /\ loop' = [loop EXCEPT ![c] = "done"]
    /\ up' = up \ {c}
    /\ subscribers' = [subscribers EXCEPT ![c] = NoConn]
    /\ UNCHANGED cancels

\* subscribe() returns: the subscription of the active job is cancelled, the
\* connection closed, and the subscriber deleted under the key it had at first.
Return(c) ==
    /\ loop' = [loop EXCEPT ![c] = "done"]
    /\ cancels' = cancels \ {active[c]}
    /\ up' = up \ {c}
    /\ subscribers' = [subscribers EXCEPT ![c] = NoConn]

\* A message goes to the client. If the connection is gone, it is lost or the
\* write fails, which ends the loop, as does one that takes five seconds.
WriteMsg(c) ==
    /\ loop[c] = "run" /\ taken[c] < Len(box[c])
    /\ taken' = [taken EXCEPT ![c] = @ + 1]
    /\ \/ /\ received' = IF c \in up THEN [received EXCEPT ![c] = taken[c] + 1] ELSE received
          /\ UNCHANGED <<up, loop, subscribers, cancels>>
       \/ /\ c \notin up \/ "slow" \in Trouble
          /\ Return(c)
          /\ UNCHANGED received
    /\ UNCHANGED <<reader, toServer, jobIDChan, readErr, id, active, box, submitted,
                   pushing, pushed, published, stream, feed, sending>>

\* Mutant: the entry under the old key stays.
RekeyOnly(c, j) == subscribers' = [subscribers EXCEPT ![j] = c]

\* rekeySubscriber
Rekey(c, j) == subscribers' = [[subscribers EXCEPT ![id[c]] = NoConn] EXCEPT ![j] = c]

\* The loop takes a job's id: the subscriber is known by it from now on, and
\* LogSubscriber.Subscribe sends its SUBSCRIBE and starts a goroutine.
TakeJob(c) ==
    LET j == jobIDChan[c]
    IN  /\ loop[c] = "run" /\ j # NoJob
        /\ jobIDChan' = [jobIDChan EXCEPT ![c] = NoJob]
        /\ Rekey(c, j)
        /\ id' = [id EXCEPT ![c] = j] /\ active' = [active EXCEPT ![c] = j]
        /\ cancels' = cancels \cup {j}
        /\ stream' = IF j \in cancels THEN stream ELSE [stream EXCEPT ![j] = "asked"]
        /\ UNCHANGED <<up, loop, reader, toServer, readErr, channel, submitted, pushing,
                       pushed, published, feed, sending>>

TakeReadErr(c) ==
    /\ loop[c] = "run" /\ c \in readErr
    /\ Return(c)
    /\ UNCHANGED <<reader, toServer, jobIDChan, readErr, id, active, channel, submitted,
                   pushing, pushed, published, stream, feed, sending>>

-----------------------------------------------------------------------------
(* Redis, and the crawlers that publish *)

\* Redis has the SUBSCRIBE.
Subscribed(j) ==
    /\ stream[j] = "asked" /\ j \in cancels
    /\ stream' = [stream EXCEPT ![j] = "on"]
    /\ UNCHANGED <<connection, subscribers, channel, submitted, pushing, pushed,
                   published, cancels, feed, sending>>

\* A crawler publishes a line of a job the broker has.
Publish(j) ==
    /\ j \in pushed /\ published[j] < Logs
    /\ published' = [published EXCEPT ![j] = @ + 1]
    /\ \/ stream[j] = "on" /\ feed' = [feed EXCEPT ![j] = Append(@, published[j] + 1)]
       \/ (stream[j] # "on" \/ "drops" \in Trouble) /\ UNCHANGED feed
    /\ UNCHANGED <<connection, subscribers, channel, submitted, pushing, pushed,
                   cancels, stream, sending>>

-----------------------------------------------------------------------------
(* SendToSubscriber, in the goroutines of subscriptions and exports *)

\* It looks the subscriber up; if there is none, the message is forgotten.
LookUp(s, n) ==
    /\ at' = [at EXCEPT ![s] = n]
    /\ to' = [to EXCEPT ![s] = subscribers[s[1]]]

\* Mutant: a goroutine for each line.
HandleAnyLog(j) ==
    /\ stream[j] = "on" /\ to[LogOf(j)] = NoConn
    /\ \E i \in DOMAIN feed[j] :
          /\ feed' = [feed EXCEPT ![j] = SubSeq(@, 1, i - 1) \o SubSeq(@, i + 1, Len(@))]
          /\ exporter' = IF feed[j][i] = Logs THEN [exporter EXCEPT ![j] = "building"] ELSE exporter
          /\ LookUp(LogOf(j), feed[j][i])
    /\ UNCHANGED <<connection, subscribers, channel, submitted, pushing, pushed,
                   published, cancels, stream>>

\* The handler is called with a line. The announcement starts an export.
HandleLog(j) ==
    /\ stream[j] = "on" /\ to[LogOf(j)] = NoConn
    /\ feed[j] # <<>>
    /\ feed' = [feed EXCEPT ![j] = Tail(@)]
    /\ exporter' = IF Head(feed[j]) = Logs THEN [exporter EXCEPT ![j] = "building"] ELSE exporter
    /\ LookUp(LogOf(j), Head(feed[j]))
    /\ UNCHANGED <<connection, subscribers, channel, submitted, pushing, pushed,
                   published, cancels, stream>>

\* The goroutine sees that it was cancelled; lines may still be waiting.
StreamEnds(j) ==
    /\ stream[j] \in {"asked", "on"} /\ j \notin cancels
    /\ to[LogOf(j)] = NoConn
    /\ stream' = [stream EXCEPT ![j] = "ended"]
    /\ feed' = [feed EXCEPT ![j] = <<>>]
    /\ UNCHANGED <<connection, subscribers, channel, submitted, pushing, pushed,
                   published, cancels, sending>>

BuildZip(j) ==
    /\ exporter[j] = "building"
    /\ \/ exporter' = [exporter EXCEPT ![j] = "streaming"]
       \/ "buildFails" \in Trouble /\ exporter' = [exporter EXCEPT ![j] = "ended"]
    /\ UNCHANGED <<connection, subscribers, channel, submitted, pushing, pushed, redis,
                   at, to>>

\* Mutant: the last frame, EXPORT_END, is not sent.
NextFrameTooFew(j) ==
    LET s == ExportOf(j)
    IN  /\ exporter[j] = "streaming" /\ to[s] = NoConn
        /\ IF at[s] < Frames - 1
           THEN LookUp(s, at[s] + 1) /\ UNCHANGED exporter
           ELSE exporter' = [exporter EXCEPT ![j] = "ended"] /\ UNCHANGED <<at, to>>
        /\ UNCHANGED <<connection, subscribers, channel, submitted, pushing, pushed,
                       redis>>

\* StreamZipOverWebSocket goes on to its next frame, or is through.
NextFrame(j) ==
    LET s == ExportOf(j)
    IN  /\ exporter[j] = "streaming" /\ to[s] = NoConn
        /\ \/ at[s] < Frames /\ LookUp(s, at[s] + 1) /\ UNCHANGED exporter
           \/ /\ at[s] = Frames
              /\ exporter' = [exporter EXCEPT ![j] = "ended"]
              /\ UNCHANGED <<at, to>>
        /\ UNCHANGED <<connection, subscribers, channel, submitted, pushing, pushed,
                       redis>>

Full(c) == Len(box[c]) - taken[c] >= Buffer

\* Mutant: what finds msgs full is dropped at once, as publish() does.
PutOrDrop(s) ==
    LET c == to[s]
    IN  /\ c # NoConn
        /\ box' = IF Full(c) THEN box ELSE [box EXCEPT ![c] = Append(@, [stream |-> s, n |-> at[s]])]
        /\ to' = [to EXCEPT ![s] = NoConn]
        /\ UNCHANGED <<connection, subscribers, taken, received, submitted, pushing,
                       pushed, redis, exporter, at>>

\* The message fits into msgs.
Put(s) ==
    LET c == to[s]
    IN  /\ c # NoConn /\ ~Full(c)
        /\ box' = [box EXCEPT ![c] = Append(@, [stream |-> s, n |-> at[s]])]
        /\ to' = [to EXCEPT ![s] = NoConn]
        /\ UNCHANGED <<connection, subscribers, taken, received, submitted, pushing,
                       pushed, redis, exporter, at>>

\* It did not for two seconds: it is dropped.
TimesOut(s) ==
    LET c == to[s]
    IN  /\ c # NoConn /\ Full(c)
        /\ "slow" \in Trouble \/ c \notin up
        /\ to' = [to EXCEPT ![s] = NoConn]
        /\ UNCHANGED <<connection, subscribers, channel, submitted, pushing, pushed,
                       redis, exporter, at>>

-----------------------------------------------------------------------------
SendToSubscriber(s) == Put(s) \/ TimesOut(s)

\* The goroutines: two of a connection, and three of a job.
Loop(c) == WriteMsg(c) \/ TakeJob(c) \/ TakeReadErr(c)
ReadLoop(c) == Receive(c) \/ ReadFails(c)
Subscription(j) ==
    Subscribed(j) \/ HandleLog(j) \/ StreamEnds(j) \/ SendToSubscriber(LogOf(j))
ExportJob(j) == BuildZip(j) \/ NextFrame(j) \/ SendToSubscriber(ExportOf(j))

Next ==
    \/ \E c \in Conn : Connect(c) \/ Leave(c) \/ Loop(c) \/ ReadLoop(c)
    \/ \E j \in Job : \/ Submit(j) \/ PushToBroker(j) \/ Publish(j)
                      \/ Subscribed(j) \/ HandleLog(j) \/ StreamEnds(j)
                      \/ BuildZip(j) \/ NextFrame(j)
    \/ \E s \in Stream : SendToSubscriber(s)

Spec == Init /\ [][Next]_vars

\* Every goroutine that can run does, with one of the cases of its select that are
\* ready; SendToSubscriber gives up in the end.
Fairness ==
    /\ \A c \in Conn : WF_vars(Loop(c)) /\ WF_vars(ReadLoop(c))
    /\ \A j \in Job : /\ WF_vars(PushToBroker(j))
                      /\ WF_vars(Subscription(j)) /\ WF_vars(ExportJob(j))

FairSpec == Spec /\ Fairness

-----------------------------------------------------------------------------
(* Properties *)

\* As long as subscribe() runs its subscriber is in the map under one key, the one
\* it knows: a message for another key cannot reach it, and one for its own finds it.
OneEntry ==
    \A c \in Conn : loop[c] = "run" =>
        \A k \in Key : subscribers[k] = c <=> k = id[c]

\* No subscription of an active job outlives its connection: it would go on
\* receiving lines, and start an export for nobody.
Unsubscribed == \A c \in Conn : loop[c] = "done" => active[c] \notin cancels

\* A connection gets the messages of its own jobs and of no others, in order and
\* not twice, whatever is re-keyed, dropped or disconnected meanwhile.
Abstract == INSTANCE Delivery WITH
    Reader <- [s \in Stream |-> Owner(s)],
    sent <- [s \in Stream |-> IF s[2] = "log" THEN published[s[1]] ELSE at[s]],
    got <- [c \in Conn |-> SubSeq(box[c], 1, received[c])]
DeliverySpec == Abstract!Spec

\* When a client has left, what serves its connection ends: the loop and readLoop,
\* the pushes of its jobs, and the subscription and the export of the active one. None
\* waits for a channel nobody reads, or for a key nobody cancels. Earlier jobs are
\* not spoken of: nothing cancels their subscriptions.
GoroutinesEnd ==
    \A c \in Conn :
        (loop[c] # "none" /\ c \notin up) ~>
            /\ loop[c] = "done" /\ reader[c] = "done"
            /\ \A j \in pushing : Client[j] # c
            /\ active[c] # NoJob => /\ stream[active[c]] = "ended"
                                   /\ exporter[active[c]] \in {"none", "ended"}
=============================================================================
