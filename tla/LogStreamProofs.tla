--------------------------- MODULE LogStreamProofs ---------------------------
(***************************************************************************)
(* Proofs about LogStream, for any connections, jobs, lines, frames, size  *)
(* of the buffer and any trouble.                                          *)
(***************************************************************************)
EXTENDS LogStream, SequenceTheorems, TLAPS

(***************************************************************************)
(* The inductive invariant. Why a connection gets nothing of another: all  *)
(* that is ever known of job j by a connection is known by Client[j].      *)
(***************************************************************************)

\* The job on its way to the server is the client's own, and it comes but once.
OnItsWay(c) ==
    /\ \A i \in 1..Len(toServer[c]) :
          /\ toServer[c][i] \in submitted /\ Client[toServer[c][i]] = c
          /\ toServer[c][i] \notin pushing \cup pushed
    /\ \A i, k \in 1..Len(toServer[c]) : toServer[c][i] = toServer[c][k] => i = k

\* A job is only where its client's connection is.
OwnJobs ==
    \A c \in Conn :
        /\ OnItsWay(c)
        /\ jobIDChan[c] # NoJob => jobIDChan[c] \in submitted /\ Client[jobIDChan[c]] = c
        /\ active[c] # NoJob => Client[active[c]] = c
        /\ id[c] \in Job => Client[id[c]] = c
        /\ id[c] \in Conn => id[c] = c

\* A connection that was not made yet is in no map.
Fresh ==
    \A c \in Conn : loop[c] = "none" =>
        /\ id[c] = c /\ active[c] = NoJob
        /\ \A k \in Key : subscribers[k] # c

\* Entries under a job's key lead to its client.
OwnEntries == \A j \in Job : subscribers[j] \in {NoConn, Client[j]}

\* The client of a connection that stands has all that the loop has taken.
UpToDate ==
    \A c \in Conn : /\ c \in up => loop[c] = "run"
                    /\ c \in up \/ loop[c] = "none" => received[c] = taken[c]

\* What a subscription has not handled follows what it has, in order.
FeedInv ==
    \A j \in Job :
        /\ at[LogOf(j)] <= published[j]
        /\ \A i \in 1..Len(feed[j]) : feed[j][i] > at[LogOf(j)] /\ feed[j][i] <= published[j]
        /\ \A i, k \in 1..Len(feed[j]) : i < k => feed[j][i] < feed[j][k]

\* What was put into msgs belongs there, and each stream is in order.
BoxInv ==
    \A c \in Conn : \A i \in 1..Len(box[c]) :
        /\ Owner(box[c][i].stream) = c
        /\ box[c][i].n >= 1 /\ box[c][i].n <= at[box[c][i].stream]
        /\ \A k \in 1..Len(box[c]) :
              i < k /\ box[c][i].stream = box[c][k].stream => box[c][i].n < box[c][k].n

\* A message on its way goes to its owner, behind all of its stream before.
SendInv ==
    \A s \in Stream : to[s] # NoConn =>
        /\ to[s] = Owner(s) /\ at[s] >= 1
        /\ \A i \in 1..Len(box[Owner(s)]) :
              box[Owner(s)][i].stream = s => box[Owner(s)][i].n < at[s]

\* The entries of the map, and what else only connections change.
Entries == Fresh /\ OwnEntries /\ OneEntry /\ Unsubscribed

\* The messages on their way.
Flow == UpToDate /\ FeedInv /\ BoxInv /\ SendInv

IInv == TypeOK /\ OwnJobs /\ Entries /\ Flow

-----------------------------------------------------------------------------
(* Streams, and what the compound steps change *)

LEMMA StreamFacts ==
    /\ \A j \in Job : /\ LogOf(j) \in Stream /\ ExportOf(j) \in Stream
                     /\ LogOf(j)[1] = j /\ ExportOf(j)[1] = j
    /\ \A j, k \in Job : LogOf(j) # ExportOf(k) /\ (LogOf(j) = LogOf(k) => j = k)
    /\ \A s \in Stream : s[1] \in Job /\ Owner(s) \in Conn
BY LogStreamAssumption DEF Stream, LogOf, ExportOf, Owner

LEMMA StillOnItsWay ==
    ASSUME NEW c \in Conn, OnItsWay(c), toServer'[c] = toServer[c], submitted \subseteq submitted',
           \A i \in 1..Len(toServer[c]) : toServer[c][i] \notin pushing' \cup pushed'
    PROVE  OnItsWay(c)'
<1>1. \A i \in 1..Len(toServer[c]) : toServer[c][i] \in submitted' /\ Client[toServer[c][i]] = c
  BY DEF OnItsWay
<1>2. \A i, k \in 1..Len(toServer[c]) : toServer[c][i] = toServer[c][k] => i = k
  BY DEF OnItsWay
<1> DEFINE q == toServer[c]
<1>3. toServer'[c] = q
  OBVIOUS
<1> HIDE DEF q
<1>4. QED
  BY <1>1, <1>2, <1>3 DEF OnItsWay, q

\* What Receive does to the jobs on their way.
LEMMA ReceivedJob ==
    ASSUME TypeOK, OwnJobs, NEW c \in Conn, Receive(c)
    PROVE  /\ Head(toServer[c]) \in Job /\ Head(toServer[c]) \in submitted
           /\ Client[Head(toServer[c])] = c
           /\ Head(toServer[c]) \notin pushing \cup pushed
           /\ toServer' \in [Conn -> Seq(Job)]
           /\ OnItsWay(c)'
<1> DEFINE q == toServer[c]
<1>1. q \in Seq(Job) /\ q # <<>>
  BY DEF TypeOK, Receive
<1>2. Len(q) \in Nat /\ Len(q) >= 1 /\ Head(q) = q[1]
  BY <1>1, EmptySeq
<1>3. /\ Head(q) \in Job /\ Tail(q) \in Seq(Job) /\ Len(Tail(q)) = Len(q) - 1
      /\ \A i \in 1..Len(Tail(q)) : Tail(q)[i] = q[i + 1]
  BY <1>1, HeadTailProperties
<1>4. toServer' \in [Conn -> Seq(Job)] /\ toServer'[c] = Tail(q)
  BY <1>3 DEF TypeOK, Receive
<1>5. OnItsWay(c)
  BY DEF OwnJobs
<1>6. q[1] \in submitted /\ Client[q[1]] = c /\ q[1] \notin pushing \cup pushed
  BY <1>2, <1>5 DEF OnItsWay
<1>7. pushing' = pushing \cup {q[1]} /\ pushed' = pushed /\ submitted' = submitted
  BY <1>2 DEF Receive
<1>8. ASSUME NEW i \in 1..Len(Tail(q))
      PROVE  /\ Tail(q)[i] \in submitted /\ Client[Tail(q)[i]] = c
             /\ Tail(q)[i] \notin pushing' \cup pushed'
             /\ \A k \in 1..Len(Tail(q)) : Tail(q)[i] = Tail(q)[k] => i = k
  <2>1. /\ i \in Int /\ 1 \in 1..Len(q) /\ i + 1 # 1
        /\ \A k \in 1..Len(Tail(q)) : k \in Int /\ k + 1 \in 1..Len(q)
    BY <1>2, <1>3
  <2>2. Tail(q)[i] = q[i + 1] /\ q[i + 1] # q[1] /\ i + 1 \in 1..Len(q)
    BY <1>3, <1>5, <2>1 DEF OnItsWay
  <2>3. Tail(q)[i] \in submitted /\ Client[Tail(q)[i]] = c /\ Tail(q)[i] \notin pushing' \cup pushed'
    BY <1>5, <1>7, <2>2 DEF OnItsWay
  <2>4. ASSUME NEW k \in 1..Len(Tail(q)), Tail(q)[i] = Tail(q)[k] PROVE i = k
    <3>1. i + 1 = k + 1
      BY <1>3, <1>5, <2>1, <2>2, <2>4 DEF OnItsWay
    <3>2. QED
      BY <2>1, <3>1
  <2>5. QED
    BY <2>3, <2>4
<1>9. OnItsWay(c)'
  BY <1>4, <1>7, <1>8 DEF OnItsWay
<1>10. QED
  BY <1>2, <1>3, <1>4, <1>6, <1>9

\* What Submit does to them.
LEMMA SubmittedJob ==
    ASSUME TypeOK, OwnJobs, NEW j \in Job, Submit(j)
    PROVE  /\ toServer' \in [Conn -> Seq(Job)]
           /\ \A c \in Conn : OnItsWay(c)'
<1> DEFINE d == Client[j]
<1>1. d \in Conn /\ toServer[d] \in Seq(Job)
  BY LogStreamAssumption DEF TypeOK
<1>2. /\ Append(toServer[d], j) \in Seq(Job)
      /\ Len(toServer[d]) \in Nat /\ Len(Append(toServer[d], j)) = Len(toServer[d]) + 1
      /\ \A i \in 1..Len(toServer[d]) : Append(toServer[d], j)[i] = toServer[d][i]
      /\ Append(toServer[d], j)[Len(toServer[d]) + 1] = j
  BY <1>1, AppendProperties, LenProperties
<1>3. /\ toServer' = [toServer EXCEPT ![d] = Append(@, j)] /\ submitted' = submitted \cup {j}
      /\ pushing' = pushing /\ pushed' = pushed /\ j \notin submitted
  BY DEF Submit
<1>4. toServer' \in [Conn -> Seq(Job)]
  BY <1>1, <1>2, <1>3 DEF TypeOK
<1>5. \A c \in Conn : OnItsWay(c)
  BY DEF OwnJobs
<1>6. ASSUME NEW c \in Conn PROVE OnItsWay(c)'
  <2>1. CASE c = d
    <3>1. toServer'[c] = Append(toServer[d], j)
      BY <1>1, <1>3, <2>1 DEF TypeOK
    <3>2. j \notin pushing \cup pushed /\ OnItsWay(d)
      BY <1>1, <1>3, <1>5 DEF TypeOK
    <3>3. ASSUME NEW i \in 1..Len(toServer'[c])
          PROVE  /\ toServer'[c][i] \in submitted' /\ Client[toServer'[c][i]] = c
                 /\ toServer'[c][i] \notin pushing' \cup pushed'
                 /\ i \in 1..Len(toServer[d]) => toServer'[c][i] \in submitted
                 /\ i \notin 1..Len(toServer[d]) => i = Len(toServer[d]) + 1 /\ toServer'[c][i] = j
      <4>1. CASE i \in 1..Len(toServer[d])
        BY <1>2, <1>3, <2>1, <3>1, <3>2, <4>1 DEF OnItsWay
      <4>2. CASE i = Len(toServer[d]) + 1
        BY <1>2, <1>3, <2>1, <3>1, <3>2, <4>2
      <4>3. QED
        BY <1>2, <3>1, <4>1, <4>2
    <3>4. ASSUME NEW i \in 1..Len(toServer'[c]), NEW k \in 1..Len(toServer'[c]),
                 toServer'[c][i] = toServer'[c][k]
          PROVE  i = k
      <4>1. CASE i \in 1..Len(toServer[d]) /\ k \in 1..Len(toServer[d])
        BY <1>2, <3>1, <3>2, <3>4, <4>1 DEF OnItsWay
      <4>2. CASE i \notin 1..Len(toServer[d]) \/ k \notin 1..Len(toServer[d])
        BY <1>3, <3>3, <3>4, <4>2
      <4>3. QED
        BY <4>1, <4>2
    <3>5. QED
      BY <3>3, <3>4 DEF OnItsWay
  <2>2. CASE c # d
    <3>1. toServer'[c] = toServer[c] /\ submitted \subseteq submitted'
      BY <1>3, <2>2 DEF TypeOK
    <3>2. \A i \in 1..Len(toServer[c]) : toServer[c][i] \notin pushing' \cup pushed'
      BY <1>3, <1>5 DEF OnItsWay
    <3>3. QED
      BY <1>5, <3>1, <3>2, StillOnItsWay
  <2>3. QED
    BY <2>1, <2>2
<1>7. QED
  BY <1>4, <1>6

\* What HandleLog takes out of a feed.
LEMMA HandledLine ==
    ASSUME TypeOK, NEW j \in Job, HandleLog(j)
    PROVE  LET n == Head(feed[j])
           IN  /\ n \in 1..Logs /\ n = feed[j][1] /\ Len(feed[j]) \in Nat \ {0}
               /\ feed' = [feed EXCEPT ![j] = Tail(@)] /\ feed' \in [Job -> Seq(1..Logs)]
               /\ Len(feed'[j]) = Len(feed[j]) - 1
               /\ \A i \in 1..Len(feed'[j]) : feed'[j][i] = feed[j][i + 1]
               /\ at' = [at EXCEPT ![LogOf(j)] = n]
               /\ to' = [to EXCEPT ![LogOf(j)] = subscribers[j]]
<1>1. feed[j] \in Seq(1..Logs) /\ feed[j] # <<>>
  BY DEF TypeOK, HandleLog
<1>2. Len(feed[j]) \in Nat \ {0} /\ Head(feed[j]) = feed[j][1]
  BY <1>1, EmptySeq
<1>3. /\ Head(feed[j]) \in 1..Logs /\ Tail(feed[j]) \in Seq(1..Logs)
      /\ Len(Tail(feed[j])) = Len(feed[j]) - 1
      /\ \A i \in 1..Len(Tail(feed[j])) : Tail(feed[j])[i] = feed[j][i + 1]
  BY <1>1, HeadTailProperties
<1>4. feed' = [feed EXCEPT ![j] = Tail(@)]
  BY DEF HandleLog
<1>5. feed'[j] = Tail(feed[j]) /\ feed' \in [Job -> Seq(1..Logs)]
  BY <1>3, <1>4 DEF TypeOK
<1>6. /\ at' = [at EXCEPT ![LogOf(j)] = Head(feed[j])]
      /\ to' = [to EXCEPT ![LogOf(j)] = subscribers[j]]
  BY StreamFacts DEF HandleLog, LookUp
<1>7. QED
  BY <1>2, <1>3, <1>4, <1>5, <1>6

-----------------------------------------------------------------------------
(* Types *)

\* A message that SendToSubscriber puts into msgs.
LEMMA PutMessage ==
    ASSUME TypeOK, NEW s \in Stream, Put(s)
    PROVE  LET c == to[s]
               m == [stream |-> s, n |-> at[s]]
           IN  /\ c \in Conn /\ m \in Message /\ Len(box[c]) \in Nat
               /\ box' = [box EXCEPT ![c] = Append(@, m)] /\ box' \in [Conn -> Seq(Message)]
               /\ Len(box'[c]) = Len(box[c]) + 1
               /\ \A i \in 1..Len(box[c]) : box'[c][i] = box[c][i]
               /\ box'[c][Len(box[c]) + 1] = m
               /\ \A d \in Conn : d # c => box'[d] = box[d]
<1> DEFINE c == to[s]
           m == [stream |-> s, n |-> at[s]]
<1>1. c \in Conn /\ m \in Message /\ box[c] \in Seq(Message)
  BY DEF TypeOK, Put, Message
<1> HIDE DEF m
<1>2. /\ Append(box[c], m) \in Seq(Message) /\ Len(box[c]) \in Nat
      /\ Len(Append(box[c], m)) = Len(box[c]) + 1
      /\ \A i \in 1..Len(box[c]) : Append(box[c], m)[i] = box[c][i]
      /\ Append(box[c], m)[Len(box[c]) + 1] = m
  BY <1>1, AppendProperties, LenProperties
<1>3. box' = [box EXCEPT ![c] = Append(@, m)]
  BY DEF Put, m
<1>4. /\ box'[c] = Append(box[c], m) /\ box' \in [Conn -> Seq(Message)]
      /\ \A d \in Conn : d # c => box'[d] = box[d]
  BY <1>1, <1>2, <1>3 DEF TypeOK
<1>5. QED
  BY <1>1, <1>2, <1>3, <1>4 DEF m

LEMMA TypeInit == Init => TypeOK
<1> SUFFICES ASSUME Init PROVE TypeOK
  OBVIOUS
<1>1. <<>> \in Seq(Job) /\ <<>> \in Seq(Message) /\ <<>> \in Seq(1..Logs) /\ Len(<<>>) = 0
  BY EmptySeq
<1>2. toServer \in [Conn -> Seq(Job)] /\ box \in [Conn -> Seq(Message)] /\ feed \in [Job -> Seq(1..Logs)]
  BY <1>1 DEF Init
<1>3. \A c \in Conn : received[c] = 0 /\ taken[c] = 0 /\ Len(box[c]) = 0
  BY <1>1 DEF Init
<1>4. /\ up \subseteq Conn /\ readErr \subseteq Conn
      /\ loop \in [Conn -> {"none", "run", "done"}] /\ reader \in [Conn -> {"none", "run", "done"}]
      /\ jobIDChan \in [Conn -> Job \cup {NoJob}] /\ active \in [Conn -> Job \cup {NoJob}]
      /\ id \in [Conn -> Key] /\ subscribers \in [Key -> Conn \cup {NoConn}]
      /\ taken \in [Conn -> Nat] /\ received \in [Conn -> Nat]
      /\ submitted \subseteq Job /\ cancels \subseteq submitted
      /\ pushing \subseteq submitted /\ pushed \subseteq submitted /\ pushing \cap pushed = {}
  BY DEF Init, Key
<1>5. /\ published \in [Job -> 0..Logs]
      /\ stream \in [Job -> {"none", "asked", "on", "ended"}]
      /\ exporter \in [Job -> {"none", "building", "streaming", "ended"}]
      /\ at \in [Stream -> Nat] /\ to \in [Stream -> Conn \cup {NoConn}]
  BY LogStreamAssumption DEF Init
<1>6. QED
  BY <1>2, <1>3, <1>4, <1>5 DEF TypeOK

LEMMA TypeStep == TypeOK /\ OwnJobs /\ [Next]_vars => TypeOK'
<1> SUFFICES ASSUME TypeOK, OwnJobs, [Next]_vars PROVE TypeOK'
  OBVIOUS
<1> USE LogStreamAssumption
<1>1. ASSUME NEW c \in Conn, Connect(c) PROVE TypeOK'
  BY <1>1 DEF Connect, TypeOK, Key, channel, redis, sending
<1>2. ASSUME NEW c \in Conn, Leave(c) PROVE TypeOK'
  BY <1>2 DEF Leave, TypeOK, channel, redis, sending
<1>3. ASSUME NEW c \in Conn, Receive(c) PROVE TypeOK'
  <2>1. /\ toServer' \in [Conn -> Seq(Job)] /\ Head(toServer[c]) \in submitted \cap Job
        /\ Head(toServer[c]) \notin pushed
    BY <1>3, ReceivedJob
  <2>2. jobIDChan' \in [Conn -> Job \cup {NoJob}]
    BY <1>3, <2>1 DEF Receive, TypeOK
  <2> DEFINE j == Head(toServer[c])
  <2>3. /\ pushing' = pushing \cup {j} /\ pushed' = pushed /\ submitted' = submitted
        /\ pushing \subseteq submitted /\ pushing \cap pushed = {}
    BY <1>3 DEF Receive, TypeOK
  <2> HIDE DEF j
  <2>4. j \in submitted /\ j \notin pushed
    BY <2>1 DEF j
  <2>5. pushing' \subseteq submitted' /\ pushing' \cap pushed' = {}
    BY <2>3, <2>4
  <2>6. QED
    BY <1>3, <2>1, <2>2, <2>5 DEF Receive, TypeOK, channel, redis, sending
<1>4. ASSUME NEW c \in Conn, ReadFails(c) PROVE TypeOK'
  BY <1>4 DEF ReadFails, TypeOK, channel, redis, sending
<1>5. ASSUME NEW c \in Conn, WriteMsg(c) PROVE TypeOK'
  <2>1. /\ up' \subseteq Conn /\ loop' \in [Conn -> {"none", "run", "done"}]
        /\ subscribers' \in [Key -> Conn \cup {NoConn}] /\ cancels' \subseteq submitted
    BY <1>5 DEF WriteMsg, Return, TypeOK
  <2>2. taken[c] \in Nat /\ Len(box[c]) \in Nat /\ taken[c] + 1 <= Len(box[c])
    BY <1>5, LenProperties DEF WriteMsg, TypeOK
  <2>3. taken' \in [Conn -> Nat] /\ received' \in [Conn -> Nat]
    <3>1. taken \in [Conn -> Nat] /\ received \in [Conn -> Nat]
      BY DEF TypeOK
    <3>2. /\ taken' = [taken EXCEPT ![c] = taken[c] + 1]
          /\ received' = received \/ received' = [received EXCEPT ![c] = taken[c] + 1]
      BY <1>5 DEF WriteMsg
    <3>3. QED
      BY <2>2, <3>1, <3>2
  <2>4. ASSUME NEW d \in Conn PROVE received'[d] <= taken'[d] /\ taken'[d] <= Len(box[d])
    <3>1. received[d] \in Nat /\ taken[d] \in Nat /\ received[d] <= taken[d] /\ taken[d] <= Len(box[d])
      BY DEF TypeOK
    <3>2. taken'[d] = IF d = c THEN taken[c] + 1 ELSE taken[d]
      BY <1>5 DEF WriteMsg, TypeOK
    <3>3. received'[d] = received[d] \/ (d = c /\ received'[d] = taken[c] + 1)
      BY <1>5 DEF WriteMsg, TypeOK
    <3>4. QED
      BY <2>2, <3>1, <3>2, <3>3
  <2>5. QED
    BY <1>5, <2>1, <2>3, <2>4 DEF WriteMsg, TypeOK, sending
<1>6. ASSUME NEW c \in Conn, TakeJob(c) PROVE TypeOK'
  <2> DEFINE j == jobIDChan[c]
  <2>1. j \in Job /\ j \in submitted
    BY <1>6 DEF TakeJob, TypeOK, OwnJobs
  <2>2. subscribers' \in [Key -> Conn \cup {NoConn}] /\ id' \in [Conn -> Key]
    BY <1>6, <2>1 DEF TakeJob, Rekey, TypeOK, Key
  <2>3. /\ jobIDChan' \in [Conn -> Job \cup {NoJob}] /\ active' \in [Conn -> Job \cup {NoJob}]
        /\ cancels' \subseteq submitted /\ stream' \in [Job -> {"none", "asked", "on", "ended"}]
    BY <1>6, <2>1 DEF TakeJob, TypeOK
  <2>4. QED
    BY <1>6, <2>2, <2>3 DEF TakeJob, TypeOK, channel, sending
<1>7. ASSUME NEW c \in Conn, TakeReadErr(c) PROVE TypeOK'
  BY <1>7 DEF TakeReadErr, Return, TypeOK, channel, sending
<1>8. ASSUME NEW j \in Job, Submit(j) PROVE TypeOK'
  <2>1. toServer' \in [Conn -> Seq(Job)]
    BY <1>8, SubmittedJob
  <2>2. QED
    BY <1>8, <2>1 DEF Submit, TypeOK, channel, redis, sending
<1>9. ASSUME NEW j \in Job, Subscribed(j) PROVE TypeOK'
  BY <1>9 DEF Subscribed, TypeOK, connection, channel, sending
<1>10. ASSUME NEW j \in Job, Publish(j) PROVE TypeOK'
  <2>1. published[j] + 1 \in 1..Logs /\ published' = [published EXCEPT ![j] = published[j] + 1]
    BY <1>10 DEF Publish, TypeOK
  <2>2. Append(feed[j], published[j] + 1) \in Seq(1..Logs)
    BY <2>1, AppendProperties DEF TypeOK
  <2>3. published' \in [Job -> 0..Logs]
    BY <1>10, <2>1 DEF TypeOK
  <2>4. feed \in [Job -> Seq(1..Logs)]
    BY DEF TypeOK
  <2>5. feed' = feed \/ feed' = [feed EXCEPT ![j] = Append(feed[j], published[j] + 1)]
    BY <1>10 DEF Publish
  <2>6. feed' \in [Job -> Seq(1..Logs)]
    BY <2>2, <2>4, <2>5
  <2>7. QED
    BY <1>10, <2>3, <2>6 DEF Publish, TypeOK, connection, channel, sending
<1>11. ASSUME NEW j \in Job, HandleLog(j) PROVE TypeOK'
  <2> DEFINE n == Head(feed[j])
  <2>1. /\ n \in 1..Logs /\ feed' \in [Job -> Seq(1..Logs)]
        /\ at' = [at EXCEPT ![LogOf(j)] = n] /\ to' = [to EXCEPT ![LogOf(j)] = subscribers[j]]
    BY <1>11, HandledLine
  <2> HIDE DEF n
  <2>2. at' \in [Stream -> Nat] /\ to' \in [Stream -> Conn \cup {NoConn}]
    <3>1. subscribers[j] \in Conn \cup {NoConn} /\ n \in Nat
      BY <2>1 DEF TypeOK, Key
    <3>2. at \in [Stream -> Nat] /\ to \in [Stream -> Conn \cup {NoConn}]
      BY DEF TypeOK
    <3>3. QED
      BY <2>1, <3>1, <3>2
  <2>3. QED
    BY <1>11, <2>1, <2>2 DEF HandleLog, TypeOK, connection, channel
<1>12. ASSUME NEW j \in Job, StreamEnds(j) PROVE TypeOK'
  <2>1. <<>> \in Seq(1..Logs)
    BY EmptySeq
  <2>2. QED
    BY <1>12, <2>1 DEF StreamEnds, TypeOK, connection, channel, sending
<1>13. ASSUME NEW j \in Job, BuildZip(j) PROVE TypeOK'
  <2>1. exporter' \in [Job -> {"none", "building", "streaming", "ended"}]
    BY <1>13 DEF BuildZip, TypeOK
  <2>2. UNCHANGED <<connection, subscribers, channel, submitted, pushing, pushed, redis, at, to>>
    BY <1>13 DEF BuildZip
  <2>3. QED
    BY <2>1, <2>2 DEF TypeOK, connection, channel, redis
<1>14. ASSUME NEW j \in Job, NextFrame(j) PROVE TypeOK'
  <2>1. at \in [Stream -> Nat] /\ to \in [Stream -> Conn \cup {NoConn}]
    BY DEF TypeOK
  <2>2. ExportOf(j) \in Stream /\ ExportOf(j)[1] = j
    BY StreamFacts
  <2>3. at[ExportOf(j)] + 1 \in Nat /\ subscribers[j] \in Conn \cup {NoConn}
    BY <2>1, <2>2 DEF TypeOK, Key
  <2>4. \/ at' = at /\ to' = to
        \/ /\ at' = [at EXCEPT ![ExportOf(j)] = at[ExportOf(j)] + 1]
           /\ to' = [to EXCEPT ![ExportOf(j)] = subscribers[j]]
    BY <1>14, <2>2 DEF NextFrame, LookUp
  <2>5. at' \in [Stream -> Nat] /\ to' \in [Stream -> Conn \cup {NoConn}]
    BY <2>1, <2>3, <2>4
  <2>6. exporter' \in [Job -> {"none", "building", "streaming", "ended"}]
    BY <1>14 DEF NextFrame, TypeOK
  <2>7. QED
    BY <1>14, <2>5, <2>6 DEF NextFrame, TypeOK, connection, channel, redis
<1>15. ASSUME NEW s \in Stream, Put(s) PROVE TypeOK'
  <2>1. box' \in [Conn -> Seq(Message)]
    BY <1>15, PutMessage
  <2>2. \A c \in Conn : taken[c] <= Len(box'[c])
    <3>1. to[s] \in Conn /\ Len(box[to[s]]) \in Nat /\ Len(box'[to[s]]) = Len(box[to[s]]) + 1
      BY <1>15, PutMessage
    <3>2. \A d \in Conn : d # to[s] => box'[d] = box[d]
      BY <1>15, PutMessage
    <3>3. \A d \in Conn : taken[d] \in Nat /\ taken[d] <= Len(box[d])
      BY DEF TypeOK
    <3>4. QED
      BY <3>1, <3>2, <3>3
  <2>3. QED
    BY <1>15, <2>1, <2>2 DEF Put, TypeOK, connection, redis
<1>16. ASSUME NEW s \in Stream, TimesOut(s) PROVE TypeOK'
  BY <1>16 DEF TimesOut, TypeOK, connection, channel, redis
<1>17. ASSUME NEW j \in Job, PushToBroker(j) PROVE TypeOK'
  <2>1. UNCHANGED <<connection, subscribers, channel, submitted, redis, sending>>
    BY <1>17 DEF PushToBroker
  <2>2. /\ pushing' \subseteq submitted /\ pushed' \subseteq submitted
        /\ pushing' \cap pushed' = {}
    BY <1>17 DEF PushToBroker, TypeOK
  <2>3. QED
    BY <2>1, <2>2 DEF TypeOK, connection, channel, redis, sending
<1>18. CASE UNCHANGED vars
  BY <1>18 DEF vars, connection, channel, redis, sending, TypeOK
<1>19. QED
  BY <1>1, <1>2, <1>3, <1>4, <1>5, <1>6, <1>7, <1>8, <1>9, <1>10, <1>11, <1>12, <1>13, <1>14,
     <1>15, <1>16, <1>17, <1>18 DEF Next, Loop, ReadLoop, SendToSubscriber

-----------------------------------------------------------------------------
(* Who knows of which job *)

LEMMA OwnStep == TypeOK /\ OwnJobs /\ [Next]_vars => OwnJobs'
<1> SUFFICES ASSUME TypeOK, OwnJobs, [Next]_vars PROVE OwnJobs'
  OBVIOUS
<1> USE LogStreamAssumption
<1>0. \A c \in Conn : OnItsWay(c)
  BY DEF OwnJobs
<1>1. ASSUME NEW c \in Conn, Receive(c) PROVE OwnJobs'
  <2> DEFINE j == Head(toServer[c])
  <2>1. j \in Job /\ j \in submitted /\ Client[j] = c /\ OnItsWay(c)'
    BY <1>1, ReceivedJob
  <2>2. /\ pushing' = pushing \cup {j} /\ pushed' = pushed /\ submitted' = submitted
        /\ active' = active /\ id' = id
        /\ jobIDChan' = [jobIDChan EXCEPT ![c] = IF @ = NoJob THEN j ELSE @]
        /\ \A d \in Conn : d # c => toServer'[d] = toServer[d]
    BY <1>1 DEF Receive, TypeOK
  <2> HIDE DEF j
  <2>3. \A d \in Conn : jobIDChan'[d] = jobIDChan[d] \/ (d = c /\ jobIDChan'[d] = j)
    BY <2>2 DEF TypeOK
  <2>4. \A d \in Conn : jobIDChan'[d] # NoJob => jobIDChan'[d] \in submitted' /\ Client[jobIDChan'[d]] = d
    BY <2>1, <2>2, <2>3 DEF OwnJobs
  <2>5. ASSUME NEW d \in Conn, d # c PROVE OnItsWay(d)'
    <3>1. \A i \in 1..Len(toServer[d]) : toServer[d][i] # j
      BY <1>0, <2>1, <2>5 DEF OnItsWay
    <3>2. \A i \in 1..Len(toServer[d]) : toServer[d][i] \notin pushing' \cup pushed'
      BY <1>0, <2>2, <3>1 DEF OnItsWay
    <3>3. QED
      BY <1>0, <2>2, <2>5, <3>2, StillOnItsWay
  <2>6. QED
    BY <2>1, <2>2, <2>4, <2>5 DEF OwnJobs
<1>2. ASSUME NEW c \in Conn, TakeJob(c) PROVE OwnJobs'
  <2> DEFINE j == jobIDChan[c]
  <2>1. j \in Job /\ Client[j] = c /\ j \notin Conn
    BY <1>2 DEF TakeJob, TypeOK, OwnJobs
  <2>2. /\ pushing' = pushing /\ pushed' = pushed /\ submitted' = submitted /\ toServer' = toServer
        /\ jobIDChan' = [jobIDChan EXCEPT ![c] = NoJob]
        /\ id' = [id EXCEPT ![c] = j] /\ active' = [active EXCEPT ![c] = j]
    BY <1>2 DEF TakeJob
  <2> HIDE DEF j
  <2>3. ASSUME NEW d \in Conn PROVE OnItsWay(d)'
    <3>1. \A i \in 1..Len(toServer[d]) : toServer[d][i] \notin pushing' \cup pushed'
      BY <1>0, <2>2 DEF OnItsWay
    <3>2. QED
      BY <1>0, <2>2, <3>1, StillOnItsWay
  <2>4. \A d \in Conn : /\ jobIDChan'[d] = IF d = c THEN NoJob ELSE jobIDChan[d]
                        /\ id'[d] = IF d = c THEN j ELSE id[d]
                        /\ active'[d] = IF d = c THEN j ELSE active[d]
    BY <2>2 DEF TypeOK
  <2>5. QED
    BY <2>1, <2>2, <2>3, <2>4 DEF OwnJobs
<1>3. ASSUME NEW j \in Job, Submit(j) PROVE OwnJobs'
  BY <1>3, SubmittedJob DEF Submit, OwnJobs
<1>4. CASE /\ UNCHANGED <<toServer, jobIDChan, id, active, submitted>>
           /\ pushing' \cup pushed' \subseteq pushing \cup pushed
  BY <1>4 DEF OwnJobs, OnItsWay
<1>5. ASSUME NEW c \in Conn, Connect(c) \/ Leave(c) \/ ReadFails(c) \/ WriteMsg(c) \/ TakeReadErr(c)
      PROVE  OwnJobs'
  BY <1>4, <1>5 DEF Connect, Leave, ReadFails, WriteMsg, TakeReadErr
<1>6. ASSUME NEW j \in Job, \/ PushToBroker(j) \/ Subscribed(j) \/ Publish(j)
                            \/ HandleLog(j) \/ StreamEnds(j) \/ BuildZip(j) \/ NextFrame(j)
      PROVE  OwnJobs'
  BY <1>4, <1>6 DEF PushToBroker, Subscribed, Publish, HandleLog, StreamEnds, BuildZip,
                    NextFrame, connection
<1>7. ASSUME NEW s \in Stream, SendToSubscriber(s) PROVE OwnJobs'
  BY <1>4, <1>7 DEF SendToSubscriber, Put, TimesOut, connection
<1>8. CASE UNCHANGED vars
  BY <1>4, <1>8 DEF vars, connection
<1>9. QED
  BY <1>1, <1>2, <1>3, <1>5, <1>6, <1>7, <1>8 DEF Next, Loop, ReadLoop

LEMMA ReturnEntries ==
    ASSUME TypeOK, OwnJobs, Entries, NEW c \in Conn, loop[c] = "run", Return(c),
           UNCHANGED <<id, active>>
    PROVE  Entries'
<1> USE LogStreamAssumption
<1>1. \A d \in Conn : d # c => id[d] # c
  BY DEF OwnJobs, TypeOK, Key
<1>2. /\ loop' = [loop EXCEPT ![c] = "done"] /\ cancels' = cancels \ {active[c]}
      /\ subscribers' = [subscribers EXCEPT ![c] = NoConn] /\ id' = id /\ active' = active
  BY DEF Return
<1>3. \A k \in Key : subscribers'[k] = IF k = c THEN NoConn ELSE subscribers[k]
  BY <1>2 DEF TypeOK
<1>4. \A d \in Conn : loop'[d] = IF d = c THEN "done" ELSE loop[d]
  BY <1>2 DEF TypeOK
<1>5. Fresh'
  BY <1>2, <1>3, <1>4 DEF Entries, Fresh
<1>6. OwnEntries'
  BY <1>3 DEF Entries, OwnEntries, Key
<1>7. OneEntry'
  BY <1>1, <1>2, <1>3, <1>4 DEF Entries, OneEntry
<1>8. Unsubscribed'
  BY <1>2, <1>4 DEF Entries, Unsubscribed
<1>9. QED
  BY <1>5, <1>6, <1>7, <1>8 DEF Entries

LEMMA EntriesStep == TypeOK /\ OwnJobs /\ Entries /\ [Next]_vars => Entries'
<1> SUFFICES ASSUME TypeOK, OwnJobs, Entries, [Next]_vars PROVE Entries'
  OBVIOUS
<1> USE LogStreamAssumption
<1>1. ASSUME NEW c \in Conn, Connect(c) PROVE Entries'
  <2>1. /\ loop' = [loop EXCEPT ![c] = "run"] /\ subscribers' = [subscribers EXCEPT ![c] = c]
        /\ id' = id /\ active' = active /\ cancels' = cancels /\ loop[c] = "none"
    BY <1>1 DEF Connect, redis
  <2>2. \A k \in Key : subscribers'[k] = IF k = c THEN c ELSE subscribers[k]
    BY <2>1 DEF TypeOK
  <2>3. \A d \in Conn : loop'[d] = IF d = c THEN "run" ELSE loop[d]
    BY <2>1 DEF TypeOK
  <2>4. /\ id[c] = c /\ active[c] = NoJob /\ \A k \in Key : subscribers[k] # c
        /\ \A d \in Conn : d # c => id[d] # c
    BY <2>1 DEF Entries, Fresh, OwnJobs, TypeOK, Key
  <2>5. Fresh' /\ Unsubscribed'
    BY <2>1, <2>2, <2>3 DEF Entries, Fresh, Unsubscribed
  <2>6. OwnEntries'
    BY <2>2 DEF Entries, OwnEntries, Key
  <2>7. OneEntry'
    BY <2>1, <2>2, <2>3, <2>4 DEF Entries, OneEntry, Key
  <2>8. QED
    BY <2>5, <2>6, <2>7 DEF Entries
<1>2. ASSUME NEW c \in Conn, TakeJob(c) PROVE Entries'
  <2> DEFINE j == jobIDChan[c]
  <2>1. /\ j \in Job /\ j # NoJob /\ j \notin Conn /\ Client[j] = c /\ loop[c] = "run"
        /\ \A d \in Conn : d # c => id[d] # j /\ id[d] # id[c] /\ active[d] # j
    BY <1>2 DEF TakeJob, OwnJobs, TypeOK, Key
  <2>2. /\ id' = [id EXCEPT ![c] = j] /\ active' = [active EXCEPT ![c] = j] /\ loop' = loop
        /\ cancels' = cancels \cup {j}
        /\ subscribers' = [[subscribers EXCEPT ![id[c]] = NoConn] EXCEPT ![j] = c]
    BY <1>2 DEF TakeJob, Rekey
  <2> HIDE DEF j
  <2>3. \A k \in Key : subscribers'[k] = IF k = j THEN c
                                         ELSE IF k = id[c] THEN NoConn ELSE subscribers[k]
    BY <2>2 DEF TypeOK
  <2>4. \A d \in Conn : /\ id'[d] = IF d = c THEN j ELSE id[d]
                        /\ active'[d] = IF d = c THEN j ELSE active[d]
    BY <2>2 DEF TypeOK
  <2>5. ASSUME NEW d \in Conn, loop[d] = "none"
        PROVE  id'[d] = d /\ active'[d] = NoJob /\ \A k \in Key : subscribers'[k] # d
    <3>1. d # c /\ d # NoConn /\ id[d] = d /\ active[d] = NoJob /\ \A k \in Key : subscribers[k] # d
      BY <2>1, <2>5 DEF Entries, Fresh
    <3>2. QED
      BY <2>3, <2>4, <3>1
  <2>6. OwnEntries'
    BY <2>1, <2>3 DEF Entries, OwnEntries, Key
  <2>7. ASSUME NEW d \in Conn, loop[d] = "run", NEW k \in Key
        PROVE  subscribers'[k] = d <=> k = id'[d]
    <3>1. subscribers[k] = d <=> k = id[d]
      BY <2>7 DEF Entries, OneEntry
    <3>2. NoConn # d
      OBVIOUS
    <3>3. QED
      BY <2>1, <2>3, <2>4, <3>1, <3>2
  <2>8. OneEntry'
    BY <2>2, <2>7 DEF OneEntry
  <2>9. Unsubscribed'
    BY <2>1, <2>2, <2>4 DEF Entries, Unsubscribed
  <2>10. Fresh'
    BY <2>2, <2>5 DEF Fresh
  <2>11. QED
    BY <2>6, <2>8, <2>9, <2>10 DEF Entries
<1>3. ASSUME NEW c \in Conn, TakeReadErr(c) PROVE Entries'
  BY <1>3, ReturnEntries DEF TakeReadErr
<1>4. CASE UNCHANGED <<loop, subscribers, id, active, cancels>>
  BY <1>4 DEF Entries, Fresh, OwnEntries, OneEntry, Unsubscribed
<1>5. ASSUME NEW c \in Conn, WriteMsg(c) PROVE Entries'
  BY <1>4, <1>5, ReturnEntries DEF WriteMsg
<1>6. ASSUME NEW c \in Conn, Leave(c) \/ Receive(c) \/ ReadFails(c) PROVE Entries'
  BY <1>4, <1>6 DEF Leave, Receive, ReadFails, redis
<1>7. ASSUME NEW j \in Job, \/ Submit(j) \/ PushToBroker(j) \/ Subscribed(j) \/ Publish(j)
                            \/ HandleLog(j) \/ StreamEnds(j) \/ BuildZip(j) \/ NextFrame(j)
      PROVE  Entries'
  BY <1>4, <1>7 DEF Submit, PushToBroker, Subscribed, Publish, HandleLog, StreamEnds, BuildZip,
                    NextFrame, connection, redis
<1>8. ASSUME NEW s \in Stream, SendToSubscriber(s) PROVE Entries'
  BY <1>4, <1>8 DEF SendToSubscriber, Put, TimesOut, connection, redis
<1>9. CASE UNCHANGED vars
  BY <1>4, <1>9 DEF vars, connection, redis
<1>10. QED
  BY <1>1, <1>2, <1>3, <1>5, <1>6, <1>7, <1>8, <1>9 DEF Next, Loop, ReadLoop

-----------------------------------------------------------------------------
(* The messages on their way *)

\* A message that is looked up is behind all of its stream, and goes to its owner.
LEMMA LookedUp ==
    ASSUME TypeOK, OwnEntries, BoxInv, SendInv, NEW s \in Stream, NEW n \in Nat, n > at[s],
           LookUp(s, n), UNCHANGED box
    PROVE  BoxInv' /\ SendInv'
<1>1. /\ at' = [at EXCEPT ![s] = n] /\ to' = [to EXCEPT ![s] = subscribers[s[1]]] /\ box' = box
      /\ s[1] \in Job /\ Owner(s) = Client[s[1]]
  BY StreamFacts DEF LookUp, Owner
<1>2. at \in [Stream -> Nat] /\ to \in [Stream -> Conn \cup {NoConn}]
  BY DEF TypeOK
<1>3. \A t \in Stream : /\ at'[t] = IF t = s THEN n ELSE at[t]
                        /\ at[t] \in Nat /\ at[t] <= at'[t]
                        /\ to'[t] = IF t = s THEN subscribers[s[1]] ELSE to[t]
  BY <1>1, <1>2
<1>4. subscribers[s[1]] \in {NoConn, Owner(s)}
  BY <1>1 DEF OwnEntries
<1>5. \A c \in Conn : \A i \in 1..Len(box[c]) :
         box[c][i].stream \in Stream /\ box[c][i].n \in Nat /\ box[c][i].n <= at[box[c][i].stream]
  <2> SUFFICES ASSUME NEW c \in Conn, NEW i \in 1..Len(box[c])
               PROVE  box[c][i] \in Message /\ box[c][i].n <= at[box[c][i].stream]
    BY DEF Message
  <2>1. box[c] \in Seq(Message)
    BY DEF TypeOK
  <2>2. box[c][i] \in Message
    BY <2>1, ElementOfSeq
  <2>3. QED
    BY <2>2 DEF BoxInv
<1>6. BoxInv'
  <2> SUFFICES ASSUME NEW c \in Conn, NEW i \in 1..Len(box[c])
               PROVE  box[c][i].n <= at'[box[c][i].stream]
    BY <1>1 DEF BoxInv
  <2>1. QED
    BY <1>3, <1>5
<1>7. ASSUME NEW t \in Stream, to'[t] # NoConn
      PROVE  /\ to'[t] = Owner(t) /\ at'[t] >= 1
             /\ \A i \in 1..Len(box[Owner(t)]) :
                   box[Owner(t)][i].stream = t => box[Owner(t)][i].n < at'[t]
  <2>1. CASE t = s
    <3>1. Owner(t) \in Conn
      BY StreamFacts
    <3>2. QED
      BY <1>3, <1>4, <1>5, <1>7, <2>1, <3>1
  <2>2. CASE t # s
    BY <1>3, <1>7, <2>2 DEF SendInv
  <2>3. QED
    BY <2>1, <2>2
<1>8. SendInv'
  BY <1>1, <1>7 DEF SendInv
<1>9. QED
  BY <1>6, <1>8

LEMMA PutFlow ==
    ASSUME TypeOK, BoxInv, SendInv, NEW s \in Stream, Put(s)
    PROVE  BoxInv' /\ SendInv'
<1> DEFINE c == to[s]
           m == [stream |-> s, n |-> at[s]]
           L == Len(box[c])
<1>1. /\ c \in Conn /\ L \in Nat /\ Len(box'[c]) = L + 1
      /\ \A i \in 1..L : box'[c][i] = box[c][i]
      /\ box'[c][L + 1] = m
      /\ \A d \in Conn : d # c => box'[d] = box[d]
  BY PutMessage
<1>2. at' = at /\ to' = [to EXCEPT ![s] = NoConn] /\ c # NoConn
  BY DEF Put
<1>3. c = Owner(s) /\ at[s] >= 1 /\ at[s] \in Nat
      /\ \A i \in 1..L : box[c][i].stream = s => box[c][i].n < at[s]
  BY <1>2 DEF SendInv, TypeOK
<1>4. ASSUME NEW d \in Conn, NEW i \in 1..Len(box'[d])
      PROVE  /\ Owner(box'[d][i].stream) = d
             /\ box'[d][i].n >= 1 /\ box'[d][i].n <= at[box'[d][i].stream]
             /\ \A k \in 1..Len(box'[d]) :
                   i < k /\ box'[d][i].stream = box'[d][k].stream => box'[d][i].n < box'[d][k].n
  <2>1. CASE d # c
    BY <1>1, <2>1 DEF BoxInv
  <2>2. CASE d = c /\ i = L + 1
    BY <1>1, <1>3, <2>2
  <2>3. CASE d = c /\ i # L + 1
    <3>1. i \in 1..L /\ box'[d][i] = box[c][i]
      BY <1>1, <2>3
    <3>2. ASSUME NEW k \in 1..Len(box'[c]), i < k, box[c][i].stream = box'[c][k].stream
          PROVE  box[c][i].n < box'[c][k].n
      <4>1. CASE k = L + 1
        BY <1>1, <1>3, <3>1, <3>2, <4>1
      <4>2. CASE k # L + 1
        <5>1. k \in 1..L /\ box'[c][k] = box[c][k]
          BY <1>1, <4>2
        <5>2. QED
          BY <1>1, <3>1, <3>2, <5>1 DEF BoxInv
      <4>3. QED
        BY <4>1, <4>2
    <3>3. QED
      BY <1>1, <2>3, <3>1, <3>2 DEF BoxInv
  <2>4. QED
    BY <2>1, <2>2, <2>3
<1>5. BoxInv'
  BY <1>2, <1>4 DEF BoxInv
<1>6. ASSUME NEW t \in Stream, to'[t] # NoConn
      PROVE  /\ to'[t] = Owner(t) /\ at[t] >= 1
             /\ \A i \in 1..Len(box'[Owner(t)]) :
                   box'[Owner(t)][i].stream = t => box'[Owner(t)][i].n < at[t]
  <2>1. t # s /\ to'[t] = to[t] /\ Owner(t) \in Conn
    BY <1>2, <1>6, StreamFacts DEF TypeOK
  <2>2. to[t] = Owner(t) /\ at[t] >= 1
        /\ \A i \in 1..Len(box[Owner(t)]) : box[Owner(t)][i].stream = t => box[Owner(t)][i].n < at[t]
    BY <1>6, <2>1 DEF SendInv
  <2>3. ASSUME NEW i \in 1..Len(box'[Owner(t)]), box'[Owner(t)][i].stream = t
        PROVE  box'[Owner(t)][i].n < at[t]
    <3>1. CASE Owner(t) # c
      BY <1>1, <2>1, <2>2, <2>3, <3>1
    <3>2. CASE Owner(t) = c
      <4>1. i # L + 1
        BY <1>1, <2>1, <2>3, <3>2
      <4>2. i \in 1..L /\ box'[c][i] = box[c][i]
        BY <1>1, <3>2, <4>1
      <4>3. QED
        BY <2>2, <2>3, <3>2, <4>2
    <3>3. QED
      BY <3>1, <3>2
  <2>4. QED
    BY <2>1, <2>2, <2>3
<1>7. SendInv'
  BY <1>2, <1>6 DEF SendInv
<1>8. QED
  BY <1>5, <1>7

LEMMA UpToDateStep == TypeOK /\ UpToDate /\ [Next]_vars => UpToDate'
<1> SUFFICES ASSUME TypeOK, UpToDate, [Next]_vars PROVE UpToDate'
  OBVIOUS
<1>1. ASSUME NEW c \in Conn, Connect(c) PROVE UpToDate'
  BY <1>1 DEF Connect, UpToDate, TypeOK, channel
<1>2. ASSUME NEW c \in Conn, Leave(c) PROVE UpToDate'
  BY <1>2 DEF Leave, UpToDate, channel
<1>3. ASSUME NEW c \in Conn, WriteMsg(c) PROVE UpToDate'
  <2>1. /\ \A d \in Conn : d # c => /\ loop'[d] = loop[d] /\ (d \in up' <=> d \in up)
                                    /\ taken'[d] = taken[d] /\ received'[d] = received[d]
        /\ taken'[c] = taken[c] + 1
    BY <1>3 DEF WriteMsg, Return, TypeOK
  <2>2. \/ loop'[c] = "run" /\ c \in up /\ received'[c] = taken[c] + 1
        \/ loop'[c] = "run" /\ c \notin up'
        \/ loop'[c] = "done" /\ c \notin up'
    BY <1>3 DEF WriteMsg, Return, TypeOK
  <2>3. QED
    BY <2>1, <2>2 DEF UpToDate
<1>4. ASSUME NEW c \in Conn, TakeReadErr(c) PROVE UpToDate'
  BY <1>4 DEF TakeReadErr, Return, UpToDate, TypeOK, channel
<1>5. CASE UNCHANGED <<up, loop, received, taken>>
  BY <1>5 DEF UpToDate
<1>6. ASSUME NEW c \in Conn, Receive(c) \/ ReadFails(c) \/ TakeJob(c) PROVE UpToDate'
  BY <1>5, <1>6 DEF Receive, ReadFails, TakeJob, channel
<1>7. ASSUME NEW j \in Job, \/ Submit(j) \/ PushToBroker(j) \/ Subscribed(j) \/ Publish(j)
                            \/ HandleLog(j) \/ StreamEnds(j) \/ BuildZip(j) \/ NextFrame(j)
      PROVE  UpToDate'
  BY <1>5, <1>7 DEF Submit, PushToBroker, Subscribed, Publish, HandleLog, StreamEnds, BuildZip,
                    NextFrame, connection, channel
<1>8. ASSUME NEW s \in Stream, SendToSubscriber(s) PROVE UpToDate'
  BY <1>5, <1>8 DEF SendToSubscriber, Put, TimesOut, connection, channel
<1>9. CASE UNCHANGED vars
  BY <1>5, <1>9 DEF vars, connection, channel
<1>10. QED
  BY <1>1, <1>2, <1>3, <1>4, <1>6, <1>7, <1>8, <1>9 DEF Next, Loop, ReadLoop

\* A line that is published goes to the end of the feed.
LEMMA PublishFeed ==
    ASSUME TypeOK, FeedInv, NEW j \in Job, Publish(j)
    PROVE  FeedInv'
<1> DEFINE n == published[j] + 1
           L == Len(feed[j])
<1>1. /\ published' = [published EXCEPT ![j] = n] /\ at' = at
      /\ feed' = feed \/ feed' = [feed EXCEPT ![j] = Append(@, n)]
  BY DEF Publish, sending
<1>2. published \in [Job -> 0..Logs] /\ feed \in [Job -> Seq(1..Logs)] /\ n \in 1..Logs
  BY LogStreamAssumption DEF TypeOK, Publish
<1>3. at \in [Stream -> Nat] /\ \A k \in Job : LogOf(k) \in Stream
  BY StreamFacts DEF TypeOK
<1>4. \A k \in Job : /\ published'[k] = IF k = j THEN n ELSE published[k]
                     /\ published[k] \in Nat /\ at[LogOf(k)] \in Nat
  BY <1>1, <1>2, <1>3
<1>5. ASSUME NEW k \in Job, NEW i \in 1..Len(feed[k]) PROVE feed[k][i] \in Nat
  <2>1. feed[k] \in Seq(1..Logs)
    BY <1>2
  <2>2. feed[k][i] \in 1..Logs
    BY <2>1, ElementOfSeq
  <2>3. QED
    BY <2>2
<1>6. CASE feed' = feed
  BY <1>1, <1>4, <1>5, <1>6 DEF FeedInv
<1>7. CASE feed' = [feed EXCEPT ![j] = Append(@, n)]
  <2>1. \A k \in Job : feed'[k] = IF k = j THEN Append(feed[j], n) ELSE feed[k]
    BY <1>2, <1>7
  <2>2. /\ L \in Nat /\ Len(feed'[j]) = L + 1 /\ feed'[j][L + 1] = n
        /\ \A i \in 1..L : feed'[j][i] = feed[j][i]
    <3>1. feed[j] \in Seq(1..Logs)
      BY <1>2
    <3>2. /\ L \in Nat /\ Len(Append(feed[j], n)) = L + 1 /\ Append(feed[j], n)[L + 1] = n
          /\ \A i \in 1..L : Append(feed[j], n)[i] = feed[j][i]
      BY <1>2, <3>1, AppendProperties, LenProperties
    <3>3. QED
      BY <2>1, <3>2
  <2>3. ASSUME NEW k \in Job
        PROVE  /\ at[LogOf(k)] <= published'[k]
               /\ \A i \in 1..Len(feed'[k]) : feed'[k][i] > at[LogOf(k)] /\ feed'[k][i] <= published'[k]
               /\ \A h, i \in 1..Len(feed'[k]) : h < i => feed'[k][h] < feed'[k][i]
    <3>1. CASE k # j
      BY <1>4, <2>1, <3>1 DEF FeedInv
    <3>2. CASE k = j
      <4>1. at[LogOf(j)] <= published[j] /\ published[j] < n /\ published'[j] = n
        BY <1>4 DEF FeedInv
      <4>2. ASSUME NEW i \in 1..L
            PROVE  feed[j][i] \in Nat /\ feed[j][i] > at[LogOf(j)] /\ feed[j][i] <= published[j]
        BY <1>5 DEF FeedInv
      <4>3. ASSUME NEW i \in 1..Len(feed'[j])
            PROVE  feed'[j][i] > at[LogOf(j)] /\ feed'[j][i] <= n
        <5>1. CASE i = L + 1
          BY <1>4, <2>2, <4>1, <5>1
        <5>2. CASE i \in 1..L
          BY <1>4, <2>2, <4>1, <4>2, <5>2
        <5>3. QED
          BY <2>2, <5>1, <5>2
      <4>4. ASSUME NEW h \in 1..Len(feed'[j]), NEW i \in 1..Len(feed'[j]), h < i
            PROVE  feed'[j][h] < feed'[j][i]
        <5>1. h \in 1..L /\ feed'[j][h] = feed[j][h]
          BY <2>2, <4>4
        <5>2. CASE i = L + 1
          BY <1>4, <2>2, <4>1, <4>2, <5>1, <5>2
        <5>3. CASE i \in 1..L
          BY <2>2, <4>4, <5>1, <5>3 DEF FeedInv
        <5>4. QED
          BY <2>2, <5>2, <5>3
      <4>5. at[LogOf(j)] <= published'[j]
        BY <1>4, <4>1
      <4>6. QED
        BY <3>2, <4>1, <4>3, <4>4, <4>5
    <3>3. QED
      BY <3>1, <3>2
  <2>4. QED
    BY <1>1, <2>3 DEF FeedInv
<1>8. QED
  BY <1>1, <1>6, <1>7

\* The handler goes on to the head of the feed; the others follow.
LEMMA HandleFeed ==
    ASSUME TypeOK, FeedInv, NEW j \in Job, HandleLog(j)
    PROVE  FeedInv' /\ Head(feed[j]) > at[LogOf(j)]
<1> DEFINE n == Head(feed[j])
           L == Len(feed[j])
<1>1. /\ n \in 1..Logs /\ n = feed[j][1] /\ L \in Nat \ {0}
      /\ feed' = [feed EXCEPT ![j] = Tail(@)]
      /\ Len(feed'[j]) = L - 1 /\ \A i \in 1..Len(feed'[j]) : feed'[j][i] = feed[j][i + 1]
      /\ at' = [at EXCEPT ![LogOf(j)] = n]
  BY HandledLine
<1>2. published' = published
  BY DEF HandleLog
<1>3. \A k \in Job : k # j => feed'[k] = feed[k] /\ at'[LogOf(k)] = at[LogOf(k)]
  BY <1>1, StreamFacts DEF TypeOK
<1>4. at'[LogOf(j)] = n
  BY <1>1, StreamFacts DEF TypeOK
<1> HIDE DEF n
<1>5. n > at[LogOf(j)] /\ n <= published[j]
  BY <1>1 DEF FeedInv
<1>6. ASSUME NEW i \in 1..Len(feed'[j])
      PROVE  /\ i + 1 \in 1..L /\ feed'[j][i] = feed[j][i + 1]
             /\ feed'[j][i] > n /\ feed'[j][i] <= published[j]
  <2>1. i + 1 \in 1..L /\ feed'[j][i] = feed[j][i + 1]
    BY <1>1
  <2>2. feed[j][1] < feed[j][i + 1] /\ feed[j][i + 1] <= published[j]
    BY <1>1, <2>1 DEF FeedInv
  <2>3. feed[j] \in Seq(1..Logs)
    BY DEF TypeOK
  <2>4. feed[j][i + 1] \in 1..Logs
    BY <2>1, <2>3, ElementOfSeq
  <2>5. QED
    BY <1>1, <2>1, <2>2, <2>4
<1>7. ASSUME NEW h \in 1..Len(feed'[j]), NEW i \in 1..Len(feed'[j]), h < i
      PROVE  feed'[j][h] < feed'[j][i]
  BY <1>1, <1>6, <1>7 DEF FeedInv
<1>8. FeedInv'
  BY <1>2, <1>3, <1>4, <1>5, <1>6, <1>7 DEF FeedInv
<1>9. QED
  BY <1>5, <1>8 DEF n

LEMMA FlowStep == TypeOK /\ OwnEntries /\ Flow /\ [Next]_vars => Flow'
<1> SUFFICES ASSUME TypeOK, OwnEntries, Flow, [Next]_vars PROVE FeedInv' /\ BoxInv' /\ SendInv'
  BY UpToDateStep DEF Flow
<1>1. UpToDate /\ FeedInv /\ BoxInv /\ SendInv
  BY DEF Flow
<1>2. ASSUME NEW j \in Job, Publish(j) PROVE FeedInv' /\ BoxInv' /\ SendInv'
  <2>1. FeedInv'
    BY <1>1, <1>2, PublishFeed
  <2>2. QED
    BY <1>1, <1>2, <2>1 DEF Publish, BoxInv, SendInv, channel, sending
<1>3. ASSUME NEW j \in Job, HandleLog(j) PROVE FeedInv' /\ BoxInv' /\ SendInv'
  <2>1. FeedInv' /\ Head(feed[j]) > at[LogOf(j)] /\ Head(feed[j]) \in 1..Logs
    BY <1>1, <1>3, HandleFeed, HandledLine
  <2>2. LookUp(LogOf(j), Head(feed[j])) /\ box' = box /\ LogOf(j) \in Stream
    BY <1>3, StreamFacts DEF HandleLog, channel
  <2>3. Head(feed[j]) \in Nat
    BY <2>1
  <2>4. QED
    BY <1>1, <2>1, <2>2, <2>3, LookedUp
<1>4. ASSUME NEW j \in Job, StreamEnds(j) PROVE FeedInv' /\ BoxInv' /\ SendInv'
  <2>1. feed' = [feed EXCEPT ![j] = <<>>] /\ at' = at /\ published' = published
    BY <1>4 DEF StreamEnds, sending
  <2>2. Len(<<>>) = 0 /\ \A k \in Job : feed'[k] = feed[k] \/ feed'[k] = <<>>
    BY <2>1, EmptySeq DEF TypeOK
  <2>3. ASSUME NEW k \in Job
        PROVE  /\ \A i \in 1..Len(feed'[k]) : feed'[k][i] > at[LogOf(k)] /\ feed'[k][i] <= published[k]
               /\ \A h, i \in 1..Len(feed'[k]) : h < i => feed'[k][h] < feed'[k][i]
    <3>1. CASE feed'[k] = feed[k]
      BY <1>1, <3>1 DEF FeedInv
    <3>2. CASE feed'[k] = <<>>
      BY <2>2, <3>2
    <3>3. QED
      BY <2>2, <3>1, <3>2
  <2>4. FeedInv'
    BY <1>1, <2>1, <2>3 DEF FeedInv
  <2>5. QED
    BY <1>1, <1>4, <2>4 DEF StreamEnds, BoxInv, SendInv, channel, sending
<1>5. ASSUME NEW j \in Job, NextFrame(j) PROVE FeedInv' /\ BoxInv' /\ SendInv'
  <2> DEFINE s == ExportOf(j)
             n == at[s] + 1
  <2>1. s \in Stream /\ n \in Nat /\ n > at[s] /\ \A k \in Job : LogOf(k) # s
    BY StreamFacts DEF TypeOK
  <2>2. box' = box /\ feed' = feed /\ published' = published
        /\ (LookUp(s, n) \/ (at' = at /\ to' = to))
    BY <1>5 DEF NextFrame, channel, redis
  <2> HIDE DEF n, s
  <2>3. CASE LookUp(s, n)
    <3>1. \A k \in Job : at'[LogOf(k)] = at[LogOf(k)]
      BY <2>1, <2>3, StreamFacts DEF LookUp, TypeOK
    <3>2. FeedInv'
      BY <1>1, <2>2, <3>1 DEF FeedInv
    <3>3. QED
      BY <1>1, <2>1, <2>2, <2>3, <3>2, LookedUp
  <2>4. CASE at' = at /\ to' = to
    BY <1>1, <2>2, <2>4 DEF FeedInv, BoxInv, SendInv
  <2>5. QED
    BY <2>2, <2>3, <2>4
<1>6. ASSUME NEW s \in Stream, Put(s) PROVE FeedInv' /\ BoxInv' /\ SendInv'
  <2>1. FeedInv'
    BY <1>1, <1>6 DEF Put, FeedInv, redis
  <2>2. QED
    BY <1>1, <1>6, <2>1, PutFlow
<1>7. ASSUME NEW s \in Stream, TimesOut(s) PROVE FeedInv' /\ BoxInv' /\ SendInv'
  <2>1. at' = at /\ box' = box /\ feed' = feed /\ published' = published
        /\ \A t \in Stream : to'[t] # NoConn => to'[t] = to[t]
    BY <1>7 DEF TimesOut, channel, redis, TypeOK
  <2>2. QED
    BY <1>1, <2>1 DEF FeedInv, BoxInv, SendInv
<1>8. CASE UNCHANGED <<published, feed, at, to, box>>
  BY <1>1, <1>8 DEF FeedInv, BoxInv, SendInv
<1>9. ASSUME NEW c \in Conn, \/ Connect(c) \/ Leave(c) \/ Receive(c) \/ ReadFails(c)
                             \/ WriteMsg(c) \/ TakeJob(c) \/ TakeReadErr(c)
      PROVE  FeedInv' /\ BoxInv' /\ SendInv'
  BY <1>8, <1>9 DEF Connect, Leave, Receive, ReadFails, WriteMsg, TakeJob, TakeReadErr,
                    channel, redis, sending
<1>10. ASSUME NEW j \in Job, Submit(j) \/ PushToBroker(j) \/ Subscribed(j) \/ BuildZip(j)
       PROVE  FeedInv' /\ BoxInv' /\ SendInv'
  BY <1>8, <1>10 DEF Submit, PushToBroker, Subscribed, BuildZip, channel, redis, sending
<1>11. CASE UNCHANGED vars
  BY <1>8, <1>11 DEF vars, channel, redis, sending
<1>12. QED
  BY <1>2, <1>3, <1>4, <1>5, <1>6, <1>7, <1>9, <1>10, <1>11
  DEF Next, Loop, ReadLoop, SendToSubscriber

-----------------------------------------------------------------------------
(* The theorems *)

LEMMA IInvInit == Init => IInv
<1> SUFFICES ASSUME Init PROVE IInv
  OBVIOUS
<1> USE LogStreamAssumption
<1>1. Len(<<>>) = 0
  BY EmptySeq
<1>2. TypeOK
  BY TypeInit
<1>3. OwnJobs
  BY <1>1 DEF Init, OwnJobs, OnItsWay
<1>4. Fresh /\ OwnEntries /\ OneEntry /\ Unsubscribed
  BY DEF Init, Fresh, OwnEntries, OneEntry, Unsubscribed, Key
<1>5. UpToDate /\ SendInv
  BY DEF Init, UpToDate, SendInv
<1>6. FeedInv
  BY <1>1, StreamFacts DEF Init, FeedInv
<1>7. BoxInv
  BY <1>1 DEF Init, BoxInv
<1>8. QED
  BY <1>2, <1>3, <1>4, <1>5, <1>6, <1>7 DEF IInv, Entries, Flow

LEMMA Invariant == Spec => []IInv
<1>1. IInv /\ [Next]_vars => IInv'
  <2> SUFFICES ASSUME IInv, [Next]_vars PROVE IInv'
    OBVIOUS
  <2>1. TypeOK /\ OwnJobs /\ Entries /\ OwnEntries /\ Flow
    BY DEF IInv, Entries
  <2>2. QED
    BY <2>1, TypeStep, OwnStep, EntriesStep, FlowStep DEF IInv
<1>2. QED
  BY <1>1, IInvInit, PTL DEF Spec

\* The variables of the server keep their types; in particular a job goes to the
\* broker at most once, whether its push is early or late or fails, only submitted
\* jobs are pushed or subscribed to, and a client never has more than the loop took
\* out of msgs.
THEOREM TypeCorrect == Spec => []TypeOK
BY Invariant, PTL DEF IInv

\* A running subscribe() is in the map under the one key it knows, however many
\* jobs its client submits and whatever the other connections do.
THEOREM EntryIsUnique == Spec => []OneEntry
BY Invariant, PTL DEF IInv, Entries

\* The subscription of the active job ends with its connection.
THEOREM EndsUnsubscribed == Spec => []Unsubscribed
BY Invariant, PTL DEF IInv, Entries

LEMMA AbstractInit == Init => Abstract!Init
<1> SUFFICES ASSUME Init PROVE Abstract!Init
  OBVIOUS
<1>1. ASSUME NEW s \in Stream PROVE (IF s[2] = "log" THEN published[s[1]] ELSE at[s]) = 0
  BY StreamFacts DEF Init
<1>2. ASSUME NEW c \in Conn PROVE SubSeq(box[c], 1, received[c]) = <<>>
  <2>1. received[c] = 0
    BY DEF Init
  <2>2. QED
    BY <2>1, SubSeqEmpty
<1>3. QED
  BY <1>1, <1>2 DEF Abstract!Init

\* What the state shows of Delivery.
SentOf(s) == IF s[2] = "log" THEN published[s[1]] ELSE at[s]
GotOf(c) == SubSeq(box[c], 1, received[c])
SentMap == [s \in Stream |-> SentOf(s)]
GotMap == [c \in Conn |-> GotOf(c)]

LEMMA StreamKinds ==
    \A s \in Stream : \/ s[2] = "log" /\ s = LogOf(s[1])
                      \/ s[2] = "export" /\ s = ExportOf(s[1])
BY DEF Stream, LogOf, ExportOf

\* One more message of a stream is a step Send.
LEMMA AbstractSend ==
    ASSUME NEW s \in Stream, SentOf(s)' = SentOf(s) + 1,
           \A t \in Stream : t # s => SentOf(t)' = SentOf(t), UNCHANGED GotMap
    PROVE  Abstract!Next
<1>1. SentMap' = [SentMap EXCEPT ![s] = SentMap[s] + 1]
  BY DEF SentMap
<1>2. Abstract!Send(s)
  BY <1>1 DEF Abstract!Send, SentMap, SentOf, GotMap, GotOf
<1>3. QED
  BY <1>2 DEF Abstract!Next

LEMMA SameGot ==
    ASSUME UNCHANGED <<box, received>>
    PROVE  UNCHANGED GotMap
BY DEF GotMap, GotOf

LEMMA AbstractStutter ==
    ASSUME UNCHANGED <<SentMap, GotMap>>
    PROVE  UNCHANGED Abstract!vars
BY DEF Abstract!vars, SentMap, SentOf, GotMap, GotOf

LEMMA DeliverMeans ==
    ASSUME NEW s \in Stream, NEW n,
           \A i \in DOMAIN GotMap[Owner(s)] :
              GotMap[Owner(s)][i].stream = s => GotMap[Owner(s)][i].n < n,
           GotMap' = [GotMap EXCEPT ![Owner(s)] = Append(GotMap[Owner(s)], [stream |-> s, n |-> n])],
           SentMap' = SentMap
    PROVE  Abstract!Deliver(s, n)
<1>1. [x \in Stream |-> Owner(x)][s] = Owner(s)
  OBVIOUS
<1>2. QED
  BY <1>1 DEF Abstract!Deliver, SentMap, SentOf, GotMap, GotOf

LEMMA NextMeans ==
    ASSUME NEW s \in Stream, NEW n \in 1..SentMap[s], Abstract!Deliver(s, n)
    PROVE  Abstract!Next
BY DEF Abstract!Next, SentMap, SentOf

\* What the client gets when the loop writes a message is the next of its stream.
LEMMA AbstractDeliver ==
    ASSUME IInv, NEW c \in Conn, WriteMsg(c), received' # received, UNCHANGED SentMap
    PROVE  Abstract!Next
<1> DEFINE r == received[c]
           m == box[c][r + 1]
           s == m.stream
<1>1. TypeOK /\ UpToDate /\ FeedInv /\ BoxInv
  BY DEF IInv, Flow
<1>2. /\ c \in up /\ taken[c] < Len(box[c]) /\ box' = box
      /\ received' = [received EXCEPT ![c] = taken[c] + 1]
  BY DEF WriteMsg
<1>3. taken[c] = r /\ r \in Nat /\ box[c] \in Seq(Message) /\ Len(box[c]) \in Nat
  BY <1>1, <1>2, LenProperties DEF UpToDate, TypeOK
<1>4. r + 1 \in 1..Len(box[c])
  BY <1>2, <1>3
<1>5. m \in Message
  BY <1>3, <1>4, ElementOfSeq
<1>6. s \in Stream /\ m.n \in Nat /\ m = [stream |-> s, n |-> m.n]
  BY <1>5 DEF Message
<1>7. \A i \in 1..r : box[c][i] \in Message
  BY <1>3, <1>4, ElementOfSeq
<1>8. /\ GotOf(c) \in Seq(Message) /\ DOMAIN GotOf(c) = 1..r
      /\ \A i \in 1..r : GotOf(c)[i] = box[c][i]
  <2>1. /\ SubSeq(box[c], 1, r) \in Seq(Message)
        /\ Len(SubSeq(box[c], 1, r)) = IF 1 <= r THEN r - 1 + 1 ELSE 0
        /\ \A i \in 1..r - 1 + 1 : SubSeq(box[c], 1, r)[i] = box[c][1 + i - 1]
    BY <1>3, <1>7, SubSeqProperties
  <2>2. Len(SubSeq(box[c], 1, r)) = r
    BY <1>3, <2>1
  <2>3. DOMAIN SubSeq(box[c], 1, r) = 1..r
    BY <2>1, <2>2, LenProperties
  <2>4. \A i \in 1..r : SubSeq(box[c], 1, r)[i] = box[c][i]
    BY <1>3, <2>1
  <2>5. QED
    BY <2>1, <2>3, <2>4 DEF GotOf
<1>9. GotOf(c)' = Append(GotOf(c), m)
  <2>1. received'[c] = r + 1
    BY <1>1, <1>2, <1>3 DEF TypeOK
  <2>2. SubSeq(box[c], 1, r + 1) = SubSeq(box[c], 1, r + 1 - 1) \o <<m>>
    <3> HIDE DEF s, m, r
    <3>1. 1 \in 1..Len(box[c]) /\ r + 1 \in 1..Len(box[c])
      BY <1>3, <1>4
    <3>2. SubSeq(box[c], 1, r + 1) = SubSeq(box[c], 1, r + 1 - 1) \o <<box[c][r + 1]>>
      BY <1>3, <3>1, SubSeqRecursiveSecond
    <3>3. QED
      BY <3>2 DEF m
  <2>3. Append(GotOf(c), m) = GotOf(c) \o <<m>>
    BY <1>5, <1>8, AppendIsConcat
  <2>4. r + 1 - 1 = r
    BY <1>3
  <2>5. QED
    BY <1>2, <2>1, <2>2, <2>3, <2>4 DEF GotOf
<1>10. \A d \in Conn : d # c => GotOf(d)' = GotOf(d)
  BY <1>1, <1>2 DEF GotOf, TypeOK
<1>11. GotMap' = [GotMap EXCEPT ![c] = Append(GotMap[c], m)]
  BY <1>9, <1>10 DEF GotMap
<1>12. /\ Owner(s) = c /\ m.n >= 1 /\ m.n <= at[s]
       /\ \A i \in 1..r : box[c][i].stream = s => box[c][i].n < m.n
  <2>1. Owner(s) = c /\ m.n >= 1 /\ m.n <= at[s]
    BY <1>1, <1>4 DEF BoxInv
  <2>2. ASSUME NEW i \in 1..r, box[c][i].stream = s PROVE box[c][i].n < m.n
    <3> DEFINE k == r + 1
    <3>1. i \in 1..Len(box[c]) /\ k \in 1..Len(box[c]) /\ i < k
      BY <1>3, <1>4
    <3>2. m = box[c][k] /\ box[c][i].stream = m.stream
      BY <2>2
    <3> HIDE DEF k, m
    <3>3. box[c][i].n < box[c][k].n
      BY <1>1, <3>1, <3>2 DEF BoxInv
    <3>4. QED
      BY <3>2, <3>3
  <2>3. QED
    BY <2>1, <2>2
<1>13. at[s] <= SentOf(s) /\ at[s] \in Nat /\ SentOf(s) \in Nat
  <2> HIDE DEF s
  <2>0. s[1] \in Job /\ at[s] \in Nat
    BY <1>1, <1>6, StreamFacts DEF TypeOK
  <2>1. s[1] \in Job /\ at[s] \in Nat /\ published[s[1]] \in Nat
    BY <1>1, <2>0, LogStreamAssumption DEF TypeOK
  <2>2. s[2] = "log" => at[s] <= published[s[1]]
    BY <1>1, <1>6, <2>1, StreamKinds DEF FeedInv
  <2>3. QED
    BY <2>1, <2>2 DEF SentOf
<1>14. m.n \in 1..SentMap[s] /\ SentMap[s] = SentOf(s)
  BY <1>6, <1>12, <1>13 DEF SentMap
<1>15. \A i \in DOMAIN GotMap[c] : GotMap[c][i].stream = s => GotMap[c][i].n < m.n
  BY <1>8, <1>12 DEF GotMap
<1> HIDE DEF s, m, r
<1>16. PICK t \in Stream, n \in Nat : t = s /\ n = m.n
  BY <1>6
<1>17. GotMap' = [GotMap EXCEPT ![c] = Append(GotMap[c], [stream |-> t, n |-> n])]
  BY <1>6, <1>11, <1>16
<1>18. Owner(t) = c /\ n \in 1..SentMap[t]
       /\ \A i \in DOMAIN GotMap[c] : GotMap[c][i].stream = t => GotMap[c][i].n < n
  BY <1>12, <1>14, <1>15, <1>16
<1>19. SentMap' = SentMap
  OBVIOUS
<1>20. Abstract!Deliver(t, n)
  BY <1>17, <1>18, <1>19, DeliverMeans
<1>21. QED
  BY <1>18, <1>20, NextMeans

LEMMA AbstractStep == IInv /\ [Next]_vars => [Abstract!Next]_(Abstract!vars)
<1> SUFFICES ASSUME IInv, [Next]_vars PROVE Abstract!Next \/ UNCHANGED Abstract!vars
  OBVIOUS
<1>1. TypeOK
  BY DEF IInv
<1>2. CASE UNCHANGED <<published, at, box, received>>
  <2>1. UNCHANGED SentMap
    BY <1>2 DEF SentMap, SentOf
  <2>2. QED
    BY <1>2, <2>1, SameGot, AbstractStutter
<1>3. ASSUME NEW j \in Job, Publish(j) PROVE Abstract!Next
  <2> DEFINE s == LogOf(j)
  <2>1. /\ published' = [published EXCEPT ![j] = published[j] + 1]
        /\ at' = at /\ box' = box /\ received' = received
    BY <1>3 DEF Publish, channel, sending
  <2>2. s \in Stream /\ s[1] = j /\ s[2] = "log"
    BY StreamFacts DEF LogOf
  <2>3. SentOf(s)' = SentOf(s) + 1
    BY <1>1, <2>1, <2>2 DEF SentOf, TypeOK
  <2>4. ASSUME NEW t \in Stream, t # s PROVE SentOf(t)' = SentOf(t)
    <3>1. t[2] = "log" => t[1] # j /\ t[1] \in Job
      BY <2>4, StreamKinds, StreamFacts
    <3>2. QED
      BY <1>1, <2>1, <3>1 DEF SentOf, TypeOK
  <2>5. QED
    BY <2>1, <2>2, <2>3, <2>4, SameGot, AbstractSend
<1>4. ASSUME NEW j \in Job, NextFrame(j) PROVE Abstract!Next \/ UNCHANGED Abstract!vars
  <2> DEFINE s == ExportOf(j)
  <2>1. published' = published /\ box' = box /\ received' = received
    BY <1>4 DEF NextFrame, channel, redis
  <2>2. at' = [at EXCEPT ![s] = at[s] + 1] \/ at' = at
    BY <1>4 DEF NextFrame, LookUp
  <2>3. s \in Stream /\ s[2] # "log"
    BY StreamFacts DEF ExportOf
  <2>4. CASE at' = [at EXCEPT ![s] = at[s] + 1]
    <3>1. SentOf(s)' = SentOf(s) + 1
      BY <1>1, <2>3, <2>4 DEF SentOf, TypeOK
    <3>2. ASSUME NEW t \in Stream, t # s PROVE SentOf(t)' = SentOf(t)
      BY <1>1, <2>1, <2>4, <3>2 DEF SentOf, TypeOK
    <3>3. QED
      BY <2>1, <2>3, <3>1, <3>2, SameGot, AbstractSend
  <2>5. QED
    BY <1>2, <2>1, <2>2, <2>4
<1>5. ASSUME NEW j \in Job, HandleLog(j) PROVE UNCHANGED Abstract!vars
  <2>1. /\ at' = [at EXCEPT ![LogOf(j)] = Head(feed[j])]
        /\ published' = published /\ box' = box /\ received' = received
    BY <1>1, <1>5, HandledLine DEF HandleLog, channel
  <2>2. LogOf(j)[2] = "log"
    BY DEF LogOf
  <2>3. ASSUME NEW t \in Stream PROVE SentOf(t)' = SentOf(t)
    BY <1>1, <2>1, <2>2 DEF SentOf, TypeOK
  <2>4. UNCHANGED SentMap
    BY <2>3 DEF SentMap
  <2>5. QED
    BY <2>1, <2>4, SameGot, AbstractStutter
<1>6. ASSUME NEW s \in Stream, Put(s) PROVE UNCHANGED Abstract!vars
  <2> DEFINE c == to[s]
  <2>1. /\ c \in Conn /\ Len(box[c]) \in Nat /\ Len(box'[c]) = Len(box[c]) + 1
        /\ \A i \in 1..Len(box[c]) : box'[c][i] = box[c][i]
        /\ \A d \in Conn : d # c => box'[d] = box[d]
        /\ box' \in [Conn -> Seq(Message)]
    BY <1>1, <1>6, PutMessage
  <2>2. published' = published /\ at' = at /\ received' = received
    BY <1>6 DEF Put, redis
  <2>3. SubSeq(box'[c], 1, received[c]) = SubSeq(box[c], 1, received[c])
    <3> DEFINE r == received[c]
               p == SubSeq(box[c], 1, r)
               q == SubSeq(box'[c], 1, r)
    <3>1. r \in Nat /\ r <= Len(box[c]) /\ box[c] \in Seq(Message) /\ box'[c] \in Seq(Message)
      BY <1>1, <2>1 DEF TypeOK
    <3> HIDE DEF r
    <3>2. \A i \in 1..r : box[c][i] \in Message /\ box'[c][i] = box[c][i]
      BY <2>1, <3>1, ElementOfSeq
    <3>3. \A i \in 1..r : box'[c][i] \in Message
      BY <3>2
    <3>4. /\ p \in Seq(Message) /\ Len(p) = IF 1 <= r THEN r - 1 + 1 ELSE 0
          /\ \A i \in 1..r - 1 + 1 : p[i] = box[c][1 + i - 1]
      BY <3>1, <3>2, SubSeqProperties
    <3>5. /\ q \in Seq(Message) /\ Len(q) = IF 1 <= r THEN r - 1 + 1 ELSE 0
          /\ \A i \in 1..r - 1 + 1 : q[i] = box'[c][1 + i - 1]
      BY <3>1, <3>3, SubSeqProperties
    <3> HIDE DEF p, q
    <3>6. Len(p) = r /\ Len(q) = r
      BY <3>1, <3>4, <3>5
    <3>7. \A i \in 1..r : p[i] = box[c][i] /\ q[i] = box'[c][i]
      BY <3>1, <3>4, <3>5
    <3>8. p = q
      BY <3>2, <3>4, <3>5, <3>6, <3>7, SeqEqual
    <3>9. QED
      BY <3>8 DEF p, q, r
  <2>4. UNCHANGED GotMap
    BY <2>1, <2>2, <2>3 DEF GotMap, GotOf
  <2>5. UNCHANGED SentMap
    BY <2>2 DEF SentMap, SentOf
  <2>6. QED
    BY <2>4, <2>5, AbstractStutter
<1>7. ASSUME NEW c \in Conn, WriteMsg(c) PROVE Abstract!Next \/ UNCHANGED Abstract!vars
  <2>1. published' = published /\ at' = at /\ box' = box
    BY <1>7 DEF WriteMsg, sending
  <2>2. UNCHANGED SentMap
    BY <2>1 DEF SentMap, SentOf
  <2>3. QED
    BY <1>2, <1>7, <2>1, <2>2, AbstractDeliver
<1>8. ASSUME NEW c \in Conn, \/ Connect(c) \/ Leave(c) \/ Receive(c) \/ ReadFails(c)
                             \/ TakeJob(c) \/ TakeReadErr(c)
      PROVE  UNCHANGED <<published, at, box, received>>
  BY <1>8 DEF Connect, Leave, Receive, ReadFails, TakeJob, TakeReadErr, channel, redis, sending
<1>9. ASSUME NEW j \in Job, \/ Submit(j) \/ PushToBroker(j) \/ Subscribed(j)
                            \/ StreamEnds(j) \/ BuildZip(j)
      PROVE  UNCHANGED <<published, at, box, received>>
  BY <1>9 DEF Submit, PushToBroker, Subscribed, StreamEnds, BuildZip, channel, redis, sending
<1>10. ASSUME NEW s \in Stream, TimesOut(s) PROVE UNCHANGED <<published, at, box, received>>
  BY <1>10 DEF TimesOut, channel, redis
<1>11. CASE UNCHANGED vars
  BY <1>2, <1>11 DEF vars, channel, redis, sending
<1>12. QED
  BY <1>2, <1>3, <1>4, <1>5, <1>6, <1>7, <1>8, <1>9, <1>10, <1>11
  DEF Next, Loop, ReadLoop, SendToSubscriber

\* The server implements Delivery: every connection gets messages of its own jobs
\* only, those of a stream in order and none twice, whatever is re-keyed, dropped,
\* slow or disconnected meanwhile.
THEOREM Refinement == Spec => DeliverySpec
<1>1. Init => Abstract!Init
  BY AbstractInit
<1>2. IInv /\ [Next]_vars => [Abstract!Next]_(Abstract!vars)
  BY AbstractStep
<1>3. QED
  BY <1>1, <1>2, Invariant, PTL DEF Spec, DeliverySpec, Abstract!Spec
=============================================================================
