---------------------------- MODULE SessionProofs ----------------------------
(***************************************************************************)
(* For any connections, jobs, sizes of archives and chunks:                *)
(*                                                                         *)
(* - "Export download complete!" is said of a whole archive only, if no    *)
(*   client is too slow to take a message in two seconds. First comes the  *)
(*   arithmetic of chunks: cut up and put together again, an archive is    *)
(*   the same. Then the way of its frames: as long as a client is          *)
(*   connected and known by the job's key, it is sent all of them.         *)
(*                                                                         *)
(* - The server's channels implement the wire of Export, whatever goes     *)
(*   wrong.                                                                *)
(***************************************************************************)
EXTENDS Session, LogStreamProofs, WellFoundedInduction

-----------------------------------------------------------------------------
(* The chunks of an archive *)

\* A set of numbers has a least one.
LEMMA LeastElement ==
    ASSUME NEW T, T \subseteq Nat, T # {}
    PROVE  \E x \in T : \A y \in T : x <= y
<1> DEFINE R == OpToRel(<, Nat)
<1>1. IsWellFoundedOn(R, Nat)
  BY NatLessThanWellFounded
<1>2. \A x, y \in Nat : x < y => <<x, y>> \in R
  BY DEF OpToRel
<1> HIDE DEF R
<1>3. PICK x \in T : \A y \in T : ~(<<y, x>> \in R)
  BY <1>1, WFMin
<1>4. ASSUME NEW y \in T PROVE x <= y
  <2>1. x \in Nat /\ y \in Nat /\ ~(y < x)
    BY <1>2, <1>3
  <2>2. QED
    BY <2>1
<1>5. QED
  BY <1>4

\* An archive of n bytes has as many chunks as it takes, and none is empty.
LEMMA ChunkCount ==
    ASSUME NEW n \in Nat \ {0}
    PROVE  /\ TotalChunks(n) \in Nat \ {0}
           /\ TotalChunks(n) * ChunkSize >= n
           /\ \A i \in 0..(TotalChunks(n) - 1) : i * ChunkSize \in Nat /\ i * ChunkSize < n
<1> DEFINE m == n + ChunkSize - 1
           t == m \div ChunkSize
<1>0. ChunkSize \in Nat \ {0} /\ m \in Nat
  BY ChunkAssumption
<1>1. t \in Int /\ t * ChunkSize <= m /\ m < t * ChunkSize + ChunkSize
  <2> HIDE DEF m
  <2>1. t \in Int /\ m = ChunkSize * t + (m % ChunkSize) /\ m % ChunkSize \in 0..(ChunkSize - 1)
    BY <1>0
  <2> HIDE DEF t
  <2>2. ChunkSize * t = t * ChunkSize /\ ChunkSize * t \in Int
    BY <1>0, <2>1
  <2>3. QED
    BY <1>0, <2>1, <2>2
<1> HIDE DEF t
<1>2. t * ChunkSize >= n /\ t * ChunkSize < n + ChunkSize
  BY <1>0, <1>1
<1>3. t >= 1
  BY <1>0, <1>1, <1>2
<1>4. ASSUME NEW i \in 0..(t - 1) PROVE i * ChunkSize \in Nat /\ i * ChunkSize < n
  <2>1. i * ChunkSize \in Nat /\ i * ChunkSize <= (t - 1) * ChunkSize
    BY <1>0, <1>1
  <2>2. (t - 1) * ChunkSize = t * ChunkSize - ChunkSize
    BY <1>0, <1>1
  <2>3. QED
    BY <1>0, <1>1, <1>2, <2>1, <2>2
<1>5. TotalChunks(n) = t
  BY <1>1, <1>3 DEF TotalChunks, t
<1>6. QED
  BY <1>1, <1>2, <1>3, <1>4, <1>5

\* The first i chunks of an archive of n bytes.
FirstChunks(n, i) == SubSeq(Zip(n), 1, IF i * ChunkSize > n THEN n ELSE i * ChunkSize)

\* What is put together grows by a chunk at a time, and ends as the archive.
LEMMA ChunksInOrder ==
    ASSUME NEW n \in Nat \ {0}
    PROVE  /\ FirstChunks(n, 0) = <<>>
           /\ \A i \in 1..TotalChunks(n) :
                 FirstChunks(n, i - 1) \o Chunk(n, i - 1) = FirstChunks(n, i)
           /\ FirstChunks(n, TotalChunks(n)) = Zip(n)
<1> DEFINE T == TotalChunks(n)
           Upto(i) == IF i * ChunkSize > n THEN n ELSE i * ChunkSize
<1>1. ChunkSize \in Nat \ {0} /\ T \in Nat \ {0} /\ T * ChunkSize >= n
      /\ \A i \in 0..(T - 1) : i * ChunkSize \in Nat /\ i * ChunkSize < n
  BY ChunkAssumption, ChunkCount
<1> HIDE DEF T
<1>2. Zip(n) \in Seq(1..n) /\ Len(Zip(n)) = n
  <2>1. Zip(n) \in [1..n -> 1..n]
    BY DEF Zip
  <2>2. QED
    BY <2>1
<1>3. FirstChunks(n, 0) = <<>>
  <2>1. 0 * ChunkSize = 0
    BY <1>1
  <2>2. QED
    BY <2>1, SubSeqEmpty DEF FirstChunks
<1>4. ASSUME NEW i \in 1..T
      PROVE  FirstChunks(n, i - 1) \o Chunk(n, i - 1) = FirstChunks(n, i)
  <2> DEFINE k == (i - 1) * ChunkSize
  <2>1. k \in Nat /\ k < n
    BY <1>1
  <2>2. i * ChunkSize = k + ChunkSize
    BY <1>1
  <2> HIDE DEF k
  <2>3. Upto(i) \in k..n /\ End(n, i - 1) = Upto(i)
    BY <1>1, <2>1, <2>2 DEF End, Start, k
  <2>4. SubSeq(Zip(n), 1, k) \o SubSeq(Zip(n), k + 1, Upto(i)) = SubSeq(Zip(n), 1, Upto(i))
    <3> HIDE DEF Upto
    <3>1. 1 \in 1..(Len(Zip(n)) + 1) /\ k \in (1 - 1)..Len(Zip(n)) /\ Upto(i) \in k..Len(Zip(n))
      BY <1>2, <2>1, <2>3
    <3>2. QED
      BY <1>2, <3>1, ConcatAdjacentSubSeq
  <2>5. FirstChunks(n, i - 1) = SubSeq(Zip(n), 1, k)
    BY <2>1 DEF FirstChunks, k
  <2>6. Chunk(n, i - 1) = SubSeq(Zip(n), k + 1, Upto(i))
    BY <2>3 DEF Chunk, Start, k
  <2>7. QED
    BY <2>4, <2>5, <2>6 DEF FirstChunks
<1>5. FirstChunks(n, T) = Zip(n)
  <2>1. (IF T * ChunkSize > n THEN n ELSE T * ChunkSize) = n
    BY <1>1
  <2>2. QED
    BY <1>2, <2>1, SubSeqFull DEF FirstChunks
<1>6. QED
  BY <1>3, <1>4, <1>5 DEF T

\* The client puts the chunks together in the order of their indices: if they are
\* all there, that is the archive.
LEMMA AssemblyWhole ==
    ASSUME NEW n \in Nat \ {0}
    PROVE  Assembled([i \in 0..(TotalChunks(n) - 1) |-> Chunk(n, i)], TotalChunks(n)) = Zip(n)
<1> DEFINE T == TotalChunks(n)
           ch == [i \in 0..(T - 1) |-> Chunk(n, i)]
           Body(f, i) == IF i = 0 THEN <<>>
                         ELSE f[i - 1] \o (IF i - 1 \in DOMAIN ch THEN ch[i - 1] ELSE <<>>)
           upTo[i \in 0..T] ==
               IF i = 0 THEN <<>>
               ELSE upTo[i - 1] \o (IF i - 1 \in DOMAIN ch THEN ch[i - 1] ELSE <<>>)
           P == [i \in 0..T |-> FirstChunks(n, i)]
<1>1. Assembled(ch, T) = upTo[T]
  BY DEF Assembled
<1>2. upTo = CHOOSE f : f = [i \in 0..T |-> Body(f, i)]
  BY DEF upTo
<1> HIDE DEF upTo
<1>3. T \in Nat \ {0}
  BY ChunkCount
<1>4. P = [i \in 0..T |-> Body(P, i)]
  <2>1. ASSUME NEW i \in 0..T PROVE P[i] = Body(P, i)
    <3>1. CASE i = 0
      BY <3>1, ChunksInOrder
    <3>2. CASE i # 0
      <4>1. i \in 1..T /\ i - 1 \in 0..T /\ i - 1 \in 0..(T - 1)
        BY <1>3, <3>2
      <4>2. FirstChunks(n, i - 1) \o Chunk(n, i - 1) = FirstChunks(n, i)
        BY <4>1, ChunksInOrder
      <4> HIDE DEF T
      <4>3. ch[i - 1] = Chunk(n, i - 1) /\ i - 1 \in DOMAIN ch
        BY <4>1
      <4>4. P[i - 1] = FirstChunks(n, i - 1)
        BY <4>1
      <4>5. QED
        BY <3>2, <4>2, <4>3, <4>4
    <3>3. QED
      BY <3>1, <3>2
  <2> HIDE DEF Body
  <2>2. QED
    BY <2>1
<1> HIDE DEF P
<1>5. upTo = [i \in 0..T |-> Body(upTo, i)]
  <2> HIDE DEF Body
  <2>1. \E f : f = [i \in 0..T |-> Body(f, i)]
    BY <1>4
  <2>2. QED
    BY <1>2, <2>1
<1> DEFINE Wrong == {i \in 0..T : upTo[i] # P[i]}
<1>6. Wrong = {}
  <2> SUFFICES ASSUME Wrong # {} PROVE FALSE
    OBVIOUS
  <2>1. Wrong \subseteq Nat
    BY <1>3
  <2>2. PICK i \in Wrong : \A k \in Wrong : i <= k
    BY <2>1, LeastElement
  <2>3. i \in 0..T /\ upTo[i] = Body(upTo, i) /\ P[i] = Body(P, i)
    <3> HIDE DEF Body
    <3>1. i \in 0..T
      OBVIOUS
    <3>2. QED
      BY <1>4, <1>5, <3>1
  <2>4. CASE i = 0
    BY <2>2, <2>3, <2>4
  <2>5. CASE i # 0
    <3>1. i - 1 \in 0..T /\ ~(i <= i - 1)
      BY <1>3, <2>3, <2>5
    <3>2. upTo[i - 1] = P[i - 1]
      BY <2>2, <3>1
    <3>3. QED
      BY <2>2, <2>3, <3>2
  <2>6. QED
    BY <2>4, <2>5
<1>7. upTo[T] = P[T]
  BY <1>3, <1>6
<1>8. P[T] = Zip(n)
  BY <1>3, ChunksInOrder DEF P
<1>9. QED
  BY <1>1, <1>7, <1>8

-----------------------------------------------------------------------------
(* The way of the frames *)

\* A job's id is taken once: while it is on its way to the loop there is no
\* subscription yet, and there is no second copy of it.
AloneAt(c) ==
    /\ \A i, k \in 1..Len(toServer[c]) : toServer[c][i] = toServer[c][k] => i = k
    /\ \A i \in 1..Len(toServer[c]) :
          toServer[c][i] # jobIDChan[c] /\ stream[toServer[c][i]] = "none"
    /\ jobIDChan[c] # NoJob => stream[jobIDChan[c]] = "none"

Alone ==
    /\ \A c \in Conn : AloneAt(c)
    /\ \A j \in Job : stream[j] # "none" => j \in submitted
    /\ \A j \in cancels : stream[j] # "none"

\* Nothing is sent to a connection before it is made.
Quiet == \A c \in Conn : loop[c] = "none" => box[c] = <<>> /\ \A s \in Stream : to[s] # c

\* An export begins with the announcement, and its frames are sent after that.
ExporterInv ==
    \A j \in Job :
        /\ exporter[j] # "none" => stream[j] # "none" /\ at[LogOf(j)] = Logs
        /\ exporter[j] \in {"none", "building"} => at[ExportOf(j)] = 0 /\ to[ExportOf(j)] = NoConn
        /\ at[ExportOf(j)] <= Frames

\* Message n of stream s is among the first l of q.
Holds(q, l, s, n) == \E h \in 1..l : q[h].stream = s /\ q[h].n = n

\* What the client of c may still receive.
Reach(c) == IF c \in up THEN Len(box[c]) ELSE received[c]

\* The frames that a client receives are without gaps.
Preceded ==
    \A c \in Conn : \A i \in 1..Reach(c) :
        box[c][i].stream[2] = "export" =>
            \/ box[c][i].n = 1
            \/ Holds(box[c], i - 1, box[c][i].stream, box[c][i].n - 1)

\* As long as the client is there, the frame before the one under way is in msgs;
\* if one was forgotten, then because the connection has another job, for good.
LineAt(j) ==
    LET c == Client[j]
        s == ExportOf(j)
    IN  c \in up =>
          /\ to[s] # NoConn => at[s] = 1 \/ Holds(box[c], Len(box[c]), s, at[s] - 1)
          /\ to[s] = NoConn => \/ at[s] = 0 \/ Holds(box[c], Len(box[c]), s, at[s])
                               \/ subscribers[j] # c

NextInLine == \A j \in Job : LineAt(j)

FrameInv == Alone /\ Quiet /\ ExporterInv /\ Preceded /\ NextInLine

LEMMA FrameInit == Init => FrameInv
<1> SUFFICES ASSUME Init PROVE FrameInv
  OBVIOUS
<1> USE LogStreamAssumption
<1>1. Len(<<>>) = 0
  BY EmptySeq
<1>2. Alone
  BY <1>1 DEF Init, Alone, AloneAt
<1>3. Quiet
  BY DEF Init, Quiet
<1>4. ExporterInv
  BY StreamFacts DEF Init, ExporterInv
<1>5. Preceded /\ NextInLine
  BY <1>1 DEF Init, Preceded, Reach, NextInLine, LineAt
<1>6. QED
  BY <1>2, <1>3, <1>4, <1>5 DEF FrameInv

LEMMA AloneStep == TypeOK /\ OwnJobs /\ Alone /\ [Next]_vars => Alone'
<1> SUFFICES ASSUME TypeOK, OwnJobs, Alone, [Next]_vars PROVE Alone'
  OBVIOUS
<1> USE LogStreamAssumption
<1>1. ASSUME NEW c \in Conn, Receive(c) PROVE Alone'
  <2> DEFINE q == toServer[c]
             j == Head(toServer[c])
  <2>1. q \in Seq(Job) /\ q # <<>>
    BY <1>1 DEF TypeOK, Receive
  <2>2. /\ Len(q) \in Nat /\ Len(q) >= 1 /\ j = q[1]
        /\ Len(Tail(q)) = Len(q) - 1
        /\ \A i \in 1..Len(Tail(q)) : Tail(q)[i] = q[i + 1]
    BY <2>1, EmptySeq, HeadTailProperties
  <2>3. /\ toServer'[c] = Tail(q) /\ \A d \in Conn : d # c => toServer'[d] = toServer[d]
        /\ jobIDChan'[c] = IF jobIDChan[c] = NoJob THEN j ELSE jobIDChan[c]
        /\ \A d \in Conn : d # c => jobIDChan'[d] = jobIDChan[d]
        /\ stream' = stream /\ submitted' = submitted /\ cancels' = cancels
    BY <1>1 DEF Receive, redis, TypeOK
  <2>4. ASSUME NEW i \in 1..Len(Tail(q)), NEW k \in 1..Len(Tail(q)), Tail(q)[i] = Tail(q)[k]
        PROVE  i = k
    <3>1. i + 1 \in 1..Len(q) /\ k + 1 \in 1..Len(q) /\ q[i + 1] = q[k + 1]
      BY <2>2, <2>4
    <3>2. i + 1 = k + 1
      BY <3>1 DEF Alone, AloneAt
    <3>3. QED
      BY <2>2, <3>2
  <2>5. ASSUME NEW i \in 1..Len(Tail(q))
        PROVE  Tail(q)[i] # jobIDChan'[c] /\ stream[Tail(q)[i]] = "none"
    <3>1. i + 1 \in 1..Len(q) /\ 1 \in 1..Len(q) /\ i + 1 # 1 /\ Tail(q)[i] = q[i + 1]
      BY <2>2
    <3>2. q[i + 1] # q[1] /\ q[i + 1] # jobIDChan[c] /\ stream[q[i + 1]] = "none"
      BY <3>1 DEF Alone, AloneAt
    <3>3. QED
      BY <2>2, <2>3, <3>1, <3>2
  <2>6. jobIDChan'[c] # NoJob => stream[jobIDChan'[c]] = "none"
    BY <2>2, <2>3 DEF Alone, AloneAt
  <2> HIDE DEF q, j
  <2>7. AloneAt(c)'
    BY <2>3, <2>4, <2>5, <2>6 DEF AloneAt
  <2>8. ASSUME NEW d \in Conn, d # c PROVE AloneAt(d)'
    BY <2>3, <2>8 DEF Alone, AloneAt
  <2>9. QED
    BY <2>3, <2>7, <2>8 DEF Alone
<1>2. ASSUME NEW j \in Job, Submit(j) PROVE Alone'
  <2> DEFINE c == Client[j]
             q == toServer[c]
  <2>1. c \in Conn /\ q \in Seq(Job)
    BY DEF TypeOK
  <2>2. /\ Len(q) \in Nat /\ Len(Append(q, j)) = Len(q) + 1
        /\ \A i \in 1..Len(q) : Append(q, j)[i] = q[i]
        /\ Append(q, j)[Len(q) + 1] = j
    BY <2>1, AppendProperties, LenProperties
  <2>3. /\ toServer'[c] = Append(q, j) /\ \A d \in Conn : d # c => toServer'[d] = toServer[d]
        /\ jobIDChan' = jobIDChan /\ stream' = stream /\ cancels' = cancels
        /\ submitted' = submitted \cup {j} /\ j \notin submitted
    BY <1>2, <2>1 DEF Submit, redis, TypeOK
  <2>4. /\ \A i \in 1..Len(q) : q[i] # j
        /\ jobIDChan[c] # j /\ stream[j] = "none"
    <3>1. \A i \in 1..Len(q) : q[i] \in submitted
      BY <2>1 DEF OwnJobs, OnItsWay
    <3>2. jobIDChan[c] # NoJob => jobIDChan[c] \in submitted
      BY <2>1 DEF OwnJobs, TypeOK
    <3>3. QED
      BY <2>3, <3>1, <3>2 DEF Alone
  <2> HIDE DEF c, q
  <2>5. \A i, k \in 1..Len(Append(q, j)) : Append(q, j)[i] = Append(q, j)[k] => i = k
    <3>1. \A i, k \in 1..Len(q) : q[i] = q[k] => i = k
      BY <2>1 DEF Alone, AloneAt, q
    <3>2. QED
      BY <2>2, <2>4, <3>1
  <2>6. \A i \in 1..Len(Append(q, j)) :
            Append(q, j)[i] # jobIDChan[c] /\ stream[Append(q, j)[i]] = "none"
    <3>1. \A i \in 1..Len(q) : q[i] # jobIDChan[c] /\ stream[q[i]] = "none"
      BY <2>1 DEF Alone, AloneAt, q
    <3>2. QED
      BY <2>2, <2>4, <3>1
  <2>7. AloneAt(c)'
    <3>1. jobIDChan[c] # NoJob => stream[jobIDChan[c]] = "none"
      BY <2>1 DEF Alone, AloneAt
    <3>2. QED
      BY <2>3, <2>5, <2>6, <3>1 DEF AloneAt
  <2>8. ASSUME NEW d \in Conn, d # c PROVE AloneAt(d)'
    BY <2>3, <2>8 DEF Alone, AloneAt
  <2>9. QED
    BY <2>3, <2>7, <2>8 DEF Alone
<1>3. ASSUME NEW c \in Conn, TakeJob(c) PROVE Alone'
  <2> DEFINE j == jobIDChan[c]
  <2>1. j \in Job /\ Client[j] = c /\ j \in submitted /\ j # NoJob
    BY <1>3 DEF TakeJob, TypeOK, OwnJobs
  <2>2. /\ jobIDChan' = [jobIDChan EXCEPT ![c] = NoJob] /\ toServer' = toServer
        /\ cancels' = cancels \cup {j} /\ submitted' = submitted
        /\ stream' = IF j \in cancels THEN stream ELSE [stream EXCEPT ![j] = "asked"]
    BY <1>3 DEF TakeJob
  <2>3. ASSUME NEW d \in Conn
        PROVE  /\ \A i \in 1..Len(toServer[d]) :
                     toServer[d][i] \in Job /\ toServer[d][i] # j /\ toServer[d][i] # NoJob
               /\ d # c => jobIDChan[d] # j
    <3>1. \A i \in 1..Len(toServer[d]) : toServer[d][i] \in Job /\ Client[toServer[d][i]] = d
      BY DEF OwnJobs, OnItsWay, TypeOK
    <3>2. jobIDChan[d] # NoJob => Client[jobIDChan[d]] = d
      BY DEF OwnJobs
    <3>3. d = c => \A i \in 1..Len(toServer[d]) : toServer[d][i] # j
      BY DEF Alone, AloneAt
    <3>4. QED
      BY <2>1, <3>1, <3>2, <3>3
  <2>4. stream'[j] # "none" /\ \A k \in Job : k # j => stream'[k] = stream[k]
    BY <2>1, <2>2 DEF Alone, TypeOK
  <2>5. jobIDChan'[c] = NoJob /\ \A d \in Conn : d # c => jobIDChan'[d] = jobIDChan[d]
    BY <2>2 DEF TypeOK
  <2>6. cancels \subseteq Job /\ \A d \in Conn : jobIDChan[d] \in Job \cup {NoJob}
    BY DEF TypeOK
  <2> HIDE DEF j
  <2>7. ASSUME NEW d \in Conn PROVE AloneAt(d)'
    <3>1. AloneAt(d)
      BY DEF Alone
    <3>2. \A i \in 1..Len(toServer[d]) : stream'[toServer[d][i]] = stream[toServer[d][i]]
      BY <2>3, <2>4
    <3>3. jobIDChan'[d] # NoJob => jobIDChan'[d] = jobIDChan[d] /\ jobIDChan[d] # j
      BY <2>3, <2>5
    <3>4. jobIDChan'[d] # NoJob => stream'[jobIDChan'[d]] = stream[jobIDChan[d]]
      BY <2>4, <2>6, <3>3
    <3>5. \A i \in 1..Len(toServer[d]) : toServer[d][i] # jobIDChan'[d]
      BY <2>3, <3>1, <3>3 DEF AloneAt
    <3>6. QED
      BY <2>2, <3>1, <3>2, <3>3, <3>4, <3>5 DEF AloneAt
  <2>8. QED
    BY <2>1, <2>2, <2>4, <2>6, <2>7 DEF Alone
<1>4. ASSUME UNCHANGED <<toServer, jobIDChan, submitted>>, cancels' \subseteq cancels,
             \A j \in Job : stream'[j] = "none" <=> stream[j] = "none"
      PROVE  Alone'
  <2>1. \A d \in Conn : /\ jobIDChan[d] \in Job \cup {NoJob}
                        /\ \A i \in 1..Len(toServer[d]) : toServer[d][i] \in Job
    BY DEF TypeOK, OwnJobs, OnItsWay
  <2>2. cancels \subseteq Job
    BY DEF TypeOK
  <2>3. QED
    BY <1>4, <2>1, <2>2 DEF Alone, AloneAt
<1>5. ASSUME NEW j \in Job, Subscribed(j) \/ StreamEnds(j) PROVE Alone'
  <2>1. UNCHANGED <<toServer, jobIDChan, submitted, cancels>>
    BY <1>5 DEF Subscribed, StreamEnds, connection
  <2>2. \A k \in Job : stream'[k] = "none" <=> stream[k] = "none"
    BY <1>5 DEF Subscribed, StreamEnds, TypeOK
  <2>3. QED
    BY <1>4, <2>1, <2>2
<1>6. ASSUME NEW c \in Conn, Connect(c) \/ Leave(c) \/ ReadFails(c) \/ WriteMsg(c) \/ TakeReadErr(c)
      PROVE  Alone'
  <2>1. UNCHANGED <<toServer, jobIDChan, submitted, stream>> /\ cancels' \subseteq cancels
    BY <1>6 DEF Connect, Leave, ReadFails, WriteMsg, TakeReadErr, Return, redis
  <2>2. QED
    BY <1>4, <2>1
<1>7. ASSUME NEW j \in Job, \/ PushToBroker(j) \/ Publish(j) \/ HandleLog(j)
                            \/ BuildZip(j) \/ NextFrame(j)
      PROVE  Alone'
  <2>1. UNCHANGED <<toServer, jobIDChan, submitted, stream, cancels>>
    BY <1>7 DEF PushToBroker, Publish, HandleLog, BuildZip, NextFrame, connection, redis
  <2>2. QED
    BY <1>4, <2>1
<1>8. ASSUME NEW s \in Stream, SendToSubscriber(s) PROVE Alone'
  <2>1. UNCHANGED <<toServer, jobIDChan, submitted, stream, cancels>>
    BY <1>8 DEF SendToSubscriber, Put, TimesOut, connection, redis
  <2>2. QED
    BY <1>4, <2>1
<1>9. CASE UNCHANGED vars
  BY <1>4, <1>9 DEF vars, connection, redis
<1>10. QED
  BY <1>1, <1>2, <1>3, <1>5, <1>6, <1>7, <1>8, <1>9 DEF Next, Loop, ReadLoop

\* Looking a subscriber up, in whatever goroutine.
LEMMA LooksUp ==
    ASSUME TypeOK, Fresh, OwnEntries, NEW s \in Stream, NEW n \in Nat, LookUp(s, n)
    PROVE  /\ at'[s] = n /\ \A t \in Stream : t # s => at'[t] = at[t] /\ to'[t] = to[t]
           /\ to'[s] = subscribers[s[1]] /\ to'[s] \in {NoConn, Owner(s)}
           /\ \A c \in Conn : loop[c] = "none" => to'[s] # c
<1>1. s[1] \in Job
  BY StreamFacts
<1>2. at' = [at EXCEPT ![s] = n] /\ to' = [to EXCEPT ![s] = subscribers[s[1]]]
  BY DEF LookUp
<1>3. to'[s] = subscribers[s[1]]
  BY <1>2 DEF TypeOK
<1>4. QED
  BY <1>1, <1>2, <1>3 DEF TypeOK, Fresh, OwnEntries, Owner, Key

LEMMA QuietStep == TypeOK /\ Fresh /\ OwnEntries /\ Quiet /\ [Next]_vars => Quiet'
<1> SUFFICES ASSUME TypeOK, Fresh, OwnEntries, Quiet, [Next]_vars PROVE Quiet'
  OBVIOUS
<1> USE LogStreamAssumption
<1>1. \A c \in Conn : loop'[c] = "none" => loop[c] = "none"
  BY DEF Next, vars, connection, Connect, Leave, Loop, ReadLoop, WriteMsg, TakeJob, TakeReadErr, Return,
     Receive, ReadFails, Submit, PushToBroker, Subscribed, Publish, HandleLog, StreamEnds,
     BuildZip, NextFrame, SendToSubscriber, Put, TimesOut, TypeOK
<1>2. ASSUME UNCHANGED <<box, to>> PROVE Quiet'
  BY <1>1, <1>2 DEF Quiet
<1>3. ASSUME NEW s \in Stream, NEW n \in Nat, LookUp(s, n), box' = box PROVE Quiet'
  BY <1>1, <1>3, LooksUp DEF Quiet
<1>4. ASSUME NEW j \in Job, HandleLog(j) PROVE Quiet'
  <2>1. LookUp(LogOf(j), Head(feed[j])) /\ box' = box
    BY <1>4 DEF HandleLog, channel
  <2>2. LogOf(j) \in Stream /\ Head(feed[j]) \in Nat
    BY <1>4, StreamFacts, HandledLine
  <2>3. QED
    BY <1>3, <2>1, <2>2
<1>5. ASSUME NEW j \in Job, NextFrame(j) PROVE Quiet'
  <2>1. box' = box /\ (LookUp(ExportOf(j), at[ExportOf(j)] + 1) \/ to' = to)
    BY <1>5 DEF NextFrame, channel
  <2>2. ExportOf(j) \in Stream /\ at[ExportOf(j)] + 1 \in Nat
    BY StreamFacts DEF TypeOK
  <2>3. QED
    BY <1>2, <1>3, <2>1, <2>2
<1>6. ASSUME NEW s \in Stream, Put(s) PROVE Quiet'
  <2>1. to[s] \in Conn /\ \A d \in Conn : d # to[s] => box'[d] = box[d]
    BY <1>6, PutMessage
  <2>2. loop[to[s]] # "none"
    BY <2>1 DEF Quiet
  <2>3. \A t \in Stream : to'[t] = to[t] \/ to'[t] = NoConn
    BY <1>6 DEF Put, TypeOK
  <2>4. QED
    BY <1>1, <2>1, <2>2, <2>3 DEF Quiet
<1>7. ASSUME NEW s \in Stream, TimesOut(s) PROVE Quiet'
  <2>1. box' = box /\ \A t \in Stream : to'[t] = to[t] \/ to'[t] = NoConn
    BY <1>7 DEF TimesOut, TypeOK, channel
  <2>2. QED
    BY <1>1, <2>1 DEF Quiet
<1>8. ASSUME NEW c \in Conn, \/ Connect(c) \/ Leave(c) \/ Receive(c) \/ ReadFails(c)
                             \/ WriteMsg(c) \/ TakeJob(c) \/ TakeReadErr(c)
      PROVE  Quiet'
  BY <1>2, <1>8 DEF Connect, Leave, Receive, ReadFails, WriteMsg, TakeJob, TakeReadErr, channel,
      sending
<1>9. ASSUME NEW j \in Job, \/ Submit(j) \/ PushToBroker(j) \/ Subscribed(j) \/ Publish(j)
                            \/ StreamEnds(j) \/ BuildZip(j)
      PROVE  Quiet'
  BY <1>2, <1>9 DEF Submit, PushToBroker, Subscribed, Publish, StreamEnds, BuildZip, channel,
      sending
<1>10. CASE UNCHANGED vars
  BY <1>2, <1>10 DEF vars, channel, sending
<1>11. QED
  BY <1>4, <1>5, <1>6, <1>7, <1>8, <1>9, <1>10 DEF Next, Loop, ReadLoop, SendToSubscriber

LEMMA ExporterStep ==
    TypeOK /\ Fresh /\ OwnEntries /\ FeedInv /\ ExporterInv /\ [Next]_vars => ExporterInv'
<1> SUFFICES ASSUME TypeOK, Fresh, OwnEntries, FeedInv, ExporterInv, [Next]_vars PROVE ExporterInv'
  OBVIOUS
<1> USE LogStreamAssumption
<1>1. ASSUME UNCHANGED <<exporter, at, to>>, \A j \in Job : stream[j] # "none" => stream'[j] # "none"
      PROVE  ExporterInv'
  BY <1>1 DEF ExporterInv
<1>2. ASSUME NEW j \in Job, HandleLog(j) PROVE ExporterInv'
  <2> DEFINE n == Head(feed[j])
  <2>1. /\ n \in 1..Logs /\ n = feed[j][1] /\ 1 \in 1..Len(feed[j])
        /\ LookUp(LogOf(j), n) /\ stream[j] = "on" /\ stream' = stream
    <3>1. n \in 1..Logs /\ n = feed[j][1] /\ Len(feed[j]) \in Nat \ {0}
      BY <1>2, HandledLine
    <3>2. LookUp(LogOf(j), n) /\ stream[j] = "on" /\ stream' = stream
      BY <1>2 DEF HandleLog
    <3>3. QED
      BY <3>1, <3>2
  <2>2. n > at[LogOf(j)] /\ at[LogOf(j)] \in Nat
    BY <2>1, StreamFacts DEF FeedInv, TypeOK
  <2> HIDE DEF n
  <2>3. at[LogOf(j)] # Logs
    BY <2>1, <2>2
  <2>4. exporter[j] = "none"
    BY <2>3 DEF ExporterInv
  <2>5. /\ exporter' = IF n = Logs THEN [exporter EXCEPT ![j] = "building"] ELSE exporter
        /\ exporter \in [Job -> {"none", "building", "streaming", "ended"}]
    BY <1>2 DEF HandleLog, TypeOK, n
  <2>6. /\ at'[LogOf(j)] = n
        /\ \A t \in Stream : t # LogOf(j) => at'[t] = at[t] /\ to'[t] = to[t]
    <3>1. LogOf(j) \in Stream /\ n \in Nat
      BY <2>1, StreamFacts
    <3>2. QED
      BY <2>1, <3>1, LooksUp
  <2>7. ASSUME NEW k \in Job
        PROVE  /\ exporter'[k] # "none" => stream'[k] # "none" /\ at'[LogOf(k)] = Logs
               /\ exporter'[k] \in {"none", "building"} => at'[ExportOf(k)] = 0 /\ to'[ExportOf(k)] = NoConn
               /\ at'[ExportOf(k)] <= Frames
    <3>1. at'[ExportOf(k)] = at[ExportOf(k)] /\ to'[ExportOf(k)] = to[ExportOf(k)]
      BY <2>6, StreamFacts
    <3>2. CASE k = j
      BY <2>1, <2>4, <2>5, <2>6, <3>1, <3>2 DEF ExporterInv
    <3>3. CASE k # j
      <4>1. at'[LogOf(k)] = at[LogOf(k)] /\ exporter'[k] = exporter[k]
        BY <2>5, <2>6, <3>3, StreamFacts
      <4>2. QED
        BY <2>1, <3>1, <4>1 DEF ExporterInv
    <3>4. QED
      BY <3>2, <3>3
  <2>8. QED
    BY <2>7 DEF ExporterInv
<1>3. ASSUME NEW j \in Job, BuildZip(j) PROVE ExporterInv'
  <2>1. /\ exporter[j] = "building" /\ UNCHANGED <<at, to, stream>>
        /\ \/ exporter' = [exporter EXCEPT ![j] = "streaming"]
           \/ exporter' = [exporter EXCEPT ![j] = "ended"]
    BY <1>3 DEF BuildZip, redis
  <2>2. /\ exporter'[j] \in {"streaming", "ended"}
        /\ \A k \in Job : k # j => exporter'[k] = exporter[k]
    BY <2>1 DEF TypeOK
  <2>3. QED
    BY <2>1, <2>2 DEF ExporterInv
<1>4. ASSUME NEW j \in Job, NextFrame(j) PROVE ExporterInv'
  <2> DEFINE s == ExportOf(j)
  <2>1. s \in Stream /\ at[s] \in Nat /\ exporter[j] = "streaming" /\ stream' = stream
    BY <1>4, StreamFacts DEF NextFrame, redis, TypeOK
  <2>2. CASE LookUp(s, at[s] + 1) /\ at[s] < Frames /\ exporter' = exporter
    <3>1. PICK n \in Nat : n = at[s] + 1
      BY <2>1
    <3>2. at'[s] = n /\ \A t \in Stream : t # s => at'[t] = at[t] /\ to'[t] = to[t]
      BY <2>1, <2>2, <3>1, LooksUp
    <3>3. n <= Frames
      BY <2>1, <2>2, <3>1
    <3>4. \A k \in Job : /\ at'[LogOf(k)] = at[LogOf(k)]
                         /\ k # j => at'[ExportOf(k)] = at[ExportOf(k)] /\ to'[ExportOf(k)] = to[ExportOf(k)]
      BY <3>2, StreamFacts
    <3>5. QED
      BY <2>1, <2>2, <3>2, <3>3, <3>4 DEF ExporterInv
  <2>3. CASE UNCHANGED <<at, to>> /\ exporter' = [exporter EXCEPT ![j] = "ended"]
    <3>1. exporter'[j] = "ended" /\ \A k \in Job : k # j => exporter'[k] = exporter[k]
      BY <2>3 DEF TypeOK
    <3>2. QED
      BY <2>1, <2>3, <3>1 DEF ExporterInv
  <2>4. QED
    BY <1>4, <2>2, <2>3 DEF NextFrame
<1>5. ASSUME NEW s \in Stream, SendToSubscriber(s) PROVE ExporterInv'
  <2>1. UNCHANGED <<exporter, at, stream>> /\ to' = [to EXCEPT ![s] = NoConn]
    BY <1>5 DEF SendToSubscriber, Put, TimesOut, redis
  <2>2. \A t \in Stream : to'[t] \in {to[t], NoConn}
    BY <2>1 DEF TypeOK
  <2>3. QED
    BY <2>1, <2>2, StreamFacts DEF ExporterInv
<1>6. ASSUME NEW c \in Conn, TakeJob(c) PROVE ExporterInv'
  <2>1. UNCHANGED <<exporter, at, to>>
    BY <1>6 DEF TakeJob, sending
  <2>2. \A j \in Job : stream'[j] \in {stream[j], "asked"}
    BY <1>6 DEF TakeJob, TypeOK
  <2>3. QED
    BY <1>1, <2>1, <2>2
<1>7. ASSUME NEW j \in Job, Subscribed(j) \/ StreamEnds(j) PROVE ExporterInv'
  <2>1. UNCHANGED <<exporter, at, to>>
    BY <1>7 DEF Subscribed, StreamEnds, sending
  <2>2. \A k \in Job : stream'[k] \in {stream[k], "on", "ended"}
    BY <1>7 DEF Subscribed, StreamEnds, TypeOK
  <2>3. QED
    BY <1>1, <2>1, <2>2
<1>8. ASSUME NEW c \in Conn, \/ Connect(c) \/ Leave(c) \/ Receive(c) \/ ReadFails(c)
                             \/ WriteMsg(c) \/ TakeReadErr(c)
      PROVE  ExporterInv'
  BY <1>1, <1>8 DEF Connect, Leave, Receive, ReadFails, WriteMsg, TakeReadErr, redis, sending
<1>9. ASSUME NEW j \in Job, Submit(j) \/ PushToBroker(j) \/ Publish(j) PROVE ExporterInv'
  BY <1>1, <1>9 DEF Submit, PushToBroker, Publish, redis, sending
<1>10. CASE UNCHANGED vars
  BY <1>1, <1>10 DEF vars, redis, sending
<1>11. QED
  BY <1>2, <1>3, <1>4, <1>5, <1>6, <1>7, <1>8, <1>9, <1>10 DEF Next, Loop, ReadLoop

LEMMA HoldsLonger ==
    ASSUME NEW q, NEW r, NEW l \in Nat, NEW m \in Nat, l <= m,
           \A h \in 1..l : r[h] = q[h], NEW s, NEW n, Holds(q, l, s, n)
    PROVE  Holds(r, m, s, n)
<1>1. PICK h \in 1..l : q[h].stream = s /\ q[h].n = n
  BY DEF Holds
<1>2. h \in 1..m /\ r[h] = q[h]
  OBVIOUS
<1>3. QED
  BY <1>1, <1>2 DEF Holds

\* Who may receive, and how much, after a step of the connections.
LEMMA ReachStep ==
    ASSUME TypeOK, UpToDate, Quiet, "slow" \notin Trouble, [Next]_vars, box' = box,
           NEW c \in Conn
    PROVE  /\ Reach(c) \in Nat /\ Reach(c)' \in Nat /\ Reach(c)' <= Reach(c)
           /\ c \in up' => c \in up \/ loop[c] = "none"
<1> USE LogStreamAssumption
<1>1. Len(box[c]) \in Nat /\ received[c] \in Nat /\ received[c] <= Len(box[c]) /\ Reach(c) \in Nat
  BY LenProperties DEF TypeOK, Reach
<1>2. ASSUME received' = received, up' \subseteq up
      PROVE  Reach(c)' \in Nat /\ Reach(c)' <= Reach(c) /\ (c \in up' => c \in up)
  BY <1>1, <1>2 DEF Reach
<1>3. ASSUME NEW d \in Conn, Connect(d)
      PROVE  Reach(c)' \in Nat /\ Reach(c)' <= Reach(c) /\ (c \in up' => c \in up \/ loop[c] = "none")
  <2>1. received' = received /\ up' = up \cup {d} /\ loop[d] = "none"
    BY <1>3 DEF Connect, channel
  <2>2. c = d => Len(box[c]) = 0
    BY <2>1, EmptySeq DEF Quiet
  <2>3. QED
    BY <1>1, <2>1, <2>2 DEF Reach
<1>4. ASSUME NEW d \in Conn, WriteMsg(d)
      PROVE  Reach(c)' \in Nat /\ Reach(c)' <= Reach(c) /\ (c \in up' => c \in up)
  <2>1. CASE d \in up
    <3>1. up' = up /\ received' = [received EXCEPT ![d] = taken[d] + 1]
      BY <1>4, <2>1 DEF WriteMsg
    <3>2. c \notin up => received'[c] = received[c]
      BY <2>1, <3>1 DEF TypeOK
    <3>3. QED
      BY <1>1, <3>1, <3>2 DEF Reach
  <2>2. CASE d \notin up
    <3>1. received' = received /\ up' \subseteq up
      BY <1>4, <2>2 DEF WriteMsg, Return
    <3>2. QED
      BY <1>2, <3>1
  <2>3. QED
    BY <2>1, <2>2
<1>5. ASSUME NEW d \in Conn, Leave(d) \/ Receive(d) \/ ReadFails(d) \/ TakeJob(d) \/ TakeReadErr(d)
      PROVE  received' = received /\ up' \subseteq up
  BY <1>5 DEF Leave, Receive, ReadFails, TakeJob, TakeReadErr, Return, channel
<1>6. ASSUME NEW j \in Job, \/ Submit(j) \/ PushToBroker(j) \/ Subscribed(j)
                            \/ Publish(j) \/ HandleLog(j)
                            \/ StreamEnds(j) \/ BuildZip(j) \/ NextFrame(j)
      PROVE  received' = received /\ up' \subseteq up
  BY <1>6 DEF Submit, PushToBroker, Subscribed, Publish, HandleLog, StreamEnds, BuildZip,
      NextFrame, connection, channel
<1>7. ASSUME NEW s \in Stream, SendToSubscriber(s)
      PROVE  received' = received /\ up' \subseteq up
  BY <1>7 DEF SendToSubscriber, Put, TimesOut, connection, channel
<1>8. CASE UNCHANGED vars
  <2>1. received' = received /\ up' \subseteq up
    BY <1>8 DEF vars, connection, channel
  <2>2. QED
    BY <1>1, <1>2, <2>1
<1>9. QED
  BY <1>1, <1>2, <1>3, <1>4, <1>5, <1>6, <1>7, <1>8 DEF Next, Loop, ReadLoop

LEMMA PrecededStep ==
    TypeOK /\ UpToDate /\ BoxInv /\ SendInv /\ Quiet /\ Preceded /\ NextInLine
    /\ "slow" \notin Trouble /\ [Next]_vars => Preceded'
<1> SUFFICES ASSUME TypeOK, UpToDate, BoxInv, SendInv, Quiet, Preceded, NextInLine,
                    "slow" \notin Trouble, [Next]_vars
             PROVE  Preceded'
  OBVIOUS
<1>1. CASE box' = box
  <2>1. \A c \in Conn : Reach(c) \in Nat /\ Reach(c)' \in Nat /\ Reach(c)' <= Reach(c)
    BY <1>1, ReachStep
  <2>2. ASSUME NEW c \in Conn, NEW i \in 1..Reach(c)' PROVE i \in 1..Reach(c)
    BY <2>1
  <2>3. QED
    BY <1>1, <2>2 DEF Preceded
<1>2. ASSUME NEW s \in Stream, Put(s) PROVE Preceded'
  <2> DEFINE d == to[s]
  <2>1. /\ d \in Conn /\ Len(box[d]) \in Nat /\ Len(box'[d]) = Len(box[d]) + 1
        /\ \A i \in 1..Len(box[d]) : box'[d][i] = box[d][i]
        /\ box'[d][Len(box[d]) + 1] = [stream |-> s, n |-> at[s]]
        /\ \A c \in Conn : c # d => box'[c] = box[c]
    BY <1>2, PutMessage
  <2>2. up' = up /\ received' = received /\ d # NoConn /\ d = Owner(s)
    BY <1>2 DEF Put, connection, SendInv
  <2>3. received[d] \in Nat /\ received[d] <= Len(box[d])
    BY <2>1 DEF TypeOK
  <2> HIDE DEF d
  <2>4. ASSUME NEW c \in Conn, NEW i \in 1..Reach(c)', box'[c][i].stream[2] = "export"
        PROVE  \/ box'[c][i].n = 1
               \/ Holds(box'[c], i - 1, box'[c][i].stream, box'[c][i].n - 1)
    <3>1. CASE c # d
      <4>1. Reach(c)' = Reach(c) /\ box'[c] = box[c]
        BY <2>1, <2>2, <3>1 DEF Reach
      <4>2. QED
        BY <2>4, <4>1 DEF Preceded
    <3>2. CASE c = d /\ i <= Len(box[d])
      <4>1. i \in 1..Len(box[d]) /\ i \in 1..Reach(d) /\ i - 1 \in Nat
        BY <2>1, <2>2, <2>3, <3>2 DEF Reach
      <4>2. box'[d][i] = box[d][i] /\ \A h \in 1..(i - 1) : box'[d][h] = box[d][h]
        BY <2>1, <4>1
      <4>3. \/ box[d][i].n = 1
            \/ Holds(box[d], i - 1, box[d][i].stream, box[d][i].n - 1)
        BY <2>1, <2>4, <3>2, <4>1, <4>2 DEF Preceded
      <4>4. \A t, n : Holds(box[d], i - 1, t, n) => Holds(box'[d], i - 1, t, n)
        BY <4>2 DEF Holds
      <4>5. QED
        BY <3>2, <4>2, <4>3, <4>4
    <3>3. CASE c = d /\ i > Len(box[d])
      <4>1. d \in up
        BY <2>2, <2>3, <3>3 DEF Reach
      <4>2. i = Len(box[d]) + 1
        BY <2>1, <2>2, <3>3, <4>1 DEF Reach
      <4>3. box'[d][i].stream = s /\ box'[d][i].n = at[s] /\ s[2] = "export"
        BY <2>1, <2>4, <3>3, <4>2
      <4>4. s[1] \in Job /\ s = ExportOf(s[1]) /\ Client[s[1]] = d
        BY <2>2, <4>3, StreamFacts, StreamKinds DEF Owner
      <4>5. at[s] = 1 \/ Holds(box[d], Len(box[d]), s, at[s] - 1)
        BY <2>2, <4>1, <4>4 DEF NextInLine, LineAt, d
      <4>6. i - 1 = Len(box[d])
        BY <2>1, <4>2
      <4>7. \A t, n : Holds(box[d], Len(box[d]), t, n) => Holds(box'[d], i - 1, t, n)
        BY <2>1, <4>6 DEF Holds
      <4>8. QED
        BY <3>3, <4>3, <4>5, <4>7
    <3>4. QED
      BY <2>1, <3>1, <3>2, <3>3 DEF Reach
  <2>5. QED
    BY <2>4 DEF Preceded
<1>3. CASE UNCHANGED vars
  BY <1>1, <1>3 DEF vars, channel
<1>4. ASSUME NEW c \in Conn, Connect(c) \/ Leave(c) \/ Loop(c) \/ ReadLoop(c) PROVE box' = box
  BY <1>4 DEF Connect, Leave, Loop, ReadLoop, Receive, ReadFails, WriteMsg, TakeJob,
      TakeReadErr, channel
<1>5. ASSUME NEW j \in Job, \/ Submit(j) \/ PushToBroker(j) \/ Subscribed(j)
                            \/ Publish(j) \/ HandleLog(j)
                            \/ StreamEnds(j) \/ BuildZip(j) \/ NextFrame(j)
      PROVE  box' = box
  BY <1>5 DEF Submit, PushToBroker, Subscribed, Publish, HandleLog, StreamEnds, BuildZip,
      NextFrame, channel
<1>6. ASSUME NEW s \in Stream, TimesOut(s) PROVE box' = box
  BY <1>6 DEF TimesOut, channel
<1>7. QED
  BY <1>1, <1>2, <1>3, <1>4, <1>5, <1>6 DEF Next, SendToSubscriber

LEMMA LineStep ==
    TypeOK /\ OwnJobs /\ Entries /\ Flow /\ Alone /\ Quiet /\ ExporterInv /\ NextInLine
    /\ "slow" \notin Trouble /\ [Next]_vars => NextInLine'
<1> SUFFICES ASSUME TypeOK, OwnJobs, Entries, Flow, Alone, Quiet, ExporterInv, NextInLine,
                    "slow" \notin Trouble, [Next]_vars
             PROVE  NextInLine'
  OBVIOUS
<1> USE LogStreamAssumption
<1>1. Fresh /\ OwnEntries /\ UpToDate /\ FeedInv /\ BoxInv /\ SendInv
  BY DEF Entries, Flow
<1>2. \A j \in Job : /\ ExportOf(j) \in Stream /\ ExportOf(j)[1] = j /\ Client[j] \in Conn
                     /\ Owner(ExportOf(j)) = Client[j] /\ at[ExportOf(j)] \in Nat
                     /\ j \notin Conn
  BY StreamFacts DEF Owner, TypeOK
\* Nothing happens to the export of job j, or its connection forgets it.
<1>3. ASSUME NEW j \in Job, box' = box, at'[ExportOf(j)] = at[ExportOf(j)],
             to'[ExportOf(j)] = to[ExportOf(j)],
             subscribers'[j] = subscribers[j] \/ subscribers'[j] = NoConn,
             Client[j] \in up' => Client[j] \in up
      PROVE  LineAt(j)'
  <2>1. LineAt(j)
    BY DEF NextInLine
  <2>2. subscribers'[j] = Client[j] => subscribers[j] = Client[j]
    BY <1>2, <1>3
  <2>3. QED
    BY <1>3, <2>1, <2>2 DEF LineAt
<1>4. ASSUME NEW c \in Conn, Connect(c), NEW j \in Job PROVE LineAt(j)'
  <2>1. /\ UNCHANGED <<box, at, to>> /\ up' = up \cup {c} /\ loop[c] = "none"
        /\ subscribers'[j] = subscribers[j]
    BY <1>2, <1>4 DEF Connect, channel, sending, TypeOK, Key
  <2>2. CASE Client[j] # c
    BY <1>3, <2>1, <2>2
  <2>3. CASE Client[j] = c
    <3>1. to[ExportOf(j)] # c /\ subscribers[j] # c
      BY <1>1, <1>2, <2>1 DEF Quiet, Fresh, Key
    <3>2. to[ExportOf(j)] = NoConn
      BY <1>1, <1>2, <2>3, <3>1 DEF SendInv
    <3>3. QED
      BY <2>1, <2>3, <3>1, <3>2 DEF LineAt
  <2>4. QED
    BY <2>2, <2>3
<1>5. ASSUME NEW c \in Conn, Leave(c) \/ Receive(c) \/ ReadFails(c) \/ WriteMsg(c) \/ TakeReadErr(c),
             NEW j \in Job
      PROVE  LineAt(j)'
  <2>1. UNCHANGED <<box, at, to>> /\ up' \subseteq up
    BY <1>5 DEF Leave, Receive, ReadFails, WriteMsg, TakeReadErr, Return, channel, sending
  <2>2. subscribers' = subscribers \/ subscribers' = [subscribers EXCEPT ![c] = NoConn]
    BY <1>5 DEF Leave, Receive, ReadFails, WriteMsg, TakeReadErr, Return
  <2>3. subscribers'[j] = subscribers[j]
    BY <1>2, <2>2 DEF TypeOK, Key
  <2>4. QED
    BY <1>3, <2>1, <2>3
<1>6. ASSUME NEW c \in Conn, TakeJob(c), NEW j \in Job PROVE LineAt(j)'
  <2> DEFINE i == jobIDChan[c]
  <2>1. /\ i \in Job /\ UNCHANGED <<box, at, to, up>>
        /\ subscribers' = [[subscribers EXCEPT ![id[c]] = NoConn] EXCEPT ![i] = c]
    BY <1>6 DEF TakeJob, Rekey, channel, sending, TypeOK
  <2>2. stream[i] = "none"
    BY <2>1, <1>6 DEF Alone, AloneAt, TakeJob
  <2> HIDE DEF i
  <2>3. CASE j = i
    <3>1. at[ExportOf(j)] = 0 /\ to[ExportOf(j)] = NoConn
      BY <2>2, <2>3 DEF ExporterInv
    <3>2. QED
      BY <2>1, <3>1 DEF LineAt
  <2>4. CASE j # i
    <3>1. subscribers'[j] = subscribers[j] \/ subscribers'[j] = NoConn
      BY <2>1, <2>4 DEF TypeOK, Key
    <3>2. QED
      BY <1>3, <2>1, <3>1
  <2>5. QED
    BY <2>3, <2>4
<1>7. ASSUME NEW k \in Job, \/ Submit(k) \/ PushToBroker(k) \/ Subscribed(k) \/ Publish(k)
                            \/ StreamEnds(k) \/ BuildZip(k),
             NEW j \in Job
      PROVE  LineAt(j)'
  <2>1. UNCHANGED <<box, at, to, up, subscribers>>
    BY <1>7 DEF Submit, PushToBroker, Subscribed, Publish, StreamEnds, BuildZip, connection,
        channel, sending
  <2>2. QED
    BY <1>3, <2>1
<1>8. ASSUME NEW k \in Job, HandleLog(k), NEW j \in Job PROVE LineAt(j)'
  <2>1. UNCHANGED <<box, up, subscribers>> /\ LookUp(LogOf(k), Head(feed[k]))
    BY <1>8 DEF HandleLog, connection, channel
  <2>2. PICK n \in Nat : n = Head(feed[k])
    BY <1>8, HandledLine
  <2>3. LogOf(k) \in Stream /\ ExportOf(j) # LogOf(k)
    BY StreamFacts
  <2>4. at'[ExportOf(j)] = at[ExportOf(j)] /\ to'[ExportOf(j)] = to[ExportOf(j)]
    BY <1>1, <1>2, <2>1, <2>2, <2>3, LooksUp
  <2>5. QED
    BY <1>3, <2>1, <2>4
<1>9. ASSUME NEW k \in Job, NextFrame(k), NEW j \in Job PROVE LineAt(j)'
  <2> DEFINE s == ExportOf(k)
             c == Client[k]
  <2>1. UNCHANGED <<box, up, subscribers>> /\ s \in Stream /\ s[1] = k /\ to[s] = NoConn
    BY <1>2, <1>9 DEF NextFrame, connection, channel
  <2>2. CASE LookUp(s, at[s] + 1)
    <3>1. PICK n \in Nat : n = at[s] + 1
      BY <1>2
    <3>2. /\ at'[s] = n /\ to'[s] = subscribers[k] /\ to'[s] \in {NoConn, c}
          /\ \A t \in Stream : t # s => at'[t] = at[t] /\ to'[t] = to[t]
      BY <1>1, <1>2, <2>1, <2>2, <3>1, LooksUp
    <3>3. CASE j # k
      <4>1. at'[ExportOf(j)] = at[ExportOf(j)] /\ to'[ExportOf(j)] = to[ExportOf(j)]
        BY <1>2, <3>2, <3>3
      <4>2. QED
        BY <1>3, <2>1, <4>1
    <3>4. CASE j = k
      <4>1. c \in up => at[s] = 0 \/ Holds(box[c], Len(box[c]), s, at[s]) \/ subscribers[k] # c
        BY <2>1 DEF NextInLine, LineAt
      <4>2. at[s] \in Nat /\ n - 1 = at[s]
        BY <1>2, <3>1
      <4>3. c \in Conn /\ c # NoConn
        BY <1>2
      <4> HIDE DEF s, c
      <4>4. c \in up => /\ to'[s] # NoConn => n = 1 \/ Holds(box[c], Len(box[c]), s, n - 1)
                        /\ to'[s] = NoConn => subscribers[k] # c
        BY <3>1, <3>2, <4>1, <4>2, <4>3
      <4>5. QED
        BY <2>1, <3>2, <3>4, <4>4 DEF LineAt, s, c
    <3>5. QED
      BY <3>3, <3>4
  <2>3. CASE UNCHANGED <<at, to>>
    BY <1>3, <2>1, <2>3
  <2>4. QED
    BY <1>9, <2>2, <2>3 DEF NextFrame
<1>10. ASSUME NEW s \in Stream, Put(s), NEW j \in Job PROVE LineAt(j)'
  <2> DEFINE d == to[s]
             c == Client[j]
             e == ExportOf(j)
  <2>1. /\ d \in Conn /\ Len(box[d]) \in Nat /\ Len(box'[d]) = Len(box[d]) + 1
        /\ \A i \in 1..Len(box[d]) : box'[d][i] = box[d][i]
        /\ box'[d][Len(box[d]) + 1] = [stream |-> s, n |-> at[s]]
        /\ \A b \in Conn : b # d => box'[b] = box[b]
    BY <1>10, PutMessage
  <2>2. /\ UNCHANGED <<up, at, subscribers>> /\ d # NoConn /\ d = Owner(s)
        /\ to'[s] = NoConn /\ \A t \in Stream : t # s => to'[t] = to[t]
    BY <1>1, <1>10 DEF Put, connection, SendInv, TypeOK
  <2>3. c \in Conn /\ e \in Stream /\ Owner(e) = c /\ LineAt(j)
    BY <1>2 DEF NextInLine
  <2> HIDE DEF d
  <2>4. \A n : Holds(box[c], Len(box[c]), e, n) => Holds(box'[c], Len(box'[c]), e, n)
    <3>1. CASE c = d
      BY <2>1, <3>1 DEF Holds
    <3>2. CASE c # d
      BY <2>1, <2>3, <3>2
    <3>3. QED
      BY <3>1, <3>2
  <2>5. CASE s # e
    <3>1. to'[e] = to[e]
      BY <2>2, <2>3, <2>5
    <3>2. QED
      BY <2>2, <2>3, <2>4, <3>1 DEF LineAt
  <2>6. CASE s = e
    <3>1. c = d /\ Len(box[d]) + 1 \in 1..Len(box'[d])
      BY <2>1, <2>2, <2>3, <2>6
    <3>2. Holds(box'[c], Len(box'[c]), e, at[e])
      BY <2>1, <2>6, <3>1 DEF Holds
    <3>3. QED
      BY <2>2, <2>6, <3>2 DEF LineAt
  <2>7. QED
    BY <2>5, <2>6
<1>11. ASSUME NEW s \in Stream, TimesOut(s), NEW j \in Job PROVE LineAt(j)'
  <2>1. UNCHANGED <<up, at, subscribers, box>> /\ to' = [to EXCEPT ![s] = NoConn]
        /\ to[s] # NoConn /\ to[s] \notin up
    BY <1>11 DEF TimesOut, connection, channel
  <2>2. to[s] = Owner(s) /\ \A t \in Stream : t # s => to'[t] = to[t]
    BY <1>1, <2>1 DEF SendInv, TypeOK
  <2>3. CASE s # ExportOf(j)
    BY <1>2, <1>3, <2>1, <2>2, <2>3
  <2>4. CASE s = ExportOf(j)
    <3>1. Client[j] \notin up'
      BY <1>2, <2>1, <2>2, <2>4
    <3>2. QED
      BY <3>1 DEF LineAt
  <2>5. QED
    BY <2>3, <2>4
<1>12. ASSUME UNCHANGED vars, NEW j \in Job PROVE LineAt(j)'
  BY <1>3, <1>12 DEF vars, connection, channel, sending
<1>13. \A j \in Job : LineAt(j)'
  BY <1>4, <1>5, <1>6, <1>7, <1>8, <1>9, <1>10, <1>11, <1>12
  DEF Next, Loop, ReadLoop, SendToSubscriber
<1>14. QED
  BY <1>13 DEF NextInLine

\* The server's part of the invariant.
LEMMA FrameStep ==
    IInv /\ FrameInv /\ "slow" \notin Trouble /\ [Next]_vars => FrameInv'
<1> SUFFICES ASSUME IInv, FrameInv, "slow" \notin Trouble, [Next]_vars PROVE FrameInv'
  OBVIOUS
<1>1. TypeOK /\ OwnJobs /\ Entries /\ Flow /\ Fresh /\ OwnEntries
      /\ UpToDate /\ FeedInv /\ BoxInv /\ SendInv
  BY DEF IInv, Entries, Flow
<1>2. Alone /\ Quiet /\ ExporterInv /\ Preceded /\ NextInLine
  BY DEF FrameInv
<1>3. Alone' /\ Quiet'
  BY <1>1, <1>2, AloneStep, QuietStep
<1>4. ExporterInv'
  BY <1>1, <1>2, ExporterStep
<1>5. Preceded' /\ NextInLine'
  BY <1>1, <1>2, PrecededStep, LineStep
<1>6. QED
  BY <1>3, <1>4, <1>5 DEF FrameInv

-----------------------------------------------------------------------------
(* The user's end *)

\* What is collected and saved of job j after its first k frames.
Shows(j, k) ==
    /\ k = 0 => chunks[j] = NoChunks /\ totals[j] = 0 /\ saved[j] = <<>>
    /\ k \in 1..(Frames - 1) =>
          /\ totals[j] = TotalChunks(ZipSize[j]) /\ saved[j] = <<>>
          /\ chunks[j] = [i \in 0..(k - 2) |-> Chunk(ZipSize[j], i)]
    /\ k = Frames => saved[j] \in {<<>>, <<Zip(ZipSize[j])>>}

\* The UI has had the first k frames, and none else.
Collected(j, k) ==
    LET c == Client[j]
    IN  /\ k = 0 \/ Holds(box[c], seen[c], ExportOf(j), k)
        /\ \A h \in 1..seen[c] : box[c][h].stream = ExportOf(j) => box[c][h].n <= k
        /\ Shows(j, k)

\* The UI has handled no more than the client has received.
SeenInv ==
    /\ DOMAIN seen = Conn
    /\ \A c \in Conn : seen[c] \in Nat /\ seen[c] <= received[c]

UIInv ==
    /\ SeenInv
    /\ DOMAIN chunks = Job /\ DOMAIN totals = Job /\ DOMAIN saved = Job
    /\ \A j \in Job : \E k \in 0..Frames : Collected(j, k)

SessionInv == IInv /\ FrameInv /\ UIInv

LEMMA ArchiveFacts ==
    ASSUME NEW j \in Job
    PROVE  /\ ZipSize[j] \in Nat \ {0} /\ TotalChunks(ZipSize[j]) \in Nat \ {0}
           /\ Frames = TotalChunks(ZipSize[j]) + 2
  BY SessionAssumption, ChunkCount DEF FrameCount

LEMMA UIInit == SessionInit => UIInv
<1> SUFFICES ASSUME SessionInit PROVE UIInv
  OBVIOUS
<1>1. ASSUME NEW j \in Job PROVE Collected(j, 0)
  <2>1. Client[j] \in Conn /\ Frames # 0
    BY LogStreamAssumption
  <2>2. Shows(j, 0)
    BY <2>1 DEF SessionInit, Shows
  <2>3. QED
    BY <2>1, <2>2 DEF SessionInit, Collected
<1>2. 0 \in 0..Frames
  BY LogStreamAssumption
<1>3. received = [c \in Conn |-> 0]
  BY DEF SessionInit, Init
<1>4. QED
  BY <1>1, <1>2, <1>3 DEF SessionInit, UIInv, SeenInv

\* EXPORT_START
LEMMA StartShown ==
    ASSUME UIInv, NEW j \in Job, Shows(j, 0), Archive!OnFrame(j, Frame(ZipSize[j], 1))
    PROVE  /\ Shows(j, 1)'
           /\ DOMAIN chunks' = Job /\ DOMAIN totals' = Job /\ DOMAIN saved' = Job
           /\ \A i \in Job \ {j} : chunks'[i] = chunks[i] /\ totals'[i] = totals[i] /\ saved'[i] = saved[i]
<1> DEFINE f == Frame(ZipSize[j], 1)
<1>1. f = [kind |-> "START", total |-> TotalChunks(ZipSize[j])]
  BY DEF Frame
<1>2. f.kind = "START" /\ f.total = TotalChunks(ZipSize[j])
  BY <1>1
<1> HIDE DEF f
<1>3. Archive!OnStart(j, f)
  BY <1>2 DEF Archive!OnFrame, Archive!OnChunk, Archive!OnEnd, f
<1>4. /\ chunks' = [chunks EXCEPT ![j] = NoChunks]
      /\ totals' = [totals EXCEPT ![j] = TotalChunks(ZipSize[j])]
      /\ saved' = saved
  BY <1>2, <1>3 DEF Archive!OnStart, Archive!NoChunks, NoChunks
<1>5. DOMAIN chunks = Job /\ DOMAIN totals = Job /\ DOMAIN saved = Job /\ saved[j] = <<>>
  BY DEF UIInv, SeenInv, Shows
<1>6. NoChunks = [i \in 0..(1 - 2) |-> Chunk(ZipSize[j], i)]
  <2>1. 0..(1 - 2) = {}
    OBVIOUS
  <2>2. QED
    BY <2>1 DEF NoChunks
<1>7. chunks'[j] = NoChunks /\ totals'[j] = TotalChunks(ZipSize[j]) /\ saved'[j] = <<>>
  BY <1>4, <1>5
<1>8. 1 # Frames
  BY ArchiveFacts
<1>9. Shows(j, 1)'
  BY <1>6, <1>7, <1>8 DEF Shows
<1>10. QED
  BY <1>4, <1>5, <1>9

\* EXPORT_CHUNK
LEMMA ChunkShown ==
    ASSUME UIInv, NEW j \in Job, NEW n \in 2..(Frames - 1), Shows(j, n - 1),
           Archive!OnFrame(j, Frame(ZipSize[j], n))
    PROVE  /\ Shows(j, n)'
           /\ DOMAIN chunks' = Job /\ DOMAIN totals' = Job /\ DOMAIN saved' = Job
           /\ \A i \in Job \ {j} : chunks'[i] = chunks[i] /\ totals'[i] = totals[i] /\ saved'[i] = saved[i]
<1> DEFINE z == ZipSize[j]
           f == Frame(z, n)
<1>1. Frames \in Nat /\ FrameCount(z) = Frames
  BY LogStreamAssumption, SessionAssumption
<1>2. n # 1 /\ n # Frames /\ n - 1 \in 1..(Frames - 1) /\ n - 2 \in Nat
  BY <1>1
<1>3. f = [kind |-> "CHUNK", index |-> n - 2, payload |-> Chunk(z, n - 2)]
  BY <1>1, <1>2 DEF Frame
<1>4. f.kind = "CHUNK" /\ f.index = n - 2 /\ f.payload = Chunk(z, n - 2)
  BY <1>3
<1> HIDE DEF f
<1>5. Archive!OnChunk(j, f)
  BY <1>4 DEF Archive!OnFrame, Archive!OnStart, Archive!OnEnd, f
<1>6. /\ chunks' = [chunks EXCEPT ![j] = [k \in DOMAIN chunks[j] \cup {n - 2} |->
                       IF k = n - 2 THEN Chunk(z, n - 2) ELSE chunks[j][k]]]
      /\ totals' = totals /\ saved' = saved
  BY <1>4, <1>5 DEF Archive!OnChunk
<1>7. DOMAIN chunks = Job /\ DOMAIN totals = Job /\ DOMAIN saved = Job
  BY DEF UIInv, SeenInv
<1>8. /\ totals[j] = TotalChunks(z) /\ saved[j] = <<>>
      /\ chunks[j] = [i \in 0..(n - 1 - 2) |-> Chunk(z, i)]
  BY <1>2 DEF Shows
<1>9. DOMAIN chunks[j] = 0..(n - 1 - 2) /\ \A i \in 0..(n - 1 - 2) : chunks[j][i] = Chunk(z, i)
  BY <1>8
<1>10. 0..(n - 1 - 2) \cup {n - 2} = 0..(n - 2)
  BY <1>2
<1>11. chunks'[j] = [k \in 0..(n - 2) |-> IF k = n - 2 THEN Chunk(z, n - 2) ELSE chunks[j][k]]
  BY <1>6, <1>7, <1>9, <1>10
<1>12. \A k \in 0..(n - 2) : (IF k = n - 2 THEN Chunk(z, n - 2) ELSE chunks[j][k]) = Chunk(z, k)
  BY <1>2, <1>9
<1>13. chunks'[j] = [k \in 0..(n - 2) |-> Chunk(z, k)]
  BY <1>11, <1>12
<1>14. Shows(j, n)'
  BY <1>2, <1>6, <1>8, <1>13 DEF Shows
<1>15. QED
  BY <1>6, <1>7, <1>14

\* EXPORT_END
LEMMA EndShown ==
    ASSUME UIInv, NEW j \in Job, Shows(j, Frames - 1),
           Archive!OnFrame(j, Frame(ZipSize[j], Frames))
    PROVE  /\ Shows(j, Frames)'
           /\ DOMAIN chunks' = Job /\ DOMAIN totals' = Job /\ DOMAIN saved' = Job
           /\ \A i \in Job \ {j} : chunks'[i] = chunks[i] /\ totals'[i] = totals[i] /\ saved'[i] = saved[i]
<1> DEFINE z == ZipSize[j]
           f == Frame(z, Frames)
           T == TotalChunks(z)
<1>1. /\ z \in Nat \ {0} /\ T \in Nat \ {0} /\ Frames = T + 2 /\ FrameCount(z) = Frames
  BY ArchiveFacts, SessionAssumption
<1> HIDE DEF T
<1>2. Frames # 1 /\ Frames # 0 /\ Frames - 1 \in 1..(Frames - 1) /\ Frames - 1 - 2 = T - 1
      /\ Frames \notin 1..(Frames - 1)
  BY <1>1
<1>3. f = [kind |-> "END"]
  BY <1>1, <1>2 DEF Frame
<1>4. f.kind = "END"
  BY <1>3
<1> HIDE DEF f
<1>5. Archive!OnEnd(j, f)
  BY <1>4 DEF Archive!OnFrame, Archive!OnStart, Archive!OnChunk, f
<1>6. DOMAIN chunks = Job /\ DOMAIN totals = Job /\ DOMAIN saved = Job
  BY DEF UIInv, SeenInv
<1>7. totals[j] = T /\ saved[j] = <<>> /\ chunks[j] = [i \in 0..(T - 1) |-> Chunk(z, i)]
  BY <1>2 DEF Shows, T
<1>8. Archive!Assembled(chunks[j], totals[j]) = Zip(z)
  <2>1. Assembled([i \in 0..(T - 1) |-> Chunk(z, i)], T) = Zip(z)
    BY <1>1, AssemblyWhole DEF T
  <2>2. Archive!Assembled(chunks[j], totals[j]) = Assembled(chunks[j], totals[j])
    BY DEF Archive!Assembled, Assembled
  <2>3. QED
    BY <1>7, <2>1, <2>2
<1>9. saved' = [saved EXCEPT ![j] = <<Zip(z)>>] \/ saved' = saved
  BY <1>5, <1>8 DEF Archive!OnEnd, client, Archive!client
<1>10. /\ chunks' = [chunks EXCEPT ![j] = Archive!NoChunks] \/ chunks' = chunks
       /\ totals' = [totals EXCEPT ![j] = 0] \/ totals' = totals
  BY <1>5 DEF Archive!OnEnd, client, Archive!client
<1>11. saved'[j] \in {<<>>, <<Zip(z)>>}
  BY <1>6, <1>7, <1>9
<1>12. Shows(j, Frames)'
  BY <1>2, <1>11 DEF Shows
<1>13. QED
  BY <1>6, <1>9, <1>10, <1>12

\* A frame that is next is shown.
LEMMA FrameShown ==
    ASSUME UIInv, NEW j \in Job, NEW n \in 1..Frames, Shows(j, n - 1),
           Archive!OnFrame(j, Frame(ZipSize[j], n))
    PROVE  /\ Shows(j, n)'
           /\ DOMAIN chunks' = Job /\ DOMAIN totals' = Job /\ DOMAIN saved' = Job
           /\ \A i \in Job \ {j} : chunks'[i] = chunks[i] /\ totals'[i] = totals[i] /\ saved'[i] = saved[i]
<1>1. Frames \in Nat /\ Frames >= 3
  BY ArchiveFacts
<1>2. CASE n = 1
  <2>1. n - 1 = 0
    BY <1>2
  <2>2. QED
    BY <1>2, <2>1, StartShown
<1>3. CASE n \in 2..(Frames - 1)
  BY <1>3, ChunkShown
<1>4. CASE n = Frames
  BY <1>4, EndShown
<1>5. QED
  BY <1>1, <1>2, <1>3, <1>4

\* Nothing is taken back: neither what was put into msgs nor what was received.
LEMMA OnlyGrows ==
    ASSUME TypeOK, [Next]_vars, NEW c \in Conn
    PROVE  /\ received[c] <= received'[c]
           /\ \A h \in 1..Len(box[c]) : box'[c][h] = box[c][h]
<1>0. received[c] \in Nat /\ taken[c] \in Nat /\ received[c] <= taken[c]
  BY DEF TypeOK
<1>1. received[c] <= received'[c]
  <2>1. ASSUME NEW d \in Conn, WriteMsg(d) PROVE received[c] <= received'[c]
    <3>1. received' = received \/ received' = [received EXCEPT ![d] = taken[d] + 1]
      BY <2>1 DEF WriteMsg
    <3>2. received'[c] = received[c] \/ (c = d /\ received'[c] = taken[c] + 1)
      BY <3>1 DEF TypeOK
    <3>3. QED
      BY <1>0, <3>2
  <2>2. ASSUME NEW d \in Conn, \/ Connect(d) \/ Leave(d) \/ Receive(d) \/ ReadFails(d)
                               \/ TakeJob(d) \/ TakeReadErr(d)
        PROVE  received' = received
    BY <2>2 DEF Connect, Leave, Receive, ReadFails, TakeJob, TakeReadErr, channel
  <2>3. ASSUME NEW j \in Job, \/ Submit(j) \/ PushToBroker(j) \/ Subscribed(j)
                              \/ Publish(j) \/ HandleLog(j)
                              \/ StreamEnds(j) \/ BuildZip(j) \/ NextFrame(j)
        PROVE  received' = received
    BY <2>3 DEF Submit, PushToBroker, Subscribed, Publish, HandleLog, StreamEnds, BuildZip,
        NextFrame, channel
  <2>4. ASSUME NEW s \in Stream, SendToSubscriber(s) PROVE received' = received
    BY <2>4 DEF SendToSubscriber, Put, TimesOut, channel
  <2>5. CASE UNCHANGED vars
    BY <1>0, <2>5 DEF vars, channel
  <2>6. QED
    BY <1>0, <2>1, <2>2, <2>3, <2>4, <2>5 DEF Next, Loop, ReadLoop
<1>2. \A h \in 1..Len(box[c]) : box'[c][h] = box[c][h]
  <2>1. ASSUME NEW s \in Stream, Put(s) PROVE \A h \in 1..Len(box[c]) : box'[c][h] = box[c][h]
    <3>1. /\ \A h \in 1..Len(box[to[s]]) : box'[to[s]][h] = box[to[s]][h]
          /\ \A d \in Conn : d # to[s] => box'[d] = box[d]
      BY <2>1, PutMessage
    <3>2. QED
      BY <3>1
  <2>2. ASSUME NEW d \in Conn, Connect(d) \/ Leave(d) \/ Loop(d) \/ ReadLoop(d) PROVE box' = box
    BY <2>2 DEF Connect, Leave, Loop, ReadLoop, Receive, ReadFails, WriteMsg, TakeJob,
        TakeReadErr, channel
  <2>3. ASSUME NEW j \in Job, \/ Submit(j) \/ PushToBroker(j) \/ Subscribed(j)
                              \/ Publish(j) \/ HandleLog(j)
                              \/ StreamEnds(j) \/ BuildZip(j) \/ NextFrame(j)
        PROVE  box' = box
    BY <2>3 DEF Submit, PushToBroker, Subscribed, Publish, HandleLog, StreamEnds, BuildZip,
        NextFrame, channel
  <2>4. ASSUME NEW s \in Stream, TimesOut(s) PROVE box' = box
    BY <2>4 DEF TimesOut, channel
  <2>5. CASE UNCHANGED vars
    BY <2>5 DEF vars, channel
  <2>6. QED
    BY <2>1, <2>2, <2>3, <2>4, <2>5 DEF Next, SendToSubscriber
<1>3. QED
  BY <1>1, <1>2

\* The server goes on: what the UI has had stays where it is.
LEMMA ServerKeepsUI ==
    ASSUME TypeOK, TypeOK', UIInv, [Next]_vars, UNCHANGED <<seen, client>>
    PROVE  UIInv'
<1> USE LogStreamAssumption
<1>1. UNCHANGED <<seen, chunks, totals, saved>>
  BY DEF client
<1>2. \A c \in Conn : seen[c] \in Nat /\ received[c] \in Nat /\ seen[c] <= received[c]
                      /\ received[c] <= taken[c] /\ taken[c] \in Nat /\ taken[c] <= Len(box[c])
                      /\ Len(box[c]) \in Nat
  BY LenProperties DEF UIInv, SeenInv, TypeOK
<1>5. ASSUME NEW j \in Job, NEW k \in 0..Frames, Collected(j, k) PROVE Collected(j, k)'
  <2>1. Client[j] \in Conn
    OBVIOUS
  <2>2. \A h \in 1..seen[Client[j]] : box'[Client[j]][h] = box[Client[j]][h]
    BY <1>2, <2>1, OnlyGrows
  <2>3. QED
    BY <1>1, <1>5, <2>2 DEF Collected, Shows, Holds
<1>6. \A c \in Conn : seen[c] <= received'[c]
  <2> TAKE c \in Conn
  <2>1. PICK m \in Nat, n \in Nat : m = received[c] /\ n = received'[c]
    BY <1>2 DEF TypeOK
  <2>2. m <= n /\ seen[c] \in Nat /\ seen[c] <= m
    BY <1>2, <2>1, OnlyGrows
  <2>3. QED
    BY <2>1, <2>2
<1>7. QED
  BY <1>1, <1>5, <1>6 DEF UIInv, SeenInv

\* The UI handles an event: if it is a frame, it is the next one.
LEMMA UpdateUI ==
    ASSUME IInv, FrameInv, UIInv, NEW c \in Conn, Update(c)
    PROVE  UIInv'
<1> USE LogStreamAssumption
<1> DEFINE p == seen[c] + 1
           msg == box[c][p]
<1>1. TypeOK /\ BoxInv /\ Preceded /\ ExporterInv
  BY DEF IInv, Flow, FrameInv
<1>2. /\ UNCHANGED <<up, box, received, at, to>>
      /\ seen' = [seen EXCEPT ![c] = p] /\ seen[c] < received[c]
  BY DEF Update, vars, connection, channel, sending
<1>3. /\ seen[c] \in Nat /\ received[c] \in Nat /\ received[c] <= Len(box[c]) /\ Len(box[c]) \in Nat
      /\ p \in Nat /\ p <= received[c] /\ p \in 1..Len(box[c]) /\ p \in 1..Reach(c)
  BY <1>1, <1>2, LenProperties DEF TypeOK, UIInv, SeenInv, Reach
<1>4. msg \in Message
  BY <1>1, <1>3, ElementOfSeq DEF TypeOK
<1>5. msg.stream \in Stream /\ msg.n \in Nat /\ Owner(msg.stream) = c /\ msg.n >= 1
      /\ msg.n <= at[msg.stream]
  BY <1>1, <1>3, <1>4 DEF BoxInv, Message
<1>6. /\ seen'[c] = p /\ \A d \in Conn : d # c => seen'[d] = seen[d]
      /\ DOMAIN seen' = Conn
  BY <1>2 DEF UIInv, SeenInv
<1>7. \A d \in Conn : seen'[d] \in Nat /\ seen'[d] <= received'[d]
  BY <1>2, <1>3, <1>6 DEF UIInv, SeenInv
<1>8. p - 1 = seen[c] /\ \A h \in 1..p : h = p \/ h \in 1..seen[c]
  BY <1>3
<1> HIDE DEF p
\* What is not of job j's archive does not show there.
<1>9. ASSUME NEW j \in Job, NEW k \in 0..Frames, Collected(j, k), Shows(j, k)',
             Client[j] = c => msg.stream # ExportOf(j)
      PROVE  Collected(j, k)'
  <2>1. CASE Client[j] # c
    <3>1. Client[j] \in Conn /\ seen'[Client[j]] = seen[Client[j]] /\ box' = box
      BY <1>2, <1>6, <2>1
    <3>2. QED
      BY <1>9, <3>1 DEF Collected, Holds
  <2>2. CASE Client[j] = c
    <3>1. k = 0 \/ Holds(box[c], p, ExportOf(j), k)
      <4>1. k = 0 \/ Holds(box[c], seen[c], ExportOf(j), k)
        BY <1>9, <2>2 DEF Collected
      <4>2. \A h \in 1..seen[c] : h \in 1..p
        BY <1>3, <1>8
      <4>3. QED
        BY <4>1, <4>2 DEF Holds
    <3>2. \A h \in 1..p : box[c][h].stream = ExportOf(j) => box[c][h].n <= k
      BY <1>8, <1>9, <2>2 DEF Collected
    <3>3. QED
      BY <1>2, <1>6, <1>9, <2>2, <3>1, <3>2 DEF Collected
  <2>3. QED
    BY <2>1, <2>2
<1>10. CASE msg.stream[2] = "log"
  <2>1. UNCHANGED client
    BY <1>10 DEF Update, p
  <2>2. \A j \in Job : msg.stream # ExportOf(j)
    BY <1>10 DEF ExportOf
  <2>3. \A j \in Job : \A k \in 0..Frames : Shows(j, k) => Shows(j, k)'
    BY <2>1 DEF Shows, client
  <2>4. ASSUME NEW j \in Job PROVE (\E k \in 0..Frames : Collected(j, k))'
    <3>1. PICK k \in 0..Frames : Collected(j, k)
      BY DEF UIInv, SeenInv
    <3>2. Shows(j, k)'
      BY <2>3, <3>1 DEF Collected
    <3>3. QED
      BY <1>9, <2>2, <3>1, <3>2
  <2>5. DOMAIN chunks' = Job /\ DOMAIN totals' = Job /\ DOMAIN saved' = Job
    BY <2>1 DEF client, UIInv, SeenInv
  <2>6. QED
    BY <1>6, <1>7, <2>4, <2>5 DEF UIInv, SeenInv
<1>11. CASE msg.stream[2] = "export"
  <2>1. PICK i \in Job : msg.stream = ExportOf(i)
    BY <1>5, <1>11, StreamKinds, StreamFacts
  <2>2. PICK n \in Nat : n = msg.n
    BY <1>5
  <2>3. Client[i] = c /\ msg.stream[1] = i
    BY <1>5, <2>1, StreamFacts DEF Owner
  <2>4. n \in 1..Frames
    <3>1. at[ExportOf(i)] \in Nat /\ at[ExportOf(i)] <= Frames
      BY <1>1, StreamFacts DEF ExporterInv, TypeOK
    <3>2. QED
      BY <1>5, <2>1, <2>2, <3>1
  <2>5. Archive!OnFrame(i, Frame(ZipSize[i], n))
    BY <1>11, <2>2, <2>3 DEF Update, p
  <2>6. PICK k \in 0..Frames : Collected(i, k)
    BY DEF UIInv, SeenInv
  <2>7. k = n - 1
    <3>1. n = 1 \/ Holds(box[c], seen[c], ExportOf(i), n - 1)
      BY <1>1, <1>3, <1>8, <1>11, <2>1, <2>2 DEF Preceded
    <3>2. n - 1 <= k
      <4>1. ASSUME NEW h \in 1..seen[c], box[c][h].stream = ExportOf(i), box[c][h].n = n - 1
            PROVE  n - 1 <= k
        BY <2>3, <2>6, <4>1 DEF Collected
      <4>2. QED
        BY <3>1, <4>1 DEF Holds
    <3>3. k = 0 \/ k < n
      <4>1. ASSUME NEW h \in 1..seen[c], box[c][h].stream = ExportOf(i), box[c][h].n = k
            PROVE  k < n
        <5>1. h \in 1..Len(box[c]) /\ h < p
          BY <1>3, <1>8
        <5>2. box[c][h].n < box[c][p].n
          BY <1>1, <1>3, <2>1, <4>1, <5>1 DEF BoxInv
        <5>3. QED
          BY <2>2, <4>1, <5>2
      <4>2. QED
        BY <2>3, <2>6, <4>1 DEF Collected, Holds
    <3>4. QED
      BY <2>4, <3>2, <3>3
  <2>8. /\ Shows(i, n)'
        /\ DOMAIN chunks' = Job /\ DOMAIN totals' = Job /\ DOMAIN saved' = Job
        /\ \A j \in Job \ {i} : chunks'[j] = chunks[j] /\ totals'[j] = totals[j] /\ saved'[j] = saved[j]
    <3>1. Shows(i, n - 1)
      BY <2>6, <2>7 DEF Collected
    <3>2. QED
      BY <2>4, <2>5, <3>1, FrameShown
  <2>9. Collected(i, n)'
    <3>1. Holds(box[c], p, ExportOf(i), n)
      BY <1>3, <2>1, <2>2 DEF Holds
    <3>2. ASSUME NEW h \in 1..p, box[c][h].stream = ExportOf(i) PROVE box[c][h].n <= n
      <4>1. CASE h = p
        BY <2>2, <4>1
      <4>2. CASE h \in 1..seen[c]
        <5>1. h \in 1..Len(box[c]) /\ h < p
          BY <1>3, <1>8, <4>2
        <5>2. box[c][h].n < box[c][p].n
          BY <1>1, <1>3, <2>1, <3>2, <5>1 DEF BoxInv
        <5>3. box[c] \in Seq(Message)
          BY <1>1 DEF TypeOK
        <5>4. box[c][h] \in Message
          BY <5>1, <5>3, ElementOfSeq
        <5>5. QED
          BY <2>2, <5>2, <5>4 DEF Message
      <4>3. QED
        BY <1>8, <4>1, <4>2
    <3>3. QED
      BY <1>2, <1>6, <2>3, <2>8, <3>1, <3>2 DEF Collected
  <2>10. ASSUME NEW j \in Job, j # i PROVE (\E m \in 0..Frames : Collected(j, m))'
    <3>1. PICK m \in 0..Frames : Collected(j, m)
      BY DEF UIInv, SeenInv
    <3>2. Shows(j, m)'
      BY <2>8, <2>10, <3>1 DEF Collected, Shows
    <3>3. msg.stream # ExportOf(j)
      BY <2>1, <2>10, StreamFacts
    <3>4. QED
      BY <1>9, <3>1, <3>2, <3>3
  <2>11. n \in 0..Frames
    BY <2>4
  <2>12. \A j \in Job : (\E m \in 0..Frames : Collected(j, m))'
    BY <2>9, <2>10, <2>11
  <2>13. QED
    BY <1>6, <1>7, <2>8, <2>12 DEF UIInv, SeenInv
<1>12. QED
  BY <1>10, <1>11 DEF Update, p

-----------------------------------------------------------------------------
(* The theorem *)

LEMMA SessionInvariant ==
    ASSUME "slow" \notin Trouble
    PROVE  SessionSpec => []SessionInv
<1>1. SessionInit => SessionInv
  BY IInvInit, FrameInit, UIInit DEF SessionInit, SessionInv
<1>2. SessionInv /\ [SessionNext]_sessionVars => SessionInv'
  <2> SUFFICES ASSUME SessionInv, [SessionNext]_sessionVars PROVE SessionInv'
    OBVIOUS
  <2>1. IInv /\ FrameInv /\ UIInv /\ TypeOK /\ OwnJobs /\ Entries /\ OwnEntries /\ Flow
    BY DEF SessionInv, IInv, Entries
  <2>2. \/ [Next]_vars /\ UNCHANGED <<seen, client>>
        \/ (\E c \in Conn : Update(c)) /\ UNCHANGED vars
    BY DEF SessionNext, sessionVars, Update
  <2>3. [Next]_vars
    BY <2>2
  <2>4. TypeOK' /\ OwnJobs' /\ Entries' /\ Flow'
    BY <2>1, <2>3, TypeStep, OwnStep, EntriesStep, FlowStep
  <2>5. FrameInv'
    BY <2>1, <2>3, FrameStep
  <2>6. UIInv'
    BY <2>1, <2>2, <2>4, ServerKeepsUI, UpdateUI
  <2>7. QED
    BY <2>4, <2>5, <2>6 DEF SessionInv, IInv
<1>3. QED
  BY <1>1, <1>2, PTL DEF SessionSpec

\* "Export download complete!" is said of the whole archive, byte for byte, and of
\* nothing else: for any connections and jobs, archives and chunks of any size, any
\* number of places in msgs, and whatever is re-keyed, dropped by Redis, not built or
\* disconnected. What must not happen is that a frame waits two seconds in vain: the
\* client does not miss it, and saves the rest.
THEOREM ArchiveIsWhole ==
    ASSUME "slow" \notin Trouble
    PROVE  SessionSpec => []SuccessIsWhole
<1>1. SessionInv => SuccessIsWhole
  <2> SUFFICES ASSUME SessionInv, NEW j \in Job, saved[j] # <<>>
               PROVE  saved[j] = <<Archive!Zip(ZipSize[j])>>
    BY DEF SuccessIsWhole, Archive!SuccessIsWhole
  <2>1. PICK k \in 0..Frames : Collected(j, k)
    BY DEF SessionInv, UIInv, SeenInv
  <2>2. Shows(j, k)
    BY <2>1 DEF Collected
  <2>3. k = 0 \/ k \in 1..(Frames - 1) \/ k = Frames
    BY LogStreamAssumption
  <2>4. saved[j] = <<Zip(ZipSize[j])>>
    BY <2>2, <2>3 DEF Shows
  <2>5. QED
    BY <2>4 DEF Zip, Archive!Zip
<1>2. QED
  BY <1>1, SessionInvariant, PTL

-----------------------------------------------------------------------------
(* The server's channels are a wire *)

\* f puts the pieces h[lo + 1], ..., h[hi] together, one after the other.
Chain(h, lo, hi, f) ==
    f = [i \in lo..hi |-> IF i = lo THEN <<>> ELSE f[i - 1] \o h[i]]

LEMMA ChainExists ==
    ASSUME NEW h, NEW lo \in Nat, NEW hi \in Nat, lo <= hi
    PROVE  \E f : Chain(h, lo, hi, f)
<1> DEFINE Bad == {n \in Nat : lo <= n /\ n <= hi /\ ~\E f : Chain(h, lo, n, f)}
<1>1. SUFFICES Bad = {}
  OBVIOUS
<1>2. SUFFICES ASSUME Bad # {} PROVE FALSE
  OBVIOUS
<1>3. Bad \subseteq Nat
  OBVIOUS
<1>4. PICK n \in Bad : \A m \in Bad : n <= m
  <2> HIDE DEF Bad
  <2>1. QED
    BY <1>2, <1>3, LeastElement
<1>5. n \in Nat /\ lo <= n /\ n <= hi /\ ~\E f : Chain(h, lo, n, f)
  OBVIOUS
<1>6. CASE n = lo
  <2> DEFINE g == [i \in lo..lo |-> <<>>]
  <2>1. g = [i \in lo..lo |-> IF i = lo THEN <<>> ELSE g[i - 1] \o h[i]]
    OBVIOUS
  <2>2. Chain(h, lo, lo, g)
    BY <2>1 DEF Chain
  <2>3. QED
    BY <1>5, <1>6, <2>2
<1>7. CASE n # lo
  <2>1. n - 1 \in Nat /\ lo <= n - 1 /\ n - 1 <= hi /\ ~(n <= n - 1)
    BY <1>5, <1>7
  <2>2. n - 1 \notin Bad
    BY <1>4, <2>1
  <2>3. PICK f : Chain(h, lo, n - 1, f)
    BY <2>1, <2>2
  <2> DEFINE g == [i \in lo..n |-> IF i = n THEN f[n - 1] \o h[n] ELSE f[i]]
  <2>4. ASSUME NEW i \in lo..n
        PROVE  g[i] = IF i = lo THEN <<>> ELSE g[i - 1] \o h[i]
    <3>1. CASE i = n
      <4>1. i # lo /\ n - 1 \in lo..n /\ n - 1 # n
        BY <1>5, <1>7, <2>1, <3>1
      <4>2. g[n - 1] = f[n - 1]
        BY <4>1
      <4>3. QED
        BY <3>1, <4>1, <4>2
    <3>2. CASE i # n
      <4>1. i \in lo..(n - 1)
        BY <1>5, <3>2
      <4>2. f[i] = IF i = lo THEN <<>> ELSE f[i - 1] \o h[i]
        BY <2>3, <4>1 DEF Chain
      <4>3. i # lo => i - 1 \in lo..n /\ i - 1 # n
        BY <1>5, <4>1
      <4>4. i # lo => g[i - 1] = f[i - 1]
        BY <4>3
      <4>5. QED
        BY <3>2, <4>2, <4>4
    <3>3. QED
      BY <3>1, <3>2
  <2>5. DOMAIN g = lo..n /\ g = [i \in lo..n |-> g[i]]
    OBVIOUS
  <2> HIDE DEF g
  <2>6. g = [i \in lo..n |-> IF i = lo THEN <<>> ELSE g[i - 1] \o h[i]]
    BY <2>4, <2>5
  <2>7. Chain(h, lo, n, g)
    BY <2>6 DEF Chain
  <2>8. QED
    BY <1>5, <2>7
<1>8. QED
  BY <1>6, <1>7

\* What message m is for the archive of job j.
Piece(j, m) == IF m.stream = ExportOf(j) THEN <<Frame(ZipSize[j], m.n)>> ELSE <<>>
FrameSet(j) == {Frame(ZipSize[j], n) : n \in Nat}

\* The frames of job j in q, behind the first l messages.
WireOf(q, l, j) ==
    LET upTo[i \in l..Len(q)] ==
            IF i = l THEN <<>>
            ELSE upTo[i - 1] \o (IF q[i].stream = ExportOf(j)
                                 THEN <<Frame(ZipSize[j], q[i].n)>> ELSE <<>>)
    IN  upTo[Len(q)]

PiecesOf(q, j) == [i \in 1..Len(q) |-> Piece(j, q[i])]

LEMMA WireMeans == \A j \in Job : FramesUnderWay(j) = WireOf(box[Client[j]], seen[Client[j]], j)
BY DEF FramesUnderWay, WireOf

LEMMA PieceType ==
    ASSUME NEW j \in Job, NEW m \in Message
    PROVE  Piece(j, m) \in Seq(FrameSet(j))
<1>1. m.n \in Nat
  BY DEF Message
<1>2. Frame(ZipSize[j], m.n) \in FrameSet(j)
  BY <1>1 DEF FrameSet
<1> DEFINE x == Frame(ZipSize[j], m.n)
<1> HIDE DEF x
<1>3. <<x>> \in Seq(FrameSet(j)) /\ <<>> \in Seq(FrameSet(j))
  BY <1>2, EmptySeq DEF x
<1>4. QED
  BY <1>3 DEF Piece, x

LEMMA WireChain ==
    ASSUME NEW j \in Job, NEW q \in Seq(Message), NEW l \in 0..Len(q)
    PROVE  \E f : Chain(PiecesOf(q, j), l, Len(q), f) /\ WireOf(q, l, j) = f[Len(q)]
<1> DEFINE Body(f, i) == IF i = l THEN <<>>
                         ELSE f[i - 1] \o (IF q[i].stream = ExportOf(j)
                                           THEN <<Frame(ZipSize[j], q[i].n)>> ELSE <<>>)
           upTo[i \in l..Len(q)] ==
               IF i = l THEN <<>>
               ELSE upTo[i - 1] \o (IF q[i].stream = ExportOf(j)
                                    THEN <<Frame(ZipSize[j], q[i].n)>> ELSE <<>>)
<1>1. WireOf(q, l, j) = upTo[Len(q)]
  BY DEF WireOf
<1>2. upTo = CHOOSE f : f = [i \in l..Len(q) |-> Body(f, i)]
  BY DEF upTo
<1> HIDE DEF upTo
<1>3. Len(q) \in Nat /\ l \in Nat /\ l <= Len(q)
  BY LenProperties
<1>4. ASSUME NEW f
      PROVE  Chain(PiecesOf(q, j), l, Len(q), f) <=> f = [i \in l..Len(q) |-> Body(f, i)]
  <2>1. ASSUME NEW i \in l..Len(q)
        PROVE  Body(f, i) = IF i = l THEN <<>> ELSE f[i - 1] \o PiecesOf(q, j)[i]
    <3>1. CASE i = l
      BY <3>1
    <3>2. CASE i # l
      <4>1. i \in 1..Len(q)
        BY <1>3, <3>2
      <4>2. PiecesOf(q, j)[i] = Piece(j, q[i])
        BY <4>1 DEF PiecesOf
      <4>3. QED
        BY <3>2, <4>2 DEF Piece
    <3>3. QED
      BY <3>1, <3>2
  <2> HIDE DEF Body
  <2>2. [i \in l..Len(q) |-> Body(f, i)]
            = [i \in l..Len(q) |-> IF i = l THEN <<>> ELSE f[i - 1] \o PiecesOf(q, j)[i]]
    BY <2>1
  <2>3. QED
    BY <2>2 DEF Chain
<1> HIDE DEF Body
<1>5. \E f : f = [i \in l..Len(q) |-> Body(f, i)]
  BY <1>3, <1>4, ChainExists
<1>6. upTo = [i \in l..Len(q) |-> Body(upTo, i)]
  BY <1>2, <1>5
<1>7. QED
  BY <1>1, <1>4, <1>6

\* A message that comes in is at the end of the wire.
LEMMA WireAppend ==
    ASSUME NEW j \in Job, NEW q \in Seq(Message), NEW m \in Message, NEW l \in 0..Len(q)
    PROVE  WireOf(Append(q, m), l, j) = WireOf(q, l, j) \o Piece(j, m)
<1> DEFINE r == Append(q, m)
           h == PiecesOf(q, j)
           k == PiecesOf(r, j)
<1>1. PICK n \in Nat : n = Len(q)
  BY LenProperties
<1>2. /\ r \in Seq(Message) /\ Len(r) = n + 1 /\ r[n + 1] = m
      /\ \A i \in 1..n : r[i] = q[i]
  BY <1>1, AppendProperties
<1> HIDE DEF r
<1>3. l \in 0..Len(r) /\ l \in 0..n
  BY <1>1, <1>2
<1>4. PICK f : Chain(h, l, n, f) /\ WireOf(q, l, j) = f[n]
  BY <1>1, WireChain
<1>5. PICK g : Chain(k, l, n + 1, g) /\ WireOf(r, l, j) = g[n + 1]
  <2>1. \E g : Chain(k, l, Len(r), g) /\ WireOf(r, l, j) = g[Len(r)]
    BY <1>2, <1>3, WireChain
  <2>2. QED
    BY <1>2, <2>1, Zenon
<1>6. \A i \in (l + 1)..n : h[i] = k[i]
  <2> TAKE i \in (l + 1)..n
  <2>1. i \in 1..n /\ i \in 1..(n + 1)
    BY <1>3
  <2>2. h[i] = Piece(j, q[i]) /\ k[i] = Piece(j, r[i])
    BY <1>1, <1>2, <2>1 DEF PiecesOf
  <2>3. QED
    BY <1>2, <2>1, <2>2
<1>7. k[n + 1] = Piece(j, m)
  BY <1>2 DEF PiecesOf
<1> HIDE DEF h, k
<1>8. \A i \in l..n : f[i] = g[i]
  <2>1. f[l] = <<>> /\ \A i \in l..n : i # l => f[i] = f[i - 1] \o h[i]
    <3>1. l \in l..n
      BY <1>1, <1>3
    <3>2. QED
      BY <1>4, <3>1 DEF Chain
  <2>0. g[l] = <<>> /\ \A i \in l..(n + 1) : i # l => g[i] = g[i - 1] \o k[i]
    <3>1. l \in l..(n + 1)
      BY <1>1, <1>3
    <3>2. QED
      BY <1>5, <3>1 DEF Chain
  <2> DEFINE Bad == {i \in l..n : f[i] # g[i]}
  <2>2. SUFFICES ASSUME Bad # {} PROVE FALSE
    OBVIOUS
  <2>3. Bad \subseteq Nat
    BY <1>3
  <2>4. PICK v \in Bad : \A u \in Bad : v <= u
    <3> HIDE DEF Bad
    <3>1. QED
      BY <2>2, <2>3, LeastElement
  <2>5. v \in l..n /\ f[v] # g[v]
    OBVIOUS
  <2>6. v # l
    BY <2>0, <2>1, <2>5
  <2>7. v \in (l + 1)..n /\ v \in l..(n + 1) /\ v - 1 \in l..n /\ ~(v <= v - 1)
    BY <1>1, <1>3, <2>5, <2>6
  <2>8. f[v - 1] = g[v - 1]
    BY <2>4, <2>7
  <2>9. f[v] = f[v - 1] \o h[v] /\ g[v] = g[v - 1] \o k[v] /\ h[v] = k[v]
    BY <1>6, <2>0, <2>1, <2>5, <2>6, <2>7
  <2>10. QED
    BY <2>5, <2>8, <2>9
<1>9. g[n + 1] = g[n] \o k[n + 1]
  <2>1. PICK nk \in Nat : nk = n + 1
    BY <1>1
  <2>2. nk \in l..nk /\ nk # l /\ nk - 1 = n
    BY <1>3, <2>1
  <2>3. Chain(k, l, nk, g)
    BY <1>5, <2>1
  <2>4. g[nk] = g[nk - 1] \o k[nk]
    BY <2>2, <2>3 DEF Chain
  <2>5. QED
    BY <2>1, <2>2, <2>4, Zenon
<1>10. f[n] = g[n]
  BY <1>3, <1>8
<1>11. QED
  BY <1>4, <1>5, <1>7, <1>9, <1>10 DEF r

\* The UI takes the first message of those it has not handled.
LEMMA WireDrop ==
    ASSUME NEW j \in Job, NEW q \in Seq(Message), NEW l \in Nat, l + 1 <= Len(q)
    PROVE  /\ WireOf(q, l, j) = Piece(j, q[l + 1]) \o WireOf(q, l + 1, j)
           /\ WireOf(q, l + 1, j) \in Seq(FrameSet(j))
<1> DEFINE h == PiecesOf(q, j)
           S == FrameSet(j)
<1>1. PICK n \in Nat : n = Len(q)
  BY LenProperties
<1>2. l + 1 \in 1..n /\ l \in 0..n /\ l + 1 \in 0..n
  BY <1>1
<1>3. PICK f : Chain(h, l, n, f) /\ WireOf(q, l, j) = f[n]
  BY <1>1, <1>2, WireChain
<1>4. PICK g : Chain(h, l + 1, n, g) /\ WireOf(q, l + 1, j) = g[n]
  BY <1>1, <1>2, WireChain
<1>5. h[l + 1] = Piece(j, q[l + 1])
  BY <1>1, <1>2 DEF PiecesOf
<1>6. \A i \in (l + 1)..n : h[i] \in Seq(S)
  <2> TAKE i \in (l + 1)..n
  <2>1. i \in 1..n
    BY <1>2
  <2>2. q[i] \in Message /\ h[i] = Piece(j, q[i])
    BY <1>1, <2>1 DEF PiecesOf
  <2>3. QED
    BY <2>2, PieceType
<1> HIDE DEF h, S
<1>7. \A i \in (l + 1)..n : g[i] \in Seq(S) /\ f[i] = h[l + 1] \o g[i]
  <2>1. f[l] = <<>> /\ \A i \in l..n : i # l => f[i] = f[i - 1] \o h[i]
    <3>1. l \in l..n
      BY <1>2
    <3>2. QED
      BY <1>3, <3>1 DEF Chain
  <2>0. g[l + 1] = <<>> /\ \A i \in (l + 1)..n : i # l + 1 => g[i] = g[i - 1] \o h[i]
    <3>1. l + 1 \in (l + 1)..n
      BY <1>2
    <3>2. QED
      BY <1>4, <3>1 DEF Chain
  <2> DEFINE Bad == {i \in (l + 1)..n : ~(g[i] \in Seq(S) /\ f[i] = h[l + 1] \o g[i])}
  <2>2. SUFFICES ASSUME Bad # {} PROVE FALSE
    OBVIOUS
  <2>3. Bad \subseteq Nat
    <3>1. (l + 1)..n \subseteq Nat
      OBVIOUS
    <3>2. QED
      BY <3>1
  <2>4. PICK v \in Bad : \A w \in Bad : v <= w
    <3> HIDE DEF Bad
    <3>1. QED
      BY <2>2, <2>3, LeastElement
  <2>5. v \in (l + 1)..n /\ ~(g[v] \in Seq(S) /\ f[v] = h[l + 1] \o g[v])
    OBVIOUS
  <2>6. h[l + 1] \in Seq(S) /\ <<>> \in Seq(S) /\ h[v] \in Seq(S)
    <3>1. l + 1 \in (l + 1)..n
      BY <1>2
    <3>2. QED
      BY <1>6, <2>5, <3>1, EmptySeq
  <2>7. h[l + 1] \o <<>> = h[l + 1] /\ <<>> \o h[l + 1] = h[l + 1]
    BY <2>6, ConcatEmptySeq
  <2>8. CASE v = l + 1
    <3>1. l + 1 - 1 = l
      OBVIOUS
    <3>2. l + 1 \in l..n /\ l + 1 # l
      BY <1>2
    <3>3. f[l + 1] = <<>> \o h[l + 1]
      <4>1. PICK w : w = l + 1
        OBVIOUS
      <4>2. w \in l..n /\ w # l /\ w - 1 = l
        BY <3>1, <3>2, <4>1
      <4>3. f[w] = f[w - 1] \o h[w]
        BY <2>1, <4>2, Zenon
      <4>4. QED
        BY <2>1, <4>1, <4>2, <4>3, Zenon
    <3>4. f[v] = h[l + 1] /\ g[v] = <<>>
      BY <2>0, <2>7, <2>8, <3>3
    <3>5. QED
      BY <2>5, <2>6, <2>7, <3>4
  <2>9. CASE v # l + 1
    <3>1. v \in l..n /\ v # l /\ v - 1 \in (l + 1)..n /\ ~(v <= v - 1)
      BY <1>2, <2>5, <2>9
    <3>2. g[v - 1] \in Seq(S) /\ f[v - 1] = h[l + 1] \o g[v - 1]
      BY <2>4, <3>1
    <3>3. f[v] = f[v - 1] \o h[v] /\ g[v] = g[v - 1] \o h[v]
      BY <2>0, <2>1, <2>5, <2>9, <3>1
    <3>4. g[v] \in Seq(S)
      BY <2>6, <3>2, <3>3, ConcatProperties
    <3>5. (h[l + 1] \o g[v - 1]) \o h[v] = h[l + 1] \o (g[v - 1] \o h[v])
      <4>1. \A a, b, c \in Seq(S) : (a \o b) \o c = a \o (b \o c)
        BY ConcatAssociative
      <4>2. QED
        BY <2>6, <3>2, <4>1, Zenon
    <3>6. QED
      BY <2>5, <3>2, <3>3, <3>4, <3>5
  <2>10. QED
    BY <2>8, <2>9
<1>8. n \in (l + 1)..n
  BY <1>2
<1>9. QED
  BY <1>3, <1>4, <1>5, <1>7, <1>8 DEF S

LEMMA WireEmpty ==
    ASSUME NEW j \in Job, NEW q \in Seq(Message)
    PROVE  WireOf(q, Len(q), j) = <<>>
<1>1. Len(q) \in 0..Len(q)
  BY LenProperties
<1>2. PICK f : Chain(PiecesOf(q, j), Len(q), Len(q), f) /\ WireOf(q, Len(q), j) = f[Len(q)]
  BY <1>1, WireChain
<1>3. Len(q) \in Len(q)..Len(q)
  BY LenProperties
<1>4. f[Len(q)] = <<>>
  BY <1>2, <1>3 DEF Chain
<1>5. QED
  BY <1>2, <1>4

LEMMA WireType ==
    ASSUME NEW j \in Job, NEW q \in Seq(Message), NEW l \in 0..Len(q)
    PROVE  WireOf(q, l, j) \in Seq(FrameSet(j))
<1>1. Len(q) \in Nat /\ l \in Nat
  BY LenProperties
<1>2. CASE l = Len(q)
  BY <1>2, WireEmpty, EmptySeq
<1>3. CASE l # Len(q)
  <2>1. l + 1 <= Len(q) /\ l + 1 \in 1..Len(q)
    BY <1>1, <1>3
  <2>2. /\ WireOf(q, l, j) = Piece(j, q[l + 1]) \o WireOf(q, l + 1, j)
        /\ WireOf(q, l + 1, j) \in Seq(FrameSet(j))
    BY <1>1, <2>1, WireDrop
  <2>3. q[l + 1] \in Message
    BY <2>1, ElementOfSeq
  <2>4. Piece(j, q[l + 1]) \in Seq(FrameSet(j))
    BY <2>3, PieceType
  <2>5. QED
    BY <2>2, <2>4, ConcatProperties
<1>4. QED
  BY <1>2, <1>3

\* A frame in front of the others is the head.
LEMMA ConsProperties ==
    ASSUME NEW S, NEW x \in S, NEW t \in Seq(S)
    PROVE  /\ <<x>> \o t # <<>>
           /\ Head(<<x>> \o t) = x
           /\ Tail(<<x>> \o t) = t
<1> DEFINE u == <<x>> \o t
<1>1. /\ <<x>> \in Seq(S) /\ Len(<<x>>) = 1 /\ <<x>>[1] = x
  OBVIOUS
<1>2. Len(t) \in Nat
  BY LenProperties
<1>3. /\ u \in Seq(S) /\ Len(u) = 1 + Len(t)
      /\ \A i \in 1..(1 + Len(t)) : u[i] = IF i <= 1 THEN <<x>>[i] ELSE t[i - 1]
  BY <1>1, ConcatProperties
<1> HIDE DEF u
<1>4. u # <<>> /\ u[1] = x
  <2>1. 1 \in 1..(1 + Len(t)) /\ 1 <= 1 /\ Len(u) # 0
    BY <1>2, <1>3
  <2>2. u # <<>>
    BY <1>3, <2>1, EmptySeq
  <2>3. QED
    BY <1>1, <1>3, <2>1, <2>2
<1>5. Head(u) = x
  BY <1>3, <1>4
<1>6. /\ Tail(u) \in Seq(S) /\ Len(Tail(u)) = Len(t)
      /\ \A i \in 1..Len(t) : Tail(u)[i] = t[i]
  <2>1. Tail(u) \in Seq(S) /\ Len(Tail(u)) = Len(u) - 1 /\ \A i \in 1..Len(Tail(u)) : Tail(u)[i] = u[i + 1]
    BY <1>3, <1>4, HeadTailProperties
  <2>2. Len(Tail(u)) = Len(t)
    BY <1>2, <1>3, <2>1
  <2>3. ASSUME NEW i \in 1..Len(t) PROVE Tail(u)[i] = t[i]
    <3>1. i + 1 \in 1..(1 + Len(t)) /\ ~(i + 1 <= 1) /\ i + 1 - 1 = i
      BY <1>2
    <3>2. Tail(u)[i] = u[i + 1]
      BY <2>1, <2>2
    <3>3. u[i + 1] = t[i]
      BY <1>3, <3>1
    <3>4. QED
      BY <3>2, <3>3
  <2>4. QED
    BY <2>1, <2>2, <2>3
<1>7. Tail(u) = t
  BY <1>6, SeqEqual
<1>8. QED
  BY <1>4, <1>5, <1>7 DEF u

-----------------------------------------------------------------------------
(* Every step of the session is one of Export, or none *)

WireInv == IInv /\ ExporterInv /\ SeenInv

LEMMA SameFrame ==
    /\ \A j \in Job, n \in Nat : Archive!Frame(ZipSize[j], n) = Frame(ZipSize[j], n)
    /\ \A j \in Job : Archive!FrameCount(ZipSize[j]) = Frames
BY SessionAssumption DEF Frame, Archive!Frame, FrameCount, Archive!FrameCount,
   TotalChunks, Archive!TotalChunks, Chunk, Archive!Chunk, Zip, Archive!Zip,
   Start, Archive!Start, End, Archive!End

LEMMA WireFacts ==
    ASSUME WireInv, NEW c \in Conn
    PROVE  /\ box[c] \in Seq(Message) /\ Len(box[c]) \in Nat /\ seen[c] \in 0..Len(box[c])
           /\ seen[c] \in Nat /\ received[c] \in Nat /\ received[c] <= Len(box[c])
<1>1. TypeOK /\ SeenInv
  BY DEF WireInv, IInv
<1>2. box[c] \in Seq(Message) /\ Len(box[c]) \in Nat
  BY <1>1, LenProperties DEF TypeOK
<1>3. /\ seen[c] \in Nat /\ received[c] \in Nat /\ taken[c] \in Nat
      /\ seen[c] <= received[c] /\ received[c] <= taken[c] /\ taken[c] <= Len(box[c])
  BY <1>1 DEF TypeOK, SeenInv
<1>4. QED
  BY <1>2, <1>3

\* The wire after a step.
LEMMA WireNext ==
    \A j \in Job : FramesUnderWay(j)' = WireOf(box'[Client[j]], seen'[Client[j]], j)
BY DEF FramesUnderWay, WireOf

LEMMA WireStays ==
    ASSUME UNCHANGED <<box, seen>>
    PROVE  \A j \in Job : FramesUnderWay(j)' = FramesUnderWay(j)
<1>1. box' = box /\ seen' = seen
  OBVIOUS
<1>2. QED
  BY <1>1, WireMeans, WireNext, Zenon

\* Nothing of an archive moves.
LEMMA Stutters ==
    ASSUME \A j \in Job : SentFrames(j)' = SentFrames(j),
           \A j \in Job : FramesUnderWay(j)' = FramesUnderWay(j),
           UNCHANGED client
    PROVE  UNCHANGED Archive!vars
<1>1. [j \in Job |-> SentFrames(j)]' = [j \in Job |-> SentFrames(j)]
  OBVIOUS
<1>2. [j \in Job |-> FramesUnderWay(j)]' = [j \in Job |-> FramesUnderWay(j)]
  OBVIOUS
<1>3. QED
  BY <1>1, <1>2 DEF Archive!vars, client

\* A frame of job j is through the server: on its way to the user, or lost.
LEMMA Sends ==
    ASSUME NEW j \in Job, SentFrames(j) \in Nat, SentFrames(j) < Frames,
           SentFrames(j)' = SentFrames(j) + 1,
           \/ FramesUnderWay(j)' = Append(FramesUnderWay(j), Frame(ZipSize[j], SentFrames(j) + 1))
           \/ FramesUnderWay(j)' = FramesUnderWay(j),
           \A i \in Job \ {j} : /\ SentFrames(i)' = SentFrames(i)
                                /\ FramesUnderWay(i)' = FramesUnderWay(i),
           UNCHANGED client
    PROVE  Archive!SendFrame(j)
<1> DEFINE nx == [i \in Job |-> SentFrames(i)]
           wr == [i \in Job |-> FramesUnderWay(i)]
<1>1. nx[j] = SentFrames(j) /\ wr[j] = FramesUnderWay(j)
  OBVIOUS
<1>2. nx[j] < Archive!FrameCount(ZipSize[j])
  BY <1>1, SameFrame
<1>3. nx' = [nx EXCEPT ![j] = nx[j] + 1]
  OBVIOUS
<1>4. Archive!Frame(ZipSize[j], nx[j] + 1) = Frame(ZipSize[j], SentFrames(j) + 1)
  <2>1. SentFrames(j) + 1 \in Nat
    OBVIOUS
  <2>2. QED
    BY <1>1, <2>1, SameFrame
<1>5. \/ wr' = [wr EXCEPT ![j] = Append(wr[j], Archive!Frame(ZipSize[j], nx[j] + 1))]
      \/ wr' = wr
  <2>1. CASE FramesUnderWay(j)' = FramesUnderWay(j)
    BY <2>1
  <2>2. CASE FramesUnderWay(j)' = Append(FramesUnderWay(j), Frame(ZipSize[j], SentFrames(j) + 1))
    BY <1>1, <1>4, <2>2
  <2>3. QED
    BY <2>1, <2>2
<1>6. QED
  BY <1>2, <1>3, <1>5 DEF Archive!SendFrame, Archive!client, client

LEMMA PutMaps ==
    ASSUME WireInv, NEW s \in Stream, Put(s), UNCHANGED <<seen, client>>
    PROVE  (\E j \in Job : Archive!SendFrame(j)) \/ UNCHANGED Archive!vars
<1> USE LogStreamAssumption
<1> DEFINE c == to[s]
           m == [stream |-> s, n |-> at[s]]
<1>1. TypeOK /\ SendInv /\ ExporterInv
  BY DEF WireInv, IInv, Flow
<1>2. c # NoConn /\ c = Owner(s) /\ c \in Conn /\ at[s] \in Nat /\ at[s] >= 1
  BY <1>1, StreamFacts DEF Put, SendInv, TypeOK
<1>3. m \in Message /\ m.stream = s /\ m.n = at[s]
  BY <1>2 DEF Message
<1>4. box'[c] = Append(box[c], m) /\ \A d \in Conn : d # c => box'[d] = box[d]
  BY <1>1, <1>2 DEF Put, TypeOK
<1>5. /\ at' = at /\ to'[s] = NoConn /\ \A t \in Stream : t # s => to'[t] = to[t]
      /\ seen' = seen
  BY <1>1 DEF Put, TypeOK
<1> HIDE DEF c, m
<1>6. ASSUME NEW i \in Job
      PROVE  FramesUnderWay(i)' = IF Client[i] = c THEN FramesUnderWay(i) \o Piece(i, m)
                                  ELSE FramesUnderWay(i)
  <2>1. Client[i] \in Conn
    OBVIOUS
  <2>2. /\ FramesUnderWay(i)' = WireOf(box'[Client[i]], seen[Client[i]], i)
        /\ FramesUnderWay(i) = WireOf(box[Client[i]], seen[Client[i]], i)
    BY <1>5, WireMeans, WireNext
  <2>3. box[c] \in Seq(Message) /\ seen[c] \in 0..Len(box[c])
    BY <1>2, WireFacts
  <2>4. WireOf(Append(box[c], m), seen[c], i) = WireOf(box[c], seen[c], i) \o Piece(i, m)
    BY <1>3, <2>3, WireAppend
  <2>5. CASE Client[i] = c
    BY <1>4, <2>2, <2>4, <2>5
  <2>6. CASE Client[i] # c
    BY <1>4, <2>1, <2>2, <2>6
  <2>7. QED
    BY <2>5, <2>6
<1>7. ASSUME NEW i \in Job PROVE FramesUnderWay(i) \in Seq(FrameSet(i))
  <2>1. Client[i] \in Conn /\ FramesUnderWay(i) = WireOf(box[Client[i]], seen[Client[i]], i)
    BY WireMeans
  <2>2. QED
    BY <2>1, WireFacts, WireType
<1>8. ASSUME NEW i \in Job, ExportOf(i) # s
      PROVE  SentFrames(i)' = SentFrames(i) /\ FramesUnderWay(i)' = FramesUnderWay(i)
  <2>1. Piece(i, m) = <<>>
    BY <1>3, <1>8 DEF Piece
  <2>2. FramesUnderWay(i) \o <<>> = FramesUnderWay(i)
    BY <1>7, ConcatEmptySeq
  <2>3. ExportOf(i) \in Stream
    BY StreamFacts
  <2>4. SentFrames(i)' = SentFrames(i)
    BY <1>5, <1>8, <2>3 DEF SentFrames
  <2>5. QED
    BY <1>6, <2>1, <2>2, <2>4
<1>9. CASE \E j \in Job : s = ExportOf(j)
  <2>1. PICK j \in Job : s = ExportOf(j)
    BY <1>9
  <2>2. Client[j] = c
    BY <1>2, <2>1, StreamFacts DEF Owner
  <2>3. /\ SentFrames(j) = at[s] - 1 /\ SentFrames(j)' = at[s]
        /\ SentFrames(j) \in Nat /\ SentFrames(j) < Frames
        /\ SentFrames(j)' = SentFrames(j) + 1
    <3>1. PICK n \in Nat : n = at[s]
      BY <1>2
    <3>2. to[s] # NoConn
      BY <1>2 DEF c
    <3>3. SentFrames(j) = n - 1 /\ SentFrames(j)' = n
      BY <1>5, <2>1, <3>1, <3>2 DEF SentFrames
    <3>4. n >= 1 /\ n <= Frames
      BY <1>1, <1>2, <2>1, <3>1 DEF ExporterInv
    <3>5. n - 1 \in Nat /\ n - 1 < Frames /\ n = (n - 1) + 1
      BY <3>4
    <3>6. QED
      BY <3>1, <3>3, <3>5
  <2>4. Piece(j, m) = <<Frame(ZipSize[j], at[s])>> /\ Frame(ZipSize[j], at[s]) \in FrameSet(j)
    BY <1>2, <1>3, <2>1 DEF Piece, FrameSet
  <2>5. FramesUnderWay(j)' = Append(FramesUnderWay(j), Frame(ZipSize[j], at[s]))
    BY <1>6, <1>7, <2>2, <2>4, AppendIsConcat
  <2>6. FramesUnderWay(j)' = Append(FramesUnderWay(j), Frame(ZipSize[j], SentFrames(j) + 1))
    BY <1>2, <2>3, <2>5
  <2>7. \A i \in Job \ {j} : SentFrames(i)' = SentFrames(i) /\ FramesUnderWay(i)' = FramesUnderWay(i)
    <3>1. \A i \in Job \ {j} : ExportOf(i) # s
      BY <2>1 DEF ExportOf
    <3>2. QED
      BY <1>8, <3>1
  <2>8. QED
    BY <2>3, <2>6, <2>7, Sends
<1>10. CASE ~\E j \in Job : s = ExportOf(j)
  BY <1>8, <1>10, Stutters
<1>11. QED
  BY <1>9, <1>10

\* Nobody waits for it any more, or nobody is known by the key: the frame is lost.
LEMMA LossMaps ==
    ASSUME WireInv, NEW j \in Job, SentFrames(j) < Frames, SentFrames(j) \in Nat,
           SentFrames(j)' = SentFrames(j) + 1,
           \A i \in Job \ {j} : SentFrames(i)' = SentFrames(i),
           UNCHANGED <<box, seen, client>>
    PROVE  Archive!SendFrame(j)
<1>1. \A i \in Job : FramesUnderWay(i)' = FramesUnderWay(i)
  BY WireStays
<1>2. QED
  BY <1>1, Sends

LEMMA TimeOutMaps ==
    ASSUME WireInv, NEW s \in Stream, TimesOut(s), UNCHANGED <<seen, client>>
    PROVE  (\E j \in Job : Archive!SendFrame(j)) \/ UNCHANGED Archive!vars
<1> USE LogStreamAssumption
<1>1. TypeOK /\ SendInv /\ ExporterInv
  BY DEF WireInv, IInv, Flow
<1>2. to[s] # NoConn /\ at[s] \in Nat /\ at[s] >= 1
  BY <1>1 DEF TimesOut, SendInv, TypeOK
<1>3. /\ at' = at /\ to'[s] = NoConn /\ \A t \in Stream : t # s => to'[t] = to[t]
      /\ seen' = seen /\ box' = box
  BY <1>1 DEF TimesOut, TypeOK, channel
<1>4. \A i \in Job : ExportOf(i) # s => SentFrames(i)' = SentFrames(i)
  BY <1>3, StreamFacts DEF SentFrames
<1>5. CASE \E j \in Job : s = ExportOf(j)
  <2>1. PICK j \in Job : s = ExportOf(j)
    BY <1>5
  <2>2. /\ SentFrames(j) \in Nat /\ SentFrames(j) < Frames
        /\ SentFrames(j)' = SentFrames(j) + 1
    <3>1. PICK n \in Nat : n = at[s]
      BY <1>2
    <3>2. SentFrames(j) = n - 1 /\ SentFrames(j)' = n
      BY <1>2, <1>3, <2>1, <3>1 DEF SentFrames
    <3>3. n >= 1 /\ n <= Frames
      BY <1>1, <1>2, <2>1, <3>1 DEF ExporterInv
    <3>4. n - 1 \in Nat /\ n - 1 < Frames /\ n = (n - 1) + 1
      BY <3>3
    <3>5. QED
      BY <3>2, <3>4
  <2>3. \A i \in Job \ {j} : SentFrames(i)' = SentFrames(i)
    BY <1>4, <2>1 DEF ExportOf
  <2>4. QED
    BY <1>3, <2>2, <2>3, LossMaps
<1>6. CASE ~\E j \in Job : s = ExportOf(j)
  <2>1. \A i \in Job : FramesUnderWay(i)' = FramesUnderWay(i)
    BY <1>3, WireStays
  <2>2. QED
    BY <1>4, <1>6, <2>1, Stutters
<1>7. QED
  BY <1>5, <1>6

LEMMA NextFrameMaps ==
    ASSUME WireInv, NEW j \in Job, NextFrame(j), UNCHANGED <<seen, client>>
    PROVE  Archive!SendFrame(j) \/ UNCHANGED Archive!vars
<1> USE LogStreamAssumption
<1> DEFINE s == ExportOf(j)
<1>1. TypeOK /\ s \in Stream /\ s[1] = j /\ at[s] \in Nat /\ to[s] = NoConn
  BY StreamFacts DEF WireInv, IInv, TypeOK, NextFrame
<1>2. /\ box' = box /\ seen' = seen
      /\ \/ at[s] < Frames /\ LookUp(s, at[s] + 1)
         \/ at' = at /\ to' = to
  BY DEF NextFrame, channel
<1>3. \A i \in Job \ {j} : ExportOf(i) # s /\ ExportOf(i) \in Stream
  BY StreamFacts DEF ExportOf
<1> HIDE DEF s
<1>4. \A i \in Job : FramesUnderWay(i)' = FramesUnderWay(i)
  BY <1>2, WireStays
<1>5. CASE at' = at /\ to' = to
  BY <1>4, <1>5, Stutters DEF SentFrames
<1>6. CASE at[s] < Frames /\ LookUp(s, at[s] + 1)
  <2>1. PICK n \in Nat : n = at[s]
    BY <1>1
  <2>2. at' = [at EXCEPT ![s] = n + 1] /\ to' = [to EXCEPT ![s] = subscribers[j]]
    BY <1>1, <1>6, <2>1 DEF LookUp
  <2>3. /\ at'[s] = n + 1 /\ to'[s] = subscribers[j]
        /\ \A t \in Stream : t # s => at'[t] = at[t] /\ to'[t] = to[t]
    BY <1>1, <2>2 DEF TypeOK
  <2>4. \A i \in Job \ {j} : SentFrames(i)' = SentFrames(i)
    BY <1>3, <2>3 DEF SentFrames
  <2>5. SentFrames(j) = n
    BY <1>1, <2>1 DEF SentFrames, s
  <2>6. CASE subscribers[j] = NoConn
    <3>1. SentFrames(j)' = n + 1
      BY <2>3, <2>6 DEF SentFrames, s
    <3>2. SentFrames(j) \in Nat /\ SentFrames(j) < Frames /\ SentFrames(j)' = SentFrames(j) + 1
      BY <1>6, <2>1, <2>5, <3>1
    <3>3. QED
      BY <1>2, <2>4, <3>2, LossMaps
  <2>7. CASE subscribers[j] # NoConn
    <3>1. SentFrames(j)' = n
      <4>1. SentFrames(j)' = (n + 1) - 1
        BY <2>3, <2>7 DEF SentFrames, s
      <4>2. QED
        BY <4>1
    <3>2. QED
      BY <1>4, <2>4, <2>5, <3>1, Stutters
  <2>8. QED
    BY <2>6, <2>7
<1>7. QED
  BY <1>2, <1>5, <1>6

\* The UI handles a message: a frame, the next one on the wire, or a line.
LEMMA UpdateMaps ==
    ASSUME WireInv, NEW c \in Conn, Update(c)
    PROVE  (\E j \in Job : Archive!ReceiveFrame(j)) \/ UNCHANGED Archive!vars
<1> USE LogStreamAssumption
<1> DEFINE l == seen[c]
           q == box[c]
           msg == q[l + 1]
<1>1. /\ TypeOK /\ BoxInv /\ SeenInv
      /\ q \in Seq(Message) /\ l \in Nat /\ received[c] \in Nat /\ received[c] <= Len(q)
      /\ Len(q) \in Nat
  BY WireFacts DEF WireInv, IInv, Flow
<1>2. /\ box' = box /\ at' = at /\ to' = to
      /\ seen' = [seen EXCEPT ![c] = l + 1] /\ l < received[c]
      /\ \/ msg.stream[2] = "log" /\ UNCHANGED client
         \/ /\ msg.stream[2] = "export"
            /\ Archive!OnFrame(msg.stream[1], Frame(ZipSize[msg.stream[1]], msg.n))
  BY DEF Update, vars, channel, sending
<1>3. l + 1 <= Len(q) /\ l + 1 \in 1..Len(q)
  BY <1>1, <1>2
<1>4. msg \in Message
  BY <1>1, <1>3, ElementOfSeq
<1>5. msg.stream \in Stream /\ msg.n \in Nat /\ Owner(msg.stream) = c
  BY <1>1, <1>3, <1>4 DEF BoxInv, Message
<1>6. seen'[c] = l + 1 /\ \A d \in Conn : d # c => seen'[d] = seen[d]
  BY <1>1, <1>2 DEF SeenInv
<1>7. \A i \in Job : SentFrames(i)' = SentFrames(i)
  BY <1>2 DEF SentFrames
<1> HIDE DEF l, q, msg
<1>8. ASSUME NEW i \in Job
      PROVE  IF Client[i] = c
             THEN /\ FramesUnderWay(i) = Piece(i, msg) \o FramesUnderWay(i)'
                  /\ FramesUnderWay(i)' \in Seq(FrameSet(i))
             ELSE FramesUnderWay(i)' = FramesUnderWay(i)
  <2>1. Client[i] \in Conn
    OBVIOUS
  <2>2. /\ FramesUnderWay(i)' = WireOf(box[Client[i]], seen'[Client[i]], i)
        /\ FramesUnderWay(i) = WireOf(box[Client[i]], seen[Client[i]], i)
    BY <1>2, WireMeans, WireNext
  <2>3. CASE Client[i] = c
    <3>1. /\ WireOf(q, l, i) = Piece(i, q[l + 1]) \o WireOf(q, l + 1, i)
          /\ WireOf(q, l + 1, i) \in Seq(FrameSet(i))
      BY <1>1, <1>3, WireDrop
    <3>2. FramesUnderWay(i)' = WireOf(q, l + 1, i) /\ FramesUnderWay(i) = WireOf(q, l, i)
      BY <1>6, <2>2, <2>3 DEF q, l
    <3>3. QED
      BY <2>3, <3>1, <3>2 DEF msg
  <2>4. CASE Client[i] # c
    BY <1>6, <2>1, <2>2, <2>4
  <2>5. QED
    BY <2>3, <2>4
<1>9. ASSUME NEW i \in Job, msg.stream # ExportOf(i)
      PROVE  FramesUnderWay(i)' = FramesUnderWay(i)
  <2>1. Piece(i, msg) = <<>>
    BY <1>9 DEF Piece
  <2>2. Client[i] = c => <<>> \o FramesUnderWay(i)' = FramesUnderWay(i)'
    BY <1>8, ConcatEmptySeq
  <2>3. QED
    BY <1>8, <2>1, <2>2
<1>10. CASE msg.stream[2] = "log"
  <2>1. UNCHANGED client
    BY <1>2, <1>10
  <2>2. \A i \in Job : msg.stream # ExportOf(i)
    BY <1>10 DEF ExportOf
  <2>3. \A i \in Job : FramesUnderWay(i)' = FramesUnderWay(i)
    BY <1>9, <2>2
  <2>4. QED
    BY <1>7, <2>1, <2>3, Stutters
<1>11. CASE msg.stream[2] = "export"
  <2>1. PICK j \in Job : msg.stream = ExportOf(j)
    BY <1>5, <1>11, StreamKinds, StreamFacts
  <2>2. Client[j] = c /\ msg.stream[1] = j
    BY <1>5, <2>1, StreamFacts DEF Owner
  <2> DEFINE x == Frame(ZipSize[j], msg.n)
  <2>3. Archive!OnFrame(j, x)
    BY <1>2, <1>11, <2>2
  <2>4. Piece(j, msg) = <<x>> /\ x \in FrameSet(j)
    BY <1>5, <2>1 DEF Piece, FrameSet
  <2> HIDE DEF x
  <2>5. FramesUnderWay(j) = <<x>> \o FramesUnderWay(j)' /\ FramesUnderWay(j)' \in Seq(FrameSet(j))
    BY <1>8, <2>2, <2>4
  <2>6. /\ FramesUnderWay(j) # <<>> /\ Head(FramesUnderWay(j)) = x
        /\ Tail(FramesUnderWay(j)) = FramesUnderWay(j)'
    BY <2>4, <2>5, ConsProperties
  <2>7. \A i \in Job \ {j} : FramesUnderWay(i)' = FramesUnderWay(i)
    <3>1. \A i \in Job \ {j} : msg.stream # ExportOf(i)
      BY <2>1 DEF ExportOf
    <3>2. QED
      BY <1>9, <3>1
  <2> DEFINE nx == [i \in Job |-> SentFrames(i)]
             wr == [i \in Job |-> FramesUnderWay(i)]
  <2>8. wr[j] # <<>> /\ Head(wr[j]) = x
    BY <2>6
  <2>9. wr' = [wr EXCEPT ![j] = Tail(wr[j])]
    BY <2>6, <2>7
  <2>10. nx' = nx
    BY <1>7
  <2>11. Archive!OnFrame(j, Head(wr[j]))
    BY <2>3, <2>8
  <2>12. Archive!ReceiveFrame(j)
    BY <2>8, <2>9, <2>10, <2>11 DEF Archive!ReceiveFrame
  <2>13. QED
    BY <2>12
<1>12. QED
  BY <1>2, <1>10, <1>11

LEMMA ServerMaps ==
    ASSUME WireInv, [Next]_vars, UNCHANGED <<seen, client>>
    PROVE  [Archive!Next]_(Archive!vars)
<1>1. TypeOK
  BY DEF WireInv, IInv
<1>2. ASSUME UNCHANGED <<box, at, to>> PROVE UNCHANGED Archive!vars
  <2>1. \A j \in Job : SentFrames(j)' = SentFrames(j)
    BY <1>2 DEF SentFrames
  <2>2. \A j \in Job : FramesUnderWay(j)' = FramesUnderWay(j)
    BY <1>2, WireStays
  <2>3. QED
    BY <2>1, <2>2, Stutters
<1>3. ASSUME NEW c \in Conn, Connect(c) \/ Leave(c) \/ Loop(c) \/ ReadLoop(c)
      PROVE  UNCHANGED Archive!vars
  <2>1. UNCHANGED <<box, at, to>>
    BY <1>3 DEF Connect, Leave, Loop, ReadLoop, Receive, ReadFails, WriteMsg, TakeJob, TakeReadErr,
       channel, sending
  <2>2. QED
    BY <1>2, <2>1
<1>4. ASSUME NEW j \in Job,
             \/ Submit(j) \/ PushToBroker(j) \/ Subscribed(j) \/ Publish(j)
             \/ StreamEnds(j) \/ BuildZip(j)
      PROVE  UNCHANGED Archive!vars
  <2>1. UNCHANGED <<box, at, to>>
    BY <1>4 DEF Submit, PushToBroker, Subscribed, Publish, StreamEnds, BuildZip, channel, sending
  <2>2. QED
    BY <1>2, <2>1
<1>5. ASSUME NEW j \in Job, HandleLog(j) PROVE UNCHANGED Archive!vars
  <2>1. LookUp(LogOf(j), Head(feed[j])) /\ box' = box
    BY <1>5 DEF HandleLog, channel
  <2>2. \A i \in Job : at'[ExportOf(i)] = at[ExportOf(i)] /\ to'[ExportOf(i)] = to[ExportOf(i)]
    <3>1. \A i \in Job : ExportOf(i) \in Stream /\ ExportOf(i) # LogOf(j)
      BY StreamFacts
    <3>2. QED
      BY <1>1, <2>1, <3>1 DEF LookUp, TypeOK
  <2>3. \A i \in Job : SentFrames(i)' = SentFrames(i)
    BY <2>2 DEF SentFrames
  <2>4. \A i \in Job : FramesUnderWay(i)' = FramesUnderWay(i)
    BY <2>1, WireStays
  <2>5. QED
    BY <2>3, <2>4, Stutters
<1>6. ASSUME NEW j \in Job, NextFrame(j) PROVE Archive!Next \/ UNCHANGED Archive!vars
  BY <1>6, NextFrameMaps DEF Archive!Next
<1>7. ASSUME NEW s \in Stream, SendToSubscriber(s) PROVE Archive!Next \/ UNCHANGED Archive!vars
  BY <1>7, PutMaps, TimeOutMaps DEF SendToSubscriber, Archive!Next
<1>8. CASE UNCHANGED vars
  BY <1>2, <1>8 DEF vars, channel, sending
<1>9. QED
  BY <1>3, <1>4, <1>5, <1>6, <1>7, <1>8 DEF Next

LEMMA SeenStep ==
    ASSUME TypeOK, TypeOK', SeenInv, [SessionNext]_sessionVars
    PROVE  SeenInv'
<1>1. CASE [Next]_vars /\ UNCHANGED seen
  <2>1. ASSUME NEW c \in Conn PROVE seen[c] <= received'[c]
    <3>1. PICK m \in Nat, n \in Nat : m = received[c] /\ n = received'[c]
      BY DEF TypeOK
    <3>2. m <= n /\ seen[c] \in Nat /\ seen[c] <= m
      BY <1>1, <3>1, OnlyGrows DEF SeenInv
    <3>3. QED
      BY <3>1, <3>2
  <2>2. QED
    BY <1>1, <2>1 DEF SeenInv
<1>2. ASSUME NEW c \in Conn, Update(c) PROVE SeenInv'
  <2>1. received' = received /\ seen[c] < received[c] /\ seen' = [seen EXCEPT ![c] = seen[c] + 1]
    BY <1>2 DEF Update, vars, channel
  <2>2. received[c] \in Nat
    BY DEF TypeOK
  <2>3. QED
    BY <2>1, <2>2 DEF SeenInv
<1>3. QED
  BY <1>1, <1>2 DEF SessionNext, sessionVars

\* Seen from the archive, subscribers, msgs, SendToSubscriber and the two loops of
\* subscribe() are a wire: whatever connections come and go, are re-keyed, are slow or
\* leave, the frames of a job reach its user in the order in which they were sent, none
\* twice and none of another job, though some may be missing.
THEOREM ServerIsAWire == SessionSpec => ExportSpec
<1>1. SessionInit => WireInv
  <2> SUFFICES ASSUME SessionInit PROVE WireInv
    OBVIOUS
  <2>1. IInv /\ ExporterInv
    BY IInvInit, FrameInit DEF SessionInit, FrameInv
  <2>2. SeenInv
    BY DEF SessionInit, Init, SeenInv
  <2>3. QED
    BY <2>1, <2>2 DEF WireInv
<1>2. WireInv /\ [SessionNext]_sessionVars => WireInv' /\ [Archive!Next]_(Archive!vars)
  <2> SUFFICES ASSUME WireInv, [SessionNext]_sessionVars
               PROVE  WireInv' /\ [Archive!Next]_(Archive!vars)
    OBVIOUS
  <2>1. IInv /\ ExporterInv /\ SeenInv /\ TypeOK /\ OwnJobs /\ Entries /\ OwnEntries /\ Fresh /\ Flow
        /\ FeedInv
    BY DEF WireInv, IInv, Entries, Flow
  <2>2. \/ [Next]_vars /\ UNCHANGED <<seen, client>>
        \/ (\E c \in Conn : Update(c)) /\ UNCHANGED vars
    BY DEF SessionNext, sessionVars, Update
  <2>3. [Next]_vars
    BY <2>2
  <2>4. TypeOK' /\ OwnJobs' /\ Entries' /\ Flow'
    BY <2>1, <2>3, TypeStep, OwnStep, EntriesStep, FlowStep
  <2>5. ExporterInv'
    BY <2>1, <2>3, ExporterStep
  <2>6. SeenInv'
    BY <2>1, <2>4, SeenStep
  <2>7. [Archive!Next]_(Archive!vars)
    BY <2>2, ServerMaps, UpdateMaps DEF Archive!Next
  <2>8. QED
    BY <2>4, <2>5, <2>6, <2>7 DEF WireInv, IInv
<1>3. SessionInit => Archive!Init
  <2> SUFFICES ASSUME SessionInit PROVE Archive!Init
    OBVIOUS
  <2>1. ASSUME NEW j \in Job PROVE ZipSize[j] \in 1..(Frames * ChunkSize)
    <3>1. PICK n \in Nat \ {0}, t \in Nat \ {0} : n = ZipSize[j] /\ t = TotalChunks(ZipSize[j])
      BY ArchiveFacts
    <3>2. t * ChunkSize >= n /\ Frames = t + 2 /\ ChunkSize \in Nat
      BY <3>1, ArchiveFacts, ChunkCount, ChunkAssumption
    <3>3. (t + 2) * ChunkSize = t * ChunkSize + 2 * ChunkSize /\ t * ChunkSize \in Nat
      BY <3>2
    <3>4. n \in 1..(Frames * ChunkSize)
      BY <3>2, <3>3
    <3>5. QED
      BY <3>1, <3>4
  <2>2. ZipSize \in [Job -> 1..(Frames * ChunkSize)]
    BY <2>1, SessionAssumption
  <2>3. ASSUME NEW j \in Job PROVE SentFrames(j) = 0 /\ FramesUnderWay(j) = <<>>
    <3>1. Client[j] \in Conn /\ ExportOf(j) \in Stream
      BY LogStreamAssumption, StreamFacts
    <3>2. SentFrames(j) = 0
      BY <3>1 DEF SessionInit, Init, SentFrames
    <3>3. box[Client[j]] = <<>> /\ seen[Client[j]] = 0
      BY <3>1 DEF SessionInit, Init
    <3>4. <<>> \in Seq(Message) /\ Len(<<>>) = 0
      BY EmptySeq
    <3>5. WireOf(<<>>, 0, j) = <<>>
      BY <3>4, WireEmpty
    <3>6. QED
      BY <3>2, <3>3, <3>5, WireMeans
  <2>4. QED
    BY <2>2, <2>3 DEF Archive!Init, SessionInit, Archive!NoChunks, NoChunks
<1>4. QED
  BY <1>1, <1>2, <1>3, PTL DEF SessionSpec, ExportSpec, Archive!Spec
=============================================================================
