------------------------- MODULE BrokerClientProofs -------------------------
(***************************************************************************)
(* Proofs about BrokerClient, for any tasks, sizes of batches, number of   *)
(* heartbeats and restarts, and any trouble.                               *)
(***************************************************************************)
EXTENDS BrokerClient, SequenceTheorems, FiniteSetTheorems, TLAPS

(* What is in a queue *)

Among(x, q) == \E i \in DOMAIN q : q[i] = x

LEMMA AmongAppend ==
    ASSUME NEW S, NEW q \in Seq(S), NEW e \in S, NEW x
    PROVE  Append(q, e) \in Seq(S) /\ (Among(x, Append(q, e)) => Among(x, q) \/ x = e)
<1>1. /\ Append(q, e) \in Seq(S) /\ Len(q) \in Nat /\ Len(Append(q, e)) = Len(q) + 1
      /\ DOMAIN Append(q, e) = 1..Len(Append(q, e)) /\ DOMAIN q = 1..Len(q)
      /\ \A i \in 1..Len(q) : Append(q, e)[i] = q[i]
      /\ Append(q, e)[Len(q) + 1] = e
  BY AppendProperties, LenProperties
<1>2. ASSUME NEW i \in DOMAIN Append(q, e), Append(q, e)[i] = x
      PROVE  Among(x, q) \/ x = e
  <2>1. CASE i = Len(q) + 1
    BY <1>1, <1>2, <2>1
  <2>2. CASE i # Len(q) + 1
    <3>1. i \in DOMAIN q /\ q[i] = x
      BY <1>1, <1>2, <2>2
    <3>2. QED
      BY <3>1 DEF Among
  <2>3. QED
    BY <2>1, <2>2
<1>3. QED
  BY <1>1, <1>2 DEF Among

LEMMA AmongTail ==
    ASSUME NEW S, NEW q \in Seq(S), q # <<>>, NEW x
    PROVE  /\ Head(q) \in S /\ Tail(q) \in Seq(S) /\ Among(Head(q), q)
           /\ Among(x, Tail(q)) => Among(x, q)
<1>1. /\ Head(q) \in S /\ Tail(q) \in Seq(S) /\ Len(q) \in Nat \ {0}
      /\ Len(Tail(q)) = Len(q) - 1 /\ Head(q) = q[1]
      /\ DOMAIN Tail(q) = 1..Len(Tail(q)) /\ DOMAIN q = 1..Len(q)
      /\ \A i \in 1..Len(Tail(q)) : Tail(q)[i] = q[i + 1]
  BY HeadTailProperties, LenProperties, EmptySeq
<1>2. Among(Head(q), q)
  BY <1>1 DEF Among
<1>3. ASSUME NEW i \in DOMAIN Tail(q), Tail(q)[i] = x PROVE Among(x, q)
  <2>1. i + 1 \in DOMAIN q /\ q[i + 1] = x
    BY <1>1, <1>3
  <2>2. QED
    BY <2>1 DEF Among
<1>4. QED
  BY <1>1, <1>2, <1>3 DEF Among

LEMMA AmongPrefix ==
    ASSUME NEW S, NEW q \in Seq(S), NEW m \in 0..Len(q), NEW x
    PROVE  SubSeq(q, 1, m) \in Seq(S) /\ (Among(x, SubSeq(q, 1, m)) => Among(x, q))
<1>1. Len(q) \in Nat /\ DOMAIN q = 1..Len(q) /\ m \in Nat /\ m <= Len(q)
  BY LenProperties
<1>2. \A i \in 1..m : q[i] \in S
  BY <1>1, ElementOfSeq
<1>3. /\ SubSeq(q, 1, m) \in Seq(S)
      /\ Len(SubSeq(q, 1, m)) = IF 1 <= m THEN m - 1 + 1 ELSE 0
      /\ \A i \in 1..m - 1 + 1 : SubSeq(q, 1, m)[i] = q[1 + i - 1]
  BY <1>1, <1>2, SubSeqProperties
<1>4. DOMAIN SubSeq(q, 1, m) = 1..m
  BY <1>1, <1>3, LenProperties
<1>5. \A i \in 1..m : SubSeq(q, 1, m)[i] = q[i] /\ i \in DOMAIN q
  BY <1>1, <1>3
<1>6. QED
  BY <1>3, <1>4, <1>5 DEF Among

-----------------------------------------------------------------------------
(* Messages *)

LEMMA Messages ==
    /\ Pull \in Out /\ Beat \in Out /\ \A t \in Task : Tack(t) \in Out
    /\ \A t \in Task : Tack(t) # Pull /\ Tack(t) # Beat
    /\ \A t, u \in Task : Tack(t) = Tack(u) => t = u
    /\ \A msg \in Out : msg.type = "TACK" => msg.task \in Task /\ msg = Tack(msg.task)
<1>1. Pull \in Out /\ Beat \in Out /\ \A t \in Task : Tack(t) \in Out
  BY Zenon DEF Out
<1>2. Pull.type = "PULL" /\ Beat.type = "HEARTBEAT"
  BY DEF Pull, Beat
<1>3. \A t \in Task : Tack(t).type = "TACK" /\ Tack(t).task = t
  BY DEF Tack
<1>4. ASSUME NEW msg \in Out, msg.type = "TACK" PROVE msg.task \in Task /\ msg = Tack(msg.task)
  <2>1. msg = Pull \/ msg = Beat \/ \E t \in Task : msg = Tack(t)
    BY Zenon DEF Out
  <2>2. PICK t \in Task : msg = Tack(t)
    BY <1>2, <1>4, <2>1
  <2>3. QED
    BY <1>3, <2>2
<1>5. QED
  BY <1>1, <1>2, <1>3, <1>4

LEMMA Answers ==
    /\ \A s \in Batches : Batch(s) \in In
    /\ \A ok \in BOOLEAN : Reply("HEARTBEAT", ok) \in In /\ Reply("TACK", ok) \in In
    /\ \A msg \in In : msg.type = "PULL" => msg.tasks \in Batches
<1>1. ASSUME NEW s \in Batches PROVE Batch(s) \in In
  <2>1. Batch(s) \in {Batch(b) : b \in Batches}
    BY Zenon
  <2>2. QED
    BY <2>1 DEF In
<1>2. ASSUME NEW ok \in BOOLEAN, NEW y \in {"HEARTBEAT", "TACK"} PROVE Reply(y, ok) \in In
  <2>1. \E z \in {"HEARTBEAT", "TACK"}, o \in BOOLEAN : Reply(y, ok) = Reply(z, o)
    BY Zenon
  <2>2. QED
    BY <2>1 DEF In
<1>3. \A y, ok : Reply(y, ok).type = y
  BY DEF Reply
<1>4. \A s : Batch(s).tasks = s
  BY DEF Batch
<1>5. ASSUME NEW msg \in In, msg.type = "PULL" PROVE msg.tasks \in Batches
  <2>1. \/ \E s \in Batches : msg = Batch(s)
        \/ \E y \in {"HEARTBEAT", "TACK"} : \E ok \in BOOLEAN : msg = Reply(y, ok)
    BY DEF In
  <2>2. PICK s \in Batches : msg = Batch(s)
    BY <1>3, <1>5, <2>1
  <2>3. QED
    BY <1>4, <2>2
<1>6. QED
  BY <1>1, <1>2, <1>5

\* What a batch leaves when its first task is taken off.
LEMMA BatchTail ==
    ASSUME NEW s \in Batches, s # <<>>
    PROVE  /\ Head(s) \in Task /\ Tail(s) \in Batches
           /\ Len(s) \in Nat \ {0} /\ (Len(s) = 1 <=> Tail(s) = <<>>)
<1> USE BrokerClientAssumption
<1>1. PICK n \in 0..MaxBatch : s \in [1..n -> Task] /\ \A i, k \in 1..n : s[i] = s[k] => i = k
  BY DEF Batches
<1>2. s \in Seq(Task) /\ Len(s) = n
  BY <1>1
<1>3. /\ Head(s) \in Task /\ Tail(s) \in Seq(Task) /\ Len(Tail(s)) = n - 1 /\ n \in Nat \ {0}
      /\ \A i \in 1..n - 1 : Tail(s)[i] = s[i + 1]
  BY <1>2, HeadTailProperties, EmptySeq
<1>4. Tail(s) \in [1..n - 1 -> Task]
  <2>1. Tail(s) \in [1..Len(Tail(s)) -> Task]
    BY <1>3, LenProperties
  <2>2. QED
    BY <1>3, <2>1
<1>5. \A i, k \in 1..n - 1 : Tail(s)[i] = Tail(s)[k] => i = k
  BY <1>1, <1>3
<1>6. n - 1 \in 0..MaxBatch
  BY <1>3
<1> DEFINE q == Tail(s)
           k == n - 1
<1>7. q \in Batches
  <2>1. q \in [1..k -> Task] /\ (\A h, i \in 1..k : q[h] = q[i] => h = i) /\ k \in 0..MaxBatch
    BY <1>4, <1>5, <1>6
  <2> HIDE DEF q, k
  <2>2. QED
    BY <2>1 DEF Batches
<1>8. Len(s) = 1 <=> Tail(s) = <<>>
  BY <1>2, <1>3, EmptySeq
<1>9. QED
  BY <1>2, <1>3, <1>7, <1>8

LEMMA NoTasks == <<>> \in Batches
<1>1. <<>> \in [1..0 -> Task] /\ \A i, k \in 1..0 : <<>>[i] = <<>>[k] => i = k
  OBVIOUS
<1>2. 0 \in 0..MaxBatch
  BY BrokerClientAssumption
<1>3. QED
  BY <1>1, <1>2 DEF Batches

-----------------------------------------------------------------------------
(* Types *)

LEMMA TypeInit == Init => TypeOK
<1> SUFFICES ASSUME Init PROVE TypeOK
  OBVIOUS
<1>1. \A S : <<>> \in Seq(S)
  BY EmptySeq
<1>2. queue \in Seq(Out) /\ toBroker \in Seq(Out) /\ toClient \in Seq(In)
  BY <1>1 DEF Init
<1>3. batch \in Batches /\ (batch # <<>> <=> reader = "job")
  BY NoTasks DEF Init
<1>4. sending \in Out
  BY Messages DEF Init
<1>5. /\ lease \in [Task -> {"new", "queued", "leased", "done"}] /\ runs \in [Task -> Nat]
      /\ restarts \in 0..MaxRestarts
  BY BrokerClientAssumption DEF Init
<1>6. QED
  BY <1>2, <1>3, <1>4, <1>5 DEF Init, TypeOK

LEMMA TypeStep == TypeOK /\ [Next]_vars => TypeOK'
<1> SUFFICES ASSUME TypeOK, [Next]_vars PROVE TypeOK'
  OBVIOUS
<1>1. /\ queue \in Seq(Out) /\ toBroker \in Seq(Out) /\ toClient \in Seq(In)
      /\ batch \in Batches /\ sending \in Out
  BY DEF TypeOK
<1>2. CASE PullLoop
  <2>1. queue' \in Seq(Out)
    BY <1>1, <1>2, Messages, AmongAppend DEF PullLoop
  <2>2. QED
    BY <1>2, <2>1 DEF PullLoop, TypeOK, wire
<1>3. CASE HeartbeatLoop
  <2>1. queue' \in Seq(Out)
    BY <1>1, <1>3, Messages, AmongAppend DEF HeartbeatLoop
  <2>2. QED
    BY <1>3, <2>1 DEF HeartbeatLoop, TypeOK, wire
<1>4. CASE WriterGets
  <2>1. queue' \in Seq(Out) /\ sending' \in Out
    BY <1>1, <1>4, AmongTail DEF WriterGets
  <2>2. QED
    BY <1>4, <2>1 DEF WriterGets, TypeOK, wire
<1>5. CASE WriterSends
  <2>1. toBroker' \in Seq(Out)
    BY <1>1, <1>5, AmongAppend DEF WriterSends
  <2>2. QED
    BY <1>5, <2>1 DEF WriterSends, TypeOK
<1>6. CASE WriterFails
  BY <1>6 DEF WriterFails, Close, TypeOK
<1>7. CASE ReceiveReply
  <2>1. toClient' \in Seq(In)
    BY <1>1, <1>7, AmongTail DEF ReceiveReply
  <2>2. QED
    BY <1>7, <2>1 DEF ReceiveReply, Close, TypeOK
<1>8. CASE ReceiveBatch
  <2>1. toClient' \in Seq(In) /\ Head(toClient) \in In
    BY <1>1, <1>8, AmongTail DEF ReceiveBatch
  <2>2. batch' \in Batches /\ (batch' # <<>> <=> reader' = "job")
    BY <1>8, <2>1, Answers DEF ReceiveBatch
  <2>3. QED
    BY <1>8, <2>1, <2>2 DEF ReceiveBatch, TypeOK
<1>9. CASE ProcessJob
  <2>1. batch # <<>>
    BY <1>9 DEF ProcessJob, TypeOK
  <2>2. Head(batch) \in Task /\ Tail(batch) \in Batches /\ (Len(batch) = 1 <=> Tail(batch) = <<>>)
    BY <1>1, <2>1, BatchTail
  <2>3. queue' \in Seq(Out)
    BY <1>1, <1>9, <2>2, Messages, AmongAppend DEF ProcessJob
  <2>4. runs' \in [Task -> Nat]
    BY <1>9, <2>2 DEF ProcessJob, TypeOK
  <2>5. batch' # <<>> <=> reader' = "job"
    <3>1. \/ Len(batch) = 1 /\ reader' \in {"recv", "stopped"}
          \/ Len(batch) > 1 /\ reader' = "job"
      BY <1>9 DEF ProcessJob
    <3>2. batch' = Tail(batch)
      BY <1>9 DEF ProcessJob
    <3>3. QED
      BY <2>2, <3>1, <3>2
  <2>6. QED
    BY <1>9, <2>2, <2>3, <2>4, <2>5 DEF ProcessJob, TypeOK, wire
<1>10. CASE BadBatch
  <2>1. Head(batch) \in Task
    BY <1>1, <1>10, BatchTail DEF BadBatch, TypeOK
  <2>2. runs' \in [Task -> Nat]
    <3>1. runs' = runs \/ runs' = [runs EXCEPT ![Head(batch)] = runs[Head(batch)] + 1]
      BY <1>10 DEF BadBatch
    <3>2. runs \in [Task -> Nat]
      BY DEF TypeOK
    <3>3. QED
      BY <2>1, <3>1, <3>2
  <2>3. QED
    BY <1>10, <2>2, NoTasks DEF BadBatch, Close, TypeOK
<1>11. CASE ReaderFails
  BY <1>11 DEF ReaderFails, Close, TypeOK
<1>12. CASE BrokerAnswersPull
  <2>1. PICK s \in Batches : Answer("PULL", Batch(s)) /\
           lease' = [t \in Task |-> IF \E i \in DOMAIN s : s[i] = t THEN "leased" ELSE lease[t]]
    BY <1>12 DEF BrokerAnswersPull
  <2>2. toBroker' \in Seq(Out) /\ toClient' \in Seq(In)
    BY <1>1, <2>1, Answers, AmongTail, AmongAppend DEF Answer
  <2>3. lease' \in [Task -> {"new", "queued", "leased", "done"}]
    BY <2>1 DEF TypeOK
  <2>4. QED
    BY <2>1, <2>2, <2>3 DEF Answer, TypeOK, coroutines
<1>13. CASE BrokerAnswersBeat
  <2>1. PICK ok \in BOOLEAN : Answer("HEARTBEAT", Reply("HEARTBEAT", ok)) /\ lease' = lease
    BY <1>13 DEF BrokerAnswersBeat
  <2>2. toBroker' \in Seq(Out) /\ toClient' \in Seq(In)
    BY <1>1, <2>1, Answers, AmongTail, AmongAppend DEF Answer
  <2>3. QED
    BY <2>1, <2>2 DEF Answer, TypeOK, coroutines
<1>14. CASE BrokerAnswersTack
  <2>1. PICK ok \in BOOLEAN : Answer("TACK", Reply("TACK", ok))
    BY <1>14 DEF BrokerAnswersTack
  <2>2. toBroker' \in Seq(Out) /\ toClient' \in Seq(In)
    BY <1>1, <2>1, Answers, AmongTail, AmongAppend DEF Answer
  <2>3. lease' \in [Task -> {"new", "queued", "leased", "done"}]
    BY <1>14 DEF BrokerAnswersTack, TypeOK
  <2>4. QED
    BY <2>1, <2>2, <2>3 DEF Answer, TypeOK, coroutines
<1>15. ASSUME NEW t \in Task, Push(t) \/ LeaseExpires(t) PROVE TypeOK'
  BY <1>15 DEF Push, LeaseExpires, TypeOK, coroutines, wire
<1>16. CASE ConnectionBreaks
  <2>1. PICK m \in 0..Len(toBroker), n \in 0..Len(toClient) :
           toBroker' = SubSeq(toBroker, 1, m) /\ toClient' = SubSeq(toClient, 1, n)
    BY <1>16 DEF ConnectionBreaks
  <2>2. toBroker' \in Seq(Out) /\ toClient' \in Seq(In)
    BY <1>1, <2>1, AmongPrefix
  <2>3. QED
    BY <1>16, <2>2 DEF ConnectionBreaks, TypeOK, coroutines
<1>17. CASE Restart
  <2>1. queue' \in Seq(Out) /\ toBroker' \in Seq(Out) /\ toClient' \in Seq(In)
    BY <1>17, EmptySeq DEF Restart
  <2>2. restarts' \in 0..MaxRestarts
    BY <1>17, BrokerClientAssumption DEF Restart, TypeOK
  <2>3. QED
    BY <1>17, <2>1, <2>2, NoTasks, Messages DEF Restart, TypeOK
<1>18. CASE UNCHANGED vars
  BY <1>18 DEF vars, coroutines, wire, TypeOK
<1>19. QED
  BY <1>2, <1>3, <1>4, <1>5, <1>6, <1>7, <1>8, <1>9, <1>10, <1>11, <1>12, <1>13, <1>14, <1>15,
     <1>16, <1>17, <1>18 DEF Next, Client, Broker

\* The variables of the connection keep their types; a batch has no task twice, and
\* the reader is at work exactly as long as there is something left of it.
THEOREM TypeCorrect == Spec => []TypeOK
BY TypeInit, TypeStep, PTL DEF Spec

-----------------------------------------------------------------------------
(* Acknowledgements *)

\* An ACK of task t is under way, or was accepted.
Acked(t) ==
    \/ lease[t] = "done"
    \/ Among(Tack(t), queue)
    \/ Among(Tack(t), toBroker)
    \/ writer = "send" /\ sending = Tack(t)

AckInv == \A t \in Task : Acked(t) => runs[t] > 0

LEMMA AckMeans == AckInv <=> AckedMeansProcessed
BY DEF AckInv, Acked, AckedMeansProcessed, Among

\* No step but the end of a task's run acknowledges it.
LEMMA NoNewAck ==
    ASSUME TypeOK, AckInv, runs' = runs, \A t \in Task : Acked(t)' => Acked(t)
    PROVE  AckInv'
BY DEF AckInv

LEMMA AckStep == TypeOK /\ AckInv /\ [Next]_vars => AckInv'
<1> SUFFICES ASSUME TypeOK, AckInv, [Next]_vars PROVE AckInv'
  OBVIOUS
<1>1. /\ queue \in Seq(Out) /\ toBroker \in Seq(Out) /\ toClient \in Seq(In)
      /\ batch \in Batches /\ sending \in Out /\ runs \in [Task -> Nat]
      /\ lease \in [Task -> {"new", "queued", "leased", "done"}]
  BY DEF TypeOK
<1>2. CASE PullLoop
  <2>1. \A t \in Task : Among(Tack(t), queue') => Among(Tack(t), queue)
    BY <1>1, <1>2, Messages, AmongAppend DEF PullLoop
  <2>2. QED
    BY <1>2, <2>1, NoNewAck DEF PullLoop, Acked, wire
<1>3. CASE HeartbeatLoop
  <2>1. \A t \in Task : Among(Tack(t), queue') => Among(Tack(t), queue)
    <3>1. queue' = queue \/ queue' = Append(queue, Beat)
      BY <1>3 DEF HeartbeatLoop
    <3>2. Beat \in Out /\ \A t \in Task : Tack(t) # Beat
      BY Messages
    <3>3. \A t \in Task : Among(Tack(t), Append(queue, Beat)) => Among(Tack(t), queue)
      BY <1>1, <3>2, AmongAppend
    <3>4. QED
      BY <3>1, <3>3
  <2>2. QED
    BY <1>3, <2>1, NoNewAck DEF HeartbeatLoop, Acked, wire
<1>4. CASE WriterGets
  <2>1. \A t \in Task : /\ Among(Tack(t), queue') => Among(Tack(t), queue)
                        /\ sending' = Tack(t) => Among(Tack(t), queue)
    BY <1>1, <1>4, AmongTail DEF WriterGets
  <2>2. QED
    BY <1>4, <2>1, NoNewAck DEF WriterGets, Acked, wire
<1>5. CASE WriterSends
  <2>1. \A t \in Task : Among(Tack(t), toBroker') => Among(Tack(t), toBroker) \/ sending = Tack(t)
    BY <1>1, <1>5, AmongAppend DEF WriterSends
  <2>2. QED
    BY <1>5, <2>1, NoNewAck DEF WriterSends, Acked
<1>6. CASE WriterFails \/ ReaderFails
  BY <1>6, NoNewAck DEF WriterFails, ReaderFails, Acked
<1>7. CASE ReceiveReply \/ ReceiveBatch
  BY <1>7, NoNewAck DEF ReceiveReply, ReceiveBatch, Acked
<1>8. CASE ProcessJob
  <2> DEFINE h == Head(batch)
  <2>1. h \in Task
    BY <1>1, <1>8, BatchTail DEF ProcessJob, TypeOK
  <2>2. /\ runs' = [runs EXCEPT ![h] = runs[h] + 1] /\ queue' = Append(queue, Tack(h))
        /\ UNCHANGED <<writer, sending, toBroker, lease>>
    BY <1>8 DEF ProcessJob, wire
  <2> HIDE DEF h
  <2>3. ASSUME NEW t \in Task, Acked(t)' PROVE runs'[t] > 0
    <3>1. CASE t = h
      BY <1>1, <2>1, <2>2, <3>1
    <3>2. CASE t # h
      <4>1. Among(Tack(t), queue') => Among(Tack(t), queue)
        BY <1>1, <2>1, <2>2, <3>2, Messages, AmongAppend
      <4>2. Acked(t)
        BY <2>2, <2>3, <4>1 DEF Acked
      <4>3. QED
        BY <1>1, <2>2, <3>2, <4>2 DEF AckInv
    <3>3. QED
      BY <3>1, <3>2
  <2>4. QED
    BY <2>3 DEF AckInv
<1>9. CASE BadBatch
  <2>1. Head(batch) \in Task
    BY <1>1, <1>9, BatchTail DEF BadBatch, TypeOK
  <2>2. runs' = runs \/ runs' = [runs EXCEPT ![Head(batch)] = runs[Head(batch)] + 1]
    BY <1>9 DEF BadBatch
  <2>3. \A t \in Task : runs[t] > 0 => runs'[t] > 0
    BY <1>1, <2>1, <2>2
  <2>4. \A t \in Task : Acked(t)' => Acked(t)
    BY <1>9 DEF BadBatch, Acked
  <2>5. QED
    BY <2>3, <2>4 DEF AckInv
<1>10. ASSUME NEW y, NEW reply, Answer(y, reply)
       PROVE  /\ runs' = runs /\ \A t \in Task : Among(Tack(t), toBroker') => Among(Tack(t), toBroker)
              /\ Among(Head(toBroker), toBroker) /\ Head(toBroker) \in Out
              /\ Head(toBroker).type = y
              /\ UNCHANGED <<queue, writer, sending>>
  BY <1>1, <1>10, AmongTail DEF Answer, coroutines
<1>11. CASE BrokerAnswersPull
  <2>1. PICK s \in Batches : Answer("PULL", Batch(s)) /\
           lease' = [t \in Task |-> IF \E i \in DOMAIN s : s[i] = t THEN "leased" ELSE lease[t]]
    BY <1>11 DEF BrokerAnswersPull
  <2>2. \A t \in Task : lease'[t] = "done" => lease[t] = "done"
    BY <2>1
  <2>3. QED
    BY <1>10, <2>1, <2>2, NoNewAck DEF Acked
<1>12. CASE BrokerAnswersBeat
  <2>1. PICK ok \in BOOLEAN : Answer("HEARTBEAT", Reply("HEARTBEAT", ok)) /\ lease' = lease
    BY <1>12 DEF BrokerAnswersBeat
  <2>2. QED
    BY <1>10, <2>1, NoNewAck DEF Acked
<1>13. CASE BrokerAnswersTack
  <2> DEFINE h == Head(toBroker).task
  <2>1. PICK ok \in BOOLEAN : Answer("TACK", Reply("TACK", ok))
    BY <1>13 DEF BrokerAnswersTack
  <2>2. h \in Task /\ Among(Tack(h), toBroker)
    BY <1>10, <2>1, Messages
  <2>3. \A t \in Task : lease'[t] = "done" => lease[t] = "done" \/ t = h
    BY <1>1, <1>13 DEF BrokerAnswersTack
  <2> HIDE DEF h
  <2>4. QED
    BY <1>10, <2>1, <2>2, <2>3, NoNewAck DEF Acked
<1>14. ASSUME NEW u \in Task, Push(u) \/ LeaseExpires(u) PROVE AckInv'
  <2>1. \A t \in Task : lease'[t] = "done" => lease[t] = "done"
    BY <1>1, <1>14 DEF Push, LeaseExpires
  <2>2. QED
    BY <1>14, <2>1, NoNewAck DEF Push, LeaseExpires, Acked, coroutines, wire
<1>15. CASE ConnectionBreaks
  <2>1. PICK m \in 0..Len(toBroker) : toBroker' = SubSeq(toBroker, 1, m)
    BY <1>15 DEF ConnectionBreaks
  <2>2. \A t \in Task : Among(Tack(t), toBroker') => Among(Tack(t), toBroker)
    BY <1>1, <2>1, AmongPrefix
  <2>3. QED
    BY <1>15, <2>2, NoNewAck DEF ConnectionBreaks, Acked, coroutines
<1>16. CASE Restart
  <2>1. \A t \in Task : ~Among(Tack(t), <<>>)
    BY DEF Among
  <2>2. QED
    BY <1>16, <2>1, NoNewAck DEF Restart, Acked
<1>17. CASE UNCHANGED vars
  BY <1>17, NoNewAck DEF vars, coroutines, wire, Acked
<1>18. QED
  BY <1>2, <1>3, <1>4, <1>5, <1>6, <1>7, <1>8, <1>9, <1>11, <1>12, <1>13, <1>14, <1>15, <1>16,
     <1>17 DEF Next, Client, Broker

\* No task is acknowledged that was not run, wherever a batch breaks off and
\* whatever the broker hands out again.
THEOREM AckFollowsRun == Spec => []AckedMeansProcessed
<1>1. Init => AckInv
  BY DEF Init, AckInv, Acked, Among
<1>2. QED
  BY <1>1, AckStep, AckMeans, TypeCorrect, PTL DEF Spec

-----------------------------------------------------------------------------
(* Counting messages in a queue *)

LEMMA CountNat ==
    ASSUME NEW S, NEW q \in Seq(S), NEW y
    PROVE  /\ IsFiniteSet({i \in DOMAIN q : q[i].type = y})
           /\ Count(q, y) \in Nat
<1>1. DOMAIN q = 1..Len(q) /\ Len(q) \in Nat
  BY LenProperties
<1>2. IsFiniteSet(DOMAIN q)
  BY <1>1, FS_Interval
<1>3. {i \in DOMAIN q : q[i].type = y} \in SUBSET DOMAIN q
  OBVIOUS
<1>4. IsFiniteSet({i \in DOMAIN q : q[i].type = y})
  BY <1>2, <1>3, FS_Subset
<1>5. QED
  BY <1>4, FS_CardinalityType DEF Count

LEMMA CountAppend ==
    ASSUME NEW S, NEW q \in Seq(S), NEW e \in S, NEW y
    PROVE  Count(Append(q, e), y) = Count(q, y) + IF e.type = y THEN 1 ELSE 0
<1> DEFINE A == {i \in DOMAIN q : q[i].type = y}
           r == Append(q, e)
           B == {i \in DOMAIN r : r[i].type = y}
           n == Len(q)
<1>1. /\ n \in Nat /\ DOMAIN q = 1..n /\ DOMAIN r = 1..(n + 1)
      /\ \A i \in 1..n : r[i] = q[i]
      /\ r[n + 1] = e
  BY AppendProperties, LenProperties
<1>2. IsFiniteSet(A) /\ Cardinality(A) \in Nat /\ Cardinality(A) = Count(q, y)
  BY CountNat DEF Count
<1>3. Count(r, y) = Cardinality(B)
  BY DEF Count
<1>4. B = IF e.type = y THEN A \cup {n + 1} ELSE A
  <2> HIDE DEF r, n
  <2>1. QED
    BY <1>1
<1>5. n + 1 \notin A
  BY <1>1
<1> HIDE DEF A, B, r, n
<1>6. Cardinality(A \cup {n + 1}) = Cardinality(A) + 1
  BY <1>2, <1>5, FS_AddElement
<1>7. QED
  BY <1>2, <1>3, <1>4, <1>6 DEF r

LEMMA CountTail ==
    ASSUME NEW S, NEW q \in Seq(S), q # <<>>, NEW y
    PROVE  Count(Tail(q), y) = Count(q, y) - IF Head(q).type = y THEN 1 ELSE 0
<1> DEFINE r == Tail(q)
           A == {i \in DOMAIN r : r[i].type = y}
           B == {i \in DOMAIN q : q[i].type = y}
           n == Len(q)
           f == [i \in A |-> i + 1]
<1>1. /\ r \in Seq(S) /\ n \in Nat \ {0} /\ Head(q) = q[1]
      /\ DOMAIN r = 1..(n - 1) /\ DOMAIN q = 1..n
      /\ \A i \in 1..(n - 1) : r[i] = q[i + 1]
  <2>1. /\ r \in Seq(S) /\ n \in Nat \ {0} /\ Head(q) = q[1]
        /\ Len(r) = n - 1 /\ DOMAIN r = 1..Len(r) /\ DOMAIN q = 1..n
        /\ \A i \in 1..Len(r) : r[i] = q[i + 1]
    BY HeadTailProperties, LenProperties, EmptySeq
  <2>2. QED
    BY <2>1
<1>2. IsFiniteSet(A) /\ Cardinality(A) \in Nat /\ Cardinality(A) = Count(r, y)
  BY <1>1, CountNat DEF Count
<1>3. IsFiniteSet(B) /\ Cardinality(B) \in Nat /\ Cardinality(B) = Count(q, y)
  BY CountNat DEF Count
<1>4. Cardinality(B \ {1}) = Cardinality(A)
  <2>1. A \subseteq 1..(n - 1) /\ B \subseteq 1..n
    BY <1>1
  <2>2. \A i \in A : i + 1 \in B \ {1}
    BY <1>1
  <2>3. \A k \in B \ {1} : k - 1 \in A
    BY <1>1
  <2> HIDE DEF A, B, r, n
  <2>4. f \in [A -> B \ {1}]
    BY <2>2
  <2>5. f \in Injection(A, B \ {1})
    BY <1>1, <2>1, <2>4 DEF Injection, IsInjective
  <2>6. f \in Surjection(A, B \ {1})
    <3>1. ASSUME NEW k \in B \ {1} PROVE \E i \in A : f[i] = k
      <4>1. k - 1 \in A /\ f[k - 1] = k
        BY <1>1, <2>1, <2>3
      <4>2. QED
        BY <4>1
    <3>2. QED
      BY <2>4, <3>1 DEF Surjection
  <2>7. ExistsBijection(A, B \ {1})
    BY <2>5, <2>6 DEF ExistsBijection, Bijection
  <2>8. QED
    BY <1>2, <2>7, FS_Bijection
<1>5. 1 \in B <=> Head(q).type = y
  BY <1>1
<1> HIDE DEF A, B, r, n
<1>6. Cardinality(B \ {1}) = IF 1 \in B THEN Cardinality(B) - 1 ELSE Cardinality(B)
  BY <1>3, FS_RemoveElement
<1>7. QED
  BY <1>2, <1>3, <1>4, <1>5, <1>6 DEF r

LEMMA CountPrefix ==
    ASSUME NEW S, NEW q \in Seq(S), NEW m \in 0..Len(q), NEW y
    PROVE  Count(SubSeq(q, 1, m), y) <= Count(q, y)
<1> DEFINE r == SubSeq(q, 1, m)
           A == {i \in DOMAIN r : r[i].type = y}
           B == {i \in DOMAIN q : q[i].type = y}
<1>1. Len(q) \in Nat /\ DOMAIN q = 1..Len(q) /\ m \in Nat /\ m <= Len(q)
  BY LenProperties
<1>2. \A i \in 1..m : q[i] \in S
  BY <1>1, ElementOfSeq
<1>3. /\ r \in Seq(S)
      /\ Len(r) = IF 1 <= m THEN m - 1 + 1 ELSE 0
      /\ \A i \in 1..m - 1 + 1 : r[i] = q[1 + i - 1]
  BY <1>1, <1>2, SubSeqProperties
<1>4. DOMAIN r = 1..m
  BY <1>1, <1>3, LenProperties
<1>5. \A i \in 1..m : r[i] = q[i] /\ i \in DOMAIN q
  BY <1>1, <1>3
<1>6. A \in SUBSET B
  BY <1>4, <1>5
<1>7. IsFiniteSet(B) /\ Count(q, y) = Cardinality(B) /\ Count(r, y) = Cardinality(A)
  BY CountNat DEF Count
<1> HIDE DEF A, B, r
<1>8. Cardinality(A) <= Cardinality(B)
  BY <1>6, <1>7, FS_Subset
<1>9. QED
  BY <1>7, <1>8 DEF r

-----------------------------------------------------------------------------
(* The token *)

Bit(b) == IF b THEN 1 ELSE 0
Due == Bit(event)
InQueue == Count(queue, "PULL")
InHand == Bit(writer = "send" /\ sending.type = "PULL")
Upstream == Count(toBroker, "PULL")
Downstream == Count(toClient, "PULL")
AtWork == Bit(reader = "job")
Tokens == Due + InQueue + InHand + Upstream + Downstream + AtWork

TokenTypes ==
    /\ Due \in {0, 1} /\ InHand \in {0, 1} /\ AtWork \in {0, 1}
    /\ InQueue \in Nat /\ Upstream \in Nat /\ Downstream \in Nat
    /\ Tokens \in Nat

TokenMeaning == PullToken <=> (running => Tokens <= 1 /\ (up => Tokens = 1))

LEMMA TokensTyped == TypeOK => TokenTypes
<1> SUFFICES ASSUME TypeOK PROVE TokenTypes
  OBVIOUS
<1>1. queue \in Seq(Out) /\ toBroker \in Seq(Out) /\ toClient \in Seq(In)
  BY DEF TypeOK
<1>2. InQueue \in Nat /\ Upstream \in Nat /\ Downstream \in Nat
  BY <1>1, CountNat DEF InQueue, Upstream, Downstream
<1>3. Due \in {0, 1} /\ InHand \in {0, 1} /\ AtWork \in {0, 1}
  BY DEF Due, InHand, AtWork, Bit
<1>4. QED
  BY <1>2, <1>3 DEF Tokens, TokenTypes

LEMMA TokenMeans == TypeOK => TokenMeaning
<1> SUFFICES ASSUME TypeOK PROVE TokenMeaning
  OBVIOUS
<1>1. InQueue \in Nat /\ Upstream \in Nat /\ Downstream \in Nat
      /\ Due \in {0, 1} /\ InHand \in {0, 1} /\ AtWork \in {0, 1}
  BY TokensTyped DEF TokenTypes
<1>2. OnTheWay("PULL") = InQueue + Upstream + Downstream + InHand
  BY DEF OnTheWay, InQueue, Upstream, Downstream, InHand, Bit
<1>3. Tokens = OnTheWay("PULL") + Due + AtWork
  BY <1>1, <1>2 DEF Tokens
<1>4. QED
  BY <1>3 DEF TokenMeaning, PullToken, Due, AtWork, Bit

\* A step that lets the client run must not add a token, nor lose one that the
\* connection it leaves standing still has.
LEMMA TokenKept ==
    ASSUME TypeOK, TypeOK', PullToken, running' => running, up' => up,
           running' => Tokens' <= Tokens /\ (up' => Tokens' = Tokens)
    PROVE  PullToken'
<1>1. Tokens \in Nat /\ (running => Tokens <= 1 /\ (up => Tokens = 1))
  BY TokensTyped, TokenMeans DEF TokenTypes, TokenMeaning
<1>2. TokenTypes' /\ TokenMeaning'
  BY TokensTyped, TokenMeans, PTL
<1>3. Tokens' \in Nat /\ (PullToken' <=> (running' => Tokens' <= 1 /\ (up' => Tokens' = 1)))
  BY <1>2 DEF TokenTypes, TokenMeaning
<1>4. QED
  BY <1>1, <1>3

LEMMA PullTypes ==
    /\ Pull.type = "PULL" /\ Beat.type # "PULL" /\ \A t : Tack(t).type # "PULL"
    /\ \A s : Batch(s).type = "PULL"
    /\ \A ok : Reply("HEARTBEAT", ok).type # "PULL" /\ Reply("TACK", ok).type # "PULL"
BY DEF Pull, Beat, Tack, Batch, Reply

LEMMA TokenStep == TypeOK /\ TypeOK' /\ PullToken /\ [Next]_vars => PullToken'
<1> SUFFICES ASSUME TypeOK, TypeOK', PullToken, [Next]_vars PROVE PullToken'
  OBVIOUS
<1>1. /\ queue \in Seq(Out) /\ toBroker \in Seq(Out) /\ toClient \in Seq(In)
      /\ batch \in Batches /\ sending \in Out
      /\ running \in BOOLEAN /\ event \in BOOLEAN /\ up \in BOOLEAN
      /\ running' \in BOOLEAN /\ event' \in BOOLEAN /\ up' \in BOOLEAN
  BY DEF TypeOK
<1>2. /\ InQueue \in Nat /\ Upstream \in Nat /\ Downstream \in Nat
      /\ InHand \in {0, 1} /\ Due \in {0, 1} /\ AtWork \in {0, 1} /\ Tokens \in Nat
  BY TokensTyped DEF TokenTypes
<1>3. /\ InQueue' \in Nat /\ Upstream' \in Nat /\ Downstream' \in Nat
      /\ InHand' \in {0, 1} /\ Due' \in {0, 1} /\ AtWork' \in {0, 1} /\ Tokens' \in Nat
  <2>1. TokenTypes'
    BY TokensTyped, PTL
  <2>2. QED
    BY <2>1 DEF TokenTypes
<1>4. /\ Tokens = Due + InQueue + InHand + Upstream + Downstream + AtWork
      /\ Tokens' = Due' + InQueue' + InHand' + Upstream' + Downstream' + AtWork'
  BY DEF Tokens
<1>5. running => Tokens <= 1 /\ (up => Tokens = 1)
  BY TokenMeans DEF TokenMeaning
<1>6. /\ UNCHANGED event => Due' = Due
      /\ UNCHANGED queue => InQueue' = InQueue
      /\ UNCHANGED <<writer, sending>> => InHand' = InHand
      /\ UNCHANGED toBroker => Upstream' = Upstream
      /\ UNCHANGED toClient => Downstream' = Downstream
      /\ UNCHANGED reader => AtWork' = AtWork
  BY DEF Due, InQueue, InHand, Upstream, Downstream, AtWork
<1>7. /\ (event => Due = 1) /\ (~event => Due = 0)
      /\ (event' => Due' = 1) /\ (~event' => Due' = 0)
      /\ (reader = "job" => AtWork = 1) /\ (reader # "job" => AtWork = 0)
      /\ (reader' = "job" => AtWork' = 1) /\ (reader' # "job" => AtWork' = 0)
  BY DEF Bit, Due, AtWork
<1>8. PICK d \in {0, 1}, q \in Nat, h \in {0, 1}, u \in Nat, w \in Nat, a \in {0, 1} :
         d = Due /\ q = InQueue /\ h = InHand /\ u = Upstream /\ w = Downstream /\ a = AtWork
  BY <1>2
<1>9. PICK d1 \in {0, 1}, q1 \in Nat, h1 \in {0, 1}, u1 \in Nat, w1 \in Nat, a1 \in {0, 1} :
         /\ d1 = Due' /\ q1 = InQueue' /\ h1 = InHand'
         /\ u1 = Upstream' /\ w1 = Downstream' /\ a1 = AtWork'
  BY <1>3
<1>10. CASE PullLoop
  <2>1. InQueue' = InQueue + 1
    BY <1>1, <1>10, Messages, PullTypes, CountAppend DEF PullLoop, InQueue
  <2>2. event /\ ~event' /\ UNCHANGED <<running, up, toBroker, toClient, writer, sending, reader>>
    BY <1>10 DEF PullLoop, wire
  <2>3. Tokens' = Tokens
    BY <1>2, <1>3, <1>4, <1>6, <1>7, <2>1, <2>2
  <2>4. QED
    BY <1>2, <1>3, <2>2, <2>3, TokenKept
<1>11. CASE HeartbeatLoop
  <2>1. InQueue' = InQueue
    <3>1. queue' = queue \/ queue' = Append(queue, Beat)
      BY <1>11 DEF HeartbeatLoop
    <3>2. Count(Append(queue, Beat), "PULL") = InQueue + 0
      BY <1>1, Messages, PullTypes, CountAppend DEF InQueue
    <3>3. Count(Append(queue, Beat), "PULL") = InQueue
      BY <1>2, <3>2
    <3>4. QED
      BY <3>1, <3>3 DEF InQueue
  <2>2. UNCHANGED <<running, event, up, toBroker, toClient, writer, sending, reader>>
    BY <1>11 DEF HeartbeatLoop, wire
  <2>3. Tokens' = Tokens
    BY <1>4, <1>6, <2>1, <2>2
  <2>4. QED
    BY <1>2, <1>3, <2>2, <2>3, TokenKept
<1>12. CASE WriterGets
  <2>1. InQueue' = InQueue - Bit(Head(queue).type = "PULL")
    BY <1>1, <1>12, CountTail DEF WriterGets, InQueue, Bit
  <2>2. InHand = 0 /\ InHand' = Bit(Head(queue).type = "PULL")
    BY <1>12 DEF WriterGets, InHand, Bit
  <2>3. UNCHANGED <<running, event, up, toBroker, toClient, reader>>
    BY <1>12 DEF WriterGets, wire
  <2>4. Tokens' = Tokens
    BY <1>2, <1>3, <1>4, <1>6, <2>1, <2>2, <2>3
  <2>5. QED
    BY <1>2, <1>3, <2>3, <2>4, TokenKept
<1>13. CASE WriterSends
  <2>1. InHand = Bit(sending.type = "PULL") /\ InHand' = 0
    BY <1>13 DEF WriterSends, InHand, Bit
  <2>2. Upstream' = IF up THEN Upstream + InHand ELSE Upstream
    <3>1. Count(Append(toBroker, sending), "PULL") = Upstream + Bit(sending.type = "PULL")
      BY <1>1, CountAppend DEF Upstream, Bit
    <3>2. toBroker' = IF up THEN Append(toBroker, sending) ELSE toBroker
      BY <1>13 DEF WriterSends
    <3>3. QED
      BY <2>1, <3>1, <3>2 DEF Upstream
  <2>3. UNCHANGED <<running, event, up, queue, toClient, reader>>
    BY <1>13 DEF WriterSends
  <2>4. Tokens' <= Tokens /\ (up => Tokens' = Tokens)
    BY <1>2, <1>3, <1>4, <1>6, <2>1, <2>2, <2>3
  <2>5. QED
    BY <1>2, <1>3, <2>3, <2>4, TokenKept
<1>14. ASSUME Close PROVE PullToken'
  BY <1>14 DEF Close, PullToken
<1>15. CASE WriterFails \/ BadBatch \/ ReaderFails
  BY <1>14, <1>15 DEF WriterFails, BadBatch, ReaderFails
<1>16. CASE ReceiveReply
  <2>1. toClient # <<>> /\ Head(toClient).type # "PULL" /\ toClient' = Tail(toClient)
        /\ UNCHANGED <<queue, toBroker, writer, sending>>
    BY <1>16 DEF ReceiveReply
  <2>2. Downstream' = Downstream
    <3>1. Downstream' = Downstream - 0
      BY <1>1, <2>1, CountTail DEF Downstream
    <3>2. QED
      BY <1>2, <1>3, <3>1
  <2>3. CASE UNCHANGED <<running, event, up, reader>>
    <3>1. Tokens' = Tokens
      BY <1>4, <1>6, <2>1, <2>2, <2>3
    <3>2. QED
      BY <1>2, <1>3, <2>3, <3>1, TokenKept
  <2>4. QED
    BY <1>14, <1>16, <2>3 DEF ReceiveReply
<1>17. CASE ReceiveBatch
  <2>1. /\ running /\ toClient # <<>> /\ Head(toClient).type = "PULL" /\ toClient' = Tail(toClient)
        /\ reader = "recv"
        /\ UNCHANGED <<running, queue, writer, sending, up, toBroker>>
        /\ \/ event' = TRUE /\ UNCHANGED reader
           \/ reader' = "job" /\ UNCHANGED event
    BY <1>17 DEF ReceiveBatch
  <2>2. Downstream' = Downstream - 1
    BY <1>1, <2>1, CountTail DEF Downstream
  <2>3. Due = 0 /\ AtWork = 0
    <3>1. w1 = w - 1 /\ d + q + h + u + w + a <= 1
      BY <1>4, <1>5, <1>8, <1>9, <2>1, <2>2
    <3>2. d = 0 /\ a = 0
      BY <3>1
    <3>3. QED
      BY <1>8, <3>2
  <2>4. Due' + AtWork' = 1
    <3>1. CASE event' = TRUE /\ UNCHANGED reader
      BY <1>6, <1>7, <2>3, <3>1
    <3>2. CASE reader' = "job" /\ UNCHANGED event
      BY <1>6, <1>7, <2>3, <3>2
    <3>3. QED
      BY <2>1, <3>1, <3>2
  <2>5. Tokens' = Tokens
    <3>1. w1 = w - 1 /\ d = 0 /\ a = 0 /\ d1 + a1 = 1 /\ q1 = q /\ h1 = h /\ u1 = u
      BY <1>6, <1>8, <1>9, <2>1, <2>2, <2>3, <2>4
    <3>2. d1 + q1 + h1 + u1 + w1 + a1 = d + q + h + u + w + a
      BY <3>1
    <3>3. QED
      BY <1>4, <1>8, <1>9, <3>2
  <2>6. QED
    BY <1>2, <1>3, <2>1, <2>5, TokenKept
<1>18. CASE ProcessJob
  <2>1. /\ reader = "job" /\ queue' = Append(queue, Tack(Head(batch)))
        /\ UNCHANGED <<running, writer, sending, up, toBroker, toClient>>
        /\ \/ event' = TRUE /\ reader' # "job"
           \/ UNCHANGED <<event, reader>>
    BY <1>18 DEF ProcessJob, wire
  <2>2. Head(batch) \in Task
    BY <1>1, <2>1, BatchTail DEF TypeOK
  <2>3. InQueue' = InQueue
    <3>1. InQueue' = InQueue + 0
      BY <1>1, <2>1, <2>2, Messages, PullTypes, CountAppend DEF InQueue
    <3>2. QED
      BY <1>2, <1>3, <3>1
  <2>4. running => Tokens' = Tokens
    <3>1. CASE event' = TRUE /\ reader' # "job"
      <4>1. AtWork = 1 /\ AtWork' = 0 /\ Due' = 1
        BY <1>7, <2>1, <3>1
      <4>2. running => Due = 0
        BY <1>2, <1>3, <1>4, <1>5, <4>1
      <4>3. QED
        BY <1>2, <1>3, <1>4, <1>6, <2>1, <2>3, <4>1, <4>2
    <3>2. CASE UNCHANGED <<event, reader>>
      BY <1>4, <1>6, <2>1, <2>3, <3>2
    <3>3. QED
      BY <2>1, <3>1, <3>2
  <2>5. QED
    BY <1>2, <1>3, <2>1, <2>4, TokenKept
\* What the broker answers takes a PULL and gives one, or is neither.
<1>19. ASSUME NEW y, NEW reply \in In, Answer(y, reply), reply.type = "PULL" <=> y = "PULL"
       PROVE  PullToken'
  <2>1. /\ toBroker # <<>> /\ Head(toBroker).type = y /\ toBroker' = Tail(toBroker)
        /\ toClient' = IF up THEN Append(toClient, reply) ELSE toClient
        /\ UNCHANGED <<running, event, queue, reader, writer, sending, up>>
    BY <1>19 DEF Answer, coroutines
  <2>2. Upstream' = Upstream - Bit(y = "PULL")
    BY <1>1, <2>1, CountTail DEF Upstream, Bit
  <2>3. Downstream' = IF up THEN Downstream + Bit(y = "PULL") ELSE Downstream
    <3>1. Count(Append(toClient, reply), "PULL") = Downstream + Bit(y = "PULL")
      BY <1>1, <1>19, CountAppend DEF Downstream, Bit
    <3>2. QED
      BY <2>1, <3>1 DEF Downstream
  <2>4. Bit(y = "PULL") \in {0, 1}
    BY DEF Bit
  <2>5. Tokens' <= Tokens /\ (up => Tokens' = Tokens)
    <3>1. PICK z \in {0, 1} : z = Bit(y = "PULL")
      BY <2>4
    <3>2. /\ u1 = u - z /\ w1 = IF up THEN w + z ELSE w
          /\ d1 = d /\ q1 = q /\ h1 = h /\ a1 = a
      BY <1>6, <1>8, <1>9, <2>1, <2>2, <2>3, <3>1
    <3>3. /\ d1 + q1 + h1 + u1 + w1 + a1 <= d + q + h + u + w + a
          /\ up => d1 + q1 + h1 + u1 + w1 + a1 = d + q + h + u + w + a
      BY <3>2
    <3>4. QED
      BY <1>4, <1>8, <1>9, <3>3
  <2>6. QED
    BY <1>2, <1>3, <2>1, <2>5, TokenKept
<1>20. CASE BrokerAnswersPull
  BY <1>19, <1>20, Answers, PullTypes DEF BrokerAnswersPull
<1>21. CASE BrokerAnswersBeat
  <2>1. PICK ok \in BOOLEAN : Answer("HEARTBEAT", Reply("HEARTBEAT", ok))
    BY <1>21 DEF BrokerAnswersBeat
  <2>2. QED
    BY <1>19, <2>1, Answers, PullTypes
<1>22. CASE BrokerAnswersTack
  <2>1. PICK ok \in BOOLEAN : Answer("TACK", Reply("TACK", ok))
    BY <1>22 DEF BrokerAnswersTack
  <2>2. QED
    BY <1>19, <2>1, Answers, PullTypes
<1>23. CASE (\E t \in Task : Push(t) \/ LeaseExpires(t)) \/ UNCHANGED vars
  <2>1. UNCHANGED <<running, event, queue, reader, writer, sending, up, toBroker, toClient>>
    BY <1>23 DEF Push, LeaseExpires, vars, coroutines, wire
  <2>2. Tokens' = Tokens
    BY <1>4, <1>6, <2>1
  <2>3. QED
    BY <1>2, <1>3, <2>1, <2>2, TokenKept
<1>24. CASE ConnectionBreaks
  <2>1. PICK m \in 0..Len(toBroker), n \in 0..Len(toClient) :
           toBroker' = SubSeq(toBroker, 1, m) /\ toClient' = SubSeq(toClient, 1, n)
    BY <1>24 DEF ConnectionBreaks
  <2>2. Upstream' <= Upstream /\ Downstream' <= Downstream
    BY <1>1, <2>1, CountPrefix DEF Upstream, Downstream
  <2>3. up' = FALSE /\ UNCHANGED <<running, event, queue, reader, writer, sending>>
    BY <1>24 DEF ConnectionBreaks, coroutines
  <2>4. Tokens' <= Tokens
    <3>1. u1 <= u /\ w1 <= w /\ d1 = d /\ q1 = q /\ h1 = h /\ a1 = a
      BY <1>6, <1>8, <1>9, <2>2, <2>3
    <3>2. d1 + q1 + h1 + u1 + w1 + a1 <= d + q + h + u + w + a
      BY <3>1
    <3>3. QED
      BY <1>4, <1>8, <1>9, <3>2
  <2>5. QED
    BY <1>2, <1>3, <2>3, <2>4, TokenKept
<1>25. CASE Restart
  <2>1. /\ queue' = <<>> /\ toBroker' = <<>> /\ toClient' = <<>>
        /\ event' = TRUE /\ reader' = "recv" /\ writer' = "get"
    BY <1>25 DEF Restart
  <2>2. Count(<<>>, "PULL") = 0
    BY FS_EmptySet DEF Count
  <2>3. InQueue' = 0 /\ Upstream' = 0 /\ Downstream' = 0
    BY <2>1, <2>2 DEF InQueue, Upstream, Downstream
  <2>4. InHand' = 0
    BY <2>1 DEF InHand, Bit
  <2>5. Tokens' = 1
    BY <1>4, <1>7, <2>1, <2>3, <2>4
  <2>6. QED
    <3>1. TokenMeaning'
      BY TokenMeans, PTL
    <3>2. QED
      BY <2>5, <3>1 DEF TokenMeaning
<1>26. QED
  BY <1>10, <1>11, <1>12, <1>13, <1>15, <1>16, <1>17, <1>18, <1>20, <1>21, <1>22, <1>23, <1>24, 
     <1>25 DEF Next, Client, Broker

\* There are never two PULLs, Due, on their way or being worked off, and while the
\* connection stands there is one, so that the crawler neither floods nor idles.
THEOREM OneToken == Spec => []PullToken
<1>1. Init => PullToken
  <2>1. Count(<<>>, "PULL") = 0
    BY FS_EmptySet DEF Count
  <2>2. QED
    BY <2>1 DEF Init, PullToken, OnTheWay
<1>2. QED
  BY <1>1, TokenStep, TypeCorrect, PTL DEF Spec

-----------------------------------------------------------------------------
(* What comes first in a queue *)

LEMMA AppendFacts ==
    ASSUME NEW S, NEW q \in Seq(S), NEW e \in S
    PROVE  /\ Append(q, e) \in Seq(S) /\ Len(q) \in Nat /\ DOMAIN q = 1..Len(q)
           /\ DOMAIN Append(q, e) = 1..(Len(q) + 1)
           /\ \A i \in 1..Len(q) : Append(q, e)[i] = q[i]
           /\ Append(q, e)[Len(q) + 1] = e
BY AppendProperties, LenProperties

LEMMA TailFacts ==
    ASSUME NEW S, NEW q \in Seq(S), q # <<>>
    PROVE  /\ Tail(q) \in Seq(S) /\ Len(q) \in Nat \ {0} /\ DOMAIN q = 1..Len(q)
           /\ Head(q) = q[1] /\ Head(q) \in S
           /\ DOMAIN Tail(q) = 1..(Len(q) - 1)
           /\ \A i \in 1..(Len(q) - 1) : Tail(q)[i] = q[i + 1]
<1>1. /\ Tail(q) \in Seq(S) /\ Len(q) \in Nat \ {0} /\ DOMAIN q = 1..Len(q)
      /\ Head(q) = q[1] /\ Head(q) \in S
      /\ Len(Tail(q)) = Len(q) - 1 /\ DOMAIN Tail(q) = 1..Len(Tail(q))
      /\ \A i \in 1..Len(Tail(q)) : Tail(q)[i] = q[i + 1]
  BY HeadTailProperties, LenProperties, EmptySeq
<1>2. QED
  BY <1>1

\* No PULL is in queue q; message x is in q and no PULL ahead of it.
Clear(q) == \A i \in DOMAIN q : q[i].type # "PULL"
Leads(x, q) == \E i \in DOMAIN q : q[i] = x /\ \A k \in 1..i : q[k].type # "PULL"

\* A rejected heartbeat or ACK; one is in q; every batch in q with task t comes
\* after one.
Refusal(msg) == msg.type # "PULL" /\ ~msg.ok
Refused(q) == \E i \in DOMAIN q : Refusal(q[i])
Guarded(t, q) ==
    \A i \in DOMAIN q :
        q[i].type = "PULL" /\ Among(t, q[i].tasks) => \E k \in 1..(i - 1) : Refusal(q[k])

LEMMA ClearAppend ==
    ASSUME NEW S, NEW q \in Seq(S), NEW e \in S, Clear(q), e.type # "PULL"
    PROVE  Clear(Append(q, e)) /\ Leads(e, Append(q, e))
<1>1. /\ Len(q) \in Nat /\ DOMAIN q = 1..Len(q)
      /\ DOMAIN Append(q, e) = 1..(Len(q) + 1)
      /\ \A i \in 1..Len(q) : Append(q, e)[i] = q[i]
      /\ Append(q, e)[Len(q) + 1] = e
  BY AppendFacts
<1>2. \A i \in 1..(Len(q) + 1) : Append(q, e)[i].type # "PULL"
  BY <1>1 DEF Clear
<1>3. QED
  BY <1>1, <1>2 DEF Clear, Leads

LEMMA LeadsAppend ==
    ASSUME NEW S, NEW q \in Seq(S), NEW e \in S, NEW x, Leads(x, q)
    PROVE  Leads(x, Append(q, e))
<1>1. /\ Len(q) \in Nat /\ DOMAIN q = 1..Len(q)
      /\ DOMAIN Append(q, e) = 1..(Len(q) + 1)
      /\ \A i \in 1..Len(q) : Append(q, e)[i] = q[i]
  BY AppendFacts
<1>2. PICK i \in DOMAIN q : q[i] = x /\ \A k \in 1..i : q[k].type # "PULL"
  BY DEF Leads
<1>3. i \in 1..(Len(q) + 1) /\ Append(q, e)[i] = x
  BY <1>1, <1>2
<1>4. \A k \in 1..i : Append(q, e)[k].type # "PULL"
  BY <1>1, <1>2
<1>5. QED
  BY <1>1, <1>3, <1>4 DEF Leads

LEMMA ClearTail ==
    ASSUME NEW S, NEW q \in Seq(S), q # <<>>, Clear(q)
    PROVE  Head(q).type # "PULL" /\ Clear(Tail(q))
<1>1. /\ Len(q) \in Nat \ {0} /\ DOMAIN q = 1..Len(q) /\ Head(q) = q[1]
      /\ DOMAIN Tail(q) = 1..(Len(q) - 1)
      /\ \A i \in 1..(Len(q) - 1) : Tail(q)[i] = q[i + 1]
  BY TailFacts
<1>2. Head(q).type # "PULL"
  BY <1>1 DEF Clear
<1>3. \A i \in 1..(Len(q) - 1) : i + 1 \in DOMAIN q
  BY <1>1
<1>4. QED
  BY <1>1, <1>2, <1>3 DEF Clear

LEMMA LeadsTail ==
    ASSUME NEW S, NEW q \in Seq(S), NEW x, Leads(x, q)
    PROVE  /\ q # <<>>
           /\ Head(q).type # "PULL"
           /\ Head(q) = x \/ Leads(x, Tail(q))
<1>1. PICK i \in DOMAIN q : q[i] = x /\ \A k \in 1..i : q[k].type # "PULL"
  BY DEF Leads
<1>2. q # <<>>
  BY <1>1, EmptySeq, LenProperties
<1>3. /\ Len(q) \in Nat \ {0} /\ DOMAIN q = 1..Len(q) /\ Head(q) = q[1]
      /\ DOMAIN Tail(q) = 1..(Len(q) - 1)
      /\ \A k \in 1..(Len(q) - 1) : Tail(q)[k] = q[k + 1]
  BY <1>2, TailFacts
<1>4. Head(q).type # "PULL"
  BY <1>1, <1>3
<1>5. CASE i # 1
  <2>1. i - 1 \in DOMAIN Tail(q) /\ Tail(q)[i - 1] = x
    BY <1>1, <1>3, <1>5
  <2>2. \A k \in 1..(i - 1) : Tail(q)[k].type # "PULL"
    BY <1>1, <1>3
  <2>3. QED
    BY <1>2, <1>4, <2>1, <2>2 DEF Leads
<1>6. CASE i = 1
  BY <1>1, <1>2, <1>3, <1>4, <1>6
<1>7. QED
  BY <1>5, <1>6

\* Behind a refusal anything is guarded.
LEMMA GuardedAppend ==
    ASSUME NEW S, NEW q \in Seq(S), NEW e \in S, NEW t, Guarded(t, q),
           Refused(q) \/ e.type # "PULL" \/ ~Among(t, e.tasks)
    PROVE  Guarded(t, Append(q, e))
<1> DEFINE r == Append(q, e)
<1>1. /\ Len(q) \in Nat /\ DOMAIN q = 1..Len(q)
      /\ DOMAIN r = 1..(Len(q) + 1)
      /\ \A i \in 1..Len(q) : r[i] = q[i]
      /\ r[Len(q) + 1] = e
  BY AppendFacts
<1> HIDE DEF r
<1>2. ASSUME NEW i \in DOMAIN r, r[i].type = "PULL", Among(t, r[i].tasks)
      PROVE  \E k \in 1..(i - 1) : Refusal(r[k])
  <2>1. CASE i = Len(q) + 1
    <3>1. PICK k \in DOMAIN q : Refusal(q[k])
      BY <1>1, <1>2, <2>1 DEF Refused
    <3>2. k \in 1..(i - 1) /\ r[k] = q[k]
      BY <1>1, <2>1
    <3>3. QED
      BY <3>1, <3>2
  <2>2. CASE i # Len(q) + 1
    <3>1. i \in DOMAIN q /\ r[i] = q[i]
      BY <1>1, <2>2
    <3>2. PICK k \in 1..(i - 1) : Refusal(q[k])
      BY <1>2, <3>1 DEF Guarded
    <3>3. r[k] = q[k]
      BY <1>1, <3>1, <3>2
    <3>4. QED
      BY <3>2, <3>3
  <2>3. QED
    BY <2>1, <2>2
<1>3. QED
  BY <1>2 DEF Guarded, r

LEMMA RefusedAppend ==
    ASSUME NEW S, NEW q \in Seq(S), NEW e \in S
    PROVE  Refused(Append(q, e)) <=> Refused(q) \/ Refusal(e)
<1>1. /\ Len(q) \in Nat /\ DOMAIN q = 1..Len(q)
      /\ DOMAIN Append(q, e) = 1..(Len(q) + 1)
      /\ \A i \in 1..Len(q) : Append(q, e)[i] = q[i]
      /\ Append(q, e)[Len(q) + 1] = e
  BY AppendFacts
<1>2. QED
  BY <1>1 DEF Refused

\* What is read first, if it is no refusal, was guarded by none.
LEMMA GuardedTail ==
    ASSUME NEW S, NEW q \in Seq(S), q # <<>>, ~Refusal(Head(q)), NEW t, Guarded(t, q)
    PROVE  /\ Guarded(t, Tail(q))
           /\ Head(q).type = "PULL" => ~Among(t, Head(q).tasks)
           /\ Refused(q) => Refused(Tail(q))
<1> DEFINE r == Tail(q)
<1>1. /\ Len(q) \in Nat \ {0} /\ DOMAIN q = 1..Len(q) /\ Head(q) = q[1]
      /\ DOMAIN r = 1..(Len(q) - 1)
      /\ \A i \in 1..(Len(q) - 1) : r[i] = q[i + 1]
  BY TailFacts
<1> HIDE DEF r
<1>2. ASSUME NEW i \in DOMAIN r, r[i].type = "PULL", Among(t, r[i].tasks)
      PROVE  \E k \in 1..(i - 1) : Refusal(r[k])
  <2>1. i + 1 \in DOMAIN q /\ q[i + 1] = r[i]
    BY <1>1
  <2>2. PICK k \in 1..((i + 1) - 1) : Refusal(q[k])
    BY <1>2, <2>1 DEF Guarded
  <2>3. k # 1
    BY <1>1, <2>2
  <2>4. k - 1 \in 1..(i - 1) /\ r[k - 1] = q[k]
    BY <1>1, <2>2, <2>3
  <2>5. QED
    BY <2>2, <2>4
<1>3. Head(q).type = "PULL" => ~Among(t, Head(q).tasks)
  <2>1. 1 \in DOMAIN q /\ 1..(1 - 1) = {}
    BY <1>1
  <2>2. QED
    BY <1>1, <2>1 DEF Guarded
<1>4. ASSUME NEW k \in DOMAIN q, Refusal(q[k]) PROVE Refused(r)
  <2>1. k # 1
    BY <1>1, <1>4
  <2>2. k - 1 \in DOMAIN r /\ r[k - 1] = q[k]
    BY <1>1, <2>1
  <2>3. QED
    BY <1>4, <2>2 DEF Refused
<1>5. QED
  BY <1>2, <1>3, <1>4 DEF Guarded, Refused, r

LEMMA GuardedPrefix ==
    ASSUME NEW S, NEW q \in Seq(S), NEW m \in 0..Len(q), NEW t, Guarded(t, q)
    PROVE  Guarded(t, SubSeq(q, 1, m))
<1> DEFINE r == SubSeq(q, 1, m)
<1>1. Len(q) \in Nat /\ DOMAIN q = 1..Len(q) /\ m \in Nat /\ m <= Len(q)
  BY LenProperties
<1>2. \A i \in 1..m : q[i] \in S
  BY <1>1, ElementOfSeq
<1>3. /\ r \in Seq(S)
      /\ Len(r) = IF 1 <= m THEN m - 1 + 1 ELSE 0
      /\ \A i \in 1..m - 1 + 1 : r[i] = q[1 + i - 1]
  BY <1>1, <1>2, SubSeqProperties
<1>4. DOMAIN r = 1..m
  BY <1>1, <1>3, LenProperties
<1>5. \A i \in 1..m : r[i] = q[i] /\ i \in DOMAIN q
  BY <1>1, <1>3
<1> HIDE DEF r
<1>6. ASSUME NEW i \in DOMAIN r, r[i].type = "PULL", Among(t, r[i].tasks)
      PROVE  \E k \in 1..(i - 1) : Refusal(r[k])
  <2>1. PICK k \in 1..(i - 1) : Refusal(q[k])
    BY <1>4, <1>5, <1>6 DEF Guarded
  <2>2. r[k] = q[k]
    BY <1>1, <1>4, <1>5, <2>1
  <2>3. QED
    BY <2>1, <2>2
<1>7. QED
  BY <1>6 DEF Guarded, r

LEMMA NoCountIsClear ==
    ASSUME NEW S, NEW q \in Seq(S), Count(q, "PULL") = 0
    PROVE  Clear(q)
<1> DEFINE A == {i \in DOMAIN q : q[i].type = "PULL"}
<1>1. IsFiniteSet(A) /\ Cardinality(A) = 0
  BY CountNat DEF Count
<1> HIDE DEF A
<1>2. A = {}
  BY <1>1, FS_EmptySet
<1>3. QED
  BY <1>2 DEF A, Clear

-----------------------------------------------------------------------------
(* One process, one run *)

\* This process has run task t.
Spent(t) == runs[t] > restarts

\* The ACK of t will reach the broker before the next PULL does.
AckAhead(t) ==
    \/ Leads(Tack(t), toBroker)
    \/ Clear(toBroker) /\ writer = "send" /\ sending = Tack(t)
    \/ /\ Clear(toBroker)
       /\ writer = "send" => sending.type # "PULL"
       /\ Leads(Tack(t), queue)

\* The broker will not answer a PULL with t, unless a refusal is ahead of that.
Settled(t) == lease[t] = "done" \/ Refused(toClient) \/ AckAhead(t)

OnceInv ==
    /\ AtMostOncePerProcess
    /\ \A t \in Task : Spent(t) => ~Among(t, batch)
    /\ running => \A t \in Task : Spent(t) => Guarded(t, toClient)
    /\ running /\ up => \A t \in Task : Spent(t) => Settled(t)

LEMMA QueueGrows ==
    ASSUME TypeOK, NEW e \in Out, queue' = Append(queue, e),
           UNCHANGED <<toBroker, writer, sending>>, NEW t \in Task, AckAhead(t)
    PROVE  AckAhead(t)'
<1>1. queue \in Seq(Out)
  BY DEF TypeOK
<1>2. Leads(Tack(t), queue) => Leads(Tack(t), queue')
  BY <1>1, LeadsAppend
<1>3. QED
  BY <1>2 DEF AckAhead

LEMMA AckMovesOn ==
    ASSUME TypeOK, WriterGets \/ (WriterSends /\ up), NEW t \in Task, AckAhead(t)
    PROVE  AckAhead(t)'
<1>1. /\ queue \in Seq(Out) /\ toBroker \in Seq(Out) /\ sending \in Out
      /\ Tack(t).type # "PULL"
  BY PullTypes DEF TypeOK
<1>2. CASE WriterGets
  <2>1. /\ writer = "get" /\ writer' = "send" /\ toBroker' = toBroker
        /\ sending' = Head(queue) /\ queue' = Tail(queue)
    BY <1>2 DEF WriterGets, wire
  <2>2. CASE Leads(Tack(t), toBroker)
    BY <2>1, <2>2 DEF AckAhead
  <2>3. CASE Clear(toBroker) /\ Leads(Tack(t), queue)
    <3>1. Head(queue).type # "PULL" /\ (Head(queue) = Tack(t) \/ Leads(Tack(t), Tail(queue)))
      BY <1>1, <2>3, LeadsTail
    <3>2. QED
      BY <2>1, <2>3, <3>1 DEF AckAhead
  <2>4. QED
    BY <2>1, <2>2, <2>3 DEF AckAhead
<1>3. CASE WriterSends /\ up
  <2>1. writer = "send" /\ writer' = "get" /\ toBroker' = Append(toBroker, sending) /\ queue' = queue
    BY <1>3 DEF WriterSends
  <2>2. CASE Leads(Tack(t), toBroker)
    BY <1>1, <2>1, <2>2, LeadsAppend DEF AckAhead
  <2>3. CASE Clear(toBroker) /\ sending = Tack(t)
    BY <1>1, <2>1, <2>3, ClearAppend DEF AckAhead
  <2>4. CASE Clear(toBroker) /\ sending.type # "PULL" /\ Leads(Tack(t), queue)
    BY <1>1, <2>1, <2>4, ClearAppend DEF AckAhead
  <2>5. QED
    BY <2>1, <2>2, <2>3, <2>4 DEF AckAhead
<1>4. QED
  BY <1>2, <1>3

\* The broker reads the next message: not a PULL, while the ACK of t is ahead of it.
LEMMA BrokerReads ==
    ASSUME TypeOK, NEW y, NEW reply, Answer(y, reply), NEW t \in Task, AckAhead(t)
    PROVE  y # "PULL" /\ (Head(toBroker) = Tack(t) \/ AckAhead(t)')
<1>1. toBroker \in Seq(Out)
  BY DEF TypeOK
<1>2. /\ toBroker # <<>> /\ Head(toBroker).type = y /\ toBroker' = Tail(toBroker)
      /\ UNCHANGED <<queue, writer, sending>>
  BY DEF Answer, coroutines
<1>3. CASE Leads(Tack(t), toBroker)
  <2>1. Head(toBroker).type # "PULL"
        /\ (Head(toBroker) = Tack(t) \/ Leads(Tack(t), Tail(toBroker)))
    BY <1>1, <1>3, LeadsTail
  <2>2. QED
    BY <1>2, <2>1 DEF AckAhead
<1>4. CASE Clear(toBroker)
  <2>1. Head(toBroker).type # "PULL" /\ Clear(Tail(toBroker))
    BY <1>1, <1>2, <1>4, ClearTail
  <2>2. CASE Leads(Tack(t), toBroker)
    BY <1>3, <2>2
  <2>3. QED
    BY <1>2, <2>1, <2>2 DEF AckAhead
<1>5. QED
  BY <1>3, <1>4 DEF AckAhead

\* While a batch is worked off no PULL is on its way, and no other batch, so that the
\* ACKs of its tasks are ahead of the next one.
LEMMA NoPullAtWork ==
    ASSUME TypeOK, PullToken, running, reader = "job"
    PROVE  /\ Clear(queue) /\ Clear(toBroker) /\ Clear(toClient)
           /\ writer = "send" => sending.type # "PULL"
<1>1. queue \in Seq(Out) /\ toBroker \in Seq(Out) /\ toClient \in Seq(In)
  BY DEF TypeOK
<1>2. /\ Due \in {0, 1} /\ InHand \in {0, 1}
      /\ InQueue \in Nat /\ Upstream \in Nat /\ Downstream \in Nat
  BY TokensTyped DEF TokenTypes
<1>3. Tokens <= 1 /\ AtWork = 1
  BY TokenMeans DEF TokenMeaning, AtWork, Bit
<1>4. InQueue = 0 /\ Upstream = 0 /\ Downstream = 0 /\ InHand = 0
  BY <1>2, <1>3 DEF Tokens
<1>5. QED
  BY <1>1, <1>4, NoCountIsClear DEF InQueue, Upstream, Downstream, InHand, Bit

\* What happens to a step that runs no task.
LEMMA OnceKept ==
    ASSUME OnceInv, UNCHANGED <<runs, restarts>>,
           \A t \in Task : Spent(t) => ~Among(t, batch'),
           running' => \A t \in Task : Spent(t) => Guarded(t, toClient'),
           running' /\ up' => \A t \in Task : Spent(t) => Settled(t)'
    PROVE  OnceInv'
<1>1. \A t \in Task : Spent(t)' <=> Spent(t)
  BY DEF Spent
<1>2. QED
  BY <1>1 DEF OnceInv, AtMostOncePerProcess

\* Steps of the client, or around it, that take no message from the broker's side.
LEMMA OnceOutgoing ==
    ASSUME TypeOK, OnceInv, UNCHANGED <<runs, restarts, batch, toClient, lease>>,
           running' => running, up' => up,
           running' /\ up' => \A t \in Task : AckAhead(t) => AckAhead(t)'
    PROVE  OnceInv'
BY OnceKept DEF OnceInv, Settled

LEMMA OnceProcessJob == TypeOK /\ PullToken /\ OnceInv /\ ProcessJob => OnceInv'
<1> SUFFICES ASSUME TypeOK, PullToken, OnceInv, ProcessJob PROVE OnceInv'
  OBVIOUS
<1> DEFINE h == Head(batch)
<1>1. /\ queue \in Seq(Out) /\ toBroker \in Seq(Out)
      /\ batch \in Batches /\ batch # <<>> /\ reader = "job"
      /\ runs \in [Task -> Nat] /\ restarts \in Nat
  BY BrokerClientAssumption DEF TypeOK, ProcessJob
<1>2. h \in Task /\ Among(h, batch) /\ batch \in Seq(Task) /\ ~Among(h, Tail(batch))
      /\ \A t \in Task : Among(t, Tail(batch)) => Among(t, batch)
  <2>1. PICK n \in 0..MaxBatch :
           batch \in [1..n -> Task] /\ \A i, k \in 1..n : batch[i] = batch[k] => i = k
    BY <1>1 DEF Batches
  <2>2. batch \in Seq(Task) /\ Len(batch) = n
    BY <2>1, BrokerClientAssumption
  <2>3. /\ h \in Task /\ h = batch[1] /\ n \in Nat \ {0} /\ DOMAIN Tail(batch) = 1..(n - 1)
        /\ \A i \in 1..(n - 1) : Tail(batch)[i] = batch[i + 1]
    BY <1>1, <2>2, TailFacts
  <2>4. \A i \in 1..(n - 1) : Tail(batch)[i] # h
    BY <2>1, <2>3
  <2>5. QED
    BY <1>1, <2>2, <2>3, <2>4, AmongTail DEF Among
<1>3. /\ runs' = [runs EXCEPT ![h] = runs[h] + 1] /\ batch' = Tail(batch)
      /\ queue' = Append(queue, Tack(h))
      /\ UNCHANGED <<running, up, restarts, toClient, toBroker, lease, writer, sending>>
  BY DEF ProcessJob, wire
<1> HIDE DEF h
<1>4. ~Spent(h)
  BY <1>2 DEF OnceInv
<1>5. \A t \in Task : Spent(t)' => t = h \/ Spent(t)
  BY <1>1, <1>2, <1>3 DEF Spent
<1>6. AtMostOncePerProcess'
  <2>1. runs[h] <= restarts
    BY <1>1, <1>2, <1>4 DEF Spent
  <2>2. ASSUME NEW t \in Task PROVE runs'[t] <= 1 + restarts'
    BY <1>1, <1>2, <1>3, <2>1 DEF OnceInv, AtMostOncePerProcess
  <2>3. QED
    BY <2>2 DEF AtMostOncePerProcess
<1>7. \A t \in Task : Spent(t)' => ~Among(t, batch')
  BY <1>2, <1>3, <1>5 DEF OnceInv
<1>8. ASSUME running' PROVE \A t \in Task : Spent(t)' => Guarded(t, toClient')
  <2>1. Guarded(h, toClient)
    BY <1>1, <1>3, <1>8, NoPullAtWork DEF Clear, Guarded
  <2>2. QED
    BY <1>3, <1>5, <1>8, <2>1 DEF OnceInv
<1>9. ASSUME running', up', NEW t \in Task, Spent(t)' PROVE Settled(t)'
  <2>1. running /\ up
    BY <1>3, <1>9
  <2>2. CASE t = h
    <3>1. Clear(queue) /\ Clear(toBroker) /\ (writer = "send" => sending.type # "PULL")
      BY <1>1, <2>1, NoPullAtWork
    <3>2. Leads(Tack(h), Append(queue, Tack(h)))
      BY <1>1, <1>2, <3>1, Messages, PullTypes, ClearAppend
    <3>3. QED
      BY <1>3, <2>2, <3>1, <3>2 DEF Settled, AckAhead
  <2>3. CASE t # h
    <3>1. Settled(t)
      BY <1>5, <1>9, <2>1, <2>3 DEF OnceInv
    <3>2. AckAhead(t) => AckAhead(t)'
      BY <1>2, <1>3, Messages, QueueGrows
    <3>3. QED
      BY <1>3, <3>1, <3>2 DEF Settled
  <2>4. QED
    BY <2>2, <2>3
<1>10. QED
  BY <1>6, <1>7, <1>8, <1>9 DEF OnceInv

LEMMA OnceBadBatch == TypeOK /\ OnceInv /\ BadBatch => OnceInv'
<1> SUFFICES ASSUME TypeOK, OnceInv, BadBatch PROVE OnceInv'
  OBVIOUS
<1> DEFINE h == Head(batch)
<1>1. /\ batch \in Batches /\ batch # <<>>
      /\ runs \in [Task -> Nat] /\ restarts \in Nat
  BY BrokerClientAssumption DEF TypeOK, BadBatch
<1>2. h \in Task /\ Among(h, batch)
  <2>1. PICK n \in 0..MaxBatch : batch \in [1..n -> Task]
    BY <1>1 DEF Batches
  <2>2. batch \in Seq(Task)
    BY <2>1, BrokerClientAssumption
  <2>3. QED
    BY <1>1, <2>2, AmongTail
<1>3. /\ runs' = runs \/ runs' = [runs EXCEPT ![h] = runs[h] + 1]
      /\ batch' = <<>> /\ ~running' /\ restarts' = restarts
  BY DEF BadBatch, Close
<1> HIDE DEF h
<1>4. runs[h] <= restarts
  BY <1>1, <1>2 DEF OnceInv, Spent
<1>5. AtMostOncePerProcess'
  BY <1>1, <1>2, <1>3, <1>4 DEF OnceInv, AtMostOncePerProcess
<1>6. \A t \in Task : ~Among(t, batch')
  BY <1>3 DEF Among
<1>7. QED
  BY <1>3, <1>5, <1>6 DEF OnceInv

\* The broker's answers. A PULL hands out a spent task only behind a refusal; the
\* first ACK of a task is accepted, or its refusal is on its way.
LEMMA OnceAnswer ==
    ASSUME TypeOK, OnceInv, NEW y, NEW reply \in In, Answer(y, reply), UNCHANGED <<runs, restarts>>,
           \A t \in Task : reply.type = "PULL" /\ Among(t, reply.tasks) =>
               y = "PULL" /\ lease[t] # "done",
           \A t \in Task : lease[t] = "done" => lease'[t] = "done",
           \A t \in Task : Head(toBroker) = Tack(t) => lease'[t] = "done" \/ Refusal(reply)
    PROVE  OnceInv'
<1>1. toClient \in Seq(In) /\ up \in BOOLEAN
  BY DEF TypeOK
<1>2. /\ toClient' = IF up THEN Append(toClient, reply) ELSE toClient
      /\ UNCHANGED <<running, up, batch>>
  BY DEF Answer, coroutines
<1>3. ASSUME running', NEW t \in Task, Spent(t) PROVE Guarded(t, toClient')
  <2>1. Guarded(t, toClient) /\ (up => Settled(t))
    BY <1>2, <1>3 DEF OnceInv
  <2>2. CASE up
    <3>1. reply.type = "PULL" /\ Among(t, reply.tasks) => Refused(toClient)
      BY <2>1, <2>2, BrokerReads DEF Settled
    <3>2. Guarded(t, Append(toClient, reply))
      BY <1>1, <2>1, <3>1, GuardedAppend
    <3>3. QED
      BY <1>2, <2>2, <3>2
  <2>3. CASE ~up
    BY <1>2, <2>1, <2>3
  <2>4. QED
    BY <1>1, <2>2, <2>3
<1>4. ASSUME running', up', NEW t \in Task, Spent(t) PROVE Settled(t)'
  <2>1. Settled(t) /\ toClient' = Append(toClient, reply)
    BY <1>2, <1>4 DEF OnceInv
  <2>2. Refused(toClient') <=> Refused(toClient) \/ Refusal(reply)
    BY <1>1, <2>1, RefusedAppend
  <2>3. CASE AckAhead(t)
    BY <2>2, <2>3, BrokerReads DEF Settled
  <2>4. QED
    BY <2>1, <2>2, <2>3 DEF Settled
<1>5. \A t \in Task : Spent(t) => ~Among(t, batch')
  BY <1>2 DEF OnceInv
<1>6. QED
  BY <1>3, <1>4, <1>5, OnceKept

LEMMA OnceStep == TypeOK /\ PullToken /\ OnceInv /\ [Next]_vars => OnceInv'
<1> SUFFICES ASSUME TypeOK, PullToken, OnceInv, [Next]_vars PROVE OnceInv'
  OBVIOUS
<1>1. /\ queue \in Seq(Out) /\ toBroker \in Seq(Out) /\ toClient \in Seq(In)
      /\ batch \in Batches /\ sending \in Out
      /\ lease \in [Task -> {"new", "queued", "leased", "done"}]
  BY DEF TypeOK
<1>2. CASE PullLoop
  <2>1. \A t \in Task : AckAhead(t) => AckAhead(t)'
    BY <1>2, Messages, QueueGrows DEF PullLoop, wire
  <2>2. QED
    BY <1>2, <2>1, OnceOutgoing DEF PullLoop, wire
<1>3. CASE HeartbeatLoop
  <2>1. \A t \in Task : AckAhead(t) => AckAhead(t)'
    <3>1. CASE queue' = Append(queue, Beat)
      BY <1>3, <3>1, Messages, QueueGrows DEF HeartbeatLoop, wire
    <3>2. CASE queue' = queue
      BY <1>3, <3>2 DEF HeartbeatLoop, wire, AckAhead
    <3>3. QED
      BY <1>3, <3>1, <3>2 DEF HeartbeatLoop
  <2>2. QED
    BY <1>3, <2>1, OnceOutgoing DEF HeartbeatLoop, wire
<1>4. CASE WriterGets \/ WriterSends
  <2>1. up => \A t \in Task : AckAhead(t) => AckAhead(t)'
    BY <1>4, AckMovesOn
  <2>2. UNCHANGED <<runs, restarts, batch, toClient, lease, running, up>>
    BY <1>4 DEF WriterGets, WriterSends, wire
  <2>3. QED
    BY <2>1, <2>2, OnceOutgoing
<1>5. CASE WriterFails \/ ReaderFails
  BY <1>5, OnceOutgoing DEF WriterFails, ReaderFails, Close
<1>6. CASE ReceiveReply
  <2>1. /\ running /\ toClient # <<>> /\ toClient' = Tail(toClient)
        /\ UNCHANGED <<queue, writer, batch, sending, toBroker, lease, runs, restarts>>
        /\ \/ Head(toClient).ok /\ UNCHANGED up
           \/ ~running'
    BY <1>6 DEF ReceiveReply, Close
  <2>2. CASE ~running'
    BY <2>1, <2>2, OnceKept DEF OnceInv
  <2>3. CASE Head(toClient).ok /\ UNCHANGED up
    <3>1. ~Refusal(Head(toClient))
      BY <2>3 DEF Refusal
    <3>2. \A t \in Task : Spent(t) =>
             Guarded(t, toClient') /\ (Refused(toClient) => Refused(toClient'))
      BY <1>1, <2>1, <3>1, GuardedTail DEF OnceInv
    <3>3. \A t \in Task : AckAhead(t)' <=> AckAhead(t)
      BY <2>1 DEF AckAhead
    <3>4. running' /\ up' => \A t \in Task : Spent(t) => Settled(t)'
      BY <2>1, <2>3, <3>2, <3>3 DEF OnceInv, Settled
    <3>5. QED
      BY <2>1, <3>2, <3>4, OnceKept DEF OnceInv
  <2>4. QED
    BY <2>1, <2>2, <2>3
<1>7. CASE ReceiveBatch
  <2>1. /\ running /\ toClient # <<>> /\ toClient' = Tail(toClient)
        /\ Head(toClient).type = "PULL" /\ batch' = Head(toClient).tasks
        /\ UNCHANGED <<running, up, queue, writer, sending, toBroker, lease, runs, restarts>>
    BY <1>7 DEF ReceiveBatch
  <2>2. ~Refusal(Head(toClient))
    BY <2>1 DEF Refusal
  <2>3. \A t \in Task : Spent(t) =>
           /\ Guarded(t, toClient') /\ (Refused(toClient) => Refused(toClient'))
           /\ ~Among(t, batch')
    BY <1>1, <2>1, <2>2, GuardedTail DEF OnceInv
  <2>4. \A t \in Task : AckAhead(t)' <=> AckAhead(t)
    BY <2>1 DEF AckAhead
  <2>5. running' /\ up' => \A t \in Task : Spent(t) => Settled(t)'
    BY <2>1, <2>3, <2>4 DEF OnceInv, Settled
  <2>6. QED
    BY <2>1, <2>3, <2>5, OnceKept DEF OnceInv
<1>8. CASE BrokerAnswersPull
  <2>1. PICK s \in Batches :
           /\ \A i \in DOMAIN s : lease[s[i]] = "queued"
           /\ Answer("PULL", Batch(s))
           /\ lease' = [t \in Task |-> IF \E i \in DOMAIN s : s[i] = t THEN "leased" ELSE lease[t]]
    BY <1>8 DEF BrokerAnswersPull
  <2>2. Batch(s) \in In /\ Batch(s).tasks = s /\ Batch(s).type = "PULL"
    BY Answers DEF Batch
  <2>3. \A t \in Task : Among(t, s) => lease[t] = "queued"
    BY <2>1 DEF Among
  <2>4. \A t \in Task : lease[t] = "done" => lease'[t] = "done"
    BY <1>1, <2>1
  <2>5. \A t \in Task : Head(toBroker) # Tack(t)
    BY <2>1, PullTypes DEF Answer
  <2>6. UNCHANGED <<runs, restarts>>
    BY <2>1 DEF Answer
  <2>7. QED
    BY <2>1, <2>2, <2>3, <2>4, <2>5, <2>6, OnceAnswer
<1>9. CASE BrokerAnswersBeat
  <2>1. PICK ok \in BOOLEAN : Answer("HEARTBEAT", Reply("HEARTBEAT", ok)) /\ lease' = lease
    BY <1>9 DEF BrokerAnswersBeat
  <2>2. Reply("HEARTBEAT", ok) \in In /\ Reply("HEARTBEAT", ok).type # "PULL"
    BY Answers, PullTypes
  <2>3. \A t \in Task : Head(toBroker) # Tack(t)
    BY <2>1 DEF Answer, Tack
  <2>4. UNCHANGED <<runs, restarts>>
    BY <2>1 DEF Answer
  <2>5. QED
    BY <2>1, <2>2, <2>3, <2>4, OnceAnswer
<1>10. CASE BrokerAnswersTack
  <2> DEFINE u == Head(toBroker).task
             ok == lease[u] = "leased"
  <2>1. /\ Answer("TACK", Reply("TACK", ok))
        /\ lease' = IF ok THEN [lease EXCEPT ![u] = "done"] ELSE lease
    BY <1>10 DEF BrokerAnswersTack
  <2>2. toBroker # <<>> /\ Head(toBroker).type = "TACK" /\ UNCHANGED <<runs, restarts>>
    BY <2>1 DEF Answer
  <2>3. u \in Task /\ Head(toBroker) = Tack(u)
    BY <1>1, <2>2, TailFacts, Messages
  <2>4. ok \in BOOLEAN
    OBVIOUS
  <2>5. ok => lease'[u] = "done"
    BY <1>1, <2>1, <2>3
  <2>6. \A t \in Task : lease[t] = "done" => lease'[t] = "done"
    BY <1>1, <2>1, <2>3
  <2> HIDE DEF ok, u
  <2>7. Reply("TACK", ok) \in In /\ Reply("TACK", ok).type # "PULL"
    BY <2>4, Answers, PullTypes
  <2>8. ~ok => Refusal(Reply("TACK", ok))
    BY <2>7 DEF Refusal, Reply
  <2>9. \A t \in Task : Head(toBroker) = Tack(t) => lease'[t] = "done" \/ Refusal(Reply("TACK", ok))
    BY <2>3, <2>5, <2>8, Messages
  <2>10. QED
    BY <2>1, <2>2, <2>6, <2>7, <2>9, OnceAnswer
<1>11. ASSUME NEW t \in Task, Push(t) \/ LeaseExpires(t) PROVE OnceInv'
  <2>1. UNCHANGED <<running, up, queue, writer, sending, toBroker, toClient, batch, runs, restarts>>
    BY <1>11 DEF Push, LeaseExpires, coroutines, wire
  <2>2. \A u \in Task : lease[u] = "done" => lease'[u] = "done"
    BY <1>1, <1>11 DEF Push, LeaseExpires
  <2>3. \A u \in Task : Settled(u) => Settled(u)'
    BY <2>1, <2>2 DEF Settled, AckAhead
  <2>4. QED
    BY <2>1, <2>3, OnceKept DEF OnceInv
<1>12. CASE ConnectionBreaks
  <2>1. PICK n \in 0..Len(toClient) : toClient' = SubSeq(toClient, 1, n)
    BY <1>12 DEF ConnectionBreaks
  <2>2. \A t \in Task : Guarded(t, toClient) => Guarded(t, toClient')
    BY <1>1, <2>1, GuardedPrefix
  <2>3. ~up' /\ UNCHANGED <<running, batch, runs, restarts>>
    BY <1>12 DEF ConnectionBreaks, coroutines
  <2>4. QED
    BY <2>2, <2>3, OnceKept DEF OnceInv
<1>13. CASE Restart
  <2>1. runs' = runs /\ restarts' = restarts + 1
    BY <1>13 DEF Restart
  <2>2. \A t \in Task : runs[t] \in Nat /\ restarts \in Nat /\ runs[t] <= 1 + restarts
    BY BrokerClientAssumption DEF TypeOK, OnceInv, AtMostOncePerProcess
  <2>3. \A t \in Task : ~Spent(t)'
    BY <2>1, <2>2 DEF Spent
  <2>4. AtMostOncePerProcess'
    BY <2>1, <2>2 DEF AtMostOncePerProcess
  <2>5. QED
    BY <2>3, <2>4 DEF OnceInv
<1>14. CASE UNCHANGED vars
  BY <1>14, OnceOutgoing DEF vars, coroutines, wire, AckAhead
<1>15. QED
  BY <1>2, <1>3, <1>4, <1>5, <1>6, <1>7, <1>8, <1>9, <1>10, <1>11, <1>12, <1>13, <1>14,
     OnceProcessJob, OnceBadBatch DEF Next, Client, Broker

\* One process runs a task at most once, although the broker may give up on it and
\* hand it out again: its ACK goes out ahead of the next PULL, and when the broker no
\* longer takes it, the refusal is read, and ends the process, before the batch is.
THEOREM RunsOnce == Spec => []AtMostOncePerProcess
<1>1. Init => OnceInv
  <2> SUFFICES ASSUME Init PROVE OnceInv
    OBVIOUS
  <2>1. \A t \in Task : runs[t] = 0 /\ restarts = 0
    BY DEF Init
  <2>2. \A t \in Task : ~Spent(t)
    BY <2>1 DEF Spent
  <2>3. QED
    BY <2>1, <2>2 DEF OnceInv, AtMostOncePerProcess
<1>2. OnceInv => AtMostOncePerProcess
  BY DEF OnceInv
<1>3. QED
  BY <1>1, <1>2, OnceStep, TypeCorrect, OneToken, PTL DEF Spec
=============================================================================
