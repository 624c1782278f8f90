------------------------------ MODULE Session ------------------------------
(***************************************************************************)
(* From the announcement of a crawl to the file on the user's disk: the    *)
(* server's log streams (LogStream) carry the frames of the archive        *)
(* (Export) to the client's UI, next to the lines of the log. The UI       *)
(* handles one event after the other: waitForServerEvent is issued again   *)
(* by each Update.                                                         *)
(***************************************************************************)
EXTENDS LogStream, Chunks

CONSTANTS ZipSize,      \* ZipSize[j]: the bytes of the archive of job j
          WriteFails    \* as in Export

ASSUME SessionAssumption ==
    /\ ZipSize \in [Job -> Nat \ {0}]
    /\ \A j \in Job : FrameCount(ZipSize[j]) = Frames
    /\ WriteFails \in BOOLEAN

VARIABLES seen,                    \* seen[c]: the events the UI of client c has handled
          chunks, totals, saved    \* as in Export

client == <<chunks, totals, saved>>
sessionVars == <<vars, seen, client>>

\* What SendToSubscriber was given and is through with, as far as the archive goes.
SentFrames(j) == IF to[ExportOf(j)] = NoConn THEN at[ExportOf(j)] ELSE at[ExportOf(j)] - 1

\* The frames of job j that its UI has not handled.
FramesUnderWay(j) ==
    LET c == Client[j]
        upTo[i \in seen[c]..Len(box[c])] ==
            IF i = seen[c] THEN <<>>
            ELSE upTo[i - 1] \o (IF box[c][i].stream = ExportOf(j)
                                 THEN <<Frame(ZipSize[j], box[c][i].n)>> ELSE <<>>)
    IN  upTo[Len(box[c])]

Archive == INSTANCE Export WITH
    MaxSize <- Frames * ChunkSize,
    Lossy <- TRUE,
    size <- ZipSize,
    next <- [j \in Job |-> SentFrames(j)],
    wire <- [j \in Job |-> FramesUnderWay(j)]

SessionInit ==
    /\ Init
    /\ seen = [c \in Conn |-> 0]
    /\ chunks = [j \in Job |-> NoChunks]
    /\ totals = [j \in Job |-> 0]
    /\ saved = [j \in Job |-> <<>>]

\* Mutant: the UI takes the newest event and forgets those before it.
UpdateNewest(c) ==
    LET msg == box[c][received[c]]
    IN  /\ seen[c] < received[c]
        /\ seen' = [seen EXCEPT ![c] = received[c]]
        /\ \/ msg.stream[2] = "log" /\ UNCHANGED client
           \/ /\ msg.stream[2] = "export"
              /\ Archive!OnFrame(msg.stream[1], Frame(ZipSize[msg.stream[1]], msg.n))
        /\ UNCHANGED vars

\* model.Update: a line goes to the log panel, a frame is collected.
Update(c) ==
    LET msg == box[c][seen[c] + 1]
    IN  /\ seen[c] < received[c]
        /\ seen' = [seen EXCEPT ![c] = @ + 1]
        /\ \/ msg.stream[2] = "log" /\ UNCHANGED client
           \/ /\ msg.stream[2] = "export"
              /\ Archive!OnFrame(msg.stream[1], Frame(ZipSize[msg.stream[1]], msg.n))
        /\ UNCHANGED vars

SessionNext ==
    \/ Next /\ UNCHANGED <<seen, client>>
    \/ \E c \in Conn : Update(c)

SessionSpec == SessionInit /\ [][SessionNext]_sessionVars

\* The crawl goes on, as JobCount shows (EventuallyCompleted).
FairSession ==
    /\ SessionSpec /\ Fairness
    /\ \A j \in Job : WF_vars(Publish(j))
    /\ \A c \in Conn : WF_sessionVars(Update(c))

-----------------------------------------------------------------------------
(* Properties *)

\* Seen from the archive, the server's channels are a wire that loses frames and
\* never reorders, duplicates or mixes up those of a job.
ExportSpec == Archive!Spec

\* "Export download complete!" is said of a whole archive only: a connection that
\* breaks, a second job on it or a failed build leave the user without a file and
\* not with a part of one.
SuccessIsWhole == Archive!SuccessIsWhole

\* A job whose announcement reaches its subscription ends as a file, unless the
\* client leaves or submits another job meanwhile, or the archive cannot be built.
FileArrives ==
    \A j \in Job :
        (\E i \in DOMAIN feed[j] : feed[j][i] = Logs) ~>
            \/ saved[j] # <<>>
            \/ exporter[j] = "ended" /\ at[ExportOf(j)] = 0
            \/ Client[j] \notin up
            \/ active[Client[j]] # j
=============================================================================
