------------------------------- MODULE Export -------------------------------
(***************************************************************************)
(* The archive of a job on its way to the user: StreamZipOverWebSocket     *)
(* cuts it into chunks, the client's UI puts them together and saves them. *)
(*                                                                         *)
(* In between is the server's log stream, which keeps the order of the     *)
(* frames of a job and may drop some (LogStream; Session composes the      *)
(* two).                                                                   *)
(***************************************************************************)
EXTENDS Chunks

CONSTANTS Job,
          MaxSize,     \* bound: the sizes of archives
          Lossy,       \* frames may be dropped
          WriteFails   \* the client may be unable to write the file

VARIABLES
    size,      \* size[j]: the bytes of the archive of job j; no zip is empty
    next,      \* next[j]: how many frames of it were sent
    wire,      \* wire[j]: the frames on their way
    chunks,    \* exportChunks[j]: the chunks received, by their index
    totals,    \* exportTotals[j]: their number, 0 if it is not known
    saved      \* saved[j]: the file written with "Export download complete!", or none

vars == <<size, next, wire, chunks, totals, saved>>
client == <<chunks, totals, saved>>

Init ==
    /\ size \in [Job -> 1..MaxSize]
    /\ next = [j \in Job |-> 0]
    /\ wire = [j \in Job |-> <<>>]
    /\ chunks = [j \in Job |-> NoChunks]
    /\ totals = [j \in Job |-> 0]
    /\ saved = [j \in Job |-> <<>>]

-----------------------------------------------------------------------------
\* StreamZipOverWebSocket sends its next frame.
SendFrame(j) ==
    /\ next[j] < FrameCount(size[j])
    /\ next' = [next EXCEPT ![j] = @ + 1]
    /\ \/ wire' = [wire EXCEPT ![j] = Append(@, Frame(size[j], next[j] + 1))]
       \/ Lossy /\ UNCHANGED wire
    /\ UNCHANGED <<size, client>>

\* model.Update on EXPORT_START: what was collected before is forgotten.
OnStart(j, frame) ==
    /\ frame.kind = "START"
    /\ chunks' = [chunks EXCEPT ![j] = NoChunks]
    /\ totals' = [totals EXCEPT ![j] = frame.total]
    /\ UNCHANGED saved

\* EXPORT_CHUNK.
OnChunk(j, frame) ==
    /\ frame.kind = "CHUNK"
    /\ chunks' = [chunks EXCEPT ![j] = [k \in DOMAIN @ \cup {frame.index} |->
                      IF k = frame.index THEN frame.payload ELSE @[k]]]
    /\ UNCHANGED <<totals, saved>>

\* EXPORT_END: what there is is saved and reported as a success, unless there is
\* nothing at all.
OnEnd(j, frame) ==
    /\ frame.kind = "END"
    /\ \/ /\ chunks[j] # NoChunks
          /\ \/ saved' = [saved EXCEPT ![j] = <<Assembled(chunks[j], totals[j])>>]
             \/ WriteFails /\ UNCHANGED saved
          /\ chunks' = [chunks EXCEPT ![j] = NoChunks]
          /\ totals' = [totals EXCEPT ![j] = 0]
       \/ chunks[j] = NoChunks /\ UNCHANGED client

OnFrame(j, frame) == OnStart(j, frame) \/ OnChunk(j, frame) \/ OnEnd(j, frame)

ReceiveFrame(j) ==
    /\ wire[j] # <<>>
    /\ wire' = [wire EXCEPT ![j] = Tail(@)]
    /\ OnFrame(j, Head(wire[j]))
    /\ UNCHANGED <<size, next>>

Next == \E j \in Job : SendFrame(j) \/ ReceiveFrame(j)

Spec == Init /\ [][Next]_vars

-----------------------------------------------------------------------------
(* Properties *)

\* "Export download complete!" is said of the whole archive, byte for byte: the
\* chunks cover it without gap or overlap and are put together in order.
SuccessIsWhole == \A j \in Job : saved[j] # <<>> => saved[j] = <<Zip(size[j])>>
=============================================================================
