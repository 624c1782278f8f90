------------------------------ MODULE WsClient ------------------------------
(***************************************************************************)
(* The client's connection: sendLoop, listener, and between them and the   *)
(* UI the channels SendChan (no buffer) and LogChan. Each submission is a  *)
(* goroutine that waits to hand its job to sendLoop.                       *)
(*                                                                         *)
(* A goroutine can receive from a channel without a buffer only when it is *)
(* parked in its select, which takes a step of its own ("top" to           *)
(* "parked"): the listener's quitch, sent without blocking, is lost on a   *)
(* sendLoop that is not there yet.                                         *)
(***************************************************************************)
EXTENDS Integers, FiniteSets

CONSTANTS Submission,    \* the jobs a user submits
          NoSubmission,
          Capacity,      \* of LogChan
          Events         \* bound: the messages of the server

ASSUME WsClientAssumption ==
    NoSubmission \notin Submission /\ Capacity \in Nat \ {0} /\ Events \in Nat

VARIABLES
    up,          \* the connection stands
    cancelled,   \* ctx is
    sender,      \* sendLoop: "top", "parked", "write", "shutdown", "done"
    payload,     \* what it writes
    listener,    \* "read", "put", "quit", "cancel", "done"
    shown,       \* the submissions the log panel calls submitted
    waiting,     \* those whose goroutine waits at SendChan
    sent,        \* those that were written to the connection
    read,        \* how many messages the listener has read,
    logChan,     \* how many are in LogChan,
    handled      \* and how many the UI has handled

vars == <<up, cancelled, sender, payload, listener, shown, waiting, sent, read, logChan, handled>>
network == <<up, cancelled>>
sending == <<sender, payload, sent>>
receiving == <<listener, read, logChan, handled>>

TypeOK ==
    /\ up \in BOOLEAN /\ cancelled \in BOOLEAN
    /\ sender \in {"top", "parked", "write", "shutdown", "done"}
    /\ payload \in Submission \cup {NoSubmission} /\ (payload # NoSubmission <=> sender = "write")
    /\ listener \in {"read", "put", "quit", "cancel", "done"}
    /\ waiting \subseteq shown /\ sent \subseteq shown \ waiting /\ shown \subseteq Submission
    /\ read \in Nat /\ logChan \in 0..Capacity /\ handled \in Nat
    /\ read = handled + logChan + (IF listener = "put" THEN 1 ELSE 0)

Init ==
    /\ up = TRUE /\ cancelled = FALSE
    /\ sender = "top" /\ payload = NoSubmission /\ listener = "read"
    /\ shown = {} /\ waiting = {} /\ sent = {}
    /\ read = 0 /\ logChan = 0 /\ handled = 0

\* The server or the network ends the connection.
Disconnect ==
    /\ up /\ up' = FALSE
    /\ UNCHANGED <<cancelled, sending, shown, waiting, receiving>>

-----------------------------------------------------------------------------
(* The UI *)

Submit(s) ==
    /\ s \notin shown
    /\ shown' = shown \cup {s} /\ waiting' = waiting \cup {s}
    /\ UNCHANGED <<network, sending, receiving>>

\* waitForServerEvent
HandleEvent ==
    /\ logChan > 0
    /\ logChan' = logChan - 1 /\ handled' = handled + 1
    /\ UNCHANGED <<network, sending, shown, waiting, listener, read>>

-----------------------------------------------------------------------------
(* sendLoop *)

Park ==
    /\ sender = "top" /\ waiting = {}
    /\ sender' = "parked"
    /\ UNCHANGED <<network, payload, sent, shown, waiting, receiving>>

\* Any of the goroutines that wait hands over its job.
TakePayload(s) ==
    /\ sender \in {"top", "parked"} /\ s \in waiting
    /\ sender' = "write" /\ payload' = s
    /\ waiting' = waiting \ {s}
    /\ UNCHANGED <<network, sent, shown, receiving>>

\* Mutant: the payload stays when Write fails.
WriteAndKeep ==
    /\ sender = "write"
    /\ \/ /\ up /\ ~cancelled
          /\ sent' = sent \cup {payload} /\ sender' = "top" /\ payload' = NoSubmission
       \/ (~up \/ cancelled) /\ sender' = "shutdown" /\ UNCHANGED <<payload, sent>>
    /\ UNCHANGED <<network, shown, waiting, receiving>>

\* A connection that is gone may still take what is written to it.
Write ==
    /\ sender = "write" /\ payload' = NoSubmission
    /\ \/ ~cancelled /\ sender' = "top" /\ sent' = IF up THEN sent \cup {payload} ELSE sent
       \/ (~up \/ cancelled) /\ sender' = "shutdown" /\ UNCHANGED sent
    /\ UNCHANGED <<network, shown, waiting, receiving>>

Shutdown ==
    /\ sender = "shutdown" /\ sender' = "done"
    /\ up' = FALSE /\ cancelled' = TRUE
    /\ UNCHANGED <<payload, sent, shown, waiting, receiving>>

-----------------------------------------------------------------------------
(* listener *)

Read ==
    /\ listener = "read"
    /\ \/ up /\ ~cancelled /\ read < Events /\ listener' = "put" /\ read' = read + 1
       \/ (~up \/ cancelled) /\ listener' = "quit" /\ UNCHANGED read
    /\ UNCHANGED <<network, sending, shown, waiting, logChan, handled>>

\* Mutant: a message that finds LogChan full is dropped.
PutOrDrop ==
    /\ listener = "put" /\ listener' = "read"
    /\ logChan' = IF logChan < Capacity THEN logChan + 1 ELSE logChan
    /\ UNCHANGED <<network, sending, shown, waiting, read, handled>>

Put ==
    /\ listener = "put" /\ logChan < Capacity
    /\ listener' = "read" /\ logChan' = logChan + 1
    /\ UNCHANGED <<network, sending, shown, waiting, read, handled>>

\* Mutant: quitch is sent and waited for.
QuitAndWait ==
    /\ listener = "quit" /\ sender = "parked"
    /\ sender' = "shutdown" /\ listener' = "cancel"
    /\ UNCHANGED <<network, payload, sent, shown, waiting, read, logChan, handled>>

\* quitch, if sendLoop is parked.
Quit ==
    /\ listener = "quit" /\ listener' = "cancel"
    /\ \/ sender = "parked" /\ sender' = "shutdown"
       \/ sender # "parked" /\ UNCHANGED sender
    /\ UNCHANGED <<network, payload, sent, shown, waiting, read, logChan, handled>>

Cancel ==
    /\ listener = "cancel" /\ listener' = "done"
    /\ cancelled' = TRUE
    /\ UNCHANGED <<up, sending, shown, waiting, read, logChan, handled>>

-----------------------------------------------------------------------------
SendLoop == Park \/ (\E s \in Submission : TakePayload(s)) \/ Write \/ Shutdown
Listener == Read \/ Put \/ Quit \/ Cancel

Next == Disconnect \/ (\E s \in Submission : Submit(s)) \/ HandleEvent \/ SendLoop \/ Listener

Spec == Init /\ [][Next]_vars

\* The goroutines and the UI run on; Write and Read return when the connection or
\* ctx ends.
FairSpec == Spec /\ WF_vars(SendLoop) /\ WF_vars(Listener) /\ WF_vars(HandleEvent)

-----------------------------------------------------------------------------
(* Properties *)

\* When the connection is gone both loops end, whichever notices first and whatever
\* the other is doing; a sendLoop that missed quitch is parked and ends at the next
\* submission.
LoopsEnd ==
    /\ (~up \/ cancelled) ~> (listener = "done" /\ sender \in {"parked", "done"})
    /\ (cancelled /\ waiting # {}) ~> (sender = "done")

\* No event that was read is lost, also when the connection ends before the UI has
\* come to it.
EventsHandled == \A n \in 1..Events : (read >= n) ~> (handled >= n)
=============================================================================
