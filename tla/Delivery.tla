------------------------------ MODULE Delivery ------------------------------
(***************************************************************************)
(* What a client may rely on: each stream of messages (the log of a job,   *)
(* the frames of its export) belongs to one connection. That connection    *)
(* gets some of its messages, in the order they were sent, each once; no   *)
(* other connection gets any. Nothing is promised of messages that are     *)
(* lost. Module LogStream, the server's code, is shown to implement it.    *)
(***************************************************************************)
EXTENDS Integers, Sequences

CONSTANTS Conn, Stream,
          Reader       \* Reader[s]: the connection that asked for stream s

VARIABLES sent,        \* sent[s]: how many messages of stream s were sent
          got          \* got[c]: what connection c received

vars == <<sent, got>>

Init == /\ sent = [s \in Stream |-> 0]
        /\ got = [c \in Conn |-> <<>>]

Send(s) == /\ sent' = [sent EXCEPT ![s] = @ + 1]
           /\ UNCHANGED got

\* Message n of stream s, one that was sent, arrives; none of s from n on did before.
Deliver(s, n) ==
    /\ \A i \in DOMAIN got[Reader[s]] :
          got[Reader[s]][i].stream = s => got[Reader[s]][i].n < n
    /\ got' = [got EXCEPT ![Reader[s]] = Append(@, [stream |-> s, n |-> n])]
    /\ UNCHANGED sent

Next == \E s \in Stream : Send(s) \/ \E n \in 1..sent[s] : Deliver(s, n)

Spec == Init /\ [][Next]_vars
=============================================================================
