------------------------------- MODULE Chunks -------------------------------
(***************************************************************************)
(* How an archive is cut into frames and put together again: the           *)
(* arithmetic of StreamZipOverWebSocket and of the client's EXPORT_END. A  *)
(* byte is its position in the archive.                                    *)
(***************************************************************************)
EXTENDS Integers, Sequences

CONSTANT ChunkSize

ASSUME ChunkAssumption == ChunkSize \in Nat \ {0}

\* An archive of n bytes.
Zip(n) == [b \in 1..n |-> b]

TotalChunks(n) ==
    LET t == (n + ChunkSize - 1) \div ChunkSize IN IF t = 0 THEN 1 ELSE t

Start(i) == i * ChunkSize
End(n, i) == IF Start(i) + ChunkSize > n THEN n ELSE Start(i) + ChunkSize

\* The bytes start, ..., end - 1, counted from 0.
Chunk(n, i) == SubSeq(Zip(n), Start(i) + 1, End(n, i))

FrameCount(n) == TotalChunks(n) + 2

\* Frame k of an archive of n bytes: EXPORT_START, the chunks, EXPORT_END.
Frame(n, k) ==
    IF k = 1 THEN [kind |-> "START", total |-> TotalChunks(n)]
    ELSE IF k = FrameCount(n) THEN [kind |-> "END"]
    ELSE [kind |-> "CHUNK", index |-> k - 2, payload |-> Chunk(n, k - 2)]

NoChunks == [i \in {} |-> <<>>]

\* The chunks there are, in the order of their indices.
Assembled(ch, total) ==
    LET upTo[i \in 0..total] ==
            IF i = 0 THEN <<>>
            ELSE upTo[i - 1] \o (IF i - 1 \in DOMAIN ch THEN ch[i - 1] ELSE <<>>)
    IN  upTo[total]
=============================================================================
