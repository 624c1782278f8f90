----------------------------- MODULE MCArchive -----------------------------
(* Instances of Archive for TLC: those of MCCrawler with exports. *)
EXTENDS Archive, MCCrawler

CONSTANTS j3, j4

\* Three requests for one page: j3 crawls it, two others find it in the database.
\* The fourth is for a page that j3 has met, and nothing beyond.
MCFourJobs == {j1, j2, j3, j4}
MCFourTask == 1..10
MCFourOwner ==
    [t \in MCFourTask |-> CASE t = 1 -> j1 [] t = 2 -> j2 [] t = 3 -> j4 [] OTHER -> j3]
MCFourRoot == [j \in MCFourJobs |-> IF j = j4 THEN A ELSE R]
MCFourDepth == j1 :> 2 @@ j2 :> 3 @@ j3 :> 3 @@ j4 :> 1

\* No request is deeper than an earlier one.
Deepening ==
    \E i, j \in Job : Depth[i] < Depth[j] /\ Count!Submitted(i) /\ ~Count!Submitted(j)

DeeperFirst == ArchiveInit /\ [][ArchiveNext /\ ~Deepening']_archiveVars
=============================================================================
