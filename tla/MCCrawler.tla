----------------------------- MODULE MCCrawler -----------------------------
(***************************************************************************)
(* Instances of Crawler for TLC. Tasks are numbers; those of a job are     *)
(* used in ascending order.                                                *)
(***************************************************************************)
EXTENDS Crawler, TLC

CONSTANTS j1, j2, w1, w2, R, A, B, C, D, altR

MCHref == {R, A, B, C, D, altR}
MCPage == {R, A, B, C, D}

\* altR is another spelling of R, as a link back to the home page often is.
MCNorm == [h \in MCHref |-> IF h = altR THEN R ELSE h]

\* A diamond with ways back and a tail.
MCPlainWeb == R :> {A, B} @@ A :> {C} @@ B :> {A, C} @@ C :> {B, D} @@ D :> {}

\* B is one link away from R, and two.
MCShortcutWeb == R :> {A, B} @@ A :> {B} @@ B :> {C} @@ C :> {D} @@ D :> {}

\* A diamond, in which a page is found twice, with ways back.
MCDiamondWeb == R :> {A, B} @@ A :> {C, altR} @@ B :> {A, C} @@ C :> {B} @@ D :> {}

\* A small web, for the runs with failures.
MCSmallWeb == R :> {A, B} @@ A :> {altR} @@ B :> {} @@ C :> {} @@ D :> {}

MCOneJob == {j1}
MCOneTask == 1..12
MCOneOwner == [t \in MCOneTask |-> j1]
MCOneRoot == j1 :> R
MCOneDepth == j1 :> 4

\* Two jobs for the same page, one deeper than the other.
MCTwoJobs == {j1, j2}
MCTwoTask == 1..14
MCTwoOwner == [t \in MCTwoTask |-> IF t <= 7 THEN j1 ELSE j2]
MCTwoRoot == j1 :> R @@ j2 :> R
MCTwoDepth == j1 :> 2 @@ j2 :> 3

\* The second is for a page that the first meets, and nothing beyond.
MCMetTask == 1..5
MCMetOwner == [t \in MCMetTask |-> IF t = 1 THEN j2 ELSE j1]
MCMetRoot == j1 :> R @@ j2 :> A
MCMetDepth == j1 :> 3 @@ j2 :> 1

\* As many tasks as the diamond needs for each.
MCPairTask == 1..10
MCPairOwner == [t \in MCPairTask |-> IF t <= 3 THEN j1 ELSE j2]

\* The user of the second writes the home page in its other spelling.
MCSpeltRoot == j1 :> R @@ j2 :> altR
=============================================================================
