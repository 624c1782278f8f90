------------------------------ MODULE Archive ------------------------------
(***************************************************************************)
(* Exporter.BuildZip: the archive of a job, made from the crawlers' tables *)
(* (Crawler) some time after the job was announced, while other jobs go on *)
(* writing.                                                                *)
(*                                                                         *)
(* The archive is the set of its pages. Their order, their texts and the   *)
(* rows of a page that is stored more than once are left out. So are the   *)
(* links of the manifest: they are joined on links.sourceUrl_id, which     *)
(* nothing in the sources fills in.                                        *)
(***************************************************************************)
EXTENDS Crawler

VARIABLES
    fetched,     \* fetched[j]: the pages of j's archive
    built        \* built[j]: its query has run

archive == <<fetched, built>>
archiveVars == <<vars, archive>>

Urls(pages) == {p.url : p \in pages}

ArchiveInit ==
    /\ Init
    /\ fetched = [j \in Job |-> {}]
    /\ built = [j \in Job |-> FALSE]

\* The announcement starts BuildZip.
BuildZip(j) ==
    /\ told[j] > 0 /\ ~built[j]
    /\ fetched' = [fetched EXCEPT ![j] = PagesOf(j)]
    /\ built' = [built EXCEPT ![j] = TRUE]
    /\ UNCHANGED vars

ArchiveNext ==
    \/ Next /\ UNCHANGED archive
    \/ \E j \in Job : BuildZip(j)

ArchiveSpec == ArchiveInit /\ [][ArchiveNext]_archiveVars

-----------------------------------------------------------------------------
(* Properties *)

\* The archive has every page within the depth the user asked for, whenever it is
\* made and whatever jobs run meanwhile.
ArchiveWhole ==
    \A j \in Job : built[j] =>
        \A k \in 0..(Depth[j] - 1) : Hops(RootOf(j), k) \subseteq Urls(fetched[j])
=============================================================================
