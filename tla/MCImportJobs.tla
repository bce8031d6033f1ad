---------------------------- MODULE MCImportJobs ----------------------------
(***************************************************************************)
(* Instances of ImportJobs for TLC.                                        *)
(***************************************************************************)
EXTENDS ImportJobs

CONSTANTS m1, m2, j1, j2, p1, p2, title

\* The first import asks, the second one is unattended.
Unattended == [j \in Job |-> IF j = j1 THEN "none" ELSE "all"]

\* The folder of the first may be unmounted, the other one has a series of it.
Folders == [j \in Job |-> IF j = j1 THEN {{}, Path} ELSE {{p2}}]

\* Two sources carry the same series.
OneTitle == [m \in Manga |-> title]

\* One is found for sure, the other to be reviewed.
OneHit == [p \in Path |-> IF p = p1 THEN {<<"auto", m1>>} ELSE {<<"review", m2>>}]
=============================================================================
