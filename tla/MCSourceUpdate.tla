--------------------------- MODULE MCSourceUpdate ---------------------------
(***************************************************************************)
(* Instances of SourceUpdate for TLC.                                      *)
(***************************************************************************)
EXTENDS SourceUpdate

CONSTANTS i1, i2, i3, c1, c2, c3, f1, f2, p

Bundles == [i \in Image |-> {f1, p}]
Pins == [i \in Image |-> CASE i = i1 -> c1 [] i = i2 -> c2 [] i = i3 -> c3]

\* The second commit has a connector more and no longer the patched one, the
\* third one is suspect.
Checkouts == [c \in Commit |-> CASE c = c1 -> {f1, p} [] c = c2 -> {f1, f2} [] c = c3 -> {f2}]
=============================================================================
