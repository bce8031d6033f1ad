------------------------- MODULE MCLibraryChapters -------------------------
(***************************************************************************)
(* Instances of LibraryChapters for TLC.                                   *)
(***************************************************************************)
EXTENDS LibraryChapters, TLC

CONSTANTS c1, c2      \* chapters
CONSTANTS r1          \* chapter 1 after a rotation of the source's ids
CONSTANTS local1      \* a file of chapter 1

Numbers == [k \in {c1, c2, r1, local1} |-> IF k = c2 THEN 2 ELSE 1]
=============================================================================
