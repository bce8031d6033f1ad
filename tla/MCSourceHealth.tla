--------------------------- MODULE MCSourceHealth ---------------------------
(***************************************************************************)
(* Instances of SourceHealth for TLC.                                      *)
(***************************************************************************)
EXTENDS SourceHealth

CONSTANTS a, b

Ladder == [n \in 1..Rungs |-> n]
=============================================================================
