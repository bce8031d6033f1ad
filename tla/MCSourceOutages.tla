--------------------------- MODULE MCSourceOutages ---------------------------
(***************************************************************************)
(* Instances of SourceOutages for TLC.                                     *)
(***************************************************************************)
EXTENDS SourceOutages

CONSTANTS e1, e2, j1, j2

SecondAdHoc == [j \in Job |-> IF j = j1 THEN e1 ELSE NoEntry]

\* One retry on the fast tier, then ever slower ones.
Waits == [n \in 0..RetryCap |-> n + 1]
=============================================================================
