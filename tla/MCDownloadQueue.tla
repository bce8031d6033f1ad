-------------------------- MODULE MCDownloadQueue --------------------------
(***************************************************************************)
(* Instances of DownloadQueue for TLC.                                     *)
(***************************************************************************)
EXTENDS DownloadQueue, TLC

CONSTANTS a, b            \* sources
CONSTANTS a1, a2, b1      \* rows

TwoSources == [j \in {a1, a2, b1} |-> IF j = b1 THEN b ELSE a]
OneSource == [j \in {a1, a2} |-> a]

\* Requests for one row, or for two.
SingleBatches == {<<a1>>, <<a2>>, <<b1>>}
SmallBatches == {<<a1>>, <<a2, b1>>}
PairBatches == {<<a1, a2>>, <<a2>>}

\* The two rows of source a are interchangeable when requests are single.
RowSymmetry == Permutations({a1, a2})
=============================================================================
