------------------------- MODULE MCSourceCatalogue -------------------------
(***************************************************************************)
(* Instances of SourceCatalogue for TLC.                                   *)
(***************************************************************************)
EXTENDS SourceCatalogue

CONSTANTS n1, l1, l2, l3, h1, h2, h3, sub2

\* The first pack moves the native connector to a site below that of a legacy
\* one, the second one moves it on.
Moves == [v \in Version |-> [n \in Native |-> CASE v = 1 -> sub2 [] v = 2 -> h3 [] OTHER -> h1]]

Sites == [l \in Legacy |-> CASE l = l1 -> h1 [] l = l2 -> h2 [] l = l3 -> NoHost [] OTHER -> h3]

Same == {<<h, h>> : h \in Host} \cup {<<h2, sub2>>, <<sub2, h2>>}
=============================================================================
