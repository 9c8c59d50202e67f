----------------------------- MODULE MCDataRing -----------------------------
(* A ten-word buffer and items of two, three and five words, so that a    *)
(* block is refused at the end, at the start and in the gap, and the ring *)
(* fills exactly.                                                         *)
EXTENDS DataRing
MCSize == 10
MCType == {"small", "medium", "large"}
MCWords == [t \in MCType |-> CASE t = "small" -> 1 [] t = "medium" -> 2 [] OTHER -> 4]
=============================================================================
