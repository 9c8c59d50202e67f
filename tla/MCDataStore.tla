---------------------------- MODULE MCDataStore ----------------------------
(* Items of two and three words in a buffer of six: up to three items,       *)
(* wrapping, gaps at the end, and a full ring.                             *)
EXTENDS DataHooks

MCSize == 6
MCType == {"small", "large"}
MCWords == [t \in MCType |-> IF t = "small" THEN 1 ELSE 2]
MCKey == {1, 2}
=============================================================================
