---------------------------- MODULE MCReporting ----------------------------
(* Two items of one size, so that a new one can take exactly the place of  *)
(* the one just freed, or three of up to two sizes.                        *)
EXTENDS Reporting

MCSmall == {"small"}
MCBoth == {"small", "large"}
MCWords == [t \in Type |-> IF t = "small" THEN 1 ELSE 2]
=============================================================================
