------------------------------ MODULE MCModem ------------------------------
(* Every build, either module, any settings in its memory; the limits are  *)
(* the code's own.                                                         *)
EXTENDS Modem
=============================================================================
