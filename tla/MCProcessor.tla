---------------------------- MODULE MCProcessor ----------------------------
(* Two task slots, two measurements and a report; two entries in the      *)
(* action list, so that it is full of completed actions within a wake-up. *)
EXTENDS Processor
=============================================================================
