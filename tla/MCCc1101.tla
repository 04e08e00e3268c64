------------------------------ MODULE MCCc1101 ------------------------------
(* The instance of Cc1101 for TLC: all constants are numbers in the cfg.   *)
EXTENDS Cc1101
=============================================================================
