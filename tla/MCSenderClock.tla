--------------------------- MODULE MCSenderClock ---------------------------
(* Instances of SenderClock for TLC: a five-bit clock.                     *)
EXTENDS SenderClock

CONSTANTS move, stop

MCCommands == {move, stop}
MCPacketsOf == [c \in MCCommands |-> 2]
=============================================================================
