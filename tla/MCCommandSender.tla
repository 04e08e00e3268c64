-------------------------- MODULE MCCommandSender --------------------------
(* Instances of CommandSender for TLC: movement buttons and a CHECK.       *)
EXTENDS CommandSender

CONSTANTS move, down, check, ch1, ch2

MCCommands == {move, check}
MCButtons == {move}
MCPacketsOf == [c \in MCCommands |-> IF c = move THEN 2 ELSE 1]

(* Two movement buttons, for the commands of a group.                      *)
MCMoves == {move, down}
MCMovesPackets == [c \in MCMoves |-> 2]

MCChannels == {ch1, ch2}
=============================================================================
