----------------------------- MODULE MCRadioHub -----------------------------
(* Instances of RadioHub for TLC: two or three devices, one button.        *)
EXTENDS HubChannel

CONSTANTS move, a, b, d

OneDevice == <<a>>
TwoDevices == <<a, b>>
ThreeDevices == <<a, b, d>>
MCCommands == {move}
OnePacket == [c \in MCCommands |-> 1]
TwoPackets == [c \in MCCommands |-> 2]
=============================================================================
