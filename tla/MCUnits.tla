------------------------------ MODULE MCUnits ------------------------------
(* Instances for TLC of the modules that share no state: a behaviour is    *)
(* one of CommandSender's clock, of the learn-in manager, of the lights,   *)
(* of the packets or of the SX1262 driver.                                 *)
EXTENDS SenderClock, LearnIn, LightDevice, Packet, Sx1262

CONSTANTS move, stop, a, b, c

MCCommands == {move, stop}
MCPacketsOf == [k \in MCCommands |-> 2]

MCLights == {a, b, c}
MCMembers == <<a, b, c>>
MCRemote == [l \in MCLights |-> IF l = c THEN 2 ELSE 1]
MCDimmable == {a, c}

MCPacket(type, counter, command, dests) ==
  [type |-> type, counter |-> counter, command |-> command, dests |-> dests, src |-> 1193046,
   dst |-> 10930960, channel |-> 5, type2 |-> 0, hop |-> 10, payload |-> <<0, 4>>]
MCPackets ==
  {MCPacket(type, counter, command, <<>>) :
     type \in COMMANDS \cup {BUTTON}, counter \in {1, 128, 255}, command \in {0, 32}}
  \cup {MCPacket(BUTTON, 77, 64, [k \in 1 .. n |-> k]) : n \in {2, 5, 20, 21, 35}}
MCLQI == <<200, 175>>

VARIABLE part

UnitsVars == <<part, vars, learnVars, lightVars, packetVars, sxVars>>

UnitsInit ==
  /\ part \in {"clock", "learn", "light", "packet", "radio"}
  /\ Init /\ LearnInit /\ LightInit /\ PacketInit /\ Sx1262Init

(* The clock is one: an idle sender sees the manager's time pass.          *)
Clocks == part = "clock" /\ Next
Learns == part = "learn" /\ LearnNext /\ (UNCHANGED vars \/ Tick)
Shines == part = "light" /\ LightNext
Transmits == part = "packet" /\ PacketNext
Listens == part = "radio" /\ Sx1262Next

managerVars == <<learn, requests, confirmed, misled, sessions>>

UnitsNext ==
  \/ Clocks /\ UNCHANGED <<part, managerVars, lightVars, packetVars, sxVars>>
  \/ Learns /\ UNCHANGED <<part, lightVars, packetVars, sxVars>>
  \/ Shines /\ UNCHANGED <<part, vars, managerVars, packetVars, sxVars>>
  \/ Transmits /\ UNCHANGED <<part, vars, managerVars, lightVars, sxVars>>
  \/ Listens /\ UNCHANGED <<part, vars, managerVars, lightVars, packetVars>>

UnitsSpec == UnitsInit /\ [][UnitsNext]_UnitsVars
=============================================================================
