---------------------------- MODULE LightDevice ----------------------------
(***************************************************************************)
(* The lights of the registry (components/elero/device_registry.cpp): the  *)
(* commands of one light, loop_light_, the status reports, and the group   *)
(* commands, which go out through the queue of the first light of each     *)
(* remote.  The state machine is LightSM's.                                *)
(*                                                                         *)
(* A sender is its queue and the group destinations stored beside it;      *)
(* packets, retries and cancellation are CommandSender's subject.  A       *)
(* command leaves the queue when it has been transmitted or given up.      *)
(***************************************************************************)
EXTENDS LightSM, Sequences, FiniteSets, SequencesExt

CONSTANTS
  Lights,    \* the members of the saved group, all of them lights
  LightMembers, \* the same, in the order of the group's record
  Remote,    \* Remote[l]: config.src_address
  Dimmable,  \* the lights with dim_duration_ms > 0
  LIGHT_QUEUE, \* packet::limits::MAX_COMMAND_QUEUE
  MaxOrders  \* bound on what comes from outside: commands and reports

Orders == {"UP", "DOWN", "STOP", "CHECK"}
LightButtons == {"UP", "DOWN", "STOP", "RELEASE"}
LightCommands == LightButtons \cup {"CHECK"}

ASSUME LightsAssumption ==
  /\ LightMembers \in Seq(Lights) /\ Lights = {LightMembers[k] : k \in DOMAIN LightMembers}
  /\ \A j, k \in DOMAIN LightMembers : LightMembers[j] = LightMembers[k] => j = k
  /\ Dimmable \subseteq Lights /\ LIGHT_QUEUE \in Nat \ {0} /\ MaxOrders \in Nat

VARIABLES
  house,  \* what the registry holds of each light, and two histories: "heard",
          \* the last button a light received, and "excused"
  orders  \* what is left of MaxOrders

lightVars == <<house, orders>>

(* One light: its state, its queue, the group destinations in its sender.  *)
Fresh == [state |-> LightOff, queue |-> <<>>, dests |-> {}, heard |-> "none", excused |-> FALSE]

LightInit == house = [l \in Lights |-> Fresh] /\ orders = MaxOrders

----------------------------------------------------------------------------
(* enqueue_or_warn_                                                        *)
Accepts(q, cmd) == (q # <<>> /\ q[Len(q)] = cmd) \/ Len(q) < LIGHT_QUEUE
Queued(q, cmd) ==
  IF (q # <<>> /\ q[Len(q)] = cmd) \/ Len(q) >= LIGHT_QUEUE THEN q ELSE Append(q, cmd)

(* A group command that is still to be sent involves l: its order relative *)
(* to what l's own queue holds is open.                                    *)
Entangled(h, l) == h[l].dests # {} \/ \E k \in Lights : l \in h[k].dests

Told(h, l, state, cmd) ==
  [h EXCEPT ![l] =
     [h[l] EXCEPT !.state = state, !.queue = Queued(h[l].queue, cmd),
                  !.excused = h[l].excused \/ ~Accepts(h[l].queue, cmd) \/ Entangled(h, l)]]

(* request_check: the poll timer is a cover's.                             *)
Checked(h, l) == [h EXCEPT ![l].queue = Queued(@, "CHECK")]

(* The light is switched: what was wrong with its estimate is over, unless *)
(* the command is lost or overtaken.                                       *)
SwitchedOff(h, l) ==
  [k \in Lights |->
     IF k = l THEN [h[l] EXCEPT !.state = OnTurnOff, !.queue = <<"DOWN">>,
                                !.excused = Entangled(h, l)]
     ELSE [h[k] EXCEPT !.excused = h[k].excused \/ k \in h[l].dests]]

SwitchedOn(h, l) ==
  [h EXCEPT ![l] =
     [h[l] EXCEPT !.state = OnTurnOn, !.queue = Queued(h[l].queue, "UP"),
                  !.excused = ~Accepts(h[l].queue, "UP") \/ Entangled(h, l)]]

(* command_light; STOP and other codes leave the state machine alone.      *)
Commanded(h, l, cmd) ==
  CASE cmd = "CHECK" -> Checked(h, l)
    [] cmd = "DOWN"  -> SwitchedOff(h, l)
    [] cmd = "UP"    -> SwitchedOn(h, l)
    [] OTHER -> [h EXCEPT ![l] = [h[l] EXCEPT !.queue = Queued(h[l].queue, cmd), !.excused = TRUE]]

(* set_light_brightness.  Two requests leave the light where it should not *)
(* be: a glimmer switches the estimate off and sends nothing, and a        *)
(* request for the present brightness sends UP without a RELEASE after it. *)
Brightened(h, l, b) ==
  LET next == OnSetBrightness(h[l].state, b, TRUE) IN
  CASE b = 0 -> SwitchedOff(h, l)
    [] b # 0 /\ l \notin Dimmable -> SwitchedOn(h, l)
    [] b # 0 /\ l \in Dimmable /\ next.is = "DimmingUp" -> Told(h, l, next, "UP")
    [] b # 0 /\ l \in Dimmable /\ next.is = "DimmingDown" -> Told(h, l, next, "DOWN")
    [] b # 0 /\ l \in Dimmable /\ next.is = "On" ->
         [Told(h, l, next, "UP") EXCEPT ![l].excused = TRUE]
    [] b # 0 /\ l \in Dimmable /\ next.is = "Off" ->
         [h EXCEPT ![l] = [h[l] EXCEPT !.state = next, !.excused = TRUE]]

----------------------------------------------------------------------------
(* command_group for the lights G of one remote.  The command waits in the *)
(* lead's queue, behind what is there, and the destinations are stored in  *)
(* its sender; the states of all members follow at once.                   *)
GroupMoves(h, G, cmd) ==
  LET quiet == \A k \in G : h[k].queue = <<>> /\ ~Entangled(h, k)
      state(k) == CASE cmd = "DOWN" -> OnTurnOff
                    [] cmd = "UP"   -> OnTurnOn
                    [] OTHER        -> h[k].state
  IN [k \in Lights |->
        IF k \in G THEN [h[k] EXCEPT !.state = state(k),
                                     !.excused = ~quiet \/ cmd \notin {"UP", "DOWN"}]
        ELSE h[k]]

GroupCommanded(h, lead, G, cmd) ==
  IF cmd = "CHECK"
  THEN [k \in Lights |-> IF k \in G THEN [h[k] EXCEPT !.queue = Queued(@, "CHECK")] ELSE h[k]]
  ELSE IF ~Accepts(h[lead].queue, cmd) THEN h
  ELSE LET moved == GroupMoves(h, G, cmd) IN
       [moved EXCEPT
          ![lead] = [moved[lead] EXCEPT !.queue = Queued(h[lead].queue, cmd), !.dests = G]]

(* command_saved_group: one command for each remote, to a single light     *)
(* where there is only one.  The lights of two remotes have nothing in     *)
(* common, neither queues nor destinations, so that the order of the       *)
(* remotes in the record makes no difference.                              *)
OfRemote(l) == {k \in Lights : Remote[k] = Remote[l]}

(* The first member of the remote of l in the record.                      *)
IsLead(k) == \A j \in 1 .. k - 1 : Remote[LightMembers[j]] # Remote[LightMembers[k]]
Lead(l) ==
  LightMembers[CHOOSE k \in DOMAIN LightMembers : LightMembers[k] \in OfRemote(l) /\ IsLead(k)]

SavedGroupCommanded(h, cmd) ==
  [l \in Lights |->
     IF OfRemote(l) = {l} THEN Commanded(h, l, cmd)[l]
     ELSE GroupCommanded(h, Lead(l), OfRemote(l), cmd)[l]]

----------------------------------------------------------------------------
Ordered(next) == orders > 0 /\ orders' = orders - 1 /\ house' = next

CommandLight(l) == \E cmd \in Orders : Ordered(Commanded(house, l, cmd))
SetLightBrightness(l) == \E b \in Requests : Ordered(Brightened(house, l, b))
CommandSavedGroup == \E cmd \in Orders : Ordered(SavedGroupCommanded(house, cmd))

(* dispatch_status_: the light says what it is, which may be late.         *)
Report(l) ==
  \E report \in {"on", "off"} :
    Ordered([house EXCEPT ![l] = [house[l] EXCEPT !.state = OnRfStatus(house[l].state, report),
                                                  !.excused = TRUE]])

(* loop_light_: the end of dimming is followed by RELEASE.                 *)
\* mutant: the dimming ends and the button is not released
LoopLightHolds(l) ==
  /\ OnTick(house[l].state) # house[l].state
  /\ house' = [house EXCEPT ![l].state = OnTick(@)]
  /\ UNCHANGED orders

LoopLight(l) ==
  /\ OnTick(house[l].state) # house[l].state
  /\ house' = Told(house, l, OnTick(house[l].state), "RELEASE")
  /\ UNCHANGED orders

DimTick ==
  /\ \E l \in Lights : Aged(house[l].state) # house[l].state
  /\ house' = [l \in Lights |-> [house[l] EXCEPT !.state = Aged(@)]]
  /\ UNCHANGED orders

(* process_queue to its end: the front command is on the air, a button to  *)
(* the group whose destinations the sender holds; advance_queue_ then      *)
(* clears them.                                                            *)
Receivers(l) ==
  CASE house[l].queue[1] = "CHECK" -> {}
    [] house[l].queue[1] # "CHECK" /\ house[l].dests # {} -> house[l].dests
    [] OTHER -> {l}
QueueAdvanced(h, l) == [h EXCEPT ![l] = [h[l] EXCEPT !.queue = Tail(h[l].queue), !.dests = {}]]

Transmit(l) ==
  /\ house[l].queue # <<>>
  /\ house' = QueueAdvanced([k \in Lights |-> IF k \in Receivers(l)
                          THEN [house[k] EXCEPT !.heard = house[l].queue[1]] ELSE house[k]], l)
  /\ UNCHANGED orders

(* The retries are used up.                                                *)
GiveUp(l) ==
  /\ house[l].queue # <<>>
  /\ house' = QueueAdvanced([k \in Lights |-> IF k \in Receivers(l)
                          THEN [house[k] EXCEPT !.excused = TRUE] ELSE house[k]], l)
  /\ UNCHANGED orders

LightNext ==
  \/ \E l \in Lights :
       \/ CommandLight(l) \/ SetLightBrightness(l) \/ Report(l)
       \/ LoopLight(l) \/ Transmit(l) \/ GiveUp(l)
  \/ CommandSavedGroup \/ DimTick

LightSpec == LightInit /\ [][LightNext]_lightVars

----------------------------------------------------------------------------
(* When nothing is left to be sent, a light's estimate is what the last    *)
(* button it received makes of it: off after DOWN, between off and full    *)
(* only after the RELEASE that ends the dimming (device_registry.cpp       *)
(* set_light_brightness, loop_light_, command_group).  Excused are lights  *)
(* that reported, that were told to stop, whose command was refused, lost, *)
(* or raced with a group command, and the two requests of Brightened.      *)
Quiet(l) == house[l].queue = <<>> /\ ~Entangled(house, l)
Follows(s, button) ==
  CASE s.is = "Off"         -> button \in {"none", "DOWN"}
    [] s.is = "DimmingUp"   -> button = "UP"
    [] s.is = "DimmingDown" -> button = "DOWN"
    [] s.is = "On"          -> button = "RELEASE" \/ (s.at = DIM /\ button = "UP")
EstimateAsHeard ==
  \A l \in Lights :
    Quiet(l) /\ ~house[l].excused => Follows(house[l].state, house[l].heard)

(* The estimate of a dimmable light moves by at most one step at a time,   *)
(* also when a new target turns the dimming around: only switching the     *)
(* light, a report, or a request for less than a percent makes it jump     *)
(* (light_sm.cpp on_set_brightness, brightness).                           *)
Near(x, y) == x - y \in {-1, 0, 1}
DimsSmoothly ==
  [][\A l \in Dimmable :
       \/ Near(Brightness(house'[l].state), Brightness(house[l].state))
       \/ house'[l].state \in {OnTurnOn, OnTurnOff}]_lightVars
=============================================================================
