------------------------------ MODULE LightSM ------------------------------
(***************************************************************************)
(* namespace light_sm (components/elero/light_sm.cpp): the state machine   *)
(* that estimates a light's brightness from what it was told to do.        *)
(*                                                                         *)
(* Brightness is counted in the steps of one tick: DIM is 100 %, and       *)
(* dimming takes DIM ticks from end to end.  A state holds the ticks since *)
(* dimming began instead of the time it began at.                          *)
(***************************************************************************)
EXTENDS Integers

CONSTANT DIM  \* context.dim_duration_ms, in ticks

ASSUME LightAssumption == DIM \in Nat \ {0}

Level == 0 .. DIM

(* A brightness above 0 that is less than BRIGHTNESS_EPSILON.              *)
Glimmer == -1
Requests == Level \cup {Glimmer}

LightOff == [is |-> "Off"]
LightOn(b) == [is |-> "On", at |-> b]
DimmingUp(b, target) == [is |-> "DimmingUp", from |-> b, target |-> target, ticks |-> 0]
DimmingDown(b, target) == [is |-> "DimmingDown", from |-> b, target |-> target, ticks |-> 0]

Dims == {"DimmingUp", "DimmingDown"}
LightState ==
  {LightOff} \cup {LightOn(b) : b \in 1 .. DIM}
    \cup [is : Dims, from : Level, target : Level, ticks : Level]

is_on(s) == s.is # "Off"
is_dimming(s) == s.is \in Dims

Brightness(s) ==
  CASE s.is = "Off"         -> 0
    [] s.is = "On"          -> s.at
    [] s.is = "DimmingUp"   -> IF s.from + s.ticks < s.target THEN s.from + s.ticks ELSE s.target
    [] s.is = "DimmingDown" -> IF s.from - s.ticks > s.target THEN s.from - s.ticks ELSE s.target

(* Time passes; the estimate stays at the target until on_tick().          *)
Aged(s) == IF is_dimming(s) /\ s.ticks < DIM THEN [s EXCEPT !.ticks = @ + 1] ELSE s

(* "on" stands for LIGHT_ON and TOP, "off" for LIGHT_OFF and BOTTOM.       *)
OnRfStatus(s, report) ==
  CASE report = "on"  -> LightOn(DIM)
    [] report = "off" -> LightOff
    [] OTHER          -> s

\* mutant: a new target starts from where the last dimming started
OnSetBrightnessRestarts(s, b, dimmable) ==
  LET current == IF is_dimming(s) THEN s.from ELSE Brightness(s) IN
  CASE b <= 0                                    -> LightOff
    [] b > 0 /\ (~dimmable \/ b = current)       -> LightOn(b)
    [] b > 0 /\ dimmable /\ b > current          -> DimmingUp(current, b)
    [] b > 0 /\ dimmable /\ b < current          -> DimmingDown(current, b)

OnSetBrightness(s, b, dimmable) ==
  LET current == Brightness(s) IN
  CASE b <= 0                                    -> LightOff
    [] b > 0 /\ (~dimmable \/ b = current)       -> LightOn(b)
    [] b > 0 /\ dimmable /\ b > current          -> DimmingUp(current, b)
    [] b > 0 /\ dimmable /\ b < current          -> DimmingDown(current, b)

OnTurnOn == LightOn(DIM)
OnTurnOff == LightOff

OnTick(s) == IF is_dimming(s) /\ Brightness(s) = s.target THEN LightOn(s.target) ELSE s
=============================================================================
