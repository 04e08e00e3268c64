------------------------------ MODULE CoverSM ------------------------------
(***************************************************************************)
(* The cover state machine, components/elero/cover_sm.cpp: pure functions  *)
(* from a state, an input and the configuration of the device (ctx) to     *)
(* the next state.  Position and tilt are never stored during a movement,  *)
(* they are derived from where it started and how long ago.                *)
(*                                                                         *)
(* Time is counted in ticks and kept as an age, now - start_ms, which is   *)
(* all that the code ever uses of it.  A position is a number of ticks of  *)
(* travel above the closed end and a tilt a number of ticks of slat sweep  *)
(* from slats closed, so that one tick moves either by one.  Opening and   *)
(* closing take the same time here.                                        *)
(***************************************************************************)
EXTENDS Integers

CONSTANTS
  TRAVEL,           \* net travel time: duration minus tilt_duration
  MOVEMENT_TIMEOUT, \* ctx.movement_timeout_ms
  COOLDOWN          \* ctx.post_stop_cooldown_ms

ASSUME CoverAssumption == {TRAVEL, MOVEMENT_TIMEOUT, COOLDOWN} \subseteq Nat \ {0}

POSITION_CLOSED == 0
POSITION_OPEN == TRAVEL
TILT_CLOSED == 0

(* A configuration: whether both durations are set, and tilt_duration_ms   *)
(* (0: no tilt model, the tilt is then one of two extremes).               *)
Context == [tracked : BOOLEAN, sweep : Nat]

has_position_tracking(ctx) == ctx.tracked

has_tilt_tracking(ctx) == ctx.sweep > 0

TILT_OPEN(ctx) == IF has_tilt_tracking(ctx) THEN ctx.sweep ELSE 1

(* The four alternatives of the state.  "age" is the time since start_ms   *)
(* or stop_ms; Idle has none.                                              *)
State(ctx) ==
  [kind : {"Idle", "Opening", "Closing", "Stopping"},
   pos : POSITION_CLOSED .. POSITION_OPEN,
   tilt : TILT_CLOSED .. TILT_OPEN(ctx),
   age : Nat]

Fresh(kind, p, t) == [kind |-> kind, pos |-> p, tilt |-> t, age |-> 0]

Idle(p, t) == Fresh("Idle", p, t)
Opening(p, t) == Fresh("Opening", p, t)
Closing(p, t) == Fresh("Closing", p, t)
Stopping(p, t) == Fresh("Stopping", p, t)

is_moving(s) == s.kind \in {"Opening", "Closing"}

Older(s) == IF s.kind = "Idle" THEN s ELSE [s EXCEPT !.age = @ + 1]

Least(m, n) == IF m < n THEN m ELSE n
Minus(m, n) == IF m > n THEN m - n ELSE 0

tilt_dead_time_full(s, ctx) == ctx.sweep                          \* mutant

(* Slats turn before the blind travels: what is left of that turn.         *)
tilt_dead_time(s, ctx) ==
  CASE ~has_tilt_tracking(ctx) -> 0
    [] has_tilt_tracking(ctx) /\ s.kind = "Opening" -> TILT_OPEN(ctx) - s.tilt
    [] has_tilt_tracking(ctx) /\ s.kind # "Opening" -> s.tilt - TILT_CLOSED

travel_elapsed(s, ctx) == Minus(s.age, tilt_dead_time(s, ctx))

position(s, ctx) ==
  CASE ~is_moving(s) \/ ~ctx.tracked -> s.pos
    [] s.kind = "Opening" /\ ctx.tracked ->
         Least(POSITION_OPEN, s.pos + travel_elapsed(s, ctx))
    [] s.kind = "Closing" /\ ctx.tracked -> Minus(s.pos, travel_elapsed(s, ctx))

tilt(s, ctx) ==
  CASE ~is_moving(s) -> s.tilt
    [] s.kind = "Opening" ->
         IF has_tilt_tracking(ctx) THEN Least(TILT_OPEN(ctx), s.tilt + s.age)
                                   ELSE TILT_OPEN(ctx)
    [] s.kind = "Closing" ->
         IF has_tilt_tracking(ctx) THEN Minus(s.tilt, s.age) ELSE TILT_CLOSED

----------------------------------------------------------------------------
(* on_rf_status(): a report of the blind.  Reports come in the classes     *)
(* that the code tells apart: START_MOVING_x and MOVING_x are one, and so  *)
(* are INTERMEDIATE, BLOCKING, OVERHEATED, TIMEOUT and STOPPED.            *)
Status == {"TOP", "TOP_TILT", "BOTTOM", "BOTTOM_TILT", "TILT", "STOPPED",
           "MOVING_UP", "MOVING_DOWN"}

rf_tilt(status, ctx) ==
  IF status \in {"TOP_TILT", "BOTTOM_TILT", "TILT"} THEN TILT_OPEN(ctx) ELSE TILT_CLOSED

(* In the cooldown after a stop only the plain endpoints count: a blind    *)
(* that says it moves may be answering from before the stop.               *)
HeededAlways(s, status) == TRUE                                   \* mutant

Heeded(s, status) == s.kind = "Stopping" => status \in {"TOP", "BOTTOM"}

on_rf_status(s, status, ctx) ==
  LET p == position(s, ctx)
      t == tilt(s, ctx)
  IN CASE ~Heeded(s, status) -> s
       [] Heeded(s, status) /\ status \in {"TOP", "TOP_TILT"} ->
            Idle(POSITION_OPEN, rf_tilt(status, ctx))
       [] Heeded(s, status) /\ status \in {"BOTTOM", "BOTTOM_TILT"} ->
            Idle(POSITION_CLOSED, rf_tilt(status, ctx))
       [] Heeded(s, status) /\ status = "TILT" ->
            IF is_moving(s) THEN Stopping(p, rf_tilt(status, ctx))
                            ELSE Idle(p, rf_tilt(status, ctx))
       [] Heeded(s, status) /\ status = "STOPPED" ->
            IF is_moving(s) THEN Stopping(p, t) ELSE s
       [] Heeded(s, status) /\ status = "MOVING_UP" ->
            IF s.kind = "Opening" THEN s ELSE Opening(p, t)
       [] Heeded(s, status) /\ status = "MOVING_DOWN" ->
            IF s.kind = "Closing" THEN s ELSE Closing(p, t)

(* on_command(): TILT is expected to move the blind up.                    *)
on_command(s, cmd, ctx) ==
  LET p == position(s, ctx)
      t == tilt(s, ctx)
  IN CASE cmd \in {"UP", "TILT"} /\ s.kind # "Opening" -> Opening(p, t)
       [] cmd = "DOWN" /\ s.kind # "Closing" -> Closing(p, t)
       [] cmd = "STOP" /\ is_moving(s) -> Stopping(p, t)
       [] OTHER -> s

NeverTimesOut(s) == FALSE                                         \* mutant

TimesOut(s) == is_moving(s) /\ s.age >= MOVEMENT_TIMEOUT

Cools(s) == s.kind = "Stopping" /\ s.age >= COOLDOWN

(* on_tick()                                                               *)
on_tick(s, ctx) ==
  IF TimesOut(s) \/ Cools(s) THEN Idle(position(s, ctx), tilt(s, ctx)) ELSE s
=============================================================================
