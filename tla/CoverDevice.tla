---------------------------- MODULE CoverDevice ----------------------------
(***************************************************************************)
(* One cover of the registry, components/elero/device_registry.cpp: the    *)
(* commands of the adapters, the reports of the blind and the main loop    *)
(* act on its estimate of the blind (module CoverSM), its targets, its     *)
(* poll timer and its command queue.                                       *)
(*                                                                         *)
(* The estimate is only worth something in front of a blind, so the blind  *)
(* is modelled beside it: it turns its slats before it travels, stops by   *)
(* itself at its ends, answers a CHECK, and obeys a wall remote that the   *)
(* hub knows nothing of.  Commands and reports can be lost or late.        *)
(*                                                                         *)
(* The command queue is seen through module CommandService, which the      *)
(* CommandSender implements: a command leaves it when it has been on the   *)
(* air.                                                                    *)
(*                                                                         *)
(* Left out: last_direction, which only the toggle of an adapter reads,    *)
(* the published snapshot, the command INT and group commands.             *)
(***************************************************************************)
EXTENDS CoverSM, SequencesExt

CONSTANTS
  Contexts,      \* configurations to consider
  MIN_PULSE,     \* MIN_TILT_PULSE_MS
  RESPONSE_WAIT, \* timing::RESPONSE_WAIT_MS
  POLL_MOVING,   \* timing::POLL_INTERVAL_MOVING
  POLL_IDLE,     \* poll.interval_ms
  MAX_QUEUE,     \* packet::limits::MAX_COMMAND_QUEUE
  BlindStarts,   \* where the blind can be at boot: <<pos, tilt>>
  AIR,           \* reports of the blind that fit between it and the main loop
  MaxUser,       \* bound: commands of the adapters
  MaxTrouble,    \* bound: losses, wall remote, obstacles
  MaxLate        \* bound: ticks that pass while something is on its way

ASSUME DeviceAssumption ==
  /\ \A ctx \in Contexts : ctx \in Context
  /\ {MIN_PULSE, RESPONSE_WAIT, POLL_MOVING, POLL_IDLE, MAX_QUEUE, AIR} \subseteq Nat \ {0}
  /\ {MaxUser, MaxTrouble, MaxLate} \subseteq Nat
  /\ MAX_QUEUE > 1
  /\ \A b \in BlindStarts : b[1] \in 0 .. TRAVEL /\ b[2] \in Nat

VARIABLES
  ctx,     \* cover_context() of the device
  cover,   \* CoverDevice: [state, target_position, tilt_target]
  poll,    \* PollTimer, as ages: [sincePoll, sinceCommand, awaiting]
  queue,   \* the commands of the sender that are still to be sent
  looped,  \* whether the main loop has run since time last moved
  blind,   \* the blind itself: [motor, pos, tilt, tilted]
  air,     \* its reports on their way to on_rf_packet()
  wish,    \* history: the last command of an adapter, while it can be relied on
  used     \* [user, trouble, late]: how often (bounds)

device == <<cover, poll, queue>>
vars == <<ctx, device, looped, blind, air, wish, used>>

NO_TARGET == -1

Cover(c) ==
  [state : State(c),
   target_position : {NO_TARGET} \cup 0 .. POSITION_OPEN,
   tilt_target : {NO_TARGET} \cup TILT_CLOSED .. TILT_OPEN(c)]

Commands == {"UP", "DOWN", "TILT", "STOP", "CHECK"}

(* A wish is remembered when the estimate was exact as it was made, until  *)
(* something goes wrong.  "from" is where the blind was, "turned" whether  *)
(* it has to turn round to get to a position.                              *)
NoWish == [kind |-> "none", value |-> 0, from |-> 0, turned |-> FALSE]

estimated == position(cover.state, ctx)
estimatedTilt == tilt(cover.state, ctx)

(* The estimate is exact, and nothing is on its way that could change it.  *)
Known ==
  /\ queue = <<>> /\ air = <<>>
  /\ estimated = blind.pos /\ estimatedTilt = blind.tilt
  /\ \/ blind.motor = "still" /\ cover.state.kind = "Idle"
     \/ blind.motor = "up" /\ cover.state.kind = "Opening"
     \/ blind.motor = "down" /\ cover.state.kind = "Closing"

(* Just after setup: a device of restore_all() has been asked for its      *)
(* state, one made by upsert() is polled by the first loop.                *)
Init ==
  /\ ctx \in Contexts
  /\ cover = [state |-> Idle(TRAVEL \div 2, TILT_OPEN(ctx) \div 2),
              target_position |-> NO_TARGET, tilt_target |-> NO_TARGET]
  /\ \/ /\ queue = <<"CHECK">>
        /\ poll = [sincePoll |-> 0, sinceCommand |-> 0, awaiting |-> TRUE]
     \/ /\ queue = <<>>
        /\ poll = [sincePoll |-> POLL_IDLE, sinceCommand |-> 0, awaiting |-> FALSE]
  /\ looped = FALSE
  /\ \E b \in BlindStarts :
       /\ b[2] <= TILT_OPEN(ctx)
       /\ blind = [motor |-> "still", pos |-> b[1], tilt |-> b[2], tilted |-> FALSE]
  /\ air = <<>>
  /\ wish = NoWish
  /\ used = [user |-> 0, trouble |-> 0, late |-> 0]

----------------------------------------------------------------------------
(* The sender's queue, CommandSender::enqueue().                           *)

Collapses(q, cmd) == q # <<>> /\ Last(q) = cmd

Accepts(q, cmd) == Collapses(q, cmd) \/ Len(q) < MAX_QUEUE

Enqueued(q, cmd) ==
  IF Collapses(q, cmd) \/ ~Accepts(q, cmd) THEN q ELSE Append(q, cmd)

(* The poll timer.                                                         *)
on_poll_sent(p) == [sincePoll |-> 0, sinceCommand |-> 0, awaiting |-> TRUE]

on_command_sent(p) == [p EXCEPT !.sinceCommand = 0, !.awaiting = TRUE]

on_rf_received(p) == [p EXCEPT !.sincePoll = 0, !.awaiting = FALSE]

waitsForAnswer(p) == p.awaiting                                   \* mutant

waits(p) == p.awaiting /\ p.sinceCommand < RESPONSE_WAIT

stopsWaiting(p) == IF waits(p) THEN p ELSE [p EXCEPT !.awaiting = FALSE]

due(p, moving) ==
  /\ ~waits(p)
  /\ p.sincePoll >= IF moving THEN POLL_MOVING ELSE POLL_IDLE

----------------------------------------------------------------------------
(* Commands of the adapters.                                               *)

Wished(kind, value) ==
  /\ used.user < MaxUser
  /\ used' = [used EXCEPT !.user = @ + 1]
  /\ wish' = IF Known \/ kind = "stop"
             THEN [kind |-> kind, value |-> value,
                   from |-> IF kind = "tilt" THEN blind.pos ELSE 0,
                   turned |-> /\ kind = "position"
                              /\ blind.motor = IF value > blind.pos THEN "down" ELSE "up"]
             ELSE NoWish
  /\ UNCHANGED <<ctx, looped, blind, air>>

(* What all movement commands have in common: the command and a CHECK are  *)
(* queued, and the estimate moves, queued or not.                          *)
Moves(cmd, target, tiltTarget) ==
  /\ queue' = Enqueued(Enqueued(queue, cmd), "CHECK")
  /\ cover' = [state |-> on_command(cover.state, cmd, ctx),
               target_position |-> target, tilt_target |-> tiltTarget]
  /\ poll' = IF Accepts(queue, cmd) THEN on_command_sent(poll) ELSE poll

(* clear_queue(), then STOP and CHECK.                                     *)
StopQueued == Enqueued(Enqueued(<<>>, "STOP"), "CHECK")

command_cover_stop ==
  /\ Wished("stop", IF is_moving(cover.state) /\ Range(air) \cap {"TOP", "BOTTOM"} = {}
                    THEN 1 ELSE 0)
  /\ queue' = StopQueued
  /\ cover' = [state |-> on_command(cover.state, "STOP", ctx),
               target_position |-> NO_TARGET, tilt_target |-> NO_TARGET]
  /\ UNCHANGED poll

(* UP, DOWN, and TILT, which moves to the favorite stored in the motor.    *)
command_cover_move(cmd) ==
  /\ Wished(IF cmd = "TILT" THEN "favorite" ELSE "full", 0)
  /\ Moves(cmd, cover.target_position, NO_TARGET)

request_check ==
  /\ Wished("check", 0)
  /\ queue' = Enqueued(queue, "CHECK")
  /\ poll' = IF Accepts(queue, "CHECK") THEN on_poll_sent(poll) ELSE poll
  /\ UNCHANGED cover

(* Asked for the position it is at, a blind still gets a nudge downwards   *)
(* that the next loop stops.                                               *)
set_cover_position(target) ==
  /\ has_position_tracking(ctx)
  /\ Wished(IF target = estimated THEN "nudge" ELSE "position", target)
  /\ CASE target = POSITION_OPEN -> Moves("UP", NO_TARGET, NO_TARGET)
       [] target = POSITION_CLOSED -> Moves("DOWN", NO_TARGET, NO_TARGET)
       [] OTHER -> Moves(IF target > estimated THEN "UP" ELSE "DOWN", target, NO_TARGET)

command_cover_tilt == command_cover_move("TILT")

PulseTooShort(target) ==
  /\ target - estimatedTilt < MIN_PULSE
  /\ estimatedTilt - target < MIN_PULSE

(* A jog too short for the motor is ignored, also during a movement.       *)
set_cover_tilt(target) ==
  CASE ~has_tilt_tracking(ctx) -> command_cover_tilt
    [] has_tilt_tracking(ctx) /\ PulseTooShort(target) ->
         Wished("ignored", 0) /\ UNCHANGED device
    [] has_tilt_tracking(ctx) /\ ~PulseTooShort(target) ->
         /\ Wished("tilt", target)
         /\ Moves(IF target > estimatedTilt THEN "UP" ELSE "DOWN", NO_TARGET, target)

User ==
  \/ command_cover_stop
  \/ \E cmd \in {"UP", "DOWN", "TILT"} : command_cover_move(cmd)
  \/ request_check
  \/ \E target \in 0 .. POSITION_OPEN : set_cover_position(target)
  \/ \E target \in TILT_CLOSED .. TILT_OPEN(ctx) : set_cover_tilt(target)

----------------------------------------------------------------------------
(* The main loop.                                                          *)

(* on_rf_packet() and dispatch_status_()                                   *)
dispatch_status ==
  /\ air # <<>>
  /\ cover' = [cover EXCEPT !.state = on_rf_status(@, Head(air), ctx)]
  /\ poll' = on_rf_received(poll)
  /\ air' = Tail(air)
  /\ UNCHANGED <<ctx, queue, looped, blind, wish, used>>

positionPassed(s) ==                                              \* mutant
  /\ is_moving(s) /\ has_position_tracking(ctx)
  /\ cover.target_position > POSITION_CLOSED /\ cover.target_position < POSITION_OPEN
  /\ \/ s.kind = "Opening" /\ position(s, ctx) > cover.target_position
     \/ s.kind = "Closing" /\ position(s, ctx) < cover.target_position

positionReached(s) ==
  /\ is_moving(s) /\ has_position_tracking(ctx)
  /\ cover.target_position > POSITION_CLOSED /\ cover.target_position < POSITION_OPEN
  /\ \/ s.kind = "Opening" /\ position(s, ctx) >= cover.target_position
     \/ s.kind = "Closing" /\ position(s, ctx) <= cover.target_position

tiltEither(s) ==                                                  \* mutant
  /\ is_moving(s) /\ has_tilt_tracking(ctx)
  /\ cover.tilt_target >= TILT_CLOSED
  /\ tilt(s, ctx) >= cover.tilt_target

tiltReached(s) ==
  /\ is_moving(s) /\ has_tilt_tracking(ctx)
  /\ cover.tilt_target >= TILT_CLOSED
  /\ \/ s.kind = "Opening" /\ tilt(s, ctx) >= cover.tilt_target
     \/ s.kind = "Closing" /\ tilt(s, ctx) <= cover.tilt_target

(* loop_cover_(), up to process_queue(): tick, poll if due, look again     *)
(* after the cooldown of a stop, stop at the target.  A stop for the       *)
(* position leaves the estimate stopped, so one for the tilt cannot        *)
(* follow it.                                                              *)
loop_cover ==
  /\ ~looped
  /\ LET s == on_tick(cover.state, ctx)
         polls == due(poll, is_moving(s))
         cooled == Cools(cover.state)
         asked == IF polls \/ cooled THEN Enqueued(queue, "CHECK") ELSE queue
         stops == positionReached(s) \/ tiltReached(s)
     IN  /\ poll' = IF (polls \/ cooled) /\ Accepts(queue, "CHECK")
                    THEN on_poll_sent(poll) ELSE stopsWaiting(poll)
         /\ queue' = IF stops THEN StopQueued ELSE asked
         /\ cover' =
              [state |-> IF stops THEN on_command(s, "STOP", ctx) ELSE s,
               target_position |-> IF positionReached(s) THEN NO_TARGET
                                                         ELSE cover.target_position,
               tilt_target |-> IF tiltReached(s) /\ ~positionReached(s)
                               THEN NO_TARGET ELSE cover.tilt_target]
  /\ looped' = TRUE
  /\ UNCHANGED <<ctx, blind, air, wish, used>>

----------------------------------------------------------------------------
(* The blind.                                                              *)

StatusOf(b) ==
  CASE b.motor \in {"up", "favorite"} -> "MOVING_UP"
    [] b.motor = "down" -> "MOVING_DOWN"
    [] b.motor = "still" /\ b.pos = POSITION_OPEN -> IF b.tilted THEN "TOP_TILT" ELSE "TOP"
    [] b.motor = "still" /\ b.pos = POSITION_CLOSED ->
         IF b.tilted THEN "BOTTOM_TILT" ELSE "BOTTOM"
    [] OTHER -> IF b.tilted THEN "TILT" ELSE "STOPPED"

Runs(b, motor) == [b EXCEPT !.motor = motor, !.tilted = FALSE]

Halts(b) == [b EXCEPT !.motor = "still"]

(* An end switch: at the end and with the slats all the way.               *)
AtEnd(b, motor) ==
  \/ motor = "up" /\ b.pos = POSITION_OPEN /\ b.tilt >= ctx.sweep
  \/ motor = "down" /\ b.pos = POSITION_CLOSED /\ (b.tilt = 0 \/ ~has_tilt_tracking(ctx))

Obeys(b, cmd) ==
  CASE cmd = "UP" -> IF AtEnd(b, "up") THEN Halts(b) ELSE Runs(b, "up")
    [] cmd = "DOWN" -> IF AtEnd(b, "down") THEN Halts(b) ELSE Runs(b, "down")
    [] cmd = "TILT" -> Runs(b, "favorite")
    [] cmd = "STOP" -> Halts(b)
    [] cmd = "CHECK" -> b

(* One tick of its motor: slats first, then travel, then the end switch.   *)
Advances(b) ==
  CASE b.motor = "up" ->
         IF b.tilt < ctx.sweep THEN [b EXCEPT !.tilt = @ + 1] ELSE [b EXCEPT !.pos = @ + 1]
    [] b.motor = "down" ->
         IF b.tilt > 0 /\ has_tilt_tracking(ctx) THEN [b EXCEPT !.tilt = @ - 1]
                                                 ELSE [b EXCEPT !.pos = @ - 1]
    [] b.motor = "favorite" ->
         [b EXCEPT !.motor = "still", !.tilt = TILT_OPEN(ctx), !.tilted = TRUE]
    [] b.motor = "still" -> b

Turns(b) ==
  IF AtEnd(Advances(b), b.motor) THEN Halts(Advances(b)) ELSE Advances(b)

Trouble ==
  /\ used.trouble < MaxTrouble
  /\ used' = [used EXCEPT !.trouble = @ + 1]
  /\ wish' = NoWish

(* The oldest command is sent; a CHECK is answered if there is room.       *)
Transmit ==
  /\ queue # <<>>
  /\ queue' = Tail(queue)
  /\ blind' = Obeys(blind, Head(queue))
  /\ air' = IF Head(queue) = "CHECK" /\ Len(air) < AIR
            THEN Append(air, StatusOf(blind)) ELSE air
  /\ UNCHANGED <<ctx, cover, poll, looped, wish, used>>

CommandLost ==
  /\ queue # <<>>
  /\ queue' = Tail(queue)
  /\ Trouble
  /\ UNCHANGED <<ctx, cover, poll, looped, blind, air>>

ReportLost ==
  /\ air # <<>>
  /\ air' = Tail(air)
  /\ Trouble
  /\ UNCHANGED <<ctx, device, looped, blind>>

(* The blind reports by itself what the wall remote or an obstacle did.    *)
BlindActs(b, reports) ==
  /\ Trouble
  /\ blind' = b
  /\ air' = IF reports /\ Len(air) < AIR THEN Append(air, StatusOf(b)) ELSE air
  /\ UNCHANGED <<ctx, device, looped>>

WallRemote ==
  \E cmd \in {"UP", "DOWN", "STOP"}, reports \in BOOLEAN :
    /\ Obeys(blind, cmd) # blind
    /\ BlindActs(Obeys(blind, cmd), reports)

(* Time moves on after the main loop has run.  It counts as late, and the  *)
(* derived position and tilt as no longer exact, when something is still   *)
(* on its way.                                                             *)
Capped(age, cap) == Least(age + 1, cap)

Tick ==
  /\ looped
  /\ LET idle == queue = <<>> /\ air = <<>>
     IN  \/ idle /\ UNCHANGED <<wish, used>>
         \/ /\ ~idle
            /\ used.late < MaxLate
            /\ used' = [used EXCEPT !.late = @ + 1]
            /\ wish' = IF wish.kind \in {"position", "stop"} THEN wish ELSE NoWish
  /\ looped' = FALSE
  /\ cover' = [cover EXCEPT !.state = Older(@)]
  /\ poll' = [poll EXCEPT !.sincePoll = Capped(@, POLL_IDLE),
                          !.sinceCommand = Capped(@, RESPONSE_WAIT)]
  /\ blind' = Turns(blind)
  /\ UNCHANGED <<ctx, queue, air>>

Next ==
  \/ User
  \/ dispatch_status
  \/ loop_cover
  \/ Transmit \/ CommandLost \/ ReportLost \/ WallRemote
  \/ Tick

Spec == Init /\ [][Next]_vars

(* The main loop runs again and again, it drains rx_queue and the senders  *)
(* each time, and time passes.                                             *)
FairSpec ==
  /\ Spec
  /\ WF_vars(loop_cover) /\ WF_vars(dispatch_status)
  /\ WF_vars(Transmit) /\ WF_vars(Tick)

----------------------------------------------------------------------------
(* No movement or cooldown of the estimate outlives its timeout, and at    *)
(* most one target is set.                                                 *)
CoverTypeOK ==
  /\ ctx \in Contexts
  /\ cover \in Cover(ctx)
  /\ cover.state.age <= IF is_moving(cover.state) THEN MOVEMENT_TIMEOUT ELSE COOLDOWN
  /\ cover.target_position = NO_TARGET \/ cover.tilt_target = NO_TARGET
  /\ poll \in [sincePoll : 0 .. POLL_IDLE, sinceCommand : 0 .. RESPONSE_WAIT,
              awaiting : BOOLEAN]
  /\ queue \in Seq(Commands) /\ Len(queue) <= MAX_QUEUE
  /\ air \in Seq(Status) /\ Len(air) <= AIR
  /\ blind.pos \in 0 .. POSITION_OPEN /\ blind.tilt \in 0 .. TILT_OPEN(ctx)

Distance(m, n) == IF m > n THEN m - n ELSE n - m

AtRest ==
  /\ queue = <<>> /\ air = <<>>
  /\ blind.motor = "still" /\ ~is_moving(cover.state)

(* While a blind runs that was known when it was last sent on its way, the *)
(* derived position and tilt are those of the blind: the slat phase, the   *)
(* travel and reversals are accounted for without being told.              *)
EstimateExact ==
  /\ has_position_tracking(ctx)
  /\ wish.kind \in {"full", "tilt", "check", "ignored"}
  /\ blind.motor # "still" /\ queue = <<>>
  => /\ estimated = blind.pos
     /\ has_tilt_tracking(ctx) => estimatedTilt = blind.tilt

(* A blind sent to an intermediate position rests there, no further off    *)
(* than the ticks that commands or reports were late; for one that has to  *)
(* turn round each tick in which it still runs the other way counts twice. *)
RestsAtTarget ==
  wish.kind = "position" /\ AtRest
    => Distance(blind.pos, wish.value) <= IF wish.turned THEN 2 * used.late ELSE used.late

(* A tilt jog turns the slats to where they were asked to be and leaves    *)
(* the blind at the height it had.                                         *)
JogKeepsPosition ==
  wish.kind = "tilt" /\ AtRest
    => /\ blind.tilt = wish.value
       /\ blind.pos = wish.from /\ estimated = wish.from

(* After a STOP nothing that was queued before it sets the blind in motion *)
(* again; and if the STOP found the estimate moving, so that there is a    *)
(* cooldown, no report from before it sets the estimate in motion again    *)
(* (a late report of an end would end the cooldown).                       *)
StopHolds ==
  wish.kind = "stop" /\ used.late < COOLDOWN
    => /\ Range(queue) \cap {"UP", "DOWN", "TILT"} = {}
       /\ wish.value = 1 => ~is_moving(cover.state)

(* Whatever was lost, late or done behind the hub's back: when it is over, *)
(* the cover comes to rest for good, and a blind at one of its ends is     *)
(* shown there.                                                            *)
Settled ==
  /\ ~is_moving(cover.state) /\ blind.motor = "still"
  /\ blind.pos \in {POSITION_OPEN, POSITION_CLOSED} => estimated = blind.pos

EstimateSettles == <>[]Settled

(* "Don't send stop for fully open/closed -- the blind handles those       *)
(* endpoints": after a full move was asked for, the loop does not stop the *)
(* blind on its way.                                                       *)
FullMoveRunsThrough ==
  [][wish.kind = "full" /\ blind.motor # "still" /\ loop_cover /\ "STOP" \in Range(queue')
       => "STOP" \in Range(queue)]_vars
=============================================================================
