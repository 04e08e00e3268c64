------------------------- MODULE CoverDeviceProofs -------------------------
(***************************************************************************)
(* Theorems about one cover for every travel time, tilt model, timeout,    *)
(* cooldown, poll interval, queue and bound:                               *)
(*   - its types, in particular that no movement and no cooldown outlives  *)
(*     its timeout, that both targets are never set at once and that the   *)
(*     blind never leaves its range (CoverInv);                            *)
(*   - that a STOP holds (StopInv);                                        *)
(*   - while a movement fits into the timeout (TimeoutSuffices), that the  *)
(*     estimate follows a blind that was known (ExactInv), that a jog      *)
(*     turns the slats and nothing else (JogInv), and that a blind rests   *)
(*     where it was sent to (PositionInv).                                 *)
(***************************************************************************)
EXTENDS CoverDevice, TLAPS

----------------------------------------------------------------------------
(* Lemmas: the state machine maps states to states.                        *)

(* The derived position is a position, however long the movement took.     *)
LEMMA positionType ==
  ASSUME NEW c \in Context, NEW s \in State(c)
  PROVE  position(s, c) \in POSITION_CLOSED .. POSITION_OPEN
<1>1. tilt_dead_time(s, c) \in Int
  BY DEF Context, State, TILT_OPEN, TILT_CLOSED, has_tilt_tracking, tilt_dead_time
<1>2. travel_elapsed(s, c) \in Nat
  <2> DEFINE d == tilt_dead_time(s, c)
  <2>1. s.age \in Nat /\ d \in Int
    BY <1>1 DEF State
  <2> HIDE DEF d
  <2>2. Minus(s.age, d) \in Nat
    BY <2>1 DEF Minus
  <2>3. QED BY <2>2 DEF travel_elapsed, d
<1>3. QED
  <2> DEFINE e == travel_elapsed(s, c)
  <2>1. e \in Nat
    BY <1>2
  <2> HIDE DEF e
  <2>2. s.pos \in 0 .. TRAVEL /\ TRAVEL \in Nat
    BY CoverAssumption DEF State, POSITION_CLOSED, POSITION_OPEN
  <2>3. /\ Least(TRAVEL, s.pos + e) \in 0 .. TRAVEL
        /\ Minus(s.pos, e) \in 0 .. TRAVEL
    BY <2>1, <2>2 DEF Least, Minus
  <2>4. QED
    BY <2>2, <2>3 DEF position, is_moving, Context, State, POSITION_CLOSED, POSITION_OPEN, e

(* The derived tilt is a tilt.                                             *)
LEMMA tiltType ==
  ASSUME NEW c \in Context, NEW s \in State(c)
  PROVE  tilt(s, c) \in TILT_CLOSED .. TILT_OPEN(c)
<1>1. /\ s.tilt \in 0 .. TILT_OPEN(c) /\ s.age \in Nat /\ TILT_OPEN(c) \in Nat \ {0}
      /\ s.kind \in {"Idle", "Opening", "Closing", "Stopping"}
  BY DEF Context, State, TILT_OPEN, TILT_CLOSED, has_tilt_tracking
<1>2. /\ Least(TILT_OPEN(c), s.tilt + s.age) \in 0 .. TILT_OPEN(c)
      /\ Minus(s.tilt, s.age) \in 0 .. TILT_OPEN(c)
  BY <1>1 DEF Least, Minus
<1>3. QED
  BY <1>1, <1>2 DEF tilt, is_moving, TILT_CLOSED

(* A state that is entered with a position and a tilt is a state of age 0. *)
LEMMA FreshType ==
  ASSUME NEW c \in Context, NEW p \in POSITION_CLOSED .. POSITION_OPEN,
         NEW t \in TILT_CLOSED .. TILT_OPEN(c),
         NEW kind \in {"Idle", "Opening", "Closing", "Stopping"}
  PROVE  /\ Fresh(kind, p, t) \in State(c)
         /\ Fresh(kind, p, t).age = 0 /\ Fresh(kind, p, t).kind = kind
BY DEF Fresh, State

(* The tilt that a report stands for is one of the two extremes.           *)
LEMMA rfTiltType ==
  ASSUME NEW c \in Context, NEW status
  PROVE  rf_tilt(status, c) \in TILT_CLOSED .. TILT_OPEN(c)
BY DEF Context, rf_tilt, TILT_OPEN, TILT_CLOSED, has_tilt_tracking

(* A report leaves the state as it is or enters one, which starts a new    *)
(* timeout.                                                                *)
LEMMA OnRfStatusType ==
  ASSUME NEW c \in Context, NEW s \in State(c), NEW status \in Status
  PROVE  /\ on_rf_status(s, status, c) \in State(c)
         /\ on_rf_status(s, status, c) = s \/ on_rf_status(s, status, c).age = 0
<1> DEFINE p == position(s, c)
           t == tilt(s, c)
           r == rf_tilt(status, c)
<1>1. p \in POSITION_CLOSED .. POSITION_OPEN
  BY positionType
<1>2. t \in TILT_CLOSED .. TILT_OPEN(c) /\ r \in TILT_CLOSED .. TILT_OPEN(c)
  BY tiltType, rfTiltType
<1>3. POSITION_CLOSED \in POSITION_CLOSED .. POSITION_OPEN
      /\ POSITION_OPEN \in POSITION_CLOSED .. POSITION_OPEN
  BY CoverAssumption DEF POSITION_CLOSED, POSITION_OPEN
<1>4. on_rf_status(s, status, c) \in
        {s, Idle(POSITION_OPEN, r), Idle(POSITION_CLOSED, r), Stopping(p, r), Idle(p, r),
         Stopping(p, t), Opening(p, t), Closing(p, t)}
  <2> HIDE DEF p, t, r
  <2>1. QED BY DEF on_rf_status, Status, p, t, r
<1> HIDE DEF p, t, r
<1>5. QED
  BY <1>1, <1>2, <1>3, <1>4, FreshType DEF Idle, Opening, Closing, Stopping

(* Likewise for a command.                                                 *)
LEMMA OnCommandType ==
  ASSUME NEW c \in Context, NEW s \in State(c), NEW cmd
  PROVE  /\ on_command(s, cmd, c) \in State(c)
         /\ on_command(s, cmd, c) = s \/ on_command(s, cmd, c).age = 0
<1> DEFINE p == position(s, c)
           t == tilt(s, c)
<1>1. p \in POSITION_CLOSED .. POSITION_OPEN /\ t \in TILT_CLOSED .. TILT_OPEN(c)
  BY positionType, tiltType
<1>2. on_command(s, cmd, c) \in {s, Opening(p, t), Closing(p, t), Stopping(p, t)}
  BY DEF on_command
<1> HIDE DEF p, t
<1>3. QED BY <1>1, <1>2, FreshType DEF Opening, Closing, Stopping

(* Likewise for a tick, which leaves only a state that is not due.         *)
LEMMA OnTickType ==
  ASSUME NEW c \in Context, NEW s \in State(c)
  PROVE  /\ on_tick(s, c) \in State(c)
         /\ \/ on_tick(s, c) = s /\ ~TimesOut(s) /\ ~Cools(s)
            \/ on_tick(s, c).age = 0
<1> DEFINE p == position(s, c)
           t == tilt(s, c)
<1>1. p \in POSITION_CLOSED .. POSITION_OPEN /\ t \in TILT_CLOSED .. TILT_OPEN(c)
  BY positionType, tiltType
<1>2. \/ on_tick(s, c) = s /\ ~TimesOut(s) /\ ~Cools(s)
      \/ on_tick(s, c) = Idle(p, t)
  BY DEF on_tick
<1> HIDE DEF p, t
<1>3. QED BY <1>1, <1>2, FreshType DEF Idle

----------------------------------------------------------------------------
(* Lemmas: the queue, the poll timer and the blind.                        *)

(* The queue never grows past its limit.                                   *)
LEMMA EnqueuedType ==
  ASSUME NEW q \in Seq(Commands), Len(q) <= MAX_QUEUE, NEW cmd \in Commands
  PROVE  Enqueued(q, cmd) \in Seq(Commands) /\ Len(Enqueued(q, cmd)) <= MAX_QUEUE
<1>1. CASE Collapses(q, cmd) \/ ~Accepts(q, cmd)
  BY <1>1 DEF Enqueued
<1>2. CASE ~Collapses(q, cmd) /\ Accepts(q, cmd)
  <2>1. Len(q) < MAX_QUEUE
    BY <1>2 DEF Accepts
  <2>2. Append(q, cmd) \in Seq(Commands) /\ Len(Append(q, cmd)) = Len(q) + 1
    OBVIOUS
  <2>3. Enqueued(q, cmd) = Append(q, cmd)
    BY <1>2 DEF Enqueued
  <2>4. MAX_QUEUE \in Nat /\ Len(q) \in Nat
    BY DeviceAssumption
  <2>5. QED BY <2>1, <2>2, <2>3, <2>4
<1>3. QED BY <1>1, <1>2

(* A STOP finds room, because it clears the queue first.                   *)
LEMMA StopQueuedType ==
  StopQueued \in Seq(Commands) /\ Len(StopQueued) <= MAX_QUEUE
<1>1. <<>> \in Seq(Commands) /\ Len(<<>>) <= MAX_QUEUE
  BY DeviceAssumption
<1>2. "STOP" \in Commands /\ "CHECK" \in Commands
  BY DEF Commands
<1>3. QED BY <1>1, <1>2, EnqueuedType DEF StopQueued

Poll == [sincePoll : 0 .. POLL_IDLE, sinceCommand : 0 .. RESPONSE_WAIT, awaiting : BOOLEAN]

(* Sending, hearing and waiting keep the poll timer well-typed.            *)
LEMMA PollType ==
  ASSUME NEW p \in Poll
  PROVE  /\ on_poll_sent(p) \in Poll /\ on_command_sent(p) \in Poll
         /\ on_rf_received(p) \in Poll /\ stopsWaiting(p) \in Poll
<1>1. 0 \in 0 .. POLL_IDLE /\ 0 \in 0 .. RESPONSE_WAIT
  BY DeviceAssumption
<1>2. QED
  BY <1>1 DEF Poll, on_poll_sent, on_command_sent, on_rf_received, stopsWaiting

(* A blind: where it can be, and that a running motor is not at its end.   *)
BlindRecord(c) ==
  [motor : {"still", "up", "down", "favorite"}, pos : 0 .. TRAVEL,
   tilt : 0 .. TILT_OPEN(c), tilted : BOOLEAN]

Blind(c) ==
  {b \in BlindRecord(c) :
     /\ b.motor = "up" => b.pos < TRAVEL \/ b.tilt < c.sweep
     /\ b.motor = "down" => b.pos > 0 \/ (b.tilt > 0 /\ c.sweep > 0)}

(* No command leaves the motor running against its end.                    *)
LEMMA ObeysType ==
  ASSUME ctx \in Context, NEW b \in Blind(ctx), NEW cmd \in Commands
  PROVE  Obeys(b, cmd) \in Blind(ctx)
<1>0. /\ TRAVEL \in Nat /\ ctx.sweep \in Nat /\ TILT_OPEN(ctx) \in Nat
      /\ b.pos \in 0 .. TRAVEL /\ b.tilt \in 0 .. TILT_OPEN(ctx)
      /\ b \in BlindRecord(ctx)
  BY CoverAssumption DEF Context, Blind, BlindRecord, TILT_OPEN, has_tilt_tracking
<1>1. \A motor \in {"up", "down", "favorite"} :
        /\ Runs(b, motor) \in BlindRecord(ctx)
        /\ Runs(b, motor).motor = motor
        /\ Runs(b, motor).pos = b.pos /\ Runs(b, motor).tilt = b.tilt
  BY <1>0 DEF Runs, BlindRecord
<1>2. CASE cmd = "UP" /\ ~AtEnd(b, "up")
  <2>1. b.pos < TRAVEL \/ b.tilt < ctx.sweep
    BY <1>0, <1>2 DEF AtEnd, POSITION_OPEN
  <2>2. Obeys(b, cmd) = Runs(b, "up")
    BY <1>2 DEF Obeys
  <2>3. QED BY <1>1, <2>1, <2>2 DEF Blind
<1>3. CASE cmd = "DOWN" /\ ~AtEnd(b, "down")
  <2>1. b.pos > 0 \/ (b.tilt > 0 /\ ctx.sweep > 0)
    BY <1>0, <1>3 DEF AtEnd, POSITION_CLOSED, has_tilt_tracking
  <2>2. Obeys(b, cmd) = Runs(b, "down")
    BY <1>3 DEF Obeys
  <2>3. QED BY <1>1, <2>1, <2>2 DEF Blind
<1>4. CASE cmd = "TILT"
  <2>1. Obeys(b, cmd) = Runs(b, "favorite")
    BY <1>4 DEF Obeys
  <2>2. QED BY <1>1, <2>1 DEF Blind
<1>5. CASE \/ cmd = "STOP"
           \/ cmd = "UP" /\ AtEnd(b, "up")
           \/ cmd = "DOWN" /\ AtEnd(b, "down")
  <2>1. Obeys(b, cmd) = [b EXCEPT !.motor = "still"]
    BY <1>5 DEF Obeys, Halts
  <2>2. QED BY <1>0, <2>1 DEF Blind, BlindRecord
<1>6. CASE cmd = "CHECK"
  BY <1>6 DEF Obeys
<1>7. QED BY <1>2, <1>3, <1>4, <1>5, <1>6 DEF Commands

(* One tick of the motor keeps the blind between its ends.                 *)
LEMMA AdvancesType ==
  ASSUME ctx \in Context, NEW b \in Blind(ctx)
  PROVE  Advances(b) \in BlindRecord(ctx) /\ Advances(b).motor \in {b.motor, "still"}
<1>0. /\ TRAVEL \in Nat /\ ctx.sweep \in Nat /\ TILT_OPEN(ctx) \in Nat
      /\ ctx.sweep <= TILT_OPEN(ctx)
      /\ b.pos \in 0 .. TRAVEL /\ b.tilt \in 0 .. TILT_OPEN(ctx)
      /\ b.motor \in {"still", "up", "down", "favorite"}
      /\ b \in BlindRecord(ctx)
  BY CoverAssumption DEF Context, Blind, BlindRecord, TILT_OPEN, has_tilt_tracking
<1>1. ASSUME NEW p \in 0 .. TRAVEL
      PROVE  /\ [b EXCEPT !.pos = p] \in BlindRecord(ctx)
             /\ [b EXCEPT !.pos = p].motor = b.motor
  BY <1>0 DEF BlindRecord
<1>2. ASSUME NEW t \in 0 .. TILT_OPEN(ctx)
      PROVE  /\ [b EXCEPT !.tilt = t] \in BlindRecord(ctx)
             /\ [b EXCEPT !.tilt = t].motor = b.motor
  BY <1>0 DEF BlindRecord
<1>3. CASE b.motor = "up"
  <2>1. CASE b.tilt < ctx.sweep
    <3>1. b.tilt + 1 \in 0 .. TILT_OPEN(ctx)
      BY <1>0, <2>1
    <3>2. Advances(b) = [b EXCEPT !.tilt = b.tilt + 1]
      BY <1>3, <2>1 DEF Advances
    <3>3. QED BY <1>2, <3>1, <3>2
  <2>2. CASE ~(b.tilt < ctx.sweep)
    <3>1. b.pos + 1 \in 0 .. TRAVEL
      BY <1>0, <1>3, <2>2 DEF Blind
    <3>2. Advances(b) = [b EXCEPT !.pos = b.pos + 1]
      BY <1>3, <2>2 DEF Advances
    <3>3. QED BY <1>1, <3>1, <3>2
  <2>3. QED BY <2>1, <2>2
<1>4. CASE b.motor = "down"
  <2>1. CASE b.tilt > 0 /\ has_tilt_tracking(ctx)
    <3>1. b.tilt - 1 \in 0 .. TILT_OPEN(ctx)
      BY <1>0, <2>1
    <3>2. Advances(b) = [b EXCEPT !.tilt = b.tilt - 1]
      BY <1>4, <2>1 DEF Advances
    <3>3. QED BY <1>2, <3>1, <3>2
  <2>2. CASE ~(b.tilt > 0 /\ has_tilt_tracking(ctx))
    <3>1. b.pos - 1 \in 0 .. TRAVEL
      BY <1>0, <1>4, <2>2 DEF Blind, has_tilt_tracking
    <3>2. Advances(b) = [b EXCEPT !.pos = b.pos - 1]
      BY <1>4, <2>2 DEF Advances
    <3>3. QED BY <1>1, <3>1, <3>2
  <2>3. QED BY <2>1, <2>2
<1>5. CASE b.motor = "favorite"
  <2>1. TILT_OPEN(ctx) \in 0 .. TILT_OPEN(ctx)
    BY <1>0
  <2>2. Advances(b) = [b EXCEPT !.motor = "still", !.tilt = TILT_OPEN(ctx), !.tilted = TRUE]
    BY <1>5 DEF Advances
  <2>3. QED BY <1>0, <2>1, <2>2 DEF BlindRecord
<1>6. CASE b.motor = "still"
  BY <1>0, <1>6 DEF Advances
<1>7. QED BY <1>0, <1>3, <1>4, <1>5, <1>6

(* And its end switch stops the motor there.                               *)
LEMMA TurnsType ==
  ASSUME ctx \in Context, NEW b \in Blind(ctx)
  PROVE  Turns(b) \in Blind(ctx)
<1> DEFINE a == Advances(b)
<1>1. a \in BlindRecord(ctx) /\ a.motor \in {b.motor, "still"}
  BY AdvancesType
<1> HIDE DEF a
<1>2. CASE AtEnd(a, b.motor)
  <2>1. Turns(b) = [a EXCEPT !.motor = "still"]
    BY <1>2 DEF Turns, Halts, a
  <2>2. QED BY <1>1, <2>1 DEF Blind, BlindRecord
<1>3. CASE ~AtEnd(a, b.motor)
  <2>1. Turns(b) = a
    BY <1>3 DEF Turns, a
  <2>2. /\ TRAVEL \in Nat /\ ctx.sweep \in Nat /\ TILT_OPEN(ctx) \in Nat
        /\ a.pos \in 0 .. TRAVEL /\ a.tilt \in 0 .. TILT_OPEN(ctx)
    BY <1>1, CoverAssumption DEF Context, BlindRecord, TILT_OPEN, has_tilt_tracking
  <2>3. QED
    BY <1>1, <1>3, <2>1, <2>2
       DEF Blind, AtEnd, POSITION_OPEN, POSITION_CLOSED, has_tilt_tracking
<1>4. QED BY <1>2, <1>3

(* A blind in its range has a report.                                      *)
LEMMA StatusOfType ==
  ASSUME NEW b \in Blind(ctx)
  PROVE  StatusOf(b) \in Status
BY DEF Blind, BlindRecord, StatusOf, Status

----------------------------------------------------------------------------
(* The inductive invariant.  CoverTypeOK bounds the age of a movement by   *)
(* the timeout itself, so that Tick needs to know that the loop, without   *)
(* which time does not move on, has left no state that is already as old;  *)
(* and it bounds the blind, so that Turns needs a motor that is not        *)
(* running against its end.                                                *)

TimeoutsKept(s) ==
  /\ s.age <= IF is_moving(s) THEN MOVEMENT_TIMEOUT ELSE COOLDOWN
  /\ looped => ~TimesOut(s) /\ ~Cools(s)

CoverInv ==
  /\ ctx \in Contexts
  /\ cover \in Cover(ctx)
  /\ TimeoutsKept(cover.state)
  /\ cover.target_position = NO_TARGET \/ cover.tilt_target = NO_TARGET
  /\ poll \in Poll
  /\ queue \in Seq(Commands) /\ Len(queue) <= MAX_QUEUE
  /\ air \in Seq(Status) /\ Len(air) <= AIR
  /\ blind \in Blind(ctx)
  /\ looped \in BOOLEAN

(* A state that was just entered is not as old as any timeout.             *)
LEMMA YoungType ==
  ASSUME NEW c \in Context, NEW s \in State(c), s.age = 0
  PROVE  TimeoutsKept(s)
BY CoverAssumption DEF TimeoutsKept, TimesOut, Cools

(* The invariant is a strengthening of CoverTypeOK.                        *)
LEMMA InvImpliesType == CoverInv => CoverTypeOK
BY DEF CoverInv, CoverTypeOK, TimeoutsKept, Poll, Blind, BlindRecord, POSITION_OPEN

(* A device just set up, in front of a blind at rest.                      *)
LEMMA InitInv == Init => CoverInv
<1> SUFFICES ASSUME Init PROVE CoverInv
  OBVIOUS
<1>1. ctx \in Contexts /\ ctx \in Context
  BY DeviceAssumption DEF Init
<1>2. /\ TRAVEL \div 2 \in POSITION_CLOSED .. POSITION_OPEN
      /\ TILT_OPEN(ctx) \div 2 \in TILT_CLOSED .. TILT_OPEN(ctx)
  <2>1. \A n \in Nat : n \div 2 \in 0 .. n
    OBVIOUS
  <2>2. TRAVEL \in Nat /\ TILT_OPEN(ctx) \in Nat
    BY <1>1, CoverAssumption DEF Context, TILT_OPEN, has_tilt_tracking
  <2>3. QED BY <2>1, <2>2 DEF POSITION_CLOSED, POSITION_OPEN, TILT_CLOSED
<1>3. /\ cover.state \in State(ctx) /\ cover.state.age = 0
      /\ cover = [state |-> cover.state, target_position |-> NO_TARGET,
                  tilt_target |-> NO_TARGET]
  BY <1>1, <1>2, FreshType DEF Init, Idle
<1>4. cover \in Cover(ctx) /\ TimeoutsKept(cover.state)
  BY <1>1, <1>3, YoungType DEF Cover
<1>5. poll \in Poll
  <2>1. /\ 0 \in 0 .. POLL_IDLE /\ POLL_IDLE \in 0 .. POLL_IDLE
        /\ 0 \in 0 .. RESPONSE_WAIT
    BY DeviceAssumption
  <2>2. \/ poll = [sincePoll |-> 0, sinceCommand |-> 0, awaiting |-> TRUE]
        \/ poll = [sincePoll |-> POLL_IDLE, sinceCommand |-> 0, awaiting |-> FALSE]
    BY DEF Init
  <2>3. \A n \in 0 .. POLL_IDLE, a \in BOOLEAN :
          [sincePoll |-> n, sinceCommand |-> 0, awaiting |-> a] \in Poll
    BY <2>1 DEF Poll
  <2>4. TRUE \in BOOLEAN /\ FALSE \in BOOLEAN
    OBVIOUS
  <2>5. QED BY <2>1, <2>2, <2>3, <2>4, Zenon
<1>6. queue \in Seq(Commands) /\ Len(queue) <= MAX_QUEUE
  <2>1. "CHECK" \in Commands /\ 1 <= MAX_QUEUE /\ 0 <= MAX_QUEUE
    BY DeviceAssumption DEF Commands
  <2>2. queue = <<"CHECK">> \/ queue = <<>>
    BY DEF Init
  <2>3. /\ <<"CHECK">> \in Seq(Commands) /\ Len(<<"CHECK">>) = 1
        /\ <<>> \in Seq(Commands) /\ Len(<<>>) = 0
    BY <2>1
  <2>4. QED BY <2>1, <2>2, <2>3
<1>7. air \in Seq(Status) /\ Len(air) <= AIR
  <2>1. 0 <= AIR
    BY DeviceAssumption
  <2>2. QED BY <2>1 DEF Init
<1>8. blind \in Blind(ctx)
  <2>1. PICK b \in BlindStarts :
          /\ b[2] <= TILT_OPEN(ctx)
          /\ blind = [motor |-> "still", pos |-> b[1], tilt |-> b[2], tilted |-> FALSE]
    BY DEF Init
  <2>2. b[1] \in 0 .. TRAVEL /\ b[2] \in 0 .. TILT_OPEN(ctx)
    <3>1. TILT_OPEN(ctx) \in Nat
      BY <1>1 DEF Context, TILT_OPEN, has_tilt_tracking
    <3>2. QED BY <2>1, <3>1, DeviceAssumption
  <2>3. QED BY <2>1, <2>2 DEF Blind, BlindRecord
<1>9. QED
  BY <1>1, <1>3, <1>4, <1>5, <1>6, <1>7, <1>8 DEF CoverInv, Init

----------------------------------------------------------------------------
(* Steps: the commands of the adapters.                                    *)

(* What every movement command does to the device is within CoverInv.      *)
LEMMA MovesInv ==
  ASSUME CoverInv, NEW cmd \in {"UP", "DOWN", "TILT"},
         NEW target \in {NO_TARGET} \cup 0 .. POSITION_OPEN,
         NEW tiltTarget \in {NO_TARGET} \cup TILT_CLOSED .. TILT_OPEN(ctx),
         target = NO_TARGET \/ tiltTarget = NO_TARGET,
         Moves(cmd, target, tiltTarget), UNCHANGED <<ctx, looped, blind, air>>
  PROVE  CoverInv'
<1>1. ctx \in Context /\ cover.state \in State(ctx)
  BY DeviceAssumption DEF CoverInv, Cover
<1> DEFINE s == on_command(cover.state, cmd, ctx)
<1>2. s \in State(ctx) /\ TimeoutsKept(s)
  <2>1. s \in State(ctx) /\ (s = cover.state \/ s.age = 0)
    BY <1>1, OnCommandType
  <2> HIDE DEF s
  <2>2. QED BY <1>1, <2>1, YoungType DEF CoverInv
<1>3. cover' = [state |-> s, target_position |-> target, tilt_target |-> tiltTarget]
  BY DEF Moves
<1> HIDE DEF s
<1>4. cover' \in Cover(ctx) /\ TimeoutsKept(cover.state)'
  <2>1. cover' \in Cover(ctx) /\ cover'.state = s
    BY <1>2, <1>3 DEF Cover
  <2>2. QED BY <1>2, <2>1 DEF TimeoutsKept, TimesOut, Cools
<1>5. queue' \in Seq(Commands) /\ Len(queue') <= MAX_QUEUE
  <2>1. cmd \in Commands /\ "CHECK" \in Commands
    BY DEF Commands
  <2>2. queue \in Seq(Commands) /\ Len(queue) <= MAX_QUEUE
    BY DEF CoverInv
  <2>3. queue' = Enqueued(Enqueued(queue, cmd), "CHECK")
    BY DEF Moves
  <2>4. /\ Enqueued(queue, cmd) \in Seq(Commands)
        /\ Len(Enqueued(queue, cmd)) <= MAX_QUEUE
    BY <2>1, <2>2, EnqueuedType
  <2>5. QED BY <2>1, <2>3, <2>4, EnqueuedType
<1>6. poll' \in Poll
  BY PollType DEF Moves, CoverInv
<1>7. QED
  BY <1>3, <1>4, <1>5, <1>6 DEF CoverInv, Cover

(* Each command of an adapter is a Moves, a STOP, a CHECK or nothing.      *)
LEMMA UserInv == CoverInv /\ User => CoverInv'
<1> SUFFICES ASSUME CoverInv, User PROVE CoverInv'
  OBVIOUS
<1>1. ctx \in Context /\ cover.state \in State(ctx) /\ cover \in Cover(ctx)
  BY DeviceAssumption DEF CoverInv, Cover
<1>2. NO_TARGET \in {NO_TARGET} \cup 0 .. POSITION_OPEN
      /\ NO_TARGET \in {NO_TARGET} \cup TILT_CLOSED .. TILT_OPEN(ctx)
  OBVIOUS
<1>3. CASE command_cover_stop
  <2> DEFINE s == on_command(cover.state, "STOP", ctx)
  <2>1. s \in State(ctx) /\ TimeoutsKept(s)
    <3>1. s \in State(ctx) /\ (s = cover.state \/ s.age = 0)
      BY <1>1, OnCommandType
    <3> HIDE DEF s
    <3>2. QED BY <1>1, <3>1, YoungType DEF CoverInv
  <2>2. /\ cover' = [state |-> s, target_position |-> NO_TARGET, tilt_target |-> NO_TARGET]
        /\ queue' = StopQueued /\ UNCHANGED <<poll, ctx, looped, blind, air>>
    BY <1>3 DEF command_cover_stop, Wished
  <2> HIDE DEF s
  <2>3. cover' \in Cover(ctx) /\ cover'.state = s
    BY <2>1, <2>2 DEF Cover
  <2>4. TimeoutsKept(cover.state)'
    BY <2>1, <2>2, <2>3 DEF TimeoutsKept, TimesOut, Cools
  <2>5. QED BY <2>2, <2>3, <2>4, StopQueuedType DEF CoverInv, Cover
<1>4. ASSUME NEW cmd \in {"UP", "DOWN", "TILT"}, command_cover_move(cmd)
      PROVE  CoverInv'
  <2>1. /\ Moves(cmd, cover.target_position, NO_TARGET)
        /\ UNCHANGED <<ctx, looped, blind, air>>
    BY <1>4 DEF command_cover_move, Wished
  <2>2. cover.target_position \in {NO_TARGET} \cup 0 .. POSITION_OPEN
    BY <1>1 DEF Cover
  <2>3. QED BY <1>2, <2>1, <2>2, MovesInv
<1>5. CASE request_check
  <2>1. /\ queue' = Enqueued(queue, "CHECK")
        /\ poll' = IF Accepts(queue, "CHECK") THEN on_poll_sent(poll) ELSE poll
        /\ UNCHANGED <<cover, ctx, looped, blind, air>>
    BY <1>5 DEF request_check, Wished
  <2>2. queue' \in Seq(Commands) /\ Len(queue') <= MAX_QUEUE
    <3>1. "CHECK" \in Commands
      BY DEF Commands
    <3>2. QED BY <2>1, <3>1, EnqueuedType DEF CoverInv
  <2>3. poll' \in Poll
    BY <2>1, PollType DEF CoverInv
  <2>4. QED BY <2>1, <2>2, <2>3 DEF CoverInv, TimeoutsKept, TimesOut, Cools
<1>6. ASSUME NEW target \in 0 .. POSITION_OPEN, set_cover_position(target)
      PROVE  CoverInv'
  <2>1. /\ \/ Moves("UP", NO_TARGET, NO_TARGET)
           \/ Moves("DOWN", NO_TARGET, NO_TARGET)
           \/ Moves("UP", target, NO_TARGET)
           \/ Moves("DOWN", target, NO_TARGET)
        /\ UNCHANGED <<ctx, looped, blind, air>>
    BY <1>6, Zenon DEF set_cover_position, Wished
  <2>2. target \in {NO_TARGET} \cup 0 .. POSITION_OPEN
    OBVIOUS
  <2>3. QED BY <1>2, <2>1, <2>2, MovesInv
<1>7. ASSUME NEW target \in TILT_CLOSED .. TILT_OPEN(ctx), set_cover_tilt(target)
      PROVE  CoverInv'
  <2>1. CASE command_cover_tilt
    BY <1>4, <2>1 DEF command_cover_tilt
  <2>2. CASE UNCHANGED <<device, ctx, looped, blind, air>>
    BY <2>2 DEF CoverInv, device, TimeoutsKept, TimesOut, Cools
  <2>3. CASE /\ \/ Moves("UP", NO_TARGET, target) \/ Moves("DOWN", NO_TARGET, target)
             /\ UNCHANGED <<ctx, looped, blind, air>>
    <3>1. target \in {NO_TARGET} \cup TILT_CLOSED .. TILT_OPEN(ctx)
      OBVIOUS
    <3>2. QED BY <1>2, <2>3, <3>1, MovesInv
  <2>4. QED BY <1>7, <2>1, <2>2, <2>3 DEF set_cover_tilt, Wished
<1>8. QED BY <1>3, <1>4, <1>5, <1>6, <1>7 DEF User

----------------------------------------------------------------------------
(* Steps: the main loop.                                                   *)

(* A report enters a state or leaves it.                                   *)
LEMMA DispatchInv == CoverInv /\ dispatch_status => CoverInv'
<1> SUFFICES ASSUME CoverInv, dispatch_status PROVE CoverInv'
  OBVIOUS
<1>1. ctx \in Context /\ cover.state \in State(ctx) /\ cover \in Cover(ctx)
  BY DeviceAssumption DEF CoverInv, Cover
<1>2. Head(air) \in Status /\ Tail(air) \in Seq(Status) /\ Len(Tail(air)) <= AIR
  BY DeviceAssumption DEF CoverInv, dispatch_status
<1> DEFINE s == on_rf_status(cover.state, Head(air), ctx)
<1>3. s \in State(ctx) /\ TimeoutsKept(s)
  <2>1. s \in State(ctx) /\ (s = cover.state \/ s.age = 0)
    BY <1>1, <1>2, OnRfStatusType
  <2> HIDE DEF s
  <2>2. QED BY <1>1, <2>1, YoungType DEF CoverInv
<1>4. /\ cover' = [cover EXCEPT !.state = s] /\ poll' = on_rf_received(poll)
      /\ air' = Tail(air) /\ UNCHANGED <<ctx, queue, looped, blind>>
  BY DEF dispatch_status
<1> HIDE DEF s
<1>5. /\ cover' \in Cover(ctx) /\ cover'.state = s
      /\ cover'.target_position = cover.target_position
      /\ cover'.tilt_target = cover.tilt_target
  BY <1>1, <1>3, <1>4 DEF Cover
<1>6. TimeoutsKept(cover.state)'
  BY <1>3, <1>4, <1>5 DEF TimeoutsKept, TimesOut, Cools
<1>7. poll' \in Poll
  BY <1>4, PollType DEF CoverInv
<1>8. QED BY <1>2, <1>4, <1>5, <1>6, <1>7 DEF CoverInv, Cover

(* The loop leaves no movement and no cooldown that is as old as its       *)
(* timeout: on_tick() has ended it, and a STOP starts a new one.           *)
LEMMA LoopInv == CoverInv /\ loop_cover => CoverInv'
<1> SUFFICES ASSUME CoverInv, loop_cover PROVE CoverInv'
  OBVIOUS
<1>1. ctx \in Context /\ cover.state \in State(ctx) /\ cover \in Cover(ctx)
  BY DeviceAssumption DEF CoverInv, Cover
<1> DEFINE s == on_tick(cover.state, ctx)
           cooled == Cools(cover.state)
           polls == due(poll, is_moving(s))
           asked == IF polls \/ cooled THEN Enqueued(queue, "CHECK") ELSE queue
           byPosition == positionReached(s)
           stops == byPosition \/ tiltReached(s)
           next == IF stops THEN on_command(s, "STOP", ctx) ELSE s
           target == IF byPosition THEN NO_TARGET ELSE cover.target_position
           tiltTarget == IF tiltReached(s) /\ ~byPosition THEN NO_TARGET
                                                          ELSE cover.tilt_target
<1>2. /\ s \in State(ctx)
      /\ s.age <= IF is_moving(s) THEN MOVEMENT_TIMEOUT ELSE COOLDOWN
      /\ ~TimesOut(s) /\ ~Cools(s)
  <2>1. /\ s \in State(ctx)
        /\ \/ s = cover.state /\ ~TimesOut(cover.state) /\ ~Cools(cover.state)
           \/ s.age = 0
    BY <1>1, OnTickType
  <2> HIDE DEF s
  <2>2. CASE s.age = 0
    BY <2>1, <2>2, CoverAssumption DEF TimesOut, Cools
  <2>3. CASE s = cover.state /\ ~TimesOut(cover.state) /\ ~Cools(cover.state)
    BY <2>1, <2>3 DEF CoverInv, TimeoutsKept
  <2>4. QED BY <2>1, <2>2, <2>3
<1>3. /\ next \in State(ctx)
      /\ next.age <= IF is_moving(next) THEN MOVEMENT_TIMEOUT ELSE COOLDOWN
      /\ ~TimesOut(next) /\ ~Cools(next)
  <2> HIDE DEF s, stops
  <2>1. next \in State(ctx) /\ (next = s \/ next.age = 0)
    BY <1>1, <1>2, OnCommandType
  <2>2. CASE next.age = 0
    BY <2>1, <2>2, CoverAssumption DEF TimesOut, Cools
  <2>3. CASE next = s
    BY <1>2, <2>3
  <2>4. QED BY <2>1, <2>2, <2>3
<1>4. asked \in Seq(Commands) /\ Len(asked) <= MAX_QUEUE
  <2>1. "CHECK" \in Commands
    BY DEF Commands
  <2>2. QED BY <2>1, EnqueuedType DEF CoverInv
<1>5. /\ poll' \in {on_poll_sent(poll), stopsWaiting(poll)}
      /\ queue' \in {StopQueued, asked}
      /\ cover' = [state |-> next, target_position |-> target, tilt_target |-> tiltTarget]
      /\ looped' = TRUE /\ UNCHANGED <<ctx, blind, air>>
  BY DEF loop_cover
<1>6. /\ target \in {NO_TARGET, cover.target_position}
      /\ tiltTarget \in {NO_TARGET, cover.tilt_target}
  OBVIOUS
<1> HIDE DEF s, next, asked, target, tiltTarget
<1>7. /\ cover' \in Cover(ctx) /\ cover'.state = next
      /\ cover'.target_position = NO_TARGET \/ cover'.tilt_target = NO_TARGET
  <2>1. /\ target \in {NO_TARGET} \cup 0 .. POSITION_OPEN
        /\ tiltTarget \in {NO_TARGET} \cup TILT_CLOSED .. TILT_OPEN(ctx)
        /\ target = NO_TARGET \/ tiltTarget = NO_TARGET
    BY <1>1, <1>6 DEF CoverInv, Cover
  <2>2. QED BY <1>3, <1>5, <2>1 DEF Cover
<1>8. TimeoutsKept(cover.state)'
  BY <1>3, <1>7 DEF TimeoutsKept, TimesOut, Cools
<1>9. poll' \in Poll
  BY <1>5, PollType DEF CoverInv
<1>10. queue' \in Seq(Commands) /\ Len(queue') <= MAX_QUEUE
  BY <1>4, <1>5, StopQueuedType
<1>11. QED BY <1>5, <1>7, <1>8, <1>9, <1>10 DEF CoverInv, Cover

----------------------------------------------------------------------------
(* Steps: the blind, the radio and time.                                   *)

(* Reports are dropped when there is no room.                              *)
LEMMA AirType ==
  ASSUME air \in Seq(Status), Len(air) <= AIR, NEW status \in Status
  PROVE  \A q \in {IF Len(air) < AIR THEN Append(air, status) ELSE air, air} :
           q \in Seq(Status) /\ Len(q) <= AIR
<1>1. AIR \in Nat /\ Len(air) \in Nat
  BY DeviceAssumption
<1>2. Append(air, status) \in Seq(Status) /\ Len(Append(air, status)) = Len(air) + 1
  OBVIOUS
<1>3. QED BY <1>1, <1>2

(* A command reaches the blind, a CHECK is answered.                       *)
LEMMA TransmitInv == CoverInv /\ Transmit => CoverInv'
<1> SUFFICES ASSUME CoverInv, Transmit PROVE CoverInv'
  OBVIOUS
<1>1. ctx \in Context /\ blind \in Blind(ctx)
  BY DeviceAssumption DEF CoverInv
<1>2. /\ Head(queue) \in Commands /\ Tail(queue) \in Seq(Commands)
      /\ Len(Tail(queue)) <= MAX_QUEUE
  BY DeviceAssumption DEF CoverInv, Transmit
<1>3. blind' \in Blind(ctx)
  BY <1>1, <1>2, ObeysType DEF Transmit
<1>4. air' \in Seq(Status) /\ Len(air') <= AIR
  <2>1. StatusOf(blind) \in Status
    BY <1>1, StatusOfType
  <2>2. air' \in {IF Len(air) < AIR THEN Append(air, StatusOf(blind)) ELSE air, air}
    BY DEF Transmit
  <2>3. QED BY <2>1, <2>2, AirType DEF CoverInv
<1>5. QED
  BY <1>2, <1>3, <1>4 DEF CoverInv, Transmit, TimeoutsKept, TimesOut, Cools

(* Losses only shorten a queue; the wall remote is one more command.       *)
LEMMA TroubleInv == CoverInv /\ (CommandLost \/ ReportLost \/ WallRemote) => CoverInv'
<1> SUFFICES ASSUME CoverInv, CommandLost \/ ReportLost \/ WallRemote PROVE CoverInv'
  OBVIOUS
<1>1. CASE CommandLost
  <2>1. queue' \in Seq(Commands) /\ Len(queue') <= MAX_QUEUE
    BY <1>1, DeviceAssumption DEF CoverInv, CommandLost
  <2>2. QED
    BY <1>1, <2>1 DEF CoverInv, CommandLost, TimeoutsKept, TimesOut, Cools
<1>2. CASE ReportLost
  <2>1. air' \in Seq(Status) /\ Len(air') <= AIR
    BY <1>2, DeviceAssumption DEF CoverInv, ReportLost
  <2>2. QED
    BY <1>2, <2>1 DEF CoverInv, ReportLost, device, TimeoutsKept, TimesOut, Cools
<1>3. CASE WallRemote
  <2>1. PICK cmd \in {"UP", "DOWN", "STOP"}, reports \in BOOLEAN :
          BlindActs(Obeys(blind, cmd), reports)
    BY <1>3 DEF WallRemote
  <2> DEFINE b == Obeys(blind, cmd)
  <2>2. b \in Blind(ctx)
    <3>1. ctx \in Context /\ blind \in Blind(ctx) /\ cmd \in Commands
      BY DeviceAssumption DEF CoverInv, Commands
    <3>2. QED BY <3>1, ObeysType
  <2> HIDE DEF b
  <2>3. /\ blind' = b /\ UNCHANGED <<ctx, device, looped>>
        /\ air' \in {IF Len(air) < AIR THEN Append(air, StatusOf(b)) ELSE air, air}
    BY <2>1 DEF BlindActs, b
  <2>4. air' \in Seq(Status) /\ Len(air') <= AIR
    BY <2>2, <2>3, StatusOfType, AirType DEF CoverInv
  <2>5. QED
    BY <2>2, <2>3, <2>4 DEF CoverInv, device, TimeoutsKept, TimesOut, Cools
<1>4. QED BY <1>1, <1>2, <1>3

(* Time moves on only after the loop, so that a movement or a cooldown     *)
(* reaches its timeout but does not pass it.                               *)
LEMMA TickInv == CoverInv /\ Tick => CoverInv'
<1> SUFFICES ASSUME CoverInv, Tick PROVE CoverInv'
  OBVIOUS
<1>1. ctx \in Context /\ cover.state \in State(ctx) /\ cover \in Cover(ctx)
  BY DeviceAssumption DEF CoverInv, Cover
<1> DEFINE s == Older(cover.state)
<1>2. s \in State(ctx) /\ s.kind = cover.state.kind
      /\ s.age = IF s.kind = "Idle" THEN cover.state.age ELSE cover.state.age + 1
  BY <1>1 DEF Older, State
<1>3. s.age <= IF is_moving(s) THEN MOVEMENT_TIMEOUT ELSE COOLDOWN
  <2>1. cover.state.age \in Nat /\ cover.state.kind \in {"Idle", "Opening", "Closing", "Stopping"}
    BY <1>1 DEF State
  <2>2. MOVEMENT_TIMEOUT \in Nat /\ COOLDOWN \in Nat
    BY CoverAssumption
  <2>3. /\ ~TimesOut(cover.state) /\ ~Cools(cover.state)
        /\ cover.state.age <= IF is_moving(cover.state) THEN MOVEMENT_TIMEOUT ELSE COOLDOWN
    BY DEF CoverInv, TimeoutsKept, Tick
  <2> HIDE DEF s
  <2>4. QED BY <1>2, <2>1, <2>2, <2>3 DEF is_moving, TimesOut, Cools
<1>4. /\ cover' = [cover EXCEPT !.state = s]
      /\ poll' = [poll EXCEPT !.sincePoll = Capped(poll.sincePoll, POLL_IDLE),
                              !.sinceCommand = Capped(poll.sinceCommand, RESPONSE_WAIT)]
      /\ blind' = Turns(blind) /\ looped' = FALSE /\ UNCHANGED <<ctx, queue, air>>
  BY DEF Tick
<1> HIDE DEF s
<1>5. /\ cover' \in Cover(ctx) /\ cover'.state = s
      /\ cover'.target_position = cover.target_position
      /\ cover'.tilt_target = cover.tilt_target
  BY <1>1, <1>2, <1>4 DEF Cover
<1>6. TimeoutsKept(cover.state)'
  BY <1>3, <1>4, <1>5 DEF TimeoutsKept
<1>7. poll' \in Poll
  <2>1. /\ POLL_IDLE \in Nat /\ RESPONSE_WAIT \in Nat
        /\ poll.sincePoll \in 0 .. POLL_IDLE /\ poll.sinceCommand \in 0 .. RESPONSE_WAIT
    BY DeviceAssumption DEF CoverInv, Poll
  <2>2. /\ Capped(poll.sincePoll, POLL_IDLE) \in 0 .. POLL_IDLE
        /\ Capped(poll.sinceCommand, RESPONSE_WAIT) \in 0 .. RESPONSE_WAIT
    BY <2>1 DEF Capped, Least
  <2>3. QED BY <1>4, <2>2 DEF CoverInv, Poll
<1>8. blind' \in Blind(ctx)
  BY <1>1, <1>4, TurnsType DEF CoverInv
<1>9. QED BY <1>4, <1>5, <1>6, <1>7, <1>8 DEF CoverInv, Cover

----------------------------------------------------------------------------

(* Every step keeps the invariant.                                         *)
LEMMA CoverStep ==
  ASSUME CoverInv, [Next]_vars
  PROVE  CoverInv'
<1>1. CASE User
  BY <1>1, UserInv
<1>2. CASE dispatch_status
  BY <1>2, DispatchInv
<1>3. CASE loop_cover
  BY <1>3, LoopInv
<1>4. CASE Transmit
  BY <1>4, TransmitInv
<1>5. CASE CommandLost \/ ReportLost \/ WallRemote
  BY <1>5, TroubleInv
<1>6. CASE Tick
  BY <1>6, TickInv
<1>7. CASE UNCHANGED vars
  BY <1>7 DEF CoverInv, vars, device, TimeoutsKept, TimesOut, Cools
<1>8. QED BY <1>1, <1>2, <1>3, <1>4, <1>5, <1>6, <1>7 DEF Next

(* No movement and no cooldown of a cover outlives its timeout, a position *)
(* and a tilt target are never set at once, the sender's queue keeps its   *)
(* limit and the blind stays between its ends, whatever the adapters do,   *)
(* whatever is lost and whatever the wall remote does.                     *)
THEOREM CoverCorrect == Spec => []CoverTypeOK
BY CoverStep, InitInv, InvImpliesType, PTL DEF Spec

----------------------------------------------------------------------------
(* What holds after a STOP and while a wish is relied on.                  *)

Kinds == {"none", "stop", "favorite", "full", "check", "nudge", "position", "ignored", "tilt"}

HistoryOK ==
  /\ used \in [user : Nat, trouble : Nat, late : Nat]
  /\ wish \in [kind : Kinds, value : Int, from : Int, turned : BOOLEAN]

Ends == {"TOP", "BOTTOM"}
Moving == {"MOVING_UP", "MOVING_DOWN"}

StopFirst == Len(queue) > 0 /\ queue[1] = "STOP"
MoveFirst == Len(queue) > 0 /\ queue[1] \in {"UP", "DOWN"}

(* The estimate stands still for as long as a report from before the STOP  *)
(* can still come: such reports and the STOP itself are under way only in  *)
(* the cooldown, which is not longer than the ticks that were late, and    *)
(* no report of an end that would cut the cooldown short goes before them. *)
Braked ==
  /\ ~is_moving(cover.state)
  /\ StopFirst => /\ cover.state.kind = "Stopping"
                  /\ cover.state.age <= used.late
                  /\ \A i \in 1 .. Len(air) : air[i] \notin Ends
  /\ ~StopFirst => blind.motor = "still"
  /\ \A i \in 1 .. Len(air) :
       air[i] \in Moving => cover.state.kind = "Stopping" /\ cover.state.age <= used.late
  /\ \A i, j \in 1 .. Len(air) : i < j /\ air[i] \in Ends => air[j] \notin Moving

StopInv ==
  wish.kind = "stop" =>
    /\ \A i \in 1 .. Len(queue) :
         queue[i] \in {"STOP", "CHECK"} /\ (queue[i] = "STOP" => i = 1)
    /\ wish.value = 1 /\ used.late < COOLDOWN => Braked

----------------------------------------------------------------------------
(* Lemmas: the elements of the queues.                                     *)

(* What a CHECK leaves of a queue, and where it goes.                      *)
LEMMA CheckQueued ==
  ASSUME NEW q \in Seq(Commands), NEW r, r = Enqueued(q, "CHECK")
  PROVE  /\ r \in Seq(Commands) /\ Len(r) \in {Len(q), Len(q) + 1}
         /\ \A i \in 1 .. Len(r) :
              \/ i \in 1 .. Len(q) /\ r[i] = q[i]
              \/ i = Len(q) + 1 /\ r[i] = "CHECK"
         /\ Len(q) > 0 => Len(r) > 0 /\ r[1] = q[1]
<1>1. CASE r = q
  <2>1. Len(q) \in Nat
    OBVIOUS
  <2>2. QED BY <1>1, <2>1
<1>2. CASE r = Append(q, "CHECK")
  <2>1. "CHECK" \in Commands
    BY DEF Commands
  <2>2. /\ Len(r) = Len(q) + 1 /\ Len(q) \in Nat /\ r \in Seq(Commands)
        /\ r[Len(q) + 1] = "CHECK" /\ \A i \in 1 .. Len(q) : r[i] = q[i]
    BY <1>2, <2>1
  <2>3. QED BY <2>2
<1>3. QED BY <1>1, <1>2 DEF Enqueued

(* A command into an empty queue is the first there.                       *)
LEMMA CommandQueued ==
  ASSUME NEW cmd \in Commands
  PROVE  /\ Enqueued(<<>>, cmd) = <<cmd>>
         /\ cmd # "CHECK" =>
              \A r : r = Enqueued(Enqueued(<<>>, cmd), "CHECK")
                => r \in Seq(Commands) /\ Len(r) = 2 /\ r[1] = cmd /\ r[2] = "CHECK"
<1>1. ~Collapses(<<>>, cmd) /\ Accepts(<<>>, cmd)
  BY DeviceAssumption DEF Collapses, Accepts
<1>2. Enqueued(<<>>, cmd) = <<cmd>>
  BY <1>1 DEF Enqueued
<1>3. ASSUME cmd # "CHECK", NEW r, r = Enqueued(<<cmd>>, "CHECK")
      PROVE  r \in Seq(Commands) /\ Len(r) = 2 /\ r[1] = cmd /\ r[2] = "CHECK"
  <2> DEFINE q == <<cmd>>
  <2>1. q \in Seq(Commands) /\ Len(q) = 1 /\ q[1] = cmd /\ q # <<>>
    OBVIOUS
  <2>2. "CHECK" \in Commands
    BY DEF Commands
  <2>3. r = Enqueued(q, "CHECK")
    BY <1>3
  <2> HIDE DEF q
  <2>4. ~Collapses(q, "CHECK")
    BY <1>3, <2>1 DEF Collapses, Last
  <2>5. Accepts(q, "CHECK")
    BY <2>1, DeviceAssumption DEF Accepts
  <2>6. r = Append(q, "CHECK")
    BY <2>3, <2>4, <2>5 DEF Enqueued
  <2>7. /\ r \in Seq(Commands) /\ Len(r) = Len(q) + 1 /\ r[Len(q) + 1] = "CHECK"
        /\ \A i \in 1 .. Len(q) : r[i] = q[i]
    BY <2>1, <2>2, <2>6
  <2>8. QED BY <2>1, <2>7
<1>4. \A r : r = Enqueued(Enqueued(<<>>, cmd), "CHECK") => r = Enqueued(<<cmd>>, "CHECK")
  BY <1>2
<1>5. QED BY <1>2, <1>3, <1>4

(* A cleared queue with the STOP in it.                                    *)
LEMMA StopQueuedIs ==
  ASSUME NEW r, r = StopQueued
  PROVE  r \in Seq(Commands) /\ Len(r) = 2 /\ r[1] = "STOP" /\ r[2] = "CHECK"
BY CommandQueued DEF StopQueued, Commands

(* The queue after its first element is gone.                              *)
LEMMA TailIs ==
  ASSUME NEW S, NEW q \in Seq(S), q # <<>>
  PROVE  /\ Tail(q) \in Seq(S) /\ Len(Tail(q)) = Len(q) - 1 /\ Len(q) \in Nat \ {0}
         /\ \A i \in 1 .. Len(Tail(q)) : Tail(q)[i] = q[i + 1] /\ i + 1 \in 1 .. Len(q)
         /\ Head(q) = q[1]
<1>1. Len(q) \in Nat \ {0}
  OBVIOUS
<1>2. QED BY <1>1

(* A report that may have found room, after those before it.               *)
LEMMA ReportIs ==
  ASSUME NEW q \in Seq(Status), NEW st \in Status, NEW r \in {q, Append(q, st)}
  PROVE  /\ r \in Seq(Status) /\ Len(r) \in {Len(q), Len(q) + 1} /\ Len(q) \in Nat
         /\ \A i \in 1 .. Len(r) :
              \/ i \in 1 .. Len(q) /\ r[i] = q[i]
              \/ i = Len(q) + 1 /\ r[i] = st
<1>1. CASE r = q
  <2>1. Len(q) \in Nat
    OBVIOUS
  <2>2. QED BY <1>1, <2>1
<1>2. CASE r = Append(q, st)
  <2>1. /\ Len(r) = Len(q) + 1 /\ Len(q) \in Nat /\ r \in Seq(Status)
        /\ r[Len(q) + 1] = st /\ \A i \in 1 .. Len(q) : r[i] = q[i]
    BY <1>2
  <2>2. QED BY <2>1
<1>3. QED BY <1>1, <1>2
----------------------------------------------------------------------------
(* Steps: the history keeps its type, and a STOP holds.                    *)

(* A wish is made by a command of an adapter and kept or given up by all   *)
(* other steps.                                                            *)
LEMMA HistoryStep ==
  ASSUME CoverInv, HistoryOK, [Next]_vars
  PROVE  HistoryOK'
<1>1. ASSUME NEW kind \in Kinds, NEW value \in Int, Wished(kind, value)
      PROVE  HistoryOK'
  <2>1. blind.pos \in Int
    BY CoverAssumption DEF CoverInv, Blind, BlindRecord
  <2>2. used' = [used EXCEPT !.user = used.user + 1]
    BY <1>1 DEF Wished
  <2>3. used' \in [user : Nat, trouble : Nat, late : Nat]
    BY <2>2 DEF HistoryOK
  <2>4. wish' \in [kind : Kinds, value : Int, from : Int, turned : BOOLEAN]
    <3> DEFINE from == IF kind = "tilt" THEN blind.pos ELSE 0
               turned == /\ kind = "position"
                         /\ blind.motor = IF value > blind.pos THEN "down" ELSE "up"
    <3>1. wish' \in {NoWish,
                     [kind |-> kind, value |-> value, from |-> from, turned |-> turned]}
      BY <1>1 DEF Wished
    <3>2. from \in Int /\ turned \in BOOLEAN
      BY <2>1
    <3> HIDE DEF from, turned
    <3>3. NoWish \in [kind : Kinds, value : Int, from : Int, turned : BOOLEAN]
      BY DEF NoWish, Kinds
    <3>4. QED BY <3>1, <3>2, <3>3
  <2>5. QED BY <2>3, <2>4 DEF HistoryOK
<1>2. CASE User
  <2>1. ctx \in Context
    BY DeviceAssumption DEF CoverInv
  <2>2. \A t \in TILT_CLOSED .. TILT_OPEN(ctx) : t \in Int
    BY <2>1 DEF Context, TILT_OPEN, TILT_CLOSED, has_tilt_tracking
  <2>3. \E kind \in Kinds, value \in Int : Wished(kind, value)
    <3>1. CASE command_cover_stop
      BY <3>1 DEF command_cover_stop, Kinds
    <3>2. ASSUME NEW cmd, command_cover_move(cmd)
          PROVE  \E kind \in Kinds, value \in Int : Wished(kind, value)
      BY <3>2 DEF command_cover_move, Kinds
    <3>3. CASE request_check
      BY <3>3 DEF request_check, Kinds
    <3>4. ASSUME NEW target \in 0 .. POSITION_OPEN, set_cover_position(target)
          PROVE  \E kind \in Kinds, value \in Int : Wished(kind, value)
      BY <3>4 DEF set_cover_position, Kinds
    <3>5. ASSUME NEW target \in TILT_CLOSED .. TILT_OPEN(ctx), set_cover_tilt(target)
          PROVE  \E kind \in Kinds, value \in Int : Wished(kind, value)
      <4>1. target \in Int /\ "ignored" \in Kinds /\ "tilt" \in Kinds
        BY <2>2 DEF Kinds
      <4>2. CASE command_cover_tilt
        BY <3>2, <4>2 DEF command_cover_tilt
      <4>3. CASE Wished("ignored", 0) \/ Wished("tilt", target)
        BY <4>1, <4>3
      <4>4. QED BY <3>5, <4>2, <4>3 DEF set_cover_tilt
    <3>6. QED BY <1>2, <3>1, <3>2, <3>3, <3>4, <3>5 DEF User
  <2>4. QED BY <1>1, <2>3
<1>3. CASE Trouble
  <2>1. used' \in [user : Nat, trouble : Nat, late : Nat]
    BY <1>3 DEF Trouble, HistoryOK
  <2>2. wish' \in [kind : Kinds, value : Int, from : Int, turned : BOOLEAN]
    BY <1>3 DEF Trouble, NoWish, Kinds
  <2>3. QED BY <2>1, <2>2 DEF HistoryOK
<1>4. CASE Tick
  <2>1. NoWish \in [kind : Kinds, value : Int, from : Int, turned : BOOLEAN]
    BY DEF NoWish, Kinds
  <2>2. wish' \in {wish, NoWish} /\ used' \in {used, [used EXCEPT !.late = used.late + 1]}
    BY <1>4 DEF Tick
  <2>3. used' \in [user : Nat, trouble : Nat, late : Nat]
    BY <2>2 DEF HistoryOK
  <2>4. QED BY <2>1, <2>2, <2>3 DEF HistoryOK
<1>5. CASE UNCHANGED <<wish, used>>
  BY <1>5 DEF HistoryOK
<1>6. QED
  BY <1>2, <1>3, <1>4, <1>5
     DEF Next, dispatch_status, loop_cover, Transmit, CommandLost, ReportLost,
         WallRemote, BlindActs, vars

(* Only a STOP wishes for one.                                             *)
LEMMA StopWished ==
  ASSUME User, wish'.kind = "stop"
  PROVE  command_cover_stop
<1>1. ASSUME NEW kind, NEW value, Wished(kind, value), kind # "stop"
      PROVE  wish'.kind # "stop"
  BY <1>1 DEF Wished, NoWish
<1>2. ASSUME NEW cmd, command_cover_move(cmd) PROVE FALSE
  BY <1>1, <1>2 DEF command_cover_move
<1>3. CASE request_check
  BY <1>1, <1>3 DEF request_check
<1>4. ASSUME NEW target, set_cover_position(target) PROVE FALSE
  BY <1>1, <1>4 DEF set_cover_position
<1>5. ASSUME NEW target, set_cover_tilt(target) PROVE FALSE
  BY <1>1, <1>2, <1>5 DEF set_cover_tilt, command_cover_tilt
<1>6. QED BY <1>2, <1>3, <1>4, <1>5 DEF User

(* The STOP itself: what was queued before it is gone.                     *)
LEMMA StopStarts ==
  ASSUME CoverInv, HistoryOK, User, wish'.kind = "stop"
  PROVE  StopInv'
<1>1. command_cover_stop
  BY StopWished
<1>2. queue' = StopQueued
  BY <1>1 DEF command_cover_stop
<1>3. Len(queue') = 2 /\ queue'[1] = "STOP" /\ queue'[2] = "CHECK"
  BY <1>2, StopQueuedIs
<1>4. ASSUME wish'.value = 1
      PROVE  Braked'
  <2>1. is_moving(cover.state) /\ Range(air) \cap {"TOP", "BOTTOM"} = {}
    BY <1>1, <1>4 DEF command_cover_stop, Wished, NoWish
  <2>2. cover'.state = Stopping(position(cover.state, ctx), tilt(cover.state, ctx))
    BY <1>1, <2>1 DEF command_cover_stop, on_command, is_moving
  <2>3. cover'.state.kind = "Stopping" /\ cover'.state.age = 0
    BY <2>2 DEF Stopping, Fresh
  <2>4. UNCHANGED air /\ used'.late \in Nat
    BY <1>1 DEF command_cover_stop, Wished, HistoryOK
  <2>5. \A i \in 1 .. Len(air) : air[i] \notin Ends
    <3>1. \A i \in 1 .. Len(air) : air[i] \in Range(air)
      BY DEF Range, CoverInv
    <3>2. QED BY <2>1, <3>1 DEF Ends
  <2>6. StopFirst'
    BY <1>3 DEF StopFirst
  <2>7. 0 <= used'.late
    BY <2>4
  <2>8. QED BY <2>3, <2>4, <2>5, <2>6, <2>7 DEF Braked, is_moving
<1>5. QED BY <1>3, <1>4 DEF StopInv

(* In the cooldown only a plain end is heeded, and out of it only a report *)
(* that the blind moves sets the estimate in motion.                       *)
LEMMA StopHeeds ==
  ASSUME NEW c, NEW s, NEW status \in Status, s.kind \in {"Idle", "Stopping"},
         status \in Moving => s.kind = "Stopping"
  PROVE  /\ ~is_moving(on_rf_status(s, status, c))
         /\ s.kind = "Stopping" /\ status \notin Ends => on_rf_status(s, status, c) = s
<1> DEFINE p == position(s, c)
           r == rf_tilt(status, c)
<1>1. on_rf_status(s, status, c) \in
        {s, Idle(POSITION_OPEN, r), Idle(POSITION_CLOSED, r), Idle(p, r)}
  <2> HIDE DEF p, r
  <2>1. QED BY DEF on_rf_status, Status, Moving, Heeded, is_moving, p, r
<1>2. QED BY <1>1 DEF Idle, Fresh, is_moving, on_rf_status, Heeded, Ends, Status

(* A report that comes after the STOP was asked for.                       *)
LEMMA StopDispatch ==
  ASSUME CoverInv, StopInv, dispatch_status
  PROVE  StopInv'
<1> SUFFICES ASSUME wish.kind = "stop" PROVE StopInv'
  BY DEF dispatch_status, StopInv
<1> DEFINE s == on_rf_status(cover.state, Head(air), ctx)
<1>1. /\ air # <<>> /\ air' = Tail(air) /\ cover'.state = s
      /\ UNCHANGED <<queue, blind, wish, used>>
  <2>1. cover \in Cover(ctx)
    BY DEF CoverInv
  <2>2. QED BY <2>1 DEF dispatch_status, Cover
<1>2. /\ \A i \in 1 .. Len(air') : air'[i] = air[i + 1] /\ i + 1 \in 1 .. Len(air)
      /\ Head(air) = air[1] /\ Len(air) \in Nat \ {0} /\ Len(air') = Len(air) - 1
      /\ Head(air) \in Status
  BY <1>1, TailIs DEF CoverInv
<1>3. ASSUME Braked
      PROVE  Braked'
  <2>1. cover.state.kind \in {"Idle", "Stopping"}
    BY <1>3 DEF Braked, CoverInv, Cover, State, is_moving
  <2>2. 1 \in 1 .. Len(air)
    BY <1>2
  <2>3. Head(air) \in Moving => cover.state.kind = "Stopping"
    BY <1>2, <1>3, <2>2 DEF Braked
  <2>4. /\ ~is_moving(s)
        /\ cover.state.kind = "Stopping" /\ Head(air) \notin Ends => s = cover.state
    BY <1>2, <2>1, <2>3, StopHeeds
  <2> HIDE DEF s
  <2>5. ASSUME StopFirst
        PROVE  s = cover.state
    BY <1>2, <1>3, <2>2, <2>4, <2>5 DEF Braked
  <2>6. ASSUME NEW i \in 1 .. Len(air'), air'[i] \in Moving
        PROVE  s = cover.state /\ cover.state.kind = "Stopping" /\ cover.state.age <= used.late
    <3>1. i + 1 \in 1 .. Len(air) /\ air[i + 1] \in Moving /\ 1 < i + 1
      BY <1>2, <2>6
    <3>2. air[1] \notin Ends
      BY <1>3, <2>2, <3>1 DEF Braked
    <3>3. QED BY <1>2, <1>3, <2>4, <3>1, <3>2 DEF Braked
  <2>7. ASSUME NEW i \in 1 .. Len(air'), NEW j \in 1 .. Len(air'), i < j, air'[i] \in Ends
        PROVE  air'[j] \notin Moving
    <3>1. /\ i + 1 \in 1 .. Len(air) /\ j + 1 \in 1 .. Len(air) /\ i + 1 < j + 1
          /\ air'[i] = air[i + 1] /\ air'[j] = air[j + 1]
      BY <1>2, <2>7
    <3>2. QED BY <1>3, <2>7, <3>1 DEF Braked
  <2>8. ASSUME StopFirst
        PROVE  \A i \in 1 .. Len(air') : air'[i] \notin Ends
    BY <1>2, <1>3, <2>8 DEF Braked
  <2>9. StopFirst' <=> StopFirst
    BY <1>1 DEF StopFirst
  <2>10. QED
    BY <1>1, <1>3, <2>4, <2>5, <2>6, <2>7, <2>8, <2>9 DEF Braked
<1>4. QED BY <1>1, <1>3 DEF StopInv

(* The loop may end the cooldown, and ask for the state again.             *)
LEMMA StopLoop ==
  ASSUME CoverInv, HistoryOK, StopInv, loop_cover
  PROVE  StopInv'
<1> SUFFICES ASSUME wish.kind = "stop" PROVE StopInv'
  BY DEF loop_cover, StopInv
<1> DEFINE s == on_tick(cover.state, ctx)
           stops == positionReached(s) \/ tiltReached(s)
<1>1. /\ \/ queue' = StopQueued
         \/ queue' \in {queue, Enqueued(queue, "CHECK")}
      /\ UNCHANGED <<blind, air, wish, used>>
  BY DEF loop_cover
<1>2. ~stops => queue' \in {queue, Enqueued(queue, "CHECK")} /\ cover'.state = s
  BY DEF loop_cover
<1>3. ASSUME NEW q, q \in {queue, Enqueued(queue, "CHECK")}
      PROVE  /\ \A i \in 1 .. Len(q) : q[i] \in {"STOP", "CHECK"} /\ (q[i] = "STOP" => i = 1)
             /\ Len(q) > 0 /\ q[1] = "STOP" <=> StopFirst
  <2>1. /\ \A i \in 1 .. Len(queue) : queue[i] \in {"STOP", "CHECK"}
                                       /\ (queue[i] = "STOP" => i = 1)
        /\ queue \in Seq(Commands) /\ Len(queue) \in Nat
    BY DEF StopInv, CoverInv
  <2>2. CASE q = queue
    BY <2>1, <2>2 DEF StopFirst
  <2>3. CASE q = Enqueued(queue, "CHECK")
    <3>1. /\ Len(q) \in {Len(queue), Len(queue) + 1}
          /\ \A i \in 1 .. Len(q) :
               \/ i \in 1 .. Len(queue) /\ q[i] = queue[i]
               \/ i = Len(queue) + 1 /\ q[i] = "CHECK"
          /\ Len(queue) > 0 => Len(q) > 0 /\ q[1] = queue[1]
      BY <2>1, <2>3, CheckQueued
    <3>2. \A i \in 1 .. Len(q) : q[i] \in {"STOP", "CHECK"} /\ (q[i] = "STOP" => i = 1)
      BY <2>1, <3>1
    <3>3. ASSUME Len(q) > 0, q[1] = "STOP"
          PROVE  StopFirst
      <4>1. 1 \in 1 .. Len(q)
        BY <2>1, <3>1, <3>3
      <4>2. QED BY <2>1, <3>1, <3>3, <4>1 DEF StopFirst
    <3>4. QED BY <3>1, <3>2, <3>3 DEF StopFirst
  <2>4. QED BY <1>3, <2>2, <2>3
<1>4. \A i \in 1 .. Len(queue') :
        queue'[i] \in {"STOP", "CHECK"} /\ (queue'[i] = "STOP" => i = 1)
  <2>1. CASE queue' = StopQueued
    <3>1. Len(queue') = 2 /\ queue'[1] = "STOP" /\ queue'[2] = "CHECK"
      BY <2>1, StopQueuedIs
    <3>2. QED BY <3>1
  <2>2. QED BY <1>1, <1>3, <2>1
<1>5. ASSUME Braked, used.late < COOLDOWN
      PROVE  Braked'
  <2>1. /\ cover.state.kind \in {"Idle", "Stopping"} /\ ~is_moving(cover.state)
        /\ cover.state.age \in Nat /\ used.late \in Nat /\ COOLDOWN \in Nat
    BY <1>5, CoverAssumption DEF Braked, CoverInv, Cover, State, is_moving, HistoryOK
  <2>2. s = cover.state \/ (~is_moving(s) /\ Cools(cover.state))
    BY <2>1 DEF on_tick, TimesOut, Idle, Fresh, is_moving
  <2>3. ~is_moving(s)
    BY <2>1, <2>2
  <2>4. ~stops
    BY <2>3 DEF positionReached, tiltReached
  <2>5. cover'.state = s /\ (StopFirst' <=> StopFirst)
    <3>1. cover'.state = s /\ queue' \in {queue, Enqueued(queue, "CHECK")}
      BY <1>2, <2>4
    <3>2. QED BY <1>3, <3>1 DEF StopFirst
  <2> HIDE DEF s
  <2>6. Cools(cover.state) => ~(cover.state.age <= used.late)
    BY <1>5, <2>1 DEF Cools
  <2>7. QED BY <1>1, <1>5, <2>2, <2>3, <2>5, <2>6 DEF Braked
<1>6. QED BY <1>1, <1>4, <1>5 DEF StopInv

(* A motor that stands still stays where it is.                            *)
LEMMA StillTurns ==
  ASSUME NEW b, b.motor = "still"
  PROVE  Turns(b) = b
BY DEF Turns, Advances, AtEnd

(* What is sent when a STOP is wished for, and the answer of a blind.      *)
LEMMA StopTransmit ==
  ASSUME CoverInv, StopInv, Transmit
  PROVE  StopInv'
<1> SUFFICES ASSUME wish.kind = "stop" PROVE StopInv'
  BY DEF Transmit, StopInv
<1>1. /\ Len(queue) \in Nat \ {0} /\ Head(queue) = queue[1] /\ Len(queue') = Len(queue) - 1
      /\ \A i \in 1 .. Len(queue') : queue'[i] = queue[i + 1] /\ i + 1 \in 1 .. Len(queue)
  BY TailIs DEF CoverInv, Transmit
<1>2. /\ 1 \in 1 .. Len(queue) /\ queue[1] \in {"STOP", "CHECK"}
      /\ \A i \in 1 .. Len(queue') : queue'[i] = "CHECK"
  BY <1>1 DEF StopInv
<1>3. UNCHANGED <<cover, wish, used>> /\ blind' = Obeys(blind, queue[1])
  BY <1>1 DEF Transmit
<1>4. ASSUME Braked
      PROVE  Braked'
  <2>1. ~StopFirst'
    <3>1. Len(queue') > 0 => queue'[1] = "CHECK"
      BY <1>1, <1>2
    <3>2. QED BY <3>1 DEF StopFirst
  <2>2. CASE queue[1] = "STOP"
    <3>1. StopFirst
      BY <1>1, <2>2 DEF StopFirst
    <3>2. air' = air
      BY <1>1, <2>2 DEF Transmit
    <3>3. blind'.motor = "still"
      BY <1>3, <2>2 DEF Obeys, Halts, CoverInv, Blind, BlindRecord
    <3>4. QED BY <1>3, <1>4, <2>1, <3>2, <3>3 DEF Braked
  <2>3. CASE queue[1] = "CHECK"
    <3>1. ~StopFirst /\ blind' = blind /\ blind.motor = "still"
      BY <1>3, <1>4, <2>3 DEF Braked, StopFirst, Obeys
    <3>2. StatusOf(blind) \in Status /\ StatusOf(blind) \notin Moving
      BY <3>1 DEF StatusOf, Status, Moving
    <3>3. air' \in {air, Append(air, StatusOf(blind))}
      BY DEF Transmit
    <3>4. /\ Len(air) \in Nat /\ Len(air') \in {Len(air), Len(air) + 1}
          /\ \A i \in 1 .. Len(air') :
               \/ i \in 1 .. Len(air) /\ air'[i] = air[i]
               \/ i = Len(air) + 1 /\ air'[i] \notin Moving
      BY <3>2, <3>3, ReportIs DEF CoverInv
    <3>5. \A i \in 1 .. Len(air') :
            air'[i] \in Moving => i \in 1 .. Len(air) /\ air'[i] = air[i]
      BY <3>4
    <3>6. \A i \in 1 .. Len(air') :
            air'[i] \in Moving => cover.state.kind = "Stopping" /\ cover.state.age <= used.late
      BY <1>4, <3>5 DEF Braked
    <3>7. ASSUME NEW i \in 1 .. Len(air'), NEW j \in 1 .. Len(air'), i < j,
                 air'[i] \in Ends, air'[j] \in Moving
          PROVE  FALSE
      <4>1. j \in 1 .. Len(air) /\ air'[j] = air[j]
        BY <3>5, <3>7
      <4>2. i \in 1 .. Len(air) /\ air'[i] = air[i]
        BY <3>4, <3>7, <4>1
      <4>3. QED BY <1>4, <3>7, <4>1, <4>2 DEF Braked
    <3>8. QED BY <1>3, <1>4, <2>1, <3>1, <3>6, <3>7 DEF Braked
  <2>4. QED BY <1>2, <2>2, <2>3
<1>5. QED BY <1>1, <1>2, <1>3, <1>4 DEF StopInv

(* A tick is late, or nothing from before the STOP is under way any more.  *)
LEMMA StopTick ==
  ASSUME CoverInv, HistoryOK, StopInv, Tick
  PROVE  StopInv'
<1> SUFFICES ASSUME wish'.kind = "stop" PROVE StopInv'
  BY DEF StopInv
<1>1. wish' = wish /\ UNCHANGED <<queue, air>> /\ blind' = Turns(blind)
  BY DEF Tick, NoWish
<1>2. \/ queue = <<>> /\ air = <<>> /\ used' = used
      \/ used' = [used EXCEPT !.late = used.late + 1]
  BY DEF Tick
<1>3. used.late \in Nat /\ COOLDOWN \in Nat /\ used'.late >= used.late /\ used'.late \in Nat
  BY <1>2, CoverAssumption DEF HistoryOK
<1>4. /\ cover'.state.kind = cover.state.kind
      /\ cover.state.kind = "Stopping" => cover'.state.age = cover.state.age + 1
      /\ cover.state.age \in Nat
  BY DEF Tick, Older, CoverInv, Cover, State
<1>5. ASSUME Braked
      PROVE  Braked'
  <2>1. ~is_moving(cover.state)'
    BY <1>4, <1>5 DEF Braked, is_moving
  <2>2. StopFirst' <=> StopFirst
    BY <1>1 DEF StopFirst
  <2>3. ~StopFirst => blind'.motor = "still"
    BY <1>1, <1>5, StillTurns DEF Braked
  <2>4. CASE queue = <<>> /\ air = <<>>
    BY <1>1, <2>1, <2>2, <2>3, <2>4 DEF Braked, StopFirst
  <2>5. CASE used' = [used EXCEPT !.late = used.late + 1]
    <3>1. used'.late = used.late + 1
      BY <2>5 DEF HistoryOK
    <3>2. cover.state.kind = "Stopping" /\ cover.state.age <= used.late
            => cover'.state.kind = "Stopping" /\ cover'.state.age <= used'.late
      BY <1>3, <1>4, <3>1
    <3>3. QED BY <1>1, <1>5, <2>1, <2>2, <2>3, <3>2 DEF Braked
  <2>6. QED BY <1>2, <2>4, <2>5
<1>6. used'.late < COOLDOWN => used.late < COOLDOWN
  BY <1>3
<1>7. QED BY <1>1, <1>5, <1>6 DEF StopInv

(* Every step keeps what is said of a STOP.                                *)
LEMMA StopStep ==
  ASSUME CoverInv, HistoryOK, StopInv, [Next]_vars
  PROVE  StopInv'
<1>1. CASE User
  BY <1>1, StopStarts DEF StopInv
<1>2. CASE dispatch_status
  BY <1>2, StopDispatch
<1>3. CASE loop_cover
  BY <1>3, StopLoop
<1>4. CASE Transmit
  BY <1>4, StopTransmit
<1>5. CASE CommandLost \/ ReportLost \/ WallRemote
  <2>1. wish'.kind # "stop"
    BY <1>5 DEF CommandLost, ReportLost, WallRemote, BlindActs, Trouble, NoWish
  <2>2. QED BY <2>1 DEF StopInv
<1>6. CASE Tick
  BY <1>6, StopTick
<1>7. CASE UNCHANGED vars
  BY <1>7 DEF vars, device, StopInv, Braked, StopFirst
<1>8. QED BY <1>1, <1>2, <1>3, <1>4, <1>5, <1>6, <1>7 DEF Next

(* Before the first command there is no wish.                              *)
LEMMA HistoryInit == Init => HistoryOK /\ wish.kind = "none"
BY DEF Init, HistoryOK, NoWish, Kinds

(* And the invariant says what StopHolds does.                             *)
LEMMA StopInvHolds == CoverInv /\ StopInv => StopHolds
<1> SUFFICES ASSUME CoverInv, StopInv, wish.kind = "stop", used.late < COOLDOWN
             PROVE  /\ Range(queue) \cap {"UP", "DOWN", "TILT"} = {}
                    /\ wish.value = 1 => ~is_moving(cover.state)
  BY DEF StopHolds
<1>1. \A x \in Range(queue) : \E i \in 1 .. Len(queue) : x = queue[i]
  BY DEF Range, CoverInv
<1>2. \A x \in Range(queue) : x \in {"STOP", "CHECK"}
  BY <1>1 DEF StopInv
<1>3. QED BY <1>2 DEF StopInv, Braked

(* Once an adapter has asked for a STOP, no movement that was queued       *)
(* before is sent any more; and a STOP that found the estimate moving is   *)
(* not undone by a report from before it, while fewer ticks were late than *)
(* the cooldown has.  The cooldown of on_command(STOP) and clear_queue()   *)
(* are what it rests on.                                                   *)
THEOREM CoverStopHolds == Spec => []StopHolds
<1> DEFINE Inv == CoverInv /\ HistoryOK /\ StopInv
<1>1. Init => Inv
  BY InitInv, HistoryInit DEF StopInv
<1>2. Inv /\ [Next]_vars => Inv'
  BY CoverStep, HistoryStep, StopStep
<1>3. Inv => StopHolds
  BY StopInvHolds
<1>4. QED BY <1>1, <1>2, <1>3, PTL DEF Spec

----------------------------------------------------------------------------
(* Lemmas: the derived position and tilt follow the blind.                 *)

(* A state gives the position of a blind, and its tilt if that is modelled.*)
ExactFor(c, s, b) ==
  /\ position(s, c) = b.pos
  /\ has_tilt_tracking(c) => tilt(s, c) = b.tilt

(* The motor moves what the state can follow: all of it with durations,    *)
(* without them only the slats.                                            *)
Followed(c, b) ==
  \/ has_position_tracking(c)
  \/ b.motor = "up" /\ b.tilt < c.sweep
  \/ b.motor = "down" /\ b.tilt > 0 /\ has_tilt_tracking(c)

(* A state that was just entered gives what it was entered with.           *)
LEMMA FreshExact ==
  ASSUME NEW c \in Context, NEW kind, NEW p \in POSITION_CLOSED .. POSITION_OPEN,
         NEW t \in TILT_CLOSED .. TILT_OPEN(c)
  PROVE  /\ position(Fresh(kind, p, t), c) = p
         /\ has_tilt_tracking(c) => tilt(Fresh(kind, p, t), c) = t
<1> DEFINE s == Fresh(kind, p, t)
<1>1. s.age = 0 /\ s.pos = p /\ s.tilt = t /\ s.kind = kind
  BY DEF Fresh
<1>2. /\ TRAVEL \in Nat /\ c.sweep \in Nat /\ TILT_OPEN(c) \in Nat
      /\ p \in 0 .. TRAVEL /\ t \in 0 .. TILT_OPEN(c)
  BY CoverAssumption DEF Context, TILT_OPEN, TILT_CLOSED, POSITION_OPEN, POSITION_CLOSED,
                         has_tilt_tracking
<1> HIDE DEF s
<1>3. travel_elapsed(s, c) = 0
  <2>1. tilt_dead_time(s, c) >= 0 /\ tilt_dead_time(s, c) \in Int
    BY <1>1, <1>2 DEF tilt_dead_time, TILT_CLOSED
  <2>2. QED BY <1>1, <2>1 DEF travel_elapsed, Minus
<1>4. position(s, c) = p
  BY <1>1, <1>2, <1>3 DEF position, is_moving, Least, Minus, POSITION_OPEN
<1>5. has_tilt_tracking(c) => tilt(s, c) = t
  BY <1>1, <1>2 DEF tilt, is_moving, Least, Minus
<1>6. QED BY <1>4, <1>5 DEF s

(* The arithmetic of a tick downwards: the slats turn, then the blind      *)
(* travels.                                                                *)
LEMMA DownArithmetic ==
  ASSUME NEW t \in Nat, NEW a \in Nat, NEW bt \in Nat, bt = Minus(t, a)
  PROVE  /\ bt > 0 => /\ a < t /\ Minus(t, a + 1) = bt - 1
                      /\ Minus(a + 1, t) = Minus(a, t)
         /\ ~(bt > 0) => /\ Minus(t, a + 1) = bt
                         /\ Minus(a + 1, t) = Minus(a, t) + 1
                         /\ Minus(a, t) = a - t
BY DEF Minus

(* Neither the end of its tick nor its end switch moves the blind.         *)
LEMMA TurnsMoves ==
  ASSUME ctx \in Context, NEW b \in Blind(ctx)
  PROVE  /\ Turns(b).pos = Advances(b).pos /\ Turns(b).tilt = Advances(b).tilt
         /\ b.motor # "favorite" => Turns(b).motor \in {b.motor, "still"}
         /\ b.motor = "up" =>
              IF b.tilt < ctx.sweep
              THEN Turns(b).tilt = b.tilt + 1 /\ Turns(b).pos = b.pos
              ELSE Turns(b).tilt = b.tilt /\ Turns(b).pos = b.pos + 1
         /\ b.motor = "down" =>
              IF b.tilt > 0 /\ has_tilt_tracking(ctx)
              THEN Turns(b).tilt = b.tilt - 1 /\ Turns(b).pos = b.pos
              ELSE Turns(b).tilt = b.tilt /\ Turns(b).pos = b.pos - 1
         /\ b.motor = "up" /\ Turns(b).tilt < ctx.sweep => Turns(b).motor = "up"
         /\ b.motor = "down" /\ Turns(b).tilt > 0 /\ has_tilt_tracking(ctx)
              => Turns(b).motor = "down"
<1>1. Advances(b) \in BlindRecord(ctx) /\ Advances(b).motor \in {b.motor, "still"}
  BY AdvancesType
<1>2. /\ Turns(b).pos = Advances(b).pos /\ Turns(b).tilt = Advances(b).tilt
      /\ Turns(b).motor \in {Advances(b).motor, "still"}
  BY <1>1 DEF Turns, Halts, BlindRecord
<1>3. b \in BlindRecord(ctx)
  BY DEF Blind
<1>4. /\ b.motor = "up" =>
           /\ Advances(b).motor = "up"
           /\ IF b.tilt < ctx.sweep
              THEN Advances(b).tilt = b.tilt + 1 /\ Advances(b).pos = b.pos
              ELSE Advances(b).tilt = b.tilt /\ Advances(b).pos = b.pos + 1
      /\ b.motor = "down" =>
           /\ Advances(b).motor = "down"
           /\ IF b.tilt > 0 /\ has_tilt_tracking(ctx)
              THEN Advances(b).tilt = b.tilt - 1 /\ Advances(b).pos = b.pos
              ELSE Advances(b).tilt = b.tilt /\ Advances(b).pos = b.pos - 1
  BY <1>3 DEF Advances, BlindRecord
<1>5. ASSUME ~AtEnd(Advances(b), b.motor)
      PROVE  Turns(b) = Advances(b)
  BY <1>5 DEF Turns
<1>6. /\ ctx.sweep \in Nat /\ Advances(b).tilt \in Int
  BY <1>1 DEF Context, BlindRecord
<1>7. /\ b.motor = "up" /\ Advances(b).tilt < ctx.sweep => Turns(b).motor = "up"
      /\ b.motor = "down" /\ Advances(b).tilt > 0 /\ has_tilt_tracking(ctx)
           => Turns(b).motor = "down"
  BY <1>4, <1>5, <1>6 DEF AtEnd
<1>8. QED BY <1>1, <1>2, <1>4, <1>7

(* A tick keeps an exact estimate exact, and a motor that runs has not run *)
(* as long as the whole way takes.                                         *)
LEMMA UpTick ==
  ASSUME ctx \in Context, NEW s \in State(ctx), s.kind = "Opening",
         NEW b \in Blind(ctx), b.motor = "up", ExactFor(ctx, s, b), Followed(ctx, b)
  PROVE  /\ ExactFor(ctx, Older(s), Turns(b))
         /\ s.age < TRAVEL + ctx.sweep
         /\ b.tilt < ctx.sweep => s.age < ctx.sweep
<1> DEFINE o == Older(s)
<1>1. o.kind = "Opening" /\ o.pos = s.pos /\ o.tilt = s.tilt /\ o.age = s.age + 1
  BY DEF Older, State
<1>2. /\ TRAVEL \in Nat /\ ctx.sweep \in Nat /\ s.pos \in Nat /\ s.pos <= TRAVEL
      /\ s.tilt \in Nat /\ s.tilt <= TILT_OPEN(ctx) /\ s.age \in Nat
      /\ b.pos \in Nat /\ b.pos <= TRAVEL /\ b.tilt \in Nat
      /\ b.pos < TRAVEL \/ b.tilt < ctx.sweep
      /\ ctx.tracked \in BOOLEAN
  BY CoverAssumption DEF Context, State, Blind, BlindRecord, POSITION_OPEN, POSITION_CLOSED,
                         TILT_CLOSED, TILT_OPEN, has_tilt_tracking
<1> HIDE DEF o
<1>3. CASE has_tilt_tracking(ctx)
  <2>1. TILT_OPEN(ctx) = ctx.sweep /\ s.tilt <= ctx.sweep
    BY <1>2, <1>3 DEF TILT_OPEN
  <2>2. /\ tilt(s, ctx) = Least(ctx.sweep, s.tilt + s.age)
        /\ tilt(o, ctx) = Least(ctx.sweep, s.tilt + (s.age + 1))
        /\ travel_elapsed(s, ctx) = Minus(s.age, ctx.sweep - s.tilt)
        /\ travel_elapsed(o, ctx) = Minus(s.age + 1, ctx.sweep - s.tilt)
    BY <1>1, <1>3, <2>1 DEF tilt, is_moving, travel_elapsed, tilt_dead_time
  <2>3. b.tilt = Least(ctx.sweep, s.tilt + s.age)
    BY <1>3, <2>2 DEF ExactFor
  <2> DEFINE e == Minus(s.age, ctx.sweep - s.tilt)
             e1 == Minus(s.age + 1, ctx.sweep - s.tilt)
  <2>4. e \in Nat /\ e1 \in Nat
    BY <1>2, <2>1 DEF Minus
  <2>5. /\ b.tilt < ctx.sweep =>
             s.age < ctx.sweep - s.tilt /\ tilt(o, ctx) = b.tilt + 1 /\ e1 = e
        /\ ~(b.tilt < ctx.sweep) =>
             tilt(o, ctx) = b.tilt /\ e1 = e + 1 /\ e = s.age - (ctx.sweep - s.tilt)
    <3> DEFINE S == ctx.sweep
               t == s.tilt
               a == s.age
               bt == b.tilt
    <3>1. S \in Nat /\ t \in Nat /\ a \in Nat /\ bt \in Nat /\ t <= S /\ bt = Least(S, t + a)
      BY <1>2, <2>1, <2>3
    <3>2. /\ tilt(o, ctx) = Least(S, t + (a + 1))
          /\ e = Minus(a, S - t) /\ e1 = Minus(a + 1, S - t)
      BY <2>2
    <3> HIDE DEF S, t, a, bt, e, e1
    <3>3. /\ bt < S => a < S - t /\ tilt(o, ctx) = bt + 1 /\ e1 = e
          /\ ~(bt < S) => tilt(o, ctx) = bt /\ e1 = e + 1 /\ e = a - (S - t)
      BY <3>1, <3>2 DEF Least, Minus
    <3>4. QED BY <3>3 DEF S, t, a, bt
  <2>6. /\ position(s, ctx) = IF ctx.tracked THEN Least(TRAVEL, s.pos + e) ELSE s.pos
        /\ position(o, ctx) = IF ctx.tracked THEN Least(TRAVEL, s.pos + e1) ELSE s.pos
    BY <1>1, <1>2, <2>2 DEF position, is_moving, POSITION_OPEN
  <2>7. position(s, ctx) = b.pos
    BY DEF ExactFor
  <2> HIDE DEF e, e1
  <2>8. CASE b.tilt < ctx.sweep
    <3>1. Turns(b).tilt = b.tilt + 1 /\ Turns(b).pos = b.pos
      BY <2>8, TurnsMoves
    <3>2. position(o, ctx) = b.pos
      BY <2>5, <2>6, <2>7, <2>8
    <3>3. s.age < ctx.sweep /\ s.age < TRAVEL + ctx.sweep
      BY <1>2, <2>5, <2>8
    <3>4. QED BY <2>5, <2>8, <3>1, <3>2, <3>3 DEF ExactFor, o
  <2>9. CASE ~(b.tilt < ctx.sweep)
    <3>1. Turns(b).tilt = b.tilt /\ Turns(b).pos = b.pos + 1
      BY <2>9, TurnsMoves
    <3>2. ctx.tracked
      BY <1>2, <2>9 DEF Followed, has_position_tracking
    <3>3. Least(TRAVEL, s.pos + e) = b.pos /\ b.pos < TRAVEL
      BY <1>2, <2>6, <2>7, <2>9, <3>2
    <3>4. s.pos + e = b.pos /\ Least(TRAVEL, s.pos + (e + 1)) = b.pos + 1
      BY <1>2, <2>4, <3>3 DEF Least
    <3>5. position(o, ctx) = b.pos + 1
      BY <2>5, <2>6, <2>9, <3>2, <3>4
    <3>6. s.age < TRAVEL + ctx.sweep
      BY <1>2, <2>1, <2>5, <2>9, <3>3, <3>4
    <3>7. QED BY <2>5, <2>9, <3>1, <3>5, <3>6 DEF ExactFor, o
  <2>10. QED BY <2>8, <2>9
<1>4. CASE ~has_tilt_tracking(ctx)
  <2>1. ctx.sweep = 0 /\ ~(b.tilt < ctx.sweep) /\ ctx.tracked
    BY <1>2, <1>4 DEF has_tilt_tracking, has_position_tracking, Followed
  <2>2. travel_elapsed(s, ctx) = s.age /\ travel_elapsed(o, ctx) = s.age + 1
    BY <1>1, <1>2, <1>4 DEF travel_elapsed, tilt_dead_time, Minus
  <2>3. /\ position(s, ctx) = Least(TRAVEL, s.pos + s.age)
        /\ position(o, ctx) = Least(TRAVEL, s.pos + (s.age + 1))
    BY <1>1, <2>1, <2>2 DEF position, is_moving, POSITION_OPEN
  <2>4. Least(TRAVEL, s.pos + s.age) = b.pos /\ b.pos < TRAVEL
    BY <1>2, <2>1, <2>3 DEF ExactFor
  <2>5. s.pos + s.age = b.pos /\ Least(TRAVEL, s.pos + (s.age + 1)) = b.pos + 1
    BY <1>2, <2>4 DEF Least
  <2>6. Turns(b).pos = b.pos + 1
    BY <2>1, TurnsMoves
  <2>7. s.age < TRAVEL + ctx.sweep
    BY <1>2, <2>1, <2>4, <2>5
  <2>8. QED BY <1>4, <2>1, <2>3, <2>5, <2>6, <2>7 DEF ExactFor, o
<1>5. QED BY <1>3, <1>4

(* The same downwards.                                                     *)
LEMMA DownTick ==
  ASSUME ctx \in Context, NEW s \in State(ctx), s.kind = "Closing",
         NEW b \in Blind(ctx), b.motor = "down", ExactFor(ctx, s, b), Followed(ctx, b)
  PROVE  /\ ExactFor(ctx, Older(s), Turns(b))
         /\ s.age < TRAVEL + ctx.sweep
         /\ b.tilt > 0 /\ has_tilt_tracking(ctx) => s.age < ctx.sweep
<1> DEFINE o == Older(s)
<1>1. o.kind = "Closing" /\ o.pos = s.pos /\ o.tilt = s.tilt /\ o.age = s.age + 1
  BY DEF Older, State
<1>2. /\ TRAVEL \in Nat /\ ctx.sweep \in Nat /\ s.pos \in Nat /\ s.pos <= TRAVEL
      /\ s.tilt \in Nat /\ s.tilt <= TILT_OPEN(ctx) /\ s.age \in Nat
      /\ b.pos \in Nat /\ b.pos <= TRAVEL /\ b.tilt \in Nat
      /\ b.pos > 0 \/ (b.tilt > 0 /\ ctx.sweep > 0)
      /\ ctx.tracked \in BOOLEAN
  BY CoverAssumption DEF Context, State, Blind, BlindRecord, POSITION_OPEN, POSITION_CLOSED,
                         TILT_CLOSED, TILT_OPEN, has_tilt_tracking
<1> HIDE DEF o
<1>3. CASE has_tilt_tracking(ctx)
  <2>1. s.tilt <= ctx.sweep /\ ctx.sweep > 0
    BY <1>2, <1>3 DEF TILT_OPEN, has_tilt_tracking
  <2>2. /\ tilt(s, ctx) = Minus(s.tilt, s.age)
        /\ tilt(o, ctx) = Minus(s.tilt, s.age + 1)
        /\ travel_elapsed(s, ctx) = Minus(s.age, s.tilt)
        /\ travel_elapsed(o, ctx) = Minus(s.age + 1, s.tilt)
    <3>1. s.tilt - TILT_CLOSED = s.tilt /\ o.tilt - TILT_CLOSED = s.tilt
      BY <1>1, <1>2 DEF TILT_CLOSED
    <3>2. QED BY <1>1, <1>3, <3>1 DEF tilt, is_moving, travel_elapsed, tilt_dead_time
  <2>3. b.tilt = Minus(s.tilt, s.age)
    BY <1>3, <2>2 DEF ExactFor
  <2> DEFINE e == Minus(s.age, s.tilt)
             e1 == Minus(s.age + 1, s.tilt)
  <2>4. e \in Nat /\ e1 \in Nat
    BY <1>2 DEF Minus
  <2>5. /\ b.tilt > 0 => s.age < s.tilt /\ tilt(o, ctx) = b.tilt - 1 /\ e1 = e
        /\ ~(b.tilt > 0) => tilt(o, ctx) = b.tilt /\ e1 = e + 1 /\ e = s.age - s.tilt
    BY <1>2, <2>2, <2>3, DownArithmetic
  <2>6. /\ position(s, ctx) = IF ctx.tracked THEN Minus(s.pos, e) ELSE s.pos
        /\ position(o, ctx) = IF ctx.tracked THEN Minus(s.pos, e1) ELSE s.pos
    BY <1>1, <1>2, <2>2 DEF position, is_moving
  <2>7. position(s, ctx) = b.pos
    BY DEF ExactFor
  <2> HIDE DEF e, e1
  <2>8. CASE b.tilt > 0
    <3>1. Turns(b).tilt = b.tilt - 1 /\ Turns(b).pos = b.pos
      BY <1>3, <2>8, TurnsMoves
    <3>2. position(o, ctx) = b.pos
      BY <2>5, <2>6, <2>7, <2>8
    <3>3. s.age < ctx.sweep /\ s.age < TRAVEL + ctx.sweep
      BY <1>2, <2>1, <2>5, <2>8
    <3>4. QED BY <2>5, <2>8, <3>1, <3>2, <3>3 DEF ExactFor, o
  <2>9. CASE ~(b.tilt > 0)
    <3>1. Turns(b).tilt = b.tilt /\ Turns(b).pos = b.pos - 1
      BY <2>9, TurnsMoves
    <3>2. ctx.tracked
      BY <1>2, <2>9 DEF Followed, has_position_tracking
    <3>3. Minus(s.pos, e) = b.pos /\ b.pos > 0
      BY <1>2, <2>6, <2>7, <2>9, <3>2
    <3>4. s.pos - e = b.pos /\ Minus(s.pos, e + 1) = b.pos - 1
      BY <1>2, <2>4, <3>3 DEF Minus
    <3>5. position(o, ctx) = b.pos - 1
      BY <2>5, <2>6, <2>9, <3>2, <3>4
    <3>6. s.age < TRAVEL + ctx.sweep
      BY <1>2, <2>1, <2>5, <2>9, <3>3, <3>4
    <3>7. QED BY <2>5, <2>9, <3>1, <3>5, <3>6 DEF ExactFor, o
  <2>10. QED BY <2>8, <2>9
<1>4. CASE ~has_tilt_tracking(ctx)
  <2>1. ctx.sweep = 0 /\ b.pos > 0 /\ ctx.tracked
    BY <1>2, <1>4 DEF has_tilt_tracking, has_position_tracking, Followed
  <2>2. travel_elapsed(s, ctx) = s.age /\ travel_elapsed(o, ctx) = s.age + 1
    BY <1>1, <1>2, <1>4 DEF travel_elapsed, tilt_dead_time, Minus
  <2>3. /\ position(s, ctx) = Minus(s.pos, s.age)
        /\ position(o, ctx) = Minus(s.pos, s.age + 1)
    BY <1>1, <2>1, <2>2 DEF position, is_moving
  <2>4. Minus(s.pos, s.age) = b.pos
    BY <2>3 DEF ExactFor
  <2>5. s.pos - s.age = b.pos /\ Minus(s.pos, s.age + 1) = b.pos - 1
    BY <1>2, <2>1, <2>4 DEF Minus
  <2>6. Turns(b).pos = b.pos - 1
    BY <1>4, TurnsMoves
  <2>7. s.age < TRAVEL + ctx.sweep
    BY <1>2, <2>1, <2>5
  <2>8. QED BY <1>4, <2>3, <2>5, <2>6, <2>7 DEF ExactFor, o
<1>5. QED BY <1>3, <1>4

----------------------------------------------------------------------------
(* The inductive invariant of a wish that is relied on.  It goes through   *)
(* four phases: the movement is queued; it runs; a STOP is queued; the     *)
(* motor stands still.                                                     *)

(* A movement that takes the whole way does not run into its timeout.      *)
TimeoutSuffices == \A c \in Contexts : TRAVEL + c.sweep <= MOVEMENT_TIMEOUT

Exact == ExactFor(ctx, cover.state, blind)

Heading(s, motor) ==
  \/ s.kind = "Opening" /\ motor = "up"
  \/ s.kind = "Closing" /\ motor = "down"

OnlyFirst ==
  \A i \in 1 .. Len(queue) : i # 1 => queue[i] = "CHECK"

Commanded ==
  /\ Len(queue) > 0 /\ air = <<>>
  /\ \/ queue[1] = "UP" /\ cover.state.kind = "Opening"
     \/ queue[1] = "DOWN" /\ cover.state.kind = "Closing"
  /\ Exact
  /\ cover.state.age = 0 \/ Heading(cover.state, blind.motor)

Running ==
  /\ \A i \in 1 .. Len(queue) : queue[i] = "CHECK"
  /\ Heading(cover.state, blind.motor)
  /\ Exact
  /\ \A i \in 1 .. Len(air) :
       air[i] = IF blind.motor = "up" THEN "MOVING_UP" ELSE "MOVING_DOWN"

Still ==
  /\ \A i \in 1 .. Len(queue) : queue[i] = "CHECK"
  /\ blind.motor = "still"

Relied ==
  \/ wish.kind \in {"full", "check", "ignored"} /\ has_position_tracking(ctx)
  \/ wish.kind = "tilt"

ExactInv ==
  Relied => OnlyFirst /\ (Commanded \/ Running \/ StopFirst \/ Still)

(* A jog, in these phases: the slats are on their way; they have arrived   *)
(* and the loop is about to see it; the STOP is queued; the motor stands   *)
(* still and no report from before can set the estimate in motion.         *)
Short ==
  IF cover.state.kind = "Opening" THEN blind.tilt < wish.value ELSE blind.tilt > wish.value

JogTurns ==
  /\ Commanded \/ Running
  /\ cover.tilt_target = wish.value
  /\ Short

JogArrives ==
  /\ cover.tilt_target = wish.value
  /\ queue = <<>> /\ air = <<>> /\ ~looped
  /\ is_moving(cover.state) /\ cover.state.age <= ctx.sweep
  /\ Exact /\ blind.tilt = wish.value
  /\ Heading(cover.state, blind.motor) \/ blind.motor = "still"

JogHalts ==
  /\ StopFirst
  /\ cover.state.kind = "Stopping" /\ cover.state.age = 0
  /\ estimated = wish.from /\ blind.tilt = wish.value
  /\ \A i \in 1 .. Len(air) : air[i] \in Moving

JogDone ==
  /\ Still
  /\ ~is_moving(cover.state)
  /\ estimated = wish.from /\ blind.tilt = wish.value
  /\ \A i \in 1 .. Len(air) :
       /\ air[i] \in Moving => cover.state.kind = "Stopping" /\ cover.state.age = 0
       /\ air[i] \in {"TOP", "TOP_TILT"} => blind.pos = POSITION_OPEN
       /\ air[i] \in {"BOTTOM", "BOTTOM_TILT"} => blind.pos = POSITION_CLOSED
  /\ \A i, j \in 1 .. Len(air) : i < j /\ air[j] \in Moving => air[i] \in Moving

JogInv ==
  wish.kind = "tilt" =>
    /\ has_tilt_tracking(ctx) /\ wish.value \in 0 .. ctx.sweep
    /\ blind.pos = wish.from
    /\ JogTurns \/ JogArrives \/ JogHalts \/ JogDone

(* What the lemmas about a wish assume.                                    *)
WishInv == CoverInv /\ ExactInv /\ JogInv

----------------------------------------------------------------------------
(* Lemmas: a command of an adapter makes a wish.                           *)

(* A wish that is relied on was made of a known blind, by a movement, a    *)
(* CHECK, a jog or a jog that is too short.                                *)
LEMMA UserRelied ==
  ASSUME CoverInv, User, wish'.kind \in {"full", "check", "ignored", "tilt"}
  PROVE  /\ Known /\ UNCHANGED <<ctx, looped, blind, air>>
         /\ \/ /\ wish'.kind = "full"
               /\ \E cmd \in {"UP", "DOWN"} :
                    /\ queue' = Enqueued(Enqueued(queue, cmd), "CHECK")
                    /\ cover'.state = on_command(cover.state, cmd, ctx)
            \/ wish'.kind = "check" /\ queue' = Enqueued(queue, "CHECK") /\ cover' = cover
            \/ wish'.kind = "ignored" /\ UNCHANGED device
            \/ /\ wish'.kind = "tilt" /\ has_tilt_tracking(ctx)
               /\ wish'.value \in TILT_CLOSED .. TILT_OPEN(ctx) /\ wish'.from = blind.pos
               /\ cover'.tilt_target = wish'.value
               /\ \E cmd \in {"UP", "DOWN"} :
                    /\ IF cmd = "UP" THEN wish'.value > estimatedTilt
                                     ELSE wish'.value < estimatedTilt
                    /\ queue' = Enqueued(Enqueued(queue, cmd), "CHECK")
                    /\ cover'.state = on_command(cover.state, cmd, ctx)
<1>1. ASSUME NEW kind, NEW value, Wished(kind, value)
      PROVE  /\ UNCHANGED <<ctx, looped, blind, air>>
             /\ \/ wish'.kind = "none"
                \/ /\ wish'.kind = kind /\ wish'.value = value
                   /\ kind = "tilt" => wish'.from = blind.pos
                   /\ Known \/ kind = "stop"
  BY <1>1 DEF Wished, NoWish
<1>2. ASSUME command_cover_stop PROVE FALSE
  BY <1>1, <1>2 DEF command_cover_stop
<1>3. ASSUME NEW cmd \in {"UP", "DOWN", "TILT"}, command_cover_move(cmd)
      PROVE  /\ Known /\ UNCHANGED <<ctx, looped, blind, air>> /\ wish'.kind = "full"
             /\ cmd \in {"UP", "DOWN"}
             /\ queue' = Enqueued(Enqueued(queue, cmd), "CHECK")
             /\ cover'.state = on_command(cover.state, cmd, ctx)
  <2>1. CASE cmd = "TILT"
    BY <1>1, <1>3, <2>1 DEF command_cover_move
  <2>2. CASE cmd # "TILT"
    <3>1. Wished("full", 0) /\ Moves(cmd, cover.target_position, NO_TARGET)
      BY <1>3, <2>2 DEF command_cover_move
    <3>2. QED BY <1>1, <1>3, <2>2, <3>1 DEF Moves
  <2>3. QED BY <2>1, <2>2
<1>4. CASE request_check
  <2>1. Wished("check", 0) /\ queue' = Enqueued(queue, "CHECK") /\ cover' = cover
    BY <1>4 DEF request_check
  <2>2. QED BY <1>1, <2>1
<1>5. ASSUME NEW target, set_cover_position(target) PROVE FALSE
  BY <1>1, <1>5 DEF set_cover_position
<1>6. ASSUME NEW target \in TILT_CLOSED .. TILT_OPEN(ctx), set_cover_tilt(target),
             ~command_cover_tilt
      PROVE  /\ Known /\ UNCHANGED <<ctx, looped, blind, air>>
             /\ \/ wish'.kind = "ignored" /\ UNCHANGED device
                \/ /\ wish'.kind = "tilt" /\ has_tilt_tracking(ctx)
                   /\ wish'.value = target /\ wish'.from = blind.pos
                   /\ cover'.tilt_target = wish'.value
                   /\ \E cmd \in {"UP", "DOWN"} :
                        /\ IF cmd = "UP" THEN wish'.value > estimatedTilt
                                         ELSE wish'.value < estimatedTilt
                        /\ queue' = Enqueued(Enqueued(queue, cmd), "CHECK")
                        /\ cover'.state = on_command(cover.state, cmd, ctx)
  <2>1. CASE PulseTooShort(target)
    <3>1. Wished("ignored", 0) /\ UNCHANGED device
      BY <1>6, <2>1 DEF set_cover_tilt
    <3>2. QED BY <1>1, <3>1
  <2>2. CASE ~PulseTooShort(target)
    <3> DEFINE cmd == IF target > estimatedTilt THEN "UP" ELSE "DOWN"
    <3>1. Wished("tilt", target) /\ Moves(cmd, NO_TARGET, target) /\ has_tilt_tracking(ctx)
      BY <1>6, <2>2 DEF set_cover_tilt
    <3>2. ctx \in Context /\ estimatedTilt \in TILT_CLOSED .. TILT_OPEN(ctx)
      BY tiltType, DeviceAssumption DEF CoverInv, Cover, estimatedTilt
    <3>3. TILT_OPEN(ctx) \in Nat /\ MIN_PULSE \in Nat \ {0}
      BY <3>2, DeviceAssumption DEF Context, TILT_OPEN, has_tilt_tracking
    <3>4. IF cmd = "UP" THEN target > estimatedTilt ELSE target < estimatedTilt
      BY <2>2, <3>2, <3>3 DEF PulseTooShort, TILT_CLOSED
    <3>5. /\ queue' = Enqueued(Enqueued(queue, cmd), "CHECK")
          /\ cover'.state = on_command(cover.state, cmd, ctx) /\ cover'.tilt_target = target
      BY <3>1 DEF Moves
    <3>6. cmd \in {"UP", "DOWN"}
      OBVIOUS
    <3> HIDE DEF cmd
    <3>7. QED BY <1>1, <3>1, <3>4, <3>5, <3>6
  <2>3. QED BY <2>1, <2>2
<1>7. ASSUME command_cover_tilt PROVE FALSE
  BY <1>3, <1>7 DEF command_cover_tilt
<1>8. QED BY <1>2, <1>3, <1>4, <1>5, <1>6, <1>7 DEF User

(* Such a command leaves the estimate exact and on its way.                *)
LEMMA CommandStarts ==
  ASSUME CoverInv, Known, NEW cmd \in {"UP", "DOWN"}, UNCHANGED <<ctx, looped, blind, air>>,
         queue' = Enqueued(Enqueued(queue, cmd), "CHECK"),
         cover'.state = on_command(cover.state, cmd, ctx)
  PROVE  /\ Commanded' /\ OnlyFirst'
         /\ cover'.state.kind = "Opening" <=> cmd = "UP"
<1>1. /\ queue = <<>> /\ air = <<>> /\ estimated = blind.pos /\ estimatedTilt = blind.tilt
      /\ \/ blind.motor = "still" /\ cover.state.kind = "Idle"
         \/ blind.motor = "up" /\ cover.state.kind = "Opening"
         \/ blind.motor = "down" /\ cover.state.kind = "Closing"
  BY DEF Known
<1>2. /\ Len(queue') = 2 /\ queue'[1] = cmd /\ queue'[2] = "CHECK"
  BY <1>1, CommandQueued DEF Commands
<1> DEFINE kind == IF cmd = "UP" THEN "Opening" ELSE "Closing"
           s == on_command(cover.state, cmd, ctx)
           p == position(cover.state, ctx)
           t == tilt(cover.state, ctx)
<1>3. s = IF cover.state.kind = kind THEN cover.state ELSE Fresh(kind, p, t)
  BY DEF on_command, Opening, Closing
<1>4. /\ ctx \in Context /\ cover.state \in State(ctx)
      /\ p \in POSITION_CLOSED .. POSITION_OPEN /\ t \in TILT_CLOSED .. TILT_OPEN(ctx)
  BY positionType, tiltType, DeviceAssumption DEF CoverInv, Cover
<1>5. p = blind.pos /\ t = blind.tilt
  BY <1>1 DEF estimated, estimatedTilt
<1> HIDE DEF p, t, kind
<1>6. ExactFor(ctx, s, blind)
  <2>1. CASE cover.state.kind = kind
    BY <1>3, <1>5, <2>1 DEF ExactFor, p, t
  <2>2. CASE cover.state.kind # kind
    BY <1>3, <1>4, <1>5, <2>2, FreshExact DEF ExactFor
  <2>3. QED BY <2>1, <2>2
<1>7. s.kind = kind /\ (s.age = 0 \/ Heading(s, blind.motor))
  <2>1. CASE cover.state.kind = kind
    BY <1>1, <1>3, <2>1 DEF kind, Heading
  <2>2. CASE cover.state.kind # kind
    BY <1>3, <2>2 DEF Fresh
  <2>3. QED BY <2>1, <2>2
<1> HIDE DEF s
<1>8. cover'.state = s
  BY DEF s
<1>9. OnlyFirst'
  BY <1>2 DEF OnlyFirst
<1>10. Exact'
  BY <1>6, <1>8 DEF Exact
<1>11. QED BY <1>1, <1>2, <1>7, <1>8, <1>9, <1>10 DEF Commanded, Exact, kind
----------------------------------------------------------------------------
(* Steps of a wish.                                                        *)

(* A wish that is relied on starts in the first phase, or in that of the   *)
(* blind it found.                                                         *)
LEMMA WishUser ==
  ASSUME CoverInv, User
  PROVE  ExactInv' /\ JogInv'
<1>1. CASE wish'.kind \notin {"full", "check", "ignored", "tilt"}
  BY <1>1 DEF ExactInv, JogInv, Relied
<1>2. CASE wish'.kind \in {"full", "check", "ignored", "tilt"}
  <2>1. Known /\ UNCHANGED <<ctx, looped, blind, air>>
    BY <1>2, UserRelied
  <2>2. ASSUME NEW cmd \in {"UP", "DOWN"},
               queue' = Enqueued(Enqueued(queue, cmd), "CHECK"),
               cover'.state = on_command(cover.state, cmd, ctx)
        PROVE  /\ Commanded' /\ OnlyFirst'
               /\ cover'.state.kind = "Opening" <=> cmd = "UP"
    BY <2>1, <2>2, CommandStarts
  <2>3. CASE wish'.kind = "full"
    <3>1. Commanded' /\ OnlyFirst'
      BY <1>2, <2>2, <2>3, UserRelied
    <3>2. QED BY <2>3, <3>1 DEF ExactInv, JogInv
  <2>4. CASE wish'.kind \in {"check", "ignored"}
    <3>1. /\ cover' = cover
          /\ queue' = queue \/ queue' = Enqueued(queue, "CHECK")
      BY <1>2, <2>4, UserRelied DEF device
    <3>2. queue = <<>> /\ air = <<>>
      BY <2>1 DEF Known
    <3>3. \A i \in 1 .. Len(queue') : queue'[i] = "CHECK"
      <4>1. CASE queue' = queue
        BY <3>2, <4>1
      <4>2. CASE queue' = Enqueued(queue, "CHECK")
        <5>1. queue' = <<"CHECK">>
          BY <3>2, <4>2, CommandQueued DEF Commands
        <5>2. QED BY <5>1
      <4>3. QED BY <3>1, <4>1, <4>2
    <3>4. /\ Exact'
          /\ \/ blind'.motor = "still"
             \/ Heading(cover'.state, blind'.motor)
      BY <2>1, <3>1 DEF Known, Exact, ExactFor, Heading, estimated, estimatedTilt
    <3>5. Still' \/ Running'
      BY <2>1, <3>2, <3>3, <3>4 DEF Still, Running
    <3>6. QED BY <2>4, <3>3, <3>5 DEF ExactInv, JogInv, OnlyFirst
  <2>5. CASE wish'.kind = "tilt"
    <3>1. PICK cmd \in {"UP", "DOWN"} :
            /\ IF cmd = "UP" THEN wish'.value > estimatedTilt
                             ELSE wish'.value < estimatedTilt
            /\ queue' = Enqueued(Enqueued(queue, cmd), "CHECK")
            /\ cover'.state = on_command(cover.state, cmd, ctx)
      BY <1>2, <2>5, UserRelied
    <3>2. /\ has_tilt_tracking(ctx) /\ wish'.value \in TILT_CLOSED .. TILT_OPEN(ctx)
          /\ wish'.from = blind.pos /\ cover'.tilt_target = wish'.value
      BY <1>2, <2>5, UserRelied
    <3>3. Commanded' /\ OnlyFirst' /\ (cover'.state.kind = "Opening" <=> cmd = "UP")
      BY <2>2, <3>1
    <3>4. blind' = blind /\ estimatedTilt = blind.tilt /\ ctx' = ctx
      BY <2>1 DEF Known
    <3>5. wish'.value \in Int /\ blind.tilt \in Int
      BY <3>2, DeviceAssumption DEF TILT_CLOSED, TILT_OPEN, CoverInv, Blind, BlindRecord, Context
    <3>6. IF cmd = "UP" THEN blind'.tilt < wish'.value ELSE blind'.tilt > wish'.value
      BY <3>1, <3>4, <3>5
    <3>7. JogTurns'
      BY <3>2, <3>3, <3>6 DEF JogTurns, Short
    <3>8. has_tilt_tracking(ctx)' /\ wish'.value \in 0 .. ctx'.sweep /\ blind'.pos = wish'.from
      BY <3>2, <3>4 DEF has_tilt_tracking, TILT_CLOSED, TILT_OPEN
    <3>9. QED BY <3>3, <3>7, <3>8 DEF ExactInv, JogInv
  <2>6. QED BY <1>2, <2>3, <2>4, <2>5
<1>3. QED BY <1>1, <1>2

(* A report that says what the estimate shows, and one that is not heeded. *)
LEMMA HeardAgain ==
  ASSUME NEW c, NEW s, NEW status \in Moving,
         \/ s.kind = "Opening" /\ status = "MOVING_UP"
         \/ s.kind = "Closing" /\ status = "MOVING_DOWN"
         \/ s.kind = "Stopping"
  PROVE  on_rf_status(s, status, c) = s
BY DEF on_rf_status, Moving, Heeded

(* A report of a blind that stands still sets nothing in motion, and moves *)
(* the estimate only to the end the blind is at.                           *)
LEMMA HeardStill ==
  ASSUME NEW c \in Context, NEW s \in State(c), NEW status \in Status, ~is_moving(s),
         status \notin Moving
  PROVE  /\ ~is_moving(on_rf_status(s, status, c))
         /\ \/ position(on_rf_status(s, status, c), c) = position(s, c)
            \/ /\ status \in {"TOP", "TOP_TILT"}
               /\ position(on_rf_status(s, status, c), c) = POSITION_OPEN
            \/ /\ status \in {"BOTTOM", "BOTTOM_TILT"}
               /\ position(on_rf_status(s, status, c), c) = POSITION_CLOSED
<1> DEFINE p == position(s, c)
           r == rf_tilt(status, c)
<1>1. /\ p \in POSITION_CLOSED .. POSITION_OPEN /\ r \in TILT_CLOSED .. TILT_OPEN(c)
      /\ POSITION_OPEN \in POSITION_CLOSED .. POSITION_OPEN
      /\ POSITION_CLOSED \in POSITION_CLOSED .. POSITION_OPEN
  BY positionType, rfTiltType, CoverAssumption DEF POSITION_CLOSED, POSITION_OPEN
<1>2. \/ on_rf_status(s, status, c) \in {s, Idle(p, r)}
      \/ status \in {"TOP", "TOP_TILT"} /\ on_rf_status(s, status, c) = Idle(POSITION_OPEN, r)
      \/ /\ status \in {"BOTTOM", "BOTTOM_TILT"}
         /\ on_rf_status(s, status, c) = Idle(POSITION_CLOSED, r)
  <2> HIDE DEF p, r
  <2>1. QED BY DEF on_rf_status, Status, Moving, Heeded, p, r
<1> HIDE DEF p, r
<1>3. ASSUME NEW q \in POSITION_CLOSED .. POSITION_OPEN
      PROVE  ~is_moving(Idle(q, r)) /\ position(Idle(q, r), c) = q
  BY <1>1, <1>3, FreshExact DEF Idle, Fresh, is_moving
<1>4. QED BY <1>1, <1>2, <1>3 DEF p

(* What a report changes, and what is left of the reports.                 *)
LEMMA DispatchFrame ==
  ASSUME CoverInv, dispatch_status
  PROVE  /\ cover'.state = on_rf_status(cover.state, air[1], ctx)
         /\ cover'.tilt_target = cover.tilt_target
         /\ cover'.target_position = cover.target_position
         /\ air[1] \in Status /\ Len(air) \in Nat \ {0} /\ 1 \in 1 .. Len(air)
         /\ \A i \in 1 .. Len(air') : air'[i] = air[i + 1] /\ i + 1 \in 1 .. Len(air)
         /\ UNCHANGED <<ctx, queue, looped, blind, wish, used>>
<1>1. air # <<>> /\ air' = Tail(air)
  BY DEF dispatch_status
<1>2. /\ \A i \in 1 .. Len(air') : air'[i] = air[i + 1] /\ i + 1 \in 1 .. Len(air)
      /\ Head(air) = air[1] /\ Len(air) \in Nat \ {0} /\ Head(air) \in Status
  BY <1>1, TailIs DEF CoverInv
<1>3. /\ cover'.state = on_rf_status(cover.state, Head(air), ctx)
      /\ cover'.tilt_target = cover.tilt_target
      /\ cover'.target_position = cover.target_position
  BY DEF dispatch_status, CoverInv, Cover
<1>4. QED BY <1>2, <1>3 DEF dispatch_status

(* The reports of a running blind say what the estimate shows; those from  *)
(* before a jog was stopped are not heeded.                                *)
LEMMA WishDispatch ==
  ASSUME WishInv, dispatch_status
  PROVE  ExactInv' /\ JogInv'
<1> DEFINE s == cover.state
<1>1. /\ cover'.state = on_rf_status(s, air[1], ctx) /\ cover'.tilt_target = cover.tilt_target
      /\ air[1] \in Status /\ Len(air) \in Nat \ {0} /\ 1 \in 1 .. Len(air)
      /\ \A i \in 1 .. Len(air') : air'[i] = air[i + 1] /\ i + 1 \in 1 .. Len(air)
      /\ UNCHANGED <<ctx, queue, looped, blind, wish, used>>
  BY DispatchFrame DEF WishInv
<1>2. air # <<>>
  BY DEF dispatch_status
<1>3. ASSUME Running
      PROVE  Running' /\ cover'.state = s
  <2>1. air[1] = IF blind.motor = "up" THEN "MOVING_UP" ELSE "MOVING_DOWN"
    BY <1>1, <1>3 DEF Running
  <2>2. cover'.state = s
    BY <1>1, <1>3, <2>1, HeardAgain DEF Running, Heading, Moving
  <2>3. QED BY <1>1, <1>3, <2>2 DEF Running, Exact, Heading
<1>4. ExactInv'
  <2>1. Still => Still'
    BY <1>1 DEF Still
  <2>2. OnlyFirst' <=> OnlyFirst
    BY <1>1 DEF OnlyFirst
  <2>3. StopFirst' <=> StopFirst
    BY <1>1 DEF StopFirst
  <2>4. Relied' <=> Relied
    BY <1>1 DEF Relied
  <2>5. ~Commanded
    BY <1>2 DEF Commanded
  <2>6. QED BY <1>3, <2>1, <2>2, <2>3, <2>4, <2>5 DEF ExactInv, WishInv
<1>5. ASSUME wish.kind = "tilt"
      PROVE  JogTurns' \/ JogHalts' \/ JogDone'
  <2>1. CASE JogTurns
    <3>1. Running
      BY <1>2, <2>1 DEF JogTurns, Commanded
    <3>2. QED BY <1>1, <1>3, <2>1, <3>1 DEF JogTurns, Short
  <2>2. CASE JogHalts
    <3>1. air[1] \in Moving /\ s.kind = "Stopping"
      BY <1>1, <2>2 DEF JogHalts
    <3>2. cover'.state = s
      BY <1>1, <3>1, HeardAgain
    <3>3. QED BY <1>1, <2>2, <3>2 DEF JogHalts, StopFirst, estimated
  <2>3. CASE JogDone
    <3>1. ctx \in Context /\ s \in State(ctx) /\ ~is_moving(s)
      BY <2>3, DeviceAssumption DEF WishInv, CoverInv, Cover, JogDone
    <3>2. CASE air[1] \in Moving
      <4>1. s.kind = "Stopping"
        BY <1>1, <2>3, <3>2 DEF JogDone
      <4>2. cover'.state = s
        BY <1>1, <3>2, <4>1, HeardAgain
      <4>3. \A i, j \in 1 .. Len(air') : i < j /\ air'[j] \in Moving => air'[i] \in Moving
        <5>1. \A i, j \in 1 .. Len(air') : i < j => i + 1 < j + 1
          OBVIOUS
        <5>2. QED BY <1>1, <2>3, <5>1 DEF JogDone
      <4>4. \A i \in 1 .. Len(air') :
              /\ air'[i] \in Moving => s.kind = "Stopping" /\ s.age = 0
              /\ air'[i] \in {"TOP", "TOP_TILT"} => blind.pos = POSITION_OPEN
              /\ air'[i] \in {"BOTTOM", "BOTTOM_TILT"} => blind.pos = POSITION_CLOSED
        BY <1>1, <2>3 DEF JogDone
      <4>5. estimated' = estimated /\ Still'
        BY <1>1, <2>3, <4>2 DEF estimated, JogDone, Still
      <4>6. QED BY <1>1, <2>3, <4>2, <4>3, <4>4, <4>5 DEF JogDone
    <3>3. CASE air[1] \notin Moving
      <4>1. \A i \in 1 .. Len(air') : air'[i] \notin Moving
        <5>1. ASSUME NEW i \in 1 .. Len(air') PROVE i + 1 \in 1 .. Len(air) /\ 1 < i + 1
          BY <1>1
        <5>2. QED BY <1>1, <2>3, <3>3, <5>1 DEF JogDone
      <4>2. /\ ~is_moving(cover'.state)
            /\ \/ estimated' = estimated
               \/ air[1] \in {"TOP", "TOP_TILT"} /\ estimated' = POSITION_OPEN
               \/ air[1] \in {"BOTTOM", "BOTTOM_TILT"} /\ estimated' = POSITION_CLOSED
        BY <1>1, <3>1, <3>3, HeardStill DEF estimated
      <4>3. blind.pos = wish.from
        BY <1>5 DEF WishInv, JogInv
      <4>4. estimated' = wish.from
        BY <1>1, <2>3, <4>2, <4>3 DEF JogDone
      <4>5. \A i \in 1 .. Len(air') :
              /\ air'[i] \in {"TOP", "TOP_TILT"} => blind.pos = POSITION_OPEN
              /\ air'[i] \in {"BOTTOM", "BOTTOM_TILT"} => blind.pos = POSITION_CLOSED
        BY <1>1, <2>3 DEF JogDone
      <4>6. Still'
        BY <1>1, <2>3 DEF JogDone, Still
      <4>7. QED BY <1>1, <2>3, <4>1, <4>2, <4>4, <4>5, <4>6 DEF JogDone
    <3>4. QED BY <3>2, <3>3
  <2>4. ~JogArrives
    BY <1>2 DEF JogArrives
  <2>5. QED BY <1>5, <2>1, <2>2, <2>3, <2>4 DEF WishInv, JogInv
<1>6. QED BY <1>1, <1>4, <1>5 DEF WishInv, JogInv, has_tilt_tracking

(* A motor that an exact estimate follows has not run into the timeout.    *)
LEMMA InTime ==
  ASSUME WishInv, Relied, TimeoutSuffices, Commanded \/ Running
  PROVE  ~TimesOut(cover.state)
<1>1. /\ ctx \in Context /\ cover.state \in State(ctx) /\ blind \in Blind(ctx)
      /\ ctx.sweep \in Nat /\ TRAVEL \in Nat \ {0} /\ MOVEMENT_TIMEOUT \in Nat \ {0}
      /\ TRAVEL + ctx.sweep <= MOVEMENT_TIMEOUT
      /\ cover.state.age \in Nat
  BY DeviceAssumption, CoverAssumption
     DEF WishInv, CoverInv, Cover, Context, State, TimeoutSuffices
<1>2. CASE cover.state.age = 0
  BY <1>1, <1>2 DEF TimesOut
<1>3. CASE JogArrives
  BY <1>1, <1>3 DEF JogArrives, TimesOut
<1>4. CASE Heading(cover.state, blind.motor) /\ ~JogArrives
  <2>1. ExactFor(ctx, cover.state, blind)
    BY DEF Commanded, Running, Exact
  <2>2. Followed(ctx, blind)
    <3>1. CASE wish.kind = "tilt"
      <4>1. JogTurns
        <5>1. ~JogHalts
          BY DEF JogHalts, StopFirst, Commanded, Running
        <5>2. ~JogDone
          BY <1>4 DEF JogDone, Still, Heading
        <5>3. QED BY <1>4, <3>1, <5>1, <5>2 DEF WishInv, JogInv
      <4>2. has_tilt_tracking(ctx) /\ wish.value \in 0 .. ctx.sweep /\ blind.tilt \in Nat
        BY <1>1, <3>1 DEF WishInv, JogInv, Blind, BlindRecord, TILT_OPEN
      <4>3. QED BY <1>1, <1>4, <4>1, <4>2 DEF JogTurns, Short, Heading, Followed
    <3>2. CASE wish.kind # "tilt"
      BY <3>2 DEF Relied, Followed
    <3>3. QED BY <3>1, <3>2
  <2>3. cover.state.age < TRAVEL + ctx.sweep
    BY <1>1, <1>4, <2>1, <2>2, UpTick, DownTick DEF Heading
  <2>4. QED BY <1>1, <2>3 DEF TimesOut
<1>5. QED BY <1>2, <1>3, <1>4 DEF Commanded, Running

(* What the loop does to the queue, the estimate and the targets.          *)
LEMMA LoopFrame ==
  ASSUME CoverInv, loop_cover, NEW s, s = on_tick(cover.state, ctx)
  PROVE  /\ UNCHANGED <<ctx, blind, air, wish, used>>
         /\ \/ /\ positionReached(s) \/ tiltReached(s)
               /\ queue' = StopQueued /\ cover'.state = on_command(s, "STOP", ctx)
            \/ /\ ~positionReached(s) /\ ~tiltReached(s)
               /\ queue' = queue \/ queue' = Enqueued(queue, "CHECK")
               /\ cover'.state = s /\ cover'.tilt_target = cover.tilt_target
               /\ cover'.target_position = cover.target_position
BY DEF loop_cover

(* A CHECK at the end of the queue changes nothing that the phases say.    *)
LEMMA CheckKeeps ==
  ASSUME queue \in Seq(Commands), queue' = queue \/ queue' = Enqueued(queue, "CHECK")
  PROVE  /\ OnlyFirst => OnlyFirst'
         /\ StopFirst => StopFirst'
         /\ Len(queue) > 0 => Len(queue') > 0 /\ queue'[1] = queue[1]
         /\ (\A i \in 1 .. Len(queue) : queue[i] = "CHECK")
              => \A i \in 1 .. Len(queue') : queue'[i] = "CHECK"
<1>1. CASE queue' = queue
  BY <1>1 DEF OnlyFirst, StopFirst
<1>2. CASE queue' = Enqueued(queue, "CHECK")
  <2>1. /\ \A i \in 1 .. Len(queue') :
             \/ i \in 1 .. Len(queue) /\ queue'[i] = queue[i]
             \/ i = Len(queue) + 1 /\ queue'[i] = "CHECK"
        /\ Len(queue) > 0 => Len(queue') > 0 /\ queue'[1] = queue[1]
    BY <1>2, CheckQueued
  <2>2. QED BY <2>1 DEF OnlyFirst, StopFirst
<1>3. QED BY <1>1, <1>2

(* The loop stops a jog in the tick in which the slats arrive, and leaves  *)
(* other movements alone.                                                  *)
LEMMA WishLoop ==
  ASSUME WishInv, TimeoutSuffices, loop_cover
  PROVE  ExactInv' /\ JogInv'
<1> DEFINE s == on_tick(cover.state, ctx)
           stops == positionReached(s) \/ tiltReached(s)
<1>1. /\ UNCHANGED <<ctx, blind, air, wish, used>>
      /\ stops => queue' = StopQueued /\ cover'.state = on_command(s, "STOP", ctx)
      /\ ~stops => /\ queue' = queue \/ queue' = Enqueued(queue, "CHECK")
                   /\ cover'.state = s /\ cover'.tilt_target = cover.tilt_target
  BY LoopFrame DEF WishInv
<1>2. stops => StopFirst' /\ OnlyFirst'
  <2>1. ASSUME stops
        PROVE  Len(queue') = 2 /\ queue'[1] = "STOP" /\ queue'[2] = "CHECK"
    BY <1>1, <2>1, StopQueuedIs
  <2>2. QED BY <2>1 DEF StopFirst, OnlyFirst
<1>3. ~stops => /\ OnlyFirst => OnlyFirst'
                /\ StopFirst => StopFirst'
                /\ Len(queue) > 0 => Len(queue') > 0 /\ queue'[1] = queue[1]
                /\ (\A i \in 1 .. Len(queue) : queue[i] = "CHECK")
                     => \A i \in 1 .. Len(queue') : queue'[i] = "CHECK"
  BY <1>1, CheckKeeps DEF WishInv, CoverInv
<1>4. ASSUME Relied, Commanded \/ Running
      PROVE  s = cover.state
  <2>1. ~TimesOut(cover.state)
    BY <1>4, InTime
  <2>2. ~Cools(cover.state)
    BY <1>4 DEF Commanded, Running, Heading, Cools
  <2>3. QED BY <2>1, <2>2 DEF on_tick
<1> HIDE DEF s
<1>5. ASSUME Relied, Commanded, ~stops
      PROVE  Commanded'
  BY <1>1, <1>3, <1>4, <1>5 DEF Commanded, Exact, stops
<1>6. ASSUME Relied, Running, ~stops
      PROVE  Running'
  BY <1>1, <1>3, <1>4, <1>6 DEF Running, Exact, stops
<1>7. ASSUME Still, ~stops
      PROVE  Still'
  BY <1>1, <1>3, <1>7 DEF Still, stops
<1>8. ExactInv'
  <2>1. CASE Relied
    BY <1>2, <1>3, <1>5, <1>6, <1>7, <2>1 DEF WishInv, ExactInv, stops
  <2>2. CASE ~Relied
    BY <1>1, <2>2 DEF ExactInv, Relied
  <2>3. QED BY <2>1, <2>2
<1>9. ASSUME wish.kind = "tilt"
      PROVE  JogTurns' \/ JogArrives' \/ JogHalts' \/ JogDone'
  <2>0. /\ ctx \in Context /\ cover.state \in State(ctx) /\ blind \in Blind(ctx)
        /\ cover.target_position = NO_TARGET \/ cover.tilt_target = NO_TARGET
        /\ Relied /\ has_tilt_tracking(ctx) /\ wish.value \in 0 .. ctx.sweep
        /\ ctx.sweep \in Nat /\ blind.tilt \in Int /\ blind.pos = wish.from
        /\ COOLDOWN \in Nat \ {0}
    BY <1>9, DeviceAssumption, CoverAssumption
       DEF WishInv, CoverInv, Cover, Relied, JogInv, Context, Blind, BlindRecord
  <2>1. cover.tilt_target = wish.value => ~positionReached(s)
    BY <2>0 DEF positionReached, NO_TARGET, POSITION_CLOSED
  <2>2. CASE JogTurns
    <3>1. s = cover.state
      BY <1>4, <2>0, <2>2 DEF JogTurns
    <3>2. Exact /\ cover.state.kind \in {"Opening", "Closing"} /\ cover.tilt_target = wish.value
      BY <2>2 DEF JogTurns, Commanded, Running, Heading
    <3>3. tilt(s, ctx) = blind.tilt
      BY <2>0, <3>1, <3>2 DEF Exact, ExactFor
    <3>4. ~tiltReached(s)
      BY <2>0, <2>2, <3>1, <3>2, <3>3 DEF tiltReached, JogTurns, Short
    <3>5. ~stops
      BY <2>1, <3>2, <3>4
    <3>6. Commanded' \/ Running'
      BY <1>5, <1>6, <2>0, <2>2, <3>5 DEF JogTurns
    <3>7. cover'.state = cover.state /\ cover'.tilt_target = cover.tilt_target
      BY <1>1, <3>1, <3>5
    <3>8. QED BY <1>1, <2>2, <3>6, <3>7 DEF JogTurns, Short
  <2>3. CASE JogArrives
    <3>1. s = cover.state
      <4>1. ~TimesOut(cover.state)
        <5>1. /\ TRAVEL + ctx.sweep <= MOVEMENT_TIMEOUT
              /\ TRAVEL \in Nat \ {0} /\ MOVEMENT_TIMEOUT \in Nat /\ cover.state.age \in Nat
          BY <2>0, CoverAssumption DEF WishInv, CoverInv, TimeoutSuffices, State
        <5>2. QED BY <2>0, <2>3, <5>1 DEF JogArrives, TimesOut
      <4>2. ~Cools(cover.state)
        BY <2>3 DEF JogArrives, is_moving, Cools
      <4>3. QED BY <4>1, <4>2 DEF on_tick, s
    <3>2. tilt(s, ctx) = blind.tilt /\ position(s, ctx) = blind.pos
      BY <2>0, <2>3, <3>1 DEF JogArrives, Exact, ExactFor
    <3>3. tiltReached(s)
      BY <2>0, <2>3, <3>1, <3>2 DEF tiltReached, JogArrives, is_moving, TILT_CLOSED
    <3>4. cover'.state = Stopping(position(s, ctx), tilt(s, ctx))
      <4>1. is_moving(s)
        BY <2>3, <3>1 DEF JogArrives
      <4>2. QED BY <1>1, <3>3, <4>1 DEF on_command, is_moving
    <3>5. cover'.state.kind = "Stopping" /\ cover'.state.age = 0 /\ estimated' = blind.pos
      <4>1. cover'.state.kind = "Stopping" /\ cover'.state.pos = blind.pos
        BY <3>2, <3>4 DEF Stopping, Fresh
      <4>2. estimated' = blind.pos
        BY <1>1, <4>1 DEF estimated, position, is_moving
      <4>3. QED BY <3>4, <4>2 DEF Stopping, Fresh
    <3>6. StopFirst' /\ air' = <<>>
      BY <1>1, <1>2, <2>3, <3>3 DEF JogArrives
    <3>7. QED BY <1>1, <2>0, <2>3, <3>5, <3>6 DEF JogHalts, JogArrives
  <2>4. CASE JogHalts
    <3>1. s = cover.state
      BY <2>0, <2>4 DEF JogHalts, on_tick, TimesOut, Cools, is_moving, s
    <3>2. ~stops
      BY <2>4, <3>1 DEF JogHalts, positionReached, tiltReached, is_moving
    <3>3. cover'.state = cover.state /\ StopFirst'
      BY <1>1, <1>3, <2>4, <3>1, <3>2 DEF JogHalts
    <3>4. QED BY <1>1, <2>4, <3>3 DEF JogHalts, estimated
  <2>5. CASE JogDone
    <3>1. \/ s = cover.state
         \/ /\ s = Idle(estimated, tilt(cover.state, ctx))
            /\ Cools(cover.state) /\ cover.state.age # 0
      BY <2>0, <2>5 DEF JogDone, on_tick, TimesOut, Cools, s, estimated
    <3>2. ~is_moving(s) /\ position(s, ctx) = estimated
      BY <2>5, <3>1 DEF JogDone, Idle, Fresh, is_moving, position, estimated
    <3>3. ~stops
      BY <3>2 DEF positionReached, tiltReached
    <3>4. cover'.state = s /\ Still'
      BY <1>1, <1>7, <2>5, <3>3 DEF JogDone
    <3>5. estimated' = estimated
      BY <1>1, <3>2, <3>4 DEF estimated
    <3>6. \A i \in 1 .. Len(air) : air[i] \in Moving => s = cover.state
      BY <2>5, <3>1 DEF JogDone
    <3>7. QED BY <1>1, <2>5, <3>2, <3>4, <3>5, <3>6 DEF JogDone
  <2>6. QED BY <1>9, <2>2, <2>3, <2>4, <2>5 DEF WishInv, JogInv
<1>10. QED BY <1>1, <1>8, <1>9 DEF WishInv, JogInv, has_tilt_tracking

(* Leaving a queue in which only the first is not a CHECK.                 *)
LEMMA TransmitFrame ==
  ASSUME CoverInv, Transmit
  PROVE  /\ Len(queue) \in Nat \ {0} /\ 1 \in 1 .. Len(queue)
         /\ OnlyFirst => \A i \in 1 .. Len(queue') : queue'[i] = "CHECK"
         /\ blind' = Obeys(blind, queue[1])
         /\ queue[1] # "CHECK" => air' = air
         /\ queue[1] = "CHECK" => blind' = blind /\ air' \in {air, Append(air, StatusOf(blind))}
         /\ UNCHANGED <<ctx, cover, looped, wish, used>>
<1>1. /\ Len(queue) \in Nat \ {0} /\ Head(queue) = queue[1]
      /\ \A i \in 1 .. Len(queue') : queue'[i] = queue[i + 1] /\ i + 1 \in 1 .. Len(queue)
  BY TailIs DEF CoverInv, Transmit
<1>2. \A i \in 1 .. Len(queue') : i + 1 # 1
  OBVIOUS
<1>3. OnlyFirst => \A i \in 1 .. Len(queue') : queue'[i] = "CHECK"
  BY <1>1, <1>2 DEF OnlyFirst
<1>4. /\ blind' = Obeys(blind, queue[1]) /\ UNCHANGED <<ctx, cover, looped, wish, used>>
      /\ queue[1] # "CHECK" => air' = air
      /\ queue[1] = "CHECK" => air' \in {air, Append(air, StatusOf(blind))}
  BY <1>1 DEF Transmit
<1>5. queue[1] = "CHECK" => blind' = blind
  BY <1>4 DEF Obeys
<1>6. QED BY <1>1, <1>3, <1>4, <1>5

(* A movement that is sent makes the motor run the way of the estimate, or *)
(* stand still at the end where the blind is.                              *)
LEMMA MoveObeyed ==
  ASSUME ctx \in Context, NEW b \in Blind(ctx), NEW cmd \in {"UP", "DOWN"}
  PROVE  /\ Obeys(b, cmd).pos = b.pos /\ Obeys(b, cmd).tilt = b.tilt
         /\ Obeys(b, cmd).motor =
              IF AtEnd(b, IF cmd = "UP" THEN "up" ELSE "down") THEN "still"
              ELSE IF cmd = "UP" THEN "up" ELSE "down"
BY DEF Obeys, Runs, Halts, Blind, BlindRecord

(* The movement that is sent is the one the estimate has followed already. *)
LEMMA WishTransmit ==
  ASSUME WishInv, Transmit
  PROVE  ExactInv' /\ JogInv'
<1>1. /\ Len(queue) \in Nat \ {0} /\ 1 \in 1 .. Len(queue)
      /\ OnlyFirst => \A i \in 1 .. Len(queue') : queue'[i] = "CHECK"
      /\ blind' = Obeys(blind, queue[1])
      /\ queue[1] # "CHECK" => air' = air
      /\ queue[1] = "CHECK" => blind' = blind /\ air' \in {air, Append(air, StatusOf(blind))}
      /\ UNCHANGED <<ctx, cover, looped, wish, used>>
  BY TransmitFrame DEF WishInv
<1>2. ctx \in Context /\ blind \in Blind(ctx) /\ blind \in BlindRecord(ctx) /\ air \in Seq(Status)
  BY DeviceAssumption DEF WishInv, CoverInv, Blind
<1>3. ASSUME OnlyFirst, Commanded
      PROVE  /\ blind'.pos = blind.pos /\ blind'.tilt = blind.tilt
             /\ Running' \/ (Still' /\ AtEnd(blind, IF queue[1] = "UP" THEN "up" ELSE "down"))
  <2>1. queue[1] \in {"UP", "DOWN"}
    BY <1>3 DEF Commanded
  <2>2. /\ blind'.pos = blind.pos /\ blind'.tilt = blind.tilt
        /\ blind'.motor = IF AtEnd(blind, IF queue[1] = "UP" THEN "up" ELSE "down") THEN "still"
                          ELSE IF queue[1] = "UP" THEN "up" ELSE "down"
    BY <1>1, <1>2, <2>1, MoveObeyed
  <2>3. air' = <<>>
    BY <1>1, <1>3, <2>1 DEF Commanded
  <2>4. Exact'
    BY <1>1, <1>3, <2>2 DEF Commanded, Exact, ExactFor
  <2>5. CASE AtEnd(blind, IF queue[1] = "UP" THEN "up" ELSE "down")
    BY <1>1, <1>3, <2>2, <2>5 DEF Still
  <2>6. CASE ~AtEnd(blind, IF queue[1] = "UP" THEN "up" ELSE "down")
    <3>1. Heading(cover'.state, blind'.motor)
      BY <1>1, <1>3, <2>2, <2>6 DEF Commanded, Heading
    <3>2. QED BY <1>1, <1>3, <2>2, <2>3, <2>4, <3>1 DEF Running
  <2>7. QED BY <2>5, <2>6
<1>4. ASSUME OnlyFirst, Running
      PROVE  Running' /\ blind' = blind
  <2>1. queue[1] = "CHECK"
    BY <1>1, <1>4 DEF Running
  <2>2. /\ StatusOf(blind) \in Status
        /\ StatusOf(blind) = IF blind.motor = "up" THEN "MOVING_UP" ELSE "MOVING_DOWN"
    BY <1>4 DEF Running, Heading, StatusOf, Status
  <2>3. /\ Len(air) \in Nat
        /\ \A i \in 1 .. Len(air') :
             \/ i \in 1 .. Len(air) /\ air'[i] = air[i]
             \/ i = Len(air) + 1 /\ air'[i] = StatusOf(blind)
    BY <1>1, <1>2, <2>1, <2>2, ReportIs
  <2>4. blind' = blind
    BY <1>1, <2>1
  <2>5. \A i \in 1 .. Len(air') :
          air'[i] = IF blind.motor = "up" THEN "MOVING_UP" ELSE "MOVING_DOWN"
    BY <1>4, <2>2, <2>3 DEF Running
  <2>6. Exact' /\ Heading(cover'.state, blind'.motor)
    BY <1>1, <1>4, <2>4 DEF Running, Exact
  <2>7. QED BY <1>1, <1>4, <2>4, <2>5, <2>6 DEF Running
<1>5. ASSUME OnlyFirst, StopFirst
      PROVE  /\ Still' /\ blind'.pos = blind.pos /\ blind'.tilt = blind.tilt
             /\ air' = air
  <2>1. blind' = [blind EXCEPT !.motor = "still"] /\ air' = air
    BY <1>1, <1>5 DEF StopFirst, Obeys, Halts
  <2>2. QED BY <1>1, <1>2, <1>5, <2>1 DEF Still, BlindRecord
<1>6. ASSUME OnlyFirst, Still
      PROVE  /\ Still' /\ blind' = blind /\ air' \in {air, Append(air, StatusOf(blind))}
  <2>1. queue[1] = "CHECK"
    BY <1>1, <1>6 DEF Still
  <2>2. QED BY <1>1, <1>6, <2>1 DEF Still
<1>7. (\A i \in 1 .. Len(queue') : queue'[i] = "CHECK") => OnlyFirst'
  BY DEF OnlyFirst
<1>8. Relied' <=> Relied
  BY <1>1 DEF Relied
<1>9. ExactInv'
  BY <1>1, <1>3, <1>4, <1>5, <1>6, <1>7, <1>8 DEF WishInv, ExactInv
<1>10. ASSUME wish.kind = "tilt"
       PROVE  /\ JogTurns' \/ JogHalts' \/ JogDone'
              /\ blind'.pos = blind.pos
  <2>0. /\ OnlyFirst /\ has_tilt_tracking(ctx) /\ wish.value \in 0 .. ctx.sweep
        /\ ctx.sweep \in Nat /\ blind.tilt \in Nat /\ blind.pos = wish.from
    BY <1>2, <1>10
       DEF WishInv, ExactInv, JogInv, Relied, Context, Blind, BlindRecord, TILT_OPEN
  <2>1. CASE JogTurns
    <3>1. CASE Commanded
      <4>1. ~AtEnd(blind, IF queue[1] = "UP" THEN "up" ELSE "down")
        BY <2>0, <2>1, <3>1 DEF JogTurns, Short, Commanded, AtEnd
      <4>2. Running' /\ blind'.pos = blind.pos /\ blind'.tilt = blind.tilt
        BY <1>3, <2>0, <3>1, <4>1
      <4>3. QED BY <1>1, <2>1, <4>2 DEF JogTurns, Short
    <3>2. CASE Running
      BY <1>1, <1>4, <2>0, <2>1, <3>2 DEF JogTurns, Short
    <3>3. QED BY <2>1, <3>1, <3>2 DEF JogTurns
  <2>2. CASE JogHalts
    <3>1. Still' /\ blind'.pos = blind.pos /\ blind'.tilt = blind.tilt /\ air' = air
      BY <1>5, <2>0, <2>2 DEF JogHalts
    <3>2. \A i \in 1 .. Len(air) :
            air[i] \notin {"TOP", "TOP_TILT", "BOTTOM", "BOTTOM_TILT"}
      BY <2>2 DEF JogHalts, Moving
    <3>3. QED BY <1>1, <2>2, <3>1, <3>2 DEF JogDone, JogHalts, estimated, is_moving
  <2>3. CASE JogDone
    <3>1. Still' /\ blind' = blind /\ air' \in {air, Append(air, StatusOf(blind))}
      BY <1>6, <2>0, <2>3 DEF JogDone
    <3>2. /\ StatusOf(blind) \in Status /\ StatusOf(blind) \notin Moving
          /\ StatusOf(blind) \in {"TOP", "TOP_TILT"} => blind.pos = POSITION_OPEN
          /\ StatusOf(blind) \in {"BOTTOM", "BOTTOM_TILT"} => blind.pos = POSITION_CLOSED
      BY <2>3 DEF JogDone, Still, StatusOf, Status, Moving
    <3>3. /\ Len(air) \in Nat
          /\ \A i \in 1 .. Len(air') :
               \/ i \in 1 .. Len(air) /\ air'[i] = air[i]
               \/ i = Len(air) + 1 /\ air'[i] = StatusOf(blind)
      BY <1>2, <3>1, <3>2, ReportIs
    <3>4. \A i \in 1 .. Len(air') :
            /\ air'[i] \in Moving => cover.state.kind = "Stopping" /\ cover.state.age = 0
            /\ air'[i] \in {"TOP", "TOP_TILT"} => blind.pos = POSITION_OPEN
            /\ air'[i] \in {"BOTTOM", "BOTTOM_TILT"} => blind.pos = POSITION_CLOSED
      BY <2>3, <3>2, <3>3 DEF JogDone
    <3>5. ASSUME NEW i \in 1 .. Len(air'), NEW j \in 1 .. Len(air'), i < j, air'[j] \in Moving
          PROVE  air'[i] \in Moving
      <4>1. j \in 1 .. Len(air) /\ air'[j] = air[j]
        BY <3>2, <3>3, <3>5
      <4>2. i \in 1 .. Len(air) /\ air'[i] = air[i]
        BY <3>3, <3>5, <4>1
      <4>3. QED BY <2>3, <3>5, <4>1, <4>2 DEF JogDone
    <3>6. QED BY <1>1, <2>3, <3>1, <3>4, <3>5 DEF JogDone, estimated
  <2>4. ~JogArrives
    BY DEF JogArrives, Transmit
  <2>5. QED BY <1>10, <2>1, <2>2, <2>3, <2>4 DEF WishInv, JogInv
<1>11. QED BY <1>1, <1>9, <1>10 DEF WishInv, JogInv, has_tilt_tracking

(* Time passes: the estimate and the blind move together, and at the end   *)
(* of its way the motor stops by itself.                                   *)
LEMMA WishTick ==
  ASSUME WishInv, Tick
  PROVE  ExactInv' /\ JogInv'
<1>1. CASE wish'.kind \notin {"full", "check", "ignored", "tilt"}
  BY <1>1 DEF ExactInv, JogInv, Relied
<1>2. CASE wish'.kind \in {"full", "check", "ignored", "tilt"}
  <2>1. /\ queue = <<>> /\ air = <<>> /\ wish' = wish /\ UNCHANGED <<ctx, queue, air>>
        /\ looped /\ looped' = FALSE /\ blind' = Turns(blind)
    BY <1>2 DEF Tick, NoWish
  <2>2. cover'.state = Older(cover.state) /\ cover'.tilt_target = cover.tilt_target
    BY DEF Tick, WishInv, CoverInv, Cover
  <2>3. /\ ctx \in Context /\ cover.state \in State(ctx) /\ blind \in Blind(ctx)
        /\ ctx.sweep \in Nat /\ blind.tilt \in Nat /\ cover.state.age \in Nat
    BY DeviceAssumption
       DEF WishInv, CoverInv, Cover, Context, State, Blind, BlindRecord, TILT_OPEN
  <2>4. ~Commanded /\ ~StopFirst
    BY <2>1 DEF Commanded, StopFirst
  <2>5. Relied' <=> Relied
    BY <2>1 DEF Relied
  <2>6. wish.kind = "tilt" => JogTurns \/ JogDone
    BY <2>1, <2>4 DEF WishInv, JogInv, JogArrives, JogHalts
  <2>7. ASSUME Relied, Running
        PROVE  /\ Exact' /\ blind'.motor \in {blind.motor, "still"}
               /\ Heading(cover'.state, blind.motor)
               /\ Running' \/ Still'
    <3>1. Followed(ctx, blind)
      <4>1. CASE wish.kind = "tilt"
        <5>1. JogTurns /\ has_tilt_tracking(ctx) /\ wish.value \in 0 .. ctx.sweep
          BY <2>6, <2>7, <4>1 DEF JogDone, Still, Running, Heading, WishInv, JogInv
        <5>2. QED BY <2>3, <2>7, <5>1 DEF JogTurns, Short, Running, Heading, Followed
      <4>2. CASE wish.kind # "tilt"
        BY <2>7, <4>2 DEF Relied, Followed
      <4>3. QED BY <4>1, <4>2
    <3>2. ExactFor(ctx, Older(cover.state), Turns(blind))
      BY <2>3, <2>7, <3>1, UpTick, DownTick DEF Running, Heading, Exact
    <3>3. Exact'
      BY <2>1, <2>2, <3>2 DEF Exact
    <3>4. blind'.motor \in {blind.motor, "still"}
      BY <2>1, <2>3, <2>7, TurnsMoves DEF Running, Heading
    <3>5. Older(cover.state).kind = cover.state.kind
      BY <2>3 DEF Older, State
    <3>6. Heading(cover'.state, blind.motor)
      BY <2>2, <2>7, <3>5 DEF Running, Heading
    <3>7. Running' \/ Still'
      BY <2>1, <3>3, <3>4, <3>6 DEF Running, Still
    <3>8. QED BY <3>3, <3>4, <3>6, <3>7
  <2>8. ASSUME Still
        PROVE  Still' /\ blind' = blind
    BY <2>1, <2>8, StillTurns DEF Still
  <2>9. ExactInv'
    BY <2>1, <2>4, <2>5, <2>7, <2>8 DEF WishInv, ExactInv, OnlyFirst
  <2>10. ASSUME wish.kind = "tilt"
         PROVE  /\ JogTurns' \/ JogArrives' \/ JogDone'
                /\ blind'.pos = blind.pos
    <3>1. has_tilt_tracking(ctx) /\ wish.value \in 0 .. ctx.sweep /\ Relied
      BY <2>10 DEF WishInv, JogInv, Relied
    <3>2. CASE JogTurns
      <4>1. Running
        BY <2>4, <3>2 DEF JogTurns
      <4>2. /\ Exact' /\ blind'.motor \in {blind.motor, "still"}
            /\ Heading(cover'.state, blind.motor) /\ (Running' \/ Still')
        BY <2>7, <3>1, <4>1
      <4>3. /\ cover'.state.kind = cover.state.kind /\ cover'.state.age = cover.state.age + 1
            /\ is_moving(cover'.state)
        BY <2>2, <2>3, <4>1 DEF Older, State, Running, Heading, is_moving
      <4>4. /\ blind'.pos = blind.pos
            /\ cover.state.age < ctx.sweep
            /\ cover.state.kind = "Opening" =>
                 blind'.tilt = blind.tilt + 1 /\ blind.tilt < wish.value
            /\ cover.state.kind # "Opening" =>
                 blind'.tilt = blind.tilt - 1 /\ blind.tilt > wish.value
        <5>1. CASE cover.state.kind = "Opening"
          <6>1. blind.motor = "up" /\ blind.tilt < wish.value /\ blind.tilt < ctx.sweep
            BY <2>3, <3>1, <3>2, <4>1, <5>1 DEF JogTurns, Short, Running, Heading
          <6>2. Turns(blind).tilt = blind.tilt + 1 /\ Turns(blind).pos = blind.pos
            BY <2>3, <6>1, TurnsMoves
          <6>3. cover.state.age < ctx.sweep
            BY <2>3, <4>1, <5>1, <6>1, UpTick DEF Running, Exact, Followed
          <6>4. QED BY <2>1, <5>1, <6>1, <6>2, <6>3
        <5>2. CASE cover.state.kind # "Opening"
          <6>1. /\ blind.motor = "down" /\ cover.state.kind = "Closing"
                /\ blind.tilt > wish.value /\ blind.tilt > 0
            BY <2>3, <3>1, <3>2, <4>1, <5>2 DEF JogTurns, Short, Running, Heading
          <6>2. Turns(blind).tilt = blind.tilt - 1 /\ Turns(blind).pos = blind.pos
            BY <2>3, <3>1, <6>1, TurnsMoves
          <6>3. cover.state.age < ctx.sweep
            BY <2>3, <3>1, <4>1, <6>1, DownTick DEF Running, Exact, Followed
          <6>4. QED BY <2>1, <5>2, <6>1, <6>2, <6>3
        <5>3. QED BY <5>1, <5>2
      <4>5. CASE blind'.tilt = wish.value
        <5>1. cover'.state.age <= ctx'.sweep
          BY <2>1, <2>3, <4>3, <4>4
        <5>2. Heading(cover'.state, blind'.motor) \/ blind'.motor = "still"
          BY <4>2
        <5>3. JogArrives'
          BY <2>1, <2>2, <3>2, <4>2, <4>3, <4>5, <5>1, <5>2 DEF JogArrives, JogTurns
        <5>4. QED BY <4>4, <5>3
      <4>6. CASE blind'.tilt # wish.value
        <5>1. Short'
          BY <2>1, <2>3, <3>1, <4>3, <4>4, <4>6 DEF Short
        <5>2. Running'
          <6>1. CASE cover.state.kind = "Opening"
            <7>1. blind.motor = "up"
              BY <4>1, <6>1 DEF Running, Heading
            <7>2. Turns(blind).tilt < ctx.sweep
              BY <2>1, <2>3, <3>1, <4>4, <4>6, <6>1
            <7>3. Turns(blind).motor = "up"
              BY <2>3, <7>1, <7>2, TurnsMoves
            <7>4. QED BY <2>1, <4>2, <7>3 DEF Still
          <6>2. CASE cover.state.kind # "Opening"
            <7>1. blind.motor = "down"
              BY <4>1, <6>2 DEF Running, Heading
            <7>2. Turns(blind).tilt > 0
              BY <2>1, <2>3, <3>1, <4>4, <4>6, <6>2
            <7>3. Turns(blind).motor = "down"
              BY <2>3, <3>1, <7>1, <7>2, TurnsMoves
            <7>4. QED BY <2>1, <4>2, <7>3 DEF Still
          <6>3. QED BY <6>1, <6>2
        <5>3. QED BY <2>1, <2>2, <3>2, <4>4, <5>1, <5>2 DEF JogTurns
      <4>7. QED BY <4>5, <4>6
    <3>3. CASE JogDone
      <4>1. Still' /\ blind' = blind
        BY <2>8, <3>3 DEF JogDone
      <4>2. ~is_moving(cover'.state) /\ cover'.state.pos = cover.state.pos
        BY <2>2, <2>3, <3>3 DEF JogDone, Older, State, is_moving
      <4>3. estimated' = estimated
        BY <2>1, <3>3, <4>2 DEF JogDone, estimated, position, is_moving
      <4>4. QED BY <2>1, <3>3, <4>1, <4>2, <4>3 DEF JogDone
    <3>4. QED BY <2>6, <2>10, <3>2, <3>3
  <2>11. QED BY <2>1, <2>9, <2>10 DEF WishInv, JogInv, has_tilt_tracking
<1>3. QED BY <1>1, <1>2

(* Every step keeps what is said of a wish that is relied on.              *)
LEMMA WishStep ==
  ASSUME WishInv, TimeoutSuffices, [Next]_vars
  PROVE  ExactInv' /\ JogInv'
<1>1. CASE User
  BY <1>1, WishUser DEF WishInv
<1>2. CASE dispatch_status
  BY <1>2, WishDispatch
<1>3. CASE loop_cover
  BY <1>3, WishLoop
<1>4. CASE Transmit
  BY <1>4, WishTransmit
<1>5. CASE CommandLost \/ ReportLost \/ WallRemote
  <2>1. wish'.kind = "none"
    BY <1>5 DEF CommandLost, ReportLost, WallRemote, BlindActs, Trouble, NoWish
  <2>2. QED BY <2>1 DEF ExactInv, JogInv, Relied
<1>6. CASE Tick
  BY <1>6, WishTick
<1>7. CASE UNCHANGED vars
  <2>1. UNCHANGED <<ctx, cover, queue, looped, blind, air, wish>>
    BY <1>7 DEF vars, device
  <2>2. Exact' <=> Exact
    BY <2>1 DEF Exact
  <2>3. /\ Commanded' <=> Commanded
        /\ Running' <=> Running
        /\ Still' <=> Still
        /\ StopFirst' <=> StopFirst
    BY <2>1, <2>2 DEF Commanded, Running, Still, StopFirst
  <2>4. ExactInv'
    BY <2>1, <2>3 DEF ExactInv, WishInv, Relied, OnlyFirst
  <2>5. /\ JogTurns' <=> JogTurns
        /\ JogHalts' <=> JogHalts
    BY <2>1, <2>3 DEF JogTurns, Short, JogHalts, estimated
  <2>6. /\ JogArrives' <=> JogArrives
        /\ JogDone' <=> JogDone
    BY <2>1, <2>2, <2>3 DEF JogArrives, JogDone, estimated
  <2>7. JogInv'
    BY <2>1, <2>5, <2>6 DEF JogInv, WishInv, has_tilt_tracking
  <2>8. QED BY <2>4, <2>7
<1>8. QED BY <1>1, <1>2, <1>3, <1>4, <1>5, <1>6, <1>7 DEF Next

(* While a movement fits into the timeout: the derived position and tilt   *)
(* of a blind that was known when it was last sent on its way, and that    *)
(* nothing has come between since, are those of the blind for as long as   *)
(* it runs, through the turn of the slats, the travel and a reversal.      *)
THEOREM CoverEstimateExact == TimeoutSuffices => (Spec => []EstimateExact)
<1> SUFFICES ASSUME TimeoutSuffices PROVE Spec => []EstimateExact
  OBVIOUS
<1>1. Init => WishInv
  BY InitInv, HistoryInit DEF WishInv, ExactInv, JogInv, Relied
<1>2. WishInv /\ [Next]_vars => WishInv'
  BY CoverStep, WishStep DEF WishInv
<1>3. WishInv => EstimateExact
  <2> SUFFICES ASSUME WishInv, has_position_tracking(ctx),
                      wish.kind \in {"full", "tilt", "check", "ignored"},
                      blind.motor # "still", queue = <<>>
               PROVE  /\ estimated = blind.pos
                      /\ has_tilt_tracking(ctx) => estimatedTilt = blind.tilt
    BY DEF EstimateExact
  <2>1. ~Commanded /\ ~StopFirst /\ ~Still
    BY DEF Commanded, StopFirst, Still
  <2>2. Running
    BY <2>1 DEF WishInv, ExactInv, Relied
  <2>3. QED BY <2>2 DEF Running, Exact, ExactFor, estimated, estimatedTilt
<1>4. QED BY <1>1, <1>2, <1>3, PTL DEF Spec

(* Likewise a jog turns the slats of a known blind to where they were      *)
(* asked to be and leaves the blind, and its estimate, at their height.    *)
THEOREM CoverJogKeepsPosition == TimeoutSuffices => (Spec => []JogKeepsPosition)
<1> SUFFICES ASSUME TimeoutSuffices PROVE Spec => []JogKeepsPosition
  OBVIOUS
<1>1. Init => WishInv
  BY InitInv, HistoryInit DEF WishInv, ExactInv, JogInv, Relied
<1>2. WishInv /\ [Next]_vars => WishInv'
  BY CoverStep, WishStep DEF WishInv
<1>3. WishInv => JogKeepsPosition
  <2> SUFFICES ASSUME WishInv, wish.kind = "tilt", AtRest
               PROVE  /\ blind.tilt = wish.value
                      /\ blind.pos = wish.from /\ estimated = wish.from
    BY DEF JogKeepsPosition
  <2>1. JogDone /\ blind.pos = wish.from
    BY DEF WishInv, JogInv, AtRest, JogTurns, JogArrives, JogHalts, Commanded, Running,
           Heading, StopFirst
  <2>2. QED BY <2>1 DEF JogDone
<1>4. QED BY <1>1, <1>2, <1>3, PTL DEF Spec

----------------------------------------------------------------------------
(* The inductive invariant of a wish for a position.                       *)

(* How far off a blind may be, and its slats if they are modelled.         *)
Slack == IF wish.turned THEN 2 * used.late ELSE used.late

slats(t) == IF has_tilt_tracking(ctx) THEN t ELSE 0

(* To one of the ends the blind runs by itself, once the command is sent.  *)
ToEnd ==
  /\ cover.target_position = NO_TARGET /\ cover.tilt_target = NO_TARGET
  /\ \/ /\ Len(queue) > 0
        /\ queue[1] = IF wish.value = POSITION_OPEN THEN "UP" ELSE "DOWN"
     \/ /\ \A i \in 1 .. Len(queue) : queue[i] = "CHECK"
        /\ blind.motor = IF wish.value = POSITION_OPEN THEN "up" ELSE "down"
     \/ Still /\ blind.pos = wish.value

(* To a position in between the estimate runs ahead of the blind, in       *)
(* position and slats, by no more than the slack; it arrives first.        *)
Upwards ==
  /\ cover.target_position = wish.value
  /\ cover.state.kind = "Opening" /\ cover.state.pos < wish.value
  /\ \/ Len(queue) > 0 /\ queue[1] = "UP" /\ air = <<>>
     \/ /\ \A i \in 1 .. Len(queue) : queue[i] = "CHECK"
        /\ blind.motor = "up"
        /\ \A i \in 1 .. Len(air) : air[i] = "MOVING_UP"
  /\ blind.motor \in {"still", "up"} \/ (blind.motor = "down" /\ wish.turned)
  /\ estimated <= wish.value /\ (looped => estimated < wish.value)
  /\ blind.pos <= estimated /\ slats(blind.tilt) <= slats(estimatedTilt)
  /\ estimated + slats(estimatedTilt) <= blind.pos + slats(blind.tilt) + Slack

Downwards ==
  /\ cover.target_position = wish.value
  /\ cover.state.kind = "Closing" /\ cover.state.pos > wish.value
  /\ \/ Len(queue) > 0 /\ queue[1] = "DOWN" /\ air = <<>>
     \/ /\ \A i \in 1 .. Len(queue) : queue[i] = "CHECK"
        /\ blind.motor = "down"
        /\ \A i \in 1 .. Len(air) : air[i] = "MOVING_DOWN"
  /\ blind.motor \in {"still", "down"} \/ (blind.motor = "up" /\ wish.turned)
  /\ estimated >= wish.value /\ (looped => estimated > wish.value)
  /\ blind.pos >= estimated /\ slats(blind.tilt) >= slats(estimatedTilt)
  /\ blind.pos + slats(blind.tilt) <= estimated + slats(estimatedTilt) + Slack

Stops ==
  /\ StopFirst \/ Still
  /\ Distance(blind.pos, wish.value) <= Slack

PositionInv ==
  wish.kind = "position" =>
    /\ has_position_tracking(ctx) /\ wish.value \in POSITION_CLOSED .. POSITION_OPEN
    /\ OnlyFirst
    /\ IF wish.value \in {POSITION_CLOSED, POSITION_OPEN} THEN ToEnd
       ELSE Upwards \/ Downwards \/ Stops

----------------------------------------------------------------------------
(* Lemmas: one tick of an estimate that moves.                             *)

(* The slats turn first, then the position changes.                        *)
LEMMA OpeningTick ==
  ASSUME ctx \in Context, has_position_tracking(ctx), NEW s \in State(ctx), s.kind = "Opening"
  PROVE  /\ s.pos <= position(s, ctx)
         /\ slats(tilt(s, ctx)) \in 0 .. ctx.sweep
         /\ IF slats(tilt(s, ctx)) < ctx.sweep
            THEN /\ position(s, ctx) = s.pos /\ position(Older(s), ctx) = s.pos
                 /\ slats(tilt(Older(s), ctx)) = slats(tilt(s, ctx)) + 1
            ELSE /\ position(Older(s), ctx) = Least(TRAVEL, position(s, ctx) + 1)
                 /\ slats(tilt(Older(s), ctx)) = ctx.sweep
         /\ position(s, ctx) < TRAVEL => s.age < TRAVEL + ctx.sweep
<1> DEFINE o == Older(s)
<1>1. o.kind = "Opening" /\ o.pos = s.pos /\ o.tilt = s.tilt /\ o.age = s.age + 1
  BY DEF Older, State
<1>2. /\ TRAVEL \in Nat /\ ctx.sweep \in Nat /\ s.pos \in Nat /\ s.pos <= TRAVEL
      /\ s.tilt \in Nat /\ s.tilt <= TILT_OPEN(ctx) /\ s.age \in Nat /\ ctx.tracked
  BY CoverAssumption DEF Context, State, POSITION_OPEN, POSITION_CLOSED, TILT_CLOSED,
                         TILT_OPEN, has_tilt_tracking, has_position_tracking
<1> HIDE DEF o
<1>3. CASE has_tilt_tracking(ctx)
  <2> DEFINE S == ctx.sweep
             t == s.tilt
             a == s.age
             p == s.pos
  <2>1. TILT_OPEN(ctx) = S /\ t <= S
    BY <1>2, <1>3 DEF TILT_OPEN
  <2>2. /\ slats(tilt(s, ctx)) = Least(S, t + a)
        /\ slats(tilt(o, ctx)) = Least(S, t + (a + 1))
        /\ position(s, ctx) = Least(TRAVEL, p + Minus(a, S - t))
        /\ position(o, ctx) = Least(TRAVEL, p + Minus(a + 1, S - t))
    BY <1>1, <1>2, <1>3, <2>1
       DEF slats, tilt, is_moving, travel_elapsed, tilt_dead_time, position, POSITION_OPEN
  <2>3. S \in Nat /\ t \in Nat /\ a \in Nat /\ p \in Nat /\ p <= TRAVEL
    BY <1>2
  <2> HIDE DEF S, t, a, p
  <2>4. /\ p <= Least(TRAVEL, p + Minus(a, S - t))
        /\ Least(S, t + a) \in 0 .. S
        /\ IF Least(S, t + a) < S
           THEN /\ Least(TRAVEL, p + Minus(a, S - t)) = p
                /\ Least(TRAVEL, p + Minus(a + 1, S - t)) = p
                /\ Least(S, t + (a + 1)) = Least(S, t + a) + 1
           ELSE /\ Least(TRAVEL, p + Minus(a + 1, S - t))
                     = Least(TRAVEL, Least(TRAVEL, p + Minus(a, S - t)) + 1)
                /\ Least(S, t + (a + 1)) = S
        /\ Least(TRAVEL, p + Minus(a, S - t)) < TRAVEL => a < TRAVEL + S
    BY <1>2, <2>1, <2>3 DEF Least, Minus
  <2>5. QED BY <2>2, <2>4 DEF S, t, a, p, o
<1>4. CASE ~has_tilt_tracking(ctx)
  <2>1. ctx.sweep = 0 /\ slats(tilt(s, ctx)) = 0 /\ slats(tilt(o, ctx)) = 0
    BY <1>2, <1>4 DEF has_tilt_tracking, slats
  <2>2. /\ position(s, ctx) = Least(TRAVEL, s.pos + s.age)
        /\ position(o, ctx) = Least(TRAVEL, s.pos + (s.age + 1))
    <3>1. travel_elapsed(s, ctx) = s.age /\ travel_elapsed(o, ctx) = s.age + 1
      BY <1>1, <1>2, <1>4 DEF travel_elapsed, tilt_dead_time, Minus
    <3>2. QED BY <1>1, <1>2, <3>1 DEF position, is_moving, POSITION_OPEN
  <2>3. QED BY <1>2, <2>1, <2>2 DEF Least, o
<1>5. QED BY <1>3, <1>4

(* Likewise downwards.                                                     *)
LEMMA ClosingTick ==
  ASSUME ctx \in Context, has_position_tracking(ctx), NEW s \in State(ctx), s.kind = "Closing"
  PROVE  /\ s.pos >= position(s, ctx)
         /\ slats(tilt(s, ctx)) \in 0 .. ctx.sweep
         /\ IF slats(tilt(s, ctx)) > 0
            THEN /\ position(s, ctx) = s.pos /\ position(Older(s), ctx) = s.pos
                 /\ slats(tilt(Older(s), ctx)) = slats(tilt(s, ctx)) - 1
            ELSE /\ position(Older(s), ctx) = Minus(position(s, ctx), 1)
                 /\ slats(tilt(Older(s), ctx)) = 0
         /\ position(s, ctx) > 0 => s.age < TRAVEL + ctx.sweep
<1> DEFINE o == Older(s)
<1>1. o.kind = "Closing" /\ o.pos = s.pos /\ o.tilt = s.tilt /\ o.age = s.age + 1
  BY DEF Older, State
<1>2. /\ TRAVEL \in Nat /\ ctx.sweep \in Nat /\ s.pos \in Nat /\ s.pos <= TRAVEL
      /\ s.tilt \in Nat /\ s.tilt <= TILT_OPEN(ctx) /\ s.age \in Nat /\ ctx.tracked
  BY CoverAssumption DEF Context, State, POSITION_OPEN, POSITION_CLOSED, TILT_CLOSED,
                         TILT_OPEN, has_tilt_tracking, has_position_tracking
<1> HIDE DEF o
<1>3. CASE has_tilt_tracking(ctx)
  <2> DEFINE S == ctx.sweep
             t == s.tilt
             a == s.age
             p == s.pos
  <2>1. TILT_OPEN(ctx) = S /\ t <= S
    BY <1>2, <1>3 DEF TILT_OPEN
  <2>2. s.tilt - TILT_CLOSED = t /\ o.tilt - TILT_CLOSED = t
    BY <1>1, <1>2 DEF TILT_CLOSED
  <2>3. /\ slats(tilt(s, ctx)) = Minus(t, a)
        /\ slats(tilt(o, ctx)) = Minus(t, a + 1)
        /\ position(s, ctx) = Minus(p, Minus(a, t))
        /\ position(o, ctx) = Minus(p, Minus(a + 1, t))
    BY <1>1, <1>2, <1>3, <2>2
       DEF slats, tilt, is_moving, travel_elapsed, tilt_dead_time, position
  <2>4. S \in Nat /\ t \in Nat /\ a \in Nat /\ p \in Nat /\ p <= TRAVEL
    BY <1>2
  <2> HIDE DEF S, t, a, p
  <2>5. /\ p >= Minus(p, Minus(a, t))
        /\ Minus(t, a) \in 0 .. S
        /\ IF Minus(t, a) > 0
           THEN /\ Minus(p, Minus(a, t)) = p
                /\ Minus(p, Minus(a + 1, t)) = p
                /\ Minus(t, a + 1) = Minus(t, a) - 1
           ELSE /\ Minus(p, Minus(a + 1, t)) = Minus(Minus(p, Minus(a, t)), 1)
                /\ Minus(t, a + 1) = 0
        /\ Minus(p, Minus(a, t)) > 0 => a < TRAVEL + S
    BY <1>2, <2>1, <2>4 DEF Minus
  <2>6. QED BY <2>3, <2>5 DEF S, t, a, p, o
<1>4. CASE ~has_tilt_tracking(ctx)
  <2>1. ctx.sweep = 0 /\ slats(tilt(s, ctx)) = 0 /\ slats(tilt(o, ctx)) = 0
    BY <1>2, <1>4 DEF has_tilt_tracking, slats
  <2>2. /\ position(s, ctx) = Minus(s.pos, s.age)
        /\ position(o, ctx) = Minus(s.pos, s.age + 1)
    <3>1. travel_elapsed(s, ctx) = s.age /\ travel_elapsed(o, ctx) = s.age + 1
      BY <1>1, <1>2, <1>4 DEF travel_elapsed, tilt_dead_time, Minus
    <3>2. QED BY <1>1, <1>2, <3>1 DEF position, is_moving
  <2>3. QED BY <1>2, <2>1, <2>2 DEF Minus, o
<1>5. QED BY <1>3, <1>4

(* One tick of the motor, in the same terms.                               *)
LEMMA BlindTick ==
  ASSUME ctx \in Context, NEW b \in Blind(ctx)
  PROVE  /\ Turns(b).pos - b.pos \in {-1, 0, 1}
         /\ b.motor = "up" =>
              IF slats(b.tilt) < ctx.sweep
              THEN slats(Turns(b).tilt) = slats(b.tilt) + 1 /\ Turns(b).pos = b.pos
              ELSE slats(Turns(b).tilt) = slats(b.tilt) /\ Turns(b).pos = b.pos + 1
         /\ b.motor = "down" =>
              IF slats(b.tilt) > 0
              THEN slats(Turns(b).tilt) = slats(b.tilt) - 1 /\ Turns(b).pos = b.pos
              ELSE slats(Turns(b).tilt) = slats(b.tilt) /\ Turns(b).pos = b.pos - 1
         /\ b.motor = "up" => \/ Turns(b).motor = "up"
                              \/ Turns(b).motor = "still" /\ Turns(b).pos = POSITION_OPEN
         /\ b.motor = "down" => \/ Turns(b).motor = "down"
                                \/ Turns(b).motor = "still" /\ Turns(b).pos = POSITION_CLOSED
         /\ slats(b.tilt) \in 0 .. ctx.sweep
<1>1. /\ b \in BlindRecord(ctx) /\ b.pos \in Nat /\ b.tilt \in Nat /\ ctx.sweep \in Nat
      /\ b.motor \in {"still", "up", "down", "favorite"}
      /\ has_tilt_tracking(ctx) => b.tilt <= ctx.sweep
  BY DEF Blind, BlindRecord, Context, TILT_OPEN
<1>2. /\ b.motor = "up" =>
           IF b.tilt < ctx.sweep
           THEN Turns(b).tilt = b.tilt + 1 /\ Turns(b).pos = b.pos
           ELSE Turns(b).tilt = b.tilt /\ Turns(b).pos = b.pos + 1
      /\ b.motor = "down" =>
           IF b.tilt > 0 /\ has_tilt_tracking(ctx)
           THEN Turns(b).tilt = b.tilt - 1 /\ Turns(b).pos = b.pos
           ELSE Turns(b).tilt = b.tilt /\ Turns(b).pos = b.pos - 1
  BY TurnsMoves
<1>3. /\ b.motor = "up" =>
           IF slats(b.tilt) < ctx.sweep
           THEN slats(Turns(b).tilt) = slats(b.tilt) + 1 /\ Turns(b).pos = b.pos
           ELSE slats(Turns(b).tilt) = slats(b.tilt) /\ Turns(b).pos = b.pos + 1
      /\ b.motor = "down" =>
           IF slats(b.tilt) > 0
           THEN slats(Turns(b).tilt) = slats(b.tilt) - 1 /\ Turns(b).pos = b.pos
           ELSE slats(Turns(b).tilt) = slats(b.tilt) /\ Turns(b).pos = b.pos - 1
  BY <1>1, <1>2 DEF slats, has_tilt_tracking
<1>4. b.motor \in {"still", "favorite"} => Turns(b).pos = b.pos
  <2>1. Turns(b).pos = Advances(b).pos
    BY TurnsMoves
  <2>2. QED BY <1>1, <2>1 DEF Advances, BlindRecord
<1>5. Turns(b).pos - b.pos \in {-1, 0, 1}
  BY <1>1, <1>2, <1>4
<1>6. /\ b.motor = "up" => \/ Turns(b).motor = "up"
                           \/ Turns(b).motor = "still" /\ Turns(b).pos = POSITION_OPEN
      /\ b.motor = "down" => \/ Turns(b).motor = "down"
                             \/ Turns(b).motor = "still" /\ Turns(b).pos = POSITION_CLOSED
  <2>1. b.motor # "favorite" => Turns(b).motor \in {b.motor, "still"}
    BY TurnsMoves
  <2>2. Turns(b).pos = Advances(b).pos
    BY TurnsMoves
  <2>3. b.motor \in {"up", "down"} => Advances(b).motor = b.motor
    BY <1>1 DEF Advances, BlindRecord
  <2>4. b.motor \in {"up", "down"} /\ ~AtEnd(Advances(b), b.motor) => Turns(b).motor = b.motor
    BY <2>3 DEF Turns
  <2>5. /\ b.motor = "up" /\ AtEnd(Advances(b), b.motor) => Advances(b).pos = POSITION_OPEN
        /\ b.motor = "down" /\ AtEnd(Advances(b), b.motor) => Advances(b).pos = POSITION_CLOSED
    BY DEF AtEnd
  <2>6. QED BY <2>1, <2>2, <2>4, <2>5
<1>7. slats(b.tilt) \in 0 .. ctx.sweep
  BY <1>1 DEF slats
<1>8. QED BY <1>3, <1>5, <1>6, <1>7

----------------------------------------------------------------------------
(* Steps of a wish for a position.                                         *)

(* Such a wish is made of a known blind, by the command that leads there.  *)
LEMMA UserPosition ==
  ASSUME CoverInv, User, wish'.kind = "position"
  PROVE  /\ Known /\ UNCHANGED <<ctx, looped, blind, air>> /\ has_position_tracking(ctx)
         /\ wish'.value \in POSITION_CLOSED .. POSITION_OPEN /\ wish'.value # estimated
         /\ wish'.turned = (blind.motor = IF wish'.value > blind.pos THEN "down" ELSE "up")
         /\ used'.late = used.late
         /\ CASE wish'.value = POSITION_OPEN -> Moves("UP", NO_TARGET, NO_TARGET)
              [] wish'.value = POSITION_CLOSED -> Moves("DOWN", NO_TARGET, NO_TARGET)
              [] OTHER -> Moves(IF wish'.value > estimated THEN "UP" ELSE "DOWN",
                                wish'.value, NO_TARGET)
<1>1. ASSUME NEW kind, NEW value, Wished(kind, value)
      PROVE  kind = "position" /\ wish'.value = value /\ Known
  BY <1>1 DEF Wished, NoWish
<1>2. ASSUME NEW cmd, command_cover_move(cmd) PROVE FALSE
  <2>1. Wished("full", 0) \/ Wished("favorite", 0)
    BY <1>2 DEF command_cover_move
  <2>2. QED BY <1>1, <2>1
<1>3. ASSUME NEW target, set_cover_tilt(target) PROVE FALSE
  <2>1. command_cover_tilt \/ Wished("ignored", 0) \/ Wished("tilt", target)
    BY <1>3 DEF set_cover_tilt
  <2>2. QED BY <1>1, <1>2, <2>1 DEF command_cover_tilt
<1>4. ~command_cover_stop /\ ~request_check
  BY <1>1 DEF command_cover_stop, request_check
<1>5. PICK target \in 0 .. POSITION_OPEN : set_cover_position(target)
  BY <1>2, <1>3, <1>4 DEF User
<1>6. target # estimated /\ Wished("position", target)
  <2>1. Wished(IF target = estimated THEN "nudge" ELSE "position", target)
    BY <1>5 DEF set_cover_position
  <2>2. QED BY <1>1, <2>1
<1>7. /\ wish'.value = target /\ Known /\ UNCHANGED <<ctx, looped, blind, air>>
      /\ wish'.turned = (blind.motor = IF target > blind.pos THEN "down" ELSE "up")
  BY <1>1, <1>6 DEF Wished
<1>8. used'.late = used.late
  BY <1>6 DEF Wished
<1>9. QED BY <1>5, <1>6, <1>7, <1>8 DEF set_cover_position, POSITION_CLOSED

(* The estimate sets off towards the position, as exact as it was known.   *)
LEMMA PositionUser ==
  ASSUME CoverInv, HistoryOK, HistoryOK', User
  PROVE  PositionInv'
<1> SUFFICES ASSUME wish'.kind = "position"
             PROVE  PositionInv'
  BY DEF PositionInv
<1> DEFINE v == wish'.value
<1>1. /\ Known /\ UNCHANGED <<ctx, looped, blind, air>> /\ has_position_tracking(ctx)
      /\ v \in POSITION_CLOSED .. POSITION_OPEN /\ v # estimated
      /\ wish'.turned = (blind.motor = IF v > blind.pos THEN "down" ELSE "up")
      /\ CASE v = POSITION_OPEN -> Moves("UP", NO_TARGET, NO_TARGET)
           [] v = POSITION_CLOSED -> Moves("DOWN", NO_TARGET, NO_TARGET)
           [] OTHER -> Moves(IF v > estimated THEN "UP" ELSE "DOWN", v, NO_TARGET)
  BY UserPosition
<1>2. /\ ctx \in Context /\ cover.state \in State(ctx) /\ TRAVEL \in Nat \ {0}
      /\ estimated \in POSITION_CLOSED .. POSITION_OPEN
      /\ blind.pos \in Int /\ blind.tilt \in Int
  BY DeviceAssumption, CoverAssumption, positionType
     DEF CoverInv, Cover, estimated, Blind, BlindRecord, Context, TILT_OPEN, has_tilt_tracking
<1>3. Slack' \in Nat
  BY DEF Slack, HistoryOK
<1>4. ASSUME NEW cmd \in {"UP", "DOWN"}, NEW target, Moves(cmd, target, NO_TARGET)
      PROVE  /\ Commanded' /\ OnlyFirst' /\ (cover'.state.kind = "Opening" <=> cmd = "UP")
             /\ Len(queue') > 0 /\ queue'[1] = cmd
             /\ cover'.target_position = target /\ cover'.tilt_target = NO_TARGET
             /\ cover'.state = on_command(cover.state, cmd, ctx)
  <2>1. /\ queue' = Enqueued(Enqueued(queue, cmd), "CHECK")
        /\ cover'.state = on_command(cover.state, cmd, ctx)
        /\ cover'.target_position = target /\ cover'.tilt_target = NO_TARGET
    BY <1>4 DEF Moves
  <2>2. Commanded' /\ OnlyFirst' /\ (cover'.state.kind = "Opening" <=> cmd = "UP")
    BY <1>1, <2>1, CommandStarts
  <2>3. Len(queue') > 0 /\ queue'[1] = cmd
    BY <2>2 DEF Commanded
  <2>4. QED BY <2>1, <2>2, <2>3
<1> HIDE DEF v
<1>5. CASE v \in {POSITION_CLOSED, POSITION_OPEN}
  <2>1. Moves(IF v = POSITION_OPEN THEN "UP" ELSE "DOWN", NO_TARGET, NO_TARGET)
    BY <1>1, <1>2, <1>5 DEF POSITION_CLOSED, POSITION_OPEN
  <2>2. ToEnd' /\ OnlyFirst'
    BY <1>4, <2>1 DEF ToEnd, v
  <2>3. QED BY <1>1, <1>5, <2>2 DEF PositionInv, has_position_tracking, v
<1>6. CASE v \notin {POSITION_CLOSED, POSITION_OPEN}
  <2> DEFINE cmd == IF v > estimated THEN "UP" ELSE "DOWN"
  <2>1. Moves(cmd, v, NO_TARGET)
    BY <1>1, <1>6
  <2>2. cmd \in {"UP", "DOWN"} /\ (cmd = "UP" <=> v > estimated)
    OBVIOUS
  <2> HIDE DEF cmd
  <2>3. /\ Commanded' /\ OnlyFirst' /\ (cover'.state.kind = "Opening" <=> cmd = "UP")
        /\ Len(queue') > 0 /\ queue'[1] = cmd
        /\ cover'.target_position = v /\ cover'.tilt_target = NO_TARGET
        /\ cover'.state = on_command(cover.state, cmd, ctx)
    BY <1>4, <2>1, <2>2
  <2>4. /\ estimated' = blind.pos /\ slats(estimatedTilt)' = slats(blind.tilt)
        /\ slats(blind.tilt)' = slats(blind.tilt) /\ slats(blind.tilt) \in Int
        /\ estimated = blind.pos /\ air = <<>>
    <3>1. ExactFor(ctx, cover'.state, blind)
      BY <1>1, <2>3 DEF Commanded, Exact
    <3>2. QED BY <1>1, <1>2, <3>1
              DEF ExactFor, slats, estimated, estimatedTilt, Known, has_tilt_tracking
  <2>5. \/ cover'.state = cover.state
        \/ cover'.state.pos = estimated
    BY <1>1, <2>2, <2>3 DEF on_command, Opening, Closing, Fresh, estimated
  <2>6. CASE v > estimated
    <3>1. cmd = "UP" /\ cover'.state.kind = "Opening"
      BY <2>2, <2>3, <2>6
    <3>2. cover'.state.pos < v
      <4>1. CASE cover'.state = cover.state
        <5>1. cover.state.pos <= estimated /\ cover.state.pos \in Int
          BY <1>1, <1>2, <3>1, <4>1, OpeningTick DEF estimated, State
        <5>2. QED BY <1>1, <1>2, <2>6, <4>1, <5>1 DEF POSITION_CLOSED, POSITION_OPEN
      <4>2. CASE cover'.state.pos = estimated
        BY <2>6, <4>2
      <4>3. QED BY <2>5, <4>1, <4>2
    <3>3. blind.motor \in {"still", "up"} \/ (blind.motor = "down" /\ wish'.turned)
      BY <1>1, <2>4, <2>6 DEF Known
    <3>4. /\ estimated' < v /\ blind'.pos <= estimated'
          /\ slats(blind.tilt)' <= slats(estimatedTilt)'
          /\ estimated' + slats(estimatedTilt)' <= blind'.pos + slats(blind.tilt)' + Slack'
      BY <1>1, <1>2, <1>3, <2>4, <2>6
    <3>5. estimated' <= v
      BY <1>1, <1>2, <2>4, <3>4 DEF POSITION_CLOSED, POSITION_OPEN
    <3>6. Upwards'
      BY <1>1, <2>3, <2>4, <3>1, <3>2, <3>3, <3>4, <3>5 DEF Upwards, v, slats, has_tilt_tracking
    <3>7. QED BY <1>1, <1>6, <2>3, <3>6 DEF PositionInv, has_position_tracking, v
  <2>7. CASE v < estimated
    <3>1. cmd = "DOWN" /\ cover'.state.kind = "Closing"
      <4>1. cmd = "DOWN"
        BY <1>1, <1>2, <2>2, <2>7 DEF POSITION_CLOSED, POSITION_OPEN
      <4>2. QED BY <2>3, <4>1 DEF Commanded
    <3>2. cover'.state.pos > v
      <4>1. CASE cover'.state = cover.state
        <5>1. cover.state.pos >= estimated /\ cover.state.pos \in Int
          BY <1>1, <1>2, <3>1, <4>1, ClosingTick DEF estimated, State
        <5>2. QED BY <1>1, <1>2, <2>7, <4>1, <5>1 DEF POSITION_CLOSED, POSITION_OPEN
      <4>2. CASE cover'.state.pos = estimated
        BY <1>1, <1>2, <2>7, <4>2 DEF POSITION_CLOSED, POSITION_OPEN
      <4>3. QED BY <2>5, <4>1, <4>2
    <3>3. blind.motor \in {"still", "down"} \/ (blind.motor = "up" /\ wish'.turned)
      <4>1. ~(v > blind.pos)
        BY <1>1, <1>2, <2>4, <2>7 DEF POSITION_CLOSED, POSITION_OPEN
      <4>2. QED BY <1>1, <2>4, <4>1 DEF Known
    <3>4. /\ estimated' > v /\ blind'.pos >= estimated'
          /\ slats(blind.tilt)' >= slats(estimatedTilt)'
          /\ blind'.pos + slats(blind.tilt)' <= estimated' + slats(estimatedTilt)' + Slack'
      BY <1>1, <1>2, <1>3, <2>4, <2>7 DEF POSITION_CLOSED, POSITION_OPEN
    <3>5. estimated' >= v
      BY <1>1, <1>2, <2>4, <3>4 DEF POSITION_CLOSED, POSITION_OPEN
    <3>6. Downwards'
      BY <1>1, <2>3, <2>4, <3>1, <3>2, <3>3, <3>4, <3>5
         DEF Downwards, v, slats, has_tilt_tracking
    <3>7. QED BY <1>1, <1>6, <2>3, <3>6 DEF PositionInv, has_position_tracking, v
  <2>8. QED BY <1>1, <1>2, <2>6, <2>7 DEF POSITION_CLOSED, POSITION_OPEN
<1>7. QED BY <1>5, <1>6

(* A report that can be on its way says what the estimate shows.           *)
LEMMA PositionDispatch ==
  ASSUME CoverInv, PositionInv, dispatch_status
  PROVE  PositionInv'
<1>1. /\ cover'.state = on_rf_status(cover.state, air[1], ctx)
      /\ cover'.tilt_target = cover.tilt_target
      /\ cover'.target_position = cover.target_position
      /\ 1 \in 1 .. Len(air)
      /\ \A i \in 1 .. Len(air') : air'[i] = air[i + 1] /\ i + 1 \in 1 .. Len(air)
      /\ UNCHANGED <<ctx, queue, looped, blind, wish, used>>
  BY DispatchFrame
<1>2. air # <<>>
  BY DEF dispatch_status
<1>3. /\ OnlyFirst' <=> OnlyFirst
      /\ ToEnd' <=> ToEnd
      /\ Stops' <=> Stops
  BY <1>1 DEF OnlyFirst, ToEnd, Stops, Still, StopFirst, Slack
<1>4. ASSUME Upwards PROVE Upwards'
  <2>1. /\ \A i \in 1 .. Len(queue) : queue[i] = "CHECK"
        /\ blind.motor = "up" /\ \A i \in 1 .. Len(air) : air[i] = "MOVING_UP"
        /\ cover.state.kind = "Opening"
    BY <1>2, <1>4 DEF Upwards
  <2>2. cover'.state = cover.state
    BY <1>1, <2>1, HeardAgain DEF Moving
  <2>3. \A i \in 1 .. Len(air') : air'[i] = "MOVING_UP"
    BY <1>1, <2>1
  <2>4. estimated' = estimated /\ slats(estimatedTilt)' = slats(estimatedTilt)
    BY <1>1, <2>2 DEF estimated, estimatedTilt, slats, has_tilt_tracking
  <2>5. slats(blind.tilt)' = slats(blind.tilt) /\ Slack' = Slack
    BY <1>1 DEF slats, has_tilt_tracking, Slack
  <2>6. QED BY <1>1, <1>4, <2>1, <2>2, <2>3, <2>4, <2>5 DEF Upwards
<1>5. ASSUME Downwards PROVE Downwards'
  <2>1. /\ \A i \in 1 .. Len(queue) : queue[i] = "CHECK"
        /\ blind.motor = "down" /\ \A i \in 1 .. Len(air) : air[i] = "MOVING_DOWN"
        /\ cover.state.kind = "Closing"
    BY <1>2, <1>5 DEF Downwards
  <2>2. cover'.state = cover.state
    BY <1>1, <2>1, HeardAgain DEF Moving
  <2>3. \A i \in 1 .. Len(air') : air'[i] = "MOVING_DOWN"
    BY <1>1, <2>1
  <2>4. estimated' = estimated /\ slats(estimatedTilt)' = slats(estimatedTilt)
    BY <1>1, <2>2 DEF estimated, estimatedTilt, slats, has_tilt_tracking
  <2>5. slats(blind.tilt)' = slats(blind.tilt) /\ Slack' = Slack
    BY <1>1 DEF slats, has_tilt_tracking, Slack
  <2>6. QED BY <1>1, <1>5, <2>1, <2>2, <2>3, <2>4, <2>5 DEF Downwards
<1>6. QED BY <1>1, <1>3, <1>4, <1>5 DEF PositionInv, has_position_tracking

(* The estimate is where it was sent to before the timeout of the movement *)
(* is over, and when the loop stops the blind its slats have turned as far *)
(* as those of the estimate, but for the slack.                            *)
LEMMA PositionLoop ==
  ASSUME CoverInv, HistoryOK, PositionInv, TimeoutSuffices, loop_cover
  PROVE  PositionInv'
<1> SUFFICES ASSUME wish.kind = "position"
             PROVE  PositionInv'
  BY DEF PositionInv, loop_cover
<1> DEFINE s == on_tick(cover.state, ctx)
           stops == positionReached(s) \/ tiltReached(s)
           v == wish.value
<1>1. /\ UNCHANGED <<ctx, blind, air, wish, used>>
      /\ stops => queue' = StopQueued /\ cover'.state = on_command(s, "STOP", ctx)
      /\ ~stops => /\ queue' = queue \/ queue' = Enqueued(queue, "CHECK")
                   /\ cover'.state = s /\ cover'.tilt_target = cover.tilt_target
                   /\ cover'.target_position = cover.target_position
  BY LoopFrame
<1>2. stops => StopFirst' /\ OnlyFirst'
  <2>1. ASSUME stops
        PROVE  Len(queue') = 2 /\ queue'[1] = "STOP" /\ queue'[2] = "CHECK"
    BY <1>1, <2>1, StopQueuedIs
  <2>2. QED BY <2>1 DEF StopFirst, OnlyFirst
<1>3. ~stops => /\ OnlyFirst => OnlyFirst'
                /\ StopFirst => StopFirst'
                /\ Len(queue) > 0 => Len(queue') > 0 /\ queue'[1] = queue[1]
                /\ (\A i \in 1 .. Len(queue) : queue[i] = "CHECK")
                     => \A i \in 1 .. Len(queue') : queue'[i] = "CHECK"
  BY <1>1, CheckKeeps DEF CoverInv
<1>4. /\ has_position_tracking(ctx) /\ v \in POSITION_CLOSED .. POSITION_OPEN /\ OnlyFirst
      /\ IF v \in {POSITION_CLOSED, POSITION_OPEN} THEN ToEnd
         ELSE Upwards \/ Downwards \/ Stops
  BY DEF PositionInv
<1>5. /\ ctx \in Context /\ cover.state \in State(ctx) /\ blind \in Blind(ctx)
      /\ TRAVEL \in Nat \ {0} /\ MOVEMENT_TIMEOUT \in Nat \ {0} /\ ctx.sweep \in Nat
      /\ TRAVEL + ctx.sweep <= MOVEMENT_TIMEOUT /\ cover.state.age \in Nat
      /\ estimated \in POSITION_CLOSED .. POSITION_OPEN
      /\ cover.target_position = NO_TARGET \/ cover.tilt_target = NO_TARGET
      /\ Slack \in Nat /\ blind.pos \in Int /\ cover.state.pos \in Int
  <2>1. /\ ctx \in Context /\ cover.state \in State(ctx) /\ blind \in Blind(ctx)
        /\ TRAVEL \in Nat \ {0} /\ MOVEMENT_TIMEOUT \in Nat \ {0}
        /\ TRAVEL + ctx.sweep <= MOVEMENT_TIMEOUT
        /\ cover.target_position = NO_TARGET \/ cover.tilt_target = NO_TARGET
    BY DeviceAssumption, CoverAssumption DEF CoverInv, Cover, TimeoutSuffices
  <2>2. /\ ctx.sweep \in Nat /\ cover.state.age \in Nat
        /\ blind.pos \in Int /\ cover.state.pos \in Int
    BY <2>1 DEF Context, State, Blind, BlindRecord, POSITION_CLOSED, POSITION_OPEN
  <2>3. estimated \in POSITION_CLOSED .. POSITION_OPEN
    BY <2>1, positionType DEF estimated
  <2>4. Slack \in Nat
    BY DEF Slack, HistoryOK
  <2>5. QED BY <2>1, <2>2, <2>3, <2>4
<1>6. /\ Slack' = Slack /\ slats(blind.tilt)' = slats(blind.tilt)
      /\ slats(blind.tilt) \in 0 .. ctx.sweep
      /\ has_position_tracking(ctx)' /\ wish'.kind = "position" /\ wish'.value = v
  BY <1>1, <1>4, <1>5, BlindTick DEF Slack, slats, has_tilt_tracking, has_position_tracking
<1>7. ASSUME cover.tilt_target = NO_TARGET
      PROVE  ~tiltReached(s)
  BY <1>7 DEF tiltReached, NO_TARGET, TILT_CLOSED
<1>8. ASSUME ~TimesOut(cover.state), is_moving(cover.state)
      PROVE  s = cover.state
  BY <1>8 DEF on_tick, Cools, is_moving
<1> HIDE DEF s, v
<1>9. CASE v \in {POSITION_CLOSED, POSITION_OPEN}
  <2>1. ToEnd /\ cover.target_position = NO_TARGET /\ cover.tilt_target = NO_TARGET
    BY <1>4, <1>9 DEF ToEnd
  <2>2. ~stops
    BY <1>7, <2>1 DEF positionReached, NO_TARGET, POSITION_CLOSED
  <2>3. ToEnd' /\ OnlyFirst'
    BY <1>1, <1>3, <1>4, <2>1, <2>2 DEF ToEnd, Still
  <2>4. QED BY <1>1, <1>4, <1>6, <1>9, <2>3 DEF PositionInv, v
<1>10. CASE v \notin {POSITION_CLOSED, POSITION_OPEN} /\ Stops
  <2>1. Stops' /\ OnlyFirst'
    BY <1>1, <1>2, <1>3, <1>4, <1>6, <1>10 DEF Stops, Still
  <2>2. QED BY <1>1, <1>4, <1>6, <1>10, <2>1 DEF PositionInv, v
<1>11. CASE v \notin {POSITION_CLOSED, POSITION_OPEN} /\ Upwards
  <2>1. /\ cover.target_position = v /\ cover.tilt_target = NO_TARGET
        /\ cover.state.kind = "Opening" /\ cover.state.pos < v /\ estimated <= v
        /\ v < TRAVEL /\ v > 0
    BY <1>4, <1>5, <1>11 DEF Upwards, NO_TARGET, POSITION_CLOSED, POSITION_OPEN, v
  <2>2. s = cover.state
    <3>1. cover.state.age < TRAVEL + ctx.sweep
      BY <1>4, <1>5, <2>1, OpeningTick DEF estimated, POSITION_CLOSED, POSITION_OPEN
    <3>2. QED BY <1>5, <1>8, <2>1, <3>1 DEF TimesOut, is_moving
  <2>3. positionReached(s) <=> estimated = v
    BY <1>4, <1>5, <2>1, <2>2
       DEF positionReached, is_moving, estimated, POSITION_CLOSED, POSITION_OPEN
  <2>4. CASE estimated = v
    <3>1. slats(estimatedTilt) = ctx.sweep
      BY <1>4, <1>5, <2>1, <2>4, OpeningTick DEF estimated, estimatedTilt
    <3>2. /\ blind.pos <= estimated
          /\ estimated + slats(estimatedTilt) <= blind.pos + slats(blind.tilt) + Slack
      BY <1>11 DEF Upwards
    <3>3. Distance(blind.pos, v) <= Slack
      BY <1>4, <1>5, <1>6, <2>4, <3>1, <3>2 DEF Distance, POSITION_CLOSED, POSITION_OPEN
    <3>4. Stops' /\ OnlyFirst'
      BY <1>1, <1>2, <1>6, <2>3, <2>4, <3>3 DEF Stops, v
    <3>5. QED BY <1>1, <1>4, <1>6, <1>11, <3>4 DEF PositionInv, v
  <2>5. CASE estimated # v
    <3>1. ~stops
      BY <1>7, <2>1, <2>3, <2>5
    <3>2. estimated' = estimated /\ slats(estimatedTilt)' = slats(estimatedTilt)
      BY <1>1, <2>2, <3>1 DEF estimated, estimatedTilt, slats, has_tilt_tracking
    <3>3. estimated < v
      BY <1>4, <1>5, <2>1, <2>5 DEF POSITION_CLOSED, POSITION_OPEN
    <3>4. Upwards' /\ OnlyFirst'
      BY <1>1, <1>3, <1>4, <1>6, <1>11, <2>2, <3>1, <3>2, <3>3 DEF Upwards, v
    <3>5. QED BY <1>1, <1>4, <1>6, <1>11, <3>4 DEF PositionInv, v
  <2>6. QED BY <2>4, <2>5
<1>12. CASE v \notin {POSITION_CLOSED, POSITION_OPEN} /\ Downwards
  <2>1. /\ cover.target_position = v /\ cover.tilt_target = NO_TARGET
        /\ cover.state.kind = "Closing" /\ cover.state.pos > v /\ estimated >= v
        /\ v < TRAVEL /\ v > 0
    BY <1>4, <1>5, <1>12 DEF Downwards, NO_TARGET, POSITION_CLOSED, POSITION_OPEN, v
  <2>2. s = cover.state
    <3>1. cover.state.age < TRAVEL + ctx.sweep
      BY <1>4, <1>5, <2>1, ClosingTick DEF estimated, POSITION_CLOSED, POSITION_OPEN
    <3>2. QED BY <1>5, <1>8, <2>1, <3>1 DEF TimesOut, is_moving
  <2>3. positionReached(s) <=> estimated = v
    BY <1>4, <1>5, <2>1, <2>2
       DEF positionReached, is_moving, estimated, POSITION_CLOSED, POSITION_OPEN
  <2>4. CASE estimated = v
    <3>1. slats(estimatedTilt) = 0
      BY <1>4, <1>5, <2>1, <2>4, ClosingTick DEF estimated, estimatedTilt
    <3>2. /\ blind.pos >= estimated
          /\ blind.pos + slats(blind.tilt) <= estimated + slats(estimatedTilt) + Slack
      BY <1>12 DEF Downwards
    <3>3. Distance(blind.pos, v) <= Slack
      BY <1>4, <1>5, <1>6, <2>4, <3>1, <3>2 DEF Distance, POSITION_CLOSED, POSITION_OPEN
    <3>4. Stops' /\ OnlyFirst'
      BY <1>1, <1>2, <1>6, <2>3, <2>4, <3>3 DEF Stops, v
    <3>5. QED BY <1>1, <1>4, <1>6, <1>12, <3>4 DEF PositionInv, v
  <2>5. CASE estimated # v
    <3>1. ~stops
      BY <1>7, <2>1, <2>3, <2>5
    <3>2. estimated' = estimated /\ slats(estimatedTilt)' = slats(estimatedTilt)
      BY <1>1, <2>2, <3>1 DEF estimated, estimatedTilt, slats, has_tilt_tracking
    <3>3. estimated > v
      BY <1>4, <1>5, <2>1, <2>5 DEF POSITION_CLOSED, POSITION_OPEN
    <3>4. Downwards' /\ OnlyFirst'
      BY <1>1, <1>3, <1>4, <1>6, <1>12, <2>2, <3>1, <3>2, <3>3 DEF Downwards, v
    <3>5. QED BY <1>1, <1>4, <1>6, <1>12, <3>4 DEF PositionInv, v
  <2>6. QED BY <2>4, <2>5
<1>13. QED BY <1>4, <1>9, <1>10, <1>11, <1>12

(* The motor sets off, or is at the end already that it was sent to; short *)
(* of an end it does not stop by itself.                                   *)
LEMMA PositionTransmit ==
  ASSUME CoverInv, PositionInv, Transmit
  PROVE  PositionInv'
<1> SUFFICES ASSUME wish.kind = "position"
             PROVE  PositionInv'
  BY DEF PositionInv, Transmit
<1> DEFINE v == wish.value
<1>1. /\ Len(queue) \in Nat \ {0} /\ 1 \in 1 .. Len(queue)
      /\ OnlyFirst => \A i \in 1 .. Len(queue') : queue'[i] = "CHECK"
      /\ blind' = Obeys(blind, queue[1])
      /\ queue[1] # "CHECK" => air' = air
      /\ queue[1] = "CHECK" => blind' = blind /\ air' \in {air, Append(air, StatusOf(blind))}
      /\ UNCHANGED <<ctx, cover, looped, wish, used>>
  BY TransmitFrame
<1>2. /\ ctx \in Context /\ blind \in Blind(ctx) /\ blind \in BlindRecord(ctx)
      /\ air \in Seq(Status) /\ TRAVEL \in Nat \ {0} /\ blind.pos \in Int
      /\ estimated \in POSITION_CLOSED .. POSITION_OPEN
  BY DeviceAssumption, CoverAssumption, positionType
     DEF CoverInv, Cover, estimated, Blind, BlindRecord
<1>3. /\ has_position_tracking(ctx) /\ v \in POSITION_CLOSED .. POSITION_OPEN /\ OnlyFirst
      /\ IF v \in {POSITION_CLOSED, POSITION_OPEN} THEN ToEnd
         ELSE Upwards \/ Downwards \/ Stops
  BY DEF PositionInv
<1>4. (\A i \in 1 .. Len(queue') : queue'[i] = "CHECK") /\ OnlyFirst'
  BY <1>1, <1>3 DEF OnlyFirst
<1>5. ASSUME NEW cmd \in {"UP", "DOWN"}, queue[1] = cmd
      PROVE  /\ blind'.pos = blind.pos /\ blind'.tilt = blind.tilt /\ air' = air
             /\ blind'.motor = IF AtEnd(blind, IF cmd = "UP" THEN "up" ELSE "down") THEN "still"
                               ELSE IF cmd = "UP" THEN "up" ELSE "down"
  BY <1>1, <1>2, <1>5, MoveObeyed
<1>6. /\ Slack' = Slack /\ estimated' = estimated /\ slats(estimatedTilt)' = slats(estimatedTilt)
      /\ blind'.tilt = blind.tilt => slats(blind.tilt)' = slats(blind.tilt)
      /\ has_position_tracking(ctx)' /\ wish'.kind = "position" /\ wish'.value = v
  BY <1>1, <1>3 DEF Slack, slats, has_tilt_tracking, has_position_tracking, estimated,
                    estimatedTilt
<1>7. ASSUME NEW st \in Status, StatusOf(blind) = st, queue[1] = "CHECK",
             \A i \in 1 .. Len(air) : air[i] = st
      PROVE  \A i \in 1 .. Len(air') : air'[i] = st
  <2>1. \A i \in 1 .. Len(air') :
          \/ i \in 1 .. Len(air) /\ air'[i] = air[i]
          \/ i = Len(air) + 1 /\ air'[i] = st
    BY <1>1, <1>2, <1>7, ReportIs
  <2>2. QED BY <1>7, <2>1
<1> HIDE DEF v
<1>8. CASE v \in {POSITION_CLOSED, POSITION_OPEN}
  <2>1. ToEnd
    BY <1>3, <1>8
  <2> DEFINE cmd == IF v = POSITION_OPEN THEN "UP" ELSE "DOWN"
             motor == IF v = POSITION_OPEN THEN "up" ELSE "down"
  <2>2. CASE queue[1] = cmd
    <3>1. /\ blind'.pos = blind.pos
          /\ blind'.motor = IF AtEnd(blind, motor) THEN "still" ELSE motor
      BY <1>5, <2>2
    <3>2. AtEnd(blind, motor) => blind.pos = v
      BY <1>8 DEF AtEnd
    <3>3. ToEnd'
      BY <1>1, <1>4, <2>1, <3>1, <3>2 DEF ToEnd, Still, v
    <3>4. QED BY <1>3, <1>4, <1>6, <1>8, <3>3 DEF PositionInv, v
  <2>3. CASE queue[1] # cmd
    <3>1. queue[1] = "CHECK"
      BY <1>1, <2>1, <2>3 DEF ToEnd, Still, v
    <3>2. ToEnd'
      BY <1>1, <1>4, <2>1, <2>3, <3>1 DEF ToEnd, Still, v
    <3>3. QED BY <1>3, <1>4, <1>6, <1>8, <3>2 DEF PositionInv, v
  <2>4. QED BY <2>2, <2>3
<1>9. CASE v \notin {POSITION_CLOSED, POSITION_OPEN} /\ Stops
  <2>1. Still' /\ blind'.pos = blind.pos
    <3>1. CASE StopFirst
      <4>1. blind' = [blind EXCEPT !.motor = "still"]
        BY <1>1, <3>1 DEF StopFirst, Obeys, Halts
      <4>2. QED BY <1>2, <1>4, <4>1 DEF Still, BlindRecord
    <3>2. CASE Still
      <4>1. queue[1] = "CHECK"
        BY <1>1, <3>2 DEF Still
      <4>2. QED BY <1>1, <1>4, <3>2, <4>1 DEF Still
    <3>3. QED BY <1>9, <3>1, <3>2 DEF Stops
  <2>2. Stops'
    BY <1>1, <1>6, <1>9, <2>1 DEF Stops
  <2>3. QED BY <1>3, <1>4, <1>6, <1>9, <2>2 DEF PositionInv, v
<1>10. CASE v \notin {POSITION_CLOSED, POSITION_OPEN} /\ Upwards
  <2>1. blind.pos <= estimated /\ estimated <= v /\ v < TRAVEL
    BY <1>2, <1>3, <1>10 DEF Upwards, POSITION_CLOSED, POSITION_OPEN, v
  <2>2. /\ blind'.pos = blind.pos /\ blind'.tilt = blind.tilt /\ blind'.motor = "up"
        /\ \A i \in 1 .. Len(air') : air'[i] = "MOVING_UP"
    <3>1. CASE queue[1] = "UP" /\ air = <<>>
      <4>1. ~AtEnd(blind, "up")
        BY <1>2, <1>3, <2>1 DEF AtEnd, POSITION_CLOSED, POSITION_OPEN
      <4>2. QED BY <1>5, <3>1, <4>1
    <3>2. CASE /\ queue[1] = "CHECK" /\ blind.motor = "up"
               /\ \A i \in 1 .. Len(air) : air[i] = "MOVING_UP"
      <4>1. StatusOf(blind) = "MOVING_UP" /\ "MOVING_UP" \in Status
        BY <3>2 DEF StatusOf, Status
      <4>2. QED BY <1>1, <1>7, <3>2, <4>1
    <3>3. QED BY <1>1, <1>10, <3>1, <3>2 DEF Upwards
  <2>3. Upwards'
    BY <1>1, <1>4, <1>6, <1>10, <2>2 DEF Upwards, v
  <2>4. QED BY <1>3, <1>4, <1>6, <1>10, <2>3 DEF PositionInv, v
<1>11. CASE v \notin {POSITION_CLOSED, POSITION_OPEN} /\ Downwards
  <2>1. blind.pos >= estimated /\ estimated >= v /\ v > 0
    BY <1>2, <1>3, <1>11 DEF Downwards, POSITION_CLOSED, POSITION_OPEN, v
  <2>2. /\ blind'.pos = blind.pos /\ blind'.tilt = blind.tilt /\ blind'.motor = "down"
        /\ \A i \in 1 .. Len(air') : air'[i] = "MOVING_DOWN"
    <3>1. CASE queue[1] = "DOWN" /\ air = <<>>
      <4>1. ~AtEnd(blind, "down")
        BY <1>2, <1>3, <2>1 DEF AtEnd, POSITION_CLOSED, POSITION_OPEN
      <4>2. QED BY <1>5, <3>1, <4>1
    <3>2. CASE /\ queue[1] = "CHECK" /\ blind.motor = "down"
               /\ \A i \in 1 .. Len(air) : air[i] = "MOVING_DOWN"
      <4>1. StatusOf(blind) = "MOVING_DOWN" /\ "MOVING_DOWN" \in Status
        BY <3>2 DEF StatusOf, Status
      <4>2. QED BY <1>1, <1>7, <3>2, <4>1
    <3>3. QED BY <1>1, <1>11, <3>1, <3>2 DEF Downwards
  <2>3. Downwards'
    BY <1>1, <1>4, <1>6, <1>11, <2>2 DEF Downwards, v
  <2>4. QED BY <1>3, <1>4, <1>6, <1>11, <2>3 DEF PositionInv, v
<1>12. QED BY <1>3, <1>8, <1>9, <1>10, <1>11

(* A tick takes the estimate a step further, and the blind too while its   *)
(* motor runs that way; otherwise the tick is late and the slack grows.    *)
LEMMA PositionTick ==
  ASSUME CoverInv, HistoryOK, PositionInv, Tick
  PROVE  PositionInv'
<1> SUFFICES ASSUME wish'.kind = "position"
             PROVE  PositionInv'
  BY DEF PositionInv
<1> DEFINE v == wish.value
           late == queue # <<>> \/ air # <<>>
           step == IF wish.turned THEN 2 ELSE 1
           E == estimated
           e == slats(estimatedTilt)
           P == blind.pos
           p == slats(blind.tilt)
           S == ctx.sweep
<1>1. /\ wish' = wish /\ UNCHANGED <<ctx, queue, air>> /\ looped /\ looped' = FALSE
      /\ blind' = Turns(blind)
      /\ used'.late = IF late THEN used.late + 1 ELSE used.late
  <2>1. wish' = wish
    BY DEF Tick, NoWish
  <2>2. used'.late = IF late THEN used.late + 1 ELSE used.late
    BY DEF Tick, HistoryOK
  <2>3. QED BY <2>1, <2>2 DEF Tick
<1>2. /\ cover'.state = Older(cover.state) /\ cover'.tilt_target = cover.tilt_target
      /\ cover'.target_position = cover.target_position
  BY DEF Tick, CoverInv, Cover
<1>3. /\ ctx \in Context /\ cover.state \in State(ctx) /\ blind \in Blind(ctx)
      /\ TRAVEL \in Nat \ {0} /\ S \in Nat /\ E \in 0 .. TRAVEL /\ P \in Int
      /\ POSITION_CLOSED = 0 /\ POSITION_OPEN = TRAVEL
  <2>1. /\ ctx \in Context /\ cover.state \in State(ctx) /\ blind \in Blind(ctx)
        /\ TRAVEL \in Nat \ {0}
    BY DeviceAssumption, CoverAssumption DEF CoverInv, Cover
  <2>2. S \in Nat /\ P \in Int
    BY <2>1 DEF Context, Blind, BlindRecord
  <2>3. QED BY <2>1, <2>2, positionType DEF estimated, POSITION_CLOSED, POSITION_OPEN
<1>4. /\ has_position_tracking(ctx) /\ v \in 0 .. TRAVEL /\ OnlyFirst
      /\ IF v \in {POSITION_CLOSED, POSITION_OPEN} THEN ToEnd
         ELSE Upwards \/ Downwards \/ Stops
  BY <1>1 DEF PositionInv, POSITION_CLOSED, POSITION_OPEN
<1>5. /\ Slack \in Nat /\ Slack' \in Nat /\ step \in {1, 2}
      /\ Slack' = IF late THEN Slack + step ELSE Slack
      /\ Slack' >= Slack /\ (late => Slack' >= Slack + 1)
  <2>1. used.late \in Nat
    BY DEF HistoryOK
  <2>2. QED BY <1>1, <2>1 DEF Slack
<1>6. /\ P' - P \in {-1, 0, 1} /\ P' \in Int
      /\ p \in 0 .. S /\ p' \in Int
      /\ blind.motor = "still" => blind' = blind /\ P' = P /\ p' = p
      /\ blind.motor = "up" => IF p < S THEN p' = p + 1 /\ P' = P ELSE p' = p /\ P' = P + 1
      /\ blind.motor = "down" => IF p > 0 THEN p' = p - 1 /\ P' = P ELSE p' = p /\ P' = P - 1
      /\ blind.motor = "up" => \/ blind'.motor = "up"
                               \/ blind'.motor = "still" /\ P' = TRAVEL
      /\ blind.motor = "down" => \/ blind'.motor = "down"
                                 \/ blind'.motor = "still" /\ P' = 0
  <2>1. p' = slats(Turns(blind).tilt) /\ P' = Turns(blind).pos
    BY <1>1 DEF slats, has_tilt_tracking
  <2>2. blind' \in Blind(ctx)
    BY <1>1, <1>3, TurnsType
  <2>3. P' \in Int /\ p' \in Int
    BY <1>1, <1>3, <2>1, <2>2 DEF slats, Blind, BlindRecord, TILT_OPEN, has_tilt_tracking
  <2>4. blind.motor = "still" => blind' = blind /\ P' = P /\ p' = p
    BY <1>1, <2>1, StillTurns
  <2>5. QED BY <1>1, <1>3, <2>1, <2>3, <2>4, BlindTick
<1>7. /\ has_position_tracking(ctx)' /\ wish'.value = v
      /\ OnlyFirst' /\ (late' <=> late)
  BY <1>1, <1>4 DEF has_position_tracking, OnlyFirst
<1>8. ASSUME Still PROVE Still' /\ blind' = blind
  BY <1>1, <1>6, <1>8 DEF Still
<1>9. /\ E' = position(Older(cover.state), ctx)
      /\ e' = slats(tilt(Older(cover.state), ctx))
      /\ cover'.state.kind = cover.state.kind /\ cover'.state.pos = cover.state.pos
  <2>1. Older(cover.state).kind = cover.state.kind /\ Older(cover.state).pos = cover.state.pos
    BY <1>3 DEF Older, State
  <2>2. QED BY <1>1, <1>2, <2>1 DEF estimated, estimatedTilt, slats, has_tilt_tracking
<1>10. ASSUME ~late PROVE queue = <<>> /\ air = <<>>
  BY <1>10
<1> HIDE DEF v, late, step, E, e, P, p, S
<1>11. CASE v \in {POSITION_CLOSED, POSITION_OPEN}
  <2>1. ToEnd
    BY <1>4, <1>11
  <2>2. ToEnd'
    <3>1. CASE Still /\ blind.pos = v
      BY <1>1, <1>2, <1>8, <2>1, <3>1 DEF ToEnd, v
    <3>2. CASE /\ Len(queue) > 0
               /\ queue[1] = IF v = POSITION_OPEN THEN "UP" ELSE "DOWN"
      BY <1>1, <1>2, <2>1, <3>2 DEF ToEnd, v
    <3>3. CASE /\ \A i \in 1 .. Len(queue) : queue[i] = "CHECK"
               /\ blind.motor = IF v = POSITION_OPEN THEN "up" ELSE "down"
      <4>1. \/ blind'.motor = blind.motor
            \/ blind'.motor = "still" /\ blind'.pos = v
        BY <1>3, <1>6, <1>11, <3>3 DEF P
      <4>2. QED BY <1>1, <1>2, <2>1, <3>3, <4>1 DEF ToEnd, Still, v
    <3>4. QED BY <2>1, <3>1, <3>2, <3>3 DEF ToEnd, v
  <2>3. QED BY <1>1, <1>3, <1>4, <1>7, <1>11, <2>2 DEF PositionInv, POSITION_CLOSED, POSITION_OPEN
<1>12. CASE v \notin {POSITION_CLOSED, POSITION_OPEN} /\ Stops
  <2>1. CASE Still
    <3>1. Slack <= Slack'
      BY <1>5
    <3>2. Distance(P', v) = Distance(P, v) /\ Still'
      BY <1>8, <2>1 DEF P
    <3>3. Distance(P, v) \in Int /\ Distance(P, v) <= Slack
      BY <1>3, <1>4, <1>12 DEF Distance, Stops, P, v
    <3>4. Distance(P', v) <= Slack'
      BY <1>5, <3>1, <3>2, <3>3
    <3>5. Stops'
      BY <1>1, <3>2, <3>4 DEF Stops, P, v
    <3>6. QED BY <1>1, <1>3, <1>4, <1>7, <1>12, <3>5 DEF PositionInv, POSITION_CLOSED, POSITION_OPEN
  <2>2. CASE StopFirst
    <3>1. late
      BY <1>10, <2>2 DEF StopFirst
    <3>2. Distance(P, v) <= Slack
      BY <1>12 DEF Stops, P, v
    <3>3. Distance(P', v) <= Slack'
      <4>1. PICK P0 \in Int, P1 \in Int, K0 \in Int, K1 \in Int, n \in Int :
              P0 = P /\ P1 = P' /\ K0 = Slack /\ K1 = Slack' /\ n = v
        <5>1. P \in Int /\ P' \in Int /\ v \in Int /\ Slack \in Int /\ Slack' \in Int
          BY <1>3, <1>4, <1>5, <1>6
        <5>2. QED BY <5>1, Zenon
      <4>2. K0 + 1 <= K1 /\ P1 - P0 \in {-1, 0, 1} /\ Distance(P0, n) <= K0
        BY <1>5, <1>6, <3>1, <3>2, <4>1
      <4>3. Distance(P1, n) <= K1
        BY <4>2 DEF Distance
      <4>4. QED BY <4>1, <4>3
    <3>4. Stops'
      BY <1>1, <2>2, <3>3 DEF Stops, StopFirst, P, v
    <3>5. QED BY <1>1, <1>3, <1>4, <1>7, <1>12, <3>4 DEF PositionInv, POSITION_CLOSED, POSITION_OPEN
  <2>3. QED BY <1>12, <2>1, <2>2 DEF Stops
<1>13. CASE v \notin {POSITION_CLOSED, POSITION_OPEN} /\ Upwards
  <2>1. /\ E < v /\ P <= E /\ p <= e /\ E + e <= P + p + Slack
        /\ cover.state.kind = "Opening" /\ v < TRAVEL
    BY <1>1, <1>3, <1>4, <1>13 DEF Upwards, E, e, P, p, v
  <2>2. e \in 0 .. S /\ IF e < S THEN E' = E /\ e' = e + 1 ELSE E' = E + 1 /\ e' = S
    <3>1. /\ e \in 0 .. S
          /\ IF e < S THEN E' = E /\ e' = e + 1
             ELSE E' = Least(TRAVEL, E + 1) /\ e' = S
      BY <1>3, <1>4, <1>9, <2>1, OpeningTick DEF E, e, S, estimated, estimatedTilt
    <3>2. Least(TRAVEL, E + 1) = E + 1
      BY <1>3, <1>4, <2>1 DEF Least
    <3>3. QED BY <3>1, <3>2
  <2>3. E' \in Int /\ e' \in Int
    BY <1>3, <2>2
  <2>4. PICK E0 \in Int, e0 \in Int, P0 \in Int, p0 \in Int, K0 \in Int,
             E1 \in Int, e1 \in Int, P1 \in Int, p1 \in Int, K1 \in Int, s \in Int, n \in Int :
          /\ E0 = E /\ e0 = e /\ P0 = P /\ p0 = p /\ K0 = Slack /\ s = S /\ n = v
          /\ E1 = E' /\ e1 = e' /\ P1 = P' /\ p1 = p' /\ K1 = Slack'
    <3>1. /\ E \in Int /\ e \in Int /\ P \in Int /\ p \in Int /\ Slack \in Int
          /\ S \in Int /\ v \in Int /\ P' \in Int /\ p' \in Int /\ Slack' \in Int
      BY <1>3, <1>4, <1>5, <1>6, <2>2
    <3>2. QED BY <2>3, <3>1, Zenon
  <2>5. /\ E0 < n /\ P0 <= E0 /\ p0 <= e0 /\ E0 + e0 <= P0 + p0 + K0
        /\ 0 <= p0 /\ e0 <= s /\ p0 <= s
        /\ IF e0 < s THEN E1 = E0 /\ e1 = e0 + 1 ELSE E1 = E0 + 1 /\ e1 = s
        /\ K0 <= K1 /\ (late => K0 + 1 <= K1)
    BY <1>5, <1>6, <2>1, <2>2, <2>4
  <2>6. E1 <= n
    BY <2>5
  <2>7. CASE blind.motor = "up"
    <3>1. IF p0 < s THEN p1 = p0 + 1 /\ P1 = P0 ELSE p1 = p0 /\ P1 = P0 + 1
      BY <1>6, <2>4, <2>7
    <3>2. P1 <= E1 /\ p1 <= e1 /\ E1 + e1 <= P1 + p1 + K1
      BY <2>5, <3>1
    <3>3. P1 # TRAVEL
      BY <1>3, <2>1, <2>4, <2>6, <3>2
    <3>4. blind'.motor = "up"
      BY <1>6, <2>4, <2>7, <3>3
    <3>5. Upwards'
      BY <1>1, <1>2, <1>9, <1>13, <2>4, <2>6, <2>7, <3>2, <3>4 DEF Upwards, E, e, P, p, v
    <3>6. QED BY <1>1, <1>3, <1>4, <1>7, <1>13, <3>5 DEF PositionInv, POSITION_CLOSED, POSITION_OPEN
  <2>8. CASE blind.motor # "up"
    <3>1. /\ late /\ Len(queue) > 0 /\ queue[1] = "UP" /\ air = <<>>
          /\ blind.motor = "still" \/ (blind.motor = "down" /\ wish.turned)
      BY <1>10, <1>13, <2>8 DEF Upwards
    <3>2. CASE blind.motor = "still"
      <4>1. P1 = P0 /\ p1 = p0 /\ blind'.motor = "still"
        BY <1>6, <2>4, <3>2
      <4>2. P1 <= E1 /\ p1 <= e1 /\ E1 + e1 <= P1 + p1 + K1
        BY <2>5, <3>1, <4>1
      <4>3. Upwards'
        BY <1>1, <1>2, <1>9, <1>13, <2>4, <2>6, <3>1, <4>1, <4>2 DEF Upwards, E, e, P, p, v
      <4>4. QED BY <1>1, <1>3, <1>4, <1>7, <1>13, <4>3
                DEF PositionInv, POSITION_CLOSED, POSITION_OPEN
    <3>3. CASE blind.motor = "down" /\ wish.turned
      <4>1. /\ IF p0 > 0 THEN p1 = p0 - 1 /\ P1 = P0 ELSE p1 = p0 /\ P1 = P0 - 1
            /\ blind'.motor \in {"down", "still"}
        BY <1>6, <2>4, <3>3
      <4>2. K1 = K0 + 2
        BY <1>5, <2>4, <3>1, <3>3 DEF step
      <4>3. P1 <= E1 /\ p1 <= e1 /\ E1 + e1 <= P1 + p1 + K1
        BY <2>5, <4>1, <4>2
      <4>4. Upwards'
        BY <1>1, <1>2, <1>9, <1>13, <2>4, <2>6, <3>1, <3>3, <4>1, <4>3
           DEF Upwards, E, e, P, p, v
      <4>5. QED BY <1>1, <1>3, <1>4, <1>7, <1>13, <4>4
                DEF PositionInv, POSITION_CLOSED, POSITION_OPEN
    <3>4. QED BY <3>1, <3>2, <3>3
  <2>9. QED BY <2>7, <2>8
<1>14. CASE v \notin {POSITION_CLOSED, POSITION_OPEN} /\ Downwards
  <2>1. /\ E > v /\ P >= E /\ p >= e /\ P + p <= E + e + Slack
        /\ cover.state.kind = "Closing" /\ v > 0
    BY <1>1, <1>3, <1>4, <1>14 DEF Downwards, E, e, P, p, v
  <2>2. e \in 0 .. S /\ IF e > 0 THEN E' = E /\ e' = e - 1 ELSE E' = E - 1 /\ e' = 0
    <3>1. /\ e \in 0 .. S
          /\ IF e > 0 THEN E' = E /\ e' = e - 1
             ELSE E' = Minus(E, 1) /\ e' = 0
      BY <1>3, <1>4, <1>9, <2>1, ClosingTick DEF E, e, S, estimated, estimatedTilt
    <3>2. Minus(E, 1) = E - 1
      BY <1>3, <1>4, <2>1 DEF Minus
    <3>3. QED BY <3>1, <3>2
  <2>3. E' \in Int /\ e' \in Int
    BY <1>3, <2>2
  <2>4. PICK E0 \in Int, e0 \in Int, P0 \in Int, p0 \in Int, K0 \in Int,
             E1 \in Int, e1 \in Int, P1 \in Int, p1 \in Int, K1 \in Int, s \in Int, n \in Int :
          /\ E0 = E /\ e0 = e /\ P0 = P /\ p0 = p /\ K0 = Slack /\ s = S /\ n = v
          /\ E1 = E' /\ e1 = e' /\ P1 = P' /\ p1 = p' /\ K1 = Slack'
    <3>1. /\ E \in Int /\ e \in Int /\ P \in Int /\ p \in Int /\ Slack \in Int
          /\ S \in Int /\ v \in Int /\ P' \in Int /\ p' \in Int /\ Slack' \in Int
      BY <1>3, <1>4, <1>5, <1>6, <2>2
    <3>2. QED BY <2>3, <3>1, Zenon
  <2>5. /\ n < E0 /\ E0 <= P0 /\ e0 <= p0 /\ P0 + p0 <= E0 + e0 + K0
        /\ 0 <= e0 /\ p0 <= s
        /\ IF e0 > 0 THEN E1 = E0 /\ e1 = e0 - 1 ELSE E1 = E0 - 1 /\ e1 = 0
        /\ K0 <= K1 /\ (late => K0 + 1 <= K1)
    BY <1>5, <1>6, <2>1, <2>2, <2>4
  <2>6. n <= E1
    BY <2>5
  <2>7. CASE blind.motor = "down"
    <3>1. IF p0 > 0 THEN p1 = p0 - 1 /\ P1 = P0 ELSE p1 = p0 /\ P1 = P0 - 1
      BY <1>6, <2>4, <2>7
    <3>2. E1 <= P1 /\ e1 <= p1 /\ P1 + p1 <= E1 + e1 + K1
      BY <2>5, <3>1
    <3>3. P1 # 0
      BY <2>1, <2>4, <2>6, <3>2
    <3>4. blind'.motor = "down"
      BY <1>6, <2>4, <2>7, <3>3
    <3>5. Downwards'
      BY <1>1, <1>2, <1>9, <1>14, <2>4, <2>6, <2>7, <3>2, <3>4 DEF Downwards, E, e, P, p, v
    <3>6. QED BY <1>1, <1>3, <1>4, <1>7, <1>14, <3>5 DEF PositionInv, POSITION_CLOSED, POSITION_OPEN
  <2>8. CASE blind.motor # "down"
    <3>1. /\ late /\ Len(queue) > 0 /\ queue[1] = "DOWN" /\ air = <<>>
          /\ blind.motor = "still" \/ (blind.motor = "up" /\ wish.turned)
      BY <1>10, <1>14, <2>8 DEF Downwards
    <3>2. CASE blind.motor = "still"
      <4>1. P1 = P0 /\ p1 = p0 /\ blind'.motor = "still"
        BY <1>6, <2>4, <3>2
      <4>2. E1 <= P1 /\ e1 <= p1 /\ P1 + p1 <= E1 + e1 + K1
        BY <2>5, <3>1, <4>1
      <4>3. Downwards'
        BY <1>1, <1>2, <1>9, <1>14, <2>4, <2>6, <3>1, <4>1, <4>2 DEF Downwards, E, e, P, p, v
      <4>4. QED BY <1>1, <1>3, <1>4, <1>7, <1>14, <4>3
                DEF PositionInv, POSITION_CLOSED, POSITION_OPEN
    <3>3. CASE blind.motor = "up" /\ wish.turned
      <4>1. /\ IF p0 < s THEN p1 = p0 + 1 /\ P1 = P0 ELSE p1 = p0 /\ P1 = P0 + 1
            /\ blind'.motor \in {"up", "still"}
        BY <1>6, <2>4, <3>3
      <4>2. K1 = K0 + 2
        BY <1>5, <2>4, <3>1, <3>3 DEF step
      <4>3. E1 <= P1 /\ e1 <= p1 /\ P1 + p1 <= E1 + e1 + K1
        BY <2>5, <4>1, <4>2
      <4>4. Downwards'
        BY <1>1, <1>2, <1>9, <1>14, <2>4, <2>6, <3>1, <3>3, <4>1, <4>3
           DEF Downwards, E, e, P, p, v
      <4>5. QED BY <1>1, <1>3, <1>4, <1>7, <1>14, <4>4
                DEF PositionInv, POSITION_CLOSED, POSITION_OPEN
    <3>4. QED BY <3>1, <3>2, <3>3
  <2>9. QED BY <2>7, <2>8
<1>15. QED BY <1>4, <1>11, <1>12, <1>13, <1>14

(* Every step keeps what is said of a wish for a position.                 *)
LEMMA PositionStep ==
  ASSUME CoverInv, HistoryOK, PositionInv, TimeoutSuffices, [Next]_vars
  PROVE  PositionInv'
<1>1. CASE User
  BY <1>1, PositionUser, HistoryStep
<1>2. CASE dispatch_status
  BY <1>2, PositionDispatch
<1>3. CASE loop_cover
  BY <1>3, PositionLoop
<1>4. CASE Transmit
  BY <1>4, PositionTransmit
<1>5. CASE CommandLost \/ ReportLost \/ WallRemote
  <2>1. Trouble
    BY <1>5 DEF CommandLost, ReportLost, WallRemote, BlindActs
  <2>2. QED BY <2>1 DEF Trouble, NoWish, PositionInv
<1>6. CASE Tick
  BY <1>6, PositionTick
<1>7. CASE UNCHANGED vars
  <2>1. UNCHANGED <<ctx, cover, queue, looped, blind, air, wish, used>>
    BY <1>7 DEF vars, device
  <2>2. /\ Slack' = Slack /\ estimated' = estimated
        /\ slats(estimatedTilt)' = slats(estimatedTilt)
        /\ slats(blind.tilt)' = slats(blind.tilt)
    BY <2>1 DEF Slack, estimated, estimatedTilt, slats, has_tilt_tracking
  <2>3. /\ OnlyFirst' <=> OnlyFirst
        /\ ToEnd' <=> ToEnd
        /\ Stops' <=> Stops
        /\ Upwards' <=> Upwards
        /\ Downwards' <=> Downwards
    BY <2>1, <2>2 DEF OnlyFirst, ToEnd, Stops, Still, StopFirst, Upwards, Downwards
  <2>4. QED BY <2>1, <2>3 DEF PositionInv, has_position_tracking
<1>8. QED BY <1>1, <1>2, <1>3, <1>4, <1>5, <1>6, <1>7 DEF Next

(* Likewise a blind sent to a position rests, once nothing is on its way,  *)
(* no further from it than the ticks that commands and reports were late;  *)
(* for one that had to turn round each of them counts twice.               *)
THEOREM CoverRestsAtTarget == TimeoutSuffices => (Spec => []RestsAtTarget)
<1> SUFFICES ASSUME TimeoutSuffices PROVE Spec => []RestsAtTarget
  OBVIOUS
<1> DEFINE Inv == CoverInv /\ HistoryOK /\ PositionInv
<1>1. Init => Inv
  BY InitInv, HistoryInit DEF PositionInv
<1>2. Inv /\ [Next]_vars => Inv'
  BY CoverStep, HistoryStep, PositionStep
<1>3. Inv => RestsAtTarget
  <2> SUFFICES ASSUME CoverInv, HistoryOK, PositionInv, wish.kind = "position", AtRest
               PROVE  Distance(blind.pos, wish.value) <= Slack
    BY DEF RestsAtTarget, Slack
  <2>1. queue = <<>> /\ blind.motor = "still" /\ ~is_moving(cover.state)
    BY DEF AtRest
  <2>2. ~Upwards /\ ~Downwards
    BY <2>1 DEF Upwards, Downwards, is_moving
  <2>3. CASE Stops
    BY <2>3 DEF Stops
  <2>4. CASE ToEnd
    <3>1. blind.pos = wish.value /\ blind.pos \in Int
      BY <2>1, <2>4 DEF ToEnd, CoverInv, Blind, BlindRecord
    <3>2. Slack \in Nat
      BY DEF Slack, HistoryOK
    <3>3. QED BY <3>1, <3>2 DEF Distance
  <2>5. QED BY <2>2, <2>3, <2>4 DEF PositionInv
<1>4. QED BY <1>1, <1>2, <1>3, PTL DEF Spec
=============================================================================
