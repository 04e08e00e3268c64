----------------------------- MODULE UnitsProofs -----------------------------
(***************************************************************************)
(* Theorems about the modules that share no state, as MCUnits puts them    *)
(* together: the CommandSender on the wrapping clock, the learn-in manager *)
(* and the lights.                                                         *)
(*                                                                         *)
(* The clock: for every width of it, gap, backoff and watchdog no request  *)
(* is posted early and none is given up early, however often it wraps.     *)
(* Learn-in: for every number of packets, retries, timeout and clock, and  *)
(* for completions that come arbitrarily late, what has ended stays ended  *)
(* and a step that was taken as done was sent as often as it has to be.    *)
(* The lights: for any number of lights, remotes, queue length and levels, *)
(* an estimate follows the last button heard, and dims without a jump.     *)
(***************************************************************************)
EXTENDS SenderClock, LearnIn, LightDevice, CommandSenderCoreProofs, SequenceTheorems,
        WellFoundedInduction

----------------------------------------------------------------------------
(* The sender on the wrapping clock.                                       *)

----------------------------------------------------------------------------
(* Lemmas: remainders.  The clock is time less a multiple of Wrap.         *)

LEMMA Remainder ==
  ASSUME NEW W \in Nat \ {0}, NEW x \in Int
  PROVE  /\ x % W \in 0 .. W - 1
         /\ x \div W \in Int
         /\ x = (W * (x \div W)) + (x % W)
BY SMT

LEMMA Multiple ==
  ASSUME NEW W \in Nat \ {0}, NEW k \in Int
  PROVE  /\ W * k \in Int
         /\ k = 0 => W * k = 0
         /\ k >= 1 => W * k >= W
         /\ k >= 2 => W * k >= 2 * W
         /\ k <= -1 => W * k <= -W
BY SMT

(* The difference of two remainders, as a remainder: that of the true      *)
(* times, up to one multiple of Wrap.                                      *)
LEMMA Distance ==
  ASSUME NEW W \in Nat \ {0}, NEW x \in Int, NEW y \in Int
  PROVE  \E k \in Int : ((x % W) - (y % W)) % W = (x - y) + W * k
<1> DEFINE p == x \div W
           q == y \div W
           z == (x % W) - (y % W)
           r == z \div W
<1>1. p \in Int /\ x % W = x - W * p /\ x % W \in Int /\ W * p \in Int
  BY Remainder, Multiple
<1>2. q \in Int /\ y % W = y - W * q /\ y % W \in Int /\ W * q \in Int
  BY Remainder, Multiple
<1>3. z \in Int
  BY <1>1, <1>2
<1>4. r \in Int /\ z % W = z - W * r /\ W * r \in Int
  <2> HIDE DEF z
  <2>1. r \in Int /\ z = (W * r) + (z % W) /\ z % W \in Int /\ W * r \in Int
    BY <1>3, Remainder, Multiple
  <2>2. QED BY <1>3, <2>1
<1>5. z % W = (x - y) - W * p + W * q - W * r
  <2>1. z = (x - W * p) - (y - W * q)
    BY <1>1, <1>2
  <2> HIDE DEF p, q, r, z
  <2>2. QED BY <1>1, <1>2, <1>4, <2>1
<1>6. W * (q - p - r) = W * q - W * p - W * r
  <2> HIDE DEF p, q, r
  <2>1. QED BY <1>1, <1>2, <1>4
<1>7. z % W = (x - y) + W * (q - p - r)
  <2> HIDE DEF p, q, r, z
  <2>1. QED BY <1>1, <1>2, <1>4, <1>5, <1>6
<1>8. q - p - r \in Int
  BY <1>1, <1>2, <1>4
<1>9. QED BY <1>7, <1>8

LEMMA Unique ==
  ASSUME NEW W \in Nat \ {0}, NEW x \in 0 .. W - 1, NEW y \in 0 .. W - 1, NEW k \in Int,
         x - y = W * k
  PROVE  x = y
<1>1. k >= 1 \/ k <= -1 \/ k = 0
  OBVIOUS
<1>2. CASE k = 0
  BY <1>2
<1>3. CASE k # 0
  BY <1>3, <1>1, Multiple
<1>4. QED BY <1>2, <1>3

(* A deadline is the clock's reading of the true time it stands for.       *)
LEMMA LaterIsLater ==
  ASSUME uptime \in Nat, NEW ms \in Nat
  PROVE  Later(now, ms) = (uptime + ms) % Wrap
<1> DEFINE x == uptime + ms
           y == uptime % Wrap
           z == y + ms
<1>0. Wrap \in Nat \ {0}
  BY ClockAssumption
<1>1. x \in Int /\ x % Wrap \in 0 .. Wrap - 1 /\ x \div Wrap \in Int
      /\ x = (Wrap * (x \div Wrap)) + (x % Wrap)
  <2>1. x \in Int
    OBVIOUS
  <2> HIDE DEF x
  <2>2. QED BY <1>0, <2>1, Remainder
<1>2. y \in 0 .. Wrap - 1 /\ uptime \div Wrap \in Int
      /\ uptime = (Wrap * (uptime \div Wrap)) + y
  BY <1>0, Remainder
<1>3. z \in Int
  BY <1>0, <1>2
<1>4. z % Wrap \in 0 .. Wrap - 1 /\ z \div Wrap \in Int
      /\ z = (Wrap * (z \div Wrap)) + (z % Wrap)
  <2> HIDE DEF z
  <2>1. QED BY <1>0, <1>3, Remainder
<1> DEFINE a == x \div Wrap
           b == uptime \div Wrap
           c == z \div Wrap
           k == a - b - c
           xr == x % Wrap
           zr == z % Wrap
<1>5. k \in Int /\ zr - xr = Wrap * k
  <2>1. x = y + (Wrap * b) + ms /\ z = y + ms
    BY <1>0, <1>2
  <2>2. a \in Int /\ b \in Int /\ c \in Int /\ xr \in Int /\ zr \in Int /\ y \in Int
    BY <1>0, <1>1, <1>2, <1>4
  <2>3. x = (Wrap * a) + xr /\ z = (Wrap * c) + zr
    BY <1>1, <1>4
  <2> HIDE DEF a, b, c, xr, zr, x, y, z
  <2>4. Wrap * a \in Int /\ Wrap * b \in Int /\ Wrap * c \in Int
    BY <1>0, <2>2, Multiple
  <2>5. zr - xr = (Wrap * a) - (Wrap * b) - (Wrap * c)
    BY <2>1, <2>2, <2>3, <2>4
  <2>6. Wrap * (a - b - c) = (Wrap * a) - (Wrap * b) - (Wrap * c)
    BY <1>0, <2>2
  <2>7. QED BY <2>2, <2>5, <2>6
<1>6. zr = xr
  <2> HIDE DEF k, xr, zr
  <2>1. xr \in 0 .. Wrap - 1 /\ zr \in 0 .. Wrap - 1
    BY <1>1, <1>4 DEF xr, zr
  <2>2. QED BY <1>0, <1>5, <2>1, Unique
<1>7. QED BY <1>6 DEF Later, now

(* An age never exceeds the true one.                                      *)
LEMMA AgeIsNoMore ==
  ASSUME uptime \in Nat, NEW start \in Nat, start <= uptime
  PROVE  Age(start % Wrap) <= uptime - start
<1>0. Wrap \in Nat \ {0}
  BY ClockAssumption
<1>1. PICK k \in Int : ((uptime % Wrap) - (start % Wrap)) % Wrap = (uptime - start) + Wrap * k
  <2>1. uptime \in Int /\ start \in Int
    OBVIOUS
  <2>2. QED BY <1>0, <2>1, Distance, Zenon
<1> DEFINE age == ((uptime % Wrap) - (start % Wrap)) % Wrap
<1>2. age \in 0 .. Wrap - 1
  <2>1. (uptime % Wrap) - (start % Wrap) \in Int
    BY <1>0, Remainder
  <2>2. QED BY <1>0, <2>1, Remainder
<1>3. age = Age(start % Wrap)
  BY DEF Age, now
<1>4. k <= 0
  <2>1. SUFFICES ASSUME k >= 1 PROVE FALSE
    OBVIOUS
  <2>2. age = (uptime - start) + Wrap * k /\ Wrap * k >= Wrap
    BY <1>0, <1>1, <2>1, Multiple
  <2> HIDE DEF age
  <2>3. QED BY <1>0, <1>2, <2>2
<1>5. age = (uptime - start) + Wrap * k /\ Wrap * k <= 0 /\ Wrap * k \in Int
  <2>1. k = 0 \/ k <= -1
    BY <1>4
  <2>2. Wrap * k <= 0 /\ Wrap * k \in Int
    BY <1>0, <2>1, Multiple
  <2>3. QED BY <1>1, <2>2
<1>6. age <= uptime - start
  <2> HIDE DEF age
  <2>1. QED BY <1>2, <1>5
<1>7. QED BY <1>3, <1>6

(* A deadline that lies ahead by no more than a backoff is not reached.    *)
LEMMA AheadIsNotReached ==
  ASSUME uptime \in Nat, NEW d \in Nat, d > uptime, d - uptime <= MAX_BACKOFF_MS
  PROVE  ~TimeReached(d % Wrap)
<1>0. Wrap \in Nat \ {0} /\ MAX_BACKOFF_MS \in Nat /\ 2 * MAX_BACKOFF_MS < Wrap
  BY ClockAssumption
<1> DEFINE distance == ((uptime % Wrap) - (d % Wrap)) % Wrap
<1>1. PICK k \in Int : distance = (uptime - d) + Wrap * k
  <2>1. uptime \in Int /\ d \in Int
    OBVIOUS
  <2>2. QED BY <1>0, <2>1, Distance, Zenon
<1>2. distance \in 0 .. Wrap - 1
  <2>1. (uptime % Wrap) - (d % Wrap) \in Int
    BY <1>0, Remainder
  <2>2. QED BY <1>0, <2>1, Remainder
<1>3. k >= 1
  <2>1. SUFFICES ASSUME k = 0 \/ k <= -1 PROVE FALSE
    OBVIOUS
  <2>2. Wrap * k \in Int /\ Wrap * k <= 0
    BY <1>0, <2>1, Multiple
  <2> HIDE DEF distance
  <2>3. QED BY <1>1, <1>2, <2>2
<1>4. Wrap * k \in Int /\ Wrap * k >= Wrap
  BY <1>0, <1>3, Multiple
<1>5. distance >= Wrap \div 2
  <2> HIDE DEF distance
  <2>1. 2 * distance > Wrap
    BY <1>0, <1>1, <1>2, <1>4
  <2>2. QED BY <1>0, <1>2, <2>1
<1>6. QED BY <1>0, <1>2, <1>5 DEF TimeReached, now

LEMMA BackoffBound ==
  ASSUME NEW n \in Nat
  PROVE  Backoff(n) \in Nat /\ Backoff(n) <= MAX_BACKOFF_MS
<1>1. LeastOf(n, 3) \in 0 .. 3
  BY DEF LeastOf
<1>2. 2 ^ LeastOf(n, 3) \in Nat
  BY <1>1, ClockAssumption
<1> DEFINE power == 2 ^ LeastOf(n, 3)
<1>3. INTER_PACKET_MS * power \in Nat
  <2> HIDE DEF power
  <2>1. QED BY <1>2, ClockAssumption DEF power
<1> DEFINE product == INTER_PACKET_MS * power
<1>4. LeastOf(MAX_BACKOFF_MS, product) \in Nat /\ LeastOf(MAX_BACKOFF_MS, product) <= MAX_BACKOFF_MS
  <2> HIDE DEF product
  <2>1. product \in Nat
    BY <1>3 DEF product
  <2>2. QED BY <2>1, ClockAssumption DEF LeastOf
<1>5. QED BY <1>4 DEF Backoff

----------------------------------------------------------------------------
(* The invariant: a deadline is the clock's reading of "due" while that is *)
(* ahead, and a request is posted only when it is not.                     *)
TimesType == {uptime, due, started, outstanding} \subseteq Nat /\ sender \in Sender

StartIsRead == started <= uptime /\ txStart = started % Wrap

DueIsRead ==
  /\ sender.state = "TX_PENDING" => due <= uptime
  /\ due <= uptime \/ (nextAttempt = due % Wrap /\ due - uptime <= MAX_BACKOFF_MS)

ClockInv == TimesType /\ StartIsRead /\ DueIsRead

(* When the deadline is reached, its true time is.                         *)
LEMMA ReachedIsDue ==
  ASSUME ClockInv, TimeReached(nextAttempt)
  PROVE  due <= uptime
<1>1. SUFFICES ASSUME due > uptime PROVE FALSE
  BY DEF ClockInv, TimesType
<1>2. nextAttempt = due % Wrap /\ due - uptime <= MAX_BACKOFF_MS /\ uptime \in Nat /\ due \in Nat
  BY <1>1 DEF ClockInv, TimesType, DueIsRead
<1>3. ~TimeReached(due % Wrap)
  BY <1>1, <1>2, AheadIsNotReached
<1>4. QED BY <1>2, <1>3

LEMMA ClockInit == Init => ClockInv
<1> SUFFICES ASSUME Init PROVE ClockInv
  OBVIOUS
<1>1. NewSender \in Sender
  BY LimitsAssumption DEF NewSender, Sender, State
<1>2. TimesType
  BY <1>1, ClockAssumption DEF Init, TimesType
<1>3. 0 % Wrap = 0 /\ INTER_PACKET_MS % Wrap = INTER_PACKET_MS
  BY ClockAssumption
<1>4. StartIsRead
  BY <1>3 DEF Init, StartIsRead
<1>5. DueIsRead
  BY <1>3, ClockAssumption DEF Init, DueIsRead, NewSender
<1>6. QED BY <1>2, <1>4, <1>5 DEF ClockInv

(* A failed attempt: the next one is due after the backoff, or the command *)
(* is dropped and the deadline computed from the last transmission, which  *)
(* is behind.                                                              *)
LEMMA FailDeadlineKeeps ==
  ASSUME ClockInv, sender.state = "TX_PENDING", NEW tx, FailDeadline(tx), uptime' = uptime,
         ~GivesUp(sender) => sender'.state = "WAIT_DELAY"
  PROVE  due' \in Nat /\ DueIsRead'
<1>1. uptime \in Nat /\ due \in Nat /\ sender.retries \in Nat /\ due <= uptime
  BY LimitsAssumption DEF ClockInv, TimesType, DueIsRead, Sender
<1>2. CASE GivesUp(sender)
  BY <1>1, <1>2 DEF FailDeadline, DueIsRead
<1>3. CASE ~GivesUp(sender)
  <2> DEFINE b == Backoff(sender.retries + 1)
  <2>1. b \in Nat /\ b <= MAX_BACKOFF_MS
    BY <1>1, BackoffBound
  <2>2. nextAttempt' = Later(now, b) /\ due' = uptime + b
    BY <1>3 DEF FailDeadline
  <2> HIDE DEF b
  <2>3. nextAttempt' = due' % Wrap
    BY <1>1, <2>1, <2>2, LaterIsLater
  <2>4. due' - uptime' <= MAX_BACKOFF_MS /\ due' \in Nat
    BY <1>1, <2>1, <2>2, ClockAssumption
  <2>5. QED BY <1>3, <2>3, <2>4 DEF DueIsRead
<1>4. QED BY <1>2, <1>3

LEMMA AttemptFails ==
  ASSUME NEW s \in Sender, NEW d \in BOOLEAN, ~GivesUp(s)
  PROVE  FailAttempt(s, d).state = "WAIT_DELAY"
BY DEF FailAttempt, Sender

LEMMA CompleteKeeps ==
  ASSUME ClockInv, NEW ok \in BOOLEAN, Complete(ok)
  PROVE  ClockInv'
<1>1. TimesType /\ sender \in Sender /\ uptime \in Nat /\ due \in Nat /\ outstanding \in Nat
  BY DEF ClockInv, TimesType
<1>2. sender' = OnTxComplete(sender, ok) /\ sender' \in Sender
  BY <1>1, OnTxCompleteType DEF Complete
<1>3. UNCHANGED <<txStart, uptime, started>> /\ outstanding' \in Nat
  BY <1>1 DEF Complete
<1>4. due' \in Nat /\ DueIsRead'
  <2>1. CASE Ignored(ok)
    <3>1. sender.state = "TX_PENDING" => sender'.state = "IDLE"
      BY <1>1, <1>2, <2>1 DEF Ignored, OnTxComplete, Counts, Forgotten, Sender
    <3>2. sender.state # "TX_PENDING" => sender' = sender
      BY <1>2 DEF OnTxComplete, Counts
    <3>3. sender'.state # "TX_PENDING"
      BY <3>1, <3>2
    <3>4. QED BY <1>1, <1>3, <2>1, <3>3 DEF Ignored, DueIsRead, ClockInv
  <2>2. CASE ok /\ CompletedOk
    <3>1. sender.state = "TX_PENDING" /\ due <= uptime
      BY <2>2 DEF CompletedOk, Counts, ClockInv, DueIsRead
    <3>2. CASE sender'.state = "WAIT_DELAY"
      <4>1. nextAttempt' = Later(now, INTER_PACKET_MS) /\ due' = uptime + INTER_PACKET_MS
        BY <2>2, <3>2 DEF CompletedOk
      <4>2. nextAttempt' = due' % Wrap
        BY <1>1, <4>1, LaterIsLater, ClockAssumption
      <4>3. due' \in Nat /\ due' - uptime' <= MAX_BACKOFF_MS
        BY <1>1, <1>3, <4>1, ClockAssumption
      <4>4. QED BY <3>2, <4>2, <4>3 DEF DueIsRead
    <3>3. CASE sender'.state # "WAIT_DELAY"
      BY <1>1, <1>3, <2>2, <3>1, <3>3 DEF CompletedOk, DueIsRead
    <3>4. QED BY <3>2, <3>3
  <2>3. CASE ~ok /\ CompletedFailed
    <3>1. Counts(sender) /\ sender.state = "TX_PENDING" /\ FailDeadline(now)
      BY <2>3 DEF CompletedFailed, Counts
    <3>2. sender' = FailAttempt(sender, TRUE)
      BY <1>2, <2>3, <3>1 DEF OnTxComplete
    <3>3. ~GivesUp(sender) => sender'.state = "WAIT_DELAY"
      BY <1>1, <3>2, AttemptFails
    <3>4. uptime' = uptime
      BY <1>3
    <3>5. QED BY <3>1, <3>3, <3>4, FailDeadlineKeeps
  <2>4. QED BY <2>1, <2>2, <2>3 DEF Complete
<1>5. TimesType'
  BY <1>1, <1>2, <1>3, <1>4 DEF TimesType
<1>6. StartIsRead'
  BY <1>3 DEF ClockInv, StartIsRead
<1>7. QED BY <1>4, <1>5, <1>6 DEF ClockInv

(* What process_queue() does but for a request and a timeout, and what the *)
(* callers do, leaves the deadlines alone.                                 *)
LEMMA QuietKeeps ==
  ASSUME ClockInv, sender' \in Sender, outstanding' \in Nat,
         sender'.state = "TX_PENDING" => sender.state = "TX_PENDING",
         UNCHANGED <<nextAttempt, txStart, uptime, due, started>>
  PROVE  ClockInv'
BY DEF ClockInv, TimesType, StartIsRead, DueIsRead

LEMMA ClockStep == ClockInv /\ [Next]_vars => ClockInv'
<1> SUFFICES ASSUME ClockInv, [Next]_vars PROVE ClockInv'
  OBVIOUS
<1>0. sender \in Sender /\ uptime \in Nat /\ due \in Nat /\ started \in Nat /\ outstanding \in Nat
  BY DEF ClockInv, TimesType
<1>1. CASE Enqueues
  <2>1. PICK cmd \in Commands : EnqueueCommand(cmd)
    BY <1>1 DEF Enqueues
  <2> DEFINE e == [id |-> 0, cmd |-> cmd, for |-> {}]
  <2>2. e \in Entry
    BY DEF Entry
  <2>3. sender' = Push(sender, e)
    BY <2>1 DEF EnqueueCommand
  <2>4. sender' \in Sender
    BY <1>0, <2>2, <2>3, PushType
  <2>5. sender'.state = "TX_PENDING" => sender.state = "TX_PENDING"
    BY <1>0, <2>3 DEF Push, Sender
  <2>6. UNCHANGED <<nextAttempt, txStart, uptime, due, started>> /\ outstanding' \in Nat
    BY <1>0, <2>1 DEF EnqueueCommand
  <2>7. QED BY <2>4, <2>5, <2>6, QuietKeeps
<1>2. CASE Clear
  <2>1. sender' \in Sender
    BY <1>0, <1>2, ClearQueueType DEF Clear
  <2>2. due' = uptime /\ UNCHANGED <<txStart, outstanding, uptime, started>>
    BY <1>2 DEF Clear
  <2>3. QED BY <1>0, <2>1, <2>2 DEF ClockInv, TimesType, StartIsRead, DueIsRead
<1>3. CASE Wake
  <2>1. sender' \in Sender /\ sender'.state # "TX_PENDING"
    BY <1>0, <1>3 DEF Wake, Woken, Sender, State
  <2>2. QED BY <1>0, <1>3, <2>1, QuietKeeps DEF Wake
<1>4. CASE Settle
  <2>1. sender' \in Sender /\ sender'.state # "TX_PENDING"
    BY <1>0, <1>4 DEF Settle, Settled, Sender, State
  <2>2. QED BY <1>0, <1>4, <2>1, QuietKeeps DEF Settle
<1>5. CASE Request
  <2>1. sender' \in Sender
    BY <1>0, <1>5 DEF Request, Requested, Sender, State
  <2>2. due <= uptime
    BY <1>5, ReachedIsDue DEF Request
  <2>3. /\ txStart' = uptime % Wrap /\ started' = uptime /\ outstanding' = outstanding + 1
        /\ UNCHANGED <<nextAttempt, uptime, due>>
    BY <1>5 DEF Request, now
  <2>4. TimesType' /\ StartIsRead'
    BY <1>0, <2>1, <2>3 DEF TimesType, StartIsRead
  <2>5. DueIsRead'
    BY <2>2, <2>3 DEF DueIsRead
  <2>6. QED BY <2>4, <2>5 DEF ClockInv
<1>6. CASE Timeout
  <2>1. /\ sender.state = "TX_PENDING" /\ sender' = FailAttempt(sender, FALSE)
        /\ FailDeadline(lastTx) /\ UNCHANGED <<txStart, outstanding, uptime, started>>
    BY <1>6 DEF Timeout, TimedOut
  <2>2. sender' \in Sender
    BY <1>0, <2>1, FailAttemptType
  <2>3. ~GivesUp(sender) => sender'.state = "WAIT_DELAY"
    BY <1>0, <2>1, AttemptFails
  <2>4. due' \in Nat /\ DueIsRead'
    BY <2>1, <2>3, FailDeadlineKeeps
  <2>5. TimesType' /\ StartIsRead'
    BY <1>0, <2>1, <2>2, <2>4 DEF ClockInv, TimesType, StartIsRead
  <2>6. QED BY <2>4, <2>5 DEF ClockInv
<1>7. CASE Completes
  BY <1>7, CompleteKeeps DEF Completes
<1>8. CASE LoseCompletion
  BY <1>0, <1>8, QuietKeeps DEF LoseCompletion
<1>9. CASE Tick
  <2>1. \A b \in BOOLEAN : [sender EXCEPT !.delaying = b] \in Sender
    BY <1>0 DEF Sender
  <2>2. sender' \in Sender /\ sender'.state = sender.state
    BY <1>0, <1>9, <2>1 DEF Tick, Sender
  <2>3. /\ uptime' = uptime + 1
        /\ UNCHANGED <<nextAttempt, txStart, outstanding, due, started>>
    BY <1>9 DEF Tick
  <2>4. TimesType' /\ StartIsRead'
    BY <1>0, <2>2, <2>3 DEF ClockInv, TimesType, StartIsRead
  <2>5. due' % Wrap = due % Wrap /\ due' = due /\ nextAttempt' = nextAttempt
    BY <2>3
  <2>6. CASE due <= uptime
    <3>1. DueIsRead'
      BY <1>0, <2>3, <2>6 DEF DueIsRead
    <3>2. QED BY <2>4, <3>1 DEF ClockInv
  <2>7. CASE ~(due <= uptime)
    <3>1. sender.state # "TX_PENDING" /\ nextAttempt = due % Wrap /\ due - uptime <= MAX_BACKOFF_MS
      BY <2>7 DEF ClockInv, DueIsRead
    <3>2. due' - uptime' <= MAX_BACKOFF_MS
      BY <1>0, <2>3, <2>5, <3>1, ClockAssumption
    <3>3. nextAttempt' = due' % Wrap
      BY <2>5, <3>1
    <3>4. DueIsRead'
      BY <2>2, <3>1, <3>2, <3>3 DEF DueIsRead
    <3>5. QED BY <2>4, <3>4 DEF ClockInv
  <2>8. QED BY <2>6, <2>7
<1>10. CASE UNCHANGED vars
  BY <1>10 DEF vars, ClockInv, TimesType, StartIsRead, DueIsRead
<1>11. QED
  BY <1>1, <1>2, <1>3, <1>4, <1>5, <1>6, <1>7, <1>8, <1>9, <1>10 DEF Next

(* In every state the deadline of a sender is what the clock will read     *)
(* when the next attempt is due, if that is still to come                  *)
(* (command_sender.h process_queue, on_tx_complete, clear_queue).          *)
THEOREM ClockInvariant == Spec => []ClockInv
<1>1. QED BY ClockInit, ClockStep, PTL DEF Spec

(* No packet is requested before the gap or the backoff since the last     *)
(* attempt has really passed, however often the clock has wrapped          *)
(* (command_sender.h time_reached_, calculate_backoff_ms_).                *)
THEOREM ClockNeverEarly == Spec => NeverEarly
<1>1. ClockInv /\ [Next]_vars => [outstanding' > outstanding => uptime >= due]_vars
  <2> SUFFICES ASSUME ClockInv, Next, outstanding' > outstanding PROVE uptime >= due
    BY DEF vars
  <2>0. outstanding \in Nat /\ uptime \in Nat /\ due \in Nat
    BY DEF ClockInv, TimesType
  <2>1. CASE Request
    BY <2>0, <2>1, ReachedIsDue DEF Request
  <2>2. CASE ~Request
    <3>1. outstanding' = outstanding \/ outstanding' = outstanding - 1
      BY <2>2 DEF Next, Enqueues, EnqueueCommand, Clear, Wake, Settle, Timeout, Completes,
                  Complete, LoseCompletion, Tick
    <3>2. QED BY <2>0, <3>1
  <2>3. QED BY <2>1, <2>2
<1>2. QED BY <1>1, ClockInvariant, PTL DEF Spec, NeverEarly

(* The watchdog gives a request up only when it has really been pending    *)
(* for longer than TX_PENDING_TIMEOUT, however often the clock has wrapped *)
(* (command_sender.h process_queue).                                       *)
THEOREM ClockWatchdogWaits == Spec => WatchdogWaits
<1>1. ClockInv /\ [Next]_vars =>
        [ (sender.state = "TX_PENDING" /\ sender'.state # "TX_PENDING"
           /\ outstanding' = outstanding) =>
            uptime - started > TX_PENDING_TIMEOUT ]_vars
  <2> SUFFICES ASSUME ClockInv, Next, sender.state = "TX_PENDING",
                      sender'.state # "TX_PENDING", outstanding' = outstanding
               PROVE  uptime - started > TX_PENDING_TIMEOUT
    BY DEF vars
  <2>0. /\ outstanding \in Nat /\ uptime \in Nat /\ started \in Nat /\ started <= uptime
        /\ txStart = started % Wrap /\ sender \in Sender
    BY DEF ClockInv, TimesType, StartIsRead
  <2>1. CASE Timeout
    <3>1. Age(started % Wrap) <= uptime - started
      BY <2>0, AgeIsNoMore
    <3>2. Age(started % Wrap) > TX_PENDING_TIMEOUT
      BY <2>0, <2>1 DEF Timeout
    <3>3. Age(started % Wrap) \in Int
      <4>1. Wrap \in Nat \ {0} /\ now \in Int /\ started % Wrap \in Int
        BY <2>0, ClockAssumption, Remainder DEF now
      <4>2. now - (started % Wrap) \in Int
        BY <4>1
      <4>3. QED BY <4>1, <4>2, Remainder DEF Age
    <3>4. QED BY <2>0, <3>1, <3>2, <3>3, ClockAssumption
  <2>2. CASE Enqueues
    BY <2>0, <2>2 DEF Enqueues, EnqueueCommand, Push, Sender
  <2>3. CASE Clear
    BY <2>0, <2>3 DEF Clear, ClearQueue, CancelRequest, Sender
  <2>4. CASE Completes \/ LoseCompletion
    BY <2>0, <2>4 DEF Completes, Complete, LoseCompletion
  <2>5. CASE Tick
    BY <2>0, <2>5 DEF Tick, Sender
  <2>6. CASE Wake \/ Settle \/ Request
    BY <2>6 DEF Wake, Settle, Request
  <2>7. QED BY <2>1, <2>2, <2>3, <2>4, <2>5, <2>6 DEF Next
<1>2. QED BY <1>1, ClockInvariant, PTL DEF Spec, WatchdogWaits

----------------------------------------------------------------------------
(* The first half of the clock's range, in which a deadline is what it     *)
(* reads: the bit "delaying" of a sender is its deadline.  A command is    *)
(* given up by the watchdog after a failure only, whose backoff was no     *)
(* shorter than the gap; so the gap after the last transmission is over.   *)
LEMMA ReachedInHalf ==
  ASSUME NEW u \in Nat, NEW d \in Nat, u < Wrap \div 2, d <= u + MAX_BACKOFF_MS
  PROVE  ((u % Wrap) - d) % Wrap < Wrap \div 2 <=> d <= u
<1> DEFINE W == Wrap
           x == u - d
<1>0. W \in Nat \ {0} /\ MAX_BACKOFF_MS \in Nat /\ 2 * MAX_BACKOFF_MS < W
  BY ClockAssumption
<1>1. W \div 2 \in Nat /\ 2 * (W \div 2) <= W /\ u < W /\ d < W /\ x \in Int
  <2> HIDE DEF W
  <2>1. W \div 2 \in Nat /\ 2 * (W \div 2) <= W
    BY <1>0
  <2>2. QED BY <1>0, <2>1 DEF W
<1>2. u % W = u
  BY <1>0, <1>1
<1>3. (u % W) - d = x
  BY <1>2
<1>4. CASE d <= u
  <2>1. x \in 0 .. W - 1 /\ x < W \div 2
    BY <1>0, <1>1, <1>4
  <2>2. x % W = x
    BY <1>0, <2>1
  <2>3. QED BY <1>3, <1>4, <2>1, <2>2
<1>5. CASE d > u
  <2> DEFINE r == x % W
             q == x \div W
  <2>1. r \in 0 .. W - 1 /\ q \in Int /\ x = (W * q) + r /\ W * q \in Int
    <3> HIDE DEF x, W
    <3>1. QED BY <1>0, <1>1, Remainder, Multiple
  <2>2. q = -1
    <3> HIDE DEF r, q, W
    <3>1. x < 0 /\ x > -W
      BY <1>0, <1>1, <1>5 DEF W
    <3>2. q >= 0 => W * q >= 0
      BY <1>0, <2>1, Multiple
    <3>3. q <= -2 => W * q <= -2 * W
      <4>1. q <= -2 => W * (-q) >= 2 * W
        BY <1>0, <2>1, Multiple
      <4>2. W * (-q) = -(W * q)
        BY <1>0, <2>1
      <4>3. QED BY <1>0, <2>1, <4>1, <4>2
    <3> HIDE DEF x
    <3>4. QED BY <1>0, <1>1, <2>1, <3>1, <3>2, <3>3
  <2>3. r = x + W
    <3> HIDE DEF r, q, W, x
    <3>1. QED BY <1>0, <1>1, <2>1, <2>2
  <2>4. r >= W \div 2
    <3> HIDE DEF r
    <3>1. -x <= MAX_BACKOFF_MS
      BY <1>0
    <3> HIDE DEF x
    <3>2. QED BY <1>0, <1>1, <2>1, <2>3, <3>1
  <2>5. r \in Int
    BY <2>1
  <2>6. ~(r < W \div 2)
    <3> HIDE DEF r
    <3>1. QED BY <1>1, <2>4, <2>5
  <2>7. QED BY <1>3, <1>5, <2>6
<1>6. QED BY <1>4, <1>5

LEMMA LaterInHalf ==
  ASSUME NEW u \in Nat, NEW t \in Nat, NEW ms \in Nat, u < Wrap \div 2, t <= u,
         ms <= MAX_BACKOFF_MS
  PROVE  Later(t, ms) = t + ms /\ u % Wrap = u
<1>0. Wrap \in Nat \ {0} /\ MAX_BACKOFF_MS \in Nat /\ 2 * MAX_BACKOFF_MS < Wrap
  BY ClockAssumption
<1>1. Wrap \div 2 \in Nat /\ 2 * (Wrap \div 2) <= Wrap
  BY <1>0
<1>2. t + ms < Wrap /\ u < Wrap
  BY <1>0, <1>1
<1>3. QED BY <1>0, <1>2 DEF Later

LEMMA BackoffIsNoGap ==
  ASSUME NEW n \in Nat
  PROVE  Backoff(n) >= INTER_PACKET_MS
<1> DEFINE power == 2 ^ LeastOf(n, 3)
           product == INTER_PACKET_MS * power
<1>1. power \in Nat \ {0}
  <2>1. LeastOf(n, 3) \in 0 .. 3
    BY DEF LeastOf
  <2>2. QED BY <2>1, ClockAssumption
<1>2. product \in Int /\ product >= INTER_PACKET_MS
  <2> HIDE DEF power
  <2>1. QED BY <1>1, ClockAssumption, Multiple
<1>3. LeastOf(MAX_BACKOFF_MS, product) >= INTER_PACKET_MS
  <2> HIDE DEF product
  <2>1. QED BY <1>2, ClockAssumption DEF LeastOf
<1>4. QED BY <1>3 DEF Backoff

DeadlineOK ==
  /\ lastTx \in Nat /\ lastTx <= uptime
  /\ nextAttempt \in Nat /\ nextAttempt <= uptime + MAX_BACKOFF_MS
  /\ sender.delaying <=> uptime < nextAttempt
  /\ sender.retries > 0 => lastTx + INTER_PACKET_MS <= nextAttempt
  /\ sender.state = "TX_PENDING" => nextAttempt <= uptime

DelayInv == ClockInv /\ (uptime < Wrap \div 2 => DeadlineOK)

LEMMA DelayInit == Init => DelayInv
<1> SUFFICES ASSUME Init PROVE DelayInv
  OBVIOUS
<1>1. ClockInv
  BY ClockInit
<1>2. sender.delaying = TRUE /\ sender.retries = 0 /\ sender.state = "IDLE"
  BY DEF Init, NewSender
<1>3. lastTx = 0 /\ uptime = 0 /\ nextAttempt = INTER_PACKET_MS
  BY DEF Init
<1>4. QED BY <1>1, <1>2, <1>3, ClockAssumption DEF DelayInv, DeadlineOK

(* What the steps below share: the clock stands, and the first half holds  *)
(* before as it does after.                                                *)
LEMMA QuietDelays ==
  ASSUME DelayInv, ClockInv', UNCHANGED <<uptime, lastTx, nextAttempt>>,
         sender'.delaying = sender.delaying, sender'.retries \in {0, sender.retries},
         sender'.state = "TX_PENDING" => sender.state = "TX_PENDING"
  PROVE  DelayInv'
<1>1. SUFFICES ASSUME uptime < Wrap \div 2 PROVE DeadlineOK'
  BY DEF DelayInv
<1>2. DeadlineOK
  BY <1>1 DEF DelayInv
<1>3. (sender'.delaying <=> uptime' < nextAttempt')
  BY <1>2 DEF DeadlineOK
<1>4. sender'.retries > 0 => lastTx' + INTER_PACKET_MS <= nextAttempt'
  BY <1>2 DEF DeadlineOK
<1>5. QED BY <1>2, <1>3, <1>4 DEF DeadlineOK

(* After an attempt the deadline is where FailDeadline or the gap put it.  *)
LEMMA AdvancedFields ==
  ASSUME NEW s \in Sender, NEW d \in BOOLEAN
  PROVE  LET a == AdvanceQueue(s, d) IN
         /\ a.retries = 0 /\ a.state \in {"IDLE", "WAIT_DELAY"}
         /\ a.state = "WAIT_DELAY" => a.delaying = d
         /\ a.state = "IDLE" => a.delaying = s.delaying
<1> DEFINE rest == IF s.queue = <<>> THEN <<>> ELSE Tail(s.queue)
           a == AdvanceQueue(s, d)
<1>1. /\ a.retries = 0
      /\ a.state = (IF rest = <<>> THEN "IDLE" ELSE "WAIT_DELAY")
      /\ a.delaying = (IF rest = <<>> THEN s.delaying ELSE d)
  BY DEF AdvanceQueue, Sender
<1> HIDE DEF rest
<1>2. QED BY <1>1

LEMMA DeadlineAhead ==
  ASSUME DelayInv, ClockInv', uptime' = uptime, sender'.state \in {"IDLE", "WAIT_DELAY"},
         sender'.delaying, NEW ms \in Nat, INTER_PACKET_MS <= ms, ms <= MAX_BACKOFF_MS,
         nextAttempt' = Later(now, ms), lastTx' \in {lastTx, now}
  PROVE  DelayInv'
<1>1. SUFFICES ASSUME uptime < Wrap \div 2 PROVE DeadlineOK'
  BY DEF DelayInv
<1>2. DeadlineOK /\ uptime \in Nat
  BY <1>1 DEF DelayInv, ClockInv, TimesType
<1>3. Later(now, ms) = uptime + ms /\ now = uptime
  BY <1>1, <1>2, LaterInHalf DEF now
<1>4. nextAttempt' = uptime + ms /\ lastTx' \in Nat /\ lastTx' <= uptime
  BY <1>2, <1>3 DEF DeadlineOK
<1>5. INTER_PACKET_MS \in Nat \ {0} /\ MAX_BACKOFF_MS \in Nat
  BY ClockAssumption
<1>6. /\ uptime < nextAttempt' /\ nextAttempt' <= uptime + MAX_BACKOFF_MS /\ nextAttempt' \in Nat
      /\ lastTx' + INTER_PACKET_MS <= nextAttempt'
  <2>1. \A x, n \in Nat : x <= uptime /\ n = uptime + ms =>
          /\ uptime < n /\ n <= uptime + MAX_BACKOFF_MS /\ x + INTER_PACKET_MS <= n
    BY <1>2, <1>5
  <2>2. uptime + ms \in Nat
    BY <1>2
  <2>3. QED BY <1>4, <2>1, <2>2
<1>7. QED BY <1>4, <1>6 DEF DeadlineOK

LEMMA DeadlineStays ==
  ASSUME DelayInv, ClockInv', uptime' = uptime, sender'.state \in {"IDLE", "WAIT_DELAY"},
         (sender'.delaying <=> sender.delaying), sender'.retries = 0,
         nextAttempt' = nextAttempt, lastTx' \in {lastTx, now}
  PROVE  DelayInv'
<1>1. SUFFICES ASSUME uptime < Wrap \div 2 PROVE DeadlineOK'
  BY DEF DelayInv
<1>2. DeadlineOK /\ uptime \in Nat
  BY <1>1 DEF DelayInv, ClockInv, TimesType
<1>3. now = uptime
  BY <1>1, <1>2, ClockAssumption DEF now
<1>4. lastTx' \in Nat /\ lastTx' <= uptime
  BY <1>2, <1>3 DEF DeadlineOK
<1>5. (sender'.delaying <=> uptime' < nextAttempt')
  BY <1>2 DEF DeadlineOK
<1>6. QED BY <1>2, <1>4, <1>5 DEF DeadlineOK

LEMMA CompleteDelays ==
  ASSUME DelayInv, ClockInv', NEW ok \in BOOLEAN, Complete(ok)
  PROVE  DelayInv'
<1>0. sender \in Sender /\ sender' = OnTxComplete(sender, ok) /\ uptime' = uptime
  BY DEF DelayInv, ClockInv, TimesType, Complete
<1>1. CASE Ignored(ok)
  <2>1. CASE sender.state = "TX_PENDING"
    <3>1. sender' = Forgotten(sender)
      BY <1>0, <1>1, <2>1 DEF OnTxComplete, Ignored
    <3>2. sender'.delaying = sender.delaying /\ sender'.retries = 0 /\ sender'.state = "IDLE"
      BY <1>0, <3>1 DEF Forgotten, Sender
    <3>3. QED BY <1>0, <1>1, <3>2, QuietDelays DEF Ignored
  <2>2. CASE sender.state # "TX_PENDING"
    <3>1. sender' = sender
      BY <1>0, <2>2 DEF OnTxComplete, Counts
    <3>2. QED BY <1>0, <1>1, <3>1, QuietDelays DEF Ignored
  <2>3. QED BY <2>1, <2>2
<1>2. CASE ok /\ CompletedOk
  <2>0. Counts(sender) /\ sender.state = "TX_PENDING" /\ lastTx' = now
    BY <1>2 DEF CompletedOk, Counts
  <2>1. CASE sender'.state = "WAIT_DELAY"
    <3>1. nextAttempt' = Later(now, INTER_PACKET_MS)
      BY <1>2, <2>1 DEF CompletedOk
    <3>2. sender'.delaying = TRUE
      <4>1. CASE LastPacket(sender)
        <5>1. sender' = AdvanceQueue(sender, TRUE)
          BY <1>0, <1>2, <2>0, <4>1 DEF OnTxComplete
        <5>2. QED BY <1>0, <2>1, <5>1, AdvancedFields
      <4>2. CASE ~LastPacket(sender)
        <5>1. sender' = NextPacket(sender)
          BY <1>0, <1>2, <2>0, <4>2 DEF OnTxComplete
        <5>2. QED BY <1>0, <5>1 DEF NextPacket, Sender
      <4>3. QED BY <4>1, <4>2
    <3>3. QED BY <1>0, <2>0, <2>1, <3>1, <3>2, DeadlineAhead, ClockAssumption
  <2>2. CASE sender'.state # "WAIT_DELAY"
    <3>1. nextAttempt' = nextAttempt
      BY <1>2, <2>2 DEF CompletedOk
    <3>2. sender' = AdvanceQueue(sender, TRUE)
      <4>1. ASSUME ~LastPacket(sender) PROVE FALSE
        <5>1. sender' = NextPacket(sender)
          BY <1>0, <1>2, <2>0, <4>1 DEF OnTxComplete
        <5>2. QED BY <1>0, <2>2, <5>1 DEF NextPacket, Sender
      <4>2. QED BY <1>0, <1>2, <2>0, <4>1 DEF OnTxComplete
    <3>3. sender'.state = "IDLE" /\ sender'.delaying = sender.delaying /\ sender'.retries = 0
      BY <1>0, <2>2, <3>2, AdvancedFields
    <3>4. QED BY <1>0, <2>0, <3>1, <3>3, DeadlineStays
  <2>3. QED BY <2>1, <2>2
<1>3. CASE ~ok /\ CompletedFailed
  <2>0. Counts(sender) /\ sender.state = "TX_PENDING" /\ lastTx' = now /\ FailDeadline(now)
    BY <1>3 DEF CompletedFailed, Counts
  <2>1. sender' = FailAttempt(sender, TRUE)
    BY <1>0, <1>3, <2>0 DEF OnTxComplete
  <2>2. CASE ~GivesUp(sender)
    <3>1. sender'.state = "WAIT_DELAY" /\ sender'.delaying = TRUE
      BY <1>0, <2>1, <2>2 DEF FailAttempt, Sender
    <3>2. sender.retries + 1 \in Nat
      BY <1>0, LimitsAssumption DEF Sender
    <3> DEFINE b == Backoff(sender.retries + 1)
    <3>3. b \in Nat /\ b <= MAX_BACKOFF_MS /\ INTER_PACKET_MS <= b
      BY <3>2, BackoffBound, BackoffIsNoGap, ClockAssumption
    <3>4. nextAttempt' = Later(now, b)
      BY <2>0, <2>2 DEF FailDeadline
    <3> HIDE DEF b
    <3>5. QED BY <1>0, <2>0, <3>1, <3>3, <3>4, DeadlineAhead
  <2>3. CASE GivesUp(sender)
    <3>1. sender' = AdvanceQueue(sender, TRUE)
      BY <2>1, <2>3 DEF FailAttempt
    <3>2. CASE sender'.state = "WAIT_DELAY"
      <4>1. nextAttempt' = Later(now, INTER_PACKET_MS)
        BY <2>0, <2>3, <3>2 DEF FailDeadline
      <4>2. sender'.delaying = TRUE
        BY <1>0, <3>1, <3>2, AdvancedFields
      <4>3. QED BY <1>0, <2>0, <3>2, <4>1, <4>2, DeadlineAhead, ClockAssumption
    <3>3. CASE sender'.state # "WAIT_DELAY"
      <4>1. nextAttempt' = nextAttempt
        BY <2>0, <2>3, <3>3 DEF FailDeadline
      <4>2. sender'.state = "IDLE" /\ sender'.delaying = sender.delaying /\ sender'.retries = 0
        BY <1>0, <3>1, <3>3, AdvancedFields
      <4>3. QED BY <1>0, <2>0, <4>1, <4>2, DeadlineStays
    <3>4. QED BY <3>2, <3>3
  <2>4. QED BY <2>2, <2>3
<1>4. QED BY <1>1, <1>2, <1>3 DEF Complete

LEMMA TimeoutDelays ==
  ASSUME DelayInv, ClockInv', Timeout
  PROVE  DelayInv'
<1>0. /\ sender \in Sender /\ sender.state = "TX_PENDING" /\ sender' = FailAttempt(sender, FALSE)
      /\ FailDeadline(lastTx) /\ uptime' = uptime /\ lastTx' = lastTx
  BY DEF DelayInv, ClockInv, TimesType, Timeout, TimedOut
<1>1. CASE ~GivesUp(sender)
  <2>1. sender'.state = "WAIT_DELAY" /\ sender'.delaying = TRUE
    BY <1>0, <1>1 DEF FailAttempt, Sender
  <2>2. sender.retries + 1 \in Nat
    BY <1>0, LimitsAssumption DEF Sender
  <2> DEFINE b == Backoff(sender.retries + 1)
  <2>3. b \in Nat /\ b <= MAX_BACKOFF_MS /\ INTER_PACKET_MS <= b
    BY <2>2, BackoffBound, BackoffIsNoGap, ClockAssumption
  <2>4. nextAttempt' = Later(now, b)
    BY <1>0, <1>1 DEF FailDeadline
  <2> HIDE DEF b
  <2>5. QED BY <1>0, <2>1, <2>3, <2>4, DeadlineAhead
<1>2. CASE GivesUp(sender)
  <2>1. sender' = AdvanceQueue(sender, FALSE)
    BY <1>0, <1>2 DEF FailAttempt
  <2>2. CASE sender'.state = "WAIT_DELAY"
    <3>1. nextAttempt' = Later(lastTx, INTER_PACKET_MS)
      BY <1>0, <1>2, <2>2 DEF FailDeadline
    <3>2. sender'.delaying = FALSE /\ sender'.retries = 0
      BY <1>0, <2>1, <2>2, AdvancedFields
    <3>3. SUFFICES ASSUME uptime < Wrap \div 2 PROVE DeadlineOK'
      BY <1>0 DEF DelayInv
    <3>4. DeadlineOK /\ uptime \in Nat
      BY <3>3 DEF DelayInv, ClockInv, TimesType
    <3>5. nextAttempt' = lastTx + INTER_PACKET_MS
      <4>1. lastTx \in Nat /\ lastTx <= uptime
        BY <3>4 DEF DeadlineOK
      <4>2. QED BY <3>1, <3>3, <3>4, <4>1, LaterInHalf, ClockAssumption
    <3>6. sender.retries > 0
      BY <1>0, <1>2, LimitsAssumption DEF GivesUp, Sender
    <3>7. nextAttempt' <= uptime'
      BY <1>0, <3>4, <3>5, <3>6, ClockAssumption DEF DeadlineOK
    <3>8. lastTx' \in Nat /\ lastTx' <= uptime' /\ nextAttempt' \in Nat
          /\ nextAttempt' <= uptime' + MAX_BACKOFF_MS /\ ~(uptime' < nextAttempt')
      BY <1>0, <3>4, <3>5, <3>7, ClockAssumption DEF DeadlineOK
    <3>9. QED BY <2>2, <3>2, <3>8 DEF DeadlineOK
  <2>3. CASE sender'.state # "WAIT_DELAY"
    <3>1. nextAttempt' = nextAttempt
      BY <1>0, <1>2, <2>3 DEF FailDeadline
    <3>2. sender'.state = "IDLE" /\ sender'.delaying = sender.delaying /\ sender'.retries = 0
      BY <1>0, <2>1, <2>3, AdvancedFields
    <3>3. QED BY <1>0, <3>1, <3>2, DeadlineStays
  <2>4. QED BY <2>2, <2>3
<1>3. QED BY <1>1, <1>2

LEMMA TickDelays ==
  ASSUME DelayInv, ClockInv', Tick
  PROVE  DelayInv'
<1>1. SUFFICES ASSUME uptime' < Wrap \div 2 PROVE DeadlineOK'
  BY DEF DelayInv
<1>2. /\ uptime' = uptime + 1 /\ uptime \in Nat /\ UNCHANGED <<nextAttempt, lastTx>>
      /\ sender' = [sender EXCEPT !.delaying = @ /\ ~TimeReached(nextAttempt)']
      /\ sender \in Sender
  BY DEF DelayInv, ClockInv, TimesType, Tick
<1>3. uptime < Wrap \div 2
  <2>1. Wrap \div 2 \in Int
    BY ClockAssumption
  <2>2. QED BY <1>1, <1>2, <2>1
<1>4. DeadlineOK
  BY <1>3 DEF DelayInv
<1>5. sender'.retries = sender.retries /\ sender'.state = sender.state
  BY <1>2 DEF Sender
<1>6. /\ lastTx' \in Nat /\ lastTx' <= uptime' /\ nextAttempt' \in Nat
      /\ nextAttempt' <= uptime' + MAX_BACKOFF_MS
  BY <1>2, <1>4, ClockAssumption DEF DeadlineOK
<1>7. TimeReached(nextAttempt)' <=> nextAttempt' <= uptime'
  <2>1. uptime' \in Nat
    BY <1>2
  <2>2. ((uptime' % Wrap) - nextAttempt') % Wrap < Wrap \div 2 <=> nextAttempt' <= uptime'
    BY <1>1, <1>6, <2>1, ReachedInHalf
  <2>3. QED BY <2>2 DEF TimeReached, now
<1>8. sender'.delaying <=> uptime' < nextAttempt'
  <2>1. sender'.delaying <=> sender.delaying /\ ~TimeReached(nextAttempt)'
    BY <1>2 DEF Sender
  <2>2. sender.delaying <=> uptime < nextAttempt
    BY <1>4 DEF DeadlineOK
  <2>3. (uptime < nextAttempt /\ ~(nextAttempt' <= uptime')) <=> uptime' < nextAttempt'
    BY <1>2, <1>4 DEF DeadlineOK
  <2>4. QED BY <1>7, <2>1, <2>2, <2>3
<1>9. sender'.retries > 0 => lastTx' + INTER_PACKET_MS <= nextAttempt'
  BY <1>2, <1>4, <1>5 DEF DeadlineOK
<1>10. sender'.state = "TX_PENDING" => nextAttempt' <= uptime'
  BY <1>2, <1>4, <1>5 DEF DeadlineOK
<1>11. QED BY <1>6, <1>8, <1>9, <1>10 DEF DeadlineOK

LEMMA DelayStep == DelayInv /\ [Next]_vars => DelayInv'
<1> SUFFICES ASSUME DelayInv, [Next]_vars PROVE DelayInv'
  OBVIOUS
<1>0. ClockInv /\ ClockInv' /\ sender \in Sender
  BY ClockStep DEF DelayInv, ClockInv, TimesType
<1>1. CASE Enqueues
  <2>1. PICK cmd \in Commands : EnqueueCommand(cmd)
    BY <1>1 DEF Enqueues
  <2>2. sender'.delaying = sender.delaying /\ sender'.retries = sender.retries
        /\ (sender'.state = "TX_PENDING" => sender.state = "TX_PENDING")
    BY <1>0, <2>1 DEF EnqueueCommand, Push, Sender
  <2>3. QED BY <1>0, <2>1, <2>2, QuietDelays DEF EnqueueCommand
<1>2. CASE Clear
  <2>1. /\ sender'.delaying = FALSE /\ sender'.retries = 0
    BY <1>0, <1>2 DEF Clear, ClearQueue, CancelRequest, Sender
  <2>2. lastTx' = 0 /\ nextAttempt' = 0 /\ uptime' = uptime /\ uptime \in Nat
    BY <1>0, <1>2 DEF Clear, ClockInv, TimesType
  <2>3. DeadlineOK'
    BY <2>1, <2>2, ClockAssumption DEF DeadlineOK
  <2>4. QED BY <1>0, <2>3 DEF DelayInv
<1>3. CASE Wake
  <2>1. sender'.delaying = sender.delaying /\ sender'.retries = sender.retries
        /\ sender'.state # "TX_PENDING"
    BY <1>0, <1>3 DEF Wake, Woken, Sender
  <2>2. QED BY <1>0, <1>3, <2>1, QuietDelays DEF Wake
<1>4. CASE Settle
  <2>1. sender'.delaying = sender.delaying /\ sender'.retries = sender.retries
        /\ sender'.state # "TX_PENDING"
    BY <1>0, <1>4 DEF Settle, Settled, Sender
  <2>2. QED BY <1>0, <1>4, <2>1, QuietDelays DEF Settle
<1>5. CASE Request
  <2>1. SUFFICES ASSUME uptime < Wrap \div 2 PROVE DeadlineOK'
    BY <1>0, <1>5 DEF Request, DelayInv
  <2>2. DeadlineOK /\ uptime \in Nat
    BY <1>0, <2>1 DEF DelayInv, ClockInv, TimesType
  <2>3. sender'.delaying = sender.delaying /\ sender'.retries = sender.retries
    BY <1>0, <1>5 DEF Request, Requested, Sender
  <2>4. UNCHANGED <<nextAttempt, lastTx, uptime>>
    BY <1>5 DEF Request
  <2>5. nextAttempt <= uptime
    BY <1>5, <2>1, <2>2, ReachedInHalf DEF Request, TimeReached, now, DeadlineOK
  <2>6. QED BY <2>2, <2>3, <2>4, <2>5 DEF DeadlineOK
<1>6. CASE Timeout
  BY <1>0, <1>6, TimeoutDelays
<1>7. CASE Completes
  BY <1>0, <1>7, CompleteDelays DEF Completes
<1>8. CASE LoseCompletion
  BY <1>0, <1>8, QuietDelays DEF LoseCompletion
<1>9. CASE Tick
  BY <1>0, <1>9, TickDelays
<1>10. CASE UNCHANGED vars
  BY <1>0, <1>10, QuietDelays DEF vars
<1>11. QED
  BY <1>1, <1>2, <1>3, <1>4, <1>5, <1>6, <1>7, <1>8, <1>9, <1>10 DEF Next

(* As long as the clock has not passed half its range, the bit with which  *)
(* the other modules abstract the deadline is exact: a sender delays just  *)
(* when next_attempt_ms_ lies ahead, after every handler, and also when    *)
(* the watchdog drops a command and computes the deadline from a           *)
(* transmission long ago (command_sender.h advance_queue_).                *)
THEOREM ClockDelayIsDeadline == Spec => []DelayIsDeadline
<1>1. DelayInv => DelayIsDeadline
  <2> SUFFICES ASSUME DelayInv, uptime < Wrap \div 2
               PROVE  sender.delaying <=> ~TimeReached(nextAttempt)
    BY DEF DelayIsDeadline
  <2>1. DeadlineOK /\ uptime \in Nat
    BY DEF DelayInv, ClockInv, TimesType
  <2>2. nextAttempt \in Nat /\ nextAttempt <= uptime + MAX_BACKOFF_MS
        /\ (sender.delaying <=> uptime < nextAttempt)
    BY <2>1 DEF DeadlineOK
  <2>3. TimeReached(nextAttempt) <=> nextAttempt <= uptime
    BY <2>1, <2>2, ReachedInHalf DEF TimeReached, now
  <2>4. QED BY <2>1, <2>2, <2>3
<1>2. QED BY <1>1, DelayInit, DelayStep, PTL DEF Spec

----------------------------------------------------------------------------
(* The learn-in manager.                                                   *)

Sending == {"PROGRAMMING", "CONFIRMING_UP", "CONFIRMING_DOWN"}

LearnTypeOK ==
  /\ learn \in LearnInManager
  /\ requests \in Seq(BOOLEAN)
  /\ confirmed \in Nat /\ misled \in BOOLEAN
  /\ sessions \in Nat /\ uptime \in Nat

(* A request is pending for a queued step only, a step is queued while it  *)
(* is being sent only, and fewer packets of it are sent than it takes.     *)
StepsAreSent ==
  /\ learn.pending => learn.queuedStep # NoStep
  /\ learn.queuedStep # NoStep => learn.state \in Sending /\ learn.sent < learn.packets

(* What counts as sent was confirmed, unless a completion was mistaken.    *)
SentMeansConfirmed == misled \/ (learn.state \in Sending => confirmed = learn.sent)

LearnInv == LearnTypeOK /\ StepsAreSent /\ SentMeansConfirmed

----------------------------------------------------------------------------
(* Lemmas: times, and the parts of the handlers.                           *)

LEMMA LaterType ==
  ASSUME uptime \in Nat, NEW ms \in Nat
  PROVE  now \in 0 .. Wrap - 1 /\ Later(now, ms) \in 0 .. Wrap - 1
BY ClockAssumption DEF now, Later

LEMMA BackoffType ==
  ASSUME NEW retries \in Nat
  PROVE  Backoff(retries) \in Nat
<1>1. LeastOf(retries, 3) \in {0, 1, 2, 3}
  BY DEF LeastOf
<1>2. 2 ^ LeastOf(retries, 3) \in {1, 2, 4, 8}
  <2>1. 2 ^ 0 = 1 /\ 2 ^ 1 = 2 /\ 2 ^ 2 = 4 /\ 2 ^ 3 = 8
    OBVIOUS
  <2>2. QED BY <1>1, <2>1
<1>3. INTER_PACKET_MS \in Nat /\ MAX_BACKOFF_MS \in Nat
  BY ClockAssumption
<1>4. INTER_PACKET_MS * 2 ^ LeastOf(retries, 3) \in Nat
  BY <1>2, <1>3
<1>5. QED
  <2> DEFINE b == INTER_PACKET_MS * 2 ^ LeastOf(retries, 3)
  <2>1. b \in Nat
    BY <1>4
  <2> HIDE DEF b
  <2>2. LeastOf(MAX_BACKOFF_MS, b) \in Nat
    BY <2>1, <1>3 DEF LeastOf
  <2>3. QED BY <2>2 DEF Backoff, b

LEMMA ZeroType ==
  /\ 0 \in 0 .. Wrap - 1 /\ 0 \in 0 .. LEARN_RETRIES + 1 /\ 0 \in 0 .. 255
  /\ NoStep \in Steps \cup {NoStep} /\ FALSE \in BOOLEAN
BY ClockAssumption, LearnAssumption

LEMMA ResetTransportType ==
  ASSUME NEW m \in LearnInManager
  PROVE  /\ ResetTransport(m) \in LearnInManager
         /\ ResetTransport(m).queuedStep = NoStep
         /\ ResetTransport(m).pending = FALSE
         /\ ResetTransport(m).state = m.state
BY ZeroType DEF LearnInManager, ResetTransport

LEMMA ResetAllType ==
  ASSUME NEW m \in LearnInManager
  PROVE  ResetAll(m) \in LearnInManager
<1>1. ResetTransport(m) \in LearnInManager
  BY ResetTransportType
<1>2. \A r \in LearnInManager :
        [r EXCEPT !.ignore = FALSE, !.deadline = 0, !.state = "IDLE"] \in LearnInManager
  BY ZeroType DEF LearnInManager
<1>3. QED BY <1>1, <1>2 DEF ResetAll

LEMMA QueueStepType ==
  ASSUME NEW m \in LearnInManager, NEW step \in Steps \cup {NoStep}, NEW state \in Active
  PROVE  /\ QueueStep(m, step, state) \in LearnInManager
         /\ QueueStep(m, step, state).queuedStep = step
         /\ QueueStep(m, step, state).state = state
         /\ QueueStep(m, step, state).sent = 0
         /\ QueueStep(m, step, state).packets = m.packets
         /\ QueueStep(m, step, state).pending = m.pending
<1>1. QueueStep(m, step, state) \in LearnInManager
  BY ZeroType DEF LearnInManager, QueueStep
<1>2. /\ QueueStep(m, step, state).queuedStep = step
      /\ QueueStep(m, step, state).state = state
      /\ QueueStep(m, step, state).sent = 0
      /\ QueueStep(m, step, state).packets = m.packets
  BY DEF LearnInManager, QueueStep
<1>3. QueueStep(m, step, state).pending = m.pending
  BY DEF LearnInManager, QueueStep
<1>4. QED BY <1>1, <1>2, <1>3

(* A packet that succeeded: the step goes on with one packet more sent, or *)
(* it was the last one and the next state is waited in.                    *)
LEMMA SucceededType ==
  ASSUME LearnTypeOK, StepsAreSent, learn.pending
  PROVE  /\ Succeeded \in LearnInManager
         /\ Succeeded.pending = FALSE /\ Succeeded.packets = learn.packets
         /\ \/ /\ learn.sent + 1 < learn.packets
               /\ Succeeded.state = learn.state /\ Succeeded.queuedStep = learn.queuedStep
               /\ Succeeded.sent = learn.sent + 1
            \/ /\ learn.sent + 1 = learn.packets
               /\ Succeeded.state = NextState /\ Succeeded.queuedStep = NoStep
               /\ Succeeded.state \notin Sending
<1> DEFINE m == [learn EXCEPT !.pending = FALSE, !.retries = 0, !.sent = @ + 1]
<1>1. /\ learn \in LearnInManager /\ learn.sent \in 0 .. 255 /\ learn.packets \in 1 .. 255
      /\ learn.sent < learn.packets
  BY DEF LearnTypeOK, StepsAreSent, LearnInManager
<1>2. learn.sent + 1 \in 0 .. 255
  BY <1>1
<1>3. /\ m \in LearnInManager /\ m.sent = learn.sent + 1 /\ m.packets = learn.packets
      /\ m.pending = FALSE /\ m.state = learn.state /\ m.queuedStep = learn.queuedStep
  <2>1. \A r \in LearnInManager, n \in 0 .. 255 :
          LET r2 == [r EXCEPT !.pending = FALSE, !.retries = 0, !.sent = n] IN
          /\ r2 \in LearnInManager /\ r2.sent = n /\ r2.packets = r.packets
          /\ r2.pending = FALSE /\ r2.state = r.state /\ r2.queuedStep = r.queuedStep
    BY ZeroType DEF LearnInManager
  <2>2. m = [learn EXCEPT !.pending = FALSE, !.retries = 0, !.sent = learn.sent + 1]
    BY <1>1 DEF LearnInManager
  <2>3. QED BY <1>1, <1>2, <2>1, <2>2
<1>4. Later(now, INTER_PACKET_MS) \in 0 .. Wrap - 1
  BY LaterType, ClockAssumption DEF LearnTypeOK
<1>5. NextState \in (Active \cup Terminal) \ Sending
  BY DEF NextState, Active, Terminal, Sending
<1> HIDE DEF m
<1>6. CASE m.sent < m.packets
  <2>1. [m EXCEPT !.nextAttempt = Later(now, INTER_PACKET_MS)] \in LearnInManager
    BY <1>3, <1>4 DEF LearnInManager
  <2>2. Succeeded = [m EXCEPT !.nextAttempt = Later(now, INTER_PACKET_MS)]
    BY <1>6 DEF Succeeded, m
  <2>3. QED BY <1>3, <1>6, <2>1, <2>2 DEF LearnInManager
<1>7. CASE ~(m.sent < m.packets)
  <2>1. Succeeded = [ResetTransport(m) EXCEPT !.state = NextState]
    BY <1>7 DEF Succeeded, m
  <2>2. /\ ResetTransport(m) \in LearnInManager /\ ResetTransport(m).queuedStep = NoStep
        /\ ResetTransport(m).pending = FALSE /\ ResetTransport(m).packets = m.packets
    <3>1. ResetTransport(m).packets = m.packets
      BY <1>3 DEF ResetTransport, LearnInManager
    <3>2. QED BY <1>3, <3>1, ResetTransportType
  <2>3. /\ Succeeded \in LearnInManager /\ Succeeded.queuedStep = NoStep
        /\ Succeeded.pending = FALSE /\ Succeeded.packets = m.packets
        /\ Succeeded.state = NextState
    BY <1>5, <2>1, <2>2 DEF LearnInManager
  <2>4. learn.sent + 1 = learn.packets
    <3>1. /\ m.sent = learn.sent + 1 /\ m.packets = learn.packets
          /\ learn.sent \in Int /\ learn.packets \in Int
      BY <1>1, <1>3
    <3>2. learn.sent < learn.packets
      BY <1>1
    <3>3. QED BY <1>7, <3>1, <3>2
  <2>5. QED BY <1>3, <1>5, <2>3, <2>4
<1>8. QED BY <1>6, <1>7

(* A packet that failed: the step goes on with nothing more sent, or the   *)
(* session has failed.                                                     *)
LEMMA FailedType ==
  ASSUME LearnTypeOK, StepsAreSent, learn.pending
  PROVE  /\ Failed \in LearnInManager
         /\ Failed.pending = FALSE /\ Failed.packets = learn.packets
         /\ \/ /\ Failed.state = learn.state /\ Failed.queuedStep = learn.queuedStep
               /\ Failed.sent = learn.sent
            \/ Failed.state = "FAILED" /\ Failed.queuedStep = NoStep
<1> DEFINE m == [learn EXCEPT !.pending = FALSE, !.retries = @ + 1]
<1>1. learn \in LearnInManager /\ learn.retries \in 0 .. LEARN_RETRIES + 1
  BY DEF LearnTypeOK, LearnInManager
<1>2. m = [learn EXCEPT !.pending = FALSE, !.retries = learn.retries + 1]
  BY <1>1 DEF LearnInManager
<1>3. /\ m.retries = learn.retries + 1 /\ m.sent = learn.sent /\ m.packets = learn.packets
      /\ m.pending = FALSE /\ m.state = learn.state /\ m.queuedStep = learn.queuedStep
  <2>1. \A r \in LearnInManager, n \in Int :
          LET r2 == [r EXCEPT !.pending = FALSE, !.retries = n] IN
          /\ r2.retries = n /\ r2.sent = r.sent /\ r2.packets = r.packets
          /\ r2.pending = FALSE /\ r2.state = r.state /\ r2.queuedStep = r.queuedStep
    BY DEF LearnInManager
  <2>2. learn.retries + 1 \in Int
    BY <1>1, LearnAssumption
  <2>3. QED BY <1>1, <1>2, <2>1, <2>2
<1>4. Later(now, Backoff(m.retries)) \in 0 .. Wrap - 1
  <2>1. m.retries \in Nat
    BY <1>1, <1>3, LearnAssumption
  <2>2. QED BY <2>1, BackoffType, LaterType DEF LearnTypeOK
<1>5. CASE m.retries > LEARN_RETRIES
  <2>1. Failed = [ResetTransport(m) EXCEPT !.state = "FAILED"]
    BY <1>5 DEF Failed, m
  <2>2. /\ ResetTransport(m) \in LearnInManager /\ ResetTransport(m).queuedStep = NoStep
        /\ ResetTransport(m).pending = FALSE /\ ResetTransport(m).packets = m.packets
    <3>2. ResetTransport(m) = ResetTransport(learn)
      BY <1>1, <1>2 DEF LearnInManager, ResetTransport
    <3>3. ResetTransport(learn).packets = learn.packets
      BY <1>1 DEF LearnInManager, ResetTransport
    <3>4. QED BY <1>1, <1>3, <3>2, <3>3, ResetTransportType
  <2>3. "FAILED" \in Terminal
    BY DEF Terminal
  <2>4. QED BY <1>3, <2>1, <2>2, <2>3 DEF LearnInManager
<1>6. CASE ~(m.retries > LEARN_RETRIES)
  <2>1. m.retries \in 0 .. LEARN_RETRIES + 1
    BY <1>1, <1>3, <1>6, LearnAssumption
  <2>2. m \in LearnInManager
    <3>1. \A r \in LearnInManager, n \in 0 .. LEARN_RETRIES + 1 :
            [r EXCEPT !.pending = FALSE, !.retries = n] \in LearnInManager
      BY DEF LearnInManager
    <3>2. QED BY <1>1, <1>2, <1>3, <2>1, <3>1
  <2>3. Failed = [m EXCEPT !.nextAttempt = Later(now, Backoff(m.retries))]
    BY <1>6 DEF Failed, m
  <2> HIDE DEF m
  <2>4. QED BY <1>3, <1>4, <2>2, <2>3 DEF LearnInManager
<1>7. QED BY <1>5, <1>6

LEMMA DisownedType ==
  ASSUME requests \in Seq(BOOLEAN)
  PROVE  Disowned \in Seq(BOOLEAN) /\ Len(Disowned) = Len(requests)
<1>1. Len(requests) \in Nat /\ DOMAIN requests = 1 .. Len(requests)
  BY LenProperties
<1>2. Disowned \in [1 .. Len(requests) -> BOOLEAN]
  BY <1>1 DEF Disowned
<1>3. QED BY <1>1, <1>2, SeqDef, LenProperties

(* A completion that is not the one waited for changes no state and sends  *)
(* nothing.                                                                *)
LEMMA IgnoredType ==
  ASSUME LearnTypeOK, NEW success \in BOOLEAN, ~(learn.pending /\ ~learn.ignore)
  PROVE  /\ LearnOnTxComplete(success) \in LearnInManager
         /\ LearnOnTxComplete(success).state = learn.state
         /\ LearnOnTxComplete(success).queuedStep = learn.queuedStep
         /\ LearnOnTxComplete(success).sent = learn.sent
         /\ LearnOnTxComplete(success).packets = learn.packets
         /\ LearnOnTxComplete(success).pending => learn.pending
<1> DEFINE m == [learn EXCEPT !.ignore = FALSE, !.pending = FALSE]
<1>1. learn \in LearnInManager /\ learn.pending \in BOOLEAN /\ learn.ignore \in BOOLEAN
  BY DEF LearnTypeOK, LearnInManager
<1>2. /\ m \in LearnInManager /\ m.state = learn.state /\ m.queuedStep = learn.queuedStep
      /\ m.sent = learn.sent /\ m.packets = learn.packets
  <2>1. m \in LearnInManager
    <3>1. [learn EXCEPT !.ignore = FALSE] \in LearnInManager
      BY <1>1, ZeroType DEF LearnInManager
    <3>2. \A r \in LearnInManager : [r EXCEPT !.pending = FALSE] \in LearnInManager
      BY ZeroType DEF LearnInManager
    <3>3. QED BY <3>1, <3>2
  <2>2. /\ m.state = learn.state /\ m.queuedStep = learn.queuedStep
        /\ m.sent = learn.sent /\ m.packets = learn.packets
    BY <1>1 DEF LearnInManager
  <2>3. QED BY <2>1, <2>2
<1>3. m.pending = FALSE
  BY <1>1 DEF LearnInManager
<1>4. LearnOnTxComplete(success) = m \/ LearnOnTxComplete(success) = learn
  BY <1>1 DEF LearnOnTxComplete
<1> HIDE DEF m
<1>5. QED BY <1>1, <1>2, <1>3, <1>4

LEMMA CountedIs ==
  ASSUME LearnTypeOK, learn.pending, ~learn.ignore
  PROVE  LearnOnTxComplete(TRUE) = Succeeded /\ LearnOnTxComplete(FALSE) = Failed
<1>1. learn.pending \in BOOLEAN /\ learn.ignore \in BOOLEAN
  BY DEF LearnTypeOK, LearnInManager
<1>2. QED BY <1>1 DEF LearnOnTxComplete

----------------------------------------------------------------------------
(* The invariant.                                                          *)

LEMMA LearnInitInv == LearnInit => LearnInv
<1> SUFFICES ASSUME LearnInit PROVE LearnInv
  OBVIOUS
<1>1. learn \in LearnInManager /\ uptime \in Nat
  BY ZeroType, ClockAssumption DEF LearnInit, LearnInManager
<1>2. learn.pending = FALSE
  BY DEF LearnInit
<1>3. learn.queuedStep = NoStep /\ learn.state = "IDLE"
  BY DEF LearnInit
<1>4. requests \in Seq(BOOLEAN) /\ confirmed \in Nat /\ sessions \in Nat
  BY DEF LearnInit
<1>5. misled \in BOOLEAN
  BY DEF LearnInit
<1>6. QED BY <1>1, <1>2, <1>3, <1>4, <1>5 DEF LearnInv, LearnTypeOK, StepsAreSent, SentMeansConfirmed, Sending

(* A state in which nothing is queued or pending and nothing is being sent *)
(* satisfies the invariant whatever was confirmed.                         *)
LEMMA QuietInv ==
  ASSUME LearnTypeOK', learn'.queuedStep = NoStep, learn'.pending = FALSE,
         learn'.state \notin Sending
  PROVE  LearnInv'
BY DEF LearnInv, StepsAreSent, SentMeansConfirmed

LEMMA StartInv ==
  ASSUME LearnInv, NEW packets \in PacketCounts, NEW timeout \in SessionTimeouts,
         NEW step \in {"program", NoStep}, LearnStart(packets, timeout, step)
  PROVE  LearnInv'
<1> DEFINE m == [ResetAll(learn) EXCEPT !.packets = packets, !.deadline = Later(now, timeout)]
<1>1. ResetAll(learn) \in LearnInManager
  BY ResetAllType DEF LearnInv, LearnTypeOK
<1>2. packets \in 1 .. 255 /\ timeout \in Nat
  BY LearnAssumption, ClockAssumption
<1>3. Later(now, timeout) \in 0 .. Wrap - 1
  BY <1>2, LaterType DEF LearnInv, LearnTypeOK
<1>4. m \in LearnInManager /\ m.packets = packets
  BY <1>1, <1>2, <1>3 DEF LearnInManager
<1>5. m.pending = FALSE
  <2>1. ResetAll(learn).pending = ResetTransport(learn).pending
    BY ResetTransportType DEF LearnInv, LearnTypeOK, ResetAll, LearnInManager
  <2>2. m.pending = ResetAll(learn).pending
    BY <1>1 DEF LearnInManager
  <2>3. QED BY <2>1, <2>2, ResetTransportType DEF LearnInv, LearnTypeOK
<1> HIDE DEF m
<1>6. learn' = QueueStep(m, step, "PROGRAMMING")
  BY DEF LearnStart, m
<1>7. step \in Steps \cup {NoStep} /\ "PROGRAMMING" \in Active
  BY DEF Steps, Active
<1>8. /\ learn' \in LearnInManager /\ learn'.state = "PROGRAMMING" /\ learn'.sent = 0
      /\ learn'.packets = packets /\ learn'.pending = FALSE
  BY <1>4, <1>5, <1>6, <1>7, QueueStepType
<1>9. /\ requests' = requests /\ uptime' = uptime /\ sessions' = sessions + 1
      /\ confirmed' = 0 /\ misled' = FALSE
  BY DEF LearnStart
<1>10. LearnTypeOK'
  <2>1. requests' \in Seq(BOOLEAN) /\ uptime' \in Nat /\ sessions' \in Nat /\ confirmed' \in Nat
    BY <1>9 DEF LearnInv, LearnTypeOK
  <2>2. misled' \in BOOLEAN
    BY <1>9
  <2>3. QED BY <1>8, <2>1, <2>2 DEF LearnTypeOK
<1>11. QED
  BY <1>2, <1>8, <1>9, <1>10 DEF LearnInv, StepsAreSent, SentMeansConfirmed, Sending

LEMMA ConfirmInv ==
  ASSUME LearnInv, NEW step \in {"UP", "DOWN"}, NEW waiting,
         NEW confirming \in {"CONFIRMING_UP", "CONFIRMING_DOWN"}, Confirm(step, waiting, confirming)
  PROVE  LearnInv'
<1>1. learn' = QueueStep(learn, step, confirming)
  BY DEF Confirm
<1>2. step \in Steps \cup {NoStep} /\ confirming \in Active /\ confirming \in Sending
  BY DEF Steps, Active, Sending
<1>3. learn \in LearnInManager /\ learn.packets \in 1 .. 255
  BY DEF LearnInv, LearnTypeOK, LearnInManager
<1>4. learn.pending = FALSE
  <2>1. learn.pending \in BOOLEAN /\ ~learn.pending
    BY <1>3 DEF Confirm, is_busy, LearnInManager
  <2>2. QED BY <2>1
<1>5. /\ learn' \in LearnInManager /\ learn'.state = confirming /\ learn'.sent = 0
      /\ learn'.packets = learn.packets /\ learn'.pending = FALSE
  BY <1>1, <1>2, <1>3, <1>4, QueueStepType
<1>6. /\ requests' = requests /\ uptime' = uptime /\ sessions' = sessions
      /\ confirmed' = 0 /\ misled' = misled
  BY DEF Confirm
<1>7. LearnTypeOK'
  BY <1>5, <1>6 DEF LearnInv, LearnTypeOK
<1>8. QED
  BY <1>2, <1>3, <1>5, <1>6, <1>7 DEF LearnInv, StepsAreSent, SentMeansConfirmed

(* cancel() and the session timeout.                                       *)
LEMMA EndInv ==
  ASSUME LearnInv, NEW state \in Terminal,
         learn' = [ResetTransport(learn) EXCEPT !.ignore = learn.pending, !.state = state],
         requests' = Disowned, UNCHANGED <<confirmed, misled, sessions, uptime>>
  PROVE  LearnInv'
<1>1. learn \in LearnInManager /\ learn.pending \in BOOLEAN
  BY DEF LearnInv, LearnTypeOK, LearnInManager
<1>2. /\ ResetTransport(learn) \in LearnInManager /\ ResetTransport(learn).queuedStep = NoStep
      /\ ResetTransport(learn).pending = FALSE
  BY <1>1, ResetTransportType
<1>3. \A r \in LearnInManager, b \in BOOLEAN :
        [r EXCEPT !.ignore = b, !.state = state] \in LearnInManager
  BY DEF LearnInManager
<1>4. learn' \in LearnInManager
  BY <1>1, <1>2, <1>3
<1>5. learn'.queuedStep = NoStep /\ learn'.state = state
  BY <1>2 DEF LearnInManager
<1>6. learn'.pending = FALSE
  BY <1>2 DEF LearnInManager
<1>7. LearnTypeOK'
  BY <1>4, DisownedType DEF LearnInv, LearnTypeOK
<1>8. state \notin Sending
  BY DEF Terminal, Sending
<1>9. QED BY <1>5, <1>6, <1>7, <1>8, QuietInv

(* Whatever completion is delivered: the manager stays in the state of the *)
(* step with as many packets sent, or one more if a success counted.       *)
LEMMA CompletionInv ==
  ASSUME LearnInv, NEW success \in BOOLEAN, learn' = LearnOnTxComplete(success)
  PROVE  /\ learn' \in LearnInManager
         /\ StepsAreSent'
         /\ learn'.packets = learn.packets
         /\ learn'.state \in Sending =>
              /\ learn'.state = learn.state
              /\ learn'.sent = IF success /\ learn.pending /\ ~learn.ignore
                               THEN learn.sent + 1 ELSE learn.sent
<1>1. /\ LearnTypeOK /\ StepsAreSent /\ learn \in LearnInManager
      /\ learn.pending \in BOOLEAN /\ learn.ignore \in BOOLEAN
  BY DEF LearnInv, LearnTypeOK, LearnInManager
<1>2. CASE ~(learn.pending /\ ~learn.ignore)
  <2>1. /\ learn' \in LearnInManager /\ learn'.state = learn.state
        /\ learn'.queuedStep = learn.queuedStep /\ learn'.sent = learn.sent
        /\ learn'.packets = learn.packets /\ (learn'.pending => learn.pending)
    BY <1>1, <1>2, IgnoredType
  <2>2. StepsAreSent'
    BY <1>1, <2>1 DEF StepsAreSent
  <2>3. QED BY <1>2, <2>1, <2>2
<1>3. CASE learn.pending /\ ~learn.ignore /\ success
  <2>1. learn' = Succeeded
    BY <1>1, <1>3, CountedIs
  <2>2. /\ learn' \in LearnInManager /\ learn'.pending = FALSE
        /\ learn'.packets = learn.packets
        /\ \/ /\ learn.sent + 1 < learn.packets
              /\ learn'.state = learn.state /\ learn'.queuedStep = learn.queuedStep
              /\ learn'.sent = learn.sent + 1
           \/ /\ learn'.queuedStep = NoStep /\ learn'.state \notin Sending
    BY <1>1, <1>3, <2>1, SucceededType
  <2>3. StepsAreSent'
    BY <1>1, <1>3, <2>2 DEF StepsAreSent
  <2>4. QED BY <1>3, <2>2, <2>3
<1>4. CASE learn.pending /\ ~learn.ignore /\ ~success
  <2>1. success = FALSE
    BY <1>4
  <2>2. learn' = Failed
    BY <1>1, <1>4, <2>1, CountedIs
  <2>3. /\ learn' \in LearnInManager /\ learn'.pending = FALSE
        /\ learn'.packets = learn.packets
        /\ \/ /\ learn'.state = learn.state /\ learn'.queuedStep = learn.queuedStep
              /\ learn'.sent = learn.sent
           \/ learn'.state = "FAILED" /\ learn'.queuedStep = NoStep
    BY <1>1, <1>4, <2>2, FailedType
  <2>4. "FAILED" \notin Sending
    BY DEF Sending
  <2>5. StepsAreSent'
    BY <1>1, <1>4, <2>3 DEF StepsAreSent
  <2>6. QED BY <1>4, <2>3, <2>4, <2>5
<1>5. QED BY <1>1, <1>2, <1>3, <1>4

LEMMA CompleteInv ==
  ASSUME LearnInv, NEW success \in BOOLEAN, LearnComplete(success)
  PROVE  LearnInv'
<1> DEFINE counts == learn.pending /\ ~learn.ignore
<1>1. /\ requests # <<>> /\ learn' = LearnOnTxComplete(success)
      /\ sessions' = sessions /\ uptime' = uptime
  BY DEF LearnComplete
<1>2. /\ confirmed' = IF counts /\ success /\ Head(requests) THEN confirmed + 1 ELSE confirmed
      /\ requests' = IF counts THEN Tail(Disowned) ELSE Tail(requests)
  BY DEF LearnComplete
<1>3. misled' = (misled \/ (counts /\ ~Head(requests)))
  BY DEF LearnComplete
<1>4. /\ learn' \in LearnInManager /\ StepsAreSent'
      /\ learn'.state \in Sending =>
           /\ learn'.state = learn.state
           /\ learn'.sent = IF success /\ counts THEN learn.sent + 1 ELSE learn.sent
  BY <1>1, CompletionInv
<1>5. requests \in Seq(BOOLEAN) /\ confirmed \in Nat /\ sessions \in Nat /\ uptime \in Nat
  BY DEF LearnInv, LearnTypeOK
<1>6. Tail(requests) \in Seq(BOOLEAN) /\ Head(requests) \in BOOLEAN
  BY <1>1, <1>5, HeadTailProperties
<1>7. Tail(Disowned) \in Seq(BOOLEAN)
  <2>1. Len(requests) # 0
    BY <1>1, <1>5, EmptySeq
  <2>2. Disowned \in Seq(BOOLEAN) /\ Disowned # <<>>
    BY <1>5, <2>1, DisownedType
  <2>3. QED BY <2>2, HeadTailProperties
<1>8. LearnTypeOK'
  <2>1. requests' \in Seq(BOOLEAN)
    BY <1>2, <1>6, <1>7
  <2>2. confirmed' \in Nat
    <3>1. confirmed' \in {confirmed, confirmed + 1}
      BY <1>2
    <3>2. QED BY <1>5, <3>1
  <2>3. misled' \in BOOLEAN
    BY <1>3
  <2>4. QED BY <1>1, <1>4, <1>5, <2>1, <2>2, <2>3 DEF LearnTypeOK
<1>9. SentMeansConfirmed'
  <2>1. SUFFICES ASSUME ~misled', learn'.state \in Sending
                 PROVE  confirmed' = learn'.sent
    BY DEF SentMeansConfirmed
  <2>2. ~misled /\ ~(counts /\ ~Head(requests))
    BY <1>3, <2>1
  <2>3. confirmed = learn.sent
    BY <1>4, <2>1, <2>2 DEF LearnInv, SentMeansConfirmed
  <2>4. CASE counts /\ success
    <3>1. confirmed' = confirmed + 1
      BY <1>2, <2>2, <2>4
    <3>2. learn'.sent = learn.sent + 1
      BY <1>4, <2>1, <2>4
    <3>3. QED BY <2>3, <3>1, <3>2
  <2>5. CASE ~(counts /\ success)
    <3>1. confirmed' = confirmed
      BY <1>2, <2>5
    <3>2. learn'.sent = learn.sent
      BY <1>4, <2>1, <2>5
    <3>3. QED BY <2>3, <3>1, <3>2
  <2>6. QED BY <2>4, <2>5
<1>10. QED BY <1>4, <1>8, <1>9 DEF LearnInv

LEMMA TxTimeoutInv ==
  ASSUME LearnInv, TxTimeout
  PROVE  LearnInv'
<1>1. /\ learn' = LearnOnTxComplete(FALSE) /\ requests' = Disowned
      /\ UNCHANGED <<confirmed, misled, sessions, uptime>>
  BY DEF TxTimeout
<1>2. /\ learn' \in LearnInManager /\ StepsAreSent'
      /\ learn'.state \in Sending => learn'.state = learn.state /\ learn'.sent = learn.sent
  BY <1>1, CompletionInv
<1>3. LearnTypeOK'
  BY <1>1, <1>2, DisownedType DEF LearnInv, LearnTypeOK
<1>4. SentMeansConfirmed'
  BY <1>1, <1>2 DEF LearnInv, SentMeansConfirmed
<1>5. QED BY <1>2, <1>3, <1>4 DEF LearnInv

LEMMA RequestTxInv ==
  ASSUME LearnInv, RequestTx
  PROVE  LearnInv'
<1>1. /\ learn' = [learn EXCEPT !.pending = TRUE, !.txStart = now]
      /\ requests' = Append(requests, TRUE) /\ learn.queuedStep # NoStep
      /\ UNCHANGED <<confirmed, misled, sessions, uptime>>
  BY DEF RequestTx
<1>2. learn \in LearnInManager /\ now \in 0 .. Wrap - 1
  <2>1. INTER_PACKET_MS \in Nat
    BY ClockAssumption
  <2>2. QED BY <2>1, LaterType DEF LearnInv, LearnTypeOK
<1>3. learn' \in LearnInManager
  <2>1. \A r \in LearnInManager, t \in 0 .. Wrap - 1 :
          [r EXCEPT !.pending = TRUE, !.txStart = t] \in LearnInManager
    BY DEF LearnInManager
  <2>2. QED BY <1>1, <1>2, <2>1
<1>4. /\ learn'.state = learn.state /\ learn'.queuedStep = learn.queuedStep
      /\ learn'.sent = learn.sent /\ learn'.packets = learn.packets
  BY <1>1, <1>2 DEF LearnInManager
<1>5. LearnTypeOK'
  <2>1. requests' \in Seq(BOOLEAN)
    BY <1>1 DEF LearnInv, LearnTypeOK
  <2>2. QED BY <1>1, <1>3, <2>1 DEF LearnInv, LearnTypeOK
<1>6. StepsAreSent'
  BY <1>1, <1>4 DEF LearnInv, StepsAreSent
<1>7. SentMeansConfirmed'
  BY <1>1, <1>4 DEF LearnInv, SentMeansConfirmed
<1>8. QED BY <1>5, <1>6, <1>7 DEF LearnInv

LEMMA LearnStepInv == LearnInv /\ [LearnNext]_learnVars => LearnInv'
<1> SUFFICES ASSUME LearnInv, [LearnNext]_learnVars PROVE LearnInv'
  OBVIOUS
<1>1. CASE LearnStarts
  BY <1>1, StartInv DEF LearnStarts
<1>2. CASE ConfirmUp
  BY <1>2, ConfirmInv DEF ConfirmUp
<1>3. CASE ConfirmDown
  BY <1>3, ConfirmInv DEF ConfirmDown
<1>4. CASE LearnCancel
  <2>1. "CANCELLED" \in Terminal
    BY DEF Terminal
  <2>2. QED BY <1>4, <2>1, EndInv DEF LearnCancel
<1>5. CASE \E success \in BOOLEAN : LearnComplete(success)
  BY <1>5, CompleteInv
<1>6. CASE LearnLose
  <2>1. /\ requests' = Tail(requests) /\ requests # <<>>
        /\ UNCHANGED <<learn, confirmed, misled, sessions, uptime>>
    BY <1>6 DEF LearnLose
  <2>2. Tail(requests) \in Seq(BOOLEAN)
    BY <2>1, HeadTailProperties DEF LearnInv, LearnTypeOK
  <2>3. LearnTypeOK' /\ StepsAreSent'
    BY <2>1, <2>2 DEF LearnInv, LearnTypeOK, StepsAreSent
  <2>4. SentMeansConfirmed'
    BY <2>1 DEF LearnInv, SentMeansConfirmed
  <2>5. QED BY <2>3, <2>4 DEF LearnInv
<1>7. CASE SessionTimeout
  <2>1. "TIMED_OUT" \in Terminal
    BY DEF Terminal
  <2>2. QED BY <1>7, <2>1, EndInv DEF SessionTimeout
<1>8. CASE TxTimeout
  BY <1>8, TxTimeoutInv
<1>9. CASE RequestTx
  BY <1>9, RequestTxInv
<1>10. CASE LearnTick
  <2>1. /\ UNCHANGED <<learn, requests, confirmed, misled, sessions>> /\ uptime' = uptime + 1
    BY <1>10 DEF LearnTick
  <2>2. LearnTypeOK' /\ StepsAreSent'
    BY <2>1 DEF LearnInv, LearnTypeOK, StepsAreSent
  <2>3. SentMeansConfirmed'
    BY <2>1 DEF LearnInv, SentMeansConfirmed
  <2>4. QED BY <2>2, <2>3 DEF LearnInv
<1>11. CASE UNCHANGED learnVars
  <2>1. UNCHANGED <<learn, requests, confirmed, misled, sessions, uptime>>
    BY <1>11 DEF learnVars
  <2>2. LearnTypeOK' /\ StepsAreSent'
    BY <2>1 DEF LearnInv, LearnTypeOK, StepsAreSent
  <2>3. SentMeansConfirmed'
    BY <2>1 DEF LearnInv, SentMeansConfirmed
  <2>4. QED BY <2>2, <2>3 DEF LearnInv
<1>12. QED
  BY <1>1, <1>2, <1>3, <1>4, <1>5, <1>6, <1>7, <1>8, <1>9, <1>10, <1>11 DEF LearnNext

(* In every state the fields of the manager have their types, a request is *)
(* pending for a step that is being sent only, and what counts as sent was *)
(* confirmed (LearnInManager's fields and their invariant, which the two   *)
(* theorems below rest on).                                                *)
THEOREM LearnInvariant == LearnSpec => []LearnInv
<1>1. QED BY LearnInitInv, LearnStepInv, PTL DEF LearnSpec

----------------------------------------------------------------------------
(* The action properties.                                                  *)

LEMMA EndsStayStep ==
  ASSUME LearnInv, [LearnNext]_learnVars, learn.state \in Terminal
  PROVE  /\ Len(requests') <= Len(requests)
         /\ learn'.state \in {learn.state, "CANCELLED"} \/ sessions' > sessions
<1>1. /\ requests \in Seq(BOOLEAN) /\ Len(requests) \in Nat /\ sessions \in Nat
      /\ learn \in LearnInManager
  BY LenProperties DEF LearnInv, LearnTypeOK
<1>2. learn.pending \in BOOLEAN /\ learn.queuedStep = NoStep /\ ~learn.pending
  <2>1. learn.state \notin Sending
    BY DEF Terminal, Sending
  <2>2. learn.pending \in BOOLEAN
    BY <1>1 DEF LearnInManager
  <2>3. QED BY <2>1, <2>2 DEF LearnInv, StepsAreSent
<1>3. learn.state \notin Active
  BY DEF Terminal, Active
<1>4. requests # <<>> => Len(Tail(requests)) <= Len(requests)
  BY <1>1, HeadTailProperties
<1>5. CASE LearnStarts
  BY <1>1, <1>5 DEF LearnStarts, LearnStart
<1>6. CASE ConfirmUp \/ ConfirmDown
  BY <1>6 DEF ConfirmUp, ConfirmDown, Confirm, Terminal
<1>7. CASE LearnCancel
  <2>1. learn' = [ResetTransport(learn) EXCEPT !.ignore = learn.pending, !.state = "CANCELLED"]
    BY <1>7 DEF LearnCancel
  <2>2. learn'.state = "CANCELLED"
    BY <1>1, <2>1, ResetTransportType DEF LearnInManager
  <2>3. QED BY <1>1, <1>7, <2>2, DisownedType DEF LearnCancel
<1>8. CASE \E success \in BOOLEAN : LearnComplete(success)
  <2>1. PICK success \in BOOLEAN : LearnComplete(success)
    BY <1>8
  <2>2. learn' = LearnOnTxComplete(success) /\ requests # <<>> /\ requests' = Tail(requests)
    BY <1>2, <2>1 DEF LearnComplete
  <2>3. learn'.state = learn.state
    BY <1>2, <2>2, IgnoredType DEF LearnInv
  <2>4. QED BY <1>4, <2>2, <2>3
<1>9. CASE LearnLose
  BY <1>4, <1>9 DEF LearnLose
<1>10. CASE SessionTimeout
  BY <1>3, <1>10 DEF SessionTimeout, Expired
<1>11. CASE TxTimeout
  BY <1>2, <1>11 DEF TxTimeout
<1>12. CASE RequestTx
  BY <1>2, <1>12 DEF RequestTx
<1>13. CASE LearnTick
  BY <1>1, <1>13 DEF LearnTick
<1>14. CASE UNCHANGED learnVars
  BY <1>1, <1>14 DEF learnVars
<1>15. QED
  BY <1>5, <1>6, <1>7, <1>8, <1>9, <1>10, <1>11, <1>12, <1>13, <1>14 DEF LearnNext

(* What has ended stays ended: after COMPLETE, FAILED, CANCELLED or        *)
(* TIMED_OUT no completion, however late, and no timeout sends anything or *)
(* changes the state (learn_in_manager.cpp on_tx_complete, loop).          *)
THEOREM LearnEndsStay == LearnSpec => EndsStay
<1>1. LearnInv /\ [LearnNext]_learnVars =>
        [learn.state \in Terminal =>
           /\ Len(requests') <= Len(requests)
           /\ \/ learn'.state \in {learn.state, "CANCELLED"}
              \/ sessions' > sessions]_learnVars
  BY EndsStayStep
<1>2. QED BY <1>1, LearnInvariant, PTL DEF LearnSpec, EndsStay

LEMMA StayingIsNoAdvance ==
  ASSUME learn'.state \in {learn.state, "PROGRAMMING", "CONFIRMING_UP", "CONFIRMING_DOWN",
                           "FAILED", "CANCELLED", "TIMED_OUT"}
  PROVE  ~Advances
BY DEF Advances

(* The success that takes a step as done is the last one it needed.        *)
LEMMA CompleteAdvances ==
  ASSUME LearnInv, NEW success \in BOOLEAN, LearnComplete(success), Advances, ~misled'
  PROVE  confirmed' = learn.packets
<1> DEFINE counts == learn.pending /\ ~learn.ignore
<1>1. /\ LearnTypeOK /\ StepsAreSent /\ learn' = LearnOnTxComplete(success)
      /\ learn.pending \in BOOLEAN /\ learn.ignore \in BOOLEAN
  BY DEF LearnInv, LearnTypeOK, LearnInManager, LearnComplete
<1>2. counts
  <2>1. SUFFICES ASSUME ~counts PROVE FALSE
    OBVIOUS
  <2>2. learn'.state = learn.state
    BY <1>1, <2>1, IgnoredType
  <2>3. QED BY <2>2, StayingIsNoAdvance
<1>3. success
  <2>1. SUFFICES ASSUME ~success PROVE FALSE
    OBVIOUS
  <2>2. success = FALSE
    BY <2>1
  <2>3. learn' = Failed
    BY <1>1, <1>2, <2>2, CountedIs
  <2>4. learn'.state \in {learn.state, "FAILED"}
    BY <1>1, <1>2, <2>3, FailedType
  <2>5. QED BY <2>4, StayingIsNoAdvance
<1>4. learn.sent + 1 = learn.packets
  <2>1. success = TRUE
    BY <1>3
  <2>2. learn' = Succeeded
    BY <1>1, <1>2, <2>1, CountedIs
  <2>3. learn'.state = learn.state \/ learn.sent + 1 = learn.packets
    BY <1>1, <1>2, <2>2, SucceededType
  <2>4. QED BY <2>3, StayingIsNoAdvance
<1>5. misled' = (misled \/ (counts /\ ~Head(requests)))
  BY DEF LearnComplete
<1>6. Head(requests) /\ ~misled
  BY <1>2, <1>5
<1>7. confirmed' = confirmed + 1
  BY <1>2, <1>3, <1>6 DEF LearnComplete
<1>8. confirmed = learn.sent
  BY <1>1, <1>2, <1>6 DEF LearnInv, StepsAreSent, SentMeansConfirmed
<1>9. QED BY <1>4, <1>7, <1>8

LEMMA ConfirmedStepsStep ==
  ASSUME LearnInv, [LearnNext]_learnVars, Advances
  PROVE  misled' \/ confirmed' = learn.packets
<1>1. learn \in LearnInManager
  BY DEF LearnInv, LearnTypeOK
<1>2. CASE LearnStarts
  <2>1. PICK packets \in PacketCounts, timeout \in SessionTimeouts, step \in {"program", NoStep} :
          LearnStart(packets, timeout, step)
    BY <1>2 DEF LearnStarts
  <2> DEFINE m == [ResetAll(learn) EXCEPT !.packets = packets, !.deadline = Later(now, timeout)]
  <2>2. m \in LearnInManager
    <3>1. ResetAll(learn) \in LearnInManager /\ packets \in 1 .. 255
      BY <1>1, ResetAllType, LearnAssumption
    <3>2. timeout \in Nat
      BY LearnAssumption, ClockAssumption
    <3>3. Later(now, timeout) \in 0 .. Wrap - 1
      BY <3>2, LaterType DEF LearnInv, LearnTypeOK
    <3>4. QED BY <3>1, <3>3 DEF LearnInManager
  <2>3. learn' = QueueStep(m, step, "PROGRAMMING")
    BY <2>1 DEF LearnStart
  <2> HIDE DEF m
  <2>4. learn'.state = "PROGRAMMING"
    BY <2>2, <2>3, QueueStepType DEF Steps, Active
  <2>5. QED BY <2>4, StayingIsNoAdvance
<1>3. CASE ConfirmUp \/ ConfirmDown
  <2>1. \E step \in Steps, state \in {"CONFIRMING_UP", "CONFIRMING_DOWN"} :
          learn' = QueueStep(learn, step, state)
    BY <1>3 DEF ConfirmUp, ConfirmDown, Confirm, Steps
  <2>2. learn'.state \in {"CONFIRMING_UP", "CONFIRMING_DOWN"}
    <3>1. PICK step \in Steps, state \in {"CONFIRMING_UP", "CONFIRMING_DOWN"} :
            learn' = QueueStep(learn, step, state)
      BY <2>1
    <3>2. state \in Active /\ step \in Steps \cup {NoStep}
      BY DEF Active
    <3>3. QED BY <1>1, <3>1, <3>2, QueueStepType
  <2>3. QED BY <2>2, StayingIsNoAdvance
<1>4. CASE LearnCancel \/ SessionTimeout
  <2>1. \E state \in {"CANCELLED", "TIMED_OUT"} :
          learn' = [ResetTransport(learn) EXCEPT !.ignore = learn.pending, !.state = state]
    BY <1>4 DEF LearnCancel, SessionTimeout
  <2>2. learn'.state \in {"CANCELLED", "TIMED_OUT"}
    BY <1>1, <2>1, ResetTransportType DEF LearnInManager
  <2>3. QED BY <2>2, StayingIsNoAdvance
<1>5. CASE \E success \in BOOLEAN : LearnComplete(success)
  BY <1>5, CompleteAdvances
<1>6. CASE TxTimeout
  <2>1. LearnTypeOK /\ StepsAreSent /\ learn' = LearnOnTxComplete(FALSE) /\ learn.pending
    BY <1>6 DEF LearnInv, TxTimeout
  <2>2. CASE learn.ignore
    <3>1. learn'.state = learn.state
      BY <2>1, <2>2, IgnoredType
    <3>2. QED BY <3>1, StayingIsNoAdvance
  <2>3. CASE ~learn.ignore
    <3>1. learn' = Failed
      BY <2>1, <2>3, CountedIs
    <3>2. learn'.state \in {learn.state, "FAILED"}
      BY <2>1, <3>1, FailedType
    <3>3. QED BY <3>2, StayingIsNoAdvance
  <2>4. QED BY <2>2, <2>3
<1>7. CASE RequestTx
  <2>1. learn'.state = learn.state
    BY <1>1, <1>7 DEF RequestTx, LearnInManager
  <2>2. QED BY <2>1, StayingIsNoAdvance
<1>8. CASE LearnLose \/ LearnTick \/ UNCHANGED learnVars
  <2>1. learn'.state = learn.state
    BY <1>8 DEF LearnLose, LearnTick, learnVars
  <2>2. QED BY <2>1, StayingIsNoAdvance
<1>9. QED
  BY <1>2, <1>3, <1>4, <1>5, <1>6, <1>7, <1>8 DEF LearnNext

(* A step that was taken as done was sent packets_per_step_ times with     *)
(* success by requests of this step, unless a completion that came late    *)
(* was taken for a later request's (learn_in_manager.cpp on_tx_complete).  *)
THEOREM LearnStepsAreConfirmed == LearnSpec => ConfirmedSteps
<1>1. LearnInv /\ [LearnNext]_learnVars =>
        [Advances => misled' \/ confirmed' = learn.packets]_learnVars
  BY ConfirmedStepsStep
<1>2. QED BY <1>1, LearnInvariant, PTL DEF LearnSpec, ConfirmedSteps

----------------------------------------------------------------------------
(* The lights.                                                             *)

----------------------------------------------------------------------------
(* The states of a light: one that dims has its target ahead of it.        *)
DimmingStates ==
  {s \in [is : {"DimmingUp"}, from : Level, target : 1 .. DIM, ticks : Level] : s.from < s.target}
    \cup {s \in [is : {"DimmingDown"}, from : Level, target : 1 .. DIM, ticks : Level] : s.from > s.target}

LightStates == {LightOff} \cup {LightOn(b) : b \in 1 .. DIM} \cup DimmingStates

(* What DimsSmoothly says of a light that goes from s to t.                *)
Smooth(s, t) == Near(Brightness(t), Brightness(s)) \/ t \in {OnTurnOn, OnTurnOff}

(* A state is off, on, or dims in one of two directions.                   *)
LEMMA StateCases ==
  ASSUME NEW s \in LightStates
  PROVE  \/ s = LightOff /\ s.is = "Off"
         \/ \E b \in 1 .. DIM : s = LightOn(b) /\ s.is = "On" /\ s.at = b
         \/ /\ s \in [is : {"DimmingUp"}, from : Level, target : 1 .. DIM, ticks : Level]
            /\ s.is = "DimmingUp" /\ s.from < s.target
         \/ /\ s \in [is : {"DimmingDown"}, from : Level, target : 1 .. DIM, ticks : Level]
            /\ s.is = "DimmingDown" /\ s.from > s.target
BY DEF LightStates, DimmingStates, LightOff, LightOn

(* What the state machine makes without dimming are states.                *)
LEMMA StateKinds ==
  ASSUME NEW b \in 1 .. DIM
  PROVE  LightOff \in LightStates /\ LightOn(b) \in LightStates /\ LightOn(DIM) \in LightStates
BY LightAssumption DEF LightStates

(* The brightness of a state is a level.                                   *)
LEMMA BrightnessType ==
  ASSUME NEW s \in LightStates
  PROVE  Brightness(s) \in Level
<1>1. DIM \in Nat \ {0}
  BY LightAssumption
<1>2. CASE s = LightOff /\ s.is = "Off"
  BY <1>1, <1>2 DEF Brightness, Level
<1>3. CASE \E b \in 1 .. DIM : s = LightOn(b) /\ s.is = "On" /\ s.at = b
  BY <1>1, <1>3 DEF Brightness, Level
<1>4. CASE /\ s \in [is : {"DimmingUp"}, from : Level, target : 1 .. DIM, ticks : Level]
           /\ s.is = "DimmingUp" /\ s.from < s.target
  BY <1>1, <1>4 DEF Brightness, Level
<1>5. CASE /\ s \in [is : {"DimmingDown"}, from : Level, target : 1 .. DIM, ticks : Level]
           /\ s.is = "DimmingDown" /\ s.from > s.target
  BY <1>1, <1>5 DEF Brightness, Level
<1>6. QED BY <1>2, <1>3, <1>4, <1>5, StateCases

(* Dimming begins at the brightness it starts from.                        *)
LEMMA DimmingStarts ==
  ASSUME NEW present \in Level, NEW b \in 1 .. DIM
  PROVE  /\ present < b => /\ DimmingUp(present, b) \in LightStates /\ DimmingUp(present, b).is = "DimmingUp"
                       /\ Brightness(DimmingUp(present, b)) = present
         /\ present > b => /\ DimmingDown(present, b) \in LightStates /\ DimmingDown(present, b).is = "DimmingDown"
                       /\ Brightness(DimmingDown(present, b)) = present
         /\ LightOn(b) \in LightStates /\ LightOn(b).is = "On" /\ Brightness(LightOn(b)) = b
<1>1. DIM \in Nat \ {0}
  BY LightAssumption
<1>2. ASSUME present < b
      PROVE  /\ DimmingUp(present, b) \in LightStates /\ DimmingUp(present, b).is = "DimmingUp"
             /\ Brightness(DimmingUp(present, b)) = present
  <2>1. PICK s : s = DimmingUp(present, b)
    OBVIOUS
  <2>2. /\ s \in [is : {"DimmingUp"}, from : Level, target : 1 .. DIM, ticks : Level]
        /\ s.is = "DimmingUp" /\ s.from = present /\ s.target = b /\ s.ticks = 0
    BY <1>1, <2>1 DEF DimmingUp, Level
  <2>3. Brightness(s) = present
    BY <1>1, <1>2, <2>2 DEF Brightness, Level
  <2>4. s \in LightStates
    BY <1>2, <2>2 DEF LightStates, DimmingStates
  <2>5. QED BY <2>1, <2>2, <2>3, <2>4
<1>3. ASSUME present > b
      PROVE  /\ DimmingDown(present, b) \in LightStates /\ DimmingDown(present, b).is = "DimmingDown"
             /\ Brightness(DimmingDown(present, b)) = present
  <2>1. PICK s : s = DimmingDown(present, b)
    OBVIOUS
  <2>2. /\ s \in [is : {"DimmingDown"}, from : Level, target : 1 .. DIM, ticks : Level]
        /\ s.is = "DimmingDown" /\ s.from = present /\ s.target = b /\ s.ticks = 0
    BY <1>1, <2>1 DEF DimmingDown, Level
  <2>3. Brightness(s) = present
    BY <1>1, <1>3, <2>2 DEF Brightness, Level
  <2>4. s \in LightStates
    BY <1>3, <2>2 DEF LightStates, DimmingStates
  <2>5. QED BY <2>1, <2>2, <2>3, <2>4
<1>4. LightOn(b) \in LightStates /\ LightOn(b).is = "On" /\ Brightness(LightOn(b)) = b
  BY DEF LightStates, LightOn, Brightness
<1>5. QED BY <1>2, <1>3, <1>4

(* A new brightness starts from the present one.                           *)
LEMMA SetType ==
  ASSUME NEW s \in LightStates, NEW b \in Requests, b # 0,
         NEW next, next = OnSetBrightness(s, b, TRUE)
  PROVE  /\ next \in LightStates /\ Smooth(s, next)
         /\ next.is \in {"Off", "On", "DimmingUp", "DimmingDown"}
<1>1. PICK present : present = Brightness(s)
  OBVIOUS
<1>2. DIM \in Nat \ {0} /\ present \in Level /\ present - present = 0 /\ (b = -1 \/ b \in 1 .. DIM)
  BY <1>1, LightAssumption, BrightnessType DEF Requests, Level, Glimmer
<1>3. CASE b = -1
  <2>1. next = LightOff
    BY <1>3 DEF OnSetBrightness
  <2>2. LightOff \in LightStates /\ LightOff.is = "Off"
    BY DEF LightStates, LightOff
  <2>3. QED BY <2>1, <2>2 DEF Smooth, OnTurnOff
<1>4. CASE b \in 1 .. DIM /\ b = present
  <2>1. next = LightOn(b)
    BY <1>1, <1>2, <1>4 DEF OnSetBrightness
  <2>2. next \in LightStates /\ next.is = "On" /\ Brightness(next) = present
    BY <1>2, <1>4, <2>1, DimmingStarts
  <2>3. QED BY <1>1, <1>2, <2>2 DEF Smooth, Near
<1>5. CASE b \in 1 .. DIM /\ b > present
  <2>1. next = DimmingUp(present, b)
    BY <1>1, <1>2, <1>5 DEF OnSetBrightness, Level
  <2>2. present < b
    BY <1>2, <1>5 DEF Level
  <2>3. next \in LightStates /\ next.is = "DimmingUp" /\ Brightness(next) = present
    <3>1. present \in Level /\ b \in 1 .. DIM
      BY <1>2, <1>5
    <3>2. DimmingUp(present, b) \in LightStates /\ DimmingUp(present, b).is = "DimmingUp" /\ Brightness(DimmingUp(present, b)) = present
      BY <2>2, <3>1, DimmingStarts
    <3>3. QED BY <2>1, <3>2
  <2>4. QED BY <1>1, <1>2, <2>3 DEF Smooth, Near
<1>6. CASE b \in 1 .. DIM /\ b < present
  <2>1. next = DimmingDown(present, b)
    BY <1>1, <1>2, <1>6 DEF OnSetBrightness, Level
  <2>2. present > b
    BY <1>2, <1>6 DEF Level
  <2>3. next \in LightStates /\ next.is = "DimmingDown" /\ Brightness(next) = present
    <3>1. present \in Level /\ b \in 1 .. DIM
      BY <1>2, <1>6
    <3>2. DimmingDown(present, b) \in LightStates /\ DimmingDown(present, b).is = "DimmingDown" /\ Brightness(DimmingDown(present, b)) = present
      BY <2>2, <3>1, DimmingStarts
    <3>3. QED BY <2>1, <3>2
  <2>4. QED BY <1>1, <1>2, <2>3 DEF Smooth, Near
<1>7. b \in 1 .. DIM => b = present \/ b > present \/ b < present
  BY <1>2 DEF Level
<1>8. QED BY <1>2, <1>3, <1>4, <1>5, <1>6, <1>7

(* Time and the loop leave the target as it was.                           *)
LEMMA AgedType ==
  ASSUME NEW s \in LightStates
  PROVE  /\ Aged(s) \in LightStates /\ Smooth(s, Aged(s))
         /\ \A x : Follows(Aged(s), x) <=> Follows(s, x)
<1>1. DIM \in Nat \ {0}
  BY LightAssumption
<1>2. CASE s.is \in {"Off", "On"}
  <2>1. Aged(s) = s
    BY <1>2 DEF Aged, is_dimming, Dims
  <2>2. Brightness(s) - Brightness(s) = 0
    BY BrightnessType, <1>1 DEF Level
  <2>3. QED BY <2>1, <2>2 DEF Smooth, Near
<1>3. CASE /\ s \in [is : {"DimmingUp"}, from : Level, target : 1 .. DIM, ticks : Level]
           /\ s.is = "DimmingUp" /\ s.from < s.target
  <2>1. Aged(s) = IF s.ticks < DIM THEN [s EXCEPT !.ticks = s.ticks + 1] ELSE s
    BY <1>3 DEF Aged, is_dimming, Dims
  <2>2. /\ Aged(s) \in [is : {"DimmingUp"}, from : Level, target : 1 .. DIM, ticks : Level]
        /\ Aged(s).is = "DimmingUp" /\ Aged(s).from = s.from /\ Aged(s).target = s.target
        /\ Aged(s).ticks \in {s.ticks, s.ticks + 1}
    BY <1>1, <1>3, <2>1 DEF Level
  <2>3. Aged(s) \in LightStates
    BY <1>3, <2>2 DEF LightStates, DimmingStates
  <2>4. Near(Brightness(Aged(s)), Brightness(s))
    BY <1>1, <1>3, <2>2 DEF Near, Brightness, Level
  <2>5. QED BY <1>3, <2>2, <2>3, <2>4 DEF Smooth, Follows
<1>4. CASE /\ s \in [is : {"DimmingDown"}, from : Level, target : 1 .. DIM, ticks : Level]
           /\ s.is = "DimmingDown" /\ s.from > s.target
  <2>1. Aged(s) = IF s.ticks < DIM THEN [s EXCEPT !.ticks = s.ticks + 1] ELSE s
    BY <1>4 DEF Aged, is_dimming, Dims
  <2>2. /\ Aged(s) \in [is : {"DimmingDown"}, from : Level, target : 1 .. DIM, ticks : Level]
        /\ Aged(s).is = "DimmingDown" /\ Aged(s).from = s.from /\ Aged(s).target = s.target
        /\ Aged(s).ticks \in {s.ticks, s.ticks + 1}
    BY <1>1, <1>4, <2>1 DEF Level
  <2>3. Aged(s) \in LightStates
    BY <1>4, <2>2 DEF LightStates, DimmingStates
  <2>4. Near(Brightness(Aged(s)), Brightness(s))
    BY <1>1, <1>4, <2>2 DEF Near, Brightness, Level
  <2>5. QED BY <1>4, <2>2, <2>3, <2>4 DEF Smooth, Follows
<1>5. QED BY <1>2, <1>3, <1>4, StateCases

(* The loop ends the dimming where it is.                                  *)
LEMMA TickType ==
  ASSUME NEW s \in LightStates
  PROVE  /\ OnTick(s) \in LightStates /\ Smooth(s, OnTick(s))
         /\ OnTick(s) # s => Follows(OnTick(s), "RELEASE")
<1>1. CASE OnTick(s) = s
  <2>1. Brightness(s) - Brightness(s) = 0
    BY BrightnessType, LightAssumption DEF Level
  <2>2. QED BY <1>1, <2>1 DEF Smooth, Near
<1>2. CASE OnTick(s) # s
  <2>1. is_dimming(s) /\ Brightness(s) = s.target /\ OnTick(s) = LightOn(s.target)
    BY <1>2 DEF OnTick
  <2>2. s.target \in 1 .. DIM
    BY <2>1, StateCases DEF is_dimming, Dims
  <2>3. Brightness(LightOn(s.target)) = s.target /\ LightOn(s.target).is = "On"
    BY DEF Brightness, LightOn
  <2>4. s.target - s.target = 0
    BY <2>2, LightAssumption
  <2>5. QED BY <2>1, <2>2, <2>3, <2>4 DEF Smooth, Near, Follows, LightStates
<1>3. QED BY <1>1, <1>2

----------------------------------------------------------------------------
(* Lemmas: the lead of a remote.                                           *)

(* A set of numbers has a least one.                                       *)
LEMMA LeastOfNat ==
  ASSUME NEW S \in SUBSET Nat, S # {}
  PROVE  \E x \in S : \A y \in S : x <= y
<1> DEFINE R == {p \in Nat \X Nat : p[1] < p[2]}
<1>1. IsWellFoundedOn(R, Nat)
  <2>1. OpToRel(<, Nat) = R
    BY DEF OpToRel
  <2>2. QED BY <2>1, NatLessThanWellFounded
<1>2. \E x \in S : \A y \in S : <<y, x>> \notin R
  <2> HIDE DEF R
  <2>1. QED BY <1>1, WFMin
<1>3. \A x, y \in Nat : <<y, x>> \notin R => x <= y
  OBVIOUS
<1> HIDE DEF R
<1>4. QED BY <1>2, <1>3

(* The lead is one light for all lights of its remote, and one of them.    *)
LEMMA LeadIs ==
  ASSUME NEW l \in Lights
  PROVE  /\ l \in OfRemote(l) /\ Lead(l) \in OfRemote(l) /\ Lead(l) \in Lights
         /\ \A k \in OfRemote(l) : k \in Lights /\ OfRemote(k) = OfRemote(l) /\ Lead(k) = Lead(l)
<1>1. \A k \in OfRemote(l) : k \in Lights /\ OfRemote(k) = OfRemote(l) /\ Lead(k) = Lead(l)
  <2>1. \A k \in OfRemote(l) : k \in Lights /\ OfRemote(k) = OfRemote(l)
    BY DEF OfRemote
  <2>2. QED BY <2>1 DEF Lead
<1>2. DOMAIN LightMembers = 1 .. Len(LightMembers) /\ Len(LightMembers) \in Nat
  BY LightsAssumption
<1> DEFINE S == {k \in DOMAIN LightMembers : LightMembers[k] \in OfRemote(l)}
<1>3. S \in SUBSET Nat /\ S # {}
  <2>1. PICK k \in DOMAIN LightMembers : LightMembers[k] = l
    BY LightsAssumption
  <2>2. k \in S
    BY <2>1 DEF OfRemote
  <2>3. QED BY <1>2, <2>2
<1>4. PICK k \in S : \A j \in S : k <= j
  <2> HIDE DEF S
  <2>1. QED BY <1>3, LeastOfNat
<1>5. IsLead(k)
  <2>1. \A j \in 1 .. k - 1 : j \in DOMAIN LightMembers /\ ~(k <= j)
    BY <1>2
  <2>2. \A j \in DOMAIN LightMembers : LightMembers[j] \in Lights
    BY LightsAssumption
  <2>3. \A j \in 1 .. k - 1 : LightMembers[j] \notin OfRemote(l)
    BY <1>4, <2>1
  <2>4. QED BY <2>1, <2>2, <2>3 DEF IsLead, OfRemote
<1>6. Lead(l) \in OfRemote(l)
  BY <1>4, <1>5 DEF Lead
<1>7. QED BY <1>1, <1>6 DEF OfRemote

----------------------------------------------------------------------------
(* The invariant.                                                          *)

Heard == LightButtons \cup {"none"}
LightRecord ==
  [state : LightStates, queue : Seq(LightCommands), dests : SUBSET Lights,
   heard : Heard, excused : BOOLEAN]
Houses == [Lights -> LightRecord]

(* Destinations are stored with the lead of their remote, and are gone     *)
(* before its queue is empty.                                              *)
Parted(h) ==
  \A l \in Lights : h[l].dests # {} => l = Lead(l) /\ h[l].dests = OfRemote(l) /\ h[l].queue # <<>>

(* The last button of q, or the one heard before if there is none.         *)
Checks(q) == \A k \in DOMAIN q : q[k] = "CHECK"
Ends(q, heard, x) ==
  \/ x = heard /\ Checks(q)
  \/ x # "CHECK" /\ \E k \in DOMAIN q : q[k] = x /\ \A j \in DOMAIN q : j > k => q[j] = "CHECK"

(* A light that nothing excuses is estimated as it will be when its queue  *)
(* is empty; while a group command is under way, that command is the first *)
(* of the lead's queue and nothing else is to be sent.                     *)
Promised(h, l) ==
  IF h[Lead(l)].dests = {}
  THEN \E x \in Heard : Ends(h[l].queue, h[l].heard, x) /\ Follows(h[l].state, x)
  ELSE /\ h[Lead(l)].queue[1] \in {"UP", "DOWN"} /\ Follows(h[l].state, h[Lead(l)].queue[1])
       /\ \A j \in DOMAIN h[l].queue : (j = 1 /\ l = Lead(l)) \/ h[l].queue[j] = "CHECK"

HouseOK(h) ==
  h \in Houses /\ Parted(h) /\ \A l \in Lights : ~h[l].excused => Promised(h, l)

(* What DimsSmoothly says of all lights.                                   *)
AllSmooth(h, g) == \A l \in Lights : Smooth(h[l].state, g[l].state)

(* Whether a light is entangled is seen at the lead of its remote.         *)
LEMMA EntangledIs ==
  ASSUME NEW h \in Houses, Parted(h), NEW l \in Lights
  PROVE  Entangled(h, l) <=> h[Lead(l)].dests # {}
<1>1. ASSUME h[Lead(l)].dests # {} PROVE Entangled(h, l)
  <2>1. h[Lead(l)].dests = OfRemote(l)
    BY <1>1, LeadIs DEF Parted
  <2>2. QED BY <2>1, LeadIs DEF Entangled
<1>2. ASSUME Entangled(h, l) PROVE h[Lead(l)].dests # {}
  <2>1. CASE h[l].dests # {}
    BY <2>1 DEF Parted
  <2>2. CASE \E k \in Lights : l \in h[k].dests
    <3>1. PICK k \in Lights : l \in h[k].dests
      BY <2>2
    <3>2. k = Lead(k) /\ l \in OfRemote(k)
      BY <3>1 DEF Parted
    <3>3. Lead(l) = k
      BY <3>2, LeadIs
    <3>4. QED BY <3>1, <3>3
  <2>3. QED BY <1>2, <2>1, <2>2 DEF Entangled
<1>3. QED BY <1>1, <1>2

(* A light whose state stays does not jump.                                *)
LEMMA SameSmooth ==
  ASSUME NEW s \in LightStates
  PROVE  Smooth(s, s)
<1>1. Brightness(s) - Brightness(s) = 0
  BY BrightnessType, LightAssumption DEF Level
<1>2. QED BY <1>1 DEF Smooth, Near

----------------------------------------------------------------------------
(* Lemmas: queues.                                                         *)

(* A command is refused, is there already, or is appended.                 *)
LEMMA QueuedIs ==
  ASSUME NEW q \in Seq(LightCommands), NEW cmd \in LightCommands
  PROVE  /\ Queued(q, cmd) \in Seq(LightCommands)
         /\ Queued(q, cmd) = q \/ Queued(q, cmd) = Append(q, cmd)
         /\ q # <<>> => Queued(q, cmd) # <<>> /\ Queued(q, cmd)[1] = q[1]
         /\ q = <<>> => Queued(q, cmd) = <<cmd>>
         /\ Accepts(q, cmd) => /\ Queued(q, cmd) # <<>>
                               /\ Queued(q, cmd)[Len(Queued(q, cmd))] = cmd
<1>1. Queued(q, cmd) = q \/ Queued(q, cmd) = Append(q, cmd)
  BY DEF Queued
<1>2. Queued(q, cmd) \in Seq(LightCommands)
  BY <1>1
<1>3. q # <<>> => Queued(q, cmd) # <<>> /\ Queued(q, cmd)[1] = q[1]
  BY <1>1
<1>4. LIGHT_QUEUE \in Nat \ {0}
  BY LightsAssumption
<1>5. q = <<>> => Queued(q, cmd) = <<cmd>>
  BY <1>4 DEF Queued
<1>6. ASSUME Accepts(q, cmd)
      PROVE  Queued(q, cmd) # <<>> /\ Queued(q, cmd)[Len(Queued(q, cmd))] = cmd
  <2>1. CASE q # <<>> /\ q[Len(q)] = cmd
    BY <2>1 DEF Queued
  <2>2. CASE ~(q # <<>> /\ q[Len(q)] = cmd)
    <3>1. Queued(q, cmd) = Append(q, cmd)
      BY <1>4, <1>6, <2>2 DEF Accepts, Queued
    <3>2. QED BY <3>1
  <2>3. QED BY <2>1, <2>2
<1>7. QED BY <1>1, <1>2, <1>3, <1>5, <1>6

(* A button that the queue took is the last.                               *)
LEMMA ButtonEnds ==
  ASSUME NEW q \in Seq(LightCommands), NEW cmd \in LightButtons, Accepts(q, cmd), NEW heard
  PROVE  Ends(Queued(q, cmd), heard, cmd)
<1>1. PICK r \in Seq(LightCommands) : r = Queued(q, cmd)
  BY QueuedIs DEF LightCommands
<1>2. r # <<>> /\ r[Len(r)] = cmd
  BY <1>1, QueuedIs DEF LightCommands
<1>3. Len(r) \in DOMAIN r /\ \A j \in DOMAIN r : ~(j > Len(r))
  BY <1>2
<1>4. cmd # "CHECK"
  BY DEF LightButtons
<1>5. QED BY <1>1, <1>2, <1>3, <1>4 DEF Ends

(* A CHECK behind the queue changes nothing.                               *)
LEMMA CheckEnds ==
  ASSUME NEW q \in Seq(LightCommands), NEW heard, NEW x
  PROVE  /\ Ends(q, heard, x) => Ends(Queued(q, "CHECK"), heard, x)
         /\ \A j \in DOMAIN Queued(q, "CHECK") :
              (j \in DOMAIN q /\ Queued(q, "CHECK")[j] = q[j]) \/ Queued(q, "CHECK")[j] = "CHECK"
<1>1. Queued(q, "CHECK") = q \/ Queued(q, "CHECK") = Append(q, "CHECK")
  BY DEF Queued
<1>2. DOMAIN q = 1 .. Len(q) /\ Len(q) \in Nat
  OBVIOUS
<1>3. CASE Queued(q, "CHECK") = Append(q, "CHECK")
  <2>1. PICK r : r = Append(q, "CHECK")
    OBVIOUS
  <2>2. /\ DOMAIN r = 1 .. Len(q) + 1 /\ r[Len(q) + 1] = "CHECK"
        /\ \A j \in 1 .. Len(q) : r[j] = q[j]
    BY <2>1
  <2>3. \A j \in DOMAIN r : (j \in DOMAIN q /\ r[j] = q[j]) \/ r[j] = "CHECK"
    BY <1>2, <2>2
  <2>4. \A j \in DOMAIN q : j \in DOMAIN r /\ r[j] = q[j]
    BY <1>2, <2>2
  <2>5. Ends(q, heard, x) => Ends(r, heard, x)
    BY <2>3, <2>4 DEF Ends, Checks
  <2>6. QED BY <1>3, <2>1, <2>3, <2>5
<1>4. QED BY <1>1, <1>3

(* What is left when the front was sent.                                   *)
LEMMA TailEnds ==
  ASSUME NEW q \in Seq(LightCommands), q # <<>>, NEW heard, NEW x
  PROVE  /\ Tail(q) \in Seq(LightCommands)
         /\ Ends(q, heard, x) => Ends(Tail(q), IF q[1] = "CHECK" THEN heard ELSE q[1], x)
         /\ (\A j \in DOMAIN q : j = 1 \/ q[j] = "CHECK") => Checks(Tail(q))
<1>1. /\ Tail(q) \in Seq(LightCommands) /\ DOMAIN q = 1 .. Len(q) /\ Len(q) \in Nat \ {0}
      /\ DOMAIN Tail(q) = 1 .. Len(q) - 1 /\ \A k \in 1 .. Len(q) - 1 : Tail(q)[k] = q[k + 1]
  OBVIOUS
<1>2. PICK t : t = Tail(q)
  OBVIOUS
<1>3. /\ \A k \in DOMAIN t : k \in Nat /\ k + 1 \in DOMAIN q /\ k + 1 # 1 /\ t[k] = q[k + 1]
      /\ \A k \in DOMAIN q : k = 1 \/ (k - 1 \in DOMAIN t /\ t[k - 1] = q[k])
  BY <1>1, <1>2
<1>4. (\A j \in DOMAIN q : j = 1 \/ q[j] = "CHECK") => Checks(t)
  BY <1>3 DEF Checks
<1>5. ASSUME x = heard, Checks(q)
      PROVE  Ends(t, IF q[1] = "CHECK" THEN heard ELSE q[1], x)
  <2>1. q[1] = "CHECK" /\ Checks(t)
    BY <1>1, <1>3, <1>5 DEF Checks
  <2>2. QED BY <1>5, <2>1 DEF Ends
<1>6. ASSUME x # "CHECK", NEW k \in DOMAIN q, q[k] = x, \A j \in DOMAIN q : j > k => q[j] = "CHECK"
      PROVE  Ends(t, IF q[1] = "CHECK" THEN heard ELSE q[1], x)
  <2>1. CASE k = 1
    <3>1. \A j \in DOMAIN q : j = 1 \/ q[j] = "CHECK"
      BY <1>1, <1>6, <2>1
    <3>2. QED BY <1>4, <1>6, <2>1, <3>1 DEF Ends
  <2>2. CASE k # 1
    <3>1. k - 1 \in DOMAIN t /\ t[k - 1] = x
      BY <1>3, <1>6, <2>2
    <3>2. \A j \in DOMAIN t : j > k - 1 => t[j] = "CHECK"
      BY <1>1, <1>3, <1>6
    <3>3. QED BY <1>6, <3>1, <3>2 DEF Ends
  <2>3. QED BY <2>1, <2>2
<1>7. QED BY <1>1, <1>2, <1>4, <1>5, <1>6 DEF Ends

----------------------------------------------------------------------------
(* Lemmas: the commands of one light.                                      *)

(* A light's own entry changes, but not the front of its queue.            *)
LEMMA OneLight ==
  ASSUME NEW h, HouseOK(h), NEW l \in Lights, NEW r \in LightRecord, r.dests = h[l].dests,
         h[l].queue # <<>> => r.queue # <<>> /\ r.queue[1] = h[l].queue[1],
         NEW g, g = [h EXCEPT ![l] = r], ~r.excused => Promised(g, l)
  PROVE  HouseOK(g)
<1>1. h \in Houses /\ Parted(h) /\ \A k \in Lights : ~h[k].excused => Promised(h, k)
  BY DEF HouseOK
<1>2. g \in Houses /\ g[l] = r /\ \A k \in Lights : k # l => g[k] = h[k]
  BY <1>1 DEF Houses
<1>3. \A k \in Lights : /\ g[k].dests = h[k].dests
                        /\ h[k].queue # <<>> => g[k].queue # <<>> /\ g[k].queue[1] = h[k].queue[1]
  BY <1>2
<1>4. Parted(g)
  BY <1>1, <1>3 DEF Parted
<1>5. ASSUME NEW k \in Lights, ~g[k].excused
      PROVE  Promised(g, k)
  <2>1. CASE k = l
    BY <1>2, <1>5, <2>1
  <2>2. CASE k # l
    <3>1. Promised(h, k) /\ g[k] = h[k] /\ Lead(k) \in Lights
      BY <1>1, <1>2, <1>5, <2>2, LeadIs
    <3>2. CASE h[Lead(k)].dests = {}
      BY <1>3, <3>1, <3>2 DEF Promised
    <3>3. CASE h[Lead(k)].dests # {}
      <4>1. h[Lead(k)].queue # <<>>
        BY <1>1, <3>1, <3>3 DEF Parted
      <4>2. g[Lead(k)].dests # {} /\ g[Lead(k)].queue[1] = h[Lead(k)].queue[1]
        BY <1>3, <3>1, <3>3, <4>1
      <4>3. QED BY <3>1, <3>3, <4>2 DEF Promised
    <3>4. QED BY <3>2, <3>3
  <2>3. QED BY <2>1, <2>2
<1>6. QED BY <1>2, <1>4, <1>5 DEF HouseOK

(* A light that is told something by its own queue.                        *)
Own(h, l, state, cmd, excused) ==
  [h EXCEPT ![l] =
     [h[l] EXCEPT !.state = state, !.queue = Queued(h[l].queue, cmd), !.excused = excused]]

(* It keeps the invariant if it is excused or the button will be heard.    *)
LEMMA OwnQueue ==
  ASSUME NEW h, HouseOK(h), NEW l \in Lights, NEW state \in LightStates, NEW cmd \in LightButtons,
         NEW excused \in BOOLEAN, NEW g, g = Own(h, l, state, cmd, excused),
         ~excused => Accepts(h[l].queue, cmd) /\ ~Entangled(h, l) /\ Follows(state, cmd)
  PROVE  HouseOK(g) /\ g[l].state = state /\ \A k \in Lights : k # l => g[k] = h[k]
<1>1. h \in Houses /\ h[l] \in LightRecord /\ Parted(h)
  BY DEF HouseOK, Houses
<1>2. h[l].queue \in Seq(LightCommands) /\ cmd \in LightCommands /\ cmd \in Heard
  BY <1>1 DEF LightRecord, LightCommands, Heard
<1> DEFINE q == Queued(h[l].queue, cmd)
           r == [h[l] EXCEPT !.state = state, !.queue = q, !.excused = excused]
<1>3. q \in Seq(LightCommands) /\ (h[l].queue # <<>> => q # <<>> /\ q[1] = h[l].queue[1])
  BY <1>2, QueuedIs
<1>4. g = [h EXCEPT ![l] = r]
  BY DEF Own
<1> HIDE DEF q
<1>5. /\ r \in LightRecord /\ r.dests = h[l].dests /\ r.queue = q /\ r.excused = excused
      /\ r.state = state /\ r.heard = h[l].heard
  BY <1>1, <1>3 DEF LightRecord
<1> HIDE DEF r
<1>6. g[l] = r /\ \A k \in Lights : k # l => g[k] = h[k]
  BY <1>1, <1>4 DEF Houses
<1>7. ASSUME ~excused PROVE Promised(g, l)
  <2>1. h[Lead(l)].dests = {}
    BY <1>1, <1>7, EntangledIs
  <2>2. g[Lead(l)].dests = {}
    BY <1>5, <1>6, <2>1, LeadIs
  <2>3. Ends(q, r.heard, cmd)
    BY <1>2, <1>7, ButtonEnds DEF q
  <2>4. QED BY <1>2, <1>5, <1>6, <1>7, <2>2, <2>3 DEF Promised
<1>8. HouseOK(g)
  <2>1. h[l].queue # <<>> => r.queue # <<>> /\ r.queue[1] = h[l].queue[1]
    BY <1>3, <1>5
  <2>2. ~r.excused => Promised(g, l)
    BY <1>5, <1>7
  <2>3. r \in LightRecord /\ r.dests = h[l].dests
    BY <1>5
  <2>4. \A e \in LightRecord :
          /\ e.dests = h[l].dests /\ g = [h EXCEPT ![l] = e]
          /\ h[l].queue # <<>> => e.queue # <<>> /\ e.queue[1] = h[l].queue[1]
          /\ ~e.excused => Promised(g, l)
          => HouseOK(g)
    BY OneLight
  <2>5. QED BY <1>4, <2>1, <2>2, <2>3, <2>4
<1>9. QED BY <1>5, <1>6, <1>8

(* A CHECK for some lights.                                                *)
LEMMA ChecksKeep ==
  ASSUME NEW h, HouseOK(h), NEW G \in SUBSET Lights, NEW g,
         g = [k \in Lights |-> IF k \in G THEN [h[k] EXCEPT !.queue = Queued(h[k].queue, "CHECK")]
                               ELSE h[k]]
  PROVE  HouseOK(g) /\ AllSmooth(h, g)
<1>1. /\ h \in Houses /\ Parted(h) /\ "CHECK" \in LightCommands
      /\ \A k \in Lights : /\ h[k] \in LightRecord /\ h[k].state \in LightStates
                            /\ h[k].queue \in Seq(LightCommands) /\ (~h[k].excused => Promised(h, k))
  BY DEF HouseOK, Houses, LightRecord, LightCommands
<1>2. ASSUME NEW k \in Lights
      PROVE  /\ g[k] \in LightRecord /\ g[k].dests = h[k].dests /\ g[k].state = h[k].state
             /\ g[k].heard = h[k].heard /\ g[k].excused = h[k].excused
             /\ g[k].queue = h[k].queue \/ g[k].queue = Queued(h[k].queue, "CHECK")
  <2>1. PICK q : q = Queued(h[k].queue, "CHECK")
    OBVIOUS
  <2>2. q \in Seq(LightCommands)
    BY <1>1, <1>2, <2>1, QueuedIs
  <2>3. g[k] = [h[k] EXCEPT !.queue = q] \/ g[k] = h[k]
    BY <1>2, <2>1
  <2>4. QED BY <1>1, <1>2, <2>1, <2>2, <2>3 DEF LightRecord
<1>3. g \in Houses
  BY <1>2 DEF Houses
<1>4. \A k \in Lights : h[k].queue # <<>> => g[k].queue # <<>> /\ g[k].queue[1] = h[k].queue[1]
  <2>1. ASSUME NEW k \in Lights, h[k].queue # <<>>
        PROVE  g[k].queue # <<>> /\ g[k].queue[1] = h[k].queue[1]
    <3>1. PICK q : q = Queued(h[k].queue, "CHECK")
      OBVIOUS
    <3>2. q # <<>> /\ q[1] = h[k].queue[1]
      BY <1>1, <2>1, <3>1, QueuedIs
    <3>3. QED BY <1>2, <2>1, <3>1, <3>2
  <2>2. QED BY <2>1
<1>5. Parted(g)
  BY <1>1, <1>2, <1>4 DEF Parted
<1>6. ASSUME NEW k \in Lights, ~g[k].excused PROVE Promised(g, k)
  <2>1. Promised(h, k) /\ Lead(k) \in Lights
    BY <1>1, <1>2, <1>6, LeadIs
  <2>2. CASE h[Lead(k)].dests = {}
    <3>1. g[Lead(k)].dests = {}
      BY <1>2, <2>1, <2>2
    <3>2. PICK x \in Heard : Ends(h[k].queue, h[k].heard, x) /\ Follows(h[k].state, x)
      BY <2>1, <2>2 DEF Promised
    <3>3. Ends(Queued(h[k].queue, "CHECK"), h[k].heard, x)
      BY <1>1, <1>6, <3>2, CheckEnds
    <3>4. Ends(g[k].queue, g[k].heard, x) /\ Follows(g[k].state, x)
      BY <1>2, <1>6, <3>2, <3>3
    <3>5. QED BY <3>1, <3>4 DEF Promised
  <2>3. CASE h[Lead(k)].dests # {}
    <3>1. h[Lead(k)].queue # <<>>
      BY <1>1, <2>1, <2>3 DEF Parted
    <3>2. g[Lead(k)].dests # {} /\ g[Lead(k)].queue[1] = h[Lead(k)].queue[1]
      BY <1>2, <1>4, <2>1, <2>3, <3>1
    <3>3. PICK q : q = Queued(h[k].queue, "CHECK")
      OBVIOUS
    <3>4. \A j \in DOMAIN q : (j \in DOMAIN h[k].queue /\ q[j] = h[k].queue[j]) \/ q[j] = "CHECK"
      BY <1>1, <1>6, <3>3, CheckEnds
    <3>5. \A j \in DOMAIN g[k].queue :
            (j \in DOMAIN h[k].queue /\ g[k].queue[j] = h[k].queue[j]) \/ g[k].queue[j] = "CHECK"
      BY <1>2, <1>6, <3>3, <3>4
    <3>6. g[k].state = h[k].state
      BY <1>2, <1>6
    <3>7. QED BY <2>1, <2>3, <3>2, <3>5, <3>6 DEF Promised
  <2>4. QED BY <2>2, <2>3
<1>7. AllSmooth(h, g)
  BY <1>1, <1>2, SameSmooth DEF AllSmooth
<1>8. QED BY <1>3, <1>5, <1>6, <1>7 DEF HouseOK

(* A CHECK for one light.                                                  *)
LEMMA CheckedKeeps ==
  ASSUME NEW h, HouseOK(h), NEW l \in Lights
  PROVE  HouseOK(Checked(h, l)) /\ AllSmooth(h, Checked(h, l))
<1>1. h \in [Lights -> LightRecord]
  BY DEF HouseOK, Houses
<1>2. PICK g : g = Checked(h, l)
  OBVIOUS
<1>3. g = [k \in Lights |-> IF k \in {l} THEN [h[k] EXCEPT !.queue = Queued(h[k].queue, "CHECK")]
                            ELSE h[k]]
  BY <1>1, <1>2 DEF Checked
<1>4. QED BY <1>2, <1>3, ChecksKeep

(* Switching off empties the queue, and with it what another is owed.      *)
LEMMA SwitchedOffKeeps ==
  ASSUME NEW h, HouseOK(h), NEW l \in Lights
  PROVE  HouseOK(SwitchedOff(h, l)) /\ AllSmooth(h, SwitchedOff(h, l))
<1>1. /\ h \in Houses /\ Parted(h)
      /\ \A k \in Lights : /\ h[k] \in LightRecord /\ h[k].state \in LightStates
                            /\ (~h[k].excused => Promised(h, k))
  BY DEF HouseOK, Houses, LightRecord
<1>2. /\ LightOff \in LightStates /\ LightOff.is = "Off" /\ <<"DOWN">> \in Seq(LightCommands)
      /\ "DOWN" \in Heard /\ <<"DOWN">> # <<>>
  BY DEF LightStates, LightOff, LightCommands, LightButtons, Heard
<1>3. PICK g : g = SwitchedOff(h, l)
  OBVIOUS
<1>4. g = [k \in Lights |-> g[k]]
  BY <1>3 DEF SwitchedOff
<1>5. /\ g[l] \in LightRecord /\ g[l].dests = h[l].dests
      /\ g[l].state = LightOff /\ g[l].queue = <<"DOWN">> /\ (g[l].excused <=> Entangled(h, l))
  <2>1. g[l] = [h[l] EXCEPT !.state = LightOff, !.queue = <<"DOWN">>, !.excused = Entangled(h, l)]
    BY <1>3 DEF SwitchedOff, OnTurnOff
  <2>2. Entangled(h, l) \in BOOLEAN
    BY DEF Entangled
  <2>3. QED BY <1>1, <1>2, <2>1, <2>2 DEF LightRecord
<1>6. ASSUME NEW k \in Lights, k # l
      PROVE  /\ g[k] \in LightRecord /\ g[k].dests = h[k].dests
             /\ g[k].state = h[k].state /\ g[k].queue = h[k].queue /\ g[k].heard = h[k].heard
             /\ ~g[k].excused => ~h[k].excused /\ k \notin h[l].dests
  <2>1. h[k].excused \in BOOLEAN /\ (h[k].excused \/ k \in h[l].dests) \in BOOLEAN
    BY <1>1, <1>6 DEF LightRecord
  <2>2. g[k] = [h[k] EXCEPT !.excused = h[k].excused \/ k \in h[l].dests]
    BY <1>3, <1>6 DEF SwitchedOff
  <2>3. QED BY <1>1, <1>6, <2>1, <2>2 DEF LightRecord
<1>7. g \in Houses
  <2>1. \A k \in Lights : g[k] \in LightRecord
    BY <1>5, <1>6
  <2>2. QED BY <1>4, <2>1 DEF Houses
<1>8. \A k \in Lights : g[k].dests = h[k].dests
  BY <1>5, <1>6
<1>9. Parted(g)
  <2>1. \A k \in Lights : h[k].queue # <<>> => g[k].queue # <<>>
    BY <1>2, <1>5, <1>6
  <2>2. QED BY <1>1, <1>8, <2>1 DEF Parted
<1>10. ASSUME NEW k \in Lights, ~g[k].excused
       PROVE  Promised(g, k)
  <2>1. CASE k = l
    <3>1. h[Lead(l)].dests = {}
      BY <1>1, <1>5, <1>10, <2>1, EntangledIs
    <3>2. g[Lead(l)].dests = {}
      BY <1>8, <3>1, LeadIs
    <3>3. PICK q : q = <<"DOWN">>
      OBVIOUS
    <3>4. q[1] = "DOWN" /\ DOMAIN q = {1}
      BY <3>3
    <3>5. Ends(q, g[l].heard, "DOWN")
      BY <3>4 DEF Ends
    <3>6. Follows(LightOff, "DOWN")
      BY <1>2 DEF Follows
    <3>7. QED BY <1>2, <1>5, <2>1, <3>2, <3>3, <3>5, <3>6 DEF Promised
  <2>2. CASE k # l
    <3>1. /\ g[k].state = h[k].state /\ g[k].queue = h[k].queue /\ g[k].heard = h[k].heard
          /\ ~h[k].excused /\ k \notin h[l].dests
      BY <1>6, <1>10, <2>2
    <3>2. Promised(h, k) /\ Lead(k) \in Lights /\ k \in OfRemote(k)
      BY <1>1, <1>10, <3>1, LeadIs
    <3>3. CASE h[Lead(k)].dests = {}
      BY <1>8, <3>1, <3>2, <3>3 DEF Promised
    <3>4. CASE h[Lead(k)].dests # {}
      <4>1. h[Lead(k)].dests = OfRemote(k)
        BY <1>1, <1>10, <3>2, <3>4, LeadIs DEF Parted
      <4>2. Lead(k) # l
        BY <3>1, <3>2, <4>1
      <4>3. g[Lead(k)].queue = h[Lead(k)].queue
        BY <1>6, <3>2, <4>2
      <4>4. QED BY <1>8, <3>1, <3>2, <3>4, <4>3 DEF Promised
    <3>5. QED BY <3>3, <3>4
  <2>3. QED BY <2>1, <2>2
<1>11. HouseOK(g)
  BY <1>7, <1>9, <1>10 DEF HouseOK
<1>12. AllSmooth(h, g)
  <2>1. ASSUME NEW k \in Lights PROVE Smooth(h[k].state, g[k].state)
    <3>1. g[k].state = h[k].state \/ g[k].state = OnTurnOff
      BY <1>5, <1>6, <2>1 DEF OnTurnOff
    <3>2. QED BY <1>1, <2>1, <3>1, SameSmooth DEF Smooth
  <2>2. QED BY <2>1 DEF AllSmooth
<1>13. QED BY <1>3, <1>11, <1>12

(* Switching on goes behind what the queue holds.                          *)
LEMMA SwitchedOnKeeps ==
  ASSUME NEW h, HouseOK(h), NEW l \in Lights
  PROVE  HouseOK(SwitchedOn(h, l)) /\ AllSmooth(h, SwitchedOn(h, l))
<1>1. OnTurnOn \in LightStates /\ "UP" \in LightButtons /\ Follows(OnTurnOn, "UP")
  BY LightAssumption DEF LightStates, LightButtons, Follows, LightOn, OnTurnOn
<1>2. PICK excused \in BOOLEAN : excused = (~Accepts(h[l].queue, "UP") \/ Entangled(h, l))
  OBVIOUS
<1>3. PICK g : g = SwitchedOn(h, l)
  OBVIOUS
<1>4. g = Own(h, l, OnTurnOn, "UP", excused)
  BY <1>2, <1>3 DEF SwitchedOn, Own
<1>5. ~excused => Accepts(h[l].queue, "UP") /\ ~Entangled(h, l) /\ Follows(OnTurnOn, "UP")
  BY <1>1, <1>2
<1>6. HouseOK(g) /\ g[l].state = OnTurnOn /\ \A k \in Lights : k # l => g[k] = h[k]
  BY <1>1, <1>4, <1>5, OwnQueue
<1>7. AllSmooth(h, g)
  <2>1. ASSUME NEW k \in Lights PROVE Smooth(h[k].state, g[k].state)
    <3>1. h[k].state \in LightStates
      BY <2>1 DEF HouseOK, Houses, LightRecord
    <3>2. g[k].state = h[k].state \/ g[k].state = OnTurnOn
      BY <1>6, <2>1
    <3>3. QED BY <3>1, <3>2, SameSmooth DEF Smooth
  <2>2. QED BY <2>1 DEF AllSmooth
<1>8. QED BY <1>3, <1>6, <1>7

(* The same, with the brightness.                                          *)
LEMMA OwnKeeps ==
  ASSUME NEW h, HouseOK(h), NEW l \in Lights, NEW state \in LightStates, NEW cmd \in LightButtons,
         Smooth(h[l].state, state), NEW excused \in BOOLEAN,
         ~excused => Accepts(h[l].queue, cmd) /\ ~Entangled(h, l) /\ Follows(state, cmd)
  PROVE  /\ HouseOK(Own(h, l, state, cmd, excused))
         /\ AllSmooth(h, Own(h, l, state, cmd, excused))
<1>1. PICK g : g = Own(h, l, state, cmd, excused)
  OBVIOUS
<1>2. HouseOK(g) /\ g[l].state = state /\ \A k \in Lights : k # l => g[k] = h[k]
  BY <1>1, OwnQueue
<1>3. ASSUME NEW k \in Lights PROVE Smooth(h[k].state, g[k].state)
  <2>1. h[k].state \in LightStates
    BY <1>3 DEF HouseOK, Houses, LightRecord
  <2>2. g[k].state = h[k].state \/ (k = l /\ g[k].state = state)
    BY <1>2, <1>3
  <2>3. QED BY <2>1, <2>2, SameSmooth
<1>4. QED BY <1>1, <1>2, <1>3 DEF AllSmooth

(* A light that is told a new state with the button for it.                *)
LEMMA ToldKeeps ==
  ASSUME NEW h, HouseOK(h), NEW l \in Lights, NEW state \in LightStates, NEW cmd \in LightButtons,
         Smooth(h[l].state, state)
  PROVE  /\ Follows(state, cmd) => /\ HouseOK(Told(h, l, state, cmd))
                                   /\ AllSmooth(h, Told(h, l, state, cmd))
         /\ HouseOK([Told(h, l, state, cmd) EXCEPT ![l].excused = TRUE])
         /\ AllSmooth(h, [Told(h, l, state, cmd) EXCEPT ![l].excused = TRUE])
<1>1. h \in [Lights -> LightRecord] /\ h[l] \in LightRecord /\ h[l].excused \in BOOLEAN
  BY DEF HouseOK, Houses, LightRecord
<1>2. PICK excused \in BOOLEAN :
        excused = (h[l].excused \/ ~Accepts(h[l].queue, cmd) \/ Entangled(h, l))
  OBVIOUS
<1>3. Told(h, l, state, cmd) = Own(h, l, state, cmd, excused)
  <2>1. Told(h, l, state, cmd)
          = Own(h, l, state, cmd, h[l].excused \/ ~Accepts(h[l].queue, cmd) \/ Entangled(h, l))
    BY DEF Told, Own
  <2>2. QED BY <1>2, <2>1
<1>4. [Told(h, l, state, cmd) EXCEPT ![l].excused = TRUE] = Own(h, l, state, cmd, TRUE)
  <2>1. PICK q : q = Queued(h[l].queue, cmd)
    OBVIOUS
  <2>2. PICK r : r = [h[l] EXCEPT !.state = state, !.queue = q, !.excused = excused]
    OBVIOUS
  <2>3. Told(h, l, state, cmd) = [h EXCEPT ![l] = r]
    BY <1>3, <2>1, <2>2 DEF Own
  <2>4. [Told(h, l, state, cmd) EXCEPT ![l].excused = TRUE] = [h EXCEPT ![l] = [r EXCEPT !.excused = TRUE]]
    BY <1>1, <2>3
  <2>5. [r EXCEPT !.excused = TRUE] = [h[l] EXCEPT !.state = state, !.queue = q, !.excused = TRUE]
    BY <1>1, <2>2 DEF LightRecord
  <2>6. QED BY <2>1, <2>4, <2>5 DEF Own
<1>5. Follows(state, cmd) => (~excused => Accepts(h[l].queue, cmd) /\ ~Entangled(h, l) /\ Follows(state, cmd))
  BY <1>2
<1>6. /\ HouseOK(Own(h, l, state, cmd, TRUE)) /\ AllSmooth(h, Own(h, l, state, cmd, TRUE))
      /\ Follows(state, cmd) => /\ HouseOK(Own(h, l, state, cmd, excused))
                                /\ AllSmooth(h, Own(h, l, state, cmd, excused))
  BY <1>5, OwnKeeps
<1>7. QED BY <1>3, <1>4, <1>6

(* A light that is excused from now on.                                    *)
LEMMA ExcusedKeeps ==
  ASSUME NEW h, HouseOK(h), NEW l \in Lights, NEW state \in LightStates,
         Smooth(h[l].state, state), NEW g,
         g = [h EXCEPT ![l] = [h[l] EXCEPT !.state = state, !.excused = TRUE]]
  PROVE  HouseOK(g) /\ AllSmooth(h, g)
<1>1. h \in Houses /\ \A k \in Lights : h[k] \in LightRecord /\ h[k].state \in LightStates
  BY DEF HouseOK, Houses, LightRecord
<1>2. PICK r : r = [h[l] EXCEPT !.state = state, !.excused = TRUE]
  OBVIOUS
<1>3. /\ r \in LightRecord /\ r.dests = h[l].dests /\ r.queue = h[l].queue /\ r.state = state
      /\ r.excused
  BY <1>1, <1>2 DEF LightRecord
<1>4. g = [h EXCEPT ![l] = r]
  BY <1>2
<1>5. HouseOK(g)
  <2>1. \A e \in LightRecord :
          /\ e.dests = h[l].dests /\ g = [h EXCEPT ![l] = e]
          /\ h[l].queue # <<>> => e.queue # <<>> /\ e.queue[1] = h[l].queue[1]
          /\ ~e.excused => Promised(g, l)
          => HouseOK(g)
    BY OneLight
  <2>2. QED BY <1>3, <1>4, <2>1
<1>6. ASSUME NEW k \in Lights PROVE Smooth(h[k].state, g[k].state)
  <2>1. g[k].state = h[k].state \/ (k = l /\ g[k].state = state)
    BY <1>1, <1>3, <1>4, <1>6 DEF Houses
  <2>2. QED BY <1>1, <1>6, <2>1, SameSmooth
<1>7. QED BY <1>5, <1>6 DEF AllSmooth

(* command_light keeps the invariant.                                      *)
LEMMA CommandedKeeps ==
  ASSUME NEW h, HouseOK(h), NEW l \in Lights, NEW cmd \in Orders
  PROVE  HouseOK(Commanded(h, l, cmd)) /\ AllSmooth(h, Commanded(h, l, cmd))
<1>1. CASE cmd = "CHECK"
  BY <1>1, CheckedKeeps DEF Commanded
<1>2. CASE cmd = "DOWN"
  BY <1>2, SwitchedOffKeeps DEF Commanded
<1>3. CASE cmd = "UP"
  BY <1>3, SwitchedOnKeeps DEF Commanded
<1>4. CASE cmd = "STOP"
  <2>1. h[l] \in LightRecord /\ h[l].state \in LightStates /\ Smooth(h[l].state, h[l].state)
    BY SameSmooth DEF HouseOK, Houses, LightRecord
  <2>2. PICK q : q = Queued(h[l].queue, "STOP")
    OBVIOUS
  <2>3. [h[l] EXCEPT !.queue = q, !.excused = TRUE]
          = [h[l] EXCEPT !.state = h[l].state, !.queue = q, !.excused = TRUE]
    BY <2>1 DEF LightRecord
  <2>4. Commanded(h, l, cmd) = [h EXCEPT ![l] = [h[l] EXCEPT !.queue = q, !.excused = TRUE]]
    BY <1>4, <2>2 DEF Commanded
  <2>5. Commanded(h, l, cmd) = Own(h, l, h[l].state, "STOP", TRUE)
    BY <2>2, <2>3, <2>4 DEF Own
  <2>6. "STOP" \in LightButtons
    BY DEF LightButtons
  <2>7. HouseOK(Own(h, l, h[l].state, "STOP", TRUE)) /\ AllSmooth(h, Own(h, l, h[l].state, "STOP", TRUE))
    BY <2>1, <2>6, OwnKeeps
  <2>8. QED BY <2>5, <2>7
<1>5. QED BY <1>1, <1>2, <1>3, <1>4 DEF Orders

(* set_light_brightness keeps the invariant.                               *)
LEMMA BrightenedKeeps ==
  ASSUME NEW h, HouseOK(h), NEW l \in Lights, NEW b \in Requests
  PROVE  HouseOK(Brightened(h, l, b)) /\ AllSmooth(h, Brightened(h, l, b))
<1>1. h[l].state \in LightStates
  BY DEF HouseOK, Houses, LightRecord
<1>2. PICK next : next = OnSetBrightness(h[l].state, b, TRUE)
  OBVIOUS
<1>3. CASE b = 0
  BY <1>3, SwitchedOffKeeps DEF Brightened
<1>4. CASE b # 0 /\ l \notin Dimmable
  BY <1>4, SwitchedOnKeeps DEF Brightened
<1>5. CASE b # 0 /\ l \in Dimmable
  <2>1. /\ next \in LightStates /\ Smooth(h[l].state, next)
        /\ next.is \in {"Off", "On", "DimmingUp", "DimmingDown"}
    BY <1>1, <1>2, <1>5, SetType
  <2>2. "UP" \in LightButtons /\ "DOWN" \in LightButtons
    BY DEF LightButtons
  <2>3. CASE next.is = "DimmingUp"
    <3>1. Brightened(h, l, b) = Told(h, l, next, "UP")
      BY <1>2, <1>5, <2>3 DEF Brightened
    <3>2. Follows(next, "UP")
      BY <2>3 DEF Follows
    <3>3. QED BY <2>1, <2>2, <3>1, <3>2, ToldKeeps
  <2>4. CASE next.is = "DimmingDown"
    <3>1. Brightened(h, l, b) = Told(h, l, next, "DOWN")
      BY <1>2, <1>5, <2>4 DEF Brightened
    <3>2. Follows(next, "DOWN")
      BY <2>4 DEF Follows
    <3>3. QED BY <2>1, <2>2, <3>1, <3>2, ToldKeeps
  <2>5. CASE next.is = "On"
    <3>1. Brightened(h, l, b) = [Told(h, l, next, "UP") EXCEPT ![l].excused = TRUE]
      BY <1>2, <1>5, <2>5 DEF Brightened
    <3>2. QED BY <2>1, <2>2, <3>1, ToldKeeps
  <2>6. CASE next.is = "Off"
    <3>1. Brightened(h, l, b) = [h EXCEPT ![l] = [h[l] EXCEPT !.state = next, !.excused = TRUE]]
      BY <1>2, <1>5, <2>6 DEF Brightened
    <3>2. QED BY <2>1, <3>1, ExcusedKeeps
  <2>7. QED BY <2>1, <2>3, <2>4, <2>5, <2>6
<1>6. QED BY <1>3, <1>4, <1>5

----------------------------------------------------------------------------
(* Lemmas: the group commands.                                             *)

(* command_group for the lights of one remote keeps the invariant.         *)
LEMMA GroupKeeps ==
  ASSUME NEW h, HouseOK(h), NEW l \in Lights, NEW cmd \in Orders
  PROVE  /\ HouseOK(GroupCommanded(h, Lead(l), OfRemote(l), cmd))
         /\ AllSmooth(h, GroupCommanded(h, Lead(l), OfRemote(l), cmd))
<1>1. PICK lead, G : lead = Lead(l) /\ G = OfRemote(l)
  OBVIOUS
<1>2. /\ lead \in Lights /\ lead \in G /\ G \in SUBSET Lights /\ Lead(lead) = lead
      /\ \A k \in G : OfRemote(k) = G /\ Lead(k) = lead
  BY <1>1, LeadIs
<1>3. PICK g : g = GroupCommanded(h, lead, G, cmd)
  OBVIOUS
<1>4. /\ h \in Houses /\ Parted(h)
      /\ \A k \in Lights : /\ h[k] \in LightRecord /\ h[k].state \in LightStates
                            /\ h[k].queue \in Seq(LightCommands) /\ (~h[k].excused => Promised(h, k))
  BY DEF HouseOK, Houses, LightRecord
<1>5. CASE cmd = "CHECK"
  <2>1. g = [k \in Lights |-> IF k \in G THEN [h[k] EXCEPT !.queue = Queued(h[k].queue, "CHECK")]
                              ELSE h[k]]
    BY <1>3, <1>5 DEF GroupCommanded
  <2>2. HouseOK(g) /\ AllSmooth(h, g)
    BY <1>2, <2>1, ChecksKeep
  <2>3. QED BY <1>1, <1>3, <2>2
<1>6. CASE cmd # "CHECK" /\ ~Accepts(h[lead].queue, cmd)
  <2>1. g = h
    BY <1>3, <1>6 DEF GroupCommanded
  <2>2. AllSmooth(h, h)
    BY <1>4, SameSmooth DEF AllSmooth
  <2>3. QED BY <1>1, <1>3, <2>1, <2>2
<1>7. CASE cmd # "CHECK" /\ Accepts(h[lead].queue, cmd)
  <2>1. cmd \in LightCommands /\ cmd \in LightButtons
    BY <1>7 DEF Orders, LightCommands, LightButtons
  <2>2. PICK quiet \in BOOLEAN : quiet = (\A k \in G : h[k].queue = <<>> /\ ~Entangled(h, k))
    OBVIOUS
  <2>3. PICK state :
          state = [k \in Lights |-> CASE cmd = "DOWN" -> OnTurnOff
                                      [] cmd = "UP"   -> OnTurnOn
                                      [] OTHER        -> h[k].state]
    OBVIOUS
  <2>4. \A k \in Lights : /\ state[k] \in LightStates
                          /\ cmd = "DOWN" => state[k] = OnTurnOff
                          /\ cmd = "UP" => state[k] = OnTurnOn
                          /\ cmd \notin {"UP", "DOWN"} => state[k] = h[k].state
    BY <1>4, <2>3, LightAssumption DEF LightStates, OnTurnOff, OnTurnOn
  <2>5. PICK m : m = GroupMoves(h, G, cmd)
    OBVIOUS
  <2>6. m = [k \in Lights |->
               IF k \in G THEN [h[k] EXCEPT !.state = state[k],
                                            !.excused = ~quiet \/ cmd \notin {"UP", "DOWN"}]
               ELSE h[k]]
    BY <2>2, <2>3, <2>5 DEF GroupMoves
  <2>7. ASSUME NEW k \in G
        PROVE  /\ m[k] \in LightRecord /\ m[k].state = state[k] /\ m[k].queue = h[k].queue
               /\ m[k].dests = h[k].dests
               /\ ~m[k].excused => quiet /\ cmd \in {"UP", "DOWN"}
    <3>1. m[k] = [h[k] EXCEPT !.state = state[k], !.excused = ~quiet \/ cmd \notin {"UP", "DOWN"}]
      BY <1>2, <2>6, <2>7
    <3>2. (~quiet \/ cmd \notin {"UP", "DOWN"}) \in BOOLEAN
      OBVIOUS
    <3>3. h[k] \in LightRecord /\ state[k] \in LightStates
      BY <1>2, <1>4, <2>4, <2>7
    <3>4. QED BY <3>1, <3>2, <3>3 DEF LightRecord
  <2>8. \A k \in Lights : k \notin G => m[k] = h[k]
    BY <2>6
  <2>9. PICK q : q = Queued(h[lead].queue, cmd)
    OBVIOUS
  <2>10. q \in Seq(LightCommands) /\ q # <<>> /\ (h[lead].queue = <<>> => q = <<cmd>>)
    BY <1>2, <1>4, <1>7, <2>1, <2>9, QueuedIs
  <2>11. PICK r : r = [m[lead] EXCEPT !.queue = q, !.dests = G]
    OBVIOUS
  <2>12. /\ r \in LightRecord /\ r.state = state[lead] /\ r.queue = q /\ r.dests = G
         /\ ~r.excused => quiet /\ cmd \in {"UP", "DOWN"}
    BY <1>2, <2>7, <2>10, <2>11 DEF LightRecord
  <2>13. g = [m EXCEPT ![lead] = r]
    <3>1. g = [m EXCEPT ![lead] = [m[lead] EXCEPT !.queue = Queued(h[lead].queue, cmd), !.dests = G]]
      BY <1>3, <1>7, <2>5 DEF GroupCommanded
    <3>2. QED BY <2>9, <2>11, <3>1
  <2>14. g[lead] = r /\ \A k \in Lights : k # lead => g[k] = m[k]
    BY <1>2, <2>6, <2>13
  <2>15. g \in Houses
    <3>1. \A k \in Lights : g[k] \in LightRecord
      BY <1>4, <2>7, <2>8, <2>12, <2>14
    <3>2. g = [k \in Lights |-> g[k]]
      BY <2>6, <2>13
    <3>3. QED BY <3>1, <3>2 DEF Houses
  <2>16. \A k \in Lights : k # lead => g[k].dests = h[k].dests /\ g[k].queue = h[k].queue
    BY <2>7, <2>8, <2>14
  <2>17. Parted(g)
    <3>1. ASSUME NEW k \in Lights, g[k].dests # {}
          PROVE  k = Lead(k) /\ g[k].dests = OfRemote(k) /\ g[k].queue # <<>>
      <4>1. CASE k = lead
        BY <1>2, <2>10, <2>12, <2>14, <4>1
      <4>2. CASE k # lead
        BY <1>4, <2>16, <3>1, <4>2 DEF Parted
      <4>3. QED BY <4>1, <4>2
    <3>2. QED BY <3>1 DEF Parted
  <2>18. ASSUME NEW k \in Lights, ~g[k].excused
         PROVE  Promised(g, k)
    <3>1. CASE k \in G
      <4>1. Lead(k) = lead /\ g[lead].dests # {} /\ g[lead].queue = q
        BY <1>2, <2>12, <2>14, <3>1
      <4>2. quiet /\ cmd \in {"UP", "DOWN"} /\ g[k].state = state[k]
        BY <2>7, <2>12, <2>14, <2>18, <3>1
      <4>3. h[k].queue = <<>> /\ q = <<cmd>>
        BY <1>2, <2>2, <2>10, <3>1, <4>2
      <4>4. q[1] = cmd /\ DOMAIN q = {1}
        BY <4>3
      <4>5. Follows(g[k].state, q[1])
        <5>1. g[k].state = IF cmd = "UP" THEN OnTurnOn ELSE OnTurnOff
          BY <2>4, <2>18, <4>2
        <5>2. OnTurnOn.is = "On" /\ OnTurnOn.at = DIM /\ OnTurnOff.is = "Off"
          BY DEF OnTurnOn, OnTurnOff, LightOn, LightOff
        <5>3. CASE cmd = "UP"
          BY <4>4, <5>1, <5>2, <5>3 DEF Follows
        <5>4. CASE cmd = "DOWN"
          BY <4>4, <5>1, <5>2, <5>4 DEF Follows
        <5>5. QED BY <4>2, <5>3, <5>4
      <4>6. \A j \in DOMAIN g[k].queue : j = 1 /\ k = lead
        <5>1. CASE k = lead
          BY <2>12, <2>14, <4>4, <5>1
        <5>2. CASE k # lead
          <6>1. g[k].queue = <<>>
            BY <2>16, <2>18, <4>3, <5>2
          <6>2. QED BY <6>1
        <5>3. QED BY <5>1, <5>2
      <4>7. g[Lead(k)].queue[1] \in {"UP", "DOWN"}
        BY <4>1, <4>2, <4>4
      <4>8. QED BY <4>1, <4>5, <4>6, <4>7 DEF Promised
    <3>2. CASE k \notin G
      <4>1. Lead(k) \in Lights /\ Lead(k) \notin G
        <5>1. Lead(k) \in Lights /\ k \in OfRemote(k) /\ OfRemote(Lead(k)) = OfRemote(k)
          BY <2>18, LeadIs
        <5>2. QED BY <1>2, <3>2, <5>1
      <4>2. g[k] = h[k] /\ g[Lead(k)] = h[Lead(k)]
        BY <1>2, <2>8, <2>14, <2>18, <3>2, <4>1
      <4>3. Promised(h, k)
        BY <1>4, <2>18, <4>2
      <4>4. QED BY <4>2, <4>3 DEF Promised
    <3>3. QED BY <3>1, <3>2
  <2>19. HouseOK(g)
    BY <2>15, <2>17, <2>18 DEF HouseOK
  <2>20. ASSUME NEW k \in Lights PROVE Smooth(h[k].state, g[k].state)
    <3>1. g[k].state = h[k].state \/ g[k].state = state[k]
      BY <2>7, <2>8, <2>12, <2>14, <2>20
    <3>2. state[k] \in {OnTurnOn, OnTurnOff, h[k].state}
      BY <2>4, <2>20
    <3>3. QED BY <1>4, <2>20, <3>1, <3>2, SameSmooth DEF Smooth
  <2>21. AllSmooth(h, g)
    BY <2>20 DEF AllSmooth
  <2>22. GroupCommanded(h, Lead(l), OfRemote(l), cmd) = g
    BY <1>1, <1>3
  <2>23. QED BY <2>19, <2>21, <2>22
<1>8. QED BY <1>5, <1>6, <1>7

(* The lights of a remote come out of the saved group command as they come *)
(* out of the command for that remote.                                     *)
LEMMA SavedKeeps ==
  ASSUME NEW h, HouseOK(h), NEW cmd \in Orders, NEW g, g = SavedGroupCommanded(h, cmd)
  PROVE  HouseOK(g) /\ AllSmooth(h, g)
<1>1. ASSUME NEW l \in Lights
      PROVE  \E c : HouseOK(c) /\ AllSmooth(h, c) /\ g[l] = c[l] /\ g[Lead(l)] = c[Lead(l)]
  <2>1. /\ Lead(l) \in Lights /\ Lead(l) \in OfRemote(l)
        /\ OfRemote(Lead(l)) = OfRemote(l) /\ Lead(Lead(l)) = Lead(l)
    BY <1>1, LeadIs
  <2>2. \A k \in Lights :
          /\ OfRemote(k) = {k} => g[k] = Commanded(h, k, cmd)[k]
          /\ OfRemote(k) # {k} => g[k] = GroupCommanded(h, Lead(k), OfRemote(k), cmd)[k]
    BY DEF SavedGroupCommanded
  <2>3. CASE OfRemote(l) = {l}
    <3>1. PICK c : c = Commanded(h, l, cmd)
      OBVIOUS
    <3>2. HouseOK(c) /\ AllSmooth(h, c) /\ g[l] = c[l] /\ Lead(l) = l
      BY <1>1, <2>1, <2>2, <2>3, <3>1, CommandedKeeps
    <3>3. QED BY <3>2
  <2>4. CASE OfRemote(l) # {l}
    <3>1. PICK c : c = GroupCommanded(h, Lead(l), OfRemote(l), cmd)
      OBVIOUS
    <3>2. HouseOK(c) /\ AllSmooth(h, c)
      BY <1>1, <3>1, GroupKeeps
    <3>3. OfRemote(Lead(l)) # {Lead(l)}
      BY <1>1, <2>1, <2>4, LeadIs
    <3>4. g[l] = c[l] /\ g[Lead(l)] = c[Lead(l)]
      BY <1>1, <2>1, <2>2, <2>4, <3>1, <3>3
    <3>5. QED BY <3>2, <3>4
  <2>5. QED BY <2>3, <2>4
<1>2. ASSUME NEW l \in Lights
      PROVE  /\ g[l] \in LightRecord /\ Smooth(h[l].state, g[l].state)
             /\ g[l].dests # {} => l = Lead(l) /\ g[l].dests = OfRemote(l) /\ g[l].queue # <<>>
             /\ ~g[l].excused => Promised(g, l)
  <2>1. PICK c : HouseOK(c) /\ AllSmooth(h, c) /\ g[l] = c[l] /\ g[Lead(l)] = c[Lead(l)]
    BY <1>1, <1>2
  <2>2. c[l] \in LightRecord /\ Parted(c) /\ (~c[l].excused => Promised(c, l))
    BY <1>2, <2>1 DEF HouseOK, Houses
  <2>3. Promised(c, l) => Promised(g, l)
    BY <2>1 DEF Promised
  <2>4. Smooth(h[l].state, g[l].state)
    BY <1>2, <2>1 DEF AllSmooth
  <2>5. g[l].dests # {} => l = Lead(l) /\ g[l].dests = OfRemote(l) /\ g[l].queue # <<>>
    BY <1>2, <2>1, <2>2 DEF Parted
  <2>6. QED BY <2>1, <2>2, <2>3, <2>4, <2>5
<1>3. g \in Houses
  BY <1>2 DEF Houses, SavedGroupCommanded
<1>4. QED BY <1>2, <1>3 DEF HouseOK, Parted, AllSmooth

----------------------------------------------------------------------------
(* Lemmas: the queues.                                                     *)

(* The front of a queue is gone, heard by its receivers or lost on them.   *)
LEMMA AdvancedKeeps ==
  ASSUME NEW h, HouseOK(h), NEW l \in Lights, h[l].queue # <<>>, NEW R,
         R = CASE h[l].queue[1] = "CHECK" -> {}
               [] h[l].queue[1] # "CHECK" /\ h[l].dests # {} -> h[l].dests
               [] OTHER -> {l},
         NEW m,
         \/ m = [k \in Lights |-> IF k \in R THEN [h[k] EXCEPT !.heard = h[l].queue[1]] ELSE h[k]]
         \/ m = [k \in Lights |-> IF k \in R THEN [h[k] EXCEPT !.excused = TRUE] ELSE h[k]],
         NEW g, g = QueueAdvanced(m, l)
  PROVE  HouseOK(g) /\ AllSmooth(h, g)
<1>1. /\ h \in Houses /\ Parted(h)
      /\ \A k \in Lights : /\ h[k] \in LightRecord /\ h[k].state \in LightStates
                            /\ h[k].queue \in Seq(LightCommands) /\ (~h[k].excused => Promised(h, k))
  BY DEF HouseOK, Houses, LightRecord
<1>2. PICK front : front = h[l].queue[1]
  OBVIOUS
<1>3. front \in LightCommands /\ (front # "CHECK" => front \in Heard)
  BY <1>1, <1>2 DEF LightCommands, Heard
<1>4. /\ front = "CHECK" => R = {}
      /\ front # "CHECK" /\ h[l].dests # {} => R = h[l].dests
      /\ front # "CHECK" /\ h[l].dests = {} => R = {l}
  BY <1>2
<1>5. ASSUME NEW k \in Lights
      PROVE  /\ m[k] \in LightRecord /\ m[k].state = h[k].state /\ m[k].queue = h[k].queue
             /\ m[k].dests = h[k].dests
             /\ k \notin R => m[k].heard = h[k].heard
             /\ ~m[k].excused => ~h[k].excused /\ (k \in R => m[k].heard = front)
  <2>1. CASE k \notin R
    <3>1. m[k] = h[k]
      BY <1>5, <2>1
    <3>2. QED BY <1>1, <1>5, <2>1, <3>1
  <2>2. CASE k \in R
    <3>1. front \in Heard
      BY <1>3, <1>4, <2>2
    <3>2. m[k] = [h[k] EXCEPT !.heard = front] \/ m[k] = [h[k] EXCEPT !.excused = TRUE]
      BY <1>2, <1>5, <2>2
    <3>3. CASE m[k] = [h[k] EXCEPT !.heard = front]
      BY <1>1, <1>5, <2>2, <3>1, <3>3 DEF LightRecord
    <3>4. CASE m[k] = [h[k] EXCEPT !.excused = TRUE]
      BY <1>1, <1>5, <2>2, <3>4 DEF LightRecord
    <3>5. QED BY <3>2, <3>3, <3>4
  <2>3. QED BY <2>1, <2>2
<1>6. PICK q : q = Tail(h[l].queue)
  OBVIOUS
<1>7. q \in Seq(LightCommands)
  BY <1>1, <1>6
<1>8. PICK r : r = [m[l] EXCEPT !.queue = q, !.dests = {}]
  OBVIOUS
<1>9. /\ r \in LightRecord /\ r.state = h[l].state /\ r.queue = q /\ r.dests = {}
      /\ r.heard = m[l].heard /\ (r.excused <=> m[l].excused)
  BY <1>5, <1>7, <1>8 DEF LightRecord
<1>10. g = [m EXCEPT ![l] = r]
  <2>1. g = [m EXCEPT ![l] = [m[l] EXCEPT !.queue = Tail(m[l].queue), !.dests = {}]]
    BY DEF QueueAdvanced
  <2>2. m[l].queue = h[l].queue
    BY <1>5
  <2>3. QED BY <1>6, <1>8, <2>1, <2>2
<1>11. m = [k \in Lights |-> m[k]]
  OBVIOUS
<1>12. g[l] = r /\ \A k \in Lights : k # l => g[k] = m[k]
  BY <1>10, <1>11
<1>13. g \in Houses
  <2>1. \A k \in Lights : g[k] \in LightRecord
    BY <1>5, <1>9, <1>12
  <2>2. g = [k \in Lights |-> g[k]]
    BY <1>10, <1>11
  <2>3. QED BY <2>1, <2>2 DEF Houses
<1>14. Parted(g)
  <2>1. \A k \in Lights : k # l => g[k].dests = h[k].dests /\ g[k].queue = h[k].queue
    BY <1>5, <1>12
  <2>2. g[l].dests = {}
    BY <1>9, <1>12
  <2>3. QED BY <1>1, <2>1, <2>2 DEF Parted
<1>15. ASSUME NEW k \in Lights, ~g[k].excused
       PROVE  Promised(g, k)
  <2>1. ~m[k].excused
    BY <1>9, <1>12, <1>15
  <2>2. Promised(h, k) /\ (k \in R => m[k].heard = front) /\ (k \notin R => m[k].heard = h[k].heard)
    BY <1>1, <1>5, <1>15, <2>1
  <2>3. /\ g[k].state = h[k].state /\ g[k].heard = m[k].heard
        /\ k # l => g[k].queue = h[k].queue
        /\ k = l => g[k].queue = q
    BY <1>5, <1>9, <1>12, <1>15
  <2>4. Lead(k) \in Lights /\ k \in OfRemote(k) /\ (\A j \in OfRemote(l) : Lead(j) = Lead(l))
    BY <1>15, LeadIs
  <2>5. CASE h[Lead(k)].dests = {}
    <3>1. g[Lead(k)].dests = {}
      BY <1>5, <1>9, <1>12, <2>4, <2>5
    <3>2. PICK x \in Heard : Ends(h[k].queue, h[k].heard, x) /\ Follows(h[k].state, x)
      BY <2>2, <2>5 DEF Promised
    <3>3. Ends(g[k].queue, g[k].heard, x)
      <4>1. CASE k = l
        <5>1. Ends(q, IF front = "CHECK" THEN h[l].heard ELSE front, x)
          BY <1>1, <1>2, <1>6, <3>2, <4>1, TailEnds
        <5>2. g[k].heard = IF front = "CHECK" THEN h[l].heard ELSE front
          <6>1. CASE front = "CHECK"
            BY <1>4, <2>2, <2>3, <4>1, <6>1
          <6>2. CASE front # "CHECK" /\ h[l].dests = {}
            BY <1>4, <2>2, <2>3, <4>1, <6>2
          <6>3. CASE h[l].dests # {}
            <7>1. l = Lead(l)
              BY <1>1, <6>3 DEF Parted
            <7>2. QED BY <2>5, <4>1, <6>3, <7>1
          <6>4. QED BY <6>1, <6>2, <6>3
        <5>3. QED BY <2>3, <4>1, <5>1, <5>2
      <4>2. CASE k # l
        <5>1. k \notin R
          <6>1. CASE h[l].dests # {}
            <7>1. l = Lead(l) /\ h[l].dests = OfRemote(l)
              BY <1>1, <6>1 DEF Parted
            <7>2. k \notin OfRemote(l)
              BY <2>4, <2>5, <6>1, <7>1
            <7>3. QED BY <1>4, <6>1, <7>1, <7>2
          <6>2. CASE h[l].dests = {}
            BY <1>4, <4>2, <6>2
          <6>3. QED BY <6>1, <6>2
        <5>2. QED BY <2>2, <2>3, <3>2, <4>2, <5>1
      <4>3. QED BY <4>1, <4>2
    <3>4. QED BY <2>3, <3>1, <3>2, <3>3 DEF Promised
  <2>6. CASE h[Lead(k)].dests # {} /\ Lead(k) # l
    <3>1. g[Lead(k)].dests # {} /\ g[Lead(k)].queue = h[Lead(k)].queue
      BY <1>5, <1>12, <2>4, <2>6
    <3>2. \A j \in DOMAIN h[k].queue : (j = 1 /\ k = Lead(k)) \/ h[k].queue[j] = "CHECK"
      BY <2>2, <2>6 DEF Promised
    <3>3. \A j \in DOMAIN g[k].queue : (j = 1 /\ k = Lead(k)) \/ g[k].queue[j] = "CHECK"
      <4>1. CASE k # l
        BY <2>3, <3>2, <4>1
      <4>2. CASE k = l
        <5>1. \A j \in DOMAIN h[l].queue : j = 1 \/ h[l].queue[j] = "CHECK"
          BY <3>2, <4>2
        <5>2. Checks(q)
          BY <1>1, <1>6, <5>1, TailEnds
        <5>3. QED BY <2>3, <4>2, <5>2 DEF Checks
      <4>3. QED BY <4>1, <4>2
    <3>4. QED BY <2>2, <2>3, <2>6, <3>1, <3>3 DEF Promised
  <2>7. CASE h[Lead(k)].dests # {} /\ Lead(k) = l
    <3>1. /\ front \in {"UP", "DOWN"} /\ Follows(h[k].state, front)
          /\ \A j \in DOMAIN h[k].queue : (j = 1 /\ k = l) \/ h[k].queue[j] = "CHECK"
      BY <1>2, <2>2, <2>7 DEF Promised
    <3>2. k \in R
      <4>1. k \in OfRemote(Lead(k))
        BY <1>15, LeadIs
      <4>2. h[l].dests = OfRemote(l) /\ h[l].dests # {}
        BY <1>1, <2>7 DEF Parted
      <4>3. QED BY <1>4, <2>7, <3>1, <4>1, <4>2
    <3>3. g[k].heard = front /\ g[Lead(k)].dests = {}
      BY <1>9, <1>12, <2>2, <2>3, <2>7, <3>2
    <3>4. Checks(g[k].queue)
      <4>1. CASE k # l
        BY <2>3, <3>1, <4>1 DEF Checks
      <4>2. CASE k = l
        <5>1. \A j \in DOMAIN h[l].queue : j = 1 \/ h[l].queue[j] = "CHECK"
          BY <3>1, <4>2
        <5>2. Checks(q)
          BY <1>1, <1>6, <5>1, TailEnds
        <5>3. QED BY <2>3, <4>2, <5>2
      <4>3. QED BY <4>1, <4>2
    <3>5. Ends(g[k].queue, g[k].heard, front)
      BY <3>3, <3>4 DEF Ends
    <3>6. front \in Heard /\ Follows(g[k].state, front)
      BY <1>3, <2>3, <3>1
    <3>7. QED BY <3>3, <3>5, <3>6 DEF Promised
  <2>8. QED BY <2>5, <2>6, <2>7
<1>16. HouseOK(g)
  BY <1>13, <1>14, <1>15 DEF HouseOK
<1>17. \A k \in Lights : g[k].state = h[k].state
  BY <1>5, <1>9, <1>12
<1>18. AllSmooth(h, g)
  BY <1>1, <1>17, SameSmooth DEF AllSmooth
<1>19. QED BY <1>16, <1>18

(* Time keeps the invariant.                                               *)
LEMMA AgedKeeps ==
  ASSUME NEW h, HouseOK(h), NEW g, g = [l \in Lights |-> [h[l] EXCEPT !.state = Aged(h[l].state)]]
  PROVE  HouseOK(g) /\ AllSmooth(h, g)
<1>1. /\ h \in Houses /\ Parted(h)
      /\ \A k \in Lights : /\ h[k] \in LightRecord /\ h[k].state \in LightStates
                            /\ (~h[k].excused => Promised(h, k))
  BY DEF HouseOK, Houses, LightRecord
<1>2. ASSUME NEW k \in Lights
      PROVE  /\ g[k] \in LightRecord /\ g[k].state = Aged(h[k].state) /\ g[k].queue = h[k].queue
             /\ g[k].dests = h[k].dests /\ g[k].heard = h[k].heard
             /\ g[k].excused = h[k].excused
             /\ Smooth(h[k].state, g[k].state)
             /\ \A x : Follows(g[k].state, x) <=> Follows(h[k].state, x)
  <2>1. PICK s : s = Aged(h[k].state)
    OBVIOUS
  <2>2. /\ s \in LightStates /\ Smooth(h[k].state, s)
        /\ \A x : Follows(s, x) <=> Follows(h[k].state, x)
    BY <1>1, <1>2, <2>1, AgedType
  <2>3. g[k] = [h[k] EXCEPT !.state = s]
    BY <1>2, <2>1
  <2>4. QED BY <1>1, <1>2, <2>1, <2>2, <2>3 DEF LightRecord
<1>3. g \in Houses
  BY <1>2 DEF Houses
<1>4. Parted(g)
  BY <1>1, <1>2 DEF Parted
<1>5. ASSUME NEW k \in Lights, ~g[k].excused PROVE Promised(g, k)
  <2>1. Promised(h, k) /\ Lead(k) \in Lights
    BY <1>1, <1>2, <1>5, LeadIs
  <2>2. /\ g[Lead(k)].dests = h[Lead(k)].dests /\ g[Lead(k)].queue = h[Lead(k)].queue
        /\ g[k].queue = h[k].queue /\ g[k].heard = h[k].heard
        /\ \A x : Follows(g[k].state, x) <=> Follows(h[k].state, x)
    BY <1>2, <1>5, <2>1
  <2>3. QED BY <2>1, <2>2 DEF Promised
<1>6. QED BY <1>2, <1>3, <1>4, <1>5 DEF HouseOK, AllSmooth

----------------------------------------------------------------------------
(* The theorems.                                                           *)

(* The invariant holds in the beginning.                                   *)
LEMMA LightStarts ==
  ASSUME LightInit
  PROVE  HouseOK(house)
<1>1. house = [l \in Lights |-> Fresh]
  BY DEF LightInit
<1>2. PICK q : q = <<>> /\ q \in Seq(LightCommands) /\ DOMAIN q = {}
  <2>1. PICK q : q = <<>>
    OBVIOUS
  <2>2. q \in Seq(LightCommands) /\ DOMAIN q = {}
    BY <2>1
  <2>3. QED BY <2>1, <2>2
<1>3. LightOff \in LightStates /\ LightOff.is = "Off" /\ "none" \in Heard
  BY DEF LightStates, LightOff, Heard
<1>4. \A l \in Lights : /\ house[l].state = LightOff /\ house[l].queue = q /\ house[l].dests = {}
                        /\ house[l].heard = "none" /\ house[l] \in LightRecord
  BY <1>1, <1>2, <1>3 DEF Fresh, LightRecord
<1>5. house \in Houses
  BY <1>1, <1>4 DEF Houses
<1>6. ASSUME NEW l \in Lights PROVE Promised(house, l)
  <2>1. Lead(l) \in Lights
    BY <1>6, LeadIs
  <2>2. Ends(q, "none", "none")
    BY <1>2 DEF Ends, Checks
  <2>3. Follows(LightOff, "none")
    BY <1>3 DEF Follows
  <2>4. QED BY <1>3, <1>4, <1>6, <2>1, <2>2, <2>3 DEF Promised
<1>7. QED BY <1>4, <1>5, <1>6 DEF HouseOK, Parted

(* Every step keeps the invariant and moves the brightness smoothly.       *)
LEMMA LightSteps ==
  ASSUME HouseOK(house), [LightNext]_lightVars
  PROVE  HouseOK(house)' /\ AllSmooth(house, house')
<1>1. \A l \in Lights : house[l] \in LightRecord /\ house[l].state \in LightStates
  BY DEF HouseOK, Houses, LightRecord
<1>2. ASSUME NEW l \in Lights, CommandLight(l)
      PROVE  HouseOK(house') /\ AllSmooth(house, house')
  BY <1>2, CommandedKeeps DEF CommandLight, Ordered
<1>3. ASSUME NEW l \in Lights, SetLightBrightness(l)
      PROVE  HouseOK(house') /\ AllSmooth(house, house')
  BY <1>3, BrightenedKeeps DEF SetLightBrightness, Ordered
<1>4. ASSUME NEW l \in Lights, Report(l)
      PROVE  HouseOK(house') /\ AllSmooth(house, house')
  <2>1. PICK report \in {"on", "off"} :
          house' = [house EXCEPT ![l] = [house[l] EXCEPT !.state = OnRfStatus(house[l].state, report),
                                                         !.excused = TRUE]]
    BY <1>4 DEF Report, Ordered
  <2>2. PICK s : s = OnRfStatus(house[l].state, report)
    OBVIOUS
  <2>3. s \in LightStates /\ s \in {OnTurnOn, OnTurnOff}
    BY <2>2, LightAssumption DEF OnRfStatus, OnTurnOn, OnTurnOff, LightStates
  <2>4. Smooth(house[l].state, s)
    BY <2>3 DEF Smooth
  <2>5. QED BY <1>4, <2>1, <2>2, <2>3, <2>4, ExcusedKeeps
<1>5. ASSUME NEW l \in Lights, LoopLight(l)
      PROVE  HouseOK(house') /\ AllSmooth(house, house')
  <2>1. PICK s : s = OnTick(house[l].state)
    OBVIOUS
  <2>2. s # house[l].state /\ house' = Told(house, l, s, "RELEASE") /\ "RELEASE" \in LightButtons
    BY <1>5, <2>1 DEF LoopLight, LightButtons
  <2>3. s \in LightStates /\ Smooth(house[l].state, s) /\ Follows(s, "RELEASE")
    BY <1>1, <1>5, <2>1, <2>2, TickType
  <2>4. QED BY <1>5, <2>2, <2>3, ToldKeeps
<1>6. ASSUME NEW l \in Lights, Transmit(l)
      PROVE  HouseOK(house') /\ AllSmooth(house, house')
  <2>1. PICK m : m = [k \in Lights |-> IF k \in Receivers(l)
                        THEN [house[k] EXCEPT !.heard = house[l].queue[1]] ELSE house[k]]
    OBVIOUS
  <2>2. house[l].queue # <<>> /\ house' = QueueAdvanced(m, l)
    BY <1>6, <2>1 DEF Transmit
  <2>3. PICK g : g = QueueAdvanced(m, l)
    OBVIOUS
  <2>4. HouseOK(g) /\ AllSmooth(house, g)
    BY <1>6, <2>1, <2>2, <2>3, AdvancedKeeps DEF Receivers
  <2>5. QED BY <2>2, <2>3, <2>4
<1>7. ASSUME NEW l \in Lights, GiveUp(l)
      PROVE  HouseOK(house') /\ AllSmooth(house, house')
  <2>1. PICK m : m = [k \in Lights |-> IF k \in Receivers(l)
                        THEN [house[k] EXCEPT !.excused = TRUE] ELSE house[k]]
    OBVIOUS
  <2>2. house[l].queue # <<>> /\ house' = QueueAdvanced(m, l)
    BY <1>7, <2>1 DEF GiveUp
  <2>3. PICK g : g = QueueAdvanced(m, l)
    OBVIOUS
  <2>4. HouseOK(g) /\ AllSmooth(house, g)
    BY <1>7, <2>1, <2>2, <2>3, AdvancedKeeps DEF Receivers
  <2>5. QED BY <2>2, <2>3, <2>4
<1>8. ASSUME CommandSavedGroup
      PROVE  HouseOK(house') /\ AllSmooth(house, house')
  BY <1>8, SavedKeeps DEF CommandSavedGroup, Ordered
<1>9. ASSUME DimTick
      PROVE  HouseOK(house') /\ AllSmooth(house, house')
  <2>1. house' = [l \in Lights |-> [house[l] EXCEPT !.state = Aged(house[l].state)]]
    BY <1>9 DEF DimTick
  <2>2. QED BY <2>1, AgedKeeps
<1>10. ASSUME UNCHANGED lightVars
       PROVE  HouseOK(house') /\ AllSmooth(house, house')
  <2>1. house' = house
    BY <1>10 DEF lightVars
  <2>2. AllSmooth(house, house)
    BY <1>1, SameSmooth DEF AllSmooth
  <2>3. QED BY <2>1, <2>2
<1>11. HouseOK(house') /\ AllSmooth(house, house')
  BY <1>2, <1>3, <1>4, <1>5, <1>6, <1>7, <1>8, <1>9, <1>10 DEF LightNext
<1>12. QED BY <1>11

(* The inductive invariant: a light that nothing excuses is estimated as   *)
(* the last button that is still to reach it makes it, and destinations    *)
(* are stored with the lead of a remote (device_registry.cpp               *)
(* command_light, set_light_brightness, command_group, loop_light_).       *)
THEOREM LightHouse == LightSpec => []HouseOK(house)
<1>1. LightInit => HouseOK(house)
  BY LightStarts
<1>2. HouseOK(house) /\ [LightNext]_lightVars => HouseOK(house)'
  BY LightSteps
<1>3. QED BY <1>1, <1>2, PTL DEF LightSpec

(* When nothing is left to be sent, the estimate of a light is what the    *)
(* last button it received makes of it (device_registry.cpp                *)
(* set_light_brightness, loop_light_, command_group).                      *)
THEOREM LightEstimateAsHeard == LightSpec => []EstimateAsHeard
<1>1. HouseOK(house) => EstimateAsHeard
  <2>1. SUFFICES ASSUME HouseOK(house), NEW l \in Lights, Quiet(l), ~house[l].excused
                 PROVE  Follows(house[l].state, house[l].heard)
    BY DEF EstimateAsHeard
  <2>2. Promised(house, l) /\ house \in Houses /\ Parted(house)
    BY <2>1 DEF HouseOK
  <2>3. house[Lead(l)].dests = {} /\ house[l].queue = <<>>
    BY <2>1, <2>2, EntangledIs DEF Quiet
  <2>4. PICK x \in Heard : Ends(house[l].queue, house[l].heard, x) /\ Follows(house[l].state, x)
    BY <2>2, <2>3 DEF Promised
  <2>5. DOMAIN house[l].queue = {}
    BY <2>3
  <2>6. x = house[l].heard
    BY <2>4, <2>5 DEF Ends
  <2>7. QED BY <2>4, <2>6
<1>2. QED BY <1>1, LightHouse, PTL

(* The estimate of a dimmable light moves by at most one step at a time    *)
(* unless the light is switched, reports, or is asked for less than a      *)
(* percent (light_sm.cpp on_set_brightness, brightness).                   *)
THEOREM LightDimsSmoothly == LightSpec => DimsSmoothly
<1>1. HouseOK(house) /\ [LightNext]_lightVars
        => [\A l \in Dimmable :
              \/ Near(Brightness(house'[l].state), Brightness(house[l].state))
              \/ house'[l].state \in {OnTurnOn, OnTurnOff}]_lightVars
  <2>1. SUFFICES ASSUME HouseOK(house), [LightNext]_lightVars, NEW l \in Dimmable
                 PROVE  \/ Near(Brightness(house'[l].state), Brightness(house[l].state))
                        \/ house'[l].state \in {OnTurnOn, OnTurnOff}
    OBVIOUS
  <2>2. l \in Lights
    BY <2>1, LightsAssumption
  <2>3. Smooth(house[l].state, house'[l].state)
    BY <2>1, <2>2, LightSteps DEF AllSmooth
  <2>4. QED BY <2>3 DEF Smooth
<1>2. QED BY <1>1, LightHouse, PTL DEF LightSpec, DimsSmoothly
=============================================================================
