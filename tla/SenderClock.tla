---------------------------- MODULE SenderClock ----------------------------
(***************************************************************************)
(* One CommandSender with its deadlines as what they are: timestamps of    *)
(* the wrapping clock of module Clock.                                     *)
(*                                                                         *)
(* The bit "delaying" of module CommandSenderCore is kept beside the real  *)
(* deadline, as the prediction that the other modules work with, so that   *)
(* the two can be compared.  "due" and "started" are true time, as         *)
(* "uptime" is.                                                            *)
(***************************************************************************)
EXTENDS CommandSenderCore, Clock

CONSTANT MaxOutstanding  \* bound: requests without a delivered completion

ASSUME OutstandingAssumption == MaxOutstanding \in Nat

VARIABLES
  sender,       \* the CommandSender; its "delaying" is the prediction
  nextAttempt,  \* next_attempt_ms_
  lastTx,       \* last_tx_time_
  txStart,      \* tx_start_time_
  outstanding,  \* how many accepted requests have no delivered completion
  due,          \* true time before which no request is due
  started       \* true time of the last request

vars == <<sender, nextAttempt, lastTx, txStart, outstanding, uptime, due, started>>

Init ==
  /\ uptime = 0 /\ due = INTER_PACKET_MS /\ started = 0
  /\ sender = NewSender
  /\ nextAttempt = INTER_PACKET_MS
  /\ lastTx = 0 /\ txStart = 0
  /\ outstanding = 0

----------------------------------------------------------------------------
EnqueueCommand(cmd) ==
  /\ ~Collapses(sender, cmd) /\ ~Refuses(sender, cmd)
  /\ sender' = Push(sender, [id |-> 0, cmd |-> cmd, for |-> {}])
  /\ UNCHANGED <<nextAttempt, lastTx, txStart, outstanding, uptime, due, started>>

Clear ==
  /\ sender' = ClearQueue(sender)
  /\ lastTx' = 0 /\ nextAttempt' = 0
  /\ due' = uptime
  /\ UNCHANGED <<txStart, outstanding, uptime, started>>

(* process_queue() before the deadline, or with the request refused.       *)
Wake ==
  /\ sender.state = "IDLE" /\ sender.queue # <<>>
  /\ sender' = Woken(sender)
  /\ UNCHANGED <<nextAttempt, lastTx, txStart, outstanding, uptime, due, started>>

(* process_queue() with the deadline reached.                              *)
Request ==
  /\ sender.state \in {"IDLE", "WAIT_DELAY"} /\ sender.queue # <<>>
  /\ TimeReached(nextAttempt)
  /\ outstanding < MaxOutstanding
  /\ sender' = Requested(sender)
  /\ txStart' = now /\ started' = uptime
  /\ outstanding' = outstanding + 1
  /\ UNCHANGED <<nextAttempt, lastTx, uptime, due>>

Settle ==
  /\ sender.state = "WAIT_DELAY" /\ sender.queue = <<>>
  /\ TimeReached(nextAttempt)
  /\ sender' = Settled(sender)
  /\ UNCHANGED <<nextAttempt, lastTx, txStart, outstanding, uptime, due, started>>

(* The deadline after a failed attempt: the backoff, or if the command is  *)
(* dropped the one that advance_queue_() computes from last_tx_time_.      *)
FailDeadline(tx) ==
  IF ~GivesUp(sender)
  THEN /\ nextAttempt' = Later(now, Backoff(sender.retries + 1))
       /\ due' = uptime + Backoff(sender.retries + 1)
  ELSE /\ nextAttempt' = IF sender'.state = "WAIT_DELAY"
                         THEN Later(tx, INTER_PACKET_MS) ELSE nextAttempt
       /\ UNCHANGED due

Timeout ==
  /\ sender.state = "TX_PENDING"
  /\ Age(txStart) > TX_PENDING_TIMEOUT
  /\ sender' = TimedOut(sender)
  /\ FailDeadline(lastTx)
  /\ UNCHANGED <<lastTx, txStart, outstanding, uptime, started>>

(* on_tx_complete().                                                       *)
Ignored(ok) ==
  /\ ~Counts(sender)
  /\ UNCHANGED <<lastTx, nextAttempt, due>>

CompletedFailed ==
  /\ Counts(sender)
  /\ lastTx' = now
  /\ FailDeadline(now)

CompletedOk ==
  /\ Counts(sender)
  /\ lastTx' = now
  /\ nextAttempt' = IF sender'.state = "WAIT_DELAY"
                    THEN Later(now, INTER_PACKET_MS) ELSE nextAttempt
  /\ due' = IF sender'.state = "WAIT_DELAY" THEN uptime + INTER_PACKET_MS ELSE due

Complete(ok) ==
  /\ outstanding > 0
  /\ outstanding' = outstanding - 1
  /\ sender' = OnTxComplete(sender, ok)
  /\ Ignored(ok) \/ (ok /\ CompletedOk) \/ (~ok /\ CompletedFailed)
  /\ UNCHANGED <<txStart, uptime, started>>

LoseCompletion ==
  /\ outstanding > 0
  /\ outstanding' = outstanding - 1
  /\ UNCHANGED <<sender, nextAttempt, lastTx, txStart, uptime, due, started>>

(* A millisecond passes.  The prediction ends when the deadline is reached *)
(* in true time.                                                           *)
Tick ==
  /\ uptime < MaxUptime
  /\ uptime' = uptime + 1
  /\ UNCHANGED <<nextAttempt, lastTx, txStart, outstanding, due, started>>
  /\ sender' = [sender EXCEPT !.delaying = @ /\ ~TimeReached(nextAttempt)']

Enqueues == \E cmd \in Commands : EnqueueCommand(cmd)
Completes == \E ok \in BOOLEAN : Complete(ok)

Next ==
  \/ Enqueues \/ Clear \/ Wake \/ Request \/ Settle \/ Timeout
  \/ Completes \/ LoseCompletion \/ Tick

Spec == Init /\ [][Next]_vars

----------------------------------------------------------------------------
(* Properties                                                              *)

(* In the first half of the clock's range the bit of CommandSenderCore is  *)
(* exact: it says whether next_attempt_ms_ lies ahead, after each handler. *)
DelayIsDeadline ==
  uptime < Wrap \div 2 =>
    (sender.delaying <=> ~TimeReached(nextAttempt))

(* For ever, across the wrap: no packet is requested before the gap or the *)
(* backoff since the last attempt has really passed.                       *)
NeverEarly ==
  [][outstanding' > outstanding => uptime >= due]_vars

(* For ever, across the wrap: the watchdog gives a request up only when it *)
(* has really been pending for longer than TX_PENDING_TIMEOUT.             *)
WatchdogWaits ==
  [][ (sender.state = "TX_PENDING" /\ sender'.state # "TX_PENDING"
       /\ outstanding' = outstanding) =>
        uptime - started > TX_PENDING_TIMEOUT ]_vars

(* test_command_sender.cpp: "Clear and enqueue STOP - should transmit      *)
(* without 50ms wait": after clear_queue() the deadline is reached at once *)
(* and stays so.                                                           *)
ClearedMeansReached ==
  nextAttempt = 0 => TimeReached(nextAttempt)
=============================================================================
