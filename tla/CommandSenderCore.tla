------------------------- MODULE CommandSenderCore -------------------------
(***************************************************************************)
(* The per-device transmit sequencer, class CommandSender of               *)
(* components/elero/command_sender.h, as operators on one sender record.   *)
(* The state machines that own senders (one sender against an abstract     *)
(* radio, many senders behind the hub's queues) build their actions from   *)
(* these operators, so that the handlers are written down once.            *)
(*                                                                         *)
(* Time is abstracted to one bit: "delaying" says that next_attempt_ms_    *)
(* lies in the future.  What the wrapping millisecond clock makes of that  *)
(* deadline is the subject of module SenderClock.                          *)
(***************************************************************************)
EXTENDS Naturals, Sequences

CONSTANTS
  Commands,     \* the (cmd, type) pairs that are enqueued
  Buttons,      \* those of type BUTTON (0x44); the others are COMMAND (0x6a)
  PacketsOf,    \* RF packets per command: button::PACKETS or CHECK_PACKETS
  Channels,     \* channels a group packet can address
  MAX_QUEUE,    \* packet::limits::MAX_COMMAND_QUEUE
  SEND_RETRIES, \* packet::limits::SEND_RETRIES
  COUNTER_MAX   \* packet::limits::COUNTER_MAX

ASSUME CommandsAssumption ==
  /\ Buttons \subseteq Commands
  /\ PacketsOf \in [Commands -> Nat \ {0}]

ASSUME LimitsAssumption ==
  /\ MAX_QUEUE \in Nat \ {0}
  /\ SEND_RETRIES \in Nat \ {0}
  /\ COUNTER_MAX \in Nat \ {0}

State == {"IDLE", "WAIT_DELAY", "TX_PENDING"}

(* A queued command.  "id" and "for" are history: which enqueue it came    *)
(* from, and the channels its caller meant ({} unless a group command).    *)
Entry == [id : Nat, cmd : Commands, for : SUBSET Channels]

(* "dests" is command_.num_dests with command_.dest_channels: {} when      *)
(* num_dests is 0.                                                         *)
Sender ==
  [queue     : Seq(Entry),
   state     : State,
   delaying  : BOOLEAN,
   packets   : Nat,
   retries   : 0 .. SEND_RETRIES,
   counter   : 1 .. COUNTER_MAX,
   dests     : SUBSET Channels,
   cancelled : BOOLEAN]

NewSender ==
  [queue |-> <<>>, state |-> "IDLE", delaying |-> TRUE, packets |-> 0,
   retries |-> 0, counter |-> 1, dests |-> {}, cancelled |-> FALSE]

FrontOf(s) == s.queue[1]

NextCounter(c) == IF c >= COUNTER_MAX THEN 1 ELSE c + 1

(* enqueue(): a command equal to the last queued one is collapsed into it, *)
(* a full queue refuses, anything else is appended.                        *)
Collapses(s, cmd) == s.queue # <<>> /\ s.queue[Len(s.queue)].cmd = cmd

Refuses(s, cmd) == ~Collapses(s, cmd) /\ Len(s.queue) >= MAX_QUEUE

Push(s, e) ==
  [s EXCEPT !.queue = Append(@, e),
            !.state = IF @ = "IDLE" THEN "WAIT_DELAY" ELSE @]

(* clear_queue(): a request already posted to the RF task cannot be taken  *)
(* back, so its completion is marked to be ignored instead.                *)
UnmarkedRequest(s) == [s EXCEPT !.counter = NextCounter(@)]     \* mutant

SameCounterRequest(s) == [s EXCEPT !.cancelled = TRUE]            \* mutant

CancelRequest(s) == [s EXCEPT !.counter = NextCounter(@), !.cancelled = TRUE]

ClearQueue(s) ==
  LET cleared == [s EXCEPT !.queue = <<>>, !.packets = 0, !.retries = 0,
                           !.delaying = FALSE]
  IN  IF s.state = "TX_PENDING"
      THEN CancelRequest(cleared)
      ELSE [cleared EXCEPT !.state = "IDLE"]

(* advance_queue_(): pop the front command.  "delay" is whether the next   *)
(* deadline, last_tx_time_ + INTER_PACKET_MS, is still ahead: it is after  *)
(* a completion, which has just set last_tx_time_, and is not after the    *)
(* TX_PENDING timeout.                                                     *)
AdvanceQueue(s, delay) ==
  LET rest == IF s.queue = <<>> THEN <<>> ELSE Tail(s.queue)
  IN  [s EXCEPT !.queue = rest, !.packets = 0, !.retries = 0, !.dests = {},
                !.counter = NextCounter(@),
                !.state = IF rest = <<>> THEN "IDLE" ELSE "WAIT_DELAY",
                !.delaying = IF rest = <<>> THEN @ ELSE delay]

(* The common tail of a failed completion and of the TX_PENDING timeout:   *)
(* drop the command after SEND_RETRIES retries, back off before that.      *)
GivesUpLate(s) == s.retries > SEND_RETRIES                        \* mutant

GivesUp(s) == s.retries + 1 > SEND_RETRIES

FailAttemptUncounted(s, delay) ==                                 \* mutant
  [s EXCEPT !.delaying = TRUE, !.state = "WAIT_DELAY"]

FailAttempt(s, delay) ==
  IF GivesUp(s)
  THEN AdvanceQueue(s, delay)
  ELSE [s EXCEPT !.retries = @ + 1, !.delaying = TRUE, !.state = "WAIT_DELAY"]

(* process_queue(), one operator per outcome.                              *)
CanRequest(s) ==
  /\ s.state \in {"IDLE", "WAIT_DELAY"}
  /\ s.queue # <<>>
  /\ ~s.delaying

RequestedUnmarked(s) == s                                         \* mutant

Requested(s) == [s EXCEPT !.state = "TX_PENDING"]

Woken(s) == [s EXCEPT !.state = "WAIT_DELAY"]

CanSettle(s) == s.state = "WAIT_DELAY" /\ s.queue = <<>> /\ ~s.delaying

Settled(s) == [s EXCEPT !.state = "IDLE", !.cancelled = FALSE]

TimedOutKeepsWaiting(s) == s                                      \* mutant

TimedOut(s) == FailAttempt(s, FALSE)

(* on_tx_complete().  A completion that finds no request pending is stale  *)
(* and ignored; one that finds the request cancelled only ends it.         *)
CountsCancelled(s) == s.state = "TX_PENDING"                      \* mutant

Counts(s) == s.state = "TX_PENDING" /\ ~s.cancelled

Forgotten(s) ==
  [s EXCEPT !.cancelled = FALSE, !.packets = 0, !.retries = 0, !.state = "IDLE"]

NextPacketKeepsRetries(s) ==                                      \* mutant
  [s EXCEPT !.packets = @ + 1, !.delaying = TRUE, !.state = "WAIT_DELAY"]

NextPacket(s) ==
  [s EXCEPT !.retries = 0, !.packets = @ + 1, !.delaying = TRUE,
            !.state = "WAIT_DELAY"]

TargetPackets(s) ==
  IF s.queue = <<>> THEN 3 ELSE PacketsOf[FrontOf(s).cmd]

LastPacketEarly(s) == s.packets + 2 >= TargetPackets(s)           \* mutant

LastPacket(s) == s.packets + 1 >= TargetPackets(s)

OnTxComplete(s, success) ==
  CASE s.state # "TX_PENDING" -> s
    [] s.state = "TX_PENDING" /\ ~Counts(s) -> Forgotten(s)
    [] Counts(s) /\ ~success -> FailAttempt(s, TRUE)
    [] Counts(s) /\ success /\ LastPacket(s) -> AdvanceQueue(s, TRUE)
    [] Counts(s) /\ success /\ ~LastPacket(s) -> NextPacket(s)

(* build_tx_packet_() of the hub: a button with more than one destination  *)
(* becomes a group packet; the single-channel and the targeted packets     *)
(* address the sender's own device.                                        *)
Addressed(s) ==
  IF FrontOf(s).cmd \in Buttons THEN s.dests ELSE {}
=============================================================================
