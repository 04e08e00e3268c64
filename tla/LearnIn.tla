------------------------------ MODULE LearnIn ------------------------------
(***************************************************************************)
(* LearnInManager (components/elero/learn_in_manager.cpp, .h): the session *)
(* in which a drive learns the remote: a programming command, then UP and  *)
(* DOWN, each when the user has confirmed what the drive did.  It runs on  *)
(* the clock of module Clock, and sends through request_tx(), whose        *)
(* completions come in order, arbitrarily late, or never.                  *)
(*                                                                         *)
(* The packet itself (addresses, channel, rolling counter) is left out.    *)
(***************************************************************************)
EXTENDS Clock, Sequences

CONSTANTS
  LEARN_RETRIES,    \* packet::limits::SEND_RETRIES
  SessionTimeouts,  \* session_timeout_ms of the start requests
  PacketCounts,     \* packets of the start requests
  MaxRequests,      \* bound: requests that are not answered or lost yet
  MaxSessions       \* bound: sessions started

ASSUME LearnAssumption ==
  /\ {LEARN_RETRIES, MaxRequests, MaxSessions} \subseteq Nat
  /\ PacketCounts \subseteq 1 .. 255
  /\ SessionTimeouts \subseteq 0 .. Wrap - 1

VARIABLES
  learn,     \* the fields of the LearnInManager, see LearnInManager
  requests,  \* accepted requests; TRUE: the manager waits for this one
  confirmed, \* history: successes of its own requests since the step began
  misled,    \* history: a late completion was taken for that of the pending
             \* request since the session was started
  sessions   \* how often start() succeeded (bound)

learnVars == <<learn, requests, confirmed, misled, sessions, uptime>>

Active == {"PROGRAMMING", "WAIT_UP", "CONFIRMING_UP", "WAIT_DOWN", "CONFIRMING_DOWN"}
Terminal == {"COMPLETE", "FAILED", "CANCELLED", "TIMED_OUT"}
Steps == {"program", "UP", "DOWN"}
NoStep == "none"  \* queued_step_ == 0

LearnInManager ==
  [state : Active \cup Terminal \cup {"IDLE"}, queuedStep : Steps \cup {NoStep},
   sent : 0 .. 255, retries : 0 .. LEARN_RETRIES + 1, nextAttempt : 0 .. Wrap - 1,
   txStart : 0 .. Wrap - 1, deadline : 0 .. Wrap - 1, packets : 1 .. 255,
   pending : BOOLEAN, ignore : BOOLEAN]

is_busy == learn.pending \/ learn.queuedStep # NoStep

(* reset_transport_ and reset_all_; packets_per_step_ is set again by      *)
(* prime_session_ after it.                                                *)
ResetTransport(m) ==
  [m EXCEPT !.queuedStep = NoStep, !.sent = 0, !.retries = 0, !.nextAttempt = 0,
            !.txStart = 0, !.pending = FALSE]

ResetAll(m) == [ResetTransport(m) EXCEPT !.ignore = FALSE, !.deadline = 0, !.state = "IDLE"]

(* queue_step_; programming_cmd may be 0, which is no step.                *)
QueueStep(m, step, state) ==
  [m EXCEPT !.queuedStep = step, !.sent = 0, !.retries = 0, !.nextAttempt = 0,
            !.txStart = 0, !.state = state]

LearnInit ==
  /\ learn = [state |-> "IDLE", queuedStep |-> NoStep, sent |-> 0, retries |-> 0,
              nextAttempt |-> 0, txStart |-> 0, deadline |-> 0, packets |-> 1,
              pending |-> FALSE, ignore |-> FALSE]
  /\ requests = <<>> /\ confirmed = 0 /\ misled = FALSE /\ sessions = 0
  /\ uptime = 0

(* The requests in flight are no longer the one that is waited for.        *)
Disowned == [k \in DOMAIN requests |-> FALSE]

----------------------------------------------------------------------------
LearnStart(packets, timeout, step) ==
  /\ learn.state \notin Active /\ ~is_busy
  /\ sessions < MaxSessions /\ sessions' = sessions + 1
  /\ learn' = QueueStep([ResetAll(learn) EXCEPT !.packets = packets,
                                                !.deadline = Later(now, timeout)],
                        step, "PROGRAMMING")
  /\ confirmed' = 0 /\ misled' = FALSE
  /\ UNCHANGED <<requests, uptime>>

Confirm(step, waiting, confirming) ==
  /\ learn.state = waiting /\ ~is_busy
  /\ learn' = QueueStep(learn, step, confirming)
  /\ confirmed' = 0
  /\ UNCHANGED <<requests, misled, sessions, uptime>>

ConfirmUp == Confirm("UP", "WAIT_UP", "CONFIRMING_UP")
ConfirmDown == Confirm("DOWN", "WAIT_DOWN", "CONFIRMING_DOWN")

\* mutant: the step that is queued survives the cancellation
LearnCancelKeepsStep ==
  /\ learn.state # "IDLE" \/ is_busy
  /\ learn' = [learn EXCEPT !.ignore = @ \/ learn.pending, !.pending = FALSE,
                            !.state = "CANCELLED"]
  /\ requests' = Disowned
  /\ UNCHANGED <<confirmed, misled, sessions, uptime>>

LearnCancel ==
  /\ learn.state # "IDLE" \/ is_busy
  /\ learn' = [ResetTransport(learn) EXCEPT !.ignore = learn.pending, !.state = "CANCELLED"]
  /\ requests' = Disowned
  /\ UNCHANGED <<confirmed, misled, sessions, uptime>>

----------------------------------------------------------------------------
(* on_tx_complete.                                                         *)
NextState ==
  CASE learn.state = "PROGRAMMING"     -> "WAIT_UP"
    [] learn.state = "CONFIRMING_UP"   -> "WAIT_DOWN"
    [] learn.state = "CONFIRMING_DOWN" -> "COMPLETE"
    [] OTHER                           -> "FAILED"

Succeeded ==
  LET m == [learn EXCEPT !.pending = FALSE, !.retries = 0, !.sent = @ + 1] IN
  IF m.sent < m.packets
  THEN [m EXCEPT !.nextAttempt = Later(now, INTER_PACKET_MS)]
  ELSE [ResetTransport(m) EXCEPT !.state = NextState]

\* mutant: a packet that failed counts as sent once it was retried
FailedCounts ==
  LET m == [learn EXCEPT !.pending = FALSE, !.retries = @ + 1, !.sent = @ + 1] IN
  IF m.sent >= m.packets
  THEN [ResetTransport(m) EXCEPT !.state = NextState]
  ELSE [m EXCEPT !.nextAttempt = Later(now, Backoff(m.retries))]

Failed ==
  LET m == [learn EXCEPT !.pending = FALSE, !.retries = @ + 1] IN
  IF m.retries > LEARN_RETRIES
  THEN [ResetTransport(m) EXCEPT !.state = "FAILED"]
  ELSE [m EXCEPT !.nextAttempt = Later(now, Backoff(m.retries))]

LearnOnTxComplete(success) ==
  CASE learn.ignore                    -> [learn EXCEPT !.ignore = FALSE, !.pending = FALSE]
    [] ~learn.ignore /\ ~learn.pending -> learn
    [] ~learn.ignore /\ learn.pending  -> IF success THEN Succeeded ELSE Failed

(* The completion of the oldest request is delivered.                      *)
LearnComplete(success) ==
  LET counts == learn.pending /\ ~learn.ignore IN
  /\ requests # <<>>
  /\ learn' = LearnOnTxComplete(success)
  /\ confirmed' = IF counts /\ success /\ Head(requests) THEN confirmed + 1 ELSE confirmed
  /\ misled' = (misled \/ (counts /\ ~Head(requests)))
  /\ requests' = IF counts THEN Tail(Disowned) ELSE Tail(requests)
  /\ UNCHANGED <<sessions, uptime>>

LearnLose ==
  /\ requests # <<>>
  /\ requests' = Tail(requests)
  /\ UNCHANGED <<learn, confirmed, misled, sessions, uptime>>

----------------------------------------------------------------------------
(* loop().                                                                 *)
Expired == learn.state \in Active /\ learn.deadline # 0 /\ TimeReached(learn.deadline)

SessionTimeout ==
  /\ Expired
  /\ learn' = [ResetTransport(learn) EXCEPT !.ignore = learn.pending, !.state = "TIMED_OUT"]
  /\ requests' = Disowned
  /\ UNCHANGED <<confirmed, misled, sessions, uptime>>

TxTimeout ==
  /\ ~Expired /\ learn.pending
  /\ Age(learn.txStart) > TX_PENDING_TIMEOUT
  /\ learn' = LearnOnTxComplete(FALSE)
  /\ requests' = Disowned
  /\ UNCHANGED <<confirmed, misled, sessions, uptime>>

RequestTx ==
  /\ ~Expired /\ ~learn.pending /\ learn.queuedStep # NoStep
  /\ TimeReached(learn.nextAttempt)
  /\ Len(requests) < MaxRequests
  /\ learn' = [learn EXCEPT !.pending = TRUE, !.txStart = now]
  /\ requests' = Append(requests, TRUE)
  /\ UNCHANGED <<confirmed, misled, sessions, uptime>>

LearnTick ==
  /\ uptime < MaxUptime /\ uptime' = uptime + 1
  /\ UNCHANGED <<learn, requests, confirmed, misled, sessions>>

LearnStarts ==
  \E packets \in PacketCounts, timeout \in SessionTimeouts, step \in {"program", NoStep} :
    LearnStart(packets, timeout, step)

LearnNext ==
  \/ LearnStarts \/ ConfirmUp \/ ConfirmDown \/ LearnCancel
  \/ \E success \in BOOLEAN : LearnComplete(success)
  \/ LearnLose \/ SessionTimeout \/ TxTimeout \/ RequestTx \/ LearnTick

LearnSpec == LearnInit /\ [][LearnNext]_learnVars

----------------------------------------------------------------------------
(* Every step that was taken as done was sent packets_per_step_ times with *)
(* success, by requests of this very step, unless a completion came so     *)
(* late that it was taken for a later request's (learn_in_manager.cpp      *)
(* on_tx_complete: cancel() and the session timeout ignore the completion  *)
(* they leave behind, but start() forgets that it is to be ignored).       *)
Advances ==
  \/ learn.state \in {"PROGRAMMING", "CONFIRMING_UP"} /\ learn'.state \in {"WAIT_UP", "WAIT_DOWN"}
  \/ learn.state # "COMPLETE" /\ learn'.state = "COMPLETE"
ConfirmedSteps == [][Advances => misled' \/ confirmed' = learn.packets]_learnVars

(* What has ended stays ended: after COMPLETE, FAILED, CANCELLED or        *)
(* TIMED_OUT nothing is sent any more and no completion, however late,     *)
(* changes the state; only a new start() or a cancel() does.               *)
EndsStay ==
  [][learn.state \in Terminal =>
       /\ Len(requests') <= Len(requests)
       /\ \/ learn'.state \in {learn.state, "CANCELLED"}
          \/ sessions' > sessions]_learnVars

(* test_learn_in_manager.cpp FullLearnInFlowCompletes: the first packet of *)
(* a step is requested by the loop() that follows start(), confirm_up() or *)
(* confirm_down(), so that a step is due when it is queued.                *)
StepIsDue ==
  [][learn.queuedStep = NoStep /\ learn'.queuedStep # NoStep
       => TimeReached(learn'.nextAttempt)]_learnVars
=============================================================================
