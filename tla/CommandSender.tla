--------------------------- MODULE CommandSender ---------------------------
(***************************************************************************)
(* One CommandSender between the code that enqueues and clears commands    *)
(* (DeviceRegistry, on the main loop) and the radio behind request_tx().   *)
(* The radio is abstracted to the FIFO "outstanding" of accepted requests  *)
(* whose completion has not been delivered yet: every request is answered  *)
(* with success or failure, in order, at any later time, or its answer is  *)
(* lost (post_tx_done drops a result that finds tx_done_queue full, and a  *)
(* failed driver answers nothing).  This is module TxChannel, which the    *)
(* real queues of module RadioHub are shown to implement.                  *)
(***************************************************************************)
EXTENDS CommandSenderCore, SequencesExt

CONSTANTS
  MaxCommands, \* bound: commands appended to the queue in one behaviour
  MaxClears,   \* bound: calls of clear_queue()
  TxDepth      \* length of tx_queue: accepted requests that can be outstanding

ASSUME SenderAssumption ==
  /\ MaxCommands \in Nat
  /\ MaxClears \in Nat
  /\ TxDepth \in Nat \ {0}
  /\ COUNTER_MAX > 1  \* it is 255: consecutive commands can be told apart

VARIABLES
  sender,      \* the CommandSender
  outstanding, \* accepted requests without a delivered completion, oldest first
  clears,      \* number of clear_queue() calls so far (bounded)
  \* history variables
  accepted,    \* number of commands appended so far; the last one's id
  lastPacket,  \* the packet of the last accepted request_tx()
  cutShort,    \* clear_queue() was called between two packets since then, or
               \* so often during the last one that the counter came round
  late,        \* TX_PENDING_TIMEOUT has passed with the completion still to come
  own,         \* delivered successes, and failures in a row, of the front command
  retired      \* how the last command was retired, and its "own" by then

vars == <<sender, outstanding, clears, accepted, lastPacket, cutShort, late, own, retired>>

history == <<accepted, lastPacket, cutShort, late, own, retired>>

Packet == [id : Nat, counter : Nat, for : SUBSET Channels, dests : SUBSET Channels]

NoPacket == [id |-> 0, counter |-> 0, for |-> {}, dests |-> {}]

Tally == [ok : Nat, bad : Nat]

NoTally == [ok |-> 0, bad |-> 0]

NotRetired == [how |-> "none", need |-> 0, ok |-> 0, bad |-> 0]

PacketOf(s) ==
  [id |-> FrontOf(s).id, counter |-> s.counter,
   for |-> FrontOf(s).for, dests |-> Addressed(s)]

Init ==
  /\ sender = NewSender
  /\ outstanding = <<>>
  /\ clears = 0
  /\ accepted = 0
  /\ lastPacket = NoPacket
  /\ cutShort = FALSE
  /\ late = FALSE
  /\ own = NoTally
  /\ retired = NotRetired

----------------------------------------------------------------------------
(* Calls of the registry.                                                  *)

NewEntry(cmd, for) == [id |-> accepted + 1, cmd |-> cmd, for |-> for]

(* enqueue(): only the appending outcome changes the sender.               *)
EnqueueCommand(cmd) ==
  /\ accepted < MaxCommands
  /\ ~Collapses(sender, cmd)
  /\ ~Refuses(sender, cmd)
  /\ sender' = Push(sender, NewEntry(cmd, {}))
  /\ accepted' = accepted + 1
  /\ UNCHANGED <<outstanding, clears, lastPacket, cutShort, late, own, retired>>

(* command_group(): the destination channels are written to the lead       *)
(* sender's command template, then the button is enqueued; a refused       *)
(* enqueue puts the previous channels back.  A collapsed one turns the     *)
(* command it was collapsed into into a group command.                     *)
CommandGroup(cmd, channels) ==
  /\ cmd \in Buttons
  /\ ~Refuses(sender, cmd)
  /\ \/ /\ Collapses(sender, cmd)
        /\ sender' = [sender EXCEPT !.dests = channels,
                                    !.queue[Len(sender.queue)].for = channels]
        /\ UNCHANGED accepted
     \/ /\ ~Collapses(sender, cmd)
        /\ accepted < MaxCommands
        /\ sender' = Push([sender EXCEPT !.dests = channels], NewEntry(cmd, channels))
        /\ accepted' = accepted + 1
  /\ UNCHANGED <<outstanding, clears, lastPacket, cutShort, late, own, retired>>

Clear ==
  /\ clears < MaxClears
  /\ clears' = clears + 1
  /\ sender' = ClearQueue(sender)
  /\ cutShort' = \/ cutShort \/ sender.state # "TX_PENDING"
                  \/ NextCounter(sender.counter) = lastPacket.counter
  /\ own' = NoTally
  /\ UNCHANGED <<outstanding, accepted, lastPacket, late, retired>>

----------------------------------------------------------------------------
(* process_queue(), called by the registry's loop.                         *)

(* The state moves from IDLE to WAIT_DELAY while the deadline is ahead or  *)
(* the radio refuses the request.                                          *)
Wake ==
  /\ sender.state = "IDLE"
  /\ sender.queue # <<>>
  /\ sender' = Woken(sender)
  /\ UNCHANGED <<outstanding, clears, history>>

(* Time passes the deadline next_attempt_ms_.                              *)
DelayElapses ==
  /\ sender.delaying
  /\ sender' = [sender EXCEPT !.delaying = FALSE]
  /\ UNCHANGED <<outstanding, clears, history>>

(* request_tx() accepts the packet: it was copied into tx_queue.           *)
Request ==
  /\ CanRequest(sender)
  /\ Len(outstanding) < TxDepth
  /\ sender' = Requested(sender)
  /\ lastPacket' = PacketOf(sender)
  /\ outstanding' = Append(outstanding, lastPacket')
  /\ cutShort' = FALSE
  /\ UNCHANGED <<clears, accepted, late, own, retired>>

Settle ==
  /\ CanSettle(sender)
  /\ sender' = Settled(sender)
  /\ UNCHANGED <<outstanding, clears, history>>

(* History of an attempt that ended: "id" is whose request it really was,  *)
(* and the tally is written down when the front command is retired.  The   *)
(* failures in a row are counted up to SEND_RETRIES + 1.                   *)
Tallied(id, ok) ==
  IF sender.queue = <<>> \/ FrontOf(sender).id # id THEN own
  ELSE IF ok THEN [ok |-> own.ok + 1, bad |-> 0]
  ELSE [own EXCEPT !.bad = IF @ > SEND_RETRIES THEN @ ELSE @ + 1]

Record(id, ok, how) ==
  IF how = "stays" \/ sender.queue = <<>>
  THEN own' = Tallied(id, ok) /\ UNCHANGED retired
  ELSE /\ own' = NoTally
       /\ retired' = [how |-> how, need |-> PacketsOf[FrontOf(sender).cmd],
                      ok |-> Tallied(id, ok).ok, bad |-> Tallied(id, ok).bad]

FailureVerdict == IF GivesUp(sender) THEN "dropped" ELSE "stays"

(* More than TX_PENDING_TIMEOUT has passed since the request.              *)
Timeout ==
  /\ sender.state = "TX_PENDING"
  /\ late' = (late \/ outstanding # <<>>)
  /\ sender' = TimedOut(sender)
  /\ Record(lastPacket.id, FALSE, FailureVerdict)
  /\ UNCHANGED <<outstanding, clears, accepted, lastPacket, cutShort>>

----------------------------------------------------------------------------
(* Elero::loop() delivers the oldest result: on_tx_complete().             *)

CompleteOk ==
  /\ outstanding # <<>>
  /\ outstanding' = Tail(outstanding)
  /\ sender' = OnTxComplete(sender, TRUE)
  /\ Record(outstanding[1].id, TRUE,
            IF Counts(sender) /\ LastPacket(sender) THEN "sent" ELSE "stays")
  /\ UNCHANGED <<clears, accepted, lastPacket, cutShort, late>>

CompleteFailed ==
  /\ outstanding # <<>>
  /\ outstanding' = Tail(outstanding)
  /\ sender' = OnTxComplete(sender, FALSE)
  /\ Record(outstanding[1].id, FALSE,
            IF Counts(sender) THEN FailureVerdict ELSE "stays")
  /\ UNCHANGED <<clears, accepted, lastPacket, cutShort, late>>

(* Any of them can be the one that is lost.                                *)
LoseCompletion ==
  /\ \E k \in DOMAIN outstanding : outstanding' = RemoveAt(outstanding, k)
  /\ UNCHANGED <<sender, clears, history>>

----------------------------------------------------------------------------
Enqueues == \E cmd \in Commands : EnqueueCommand(cmd)

Groups == \E cmd \in Buttons, channels \in SUBSET Channels :
            Cardinality(channels) >= 2 /\ CommandGroup(cmd, channels)

Next ==
  \/ Enqueues \/ Groups \/ Clear
  \/ Wake \/ DelayElapses \/ Request \/ Settle \/ Timeout
  \/ CompleteOk \/ CompleteFailed \/ LoseCompletion

Spec == Init /\ [][Next]_vars

(* The main loop calls process_queue() for ever, so a step of it that      *)
(* stays possible is taken; the 500 ms watchdog and the deadline are       *)
(* reached with time.  As long as its driver has not failed the RF task    *)
(* takes one request after the other and ends each in bounded time, so     *)
(* the queue it shares with other senders has room again and again.        *)
Fairness ==
  /\ WF_vars(DelayElapses)
  /\ WF_vars(Settle)
  /\ WF_vars(Timeout)
  /\ SF_vars(Request)
  /\ WF_vars(CompleteOk \/ CompleteFailed \/ LoseCompletion)

FairSpec == Spec /\ Fairness

----------------------------------------------------------------------------
(* Properties                                                              *)

(* Types of the sender and of the bookkeeping around it; in particular the *)
(* retry count never exceeds SEND_RETRIES and the counter skips 0.         *)
TypeOK ==
  /\ sender \in Sender
  /\ outstanding \in Seq(Packet)
  /\ clears \in 0 .. MaxClears
  /\ accepted \in 0 .. MaxCommands
  /\ lastPacket \in Packet
  /\ cutShort \in BOOLEAN
  /\ late \in BOOLEAN
  /\ own \in Tally
  /\ retired \in [how : {"none", "sent", "dropped"}, need : Nat, ok : Nat, bad : Nat]

(* The command at the front of the queue is the one last handed to the     *)
(* radio.                                                                  *)
FrontRequested ==
  sender.queue # <<>> /\ lastPacket.id = FrontOf(sender).id

(* While a request is pending it is the front command's, or it belongs to  *)
(* a queue that clear_queue() has emptied and no retry of it was counted   *)
(* yet.  So a completion or a timeout never retires a command that was     *)
(* never handed to the radio, and the branches of on_tx_complete() and     *)
(* advance_queue_() for an empty queue are never taken.                    *)
PendingIsFront ==
  sender.state = "TX_PENDING" =>
    \/ FrontRequested
    \/ sender.cancelled /\ sender.retries = 0

(* Every packet of one command carries the same rolling counter, and the   *)
(* packets of different commands sent one after the other carry different  *)
(* counters, so that a blind can tell a repetition from a new command.     *)
(* Exceptions: clear_queue() between two packets does not advance it, and  *)
(* COUNTER_MAX calls of it during one packet bring it round.               *)
CounterTellsCommands ==
  [][ (lastPacket.id # 0 /\ lastPacket' # lastPacket) =>
        /\ lastPacket'.id = lastPacket.id =>
             lastPacket'.counter = lastPacket.counter
        /\ lastPacket'.id # lastPacket.id /\ ~cutShort =>
             lastPacket'.counter # lastPacket.counter ]_vars

(* A command is retired as sent only after the completions of all of its   *)
(* own packets have been delivered: no other command's completion counts.  *)
SentMeansConfirmed ==
  retired.how = "sent" => retired.ok >= retired.need

(* It is so as long as no completion arrives later than the watchdog.      *)
PromptMeansConfirmed ==
  ~late => SentMeansConfirmed

(* As long as no completion arrives later than the watchdog, a command is  *)
(* dropped only after SEND_RETRIES failures of its own in a row (one less  *)
(* than the code's count: a request cancelled by clear_queue() whose       *)
(* completion is lost leaves one retry behind).                            *)
DroppedMeansFailed ==
  (~late /\ retired.how = "dropped") => retired.bad >= SEND_RETRIES

(* device_registry.cpp: the destination channels of a group command are    *)
(* "auto-cleared ... after the group button entry drains", so every button *)
(* addresses the channels its caller meant.                                *)
GroupAddressing ==
  [][ lastPacket' # lastPacket => lastPacket'.dests = lastPacket'.for ]_vars

(* Every accepted command leaves the queue: it is sent, dropped or cleared.*)
EveryCommandRetired ==
  \A i \in 1 .. MaxCommands :
    (\E k \in DOMAIN sender.queue : sender.queue[k].id = i)
      ~> (\A k \in DOMAIN sender.queue : sender.queue[k].id # i)

(* The sender implements the service: the queue's ids are what is pending. *)
Service ==
  INSTANCE CommandService WITH
    pending  <- [k \in DOMAIN sender.queue |-> sender.queue[k].id],
    onAir    <- lastPacket.id,
    accepted <- accepted,
    cancels  <- clears

ImplementsService == Service!Spec
=============================================================================
