------------------------------ MODULE RadioHub ------------------------------
(***************************************************************************)
(* The hub of components/elero/elero.cpp: many CommandSenders on the main  *)
(* loop (core 1) share one radio owned by the RF task (core 0).  The two   *)
(* tasks communicate through tx_queue and tx_done_queue only, and never    *)
(* wait for each other: a full tx_queue refuses a request, a full          *)
(* tx_done_queue loses a completion.                                       *)
(*                                                                         *)
(* The main loop first drains tx_done_queue, then lets one device after    *)
(* the other run process_queue().  "turn" says where it is: 0 is the       *)
(* drain, k > 0 the k-th device.  The RF task runs concurrently.           *)
(***************************************************************************)
EXTENDS CommandSenderCore, SequencesExt

CONSTANTS
  Devices,     \* sequence of the devices with a sender, in slot order
  TX_QUEUE,    \* length of tx_queue_handle_
  DONE_QUEUE,  \* length of tx_done_queue_handle_
  MayFail,     \* TRUE: the driver can give up for good (failed())
  MaxCommands, \* bound: commands appended per device
  MaxClears,   \* bound: calls of clear_queue(), of all devices together
  MaxLate,     \* bound: times a device sees TX_PENDING_TIMEOUT pass
  MaxRaw       \* bound: calls of send_raw_command()

Clients == Range(Devices)

ASSUME HubAssumption ==
  /\ IsInjective(Devices) /\ Devices \in Seq(Clients)
  /\ {"raw", "none"} \cap Clients = {}
  /\ {TX_QUEUE, DONE_QUEUE} \subseteq Nat \ {0}
  /\ MayFail \in BOOLEAN
  /\ {MaxCommands, MaxClears, MaxLate, MaxRaw} \subseteq Nat

VARIABLES
  sender,    \* [Clients -> Sender]
  overdue,   \* [Clients -> BOOLEAN]: TX_PENDING_TIMEOUT has passed
  turn,      \* 0: draining tx_done_queue; k: process_queue() of Devices[k] is next
  txQueue,   \* tx_queue: requests [client, id]
  onAir,     \* the request the radio is transmitting, tx_owner_; or NoRequest
  doneQueue, \* tx_done_queue: results [client, id, ok]
  failed,    \* driver_->failed()
  calls,     \* [Clients -> [commands, late]]: how often (bounds)
  hubCalls,  \* [raw, clears]: how often (bounds)
  \* history variables
  requested, \* [Clients -> Nat]: accepted requests, the last one's number
  answered,  \* [Clients -> Nat]: the request answered last
  lost       \* completions dropped by a full tx_done_queue

hubVars == <<txQueue, onAir, doneQueue, failed>>
vars == <<sender, overdue, turn, hubVars, hubCalls, calls, requested, answered, lost>>

(* The client of a raw packet is nullptr, here "raw", and its id is 0.     *)
RequestRec == [client : Clients \cup {"raw"}, id : Nat]
NoRequest == [client |-> "none", id |-> 0]
ResultRec == [client : Clients \cup {"raw"}, id : Nat, ok : BOOLEAN]

NoCalls == [commands |-> 0, late |-> 0]

Init ==
  /\ sender = [c \in Clients |-> NewSender]
  /\ overdue = [c \in Clients |-> FALSE]
  /\ turn = 0
  /\ txQueue = <<>> /\ onAir = NoRequest /\ doneQueue = <<>>
  /\ failed = FALSE
  /\ calls = [c \in Clients |-> NoCalls]
  /\ hubCalls = [raw |-> 0, clears |-> 0]
  /\ requested = [c \in Clients |-> 0]
  /\ answered = [c \in Clients |-> 0]
  /\ lost = {}

----------------------------------------------------------------------------
(* Core 1: calls of the registry between two steps of the loop.            *)

EnqueueCommand(c, cmd) ==
  /\ calls[c].commands < MaxCommands
  /\ ~Collapses(sender[c], cmd)
  /\ ~Refuses(sender[c], cmd)
  /\ LET e == [id |-> calls[c].commands + 1, cmd |-> cmd, for |-> {}]
     IN  sender' = [sender EXCEPT ![c] = Push(@, e)]
  /\ calls' = [calls EXCEPT ![c].commands = @ + 1]
  /\ UNCHANGED <<overdue, turn, hubVars, hubCalls, requested, answered, lost>>

Clear(c) ==
  /\ hubCalls.clears < MaxClears
  /\ sender' = [sender EXCEPT ![c] = ClearQueue(@)]
  /\ hubCalls' = [hubCalls EXCEPT !.clears = @ + 1]
  /\ UNCHANGED <<overdue, turn, hubVars, calls, requested, answered, lost>>

----------------------------------------------------------------------------
(* Core 1: loop().                                                         *)

Deliver ==
  /\ turn = 0
  /\ doneQueue # <<>>
  /\ LET r == Head(doneQueue)
     IN  IF r.client = "raw"
         THEN UNCHANGED <<sender, answered, overdue>>
         ELSE /\ sender' = [sender EXCEPT ![r.client] = OnTxComplete(@, r.ok)]
              /\ answered' = [answered EXCEPT ![r.client] = r.id]
              /\ overdue' = [overdue EXCEPT
                   ![r.client] = @ /\ sender'[r.client].state = "TX_PENDING"]
  /\ doneQueue' = Tail(doneQueue)
  /\ UNCHANGED <<turn, txQueue, onAir, failed, hubCalls, calls, requested, lost>>

NextTurn == turn' = (turn + 1) % (Len(Devices) + 1)

EndDrain ==
  /\ turn = 0
  /\ doneQueue = <<>>
  /\ NextTurn
  /\ UNCHANGED <<sender, overdue, hubVars, hubCalls, calls, requested, answered, lost>>

(* process_queue() of the device whose turn it is: one of these happens.   *)
Idles(s, late) ==
  \/ s.state = "IDLE" /\ s.queue = <<>>
  \/ s.state = "WAIT_DELAY" /\ s.delaying
  \/ s.state = "TX_PENDING" /\ ~late

Pass(c) ==
  /\ Idles(sender[c], overdue[c])
  /\ UNCHANGED <<sender, overdue, txQueue, requested>>

Wake(c) ==
  /\ sender[c].state = "IDLE"
  /\ sender[c].queue # <<>>
  /\ sender[c].delaying \/ Len(txQueue) = TX_QUEUE
  /\ sender' = [sender EXCEPT ![c] = Woken(@)]
  /\ UNCHANGED <<overdue, txQueue, requested>>

Refused(c) ==
  /\ sender[c].state = "WAIT_DELAY"
  /\ CanRequest(sender[c])
  /\ Len(txQueue) = TX_QUEUE
  /\ UNCHANGED <<sender, overdue, txQueue, requested>>

Request(c) ==
  /\ CanRequest(sender[c])
  /\ Len(txQueue) < TX_QUEUE
  /\ sender' = [sender EXCEPT ![c] = Requested(@)]
  /\ requested' = [requested EXCEPT ![c] = @ + 1]
  /\ txQueue' = Append(txQueue, [client |-> c, id |-> requested'[c]])
  /\ UNCHANGED overdue

Settle(c) ==
  /\ CanSettle(sender[c])
  /\ sender' = [sender EXCEPT ![c] = Settled(@)]
  /\ UNCHANGED <<overdue, txQueue, requested>>

Timeout(c) ==
  /\ sender[c].state = "TX_PENDING"
  /\ overdue[c]
  /\ sender' = [sender EXCEPT ![c] = TimedOut(@)]
  /\ overdue' = [overdue EXCEPT ![c] = FALSE]
  /\ UNCHANGED <<txQueue, requested>>

ProcessQueue ==
  /\ turn # 0
  /\ LET c == Devices[turn]
     IN  Pass(c) \/ Wake(c) \/ Refused(c) \/ Request(c) \/ Settle(c) \/ Timeout(c)
  /\ NextTurn
  /\ UNCHANGED <<onAir, doneQueue, failed, hubCalls, calls, answered, lost>>

(* send_raw_command(): fire and forget.                                    *)
SendRaw ==
  /\ hubCalls.raw < MaxRaw
  /\ Len(txQueue) < TX_QUEUE
  /\ txQueue' = Append(txQueue, [client |-> "raw", id |-> 0])
  /\ hubCalls' = [hubCalls EXCEPT !.raw = @ + 1]
  /\ UNCHANGED <<sender, overdue, turn, onAir, doneQueue, failed, calls,
                 requested, answered, lost>>

----------------------------------------------------------------------------
(* The clock.                                                              *)

DelayElapses(c) ==
  /\ sender[c].delaying
  /\ sender' = [sender EXCEPT ![c].delaying = FALSE]
  /\ UNCHANGED <<overdue, turn, hubVars, hubCalls, calls, requested, answered, lost>>

(* TX_PENDING_TIMEOUT passes before the completion is delivered.           *)
TimeoutPasses(c) ==
  /\ sender[c].state = "TX_PENDING"
  /\ ~overdue[c]
  /\ overdue' = [overdue EXCEPT ![c] = TRUE]
  /\ calls' = [calls EXCEPT ![c].late = @ + 1]
  /\ calls[c].late < MaxLate
  /\ UNCHANGED <<sender, turn, hubVars, hubCalls, requested, answered, lost>>

----------------------------------------------------------------------------
(* Core 0: rf_task_func_().                                                *)

PostTxDoneInFront(r, ok) ==                                       \* mutant
  /\ Len(doneQueue) < DONE_QUEUE
  /\ doneQueue' = <<[client |-> r.client, id |-> r.id, ok |-> ok]>> \o doneQueue
  /\ UNCHANGED lost

PostTxDoneShort(r, ok) ==                                         \* mutant
  IF Len(doneQueue) + 1 < DONE_QUEUE
  THEN /\ doneQueue' = Append(doneQueue, [client |-> r.client, id |-> r.id, ok |-> ok])
       /\ UNCHANGED lost
  ELSE /\ lost' = lost \cup {r}
       /\ UNCHANGED doneQueue

(* post_tx_done: a result that finds the queue full is dropped.            *)
PostTxDone(r, ok) ==
  IF Len(doneQueue) < DONE_QUEUE
  THEN /\ doneQueue' = Append(doneQueue, [client |-> r.client, id |-> r.id, ok |-> ok])
       /\ UNCHANGED lost
  ELSE /\ lost' = lost \cup {r}
       /\ UNCHANGED doneQueue

TakesWhileSending == ~failed /\ txQueue # <<>>                    \* mutant

Takes == ~failed /\ onAir = NoRequest /\ txQueue # <<>>

StartTx ==
  /\ Takes
  /\ onAir' = Head(txQueue)
  /\ txQueue' = Tail(txQueue)
  /\ UNCHANGED <<sender, overdue, turn, doneQueue, failed, hubCalls, calls, requested, answered, lost>>

(* load_and_transmit() fails: the failure is reported at once.             *)
StartFails ==
  /\ Takes
  /\ txQueue' = Tail(txQueue)
  /\ PostTxDone(Head(txQueue), FALSE)
  /\ failed' \in {FALSE, MayFail}
  /\ UNCHANGED <<sender, overdue, turn, onAir, hubCalls, calls, requested, answered>>

(* poll_tx() ends the transmission; a failed one may be the last that the  *)
(* driver's recovery could handle.                                         *)
EndTx(ok) ==
  /\ ~failed /\ onAir # NoRequest
  /\ onAir' = NoRequest
  /\ PostTxDone(onAir, ok)
  /\ failed' \in {FALSE, MayFail /\ ~ok}
  /\ UNCHANGED <<sender, overdue, turn, txQueue, hubCalls, calls, requested, answered>>

----------------------------------------------------------------------------
Enqueues == \E c \in Clients, cmd \in Commands : EnqueueCommand(c, cmd)
Clears == \E c \in Clients : Clear(c)
Clock == \E c \in Clients : DelayElapses(c) \/ TimeoutPasses(c)
RfTask == StartTx \/ StartFails \/ \E ok \in BOOLEAN : EndTx(ok)

Next ==
  \/ Enqueues \/ Clears \/ Clock \/ SendRaw
  \/ Deliver \/ EndDrain \/ ProcessQueue
  \/ RfTask

Spec == Init /\ [][Next]_vars

(* Both tasks run for ever and every step of theirs is bounded; the clock  *)
(* runs on.  Nothing is assumed about how the senders share tx_queue.      *)
Fairness ==
  /\ WF_vars(Deliver \/ EndDrain \/ ProcessQueue)
  /\ WF_vars(StartTx \/ StartFails)
  /\ WF_vars(\E ok \in BOOLEAN : EndTx(ok))
  /\ \A c \in Clients : WF_vars(DelayElapses(c)) /\ WF_vars(TimeoutPasses(c))

FairSpec == Spec /\ Fairness

----------------------------------------------------------------------------
(* Properties                                                              *)

(* Where a request can be between request_tx() and on_tx_complete().       *)
InHub(r) ==
  \/ r = onAir
  \/ \E k \in DOMAIN txQueue : txQueue[k] = r
  \/ \E k \in DOMAIN doneQueue : doneQueue[k].client = r.client /\ doneQueue[k].id = r.id

(* The requests of one client that are still to be answered.               *)
Outstanding(c) == {n \in 1 .. requested[c] : InHub([client |-> c, id |-> n])}

(* A sender that waits in TX_PENDING waits for an answer that is coming,   *)
(* unless that answer was dropped: no wake-up is lost on the way.          *)
PendingIsInFlight ==
  \A c \in Clients : sender[c].state = "TX_PENDING" =>
    LET last == [client |-> c, id |-> requested[c]] IN InHub(last) \/ last \in lost

(* How many requests of c a queue holds, and how many the hub.             *)
Of(q, c) == Cardinality({k \in DOMAIN q : q[k].client = c})
Held(c) == Of(doneQueue, c) + (IF onAir.client = c THEN 1 ELSE 0) + Of(txQueue, c)

(* A sender has one request in the hub at a time, plus one for every time  *)
(* its watchdog gave a request up that the RF task still holds.            *)
OneRequestEach ==
  \A c \in Clients :
    Held(c) <= calls[c].late
               + (IF sender[c].state = "TX_PENDING" /\ ~overdue[c] THEN 1 ELSE 0)

(* With no more senders and raw packets than tx_done_queue has places,     *)
(* completions are dropped only after a watchdog has fired.                *)
LossNeedsTimeout ==
  (lost # {} /\ Len(Devices) + hubCalls.raw <= DONE_QUEUE) =>
    \E c \in Clients : calls[c].late > 0

(* tx_client.h: the callback is "guaranteed to be called exactly once for  *)
(* each successful request_tx() call".                                     *)
EveryRequestAnswered ==
  \A c \in Clients : \A i \in 1 .. 3 :
    (requested[c] >= i) ~> (answered[c] >= i)

(* Every command a device accepts is sent, dropped or cleared although the *)
(* senders compete for the places of tx_queue and completions get lost,    *)
(* unless the driver fails for good.                                       *)
EveryCommandLeaves ==
  \A c \in Clients : \A i \in 1 .. MaxCommands :
    (\E k \in DOMAIN sender[c].queue : sender[c].queue[k].id = i)
      ~> (failed \/ \A k \in DOMAIN sender[c].queue : sender[c].queue[k].id # i)
=============================================================================
