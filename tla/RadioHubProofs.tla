--------------------------- MODULE RadioHubProofs ---------------------------
(***************************************************************************)
(* Theorems about the hub, for any number of devices, any length of its    *)
(* queues, any commands, failures and watchdogs: a sender that waits for a *)
(* completion waits for one that is still to come, or that was dropped,    *)
(* and the completions of one sender come in the order of its requests.    *)
(***************************************************************************)
EXTENDS HubChannel, CommandSenderCoreProofs, FiniteSetTheorems

HubTypeOK ==
  /\ sender \in [Clients -> Sender]
  /\ requested \in [Clients -> Nat]
  /\ calls \in [Clients -> [commands : Nat, late : Nat]]
  /\ turn \in 0 .. Len(Devices)
  /\ txQueue \in Seq(RequestRec) /\ doneQueue \in Seq(ResultRec)
  /\ onAir \in RequestRec \cup {NoRequest}

HubInv == HubTypeOK /\ PendingIsInFlight

(* The request the sender of c made last.                                  *)
LastOf(c) == [client |-> c, id |-> requested[c]]

Kept(r) == InHub(r) \/ r \in lost

----------------------------------------------------------------------------
(* Lemmas: which handlers leave a sender waiting.                          *)

LEMMA AdvanceEnds ==
  ASSUME NEW s \in Sender, NEW d \in BOOLEAN
  PROVE  AdvanceQueue(s, d).state # "TX_PENDING"
BY DEF AdvanceQueue, Sender

LEMMA FailEnds ==
  ASSUME NEW s \in Sender, NEW d \in BOOLEAN
  PROVE  FailAttempt(s, d).state # "TX_PENDING"
BY AdvanceEnds DEF FailAttempt, Sender

(* Whatever a completion says, the sender does not wait any longer.        *)
LEMMA CompletionEnds ==
  ASSUME NEW s \in Sender, NEW ok \in BOOLEAN
  PROVE  OnTxComplete(s, ok).state # "TX_PENDING"
<1>1. CASE s.state # "TX_PENDING"
  BY <1>1 DEF OnTxComplete, Counts
<1>2. CASE s.state = "TX_PENDING" /\ ~Counts(s)
  <2>1. Forgotten(s).state # "TX_PENDING"
    BY DEF Forgotten, Sender
  <2>2. QED BY <1>2, <2>1 DEF OnTxComplete
<1>3. CASE Counts(s) /\ ~ok
  BY <1>3, FailEnds DEF OnTxComplete, Counts
<1>4. CASE Counts(s) /\ ok /\ LastPacket(s)
  BY <1>4, AdvanceEnds DEF OnTxComplete, Counts
<1>5. CASE Counts(s) /\ ok /\ ~LastPacket(s)
  <2>1. NextPacket(s).state # "TX_PENDING"
    BY DEF NextPacket, Sender
  <2>2. QED BY <1>5, <2>1 DEF OnTxComplete, Counts
<1>6. QED BY <1>1, <1>2, <1>3, <1>4, <1>5

(* No other handler but a request makes a sender wait.                     *)
LEMMA StillPending ==
  ASSUME NEW s \in Sender
  PROVE  /\ \A e \in Entry : Push(s, e).state = "TX_PENDING" => s.state = "TX_PENDING"
         /\ ClearQueue(s).state = "TX_PENDING" => s.state = "TX_PENDING"
         /\ Woken(s).state # "TX_PENDING" /\ Settled(s).state # "TX_PENDING"
         /\ [s EXCEPT !.delaying = FALSE].state = s.state
<1>1. \A e \in Entry : Push(s, e).state = "TX_PENDING" => s.state = "TX_PENDING"
  BY DEF Push, Sender
<1>2. ClearQueue(s).state = "TX_PENDING" => s.state = "TX_PENDING"
  BY DEF ClearQueue, Sender
<1>3. Woken(s).state # "TX_PENDING" /\ Settled(s).state # "TX_PENDING"
  BY DEF Woken, Settled, Sender
<1>4. [s EXCEPT !.delaying = FALSE].state = s.state
  BY DEF Sender
<1>5. QED BY <1>1, <1>2, <1>3, <1>4

LEMMA CallsType ==
  ASSUME HubTypeOK, NEW c \in Clients
  PROVE  /\ [calls EXCEPT ![c].commands = @ + 1] \in [Clients -> [commands : Nat, late : Nat]]
         /\ [calls EXCEPT ![c].late = @ + 1] \in [Clients -> [commands : Nat, late : Nat]]
<1>1. \A n \in [commands : Nat, late : Nat] :
        [calls EXCEPT ![c] = n] \in [Clients -> [commands : Nat, late : Nat]]
  BY DEF HubTypeOK
<1>2. /\ [calls[c] EXCEPT !.commands = @ + 1] \in [commands : Nat, late : Nat]
      /\ [calls[c] EXCEPT !.late = @ + 1] \in [commands : Nat, late : Nat]
  BY DEF HubTypeOK
<1>3. QED BY <1>1, <1>2

LEMMA StepTypes ==
  ASSUME NEW s \in Sender
  PROVE  /\ Woken(s) \in Sender /\ Settled(s) \in Sender /\ Requested(s) \in Sender
         /\ TimedOut(s) \in Sender
         /\ [s EXCEPT !.delaying = FALSE] \in Sender
<1>1. TimedOut(s) \in Sender
  BY FailAttemptType DEF TimedOut
<1>2. QED BY <1>1 DEF Woken, Settled, Requested, Sender, State

(* A step that changes one sender, and leaves it waiting only if it was,   *)
(* while the hub stays as it is.                                           *)
LEMMA OneSender ==
  ASSUME HubInv, NEW c \in Clients, NEW s \in Sender,
         s.state = "TX_PENDING" => sender[c].state = "TX_PENDING",
         sender' = [sender EXCEPT ![c] = s],
         UNCHANGED <<txQueue, onAir, doneQueue, requested, lost>>
  PROVE  sender' \in [Clients -> Sender] /\ PendingIsInFlight'
<1>1. sender' \in [Clients -> Sender]
  BY DEF HubInv, HubTypeOK
<1>2. \A d \in Clients : sender'[d].state = "TX_PENDING" => sender[d].state = "TX_PENDING"
  BY DEF HubInv, HubTypeOK
<1>3. QED BY <1>1, <1>2 DEF HubInv, PendingIsInFlight, InHub

(* A step of the RF task: the senders stay as they are, and no request     *)
(* gets lost unseen.                                                       *)
LEMMA HubStep ==
  ASSUME HubInv, UNCHANGED <<sender, requested>>,
         \A r \in RequestRec : Kept(r) => Kept(r)'
  PROVE  PendingIsInFlight'
<1>1. \A c \in Clients : LastOf(c) \in RequestRec /\ LastOf(c)' = LastOf(c)
  BY DEF LastOf, RequestRec, HubInv, HubTypeOK
<1>2. SUFFICES ASSUME NEW c \in Clients, sender'[c].state = "TX_PENDING"
               PROVE  Kept(LastOf(c))'
  BY DEF PendingIsInFlight, Kept, LastOf
<1>3. Kept(LastOf(c))
  BY <1>2 DEF HubInv, PendingIsInFlight, Kept, LastOf
<1>4. Kept(LastOf(c)) => (InHub(LastOf(c)) \/ LastOf(c) \in lost)'
  BY <1>1 DEF Kept, InHub
<1>5. QED BY <1>3, <1>4 DEF Kept

(* The tail of a queue holds all of it but its head.                       *)
LEMMA TailHolds ==
  ASSUME NEW S, NEW q \in Seq(S), q # <<>>
  PROVE  /\ Head(q) \in S /\ Head(q) = q[1] /\ Tail(q) \in Seq(S)
         /\ \A k \in DOMAIN q : k = 1 \/ (k - 1 \in DOMAIN Tail(q) /\ Tail(q)[k - 1] = q[k])
OBVIOUS

LEMMA AppendHolds ==
  ASSUME NEW S, NEW q \in Seq(S), NEW e \in S
  PROVE  /\ Append(q, e) \in Seq(S)
         /\ \A k \in DOMAIN q : k \in DOMAIN Append(q, e) /\ Append(q, e)[k] = q[k]
         /\ Len(q) + 1 \in DOMAIN Append(q, e) /\ Append(q, e)[Len(q) + 1] = e
OBVIOUS

Answered(r) == \E k \in DOMAIN doneQueue : doneQueue[k].client = r.client /\ doneQueue[k].id = r.id

(* post_tx_done: what was answered stays so, and the request is answered   *)
(* or known to be lost.                                                    *)
LEMMA PostKeeps ==
  ASSUME HubTypeOK, NEW r \in RequestRec, NEW ok \in BOOLEAN, PostTxDone(r, ok)
  PROVE  /\ doneQueue' \in Seq(ResultRec)
         /\ \A q \in RequestRec : Answered(q) => Answered(q)'
         /\ lost \subseteq lost'
         /\ Answered(r)' \/ r \in lost'
<1>1. CASE Len(doneQueue) < DONE_QUEUE
  <2> DEFINE e == [client |-> r.client, id |-> r.id, ok |-> ok]
  <2>1. e \in ResultRec /\ e.client = r.client /\ e.id = r.id
    BY DEF ResultRec, RequestRec
  <2>2. doneQueue \in Seq(ResultRec) /\ doneQueue' = Append(doneQueue, e) /\ lost' = lost
    BY <1>1 DEF HubTypeOK, PostTxDone
  <2> HIDE DEF e
  <2>3. QED BY <2>1, <2>2, AppendHolds DEF Answered
<1>2. CASE ~(Len(doneQueue) < DONE_QUEUE)
  BY <1>2 DEF HubTypeOK, PostTxDone, Answered
<1>3. QED BY <1>1, <1>2

----------------------------------------------------------------------------
(* Core 1 keeps the invariant.                                             *)

LEMMA EnqueueKeeps ==
  ASSUME HubInv, NEW c \in Clients, NEW cmd \in Commands, EnqueueCommand(c, cmd)
  PROVE  HubInv'
<1> DEFINE e == [id |-> calls[c].commands + 1, cmd |-> cmd, for |-> {}]
<1>1. e \in Entry
  BY DEF HubInv, HubTypeOK, Entry
<1>2. sender' = [sender EXCEPT ![c] = Push(sender[c], e)]
  BY DEF EnqueueCommand
<1>3. /\ calls' \in [Clients -> [commands : Nat, late : Nat]]
      /\ UNCHANGED <<turn, txQueue, onAir, doneQueue, requested, lost>>
  BY CallsType DEF EnqueueCommand, hubVars, HubInv
<1> HIDE DEF e
<1>4. sender[c] \in Sender
  BY DEF HubInv, HubTypeOK
<1>5. Push(sender[c], e) \in Sender
  BY <1>1, <1>4, PushType
<1>6. Push(sender[c], e).state = "TX_PENDING" => sender[c].state = "TX_PENDING"
  BY <1>1, <1>4, StillPending
<1>7. sender' \in [Clients -> Sender] /\ PendingIsInFlight'
  BY <1>2, <1>3, <1>5, <1>6, OneSender
<1>8. QED BY <1>3, <1>7 DEF HubInv, HubTypeOK

LEMMA ClearKeeps ==
  ASSUME HubInv, NEW c \in Clients, Clear(c)
  PROVE  HubInv'
<1>1. sender[c] \in Sender
  BY DEF HubInv, HubTypeOK
<1>2. /\ sender' = [sender EXCEPT ![c] = ClearQueue(sender[c])]
      /\ UNCHANGED <<calls, turn, txQueue, onAir, doneQueue, requested, lost>>
  BY DEF Clear, hubVars
<1>3. sender' \in [Clients -> Sender] /\ PendingIsInFlight'
  BY <1>1, <1>2, ClearQueueType, StillPending, OneSender
<1>4. QED BY <1>2, <1>3 DEF HubInv, HubTypeOK

LEMMA DelayElapsesKeeps ==
  ASSUME HubInv, NEW c \in Clients, DelayElapses(c)
  PROVE  HubInv'
<1>1. sender[c] \in Sender
  BY DEF HubInv, HubTypeOK
<1>2. /\ sender' = [sender EXCEPT ![c] = [sender[c] EXCEPT !.delaying = FALSE]]
      /\ UNCHANGED <<calls, turn, txQueue, onAir, doneQueue, requested, lost>>
  BY DEF DelayElapses, hubVars
<1>3. sender' \in [Clients -> Sender] /\ PendingIsInFlight'
  BY <1>1, <1>2, StepTypes, StillPending, OneSender
<1>4. QED BY <1>2, <1>3 DEF HubInv, HubTypeOK

LEMMA TimeoutPassesKeeps ==
  ASSUME HubInv, NEW c \in Clients, TimeoutPasses(c)
  PROVE  HubInv'
<1>1. /\ calls' \in [Clients -> [commands : Nat, late : Nat]]
      /\ UNCHANGED <<sender, turn, txQueue, onAir, doneQueue, requested, lost>>
  BY CallsType DEF TimeoutPasses, hubVars, HubInv
<1>2. QED BY <1>1 DEF HubInv, HubTypeOK, PendingIsInFlight, InHub

(* A completion ends the wait of its sender, whichever request it answers. *)
LEMMA DeliverKeeps ==
  ASSUME HubInv, Deliver
  PROVE  HubInv'
<1> DEFINE r == Head(doneQueue)
<1>1. /\ doneQueue # <<>> /\ doneQueue' = Tail(doneQueue) /\ doneQueue \in Seq(ResultRec)
      /\ UNCHANGED <<turn, txQueue, onAir, calls, requested, lost>>
  BY DEF Deliver, HubInv, HubTypeOK
<1>2. r \in ResultRec /\ r = doneQueue[1] /\ doneQueue' \in Seq(ResultRec)
  BY <1>1, TailHolds
<1>3. \A k \in DOMAIN doneQueue : k = 1 \/ (k - 1 \in DOMAIN doneQueue' /\ doneQueue'[k - 1] = doneQueue[k])
  BY <1>1, TailHolds
<1>4. r.client \in Clients \cup {"raw"} /\ r.ok \in BOOLEAN
  BY <1>2 DEF ResultRec
<1>5. \/ r.client = "raw" /\ UNCHANGED sender
      \/ r.client # "raw" /\ sender' = [sender EXCEPT ![r.client] = OnTxComplete(sender[r.client], r.ok)]
  BY DEF Deliver
<1> HIDE DEF r
<1>6. /\ sender' \in [Clients -> Sender]
      /\ \A c \in Clients : sender'[c].state = "TX_PENDING" =>
           sender[c].state = "TX_PENDING" /\ c # r.client
  <2>1. CASE r.client = "raw" /\ UNCHANGED sender
    BY <2>1, HubAssumption DEF HubInv, HubTypeOK
  <2>2. CASE /\ r.client # "raw"
             /\ sender' = [sender EXCEPT ![r.client] = OnTxComplete(sender[r.client], r.ok)]
    <3>1. r.client \in Clients /\ sender[r.client] \in Sender
      BY <2>2, <1>4 DEF HubInv, HubTypeOK
    <3>2. /\ OnTxComplete(sender[r.client], r.ok) \in Sender
          /\ OnTxComplete(sender[r.client], r.ok).state # "TX_PENDING"
      BY <3>1, <1>4, OnTxCompleteType, CompletionEnds
    <3>3. QED BY <2>2, <3>1, <3>2 DEF HubInv, HubTypeOK
  <2>3. QED BY <1>5, <2>1, <2>2
<1>7. PendingIsInFlight'
  <2> SUFFICES ASSUME NEW c \in Clients, sender'[c].state = "TX_PENDING"
               PROVE  Kept(LastOf(c))'
    BY DEF PendingIsInFlight, Kept, LastOf
  <2>1. Kept(LastOf(c)) /\ c # r.client /\ LastOf(c)' = LastOf(c) /\ LastOf(c).client = c
    BY <1>1, <1>6 DEF HubInv, PendingIsInFlight, Kept, LastOf
  <2>2. Answered(LastOf(c)) => Answered(LastOf(c))'
    BY <2>1, <1>2, <1>3 DEF Answered
  <2>3. QED BY <2>1, <2>2, <1>1 DEF Kept, InHub, Answered
<1>8. QED BY <1>1, <1>2, <1>6, <1>7 DEF HubInv, HubTypeOK

LEMMA NextTurnType ==
  ASSUME HubInv, NextTurn
  PROVE  turn' \in 0 .. Len(Devices)
<1>1. Len(Devices) \in Nat /\ turn \in Nat
  BY HubAssumption DEF HubInv, HubTypeOK
<1>2. QED BY <1>1 DEF NextTurn

(* A request that is accepted is in tx_queue.                              *)
LEMMA RequestKeeps ==
  ASSUME HubInv, NEW c \in Clients, Request(c), UNCHANGED <<onAir, doneQueue, lost>>
  PROVE  /\ sender' \in [Clients -> Sender] /\ requested' \in [Clients -> Nat]
         /\ txQueue' \in Seq(RequestRec) /\ PendingIsInFlight'
<1> DEFINE e == [client |-> c, id |-> requested[c] + 1]
<1>1. sender[c] \in Sender /\ requested[c] \in Nat /\ txQueue \in Seq(RequestRec)
  BY DEF HubInv, HubTypeOK
<1>2. requested' = [requested EXCEPT ![c] = requested[c] + 1]
  BY DEF Request
<1>3. requested' \in [Clients -> Nat] /\ requested'[c] = requested[c] + 1
  BY <1>1, <1>2 DEF HubInv, HubTypeOK
<1>4. e \in RequestRec /\ txQueue' = Append(txQueue, e)
  BY <1>1, <1>3 DEF Request, RequestRec
<1>5. sender' \in [Clients -> Sender]
  BY <1>1, StepTypes DEF Request, HubInv, HubTypeOK
<1>6. ASSUME NEW d \in Clients, d # c
      PROVE  sender'[d] = sender[d] /\ requested'[d] = requested[d]
  BY <1>2, <1>6 DEF Request, HubInv, HubTypeOK
<1> HIDE DEF e
<1>7. /\ txQueue' \in Seq(RequestRec)
      /\ \A k \in DOMAIN txQueue : k \in DOMAIN txQueue' /\ txQueue'[k] = txQueue[k]
      /\ \E k \in DOMAIN txQueue' : txQueue'[k] = e
  BY <1>1, <1>4, AppendHolds
<1>8. ASSUME NEW d \in Clients, sender'[d].state = "TX_PENDING"
      PROVE  Kept(LastOf(d))'
  <2>1. CASE d = c
    <3>1. LastOf(d)' = e
      BY <2>1, <1>3 DEF LastOf, e
    <3>2. QED BY <3>1, <1>7 DEF Kept, InHub
  <2>2. CASE d # c
    <3>1. Kept(LastOf(d)) /\ LastOf(d)' = LastOf(d)
      BY <2>2, <1>6, <1>8 DEF HubInv, PendingIsInFlight, Kept, LastOf
    <3>2. QED BY <3>1, <1>7 DEF Kept, InHub
  <2>3. QED BY <2>1, <2>2
<1>9. PendingIsInFlight'
  BY <1>8 DEF PendingIsInFlight, Kept, LastOf
<1>10. QED BY <1>3, <1>5, <1>7, <1>9

LEMMA ProcessQueueKeeps ==
  ASSUME HubInv, ProcessQueue
  PROVE  HubInv'
<1> DEFINE c == Devices[turn]
<1>1. /\ UNCHANGED <<onAir, doneQueue, calls, lost>>
      /\ Pass(c) \/ Wake(c) \/ Refused(c) \/ Request(c) \/ Settle(c) \/ Timeout(c)
  BY DEF ProcessQueue
<1>2. turn' \in 0 .. Len(Devices)
  BY NextTurnType DEF ProcessQueue
<1>3. c \in Clients
  BY HubAssumption DEF ProcessQueue, HubInv, HubTypeOK
<1> HIDE DEF c
<1>4. sender[c] \in Sender
  BY <1>3 DEF HubInv, HubTypeOK
<1>5. /\ sender' \in [Clients -> Sender] /\ requested' \in [Clients -> Nat]
      /\ txQueue' \in Seq(RequestRec) /\ PendingIsInFlight'
  <2>1. CASE Pass(c) \/ Refused(c)
    BY <2>1, <1>1 DEF Pass, Refused, HubInv, HubTypeOK, PendingIsInFlight, InHub
  <2>2. CASE Wake(c)
    BY <2>2, <1>1, <1>3, <1>4, StepTypes, StillPending, OneSender DEF Wake, HubInv, HubTypeOK
  <2>3. CASE Request(c)
    BY <2>3, <1>1, <1>3, RequestKeeps
  <2>4. CASE Settle(c)
    BY <2>4, <1>1, <1>3, <1>4, StepTypes, StillPending, OneSender DEF Settle, HubInv, HubTypeOK
  <2>5. CASE Timeout(c)
    <3>1. TimedOut(sender[c]).state # "TX_PENDING"
      BY <1>4, FailEnds DEF TimedOut
    <3>2. QED BY <2>5, <3>1, <1>1, <1>3, <1>4, StepTypes, OneSender DEF Timeout, HubInv, HubTypeOK
  <2>6. QED BY <1>1, <2>1, <2>2, <2>3, <2>4, <2>5
<1>6. QED BY <1>1, <1>2, <1>5 DEF HubInv, HubTypeOK

----------------------------------------------------------------------------
(* Core 0 and raw packets keep the invariant.                              *)

LEMMA SendRawKeeps ==
  ASSUME HubInv, SendRaw
  PROVE  HubInv'
<1> DEFINE e == [client |-> "raw", id |-> 0]
<1>1. /\ txQueue' = Append(txQueue, e) /\ e \in RequestRec /\ txQueue \in Seq(RequestRec)
      /\ UNCHANGED <<sender, turn, onAir, doneQueue, calls, requested, lost>>
  BY DEF SendRaw, RequestRec, HubInv, HubTypeOK
<1> HIDE DEF e
<1>2. /\ txQueue' \in Seq(RequestRec)
      /\ \A k \in DOMAIN txQueue : k \in DOMAIN txQueue' /\ txQueue'[k] = txQueue[k]
  BY <1>1, AppendHolds
<1>3. \A r \in RequestRec : Kept(r) => Kept(r)'
  BY <1>1, <1>2 DEF Kept, InHub
<1>4. QED BY <1>1, <1>2, <1>3, HubStep DEF HubInv, HubTypeOK

LEMMA TakenHead ==
  ASSUME HubTypeOK, Takes
  PROVE  /\ Head(txQueue) \in RequestRec /\ Tail(txQueue) \in Seq(RequestRec)
         /\ \A r : (\E k \in DOMAIN txQueue : txQueue[k] = r) =>
              r = Head(txQueue) \/ \E k \in DOMAIN Tail(txQueue) : Tail(txQueue)[k] = r
BY TailHolds DEF HubTypeOK, Takes

LEMMA StartTxKeeps ==
  ASSUME HubInv, StartTx
  PROVE  HubInv'
<1>1. /\ onAir' = Head(txQueue) /\ txQueue' = Tail(txQueue) /\ Takes /\ onAir = NoRequest
      /\ UNCHANGED <<sender, turn, doneQueue, calls, requested, lost>>
  BY DEF StartTx, Takes
<1>2. NoRequest \notin RequestRec
  BY HubAssumption DEF NoRequest, RequestRec
<1>3. ASSUME NEW r \in RequestRec, Kept(r)
      PROVE  Kept(r)'
  BY <1>1, <1>2, <1>3, TakenHead DEF HubInv, Kept, InHub
<1>4. QED BY <1>1, <1>3, TakenHead, HubStep DEF HubInv, HubTypeOK

LEMMA StartFailsKeeps ==
  ASSUME HubInv, StartFails
  PROVE  HubInv'
<1>1. /\ txQueue' = Tail(txQueue) /\ Takes /\ PostTxDone(Head(txQueue), FALSE)
      /\ UNCHANGED <<sender, turn, onAir, calls, requested>>
  BY DEF StartFails
<1>2. PICK head \in RequestRec : head = Head(txQueue)
  BY <1>1, TakenHead DEF HubInv
<1>3. /\ doneQueue' \in Seq(ResultRec) /\ lost \subseteq lost'
      /\ \A q \in RequestRec : Answered(q) => Answered(q)'
      /\ Answered(head)' \/ head \in lost'
  BY <1>1, <1>2, PostKeeps DEF HubInv
<1>4. ASSUME NEW r \in RequestRec, Kept(r)
      PROVE  Kept(r)'
  <2>1. r = head \/ (\E k \in DOMAIN txQueue' : txQueue'[k] = r) \/ r = onAir \/ Answered(r)
        \/ r \in lost
    BY <1>1, <1>2, <1>4, TakenHead DEF HubInv, Kept, InHub, Answered
  <2>2. QED BY <2>1, <1>1, <1>3 DEF Kept, InHub, Answered
<1>5. QED BY <1>1, <1>3, <1>4, TakenHead, HubStep DEF HubInv, HubTypeOK

LEMMA EndTxKeeps ==
  ASSUME HubInv, NEW ok \in BOOLEAN, EndTx(ok)
  PROVE  HubInv'
<1>1. /\ onAir' = NoRequest /\ onAir # NoRequest /\ PostTxDone(onAir, ok)
      /\ UNCHANGED <<sender, turn, txQueue, calls, requested>>
  BY DEF EndTx
<1>2. PICK sent \in RequestRec : sent = onAir
  BY <1>1 DEF HubInv, HubTypeOK
<1>3. /\ doneQueue' \in Seq(ResultRec) /\ lost \subseteq lost'
      /\ \A q \in RequestRec : Answered(q) => Answered(q)'
      /\ Answered(sent)' \/ sent \in lost'
  BY <1>1, <1>2, PostKeeps DEF HubInv
<1>4. ASSUME NEW r \in RequestRec, Kept(r)
      PROVE  Kept(r)'
  <2>1. r = sent \/ (\E k \in DOMAIN txQueue : txQueue[k] = r) \/ Answered(r) \/ r \in lost
    BY <1>2, <1>4 DEF Kept, InHub, Answered
  <2>2. QED BY <2>1, <1>1, <1>3 DEF Kept, InHub, Answered
<1>5. QED BY <1>1, <1>3, <1>4, HubStep DEF HubInv, HubTypeOK

----------------------------------------------------------------------------
(* The theorems.                                                           *)

LEMMA HubInit == Init => HubInv
<1> SUFFICES ASSUME Init PROVE HubInv
  OBVIOUS
<1>1. NewSender \in Sender /\ NewSender.state # "TX_PENDING"
  BY LimitsAssumption DEF NewSender, Sender, State
<1>2. Len(Devices) \in Nat
  BY HubAssumption
<1>3. HubTypeOK
  BY <1>1, <1>2 DEF Init, HubTypeOK, NoCalls
<1>4. PendingIsInFlight
  BY <1>1 DEF Init, PendingIsInFlight
<1>5. QED BY <1>3, <1>4 DEF HubInv

LEMMA HubNext == HubInv /\ [Next]_vars => HubInv'
<1> SUFFICES ASSUME HubInv, [Next]_vars PROVE HubInv'
  OBVIOUS
<1>1. CASE Enqueues
  BY <1>1, EnqueueKeeps DEF Enqueues
<1>2. CASE Clears
  BY <1>2, ClearKeeps DEF Clears
<1>3. CASE Clock
  BY <1>3, DelayElapsesKeeps, TimeoutPassesKeeps DEF Clock
<1>4. CASE SendRaw
  BY <1>4, SendRawKeeps
<1>5. CASE Deliver
  BY <1>5, DeliverKeeps
<1>6. CASE EndDrain
  <2>1. /\ turn' \in 0 .. Len(Devices)
        /\ UNCHANGED <<sender, calls, txQueue, onAir, doneQueue, requested, lost>>
    BY <1>6, NextTurnType DEF EndDrain, hubVars
  <2>2. QED BY <2>1 DEF HubInv, HubTypeOK, PendingIsInFlight, InHub
<1>7. CASE ProcessQueue
  BY <1>7, ProcessQueueKeeps
<1>8. CASE RfTask
  BY <1>8, StartTxKeeps, StartFailsKeeps, EndTxKeeps DEF RfTask
<1>9. CASE UNCHANGED vars
  BY <1>9 DEF vars, hubVars, HubInv, HubTypeOK, PendingIsInFlight, InHub
<1>10. QED BY <1>1, <1>2, <1>3, <1>4, <1>5, <1>6, <1>7, <1>8, <1>9 DEF Next

(* The inductive invariant of the hub: its types, and that a sender in     *)
(* TX_PENDING has a request in one of the queues or on the air.            *)
THEOREM HubInvariant == Spec => []HubInv
<1>1. QED BY HubInit, HubNext, PTL DEF Spec

(* A sender that waits in TX_PENDING waits for a request that is queued,   *)
(* on the air or answered, unless a full tx_done_queue dropped its answer. *)
THEOREM HubPendingInFlight == Spec => []PendingIsInFlight
<1>1. HubInv => PendingIsInFlight
  BY DEF HubInv
<1>2. QED BY <1>1, HubInvariant, PTL

----------------------------------------------------------------------------
(* How many requests of one sender the hub holds.                          *)

LEMMA OfType ==
  ASSUME NEW S, NEW q \in Seq(S), NEW c
  PROVE  /\ Of(q, c) \in Nat /\ (q = <<>> => Of(q, c) = 0)
         /\ IsFiniteSet({k \in DOMAIN q : q[k].client = c})
         /\ \A k \in DOMAIN q : q[k].client = c => Of(q, c) >= 1
<1> DEFINE mine == {k \in DOMAIN q : q[k].client = c}
<1>1. DOMAIN q = 1 .. Len(q) /\ Len(q) \in Nat
  OBVIOUS
<1>2. IsFiniteSet(1 .. Len(q))
  BY <1>1, FS_Interval
<1>3. IsFiniteSet(mine)
  BY <1>1, <1>2, FS_Subset
<1>4. Cardinality(mine) \in Nat
  BY <1>3, FS_CardinalityType
<1>5. q = <<>> => mine = {}
  OBVIOUS
<1>6. Cardinality(mine) = 0 <=> mine = {}
  BY <1>3, FS_EmptySet
<1>7. \A k \in DOMAIN q : q[k].client = c => Cardinality(mine) >= 1
  <2> SUFFICES ASSUME NEW k \in DOMAIN q, q[k].client = c PROVE Cardinality(mine) >= 1
    OBVIOUS
  <2>1. mine # {}
    OBVIOUS
  <2> HIDE DEF mine
  <2>2. QED BY <1>4, <1>6, <2>1
<1>8. QED BY <1>3, <1>4, <1>5, <1>6, <1>7 DEF Of

LEMMA OfAppend ==
  ASSUME NEW S, NEW q \in Seq(S), NEW e \in S, NEW c
  PROVE  Of(Append(q, e), c) = Of(q, c) + (IF e.client = c THEN 1 ELSE 0)
<1> DEFINE mine == {k \in DOMAIN q : q[k].client = c}
           more == {k \in DOMAIN Append(q, e) : Append(q, e)[k].client = c}
           n == Len(q) + 1
<1>1. IsFiniteSet(mine) /\ Cardinality(mine) = Of(q, c) /\ Of(q, c) \in Nat
  BY OfType DEF Of
<1>2. more = IF e.client = c THEN mine \cup {n} ELSE mine
  <2>1. /\ DOMAIN Append(q, e) = 1 .. n /\ DOMAIN q = 1 .. Len(q) /\ Len(q) \in Nat
        /\ Append(q, e)[n] = e /\ \A k \in DOMAIN q : Append(q, e)[k] = q[k]
    OBVIOUS
  <2>2. 1 .. n = (1 .. Len(q)) \cup {n}
    BY <2>1
  <2>3. \A k \in 1 .. n : k \in more <=> (k \in mine \/ (k = n /\ e.client = c))
    BY <2>1, <2>2
  <2>4. more \subseteq 1 .. n /\ mine \subseteq 1 .. n
    BY <2>1, <2>2
  <2> HIDE DEF mine, more, n
  <2>5. n \in 1 .. n
    BY <2>2
  <2>6. QED BY <2>3, <2>4, <2>5
<1>3. n \notin mine
  OBVIOUS
<1>4. Cardinality(mine \cup {n}) = Cardinality(mine) + 1
  <2> HIDE DEF mine, n
  <2>1. QED BY <1>1, <1>3, FS_AddElement
<1>5. Of(Append(q, e), c) = Cardinality(more)
  BY DEF Of
<1> HIDE DEF mine, more, n
<1>6. QED BY <1>1, <1>2, <1>4, <1>5

LEMMA OfTail ==
  ASSUME NEW S, NEW q \in Seq(S), q # <<>>, NEW c
  PROVE  Of(q, c) = Of(Tail(q), c) + (IF Head(q).client = c THEN 1 ELSE 0)
<1> DEFINE mine == {k \in DOMAIN q : q[k].client = c}
           rest == {k \in DOMAIN Tail(q) : Tail(q)[k].client = c}
           later == mine \ {1}
           f == [k \in rest |-> k + 1]
<1>1. /\ IsFiniteSet(mine) /\ Cardinality(mine) = Of(q, c) /\ Of(q, c) \in Nat
      /\ IsFiniteSet(rest) /\ Cardinality(rest) = Of(Tail(q), c) /\ Of(Tail(q), c) \in Nat
  <2>1. Tail(q) \in Seq(S)
    OBVIOUS
  <2>2. QED BY <2>1, OfType DEF Of
<1>2. /\ Len(q) \in Nat \ {0} /\ DOMAIN q = 1 .. Len(q) /\ DOMAIN Tail(q) = 1 .. Len(q) - 1
      /\ Head(q) = q[1] /\ \A k \in 1 .. Len(q) - 1 : Tail(q)[k] = q[k + 1]
  OBVIOUS
<1>3. f \in Bijection(rest, later)
  <2>1. \A k \in rest : k \in 1 .. Len(q) - 1 /\ q[k + 1].client = c
    BY <1>2
  <2>2. \A k \in rest : k + 1 \in later
    BY <1>2, <2>1
  <2>3. \A j, k \in rest : j + 1 = k + 1 => j = k
    BY <2>1
  <2>4. \A k \in later : k \in 2 .. Len(q) /\ k - 1 \in rest /\ (k - 1) + 1 = k
    BY <1>2
  <2> HIDE DEF rest, later
  <2>5. f \in [rest -> later]
    BY <2>2
  <2>6. \A k \in later : \E j \in rest : f[j] = k
    <3> SUFFICES ASSUME NEW k \in later PROVE \E j \in rest : f[j] = k
      OBVIOUS
    <3>1. k - 1 \in rest /\ f[k - 1] = k
      BY <2>4
    <3>2. QED BY <3>1
  <2>7. \A j, k \in rest : f[j] = f[k] => j = k
    BY <2>3
  <2> HIDE DEF f
  <2>8. QED BY <2>5, <2>6, <2>7 DEF Bijection, Injection, Surjection, IsInjective
<1>4. Cardinality(later) = Cardinality(rest)
  <2> HIDE DEF rest, later, f
  <2>1. ExistsBijection(rest, later)
    BY <1>3 DEF ExistsBijection
  <2>2. QED BY <1>1, <2>1, FS_Bijection
<1>5. Cardinality(later) = IF 1 \in mine THEN Cardinality(mine) - 1 ELSE Cardinality(mine)
  <2> HIDE DEF mine
  <2>1. QED BY <1>1, FS_RemoveElement DEF later
<1>6. 1 \in mine <=> Head(q).client = c
  BY <1>2
<1> HIDE DEF mine, rest, later, f
<1>7. QED BY <1>1, <1>4, <1>5, <1>6

(* What post_tx_done does to the requests of c in the hub.                 *)
LEMMA PostHolds ==
  ASSUME HubTypeOK, NEW r \in RequestRec, NEW ok \in BOOLEAN, PostTxDone(r, ok), NEW c
  PROVE  \/ /\ lost' = lost
            /\ Of(doneQueue', c) = Of(doneQueue, c) + (IF r.client = c THEN 1 ELSE 0)
         \/ /\ ~(Len(doneQueue) < DONE_QUEUE) /\ lost' = lost \cup {r}
            /\ Of(doneQueue', c) = Of(doneQueue, c)
<1>1. CASE Len(doneQueue) < DONE_QUEUE
  <2> DEFINE e == [client |-> r.client, id |-> r.id, ok |-> ok]
  <2>1. e \in ResultRec /\ e.client = r.client
    BY DEF ResultRec, RequestRec
  <2>2. doneQueue \in Seq(ResultRec) /\ doneQueue' = Append(doneQueue, e) /\ lost' = lost
    BY <1>1 DEF HubTypeOK, PostTxDone
  <2> HIDE DEF e
  <2>3. Of(doneQueue', c) = Of(doneQueue, c) + (IF e.client = c THEN 1 ELSE 0)
    BY <2>1, <2>2, OfAppend
  <2>4. QED BY <2>1, <2>2, <2>3
<1>2. CASE ~(Len(doneQueue) < DONE_QUEUE)
  BY <1>2 DEF PostTxDone
<1>3. QED BY <1>1, <1>2

(* Whose request is overdue waits; a raw packet is in the hub once.        *)
Watched == \A c \in Clients : overdue[c] => sender[c].state = "TX_PENDING"
RawHeld == Held("raw") <= hubCalls.raw

BoundsTypeOK ==
  /\ overdue \in [Clients -> BOOLEAN]
  /\ hubCalls \in [raw : Nat, clears : Nat]

HeldInv == HubInv /\ BoundsTypeOK /\ Watched /\ OneRequestEach /\ RawHeld /\ LossNeedsTimeout

(* What a sender may have in the hub.                                      *)
Allowed(c) == calls[c].late + (IF sender[c].state = "TX_PENDING" /\ ~overdue[c] THEN 1 ELSE 0)

LEMMA HeldType ==
  ASSUME HubTypeOK, NEW c
  PROVE  Held(c) \in Nat
<1>1. doneQueue \in Seq(ResultRec) /\ txQueue \in Seq(RequestRec)
  BY DEF HubTypeOK
<1>2. Of(doneQueue, c) \in Nat /\ Of(txQueue, c) \in Nat
  BY <1>1, OfType
<1>3. QED BY <1>2 DEF Held

LEMMA HeldTypeNext ==
  ASSUME HubTypeOK', NEW c
  PROVE  Held(c)' \in Nat
<1>1. doneQueue' \in Seq(ResultRec) /\ txQueue' \in Seq(RequestRec)
  BY DEF HubTypeOK
<1>2. Of(doneQueue', c) \in Nat /\ Of(txQueue', c) \in Nat
  BY <1>1, OfType
<1>3. QED BY <1>2 DEF Held

(* A step that leaves the hub's queues alone keeps the counts.             *)
LEMMA SameHub ==
  ASSUME HeldInv, UNCHANGED <<doneQueue, onAir, txQueue, lost>>, BoundsTypeOK', Watched',
         hubCalls'.raw = hubCalls.raw,
         \A c \in Clients : calls'[c].late >= calls[c].late,
         \A c \in Clients : Allowed(c)' >= Allowed(c),
         HubInv'
  PROVE  HeldInv'
<1>1. \A c : Held(c)' = Held(c)
  BY DEF Held
<1>2. \A c \in Clients : Held(c) \in Nat /\ calls[c].late \in Nat /\ calls'[c].late \in Nat
  BY HeldType DEF HeldInv, HubInv, HubTypeOK
<1>3. \A c \in Clients : Held(c) <= Allowed(c) /\ Allowed(c) \in Nat /\ Allowed(c)' \in Nat
  BY <1>2 DEF HeldInv, OneRequestEach, Allowed
<1>4. OneRequestEach'
  BY <1>1, <1>2, <1>3 DEF OneRequestEach, Allowed
<1>5. RawHeld'
  BY <1>1 DEF HeldInv, RawHeld
<1>6. LossNeedsTimeout'
  BY <1>2 DEF HeldInv, LossNeedsTimeout
<1>7. QED BY <1>4, <1>5, <1>6 DEF HeldInv

(* A step of the RF task only moves requests along, or drops one that it   *)
(* then counts as lost.                                                    *)
LEMMA RfHolds ==
  ASSUME HeldInv, HubInv', UNCHANGED <<sender, overdue, calls, hubCalls>>,
         \A c \in Clients \cup {"raw"} : Held(c)' <= Held(c),
         LossNeedsTimeout'
  PROVE  HeldInv'
<1>1. \A c \in Clients \cup {"raw"} : Held(c) \in Nat /\ Held(c)' \in Nat
  BY HeldType, HeldTypeNext DEF HeldInv, HubInv
<1>2. \A c \in Clients : calls[c].late \in Nat
  BY DEF HeldInv, HubInv, HubTypeOK
<1>3. OneRequestEach'
  <2> SUFFICES ASSUME NEW c \in Clients
               PROVE  Held(c)' <= calls[c].late + (IF sender[c].state = "TX_PENDING" /\ ~overdue[c]
                                                   THEN 1 ELSE 0)
    BY DEF OneRequestEach
  <2> DEFINE one == IF sender[c].state = "TX_PENDING" /\ ~overdue[c] THEN 1 ELSE 0
  <2>1. Held(c) <= calls[c].late + one /\ one \in {0, 1}
    BY DEF HeldInv, OneRequestEach
  <2> HIDE DEF one
  <2>2. Held(c)' <= calls[c].late + one
    BY <1>1, <1>2, <2>1
  <2>3. QED BY <2>2 DEF one
<1>4. RawHeld'
  <2>1. hubCalls.raw \in Nat /\ Held("raw") <= hubCalls.raw
    BY DEF HeldInv, RawHeld, BoundsTypeOK
  <2>2. QED BY <1>1, <2>1 DEF RawHeld
<1>5. QED BY <1>3, <1>4 DEF HeldInv, BoundsTypeOK, Watched

LEMMA TwoHeld ==
  ASSUME NEW S, NEW q \in Seq(S), NEW j \in DOMAIN q, NEW k \in DOMAIN q, j # k,
         q[j].client = q[k].client
  PROVE  Of(q, q[k].client) >= 2
<1> DEFINE c == q[k].client
           mine == {i \in DOMAIN q : q[i].client = c}
<1>1. IsFiniteSet(mine) /\ Cardinality(mine) = Of(q, c)
  BY OfType DEF Of
<1>2. {j, k} \subseteq mine
  OBVIOUS
<1> HIDE DEF mine
<1> DEFINE one == {j}
<1>3. IsFiniteSet(one) /\ Cardinality(one) = 1 /\ k \notin one
  BY FS_Singleton
<1>4. Cardinality(one \cup {k}) = 2
  <2> HIDE DEF one
  <2>1. Cardinality(one \cup {k}) = Cardinality(one) + 1
    BY <1>3, FS_AddElement
  <2>2. QED BY <1>3, <2>1
<1>5. {j} \cup {k} = {j, k}
  OBVIOUS
<1>6. Cardinality({j, k}) <= Cardinality(mine)
  BY <1>1, <1>2, FS_Subset
<1>7. Of(q, c) \in Nat
  BY OfType
<1>8. QED BY <1>1, <1>4, <1>5, <1>6, <1>7

(* A result that finds tx_done_queue full, before any watchdog has fired:  *)
(* the places are taken by a result each of some of the other senders and  *)
(* by raw packets, so there are more of them than places.                  *)
LEMMA FullQueue ==
  ASSUME HeldInv, NEW r \in RequestRec, ~(Len(doneQueue) < DONE_QUEUE),
         \A c \in Clients \cup {"raw"} :
           Of(doneQueue, c) + (IF r.client = c THEN 1 ELSE 0) <= Held(c),
         \A c \in Clients : ~(calls[c].late > 0)
  PROVE  ~(Len(Devices) + hubCalls.raw <= DONE_QUEUE)
<1> DEFINE D == DOMAIN doneQueue
           ofRaw == {k \in D : doneQueue[k].client = "raw"}
           ofClients == {k \in D : doneQueue[k].client \in Clients}
           T == Clients \ {r.client}
           f == [k \in ofClients |-> doneQueue[k].client]
<1>1. /\ doneQueue \in Seq(ResultRec) /\ D = 1 .. Len(doneQueue) /\ Len(doneQueue) \in Nat
      /\ \A k \in D : doneQueue[k].client \in Clients \cup {"raw"}
  <2>1. doneQueue \in Seq(ResultRec)
    BY DEF HeldInv, HubInv, HubTypeOK
  <2>2. \A k \in 1 .. Len(doneQueue) : doneQueue[k] \in ResultRec
    BY <2>1
  <2>3. D = 1 .. Len(doneQueue) /\ Len(doneQueue) \in Nat
    BY <2>1
  <2>4. \A x \in ResultRec : x.client \in Clients \cup {"raw"}
    BY DEF ResultRec
  <2> HIDE DEF D
  <2>5. QED BY <2>1, <2>2, <2>3, <2>4
<1>2. /\ IsFiniteSet(D) /\ Cardinality(D) = Len(doneQueue)
      /\ DONE_QUEUE \in Nat /\ DONE_QUEUE <= Len(doneQueue)
  <2>1. IsFiniteSet(D) /\ Cardinality(D) = Len(doneQueue)
    <3> HIDE DEF D
    <3>1. QED BY <1>1, FS_Interval
  <2>2. QED BY <1>1, <2>1, HubAssumption
<1>3. IsFiniteSet(ofRaw) /\ Cardinality(ofRaw) = Of(doneQueue, "raw") /\ Of(doneQueue, "raw") \in Nat
  <2>1. IsFiniteSet(ofRaw) /\ Of(doneQueue, "raw") \in Nat
    <3>1. \A q \in Seq(ResultRec) : /\ IsFiniteSet({k \in DOMAIN q : q[k].client = "raw"})
                                   /\ Of(q, "raw") \in Nat
      BY OfType
    <3>2. doneQueue \in Seq(ResultRec)
      BY <1>1
    <3>3. QED BY <3>1, <3>2
  <2>2. QED BY <2>1 DEF Of
<1>4. hubCalls.raw \in Nat /\ Of(doneQueue, "raw") + (IF r.client = "raw" THEN 1 ELSE 0) <= hubCalls.raw
  <2>1. hubCalls.raw \in Nat /\ Held("raw") <= hubCalls.raw /\ Held("raw") \in Nat
    BY HeldType DEF HeldInv, HubInv, BoundsTypeOK, RawHeld
  <2>2. Of(doneQueue, "raw") + (IF r.client = "raw" THEN 1 ELSE 0) <= Held("raw")
    OBVIOUS
  <2>3. CASE r.client = "raw"
    BY <1>3, <2>1, <2>2, <2>3
  <2>4. CASE r.client # "raw"
    BY <1>3, <2>1, <2>2, <2>4
  <2>5. QED BY <2>3, <2>4
<1>5. ASSUME NEW c \in Clients
      PROVE  /\ Of(doneQueue, c) \in Nat /\ Of(doneQueue, c) <= 1
             /\ r.client = c => Of(doneQueue, c) = 0
  <2>1. Of(doneQueue, c) \in Nat /\ Held(c) \in Nat
    BY <1>1, OfType, HeldType DEF HeldInv, HubInv
  <2>2. Held(c) <= 1
    <3>1. calls[c].late = 0
      BY DEF HeldInv, HubInv, HubTypeOK
    <3>2. QED BY <2>1, <3>1 DEF HeldInv, OneRequestEach
  <2>3. Of(doneQueue, c) + (IF r.client = c THEN 1 ELSE 0) <= Held(c)
    OBVIOUS
  <2>4. CASE r.client = c
    BY <2>1, <2>2, <2>3, <2>4
  <2>5. CASE r.client # c
    BY <2>1, <2>2, <2>3, <2>5
  <2>6. QED BY <2>4, <2>5
<1>6. f \in Injection(ofClients, T)
  <2>1. \A k \in ofClients : doneQueue[k].client \in T
    <3> SUFFICES ASSUME NEW k \in ofClients, doneQueue[k].client = r.client PROVE FALSE
      OBVIOUS
    <3>1. r.client \in Clients /\ Of(doneQueue, r.client) = 0
      BY <1>5
    <3>2. Of(doneQueue, r.client) >= 1
      BY <1>1, OfType
    <3>3. QED BY <3>1, <3>2
  <2>2. \A j, k \in ofClients : doneQueue[j].client = doneQueue[k].client => j = k
    <3> SUFFICES ASSUME NEW j \in ofClients, NEW k \in ofClients, j # k,
                        doneQueue[j].client = doneQueue[k].client
                 PROVE  FALSE
      OBVIOUS
    <3>1. Of(doneQueue, doneQueue[k].client) >= 2
      BY <1>1, TwoHeld
    <3>2. Of(doneQueue, doneQueue[k].client) \in Nat /\ Of(doneQueue, doneQueue[k].client) <= 1
      BY <1>5
    <3>3. QED BY <3>1, <3>2
  <2> HIDE DEF ofClients, T
  <2>3. QED BY <2>1, <2>2 DEF Injection, IsInjective
<1>7. IsFiniteSet(Clients) /\ Cardinality(Clients) \in Nat /\ Cardinality(Clients) <= Len(Devices)
      /\ Len(Devices) \in Nat
  <2>1. Devices \in Seq(Clients) /\ DOMAIN Devices = 1 .. Len(Devices) /\ Len(Devices) \in Nat
    BY HubAssumption
  <2>2. Devices \in Surjection(1 .. Len(Devices), Clients)
    <3>1. Devices \in [1 .. Len(Devices) -> Clients]
      BY <2>1
    <3>2. \A c \in Clients : \E k \in 1 .. Len(Devices) : Devices[k] = c
      BY <2>1 DEF Clients, Range
    <3>3. QED BY <3>1, <3>2 DEF Surjection
  <2>3. IsFiniteSet(1 .. Len(Devices)) /\ Cardinality(1 .. Len(Devices)) = Len(Devices)
    <3>1. PICK n \in Nat : n = Len(Devices)
      BY <2>1
    <3>2. IsFiniteSet(1 .. n) /\ Cardinality(1 .. n) = n
      BY FS_Interval
    <3>3. QED BY <3>1, <3>2
  <2>4. IsFiniteSet(Clients) /\ Cardinality(Clients) <= Len(Devices)
    BY <2>2, <2>3, FS_Surjection
  <2>5. QED BY <2>1, <2>4, FS_CardinalityType
<1>8. /\ IsFiniteSet(T) /\ Cardinality(T) \in Nat
      /\ Cardinality(T) = IF r.client \in Clients THEN Cardinality(Clients) - 1 ELSE Cardinality(Clients)
  <2>1. IsFiniteSet(T)
        /\ Cardinality(T) = IF r.client \in Clients THEN Cardinality(Clients) - 1 ELSE Cardinality(Clients)
    BY <1>7, FS_RemoveElement
  <2> HIDE DEF T
  <2>2. QED BY <2>1, FS_CardinalityType
<1>9. IsFiniteSet(ofClients) /\ Cardinality(ofClients) \in Nat /\ Cardinality(ofClients) <= Cardinality(T)
  <2> HIDE DEF ofClients, T, f
  <2>1. IsFiniteSet(ofClients) /\ Cardinality(ofClients) <= Cardinality(T)
    BY <1>6, <1>8, FS_Injection
  <2>2. QED BY <2>1, FS_CardinalityType
<1>10. Len(doneQueue) = Cardinality(ofClients) + Cardinality(ofRaw)
  <2>1. ofClients \cup ofRaw = D
    BY <1>1
  <2>2. ofClients \cap ofRaw = {}
    BY HubAssumption
  <2> HIDE DEF ofClients, ofRaw, D
  <2>3. Cardinality(ofClients \cup ofRaw) = Cardinality(ofClients) + Cardinality(ofRaw) - Cardinality({})
    BY <1>3, <1>9, <2>2, FS_Union
  <2>4. QED BY <1>2, <1>3, <1>9, <2>1, <2>3, FS_EmptySet
<1>11. r.client \in Clients \cup {"raw"} /\ "raw" \notin Clients
  BY HubAssumption DEF RequestRec
<1> HIDE DEF D, ofRaw, ofClients, T, f
<1>12. CASE r.client = "raw"
  <2>1. Cardinality(T) = Cardinality(Clients)
    BY <1>8, <1>11, <1>12
  <2>2. Of(doneQueue, "raw") + 1 <= hubCalls.raw
    BY <1>4, <1>12
  <2>3. QED BY <1>2, <1>3, <1>4, <1>7, <1>9, <1>10, <2>1, <2>2
<1>13. CASE r.client \in Clients
  <2>1. Cardinality(T) = Cardinality(Clients) - 1
    BY <1>8, <1>13
  <2>2. Of(doneQueue, "raw") <= hubCalls.raw
    BY <1>4, <1>11, <1>13, <1>3
  <2>3. QED BY <1>2, <1>3, <1>4, <1>7, <1>9, <1>10, <2>1, <2>2
<1>14. QED BY <1>11, <1>12, <1>13

----------------------------------------------------------------------------
(* The steps keep the counts.                                              *)

LEMMA StaysPending ==
  ASSUME NEW s \in Sender
  PROVE  /\ \A e \in Entry : Push(s, e).state = "TX_PENDING" <=> s.state = "TX_PENDING"
         /\ ClearQueue(s).state = "TX_PENDING" <=> s.state = "TX_PENDING"
<1>1. \A e \in Entry : Push(s, e).state = "TX_PENDING" <=> s.state = "TX_PENDING"
  BY DEF Push, Sender
<1>2. ClearQueue(s).state = "TX_PENDING" <=> s.state = "TX_PENDING"
  BY DEF ClearQueue, CancelRequest, Sender
<1>3. QED BY <1>1, <1>2

(* One sender changes, and waits as it did.                                *)
LEMMA SameWaits ==
  ASSUME HeldInv, HubInv', NEW c \in Clients, NEW s \in Sender,
         s.state = "TX_PENDING" <=> sender[c].state = "TX_PENDING",
         sender' = [sender EXCEPT ![c] = s], overdue' = overdue,
         UNCHANGED <<doneQueue, onAir, txQueue, lost>>,
         hubCalls'.raw = hubCalls.raw, hubCalls' \in [raw : Nat, clears : Nat],
         \A d \in Clients : calls'[d].late = calls[d].late
  PROVE  HeldInv'
<1>1. \A d \in Clients : sender'[d].state = "TX_PENDING" <=> sender[d].state = "TX_PENDING"
  BY DEF HeldInv, HubInv, HubTypeOK
<1>2. BoundsTypeOK' /\ Watched'
  BY <1>1 DEF HeldInv, BoundsTypeOK, Watched
<1>3. \A d \in Clients : calls[d].late \in Nat /\ calls'[d].late >= calls[d].late
  BY DEF HeldInv, HubInv, HubTypeOK
<1>4. \A d \in Clients : Allowed(d)' >= Allowed(d)
  <2> SUFFICES ASSUME NEW d \in Clients PROVE Allowed(d)' >= Allowed(d)
    OBVIOUS
  <2>1. Allowed(d)' = Allowed(d)
    BY <1>1 DEF Allowed
  <2>2. Allowed(d) \in Nat
    BY <1>3 DEF Allowed
  <2>3. QED BY <2>1, <2>2
<1>5. QED BY <1>2, <1>3, <1>4, SameHub

LEMMA EnqueueHolds ==
  ASSUME HeldInv, HubInv', NEW c \in Clients, NEW cmd \in Commands, EnqueueCommand(c, cmd)
  PROVE  HeldInv'
<1> DEFINE e == [id |-> calls[c].commands + 1, cmd |-> cmd, for |-> {}]
<1>1. e \in Entry
  BY DEF HeldInv, HubInv, HubTypeOK, Entry
<1>2. sender' = [sender EXCEPT ![c] = Push(sender[c], e)]
  BY DEF EnqueueCommand
<1>3. /\ UNCHANGED <<overdue, txQueue, onAir, doneQueue, hubCalls, lost>>
      /\ \A d \in Clients : calls'[d].late = calls[d].late
  BY DEF EnqueueCommand, hubVars, HeldInv, HubInv, HubTypeOK
<1> HIDE DEF e
<1>4. sender[c] \in Sender /\ hubCalls \in [raw : Nat, clears : Nat]
  BY DEF HeldInv, HubInv, HubTypeOK, BoundsTypeOK
<1>5. Push(sender[c], e) \in Sender
      /\ (Push(sender[c], e).state = "TX_PENDING" <=> sender[c].state = "TX_PENDING")
  BY <1>1, <1>4, PushType, StaysPending
<1>6. QED BY <1>2, <1>3, <1>4, <1>5, SameWaits

LEMMA ClearHolds ==
  ASSUME HeldInv, HubInv', NEW c \in Clients, Clear(c)
  PROVE  HeldInv'
<1>1. sender[c] \in Sender /\ hubCalls \in [raw : Nat, clears : Nat]
  BY DEF HeldInv, HubInv, HubTypeOK, BoundsTypeOK
<1>2. /\ sender' = [sender EXCEPT ![c] = ClearQueue(sender[c])]
      /\ hubCalls' = [hubCalls EXCEPT !.clears = @ + 1]
      /\ UNCHANGED <<overdue, calls, txQueue, onAir, doneQueue, lost>>
  BY DEF Clear, hubVars
<1>3. hubCalls'.raw = hubCalls.raw /\ hubCalls' \in [raw : Nat, clears : Nat]
  BY <1>1, <1>2
<1>4. ClearQueue(sender[c]) \in Sender
      /\ (ClearQueue(sender[c]).state = "TX_PENDING" <=> sender[c].state = "TX_PENDING")
  BY <1>1, ClearQueueType, StaysPending
<1>5. QED BY <1>2, <1>3, <1>4, SameWaits

LEMMA DelayElapsesHolds ==
  ASSUME HeldInv, HubInv', NEW c \in Clients, DelayElapses(c)
  PROVE  HeldInv'
<1>1. sender[c] \in Sender /\ hubCalls \in [raw : Nat, clears : Nat]
  BY DEF HeldInv, HubInv, HubTypeOK, BoundsTypeOK
<1>2. /\ sender' = [sender EXCEPT ![c] = [sender[c] EXCEPT !.delaying = FALSE]]
      /\ UNCHANGED <<overdue, calls, hubCalls, txQueue, onAir, doneQueue, lost>>
  BY DEF DelayElapses, hubVars
<1>3. [sender[c] EXCEPT !.delaying = FALSE] \in Sender
      /\ [sender[c] EXCEPT !.delaying = FALSE].state = sender[c].state
  BY <1>1, StepTypes, StillPending
<1>4. QED BY <1>1, <1>2, <1>3, SameWaits

(* The watchdog of a request comes due: one more may be in the hub, but    *)
(* the request that waits no longer counts.                                *)
LEMMA TimeoutPassesHolds ==
  ASSUME HeldInv, HubInv', NEW c \in Clients, TimeoutPasses(c)
  PROVE  HeldInv'
<1>1. /\ sender[c].state = "TX_PENDING" /\ ~overdue[c]
      /\ overdue' = [overdue EXCEPT ![c] = TRUE]
      /\ calls' = [calls EXCEPT ![c].late = @ + 1]
      /\ UNCHANGED <<sender, hubCalls, txQueue, onAir, doneQueue, lost>>
  BY DEF TimeoutPasses, hubVars
<1>2. calls \in [Clients -> [commands : Nat, late : Nat]]
  BY DEF HeldInv, HubInv, HubTypeOK
<1>3. /\ calls'[c].late = calls[c].late + 1 /\ calls[c].late \in Nat
      /\ \A d \in Clients \ {c} : calls'[d].late = calls[d].late /\ calls[d].late \in Nat
  BY <1>1, <1>2
<1>4. overdue' \in [Clients -> BOOLEAN] /\ overdue'[c] /\ \A d \in Clients \ {c} : overdue'[d] = overdue[d]
  BY <1>1 DEF HeldInv, BoundsTypeOK
<1>5. BoundsTypeOK' /\ Watched'
  BY <1>1, <1>4 DEF HeldInv, BoundsTypeOK, Watched
<1>6. \A d \in Clients : calls'[d].late >= calls[d].late
  BY <1>3
<1>7. ASSUME NEW d \in Clients PROVE Allowed(d)' >= Allowed(d)
  <2>1. CASE d = c
    BY <1>1, <1>3, <1>4, <2>1 DEF Allowed
  <2>2. CASE d # c
    <3>1. Allowed(d)' = Allowed(d) /\ Allowed(d) \in Nat
      BY <1>1, <1>3, <1>4, <2>2 DEF Allowed
    <3>2. QED BY <3>1
  <2>3. QED BY <2>1, <2>2
<1>8. QED BY <1>1, <1>5, <1>6, <1>7, SameHub

(* A completion takes its request out of the hub and ends the wait of its  *)
(* sender, so that what is left was given up by the watchdog.              *)
LEMMA DeliverHolds ==
  ASSUME HeldInv, HubInv', Deliver
  PROVE  HeldInv'
<1> DEFINE r == Head(doneQueue)
<1>1. /\ doneQueue # <<>> /\ doneQueue' = Tail(doneQueue) /\ doneQueue \in Seq(ResultRec)
      /\ UNCHANGED <<txQueue, onAir, calls, hubCalls, lost>>
  BY DEF Deliver, HeldInv, HubInv, HubTypeOK
<1>2. r \in ResultRec
  BY <1>1, TailHolds
<1>3. r.client \in Clients \cup {"raw"} /\ r.ok \in BOOLEAN
  BY <1>2 DEF ResultRec
<1>4. \A c : Of(doneQueue, c) = Of(doneQueue', c) + (IF r.client = c THEN 1 ELSE 0)
  BY <1>1, OfTail
<1>5. \/ r.client = "raw" /\ UNCHANGED <<sender, overdue>>
      \/ /\ r.client # "raw"
         /\ sender' = [sender EXCEPT ![r.client] = OnTxComplete(sender[r.client], r.ok)]
         /\ overdue' = [overdue EXCEPT ![r.client] =
                          overdue[r.client] /\ sender'[r.client].state = "TX_PENDING"]
  BY DEF Deliver
<1> HIDE DEF r
<1>6. ASSUME NEW c
      PROVE  /\ Held(c) \in Nat /\ Held(c)' \in Nat
             /\ Held(c)' <= Held(c) /\ (r.client = c => Held(c)' <= Held(c) - 1)
  <2>1. Held(c) \in Nat /\ Held(c)' \in Nat
    BY HeldType, HeldTypeNext DEF HeldInv, HubInv
  <2>2. doneQueue' \in Seq(ResultRec) /\ txQueue \in Seq(RequestRec)
    BY DEF HeldInv, HubInv, HubTypeOK
  <2>3. Of(doneQueue, c) \in Nat /\ Of(doneQueue', c) \in Nat /\ Of(txQueue, c) \in Nat
    BY <1>1, <2>2, OfType
  <2>4. Held(c)' = Of(doneQueue', c) + (IF onAir.client = c THEN 1 ELSE 0) + Of(txQueue, c)
    BY <1>1 DEF Held
  <2>5. CASE r.client = c
    <3>1. Of(doneQueue, c) = Of(doneQueue', c) + 1
      BY <1>4, <2>5
    <3>2. QED BY <2>1, <2>3, <2>4, <3>1 DEF Held
  <2>6. CASE r.client # c
    <3>1. Of(doneQueue, c) = Of(doneQueue', c)
      BY <1>4, <2>3, <2>6
    <3>2. QED BY <2>1, <2>3, <2>4, <2>6, <3>1 DEF Held
  <2>7. QED BY <2>5, <2>6
<1>7. \A c \in Clients : c # r.client => sender'[c] = sender[c] /\ overdue'[c] = overdue[c]
  BY <1>3, <1>5 DEF HeldInv, HubInv, HubTypeOK, BoundsTypeOK
<1>8. r.client \in Clients => sender'[r.client].state # "TX_PENDING" /\ ~overdue'[r.client]
  <2> SUFFICES ASSUME r.client \in Clients
               PROVE  sender'[r.client].state # "TX_PENDING" /\ ~overdue'[r.client]
    OBVIOUS
  <2>1. r.client # "raw"
    BY HubAssumption
  <2>2. sender[r.client] \in Sender /\ sender'[r.client] = OnTxComplete(sender[r.client], r.ok)
    BY <1>5, <2>1 DEF HeldInv, HubInv, HubTypeOK
  <2>3. sender'[r.client].state # "TX_PENDING"
    BY <1>3, <2>2, CompletionEnds
  <2>4. overdue'[r.client] = (overdue[r.client] /\ sender'[r.client].state = "TX_PENDING")
    BY <1>5, <2>1, Zenon DEF HeldInv, BoundsTypeOK
  <2>5. QED BY <2>3, <2>4
<1>9. overdue' \in [Clients -> BOOLEAN]
  <2>1. overdue \in [Clients -> BOOLEAN]
    BY DEF HeldInv, BoundsTypeOK
  <2>2. CASE UNCHANGED overdue
    BY <2>1, <2>2
  <2>3. CASE ~UNCHANGED overdue
    <3>1. PICK b : /\ b = (overdue[r.client] /\ sender'[r.client].state = "TX_PENDING")
                   /\ overdue' = [overdue EXCEPT ![r.client] = b]
      BY <1>5, <2>3
    <3>2. b \in BOOLEAN
      BY <3>1
    <3>3. QED BY <2>1, <3>1, <3>2
  <2>4. QED BY <2>2, <2>3
<1>10. BoundsTypeOK' /\ Watched'
  BY <1>1, <1>7, <1>8, <1>9 DEF HeldInv, BoundsTypeOK, Watched
<1>11. \A c \in Clients : calls[c].late \in Nat
  BY DEF HeldInv, HubInv, HubTypeOK
<1>12. OneRequestEach'
  <2> SUFFICES ASSUME NEW c \in Clients PROVE Held(c)' <= Allowed(c)'
    BY DEF OneRequestEach, Allowed
  <2>1. Held(c) <= Allowed(c) /\ Held(c) \in Nat /\ Held(c)' \in Nat /\ calls[c].late \in Nat
    BY <1>6, <1>11 DEF HeldInv, OneRequestEach, Allowed
  <2>2. CASE c = r.client
    <3>1. Allowed(c) <= calls[c].late + 1 /\ Allowed(c) \in Nat /\ Allowed(c)' = calls[c].late
      BY <1>1, <1>8, <2>1, <2>2 DEF Allowed
    <3>2. Held(c)' <= Held(c) - 1
      BY <1>6, <2>2
    <3>3. QED BY <2>1, <3>1, <3>2
  <2>3. CASE c # r.client
    <3>1. Allowed(c)' = Allowed(c) /\ Allowed(c) \in Nat
      BY <1>1, <1>7, <2>1, <2>3 DEF Allowed
    <3>2. Held(c)' <= Held(c)
      BY <1>6
    <3>3. QED BY <2>1, <3>1, <3>2
  <2>4. QED BY <2>2, <2>3
<1>13. RawHeld'
  <2>1. Held("raw") <= hubCalls.raw /\ hubCalls.raw \in Nat
    BY DEF HeldInv, RawHeld, BoundsTypeOK
  <2>2. Held("raw") \in Nat /\ Held("raw")' \in Nat /\ Held("raw")' <= Held("raw")
    BY <1>6
  <2>3. QED BY <1>1, <2>1, <2>2 DEF RawHeld
<1>14. LossNeedsTimeout'
  BY <1>1 DEF HeldInv, LossNeedsTimeout
<1>15. QED BY <1>10, <1>12, <1>13, <1>14 DEF HeldInv

(* A request is made by a sender that does not wait, and then it waits.    *)
LEMMA RequestHolds ==
  ASSUME HeldInv, HubInv', NEW c \in Clients, Request(c),
         UNCHANGED <<onAir, doneQueue, calls, hubCalls, lost>>
  PROVE  HeldInv'
<1> DEFINE e == [client |-> c, id |-> requested'[c]]
<1>1. /\ sender[c].state # "TX_PENDING" /\ sender' = [sender EXCEPT ![c] = Requested(sender[c])]
      /\ txQueue' = Append(txQueue, e) /\ overdue' = overdue
  BY DEF Request, CanRequest
<1>2. sender[c] \in Sender /\ txQueue \in Seq(RequestRec) /\ requested' \in [Clients -> Nat]
  BY DEF HeldInv, HubInv, HubTypeOK
<1>3. e \in RequestRec /\ e.client = c
  BY <1>2 DEF RequestRec
<1> HIDE DEF e
<1>4. /\ sender'[c].state = "TX_PENDING" /\ ~overdue[c]
      /\ \A d \in Clients : d # c => sender'[d] = sender[d]
  BY <1>1, <1>2 DEF HeldInv, HubInv, HubTypeOK, Requested, Sender, Watched
<1>5. ASSUME NEW d
      PROVE  /\ Held(d) \in Nat /\ Held(d)' \in Nat
             /\ Held(d)' = Held(d) + (IF d = c THEN 1 ELSE 0)
  <2>1. Held(d) \in Nat /\ Held(d)' \in Nat
    BY HeldType, HeldTypeNext DEF HeldInv, HubInv
  <2>2. Of(doneQueue, d) \in Nat /\ Of(txQueue, d) \in Nat
    BY <1>2, OfType DEF HeldInv, HubInv, HubTypeOK
  <2>3. Of(txQueue', d) = Of(txQueue, d) + (IF d = c THEN 1 ELSE 0)
    BY <1>1, <1>2, <1>3, OfAppend
  <2>4. Held(d)' = Of(doneQueue, d) + (IF onAir.client = d THEN 1 ELSE 0) + Of(txQueue', d)
    BY DEF Held
  <2>5. QED BY <2>1, <2>2, <2>3, <2>4 DEF Held
<1>6. BoundsTypeOK' /\ Watched'
  BY <1>1, <1>4 DEF HeldInv, BoundsTypeOK, Watched
<1>7. OneRequestEach'
  <2> SUFFICES ASSUME NEW d \in Clients PROVE Held(d)' <= Allowed(d)'
    BY DEF OneRequestEach, Allowed
  <2>1. Held(d) <= Allowed(d) /\ Held(d) \in Nat /\ calls[d].late \in Nat
    BY <1>5 DEF HeldInv, HubInv, HubTypeOK, OneRequestEach, Allowed
  <2>2. CASE d = c
    <3>1. Allowed(d) = calls[d].late /\ Allowed(d)' = calls[d].late + 1
      BY <1>1, <1>4, <2>1, <2>2 DEF Allowed
    <3>2. QED BY <1>5, <2>1, <2>2, <3>1
  <2>3. CASE d # c
    <3>1. Allowed(d)' = Allowed(d)
      BY <1>1, <1>4, <2>3 DEF Allowed
    <3>2. Held(d)' = Held(d)
      BY <1>5, <2>3
    <3>3. QED BY <2>1, <3>1, <3>2
  <2>4. QED BY <2>2, <2>3
<1>8. RawHeld'
  <2>1. "raw" # c
    BY HubAssumption
  <2>2. Held("raw")' = Held("raw")
    BY <1>5, <2>1
  <2>3. QED BY <2>2 DEF HeldInv, RawHeld
<1>9. LossNeedsTimeout'
  BY DEF HeldInv, LossNeedsTimeout
<1>10. QED BY <1>6, <1>7, <1>8, <1>9 DEF HeldInv

LEMMA TimeoutHolds ==
  ASSUME HeldInv, HubInv', NEW c \in Clients, Timeout(c),
         UNCHANGED <<onAir, doneQueue, calls, hubCalls, lost>>
  PROVE  HeldInv'
<1>1. /\ sender[c].state = "TX_PENDING" /\ overdue[c]
      /\ sender' = [sender EXCEPT ![c] = TimedOut(sender[c])]
      /\ overdue' = [overdue EXCEPT ![c] = FALSE] /\ UNCHANGED txQueue
  BY DEF Timeout
<1>2. /\ sender[c] \in Sender /\ sender \in [Clients -> Sender] /\ overdue \in [Clients -> BOOLEAN]
  BY DEF HeldInv, HubInv, HubTypeOK, BoundsTypeOK
<1>3. /\ sender'[c].state # "TX_PENDING" /\ ~overdue'[c] /\ overdue' \in [Clients -> BOOLEAN]
      /\ \A d \in Clients : d # c => sender'[d] = sender[d] /\ overdue'[d] = overdue[d]
  <2>1. TimedOut(sender[c]).state # "TX_PENDING"
    BY <1>2, FailEnds DEF TimedOut
  <2>2. QED BY <1>1, <1>2, <2>1
<1>4. BoundsTypeOK' /\ Watched'
  BY <1>3 DEF HeldInv, BoundsTypeOK, Watched
<1>5. \A d \in Clients : calls[d].late \in Nat
  BY DEF HeldInv, HubInv, HubTypeOK
<1>6. ASSUME NEW d \in Clients PROVE Allowed(d)' >= Allowed(d)
  <2>1. Allowed(d)' = Allowed(d) /\ Allowed(d) \in Nat
    BY <1>1, <1>3, <1>5 DEF Allowed
  <2>2. QED BY <2>1
<1>7. \A d \in Clients : calls'[d].late >= calls[d].late
  BY <1>5
<1>8. QED BY <1>1, <1>4, <1>6, <1>7, SameHub

LEMMA ProcessQueueHolds ==
  ASSUME HeldInv, HubInv', ProcessQueue
  PROVE  HeldInv'
<1> DEFINE c == Devices[turn]
<1>1. /\ UNCHANGED <<onAir, doneQueue, calls, hubCalls, lost>>
      /\ Pass(c) \/ Wake(c) \/ Refused(c) \/ Request(c) \/ Settle(c) \/ Timeout(c)
  BY DEF ProcessQueue
<1>2. c \in Clients
  BY HubAssumption DEF ProcessQueue, HeldInv, HubInv, HubTypeOK
<1> HIDE DEF c
<1>3. sender[c] \in Sender /\ hubCalls \in [raw : Nat, clears : Nat]
      /\ sender \in [Clients -> Sender]
  BY <1>2 DEF HeldInv, HubInv, HubTypeOK, BoundsTypeOK
<1>4. CASE Pass(c) \/ Refused(c)
  <2>1. sender' = [sender EXCEPT ![c] = sender[c]] /\ UNCHANGED <<overdue, txQueue>>
    BY <1>2, <1>3, <1>4 DEF Pass, Refused
  <2>2. QED BY <1>1, <1>2, <1>3, <2>1, SameWaits
<1>5. CASE Wake(c)
  <2>1. sender' = [sender EXCEPT ![c] = Woken(sender[c])] /\ UNCHANGED <<overdue, txQueue>>
        /\ sender[c].state = "IDLE"
    BY <1>5 DEF Wake
  <2>2. Woken(sender[c]) \in Sender /\ Woken(sender[c]).state # "TX_PENDING"
    BY <1>3, StepTypes, StillPending
  <2>3. QED BY <1>1, <1>2, <1>3, <2>1, <2>2, SameWaits
<1>6. CASE Settle(c)
  <2>1. sender' = [sender EXCEPT ![c] = Settled(sender[c])] /\ UNCHANGED <<overdue, txQueue>>
        /\ sender[c].state = "WAIT_DELAY"
    BY <1>6 DEF Settle, CanSettle
  <2>2. Settled(sender[c]) \in Sender /\ Settled(sender[c]).state # "TX_PENDING"
    BY <1>3, StepTypes, StillPending
  <2>3. QED BY <1>1, <1>2, <1>3, <2>1, <2>2, SameWaits
<1>7. CASE Request(c)
  BY <1>1, <1>2, <1>7, RequestHolds
<1>8. CASE Timeout(c)
  BY <1>1, <1>2, <1>8, TimeoutHolds
<1>9. QED BY <1>1, <1>4, <1>5, <1>6, <1>7, <1>8

LEMMA SendRawHolds ==
  ASSUME HeldInv, HubInv', SendRaw
  PROVE  HeldInv'
<1> DEFINE e == [client |-> "raw", id |-> 0]
<1>1. /\ txQueue' = Append(txQueue, e) /\ e \in RequestRec /\ e.client = "raw"
      /\ txQueue \in Seq(RequestRec) /\ hubCalls' = [hubCalls EXCEPT !.raw = @ + 1]
      /\ UNCHANGED <<sender, overdue, onAir, doneQueue, calls, lost>>
  BY DEF SendRaw, RequestRec, HeldInv, HubInv, HubTypeOK
<1> HIDE DEF e
<1>2. hubCalls \in [raw : Nat, clears : Nat] /\ hubCalls.raw \in Nat
  BY DEF HeldInv, BoundsTypeOK
<1>3. hubCalls' \in [raw : Nat, clears : Nat] /\ hubCalls'.raw = hubCalls.raw + 1
  BY <1>1, <1>2
<1>4. ASSUME NEW d
      PROVE  /\ Held(d) \in Nat
             /\ Held(d)' = Held(d) + (IF d = "raw" THEN 1 ELSE 0)
  <2>1. Held(d) \in Nat
    BY HeldType DEF HeldInv, HubInv
  <2>2. Of(doneQueue, d) \in Nat /\ Of(txQueue, d) \in Nat
    BY <1>1, OfType DEF HeldInv, HubInv, HubTypeOK
  <2>3. Of(txQueue', d) = Of(txQueue, d) + (IF d = "raw" THEN 1 ELSE 0)
    BY <1>1, OfAppend
  <2>4. Held(d)' = Of(doneQueue, d) + (IF onAir.client = d THEN 1 ELSE 0) + Of(txQueue', d)
    BY <1>1 DEF Held
  <2>5. QED BY <2>1, <2>2, <2>3, <2>4 DEF Held
<1>5. BoundsTypeOK' /\ Watched'
  BY <1>1, <1>3 DEF HeldInv, BoundsTypeOK, Watched
<1>6. OneRequestEach'
  <2> SUFFICES ASSUME NEW d \in Clients PROVE Held(d)' <= Allowed(d)'
    BY DEF OneRequestEach, Allowed
  <2>1. d # "raw" /\ Held(d) <= Allowed(d)
    BY HubAssumption DEF HeldInv, OneRequestEach, Allowed
  <2>2. Held(d)' = Held(d)
    BY <1>4, <2>1
  <2>3. Allowed(d)' = Allowed(d)
    BY <1>1 DEF Allowed
  <2>4. QED BY <2>1, <2>2, <2>3
<1>7. RawHeld'
  <2>1. Held("raw") <= hubCalls.raw /\ Held("raw") \in Nat /\ Held("raw")' = Held("raw") + 1
    BY <1>4 DEF HeldInv, RawHeld
  <2>2. QED BY <1>2, <1>3, <2>1 DEF RawHeld
<1>8. LossNeedsTimeout'
  <2>1. Len(Devices) \in Nat /\ DONE_QUEUE \in Nat
    BY HubAssumption
  <2>2. Len(Devices) + hubCalls'.raw <= DONE_QUEUE => Len(Devices) + hubCalls.raw <= DONE_QUEUE
    BY <1>2, <1>3, <2>1
  <2>3. QED BY <1>1, <2>2 DEF HeldInv, LossNeedsTimeout
<1>9. QED BY <1>5, <1>6, <1>7, <1>8 DEF HeldInv

(* What a result dropped by a full tx_done_queue says.                     *)
LEMMA LossHolds ==
  ASSUME HeldInv, NEW r \in RequestRec, UNCHANGED <<calls, hubCalls>>,
         \/ lost' = lost
         \/ ~(Len(doneQueue) < DONE_QUEUE),
         \A c \in Clients \cup {"raw"} :
           Of(doneQueue, c) + (IF r.client = c THEN 1 ELSE 0) <= Held(c)
  PROVE  LossNeedsTimeout'
<1>1. CASE lost' = lost
  BY <1>1 DEF HeldInv, LossNeedsTimeout
<1>2. CASE ~(Len(doneQueue) < DONE_QUEUE)
  BY <1>2, FullQueue DEF LossNeedsTimeout
<1>3. QED BY <1>1, <1>2

LEMMA AirIsNone ==
  ASSUME NEW c \in Clients \cup {"raw"}
  PROVE  NoRequest.client # c
BY HubAssumption DEF NoRequest

LEMMA StartTxHolds ==
  ASSUME HeldInv, HubInv', StartTx
  PROVE  HeldInv'
<1>1. /\ onAir' = Head(txQueue) /\ txQueue' = Tail(txQueue) /\ onAir = NoRequest /\ txQueue # <<>>
      /\ UNCHANGED <<sender, overdue, doneQueue, hubCalls, calls, lost>>
  BY DEF StartTx, Takes
<1>2. txQueue \in Seq(RequestRec) /\ doneQueue \in Seq(ResultRec) /\ txQueue' \in Seq(RequestRec)
  BY DEF HeldInv, HubInv, HubTypeOK
<1>3. ASSUME NEW c \in Clients \cup {"raw"}
      PROVE  Held(c)' <= Held(c)
  <2>1. Of(doneQueue, c) \in Nat /\ Of(txQueue, c) \in Nat /\ Of(txQueue', c) \in Nat
    BY <1>2, OfType
  <2>2. Of(txQueue, c) = Of(txQueue', c) + (IF onAir'.client = c THEN 1 ELSE 0)
    BY <1>1, <1>2, OfTail
  <2>3. Held(c) = Of(doneQueue, c) + 0 + Of(txQueue, c)
    BY <1>1, AirIsNone DEF Held
  <2>4. Held(c)' = Of(doneQueue, c) + (IF onAir'.client = c THEN 1 ELSE 0) + Of(txQueue', c)
    BY <1>1 DEF Held
  <2>5. QED BY <2>1, <2>2, <2>3, <2>4
<1>4. LossNeedsTimeout'
  BY <1>1 DEF HeldInv, LossNeedsTimeout
<1>5. QED BY <1>1, <1>3, <1>4, RfHolds

LEMMA StartFailsHolds ==
  ASSUME HeldInv, HubInv', StartFails
  PROVE  HeldInv'
<1>1. /\ txQueue' = Tail(txQueue) /\ onAir = NoRequest /\ txQueue # <<>>
      /\ PostTxDone(Head(txQueue), FALSE)
      /\ UNCHANGED <<sender, overdue, onAir, hubCalls, calls>>
  BY DEF StartFails, Takes
<1>2. /\ txQueue \in Seq(RequestRec) /\ doneQueue \in Seq(ResultRec)
      /\ txQueue' \in Seq(RequestRec) /\ doneQueue' \in Seq(ResultRec)
  BY DEF HeldInv, HubInv, HubTypeOK
<1>3. PICK r \in RequestRec : r = Head(txQueue)
  BY <1>1, <1>2, TailHolds
<1>4. ASSUME NEW c \in Clients \cup {"raw"}
      PROVE  /\ Held(c)' <= Held(c)
             /\ Of(doneQueue, c) + (IF r.client = c THEN 1 ELSE 0) <= Held(c)
             /\ lost' = lost \/ ~(Len(doneQueue) < DONE_QUEUE)
  <2>1. /\ Of(doneQueue, c) \in Nat /\ Of(txQueue, c) \in Nat /\ Of(txQueue', c) \in Nat
        /\ Of(doneQueue', c) \in Nat
    BY <1>2, OfType
  <2> DEFINE one == IF r.client = c THEN 1 ELSE 0
  <2>2. Of(txQueue, c) = Of(txQueue', c) + one
    BY <1>1, <1>2, <1>3, OfTail
  <2>3. Held(c) = Of(doneQueue, c) + 0 + Of(txQueue, c)
    BY <1>1, AirIsNone DEF Held
  <2>4. Held(c)' = Of(doneQueue', c) + 0 + Of(txQueue', c)
    BY <1>1, AirIsNone DEF Held
  <2>5. \/ lost' = lost /\ Of(doneQueue', c) = Of(doneQueue, c) + one
        \/ ~(Len(doneQueue) < DONE_QUEUE) /\ Of(doneQueue', c) = Of(doneQueue, c)
    <3>1. HubTypeOK
      BY DEF HeldInv, HubInv
    <3>2. PostTxDone(r, FALSE)
      BY <1>1, <1>3
    <3>3. QED BY <3>1, <3>2, PostHolds
  <2>6. one \in {0, 1}
    OBVIOUS
  <2>7. Of(doneQueue, c) + one <= Held(c) /\ Held(c)' <= Held(c)
    <3> HIDE DEF one
    <3>1. QED BY <2>1, <2>2, <2>3, <2>4, <2>5, <2>6
  <2>8. QED BY <2>5, <2>7
<1>5. LossNeedsTimeout'
  BY <1>1, <1>4, LossHolds
<1>6. QED BY <1>1, <1>4, <1>5, RfHolds

LEMMA EndTxHolds ==
  ASSUME HeldInv, HubInv', NEW ok \in BOOLEAN, EndTx(ok)
  PROVE  HeldInv'
<1>1. /\ onAir' = NoRequest /\ onAir # NoRequest /\ PostTxDone(onAir, ok)
      /\ UNCHANGED <<sender, overdue, txQueue, hubCalls, calls>>
  BY DEF EndTx
<1>2. /\ txQueue \in Seq(RequestRec) /\ doneQueue \in Seq(ResultRec) /\ doneQueue' \in Seq(ResultRec)
  BY DEF HeldInv, HubInv, HubTypeOK
<1>3. PICK r \in RequestRec : r = onAir
  BY <1>1 DEF HeldInv, HubInv, HubTypeOK
<1>4. ASSUME NEW c \in Clients \cup {"raw"}
      PROVE  /\ Held(c)' <= Held(c)
             /\ Of(doneQueue, c) + (IF r.client = c THEN 1 ELSE 0) <= Held(c)
             /\ lost' = lost \/ ~(Len(doneQueue) < DONE_QUEUE)
  <2>1. Of(doneQueue, c) \in Nat /\ Of(txQueue, c) \in Nat /\ Of(doneQueue', c) \in Nat
    BY <1>2, OfType
  <2> DEFINE one == IF r.client = c THEN 1 ELSE 0
  <2>2. Held(c) = Of(doneQueue, c) + one + Of(txQueue, c)
    BY <1>3 DEF Held
  <2>3. Held(c)' = Of(doneQueue', c) + 0 + Of(txQueue, c)
    BY <1>1, AirIsNone DEF Held
  <2>4. \/ lost' = lost /\ Of(doneQueue', c) = Of(doneQueue, c) + one
        \/ ~(Len(doneQueue) < DONE_QUEUE) /\ Of(doneQueue', c) = Of(doneQueue, c)
    <3>1. HubTypeOK
      BY DEF HeldInv, HubInv
    <3>2. PostTxDone(r, ok)
      BY <1>1, <1>3
    <3>3. QED BY <3>1, <3>2, PostHolds
  <2>5. one \in {0, 1}
    OBVIOUS
  <2>6. Of(doneQueue, c) + one <= Held(c) /\ Held(c)' <= Held(c)
    <3> HIDE DEF one
    <3>1. QED BY <2>1, <2>2, <2>3, <2>4, <2>5
  <2>7. QED BY <2>4, <2>6
<1>5. LossNeedsTimeout'
  BY <1>1, <1>4, LossHolds
<1>6. QED BY <1>1, <1>4, <1>5, RfHolds

LEMMA HeldInit == Init => HeldInv
<1> SUFFICES ASSUME Init PROVE HeldInv
  OBVIOUS
<1>1. HubInv
  BY HubInit
<1>2. BoundsTypeOK /\ Watched
  BY DEF Init, BoundsTypeOK, Watched
<1>3. \A c \in Clients \cup {"raw"} : Held(c) = 0
  <2> SUFFICES ASSUME NEW c \in Clients \cup {"raw"} PROVE Held(c) = 0
    OBVIOUS
  <2>1. doneQueue = <<>> /\ txQueue = <<>> /\ onAir = NoRequest
    BY DEF Init
  <2>2. <<>> \in Seq(RequestRec)
    OBVIOUS
  <2>3. Of(<<>>, c) = 0
    BY <2>2, OfType
  <2>4. QED BY <2>1, <2>3, AirIsNone DEF Held
<1>4. \A c \in Clients : sender[c].state # "TX_PENDING" /\ calls[c].late = 0
  BY DEF Init, NewSender, NoCalls
<1>5. OneRequestEach
  BY <1>3, <1>4 DEF OneRequestEach
<1>6. RawHeld
  BY <1>3 DEF Init, RawHeld
<1>7. LossNeedsTimeout
  BY DEF Init, LossNeedsTimeout
<1>8. QED BY <1>1, <1>2, <1>5, <1>6, <1>7 DEF HeldInv

LEMMA HeldNext == HeldInv /\ [Next]_vars => HeldInv'
<1> SUFFICES ASSUME HeldInv, [Next]_vars PROVE HeldInv'
  OBVIOUS
<1>0. HubInv'
  BY HubNext DEF HeldInv
<1>1. CASE Enqueues
  BY <1>0, <1>1, EnqueueHolds DEF Enqueues
<1>2. CASE Clears
  BY <1>0, <1>2, ClearHolds DEF Clears
<1>3. CASE Clock
  BY <1>0, <1>3, DelayElapsesHolds, TimeoutPassesHolds DEF Clock
<1>4. CASE SendRaw
  BY <1>0, <1>4, SendRawHolds
<1>5. CASE Deliver
  BY <1>0, <1>5, DeliverHolds
<1>6. ASSUME UNCHANGED <<sender, overdue, hubVars, hubCalls, calls, lost>>
      PROVE  HeldInv'
  <2>1. \A c : Held(c)' = Held(c)
    BY <1>6 DEF hubVars, Held
  <2>2. BoundsTypeOK' /\ Watched' /\ OneRequestEach' /\ RawHeld' /\ LossNeedsTimeout'
    BY <1>6, <2>1 DEF HeldInv, BoundsTypeOK, Watched, OneRequestEach, RawHeld, LossNeedsTimeout
  <2>3. QED BY <1>0, <2>2 DEF HeldInv
<1>7. CASE EndDrain
  BY <1>6, <1>7 DEF EndDrain
<1>8. CASE ProcessQueue
  BY <1>0, <1>8, ProcessQueueHolds
<1>9. CASE RfTask
  BY <1>0, <1>9, StartTxHolds, StartFailsHolds, EndTxHolds DEF RfTask
<1>10. CASE UNCHANGED vars
  BY <1>6, <1>10 DEF vars
<1>11. QED BY <1>1, <1>2, <1>3, <1>4, <1>5, <1>7, <1>8, <1>9, <1>10 DEF Next

LEMMA HeldInvariant == Spec => []HeldInv
<1>1. QED BY HeldInit, HeldNext, PTL DEF Spec

(* However many senders compete for however short queues, the hub holds    *)
(* one request of a sender at a time, and one more for each time its       *)
(* watchdog gave one up that the RF task still has (elero.cpp request_tx,  *)
(* rf_task_func_; command_sender.h process_queue).                         *)
THEOREM HubOneRequestEach == Spec => []OneRequestEach
<1>1. HeldInv => OneRequestEach
  BY DEF HeldInv
<1>2. QED BY <1>1, HeldInvariant, PTL

(* A result is dropped by a full tx_done_queue only after a watchdog has   *)
(* fired, as long as the queue has a place for each sender and each raw    *)
(* packet (elero.cpp post_tx_done): the results in it answer requests of   *)
(* different senders, so that one place is always left.                    *)
THEOREM HubLossNeedsTimeout == Spec => []LossNeedsTimeout
<1>1. HeldInv => LossNeedsTimeout
  BY DEF HeldInv
<1>2. QED BY <1>1, HeldInvariant, PTL

----------------------------------------------------------------------------
(* The order of the requests of one sender in the hub.                     *)

(* Of two requests of one sender r was made first.                         *)
Goes(r, s) == r.client = s.client /\ r.client \in Clients => r.id < s.id

Sorted(q) == \A j, k \in DOMAIN q : j < k => Goes(q[j], q[k])

(* What was answered was requested before what is on the air, and that     *)
(* before what is queued.                                                  *)
InOrder ==
  /\ Sorted(doneQueue) /\ Sorted(txQueue)
  /\ \A j \in DOMAIN doneQueue : Goes(doneQueue[j], onAir)
  /\ \A k \in DOMAIN txQueue : Goes(onAir, txQueue[k])
  /\ \A j \in DOMAIN doneQueue, k \in DOMAIN txQueue : Goes(doneQueue[j], txQueue[k])

(* A request in the hub has a number its sender has given.                 *)
Known(r) == r.client \in Clients => r.id \in 1 .. requested[r.client]

Numbered ==
  /\ Known(onAir)
  /\ \A k \in DOMAIN doneQueue : Known(doneQueue[k])
  /\ \A k \in DOMAIN txQueue : Known(txQueue[k])

Bounded == Len(doneQueue) <= DONE_QUEUE /\ Len(txQueue) <= TX_QUEUE

ChannelInv ==
  HubTypeOK /\ answered \in [Clients -> Nat] /\ InOrder /\ Numbered /\ Bounded

(* Request n of c.                                                         *)
Req(c, n) == [client |-> c, id |-> n]

----------------------------------------------------------------------------
(* Lemmas: sorted queues.                                                  *)

LEMMA SortedAppend ==
  ASSUME NEW S, NEW q \in Seq(S), NEW e \in S, Sorted(q), \A k \in DOMAIN q : Goes(q[k], e)
  PROVE  /\ Sorted(Append(q, e))
         /\ \A k \in DOMAIN Append(q, e) : Append(q, e)[k] = e \/ (k \in DOMAIN q /\ Append(q, e)[k] = q[k])
BY DEF Sorted

LEMMA SortedTail ==
  ASSUME NEW S, NEW q \in Seq(S), q # <<>>, Sorted(q)
  PROVE  /\ Sorted(Tail(q)) /\ 1 \in DOMAIN q /\ Head(q) = q[1]
         /\ \A k \in DOMAIN Tail(q) : /\ Goes(Head(q), Tail(q)[k])
                                      /\ k + 1 \in DOMAIN q /\ Tail(q)[k] = q[k + 1]
<1>1. /\ Len(q) \in Nat \ {0} /\ DOMAIN q = 1 .. Len(q) /\ DOMAIN Tail(q) = 1 .. Len(q) - 1
      /\ Head(q) = q[1] /\ \A k \in 1 .. Len(q) - 1 : Tail(q)[k] = q[k + 1]
  OBVIOUS
<1>2. QED BY <1>1 DEF Sorted


----------------------------------------------------------------------------
(* Lemmas: what a step does to the channel of a sender.                    *)

LEMMA SameChannel ==
  ASSUME NEW c \in Clients, requested'[c] = requested[c], answered'[c] = answered[c],
         \A n \in Nat : InHub(Req(c, n))' <=> InHub(Req(c, n))
  PROVE  [Channel(c)!Next]_(Channel(c)!vars)
<1>1. Outstanding(c)' = Outstanding(c)
  BY DEF Outstanding, Req
<1>2. QED BY <1>1 DEF Channel!vars

LEMMA LostRequest ==
  ASSUME NEW c \in Clients, NEW m \in 1 .. requested[c], requested[c] \in Nat,
         requested'[c] = requested[c], answered'[c] = answered[c],
         InHub(Req(c, m)),
         \A n \in Nat : InHub(Req(c, n))' <=> InHub(Req(c, n)) /\ n # m
  PROVE  [Channel(c)!Next]_(Channel(c)!vars)
<1>1. m \in Outstanding(c)
  BY DEF Outstanding, Req
<1>2. Outstanding(c)' = Outstanding(c) \ {m}
  BY DEF Outstanding, Req
<1>3. Channel(c)!Lose
  BY <1>1, <1>2 DEF Channel!Lose
<1>4. QED BY <1>3 DEF Channel!Next

LEMMA AnsweredRequest ==
  ASSUME NEW c \in Clients, NEW m \in 1 .. requested[c], requested[c] \in Nat,
         requested'[c] = requested[c], answered'[c] = m,
         InHub(Req(c, m)), \A n \in Nat : InHub(Req(c, n)) => m <= n,
         \A n \in Nat : InHub(Req(c, n))' <=> InHub(Req(c, n)) /\ n # m
  PROVE  [Channel(c)!Next]_(Channel(c)!vars)
<1>1. m \in Outstanding(c) /\ \A n \in Outstanding(c) : m <= n
  BY DEF Outstanding, Req
<1>2. Outstanding(c)' = Outstanding(c) \ {m}
  BY DEF Outstanding, Req
<1>3. Channel(c)!Answer
  BY <1>1, <1>2 DEF Channel!Answer
<1>4. QED BY <1>3 DEF Channel!Next

(* Where request n of c is.                                                *)
LEMMA WhereIs ==
  ASSUME HubTypeOK, NEW c \in Clients, NEW n \in Nat
  PROVE  /\ Req(c, n) \in RequestRec /\ Req(c, n) # NoRequest
         /\ InHub(Req(c, n)) <=> \/ Req(c, n) = onAir
                                 \/ \E k \in DOMAIN txQueue : txQueue[k] = Req(c, n)
                                 \/ Answered(Req(c, n))
         /\ Answered(Req(c, n)) <=> \E k \in DOMAIN doneQueue :
                                      doneQueue[k].client = c /\ doneQueue[k].id = n
<1>1. Req(c, n) \in RequestRec /\ Req(c, n) # NoRequest
  BY HubAssumption DEF Req, RequestRec, NoRequest
<1>2. QED BY <1>1 DEF InHub, Answered, Req

(* A request is what its fields say.                                       *)
LEMMA ReqIs ==
  ASSUME NEW r \in RequestRec, NEW c, NEW n
  PROVE  r = Req(c, n) <=> r.client = c /\ r.id = n
BY DEF Req, RequestRec

(* post_tx_done, seen from the order.                                      *)
LEMMA PostOrder ==
  ASSUME ChannelInv, NEW r \in RequestRec, NEW ok \in BOOLEAN, PostTxDone(r, ok),
         Known(r), \A k \in DOMAIN doneQueue : Goes(doneQueue[k], r)
  PROVE  /\ Sorted(doneQueue') /\ Len(doneQueue') <= DONE_QUEUE
         /\ \A k \in DOMAIN doneQueue' :
              \/ k \in DOMAIN doneQueue /\ doneQueue'[k] = doneQueue[k]
              \/ doneQueue'[k].client = r.client /\ doneQueue'[k].id = r.id
         /\ \/ \A q : Answered(q)' <=> Answered(q) \/ (q.client = r.client /\ q.id = r.id)
            \/ \A q : Answered(q)' <=> Answered(q)
<1>1. /\ doneQueue \in Seq(ResultRec) /\ Sorted(doneQueue) /\ Len(doneQueue) <= DONE_QUEUE
      /\ DONE_QUEUE \in Nat
  BY HubAssumption DEF ChannelInv, HubTypeOK, InOrder, Bounded
<1>2. CASE Len(doneQueue) < DONE_QUEUE
  <2> DEFINE e == [client |-> r.client, id |-> r.id, ok |-> ok]
  <2>1. e \in ResultRec /\ e.client = r.client /\ e.id = r.id
    BY DEF ResultRec, RequestRec
  <2>2. doneQueue' = Append(doneQueue, e)
    BY <1>2 DEF PostTxDone
  <2> HIDE DEF e
  <2>3. \A k \in DOMAIN doneQueue : Goes(doneQueue[k], e)
    BY <2>1 DEF Goes
  <2>4. /\ Sorted(doneQueue')
        /\ \A k \in DOMAIN doneQueue' : doneQueue'[k] = e \/ (k \in DOMAIN doneQueue /\ doneQueue'[k] = doneQueue[k])
    BY <1>1, <2>1, <2>2, <2>3, SortedAppend
  <2>5. Len(doneQueue') = Len(doneQueue) + 1 /\ Len(doneQueue) \in Nat
    BY <1>1, <2>1, <2>2
  <2>6. /\ \A k \in DOMAIN doneQueue : k \in DOMAIN doneQueue' /\ doneQueue'[k] = doneQueue[k]
        /\ \E k \in DOMAIN doneQueue' : doneQueue'[k] = e
    BY <1>1, <2>1, <2>2, AppendHolds
  <2>7. \A q : Answered(q)' <=> Answered(q) \/ (q.client = r.client /\ q.id = r.id)
    BY <2>1, <2>4, <2>6 DEF Answered
  <2>8. QED BY <1>1, <1>2, <2>1, <2>4, <2>5, <2>7
<1>3. CASE ~(Len(doneQueue) < DONE_QUEUE)
  BY <1>1, <1>3 DEF PostTxDone, Answered
<1>4. QED BY <1>2, <1>3

----------------------------------------------------------------------------
(* The RF task moves requests on, answers or loses them.                   *)

LEMMA StartTxMaps ==
  ASSUME ChannelInv, HubTypeOK', StartTx
  PROVE  ChannelInv' /\ \A c \in Clients : [Channel(c)!Next]_(Channel(c)!vars)
<1>1. /\ txQueue \in Seq(RequestRec) /\ txQueue # <<>> /\ onAir = NoRequest
      /\ onAir' = Head(txQueue) /\ txQueue' = Tail(txQueue)
      /\ UNCHANGED <<doneQueue, requested, answered>>
  BY DEF StartTx, Takes, ChannelInv, HubTypeOK
<1>2. /\ Sorted(txQueue') /\ 1 \in DOMAIN txQueue /\ onAir' = txQueue[1]
      /\ \A k \in DOMAIN txQueue' : /\ Goes(onAir', txQueue'[k])
                                    /\ k + 1 \in DOMAIN txQueue /\ txQueue'[k] = txQueue[k + 1]
  BY <1>1, SortedTail DEF ChannelInv, InOrder
<1>3. InOrder'
  BY <1>1, <1>2 DEF ChannelInv, InOrder
<1>4. Numbered'
  BY <1>1, <1>2 DEF ChannelInv, Numbered, Known
<1>5. Bounded'
  <2>1. Len(txQueue') <= Len(txQueue) /\ Len(txQueue) \in Nat /\ Len(txQueue') \in Nat
    BY <1>1
  <2>2. QED BY <1>1, <2>1, HubAssumption DEF ChannelInv, Bounded
<1>6. ASSUME NEW c \in Clients, NEW n \in Nat
      PROVE  InHub(Req(c, n))' <=> InHub(Req(c, n))
  <2>1. /\ Req(c, n) # NoRequest
        /\ InHub(Req(c, n)) <=> \/ Req(c, n) = onAir
                                \/ \E k \in DOMAIN txQueue : txQueue[k] = Req(c, n)
                                \/ Answered(Req(c, n))
    BY WhereIs DEF ChannelInv
  <2>2. InHub(Req(c, n))' <=> \/ Req(c, n) = onAir'
                              \/ \E k \in DOMAIN txQueue' : txQueue'[k] = Req(c, n)
                              \/ Answered(Req(c, n))'
    BY WhereIs DEF InHub, Answered
  <2>3. Answered(Req(c, n))' <=> Answered(Req(c, n))
    BY <1>1 DEF Answered
  <2>4. (\E k \in DOMAIN txQueue : txQueue[k] = Req(c, n))
        <=> Req(c, n) = onAir' \/ \E k \in DOMAIN txQueue' : txQueue'[k] = Req(c, n)
    <3>1. \A k \in DOMAIN txQueue : k = 1 \/ (k - 1 \in DOMAIN txQueue' /\ txQueue'[k - 1] = txQueue[k])
      BY <1>1, TailHolds
    <3>2. QED BY <1>2, <3>1
  <2>5. QED BY <1>1, <2>1, <2>2, <2>3, <2>4
<1>7. QED BY <1>1, <1>3, <1>4, <1>5, <1>6, SameChannel DEF ChannelInv

(* A request that leaves the RF task is answered, which its sender does    *)
(* not see yet, or lost.                                                   *)
LEMMA PostMaps ==
  ASSUME ChannelInv, NEW r \in RequestRec, UNCHANGED <<requested, answered>>, Known(r),
         \A c \in Clients, n \in Nat :
           /\ InHub(Req(c, n)) <=> InHub(Req(c, n))' \/ r = Req(c, n)
           /\ InHub(Req(c, n))' /\ r = Req(c, n) => Answered(r)'
  PROVE  \A c \in Clients : [Channel(c)!Next]_(Channel(c)!vars)
<1> SUFFICES ASSUME NEW c \in Clients PROVE [Channel(c)!Next]_(Channel(c)!vars)
  OBVIOUS
<1>1. requested[c] \in Nat /\ requested'[c] = requested[c] /\ answered'[c] = answered[c]
  BY DEF ChannelInv, HubTypeOK
<1>2. CASE Answered(r)' \/ r.client # c
  <2>1. ASSUME NEW n \in Nat PROVE InHub(Req(c, n))' <=> InHub(Req(c, n))
    <3>1. CASE r = Req(c, n)
      <4>1. Answered(Req(c, n))'
        BY <1>2, <3>1 DEF Req
      <4>2. InHub(Req(c, n))'
        BY <4>1 DEF Answered, InHub
      <4>3. QED BY <3>1, <4>2
    <3>2. QED BY <3>1
  <2>2. QED BY <1>1, <2>1, SameChannel
<1>3. CASE ~Answered(r)' /\ r.client = c
  <2>1. /\ r.id \in 1 .. requested[c] /\ r = Req(c, r.id)
        /\ \A n \in Nat : r = Req(c, n) <=> n = r.id
    BY <1>1, <1>3, ReqIs DEF Known, RequestRec
  <2>2. InHub(Req(c, r.id))
    BY <1>1, <2>1
  <2>3. \A n \in Nat : InHub(Req(c, n))' <=> InHub(Req(c, n)) /\ n # r.id
    BY <1>1, <1>3, <2>1
  <2>4. QED BY <1>1, <2>1, <2>2, <2>3, LostRequest
<1>4. QED BY <1>2, <1>3

LEMMA StartFailsMaps ==
  ASSUME ChannelInv, HubTypeOK', StartFails
  PROVE  ChannelInv' /\ \A c \in Clients : [Channel(c)!Next]_(Channel(c)!vars)
<1>1. /\ txQueue \in Seq(RequestRec) /\ txQueue # <<>> /\ onAir = NoRequest /\ onAir' = NoRequest
      /\ txQueue' = Tail(txQueue) /\ PostTxDone(Head(txQueue), FALSE)
      /\ UNCHANGED <<requested, answered>>
  BY DEF StartFails, Takes, ChannelInv, HubTypeOK
<1>2. PICK head \in RequestRec : head = Head(txQueue)
  BY <1>1
<1>3. /\ Sorted(txQueue') /\ 1 \in DOMAIN txQueue /\ head = txQueue[1]
      /\ \A k \in DOMAIN txQueue' : /\ Goes(head, txQueue'[k])
                                    /\ k + 1 \in DOMAIN txQueue /\ txQueue'[k] = txQueue[k + 1]
  BY <1>1, <1>2, SortedTail DEF ChannelInv, InOrder
<1>4. \A k \in DOMAIN txQueue : k = 1 \/ (k - 1 \in DOMAIN txQueue' /\ txQueue'[k - 1] = txQueue[k])
  BY <1>1, TailHolds
<1>5. Known(head) /\ \A k \in DOMAIN doneQueue : Goes(doneQueue[k], head)
  BY <1>3 DEF ChannelInv, InOrder, Numbered
<1>6. /\ Sorted(doneQueue') /\ Len(doneQueue') <= DONE_QUEUE
      /\ \A k \in DOMAIN doneQueue' :
           \/ k \in DOMAIN doneQueue /\ doneQueue'[k] = doneQueue[k]
           \/ doneQueue'[k].client = head.client /\ doneQueue'[k].id = head.id
      /\ \/ \A q : Answered(q)' <=> Answered(q) \/ (q.client = head.client /\ q.id = head.id)
         \/ \A q : Answered(q)' <=> Answered(q)
  BY <1>1, <1>2, <1>5, PostOrder
<1>7. ~(NoRequest.client \in Clients)
  BY HubAssumption DEF NoRequest
<1>8. InOrder'
  <2>1. \A j \in DOMAIN doneQueue' : Goes(doneQueue'[j], NoRequest)
    BY <1>7 DEF Goes
  <2>2. \A k \in DOMAIN txQueue' : Goes(NoRequest, txQueue'[k])
    BY <1>7 DEF Goes
  <2>3. ASSUME NEW j \in DOMAIN doneQueue', NEW k \in DOMAIN txQueue'
        PROVE  Goes(doneQueue'[j], txQueue'[k])
    <3>1. Goes(head, txQueue'[k]) /\ k + 1 \in DOMAIN txQueue /\ txQueue'[k] = txQueue[k + 1]
      BY <1>3
    <3>2. CASE j \in DOMAIN doneQueue /\ doneQueue'[j] = doneQueue[j]
      BY <3>1, <3>2 DEF ChannelInv, InOrder
    <3>3. CASE doneQueue'[j].client = head.client /\ doneQueue'[j].id = head.id
      BY <3>1, <3>3 DEF Goes
    <3>4. QED BY <1>6, <3>2, <3>3
  <2>4. QED BY <1>1, <1>3, <1>6, <2>1, <2>2, <2>3 DEF InOrder
<1>9. Numbered'
  BY <1>1, <1>3, <1>5, <1>6 DEF ChannelInv, Numbered, Known
<1>10. Bounded'
  <2>1. Len(txQueue') <= Len(txQueue) /\ Len(txQueue) \in Nat /\ Len(txQueue') \in Nat
    BY <1>1
  <2>2. QED BY <1>6, <2>1, HubAssumption DEF ChannelInv, Bounded
<1>11. ASSUME NEW c \in Clients, NEW n \in Nat
       PROVE  /\ InHub(Req(c, n)) <=> InHub(Req(c, n))' \/ head = Req(c, n)
              /\ InHub(Req(c, n))' /\ head = Req(c, n) => Answered(head)'
  <2>1. /\ Req(c, n) # NoRequest /\ Req(c, n).client = c /\ Req(c, n).id = n
        /\ InHub(Req(c, n)) <=> \/ Req(c, n) = onAir
                                \/ \E k \in DOMAIN txQueue : txQueue[k] = Req(c, n)
                                \/ Answered(Req(c, n))
    BY WhereIs DEF ChannelInv, Req
  <2>2. InHub(Req(c, n))' <=> \/ Req(c, n) = onAir'
                              \/ \E k \in DOMAIN txQueue' : txQueue'[k] = Req(c, n)
                              \/ Answered(Req(c, n))'
    BY WhereIs DEF InHub, Answered
  <2>3. (\E k \in DOMAIN txQueue : txQueue[k] = Req(c, n))
        <=> Req(c, n) = head \/ \E k \in DOMAIN txQueue' : txQueue'[k] = Req(c, n)
    BY <1>3, <1>4
  <2>4. Answered(Req(c, n)) => Answered(Req(c, n))'
    BY <1>6
  <2>5. Answered(Req(c, n))' => Answered(Req(c, n)) \/ Req(c, n) = head
    BY <1>6, <2>1, ReqIs
  <2>6. ASSUME head = Req(c, n) PROVE \A k \in DOMAIN txQueue' : txQueue'[k] # Req(c, n)
    BY <1>3, <2>1, <2>6 DEF Goes
  <2>7. QED BY <1>1, <2>1, <2>2, <2>3, <2>4, <2>5, <2>6
<1>12. QED BY <1>1, <1>5, <1>8, <1>9, <1>10, <1>11, PostMaps DEF ChannelInv

LEMMA EndTxMaps ==
  ASSUME ChannelInv, HubTypeOK', NEW ok \in BOOLEAN, EndTx(ok)
  PROVE  ChannelInv' /\ \A c \in Clients : [Channel(c)!Next]_(Channel(c)!vars)
<1>1. /\ onAir # NoRequest /\ onAir' = NoRequest /\ PostTxDone(onAir, ok)
      /\ UNCHANGED <<txQueue, requested, answered>>
  BY DEF EndTx
<1>2. PICK sent \in RequestRec : sent = onAir
  BY <1>1 DEF ChannelInv, HubTypeOK
<1>3. /\ Known(sent) /\ \A k \in DOMAIN doneQueue : Goes(doneQueue[k], sent)
      /\ Sorted(txQueue) /\ \A k \in DOMAIN txQueue : Goes(sent, txQueue[k])
  BY <1>2 DEF ChannelInv, InOrder, Numbered
<1>4. /\ Sorted(doneQueue') /\ Len(doneQueue') <= DONE_QUEUE
      /\ \A k \in DOMAIN doneQueue' :
           \/ k \in DOMAIN doneQueue /\ doneQueue'[k] = doneQueue[k]
           \/ doneQueue'[k].client = sent.client /\ doneQueue'[k].id = sent.id
      /\ \/ \A q : Answered(q)' <=> Answered(q) \/ (q.client = sent.client /\ q.id = sent.id)
         \/ \A q : Answered(q)' <=> Answered(q)
  BY <1>1, <1>2, <1>3, PostOrder
<1>5. ~(NoRequest.client \in Clients)
  BY HubAssumption DEF NoRequest
<1>6. InOrder'
  <2>1. \A j \in DOMAIN doneQueue' : Goes(doneQueue'[j], NoRequest)
    BY <1>5 DEF Goes
  <2>2. \A k \in DOMAIN txQueue : Goes(NoRequest, txQueue[k])
    BY <1>5 DEF Goes
  <2>3. ASSUME NEW j \in DOMAIN doneQueue', NEW k \in DOMAIN txQueue
        PROVE  Goes(doneQueue'[j], txQueue[k])
    <3>1. CASE j \in DOMAIN doneQueue /\ doneQueue'[j] = doneQueue[j]
      BY <3>1 DEF ChannelInv, InOrder
    <3>2. CASE doneQueue'[j].client = sent.client /\ doneQueue'[j].id = sent.id
      BY <1>3, <3>2 DEF Goes
    <3>3. QED BY <1>4, <3>1, <3>2
  <2>4. QED BY <1>1, <1>3, <1>4, <2>1, <2>2, <2>3 DEF InOrder
<1>7. Numbered'
  BY <1>1, <1>3, <1>4, <1>5 DEF ChannelInv, Numbered, Known
<1>8. Bounded'
  BY <1>1, <1>4 DEF ChannelInv, Bounded
<1>9. ASSUME NEW c \in Clients, NEW n \in Nat
      PROVE  /\ InHub(Req(c, n)) <=> InHub(Req(c, n))' \/ sent = Req(c, n)
             /\ InHub(Req(c, n))' /\ sent = Req(c, n) => Answered(sent)'
  <2>1. /\ Req(c, n) # NoRequest /\ Req(c, n).client = c /\ Req(c, n).id = n
        /\ InHub(Req(c, n)) <=> \/ Req(c, n) = onAir
                                \/ \E k \in DOMAIN txQueue : txQueue[k] = Req(c, n)
                                \/ Answered(Req(c, n))
    BY WhereIs DEF ChannelInv, Req
  <2>2. InHub(Req(c, n))' <=> \/ Req(c, n) = onAir'
                              \/ \E k \in DOMAIN txQueue' : txQueue'[k] = Req(c, n)
                              \/ Answered(Req(c, n))'
    BY WhereIs DEF InHub, Answered
  <2>3. Answered(Req(c, n)) => Answered(Req(c, n))'
    BY <1>4
  <2>4. Answered(Req(c, n))' => Answered(Req(c, n)) \/ Req(c, n) = sent
    BY <1>4, <2>1, ReqIs
  <2>5. ASSUME sent = Req(c, n) PROVE \A k \in DOMAIN txQueue : txQueue[k] # Req(c, n)
    BY <1>3, <2>1, <2>5 DEF Goes
  <2>6. QED BY <1>1, <1>2, <2>1, <2>2, <2>3, <2>4, <2>5
<1>10. QED BY <1>1, <1>3, <1>6, <1>7, <1>8, <1>9, PostMaps DEF ChannelInv

----------------------------------------------------------------------------
(* Requests enter the hub at the end of tx_queue.                          *)

(* A request of a number that is not given yet goes behind all others.     *)
LEMMA EnterOrder ==
  ASSUME ChannelInv, HubTypeOK', NEW e \in RequestRec,
         Len(txQueue) < TX_QUEUE, txQueue' = Append(txQueue, e),
         UNCHANGED <<onAir, doneQueue, answered>>,
         e.client \in Clients => e.id = requested[e.client] + 1 /\ requested'[e.client] = e.id,
         \A c \in Clients : c # e.client => requested'[c] = requested[c]
  PROVE  /\ ChannelInv'
         /\ \A c \in Clients, n \in Nat : InHub(Req(c, n))' <=> InHub(Req(c, n)) \/ e = Req(c, n)
<1>1. txQueue \in Seq(RequestRec) /\ requested \in [Clients -> Nat] /\ requested' \in [Clients -> Nat]
  BY DEF ChannelInv, HubTypeOK
<1>2. \A r : Known(r) => Goes(r, e)
  BY <1>1 DEF Known, Goes
<1>3. /\ Sorted(txQueue')
      /\ \A k \in DOMAIN txQueue' : txQueue'[k] = e \/ (k \in DOMAIN txQueue /\ txQueue'[k] = txQueue[k])
  BY <1>1, <1>2, SortedAppend DEF ChannelInv, Numbered, InOrder
<1>4. /\ \A k \in DOMAIN txQueue : k \in DOMAIN txQueue' /\ txQueue'[k] = txQueue[k]
      /\ \E k \in DOMAIN txQueue' : txQueue'[k] = e
      /\ Len(txQueue') = Len(txQueue) + 1 /\ Len(txQueue) \in Nat
  BY <1>1, AppendHolds
<1>5. InOrder'
  BY <1>2, <1>3 DEF ChannelInv, InOrder, Numbered
<1>6. Numbered'
  <2>1. \A r : Known(r) => Known(r)'
    <3>1. ASSUME NEW c \in Clients
          PROVE  \A n \in 1 .. requested[c] : n \in 1 .. requested'[c]
      <4>1. requested[c] \in Nat /\ requested'[c] \in Nat
        BY <1>1
      <4>2. requested'[c] = requested[c] \/ requested'[c] = requested[c] + 1
        BY <4>1
      <4>3. QED BY <4>1, <4>2
    <3>2. QED BY <3>1 DEF Known
  <2>2. Known(e)'
    BY <1>1 DEF Known
  <2>3. QED BY <1>3, <2>1, <2>2 DEF ChannelInv, Numbered, Known
<1>7. Bounded'
  BY <1>4, HubAssumption DEF ChannelInv, Bounded
<1>8. ASSUME NEW c \in Clients, NEW n \in Nat
      PROVE  InHub(Req(c, n))' <=> InHub(Req(c, n)) \/ e = Req(c, n)
  BY <1>3, <1>4 DEF InHub
<1>9. QED BY <1>5, <1>6, <1>7, <1>8 DEF ChannelInv

LEMMA SendRawMaps ==
  ASSUME ChannelInv, HubTypeOK', SendRaw
  PROVE  ChannelInv' /\ \A c \in Clients : [Channel(c)!Next]_(Channel(c)!vars)
<1> DEFINE e == [client |-> "raw", id |-> 0]
<1>1. /\ Len(txQueue) < TX_QUEUE /\ txQueue' = Append(txQueue, e)
      /\ UNCHANGED <<onAir, doneQueue, requested, answered>>
  BY DEF SendRaw
<1>2. e \in RequestRec /\ ~(e.client \in Clients) /\ \A c \in Clients, n \in Nat : e # Req(c, n)
  BY HubAssumption DEF RequestRec, Req
<1> HIDE DEF e
<1>3. /\ ChannelInv'
      /\ \A c \in Clients, n \in Nat : InHub(Req(c, n))' <=> InHub(Req(c, n)) \/ e = Req(c, n)
  BY <1>1, <1>2, EnterOrder
<1>4. QED BY <1>1, <1>2, <1>3, SameChannel

(* The hub has room for no more requests than its queues have places.      *)
LEMMA Numbers ==
  ASSUME NEW S, NEW q \in Seq(S), NEW T, T \subseteq {q[k].id : k \in DOMAIN q}
  PROVE  IsFiniteSet(T) /\ Cardinality(T) \in Nat /\ Cardinality(T) <= Len(q)
<1> DEFINE D == 1 .. Len(q)
           I == {q[k].id : k \in D}
<1>1. Len(q) \in Nat /\ DOMAIN q = D
  OBVIOUS
<1>2. IsFiniteSet(D) /\ Cardinality(D) = Len(q)
  BY <1>1, FS_Interval
<1>3. T \subseteq I
  BY <1>1
<1>4. IsFiniteSet(I) /\ Cardinality(I) <= Cardinality(D)
  <2> DEFINE f == [k \in D |-> q[k].id]
  <2>1. f \in Surjection(D, I)
    BY DEF Surjection
  <2> HIDE DEF f, D, I
  <2>2. QED BY <1>2, <2>1, FS_Surjection
<1> HIDE DEF D, I
<1>5. IsFiniteSet(T) /\ Cardinality(T) <= Cardinality(I)
  BY <1>3, <1>4, FS_Subset
<1>6. Cardinality(T) \in Nat /\ Cardinality(I) \in Nat
  BY <1>4, <1>5, FS_CardinalityType
<1>7. QED BY <1>1, <1>2, <1>4, <1>5, <1>6

LEMMA DepthSuffices ==
  ASSUME ChannelInv, NEW c \in Clients, Len(txQueue) < TX_QUEUE
  PROVE  Cardinality(Outstanding(c)) < TX_QUEUE + 1 + DONE_QUEUE
<1> DEFINE inTx == {n \in Outstanding(c) : \E k \in DOMAIN txQueue : txQueue[k].id = n}
           inDone == {n \in Outstanding(c) : \E k \in DOMAIN doneQueue : doneQueue[k].id = n}
           inAir == {onAir.id}
<1>1. txQueue \in Seq(RequestRec) /\ doneQueue \in Seq(ResultRec)
  BY DEF ChannelInv, HubTypeOK
<1>2. IsFiniteSet(inTx) /\ Cardinality(inTx) \in Nat /\ Cardinality(inTx) <= Len(txQueue)
  <2>1. inTx \subseteq {txQueue[k].id : k \in DOMAIN txQueue}
    OBVIOUS
  <2> HIDE DEF inTx
  <2>2. QED BY <1>1, <2>1, Numbers
<1>3. IsFiniteSet(inDone) /\ Cardinality(inDone) \in Nat /\ Cardinality(inDone) <= Len(doneQueue)
  <2>1. inDone \subseteq {doneQueue[k].id : k \in DOMAIN doneQueue}
    OBVIOUS
  <2> HIDE DEF inDone
  <2>2. QED BY <1>1, <2>1, Numbers
<1>4. IsFiniteSet(inAir) /\ Cardinality(inAir) = 1
  BY FS_Singleton
<1>5. Outstanding(c) \subseteq (inTx \cup inAir) \cup inDone
  BY DEF Outstanding, InHub
<1> HIDE DEF inTx, inDone, inAir
<1>6. /\ IsFiniteSet(inTx \cup inAir)
      /\ Cardinality(inTx \cup inAir) \in Nat
      /\ Cardinality(inTx \cup inAir) <= Cardinality(inTx) + 1
  <2>1. /\ IsFiniteSet(inTx \cup inAir) /\ IsFiniteSet(inTx \cap inAir)
        /\ Cardinality(inTx \cup inAir) = Cardinality(inTx) + Cardinality(inAir) - Cardinality(inTx \cap inAir)
    BY <1>2, <1>4, FS_Union, FS_Intersection
  <2>2. Cardinality(inTx \cup inAir) \in Nat /\ Cardinality(inTx \cap inAir) \in Nat
    BY <2>1, FS_CardinalityType
  <2>3. QED BY <1>2, <1>4, <2>1, <2>2
<1>7. /\ IsFiniteSet((inTx \cup inAir) \cup inDone)
      /\ Cardinality((inTx \cup inAir) \cup inDone) \in Nat
      /\ Cardinality((inTx \cup inAir) \cup inDone) <= Cardinality(inTx \cup inAir) + Cardinality(inDone)
  <2>1. /\ IsFiniteSet((inTx \cup inAir) \cup inDone) /\ IsFiniteSet((inTx \cup inAir) \cap inDone)
        /\ Cardinality((inTx \cup inAir) \cup inDone)
             = Cardinality(inTx \cup inAir) + Cardinality(inDone) - Cardinality((inTx \cup inAir) \cap inDone)
    BY <1>3, <1>6, FS_Union, FS_Intersection
  <2>2. /\ Cardinality((inTx \cup inAir) \cup inDone) \in Nat
        /\ Cardinality((inTx \cup inAir) \cap inDone) \in Nat
    BY <2>1, FS_CardinalityType
  <2>3. QED BY <1>3, <1>6, <2>1, <2>2
<1>8. /\ Cardinality(Outstanding(c)) <= Cardinality((inTx \cup inAir) \cup inDone)
      /\ Cardinality(Outstanding(c)) \in Nat
  BY <1>5, <1>7, FS_Subset, FS_CardinalityType
<1>9. Len(txQueue) \in Nat /\ Len(doneQueue) \in Nat /\ Len(doneQueue) <= DONE_QUEUE
      /\ TX_QUEUE \in Nat /\ DONE_QUEUE \in Nat
  BY <1>1, HubAssumption DEF ChannelInv, Bounded
<1>10. QED BY <1>2, <1>3, <1>6, <1>7, <1>8, <1>9

LEMMA RequestMaps ==
  ASSUME ChannelInv, HubTypeOK', NEW d \in Clients, Request(d),
         UNCHANGED <<onAir, doneQueue, answered>>
  PROVE  ChannelInv' /\ \A c \in Clients : [Channel(c)!Next]_(Channel(c)!vars)
<1> DEFINE e == [client |-> d, id |-> requested[d] + 1]
<1>1. requested \in [Clients -> Nat] /\ requested' = [requested EXCEPT ![d] = requested[d] + 1]
  BY DEF Request, ChannelInv, HubTypeOK
<1>2. requested'[d] = requested[d] + 1 /\ \A c \in Clients : c # d => requested'[c] = requested[c]
  BY <1>1
<1>3. Len(txQueue) < TX_QUEUE /\ txQueue' = Append(txQueue, e)
  BY <1>2 DEF Request
<1>4. /\ e \in RequestRec /\ e.client = d /\ e.id = requested[d] + 1
      /\ \A c \in Clients, n \in Nat : e = Req(c, n) <=> c = d /\ n = requested[d] + 1
  BY <1>1 DEF RequestRec, Req
<1> HIDE DEF e
<1>5. /\ ChannelInv'
      /\ \A c \in Clients, n \in Nat : InHub(Req(c, n))' <=> InHub(Req(c, n)) \/ e = Req(c, n)
  <2>1. e.client \in Clients => e.id = requested[e.client] + 1 /\ requested'[e.client] = e.id
    BY <1>2, <1>4
  <2>2. \A c \in Clients : c # e.client => requested'[c] = requested[c]
    BY <1>2, <1>4
  <2>3. QED BY <1>3, <1>4, <2>1, <2>2, EnterOrder
<1>6. ASSUME NEW c \in Clients, c # d
      PROVE  [Channel(c)!Next]_(Channel(c)!vars)
  <2>1. \A n \in Nat : InHub(Req(c, n))' <=> InHub(Req(c, n))
    BY <1>4, <1>5, <1>6
  <2>2. requested'[c] = requested[c]
    BY <1>2, <1>6
  <2>3. QED BY <2>1, <2>2, SameChannel
<1>7. [Channel(d)!Next]_(Channel(d)!vars)
  <2>1. requested[d] \in Nat
    BY <1>1
  <2>2. \A n \in Nat : InHub(Req(d, n))' <=> InHub(Req(d, n)) \/ n = requested[d] + 1
    BY <1>4, <1>5
  <2>3. 1 .. requested'[d] = (1 .. requested[d]) \cup {requested[d] + 1}
    BY <1>2, <2>1
  <2>4. Outstanding(d) = {n \in 1 .. requested[d] : InHub(Req(d, n))}
    BY DEF Outstanding, Req
  <2>5. Outstanding(d)' = {n \in 1 .. requested'[d] : InHub(Req(d, n))'}
    BY DEF Outstanding, Req
  <2>6. Outstanding(d)' = Outstanding(d) \cup {requested'[d]}
    BY <1>2, <2>1, <2>2, <2>3, <2>4, <2>5
  <2>7. Cardinality(Outstanding(d)) < TX_QUEUE + 1 + DONE_QUEUE
    BY <1>3, DepthSuffices
  <2>8. Channel(d)!Request
    <3>1. answered'[d] = answered[d]
      OBVIOUS
    <3>2. Channel(d)!Cardinality(Outstanding(d)) = Cardinality(Outstanding(d))
      BY Zenon DEF Channel!Cardinality, Cardinality
    <3>3. QED BY <1>2, <2>6, <2>7, <3>1, <3>2 DEF Channel!Request
  <2>9. QED BY <2>8 DEF Channel!Next
<1>8. QED BY <1>5, <1>6, <1>7

----------------------------------------------------------------------------
(* The oldest request of a sender is answered first.                       *)

LEMMA DeliverMaps ==
  ASSUME ChannelInv, HubTypeOK', Deliver
  PROVE  ChannelInv' /\ \A c \in Clients : [Channel(c)!Next]_(Channel(c)!vars)
<1>1. /\ doneQueue \in Seq(ResultRec) /\ doneQueue # <<>> /\ doneQueue' = Tail(doneQueue)
      /\ UNCHANGED <<txQueue, onAir, requested>>
  BY DEF Deliver, ChannelInv, HubTypeOK
<1>2. PICK r \in ResultRec : r = Head(doneQueue)
  BY <1>1
<1>3. /\ Sorted(doneQueue') /\ 1 \in DOMAIN doneQueue /\ r = doneQueue[1]
      /\ \A k \in DOMAIN doneQueue' : /\ Goes(r, doneQueue'[k])
                                      /\ k + 1 \in DOMAIN doneQueue /\ doneQueue'[k] = doneQueue[k + 1]
  BY <1>1, <1>2, SortedTail DEF ChannelInv, InOrder
<1>4. \A k \in DOMAIN doneQueue : k = 1 \/ (k - 1 \in DOMAIN doneQueue' /\ doneQueue'[k - 1] = doneQueue[k])
  BY <1>1, TailHolds
<1>5. Known(r) /\ Goes(r, onAir) /\ \A k \in DOMAIN txQueue : Goes(r, txQueue[k])
  BY <1>3 DEF ChannelInv, InOrder, Numbered
<1>6. InOrder'
  BY <1>1, <1>3 DEF ChannelInv, InOrder
<1>7. Numbered'
  BY <1>1, <1>3 DEF ChannelInv, Numbered, Known
<1>8. Bounded'
  <2>1. Len(doneQueue') <= Len(doneQueue) /\ Len(doneQueue) \in Nat /\ Len(doneQueue') \in Nat
    BY <1>1
  <2>2. QED BY <1>1, <2>1, HubAssumption DEF ChannelInv, Bounded
<1>9. /\ r.client \in Clients \cup {"raw"}
      /\ IF r.client = "raw" THEN answered' = answered
         ELSE answered' = [answered EXCEPT ![r.client] = r.id]
  BY <1>2 DEF Deliver, ResultRec
<1>10. ASSUME NEW c \in Clients, NEW n \in Nat
       PROVE  /\ InHub(Req(c, n)) => InHub(Req(c, n))' \/ (r.client = c /\ r.id = n)
              /\ InHub(Req(c, n))' => InHub(Req(c, n))
              /\ r.client = c /\ r.id = n => InHub(Req(c, n)) /\ ~InHub(Req(c, n))'
              /\ r.client = c /\ InHub(Req(c, n)) => r.id <= n
  <2>1. /\ Req(c, n).client = c /\ Req(c, n).id = n
        /\ InHub(Req(c, n)) <=> \/ Req(c, n) = onAir
                                \/ \E k \in DOMAIN txQueue : txQueue[k] = Req(c, n)
                                \/ Answered(Req(c, n))
    BY WhereIs DEF ChannelInv, Req
  <2>2. InHub(Req(c, n))' <=> \/ Req(c, n) = onAir
                              \/ \E k \in DOMAIN txQueue : txQueue[k] = Req(c, n)
                              \/ Answered(Req(c, n))'
    BY <1>1, WhereIs DEF InHub, Answered
  <2>3. Answered(Req(c, n)) <=> Answered(Req(c, n))' \/ (r.client = c /\ r.id = n)
    BY <1>3, <1>4, <2>1 DEF Answered
  <2>4. ASSUME r.client = c, InHub(Req(c, n))' PROVE r.id < n
    <3>1. CASE Req(c, n) = onAir
      BY <1>5, <2>1, <2>4, <3>1 DEF Goes
    <3>2. CASE \E k \in DOMAIN txQueue : txQueue[k] = Req(c, n)
      BY <1>5, <2>1, <2>4, <3>2 DEF Goes
    <3>3. CASE Answered(Req(c, n))'
      BY <1>3, <2>1, <2>4, <3>3 DEF Goes, Answered
    <3>4. QED BY <2>2, <2>4, <3>1, <3>2, <3>3
  <2>5. r.id \in Nat /\ ~(n < n)
    BY DEF ResultRec
  <2>6. QED BY <2>1, <2>2, <2>3, <2>4, <2>5
<1>11. ASSUME NEW c \in Clients
       PROVE  [Channel(c)!Next]_(Channel(c)!vars)
  <2>1. requested[c] \in Nat /\ requested'[c] = requested[c]
    BY <1>1 DEF ChannelInv, HubTypeOK
  <2>2. CASE r.client # c
    <3>1. answered'[c] = answered[c]
      BY <1>9, <2>2 DEF ChannelInv
    <3>2. \A n \in Nat : InHub(Req(c, n))' <=> InHub(Req(c, n))
      BY <1>10, <2>2
    <3>3. QED BY <2>1, <3>1, <3>2, SameChannel
  <2>3. CASE r.client = c
    <3>1. answered'[c] = r.id
      BY <1>9, <2>3, HubAssumption DEF ChannelInv
    <3>2. r.id \in 1 .. requested[c]
      BY <1>5, <2>3 DEF Known
    <3>3. r.id \in Nat
      BY DEF ResultRec
    <3>4. InHub(Req(c, r.id)) /\ \A n \in Nat : InHub(Req(c, n)) => r.id <= n
      BY <1>10, <2>3, <3>3
    <3>5. \A n \in Nat : InHub(Req(c, n))' <=> InHub(Req(c, n)) /\ n # r.id
      BY <1>10, <2>3
    <3>6. QED BY <2>1, <3>1, <3>2, <3>4, <3>5, AnsweredRequest
  <2>4. QED BY <2>2, <2>3
<1>12. answered' \in [Clients -> Nat]
  BY <1>9, HubAssumption DEF ChannelInv, ResultRec
<1>13. QED BY <1>6, <1>7, <1>8, <1>11, <1>12 DEF ChannelInv

----------------------------------------------------------------------------
(* The refinement.                                                         *)

LEMMA ChannelInit == Init => ChannelInv /\ \A c \in Clients : Channel(c)!Init
<1> SUFFICES ASSUME Init PROVE ChannelInv /\ \A c \in Clients : Channel(c)!Init
  OBVIOUS
<1>1. HubTypeOK
  BY HubInit DEF HubInv
<1>2. ~(NoRequest.client \in Clients)
  BY HubAssumption DEF NoRequest
<1>3. InOrder /\ Numbered
  BY <1>2 DEF Init, InOrder, Numbered, Known, Sorted
<1>4. Bounded /\ answered \in [Clients -> Nat]
  BY HubAssumption DEF Init, Bounded
<1>5. \A c \in Clients : Channel(c)!Init
  BY DEF Init, Channel!Init, Outstanding
<1>6. QED BY <1>1, <1>3, <1>4, <1>5 DEF ChannelInv

(* A step that leaves the hub and its numbers alone.                       *)
LEMMA HubIdle ==
  ASSUME ChannelInv, HubTypeOK', UNCHANGED <<txQueue, onAir, doneQueue, requested, answered>>
  PROVE  ChannelInv' /\ \A c \in Clients : [Channel(c)!Next]_(Channel(c)!vars)
<1>1. ChannelInv'
  BY DEF ChannelInv, InOrder, Numbered, Known, Bounded
<1>2. \A c \in Clients, n \in Nat : InHub(Req(c, n))' <=> InHub(Req(c, n))
  BY DEF InHub
<1>3. QED BY <1>1, <1>2, SameChannel

LEMMA ChannelStep ==
  HubInv /\ ChannelInv /\ [Next]_vars
    => ChannelInv' /\ \A c \in Clients : [Channel(c)!Next]_(Channel(c)!vars)
<1> SUFFICES ASSUME HubInv, ChannelInv, [Next]_vars
             PROVE  ChannelInv' /\ \A c \in Clients : [Channel(c)!Next]_(Channel(c)!vars)
  OBVIOUS
<1>1. HubTypeOK'
  BY HubNext DEF HubInv
<1>2. CASE Enqueues \/ Clears \/ Clock \/ EndDrain \/ UNCHANGED vars
  <2>1. UNCHANGED <<txQueue, onAir, doneQueue, requested, answered>>
    BY <1>2 DEF Enqueues, EnqueueCommand, Clears, Clear, Clock, DelayElapses, TimeoutPasses,
                EndDrain, vars, hubVars
  <2>2. QED BY <1>1, <2>1, HubIdle
<1>3. CASE SendRaw
  BY <1>1, <1>3, SendRawMaps
<1>4. CASE Deliver
  BY <1>1, <1>4, DeliverMaps
<1>5. CASE ProcessQueue
  <2>1. Devices[turn] \in Clients
    BY <1>5, HubAssumption DEF ProcessQueue, HubInv, HubTypeOK
  <2>2. CASE Request(Devices[turn])
    BY <1>1, <1>5, <2>1, <2>2, RequestMaps DEF ProcessQueue
  <2>3. CASE ~Request(Devices[turn])
    <3>1. UNCHANGED <<txQueue, onAir, doneQueue, requested, answered>>
      BY <1>5, <2>3 DEF ProcessQueue, Pass, Wake, Refused, Settle, Timeout
    <3>2. QED BY <1>1, <3>1, HubIdle
  <2>4. QED BY <2>2, <2>3
<1>6. CASE RfTask
  BY <1>1, <1>6, StartTxMaps, StartFailsMaps, EndTxMaps DEF RfTask
<1>7. QED BY <1>2, <1>3, <1>4, <1>5, <1>6 DEF Next

(* The order of requests that the refinement rests on, as an invariant.    *)
THEOREM HubOrder == Spec => []ChannelInv
<1>1. Init => ChannelInv
  BY ChannelInit
<1>2. HubInv /\ ChannelInv /\ [Next]_vars => ChannelInv'
  BY ChannelStep
<1>3. QED BY <1>1, <1>2, HubInvariant, PTL DEF Spec

(* The hub gives each of its senders the channel of module TxChannel: its  *)
(* completions come back in the order of its requests, each at most once,  *)
(* whatever the other senders, the raw packets and the radio do.           *)
THEOREM HubImplementsChannel == Spec => ImplementsChannel
<1>1. Init => \A c \in Clients : Channel(c)!Init
  BY ChannelInit
<1>2. HubInv /\ ChannelInv /\ [Next]_vars => [\A c \in Clients : [Channel(c)!Next]_(Channel(c)!vars)]_vars
  BY ChannelStep
<1>3. QED BY <1>1, <1>2, HubInvariant, HubOrder, PTL DEF Spec, ImplementsChannel
=============================================================================
