------------------------ MODULE CommandSenderProofs ------------------------
(***************************************************************************)
(* Theorems about one CommandSender for every command set, queue length,   *)
(* retry limit, counter range and bound: its types, the invariant that a   *)
(* pending request is the front command's, and that the sender implements  *)
(* the in-order service of module CommandService.                          *)
(***************************************************************************)
EXTENDS CommandSender, CommandSenderCoreProofs

----------------------------------------------------------------------------
(* Lemmas: the histories.                                                   *)

(* The history of an attempt is well-typed.                                *)
LEMMA TalliedType ==
  ASSUME TypeOK, NEW id, NEW ok \in BOOLEAN
  PROVE  Tallied(id, ok) \in Tally
<1>1. own.ok + 1 \in Nat /\ own.bad + 1 \in Nat /\ 0 \in Nat
  BY DEF TypeOK, Tally
<1>2. [ok |-> own.ok + 1, bad |-> 0] \in Tally
  BY <1>1 DEF Tally
<1>3. [own EXCEPT !.bad = IF @ > SEND_RETRIES THEN @ ELSE @ + 1] \in Tally
  BY <1>1 DEF TypeOK, Tally
<1>4. QED BY <1>2, <1>3 DEF Tallied, TypeOK

RetiredType == [how : {"none", "sent", "dropped"}, need : Nat, ok : Nat, bad : Nat]

LEMMA RecordType ==
  ASSUME TypeOK, NEW id, NEW ok \in BOOLEAN,
         NEW how \in {"stays", "sent", "dropped"}, Record(id, ok, how)
  PROVE  own' \in Tally /\ retired' \in RetiredType
<1>1. CASE how = "stays" \/ sender.queue = <<>>
  BY <1>1, TalliedType DEF Record, TypeOK, RetiredType
<1>2. CASE ~(how = "stays" \/ sender.queue = <<>>)
  <2>1. NoTally \in Tally
    BY DEF NoTally, Tally
  <2>2. PacketsOf[FrontOf(sender).cmd] \in Nat
    BY <1>2, FrontType, CommandsAssumption DEF TypeOK, Entry
  <2>3. Tallied(id, ok).ok \in Nat /\ Tallied(id, ok).bad \in Nat
    BY TalliedType DEF Tally
  <2>4. QED BY <1>2, <2>1, <2>2, <2>3 DEF Record, RetiredType
<1>3. QED BY <1>1, <1>2

----------------------------------------------------------------------------
(* Each step keeps the types: TypeOK /\ [Next]_vars => TypeOK'.            *)
LEMMA TypeStep ==
  ASSUME TypeOK, [Next]_vars
  PROVE  TypeOK'
<1>1. ASSUME NEW cmd \in Commands, EnqueueCommand(cmd)
      PROVE  TypeOK'
  <2>1. NewEntry(cmd, {}) \in Entry
    BY DEF NewEntry, Entry, TypeOK
  <2>2. sender' \in Sender
    BY <1>1, <2>1, PushType DEF EnqueueCommand, TypeOK
  <2>3. accepted' \in 0 .. MaxCommands
    BY <1>1, SenderAssumption DEF EnqueueCommand, TypeOK
  <2>4. QED BY <1>1, <2>2, <2>3 DEF EnqueueCommand, TypeOK
<1>2. ASSUME NEW cmd \in Buttons, NEW channels \in SUBSET Channels,
             CommandGroup(cmd, channels)
      PROVE  TypeOK'
  <2>1. CASE Collapses(sender, cmd)
    <3> DEFINE n == Len(sender.queue)
    <3>1. n \in Nat /\ n \in 1 .. n /\ sender.queue \in Seq(Entry)
      BY <2>1, FrontType DEF Collapses, TypeOK, Sender
    <3>2. [sender.queue EXCEPT ![n].for = channels] \in Seq(Entry)
      <4>1. ASSUME NEW e \in Entry
            PROVE  [sender.queue EXCEPT ![n] = e] \in Seq(Entry)
        BY <3>1
      <4>2. ASSUME NEW e \in Entry
            PROVE  [e EXCEPT !.for = channels] \in Entry
        BY DEF Entry
      <4>3. sender.queue[n] \in Entry
        BY <2>1, FrontType DEF Collapses, TypeOK
      <4>4. QED BY <4>1, <4>2, <4>3
    <3>3. sender' = [sender EXCEPT !.dests = channels,
                       !.queue = [sender.queue EXCEPT ![n].for = channels]]
      BY <1>2, <2>1 DEF CommandGroup
    <3>4. sender' \in Sender
      BY <3>2, <3>3 DEF Sender, TypeOK
    <3>5. QED BY <1>2, <2>1, <3>4 DEF CommandGroup, TypeOK
  <2>2. CASE ~Collapses(sender, cmd)
    <3>1. NewEntry(cmd, channels) \in Entry
      BY CommandsAssumption DEF NewEntry, Entry, TypeOK
    <3>2. [sender EXCEPT !.dests = channels] \in Sender
      BY DEF Sender, TypeOK
    <3>3. sender' \in Sender
      BY <1>2, <2>2, <3>1, <3>2, PushType DEF CommandGroup
    <3>4. accepted' \in 0 .. MaxCommands
      BY <1>2, <2>2, SenderAssumption DEF CommandGroup, TypeOK
    <3>5. QED BY <1>2, <3>3, <3>4 DEF CommandGroup, TypeOK
  <2>3. QED BY <2>1, <2>2
<1>3. ASSUME Clear
      PROVE  TypeOK'
  <2>1. sender' \in Sender
    BY <1>3, ClearQueueType DEF Clear, TypeOK
  <2>2. clears' \in 0 .. MaxClears
    BY <1>3, SenderAssumption DEF Clear, TypeOK
  <2>3. own' \in Tally
    BY <1>3 DEF Clear, NoTally, Tally
  <2>4. cutShort' \in BOOLEAN
    BY <1>3 DEF Clear, TypeOK
  <2>5. QED BY <1>3, <2>1, <2>2, <2>3, <2>4 DEF Clear, TypeOK
<1>4. ASSUME Wake
      PROVE  TypeOK'
  BY <1>4 DEF Wake, Woken, history, TypeOK, Sender, State
<1>5. ASSUME DelayElapses
      PROVE  TypeOK'
  BY <1>5 DEF DelayElapses, history, TypeOK, Sender
<1>6. ASSUME Request
      PROVE  TypeOK'
  <2>1. sender' \in Sender
    BY <1>6 DEF Request, Requested, TypeOK, Sender, State
  <2>2. Addressed(sender) \in SUBSET Channels
    BY DEF Addressed, TypeOK, Sender
  <2>3. PacketOf(sender) \in Packet
    <3>1. FrontOf(sender) \in Entry
      BY <1>6, FrontType DEF Request, CanRequest, TypeOK
    <3>2. sender.counter \in Nat
      BY LimitsAssumption DEF TypeOK, Sender
    <3>3. QED BY <2>2, <3>1, <3>2 DEF PacketOf, Packet, Entry
  <2>4. outstanding' \in Seq(Packet)
    BY <1>6, <2>3 DEF Request, TypeOK
  <2>5. QED BY <1>6, <2>1, <2>3, <2>4 DEF Request, TypeOK
<1>7. ASSUME Settle
      PROVE  TypeOK'
  BY <1>7 DEF Settle, Settled, history, TypeOK, Sender, State
<1>8. ASSUME Timeout
      PROVE  TypeOK'
  <2>1. sender' \in Sender
    BY <1>8, FailAttemptType DEF Timeout, TimedOut, TypeOK
  <2>2. own' \in Tally /\ retired' \in RetiredType
    BY <1>8, RecordType DEF Timeout, FailureVerdict
  <2>3. QED BY <1>8, <2>1, <2>2 DEF Timeout, TypeOK, RetiredType
<1>9. ASSUME CompleteOk
      PROVE  TypeOK'
  <2>1. sender' \in Sender
    BY <1>9, OnTxCompleteType DEF CompleteOk, TypeOK
  <2>2. own' \in Tally /\ retired' \in RetiredType
    BY <1>9, RecordType DEF CompleteOk
  <2>3. outstanding' \in Seq(Packet)
    BY <1>9 DEF CompleteOk, TypeOK
  <2>4. QED BY <1>9, <2>1, <2>2, <2>3 DEF CompleteOk, TypeOK, RetiredType
<1>10. ASSUME CompleteFailed
       PROVE  TypeOK'
  <2>1. sender' \in Sender
    BY <1>10, OnTxCompleteType DEF CompleteFailed, TypeOK
  <2>2. own' \in Tally /\ retired' \in RetiredType
    BY <1>10, RecordType DEF CompleteFailed, FailureVerdict
  <2>3. outstanding' \in Seq(Packet)
    BY <1>10 DEF CompleteFailed, TypeOK
  <2>4. QED BY <1>10, <2>1, <2>2, <2>3 DEF CompleteFailed, TypeOK, RetiredType
<1>11. ASSUME LoseCompletion
       PROVE  TypeOK'
  <2>1. outstanding' \in Seq(Packet)
    BY <1>11 DEF LoseCompletion, RemoveAt, TypeOK
  <2>2. QED BY <1>11, <2>1 DEF LoseCompletion, history, TypeOK
<1>12. CASE UNCHANGED vars
  BY <1>12 DEF vars, TypeOK
<1>13. QED
  BY <1>1, <1>2, <1>3, <1>4, <1>5, <1>6, <1>7, <1>8, <1>9, <1>10, <1>11, <1>12
  DEF Next, Enqueues, Groups

(* Type correctness of a CommandSender and its radio: the retry count      *)
(* stays within SEND_RETRIES and the rolling counter within 1..COUNTER_MAX.*)
THEOREM TypeCorrect == Spec => []TypeOK
<1>1. Init => TypeOK
  <2> SUFFICES ASSUME Init PROVE TypeOK
    OBVIOUS
  <2>1. NewSender \in Sender
    BY LimitsAssumption DEF NewSender, Sender, State
  <2>2. NoPacket \in Packet
    BY DEF NoPacket, Packet
  <2>3. NoTally \in Tally
    BY DEF NoTally, Tally
  <2>4. NotRetired \in RetiredType
    BY DEF NotRetired, RetiredType
  <2>5. /\ 0 \in 0 .. MaxClears
        /\ 0 \in 0 .. MaxCommands
        /\ <<>> \in Seq(Packet)
    BY SenderAssumption
  <2>6. QED BY <2>1, <2>2, <2>3, <2>4, <2>5 DEF Init, TypeOK, RetiredType
<1>2. TypeOK /\ [Next]_vars => TypeOK'
  BY TypeStep
<1>3. QED BY <1>1, <1>2, PTL DEF Spec

----------------------------------------------------------------------------
(* A retry limit of at least one is what keeps the timeout of a cancelled  *)
(* request from retiring the command that was enqueued after it.           *)
LEMMA PendingStep ==
  ASSUME TypeOK, PendingIsFront, [Next]_vars
  PROVE  PendingIsFront'
<1> USE DEF PendingIsFront, FrontRequested
<1>1. ASSUME NEW e \in Entry, NEW s \in Sender, s.queue = sender.queue,
             s.state = sender.state, s.cancelled = sender.cancelled,
             s.retries = sender.retries,
             sender' = Push(s, e), UNCHANGED lastPacket
      PROVE  PendingIsFront'
  <2>1. sender.queue # <<>> => FrontOf(sender') = FrontOf(sender)
    BY <1>1 DEF Push, FrontOf, Sender
  <2>2. sender'.queue # <<>>
    BY <1>1 DEF Push, Sender
  <2>3. /\ sender'.state = "TX_PENDING" => sender.state = "TX_PENDING"
        /\ sender'.cancelled = sender.cancelled
        /\ sender'.retries = sender.retries
    BY <1>1 DEF Push, Sender
  <2>4. QED BY <1>1, <2>1, <2>2, <2>3
<1>2. ASSUME NEW cmd \in Commands, EnqueueCommand(cmd)
      PROVE  PendingIsFront'
  <2>1. NewEntry(cmd, {}) \in Entry
    BY DEF NewEntry, Entry, TypeOK
  <2>2. QED BY <1>1, <1>2, <2>1 DEF EnqueueCommand, TypeOK
<1>3. ASSUME NEW cmd \in Buttons, NEW channels \in SUBSET Channels,
             CommandGroup(cmd, channels)
      PROVE  PendingIsFront'
  <2>1. CASE Collapses(sender, cmd)
    <3> DEFINE n == Len(sender.queue)
    <3>1. sender.queue # <<>> /\ n \in 1 .. n /\ sender.queue \in Seq(Entry)
      BY <2>1, FrontType DEF Collapses, TypeOK, Sender
    <3>2. sender' = [sender EXCEPT !.dests = channels,
                       !.queue = [sender.queue EXCEPT ![n].for = channels]]
      BY <1>3, <2>1 DEF CommandGroup
    <3>3. sender'.queue # <<>> /\ FrontOf(sender').id = FrontOf(sender).id
      BY <3>1, <3>2, FrontType DEF FrontOf, TypeOK, Sender, Entry
    <3>4. /\ sender'.state = sender.state
          /\ sender'.cancelled = sender.cancelled
          /\ sender'.retries = sender.retries
          /\ UNCHANGED lastPacket
      BY <1>3, <3>2 DEF CommandGroup, TypeOK, Sender
    <3>5. QED BY <3>1, <3>3, <3>4
  <2>2. CASE ~Collapses(sender, cmd)
    <3>1. NewEntry(cmd, channels) \in Entry
      BY CommandsAssumption DEF NewEntry, Entry, TypeOK
    <3>2. [sender EXCEPT !.dests = channels] \in Sender
      BY DEF Sender, TypeOK
    <3>3. QED
      BY <1>1, <1>3, <2>2, <3>1, <3>2 DEF CommandGroup, TypeOK, Sender
  <2>3. QED BY <2>1, <2>2
<1>4. ASSUME Clear
      PROVE  PendingIsFront'
  BY <1>4 DEF Clear, ClearQueue, CancelRequest, TypeOK, Sender
<1>5. ASSUME Request
      PROVE  PendingIsFront'
  BY <1>5 DEF Request, CanRequest, Requested, PacketOf, FrontOf, TypeOK, Sender
<1>6. ASSUME Wake \/ Settle \/ DelayElapses
      PROVE  PendingIsFront'
  BY <1>6 DEF Wake, Woken, Settle, Settled, DelayElapses, history, FrontOf,
              TypeOK, Sender
<1>7. ASSUME NEW d \in BOOLEAN
      PROVE  /\ AdvanceQueue(sender, d).state # "TX_PENDING"
             /\ FailAttempt(sender, d).state # "TX_PENDING"
  BY DEF AdvanceQueue, FailAttempt, TypeOK, Sender
<1>8. ASSUME Timeout
      PROVE  PendingIsFront'
  BY <1>7, <1>8 DEF Timeout, TimedOut
<1>9. ASSUME NEW ok \in BOOLEAN
      PROVE  OnTxComplete(sender, ok).state # "TX_PENDING"
  BY <1>7 DEF OnTxComplete, Forgotten, NextPacket, Counts, TypeOK, Sender
<1>10. ASSUME CompleteOk \/ CompleteFailed
       PROVE  PendingIsFront'
  BY <1>9, <1>10 DEF CompleteOk, CompleteFailed
<1>11. ASSUME LoseCompletion \/ UNCHANGED vars
       PROVE  PendingIsFront'
  BY <1>11 DEF LoseCompletion, history, vars
<1>12. QED
  BY <1>2, <1>3, <1>4, <1>5, <1>6, <1>8, <1>10, <1>11 DEF Next, Enqueues, Groups

(* A pending request is the front command's, or it was cancelled before    *)
(* any retry of it was counted.                                            *)
THEOREM PendingFront == Spec => []PendingIsFront
<1>1. Init => PendingIsFront
  BY DEF Init, NewSender, PendingIsFront
<1>2. TypeOK /\ PendingIsFront /\ [Next]_vars => PendingIsFront'
  BY PendingStep
<1>3. QED BY <1>1, <1>2, TypeCorrect, PTL DEF Spec

----------------------------------------------------------------------------
(* The sender implements the in-order service of CommandService.           *)

(* The service's view of a sender: the ids of its queue.                   *)
Ids(s) == [k \in DOMAIN s.queue |-> s.queue[k].id]

(* Appending a command appends its number.                                 *)
LEMMA PushIds ==
  ASSUME NEW s \in Sender, NEW e \in Entry
  PROVE  Ids(Push(s, e)) = Append(Ids(s), e.id)
<1>1. Push(s, e).queue = Append(s.queue, e) /\ s.queue \in Seq(Entry)
  BY DEF Push, Sender
<1>2. QED BY <1>1 DEF Ids

(* Popping the front command pops its number, and nothing else changes the *)
(* numbers when an attempt fails.                                          *)
LEMMA AdvanceQueueIds ==
  ASSUME NEW s \in Sender, s.queue # <<>>, NEW d \in BOOLEAN
  PROVE  /\ Ids(s) # <<>> /\ Ids(s)[1] = FrontOf(s).id
         /\ Ids(AdvanceQueue(s, d)) = Tail(Ids(s))
<1>1. AdvanceQueue(s, d).queue = Tail(s.queue) /\ s.queue \in Seq(Entry)
  BY DEF AdvanceQueue, Sender
<1>2. QED BY <1>1 DEF Ids, FrontOf

(* An ended attempt of the front command leaves the queue alone or retires *)
(* the command on the air; a step that does neither is a stutter.          *)
ServiceVars == <<Ids(sender), lastPacket.id, accepted, clears>>

Retires ==
  /\ Ids(sender) # <<>>
  /\ lastPacket.id = Ids(sender)[1]
  /\ Ids(sender)' = Tail(Ids(sender))
  /\ UNCHANGED <<lastPacket.id, accepted, clears>>

LEMMA FailAttemptRetires ==
  ASSUME TypeOK, PendingIsFront, sender.state = "TX_PENDING", NEW d \in BOOLEAN,
         sender' = FailAttempt(sender, d), UNCHANGED <<lastPacket, accepted, clears>>
  PROVE  Retires \/ UNCHANGED ServiceVars
<1>1. CASE GivesUp(sender)
  <2>1. sender.retries # 0
    BY <1>1, LimitsAssumption DEF GivesUp
  <2>2. FrontRequested
    BY <2>1 DEF PendingIsFront
  <2>3. Ids(sender') = Tail(Ids(sender)) /\ Ids(sender) # <<>>
        /\ Ids(sender)[1] = FrontOf(sender).id
    BY <1>1, <2>2, AdvanceQueueIds DEF FailAttempt, FrontRequested, TypeOK
  <2>4. QED BY <2>2, <2>3 DEF Retires, FrontRequested, Ids
<1>2. CASE ~GivesUp(sender)
  <2>1. sender'.queue = sender.queue
    BY <1>2 DEF FailAttempt, TypeOK, Sender
  <2>2. QED BY <2>1 DEF ServiceVars, Ids
<1>3. QED BY <1>1, <1>2

LEMMA OnTxCompleteRetires ==
  ASSUME TypeOK, PendingIsFront, NEW ok \in BOOLEAN,
         sender' = OnTxComplete(sender, ok), UNCHANGED <<lastPacket, accepted, clears>>
  PROVE  Retires \/ UNCHANGED ServiceVars
<1>0. sender \in Sender /\ sender.cancelled \in BOOLEAN
  BY DEF TypeOK, Sender
<1>1. CASE Counts(sender) /\ ~ok
  BY <1>1, FailAttemptRetires DEF OnTxComplete, Counts
<1>2. CASE Counts(sender) /\ ok /\ LastPacket(sender)
  <2>1. FrontRequested
    BY <1>2 DEF PendingIsFront, Counts
  <2>2. sender' = AdvanceQueue(sender, TRUE)
    BY <1>2 DEF OnTxComplete, Counts
  <2>3. Ids(sender') = Tail(Ids(sender)) /\ Ids(sender) # <<>>
        /\ Ids(sender)[1] = FrontOf(sender).id
    BY <1>0, <2>1, <2>2, AdvanceQueueIds DEF FrontRequested
  <2>4. QED BY <2>1, <2>3 DEF Retires, FrontRequested, Ids
<1>3. CASE ~Counts(sender) \/ (ok /\ ~LastPacket(sender))
  <2>1. sender'.queue = sender.queue
    BY <1>0, <1>3 DEF OnTxComplete, Forgotten, NextPacket, Counts, Sender
  <2>2. QED BY <2>1 DEF ServiceVars, Ids
<1>4. QED BY <1>1, <1>2, <1>3

(* Every step of the sender is a step of the service or a stutter.         *)
LEMMA ServiceStep ==
  ASSUME TypeOK, PendingIsFront, [Next]_vars
  PROVE  [Service!Next]_(Service!vars)
<1> USE DEF Service!vars
<1>1. Retires => Service!Next
  BY DEF Retires, Ids, Service!Next, Service!Retire
<1>2. UNCHANGED ServiceVars => UNCHANGED Service!vars
  BY DEF ServiceVars, Ids
<1>3. ASSUME NEW s \in Sender, NEW e \in Entry, s.queue = sender.queue,
             sender' = Push(s, e), e.id = accepted + 1,
             accepted' = accepted + 1, UNCHANGED <<lastPacket, clears>>
      PROVE  Service!Next
  <2>1. Ids(sender') = Append(Ids(s), e.id) /\ Ids(s) = Ids(sender)
    BY <1>3, PushIds DEF Ids
  <2>2. QED BY <1>3, <2>1 DEF Ids, Service!Next, Service!Accept
<1>4. ASSUME NEW cmd \in Commands, EnqueueCommand(cmd)
      PROVE  Service!Next
  <2>1. NewEntry(cmd, {}) \in Entry /\ NewEntry(cmd, {}).id = accepted + 1
    BY DEF NewEntry, Entry, TypeOK
  <2>2. QED BY <1>3, <1>4, <2>1 DEF EnqueueCommand, TypeOK
<1>5. ASSUME NEW cmd \in Buttons, NEW channels \in SUBSET Channels,
             CommandGroup(cmd, channels)
      PROVE  [Service!Next]_(Service!vars)
  <2>1. CASE Collapses(sender, cmd)
    <3> DEFINE n == Len(sender.queue)
    <3>1. n \in 1 .. n /\ sender.queue \in Seq(Entry)
      BY <2>1, FrontType DEF Collapses, TypeOK, Sender
    <3>2. sender'.queue = [sender.queue EXCEPT ![n].for = channels]
      BY <1>5, <2>1 DEF CommandGroup, TypeOK, Sender
    <3>3. \A e \in Entry : [e EXCEPT !.for = channels].id = e.id
      BY DEF Entry
    <3>4. DOMAIN sender'.queue = DOMAIN sender.queue
          /\ \A k \in DOMAIN sender.queue : sender'.queue[k].id = sender.queue[k].id
      BY <3>1, <3>2, <3>3
    <3>5. UNCHANGED ServiceVars
      BY <1>5, <2>1, <3>4 DEF CommandGroup, ServiceVars, Ids
    <3>6. QED BY <1>2, <3>5
  <2>2. CASE ~Collapses(sender, cmd)
    <3>1. NewEntry(cmd, channels) \in Entry
          /\ NewEntry(cmd, channels).id = accepted + 1
      BY CommandsAssumption DEF NewEntry, Entry, TypeOK
    <3>2. [sender EXCEPT !.dests = channels] \in Sender
          /\ [sender EXCEPT !.dests = channels].queue = sender.queue
      BY DEF Sender, TypeOK
    <3>3. QED BY <1>3, <1>5, <2>2, <3>1, <3>2 DEF CommandGroup
  <2>3. QED BY <2>1, <2>2
<1>6. ASSUME Clear
      PROVE  Service!Next
  <2>1. sender'.queue = <<>>
    BY <1>6 DEF Clear, ClearQueue, CancelRequest, TypeOK, Sender
  <2>2. clears' = clears + 1 /\ UNCHANGED <<lastPacket, accepted>>
    BY <1>6 DEF Clear
  <2>3. QED BY <2>1, <2>2 DEF Service!Next, Service!CancelAll
<1>7. ASSUME Request
      PROVE  Service!Next
  <2>1. sender.queue # <<>> /\ sender'.queue = sender.queue
        /\ lastPacket'.id = sender.queue[1].id /\ UNCHANGED <<accepted, clears>>
    BY <1>7 DEF Request, CanRequest, Requested, PacketOf, FrontOf, TypeOK, Sender
  <2>2. sender.queue \in Seq(Entry)
    BY DEF TypeOK, Sender
  <2>3. QED BY <2>1, <2>2 DEF Service!Next, Service!Transmit
<1>8. ASSUME Wake \/ DelayElapses \/ Settle \/ LoseCompletion \/ UNCHANGED vars
      PROVE  UNCHANGED ServiceVars
  BY <1>8 DEF Wake, Woken, DelayElapses, Settle, Settled, LoseCompletion,
              history, vars, ServiceVars, Ids, TypeOK, Sender
<1>9. ASSUME Timeout
      PROVE  Retires \/ UNCHANGED ServiceVars
  BY <1>9, FailAttemptRetires DEF Timeout, TimedOut
<1>10. ASSUME CompleteOk \/ CompleteFailed
       PROVE  Retires \/ UNCHANGED ServiceVars
  BY <1>10, OnTxCompleteRetires DEF CompleteOk, CompleteFailed
<1>11. QED
  BY <1>1, <1>2, <1>4, <1>5, <1>6, <1>7, <1>8, <1>9, <1>10
  DEF Next, Enqueues, Groups

(* Refinement: in-order service; only the front command is on the air, and *)
(* a command leaves the queue because it was on the air or was cancelled.  *)
THEOREM Refinement == Spec => ImplementsService
<1>1. Init => Service!Init
  BY DEF Init, NewSender, NoPacket, Service!Init
<1>2. TypeOK /\ PendingIsFront /\ [Next]_vars => [Service!Next]_(Service!vars)
  BY ServiceStep
<1>3. QED
  BY <1>1, <1>2, TypeCorrect, PendingFront, PTL
  DEF Spec, Service!Spec, ImplementsService

----------------------------------------------------------------------------
(* The order of the commands: the numbers of the queue increase, and none  *)
(* is older than the one on the air.                                       *)
IdsOK ==
  /\ \A k \in DOMAIN Ids(sender) : Ids(sender)[k] \in lastPacket.id .. accepted
  /\ \A j, k \in DOMAIN Ids(sender) : j < k => Ids(sender)[j] < Ids(sender)[k]
  /\ lastPacket.id <= accepted

LEMMA IdsType ==
  ASSUME NEW s \in Sender
  PROVE  Ids(s) \in Seq(Nat)
<1>1. s.queue \in Seq(Entry)
  BY DEF Sender
<1>2. DOMAIN s.queue = 1 .. Len(s.queue) /\ Len(s.queue) \in Nat
  BY <1>1
<1>3. \A k \in DOMAIN s.queue : s.queue[k].id \in Nat
  <2>1. \A k \in DOMAIN s.queue : s.queue[k] \in Entry
    BY <1>1, <1>2
  <2>2. QED BY <2>1 DEF Entry
<1>4. Ids(s) \in [1 .. Len(s.queue) -> Nat]
  BY <1>2, <1>3 DEF Ids
<1>5. QED BY <1>2, <1>4

(* A step of the service keeps the order, so every step of the sender does.*)
LEMMA IdsStep ==
  ASSUME TypeOK, TypeOK', PendingIsFront, IdsOK, [Next]_vars
  PROVE  IdsOK'
<1> DEFINE q == Ids(sender)
<1>0. /\ q \in Seq(Nat) /\ lastPacket.id \in Nat /\ accepted \in Nat
      /\ q' \in Seq(Nat) /\ lastPacket'.id \in Nat /\ accepted' \in Nat
  <2>1. lastPacket.id \in Nat /\ lastPacket'.id \in Nat
    BY DEF TypeOK, Packet
  <2>2. accepted \in Nat /\ accepted' \in Nat
    BY SenderAssumption DEF TypeOK
  <2>3. Ids(sender) \in Seq(Nat) /\ Ids(sender') \in Seq(Nat)
    BY IdsType DEF TypeOK
  <2>4. QED BY <2>1, <2>2, <2>3
<1>1. [Service!Next]_(Service!vars)
  BY ServiceStep
<1>2. CASE Service!Accept
  <2>1. q' = Append(q, accepted + 1) /\ accepted' = accepted + 1 /\ UNCHANGED lastPacket.id
    BY <1>2 DEF Service!Accept, Ids
  <2> HIDE DEF q
  <2>2. QED BY <1>0, <2>1 DEF IdsOK, q
<1>3. CASE Service!Transmit
  <2>1. q # <<>> /\ lastPacket'.id = q[1] /\ UNCHANGED <<q, accepted>>
    BY <1>3 DEF Service!Transmit, Ids
  <2> HIDE DEF q
  <2>2. QED BY <1>0, <2>1 DEF IdsOK, q
<1>4. CASE Service!Retire
  <2>1. q # <<>> /\ q' = Tail(q) /\ UNCHANGED <<lastPacket.id, accepted>>
    BY <1>4 DEF Service!Retire, Ids
  <2> HIDE DEF q
  <2>2. Len(q') = Len(q) - 1 /\ \A k \in 1 .. Len(q') : q'[k] = q[k + 1]
    BY <1>0, <2>1
  <2>3. DOMAIN q' = 1 .. Len(q') /\ DOMAIN q = 1 .. Len(q) /\ Len(q) \in Nat
    BY <1>0
  <2>4. \A k \in DOMAIN q' : k + 1 \in DOMAIN q
    BY <2>2, <2>3
  <2>5. \A k \in DOMAIN q' : q'[k] \in lastPacket'.id .. accepted'
    BY <2>1, <2>2, <2>3, <2>4 DEF IdsOK, q
  <2>6. \A j, k \in DOMAIN q' : j < k => q'[j] < q'[k]
    <3>1. \A j, k \in DOMAIN q : j < k => q[j] < q[k]
      BY DEF IdsOK, q
    <3>2. QED BY <2>2, <2>3, <2>4, <3>1
  <2>7. lastPacket'.id <= accepted'
    BY <2>1 DEF IdsOK
  <2>8. QED BY <2>5, <2>6, <2>7 DEF IdsOK, q
<1>5. CASE Service!CancelAll
  <2>1. q' = <<>> /\ UNCHANGED <<lastPacket.id, accepted>>
    BY <1>5 DEF Service!CancelAll, Ids
  <2> HIDE DEF q
  <2>2. QED BY <1>0, <2>1 DEF IdsOK, q
<1>6. CASE UNCHANGED Service!vars
  <2>1. UNCHANGED <<q, lastPacket.id, accepted>>
    BY <1>6 DEF Service!vars, Ids
  <2> HIDE DEF q
  <2>2. QED BY <1>0, <2>1 DEF IdsOK, q
<1>7. QED BY <1>1, <1>2, <1>3, <1>4, <1>5, <1>6 DEF Service!Next

----------------------------------------------------------------------------
(* Lemmas: what the handlers do to the fields that the counter and the     *)
(* tallies are compared with.                                              *)

(* A failed attempt of a sender that does not give up counts one retry; one*)
(* that gives up forgets its retries and packets and advances the counter. *)
LEMMA FailAttemptFields ==
  ASSUME NEW s \in Sender, NEW d \in BOOLEAN
  PROVE  /\ ~GivesUp(s) => /\ FailAttempt(s, d).queue = s.queue
                           /\ FailAttempt(s, d).counter = s.counter
                           /\ FailAttempt(s, d).packets = s.packets
                           /\ FailAttempt(s, d).retries = s.retries + 1
         /\ GivesUp(s) => FailAttempt(s, d) = AdvanceQueue(s, d)
         /\ FailAttempt(s, d).state # "TX_PENDING"
BY DEF FailAttempt, AdvanceQueue, Sender

LEMMA AdvanceQueueFields ==
  ASSUME NEW s \in Sender, NEW d \in BOOLEAN
  PROVE  /\ s.queue # <<>> => AdvanceQueue(s, d).queue = Tail(s.queue)
         /\ AdvanceQueue(s, d).counter = NextCounter(s.counter)
         /\ AdvanceQueue(s, d).packets = 0 /\ AdvanceQueue(s, d).retries = 0
         /\ AdvanceQueue(s, d).state # "TX_PENDING"
BY DEF AdvanceQueue, Sender

LEMMA ForgottenFields ==
  ASSUME NEW s \in Sender
  PROVE  /\ Forgotten(s).queue = s.queue /\ Forgotten(s).counter = s.counter
         /\ Forgotten(s).packets = 0 /\ Forgotten(s).retries = 0
         /\ Forgotten(s).state # "TX_PENDING"
BY DEF Forgotten, Sender

LEMMA NextPacketFields ==
  ASSUME NEW s \in Sender
  PROVE  /\ NextPacket(s).queue = s.queue /\ NextPacket(s).counter = s.counter
         /\ NextPacket(s).packets = s.packets + 1 /\ NextPacket(s).retries = 0
         /\ NextPacket(s).state # "TX_PENDING"
BY DEF NextPacket, Sender

(* The counter moves when it is advanced.                                  *)
LEMMA NextCounterDiffers ==
  ASSUME NEW c \in 1 .. COUNTER_MAX
  PROVE  NextCounter(c) # c
BY SenderAssumption, LimitsAssumption DEF NextCounter

----------------------------------------------------------------------------
(* As long as no completion is later than the watchdog, the only one that  *)
(* can be outstanding is that of the pending request.                      *)
OneOutstanding ==
  ~late => \/ outstanding = <<>>
           \/ sender.state = "TX_PENDING" /\ outstanding = <<lastPacket>>

(* The successes that were delivered for the front command are at least    *)
(* the packets counted for it, and its failures in a row are at least the  *)
(* retries counted, but for one left behind by a cancelled request.        *)
TallyOK ==
  ~late => sender.packets <= own.ok /\ sender.retries <= own.bad + 1

RetiredOK == PromptMeansConfirmed /\ DroppedMeansFailed

(* The counter of the command on the air is the sender's until the command *)
(* is retired, and has moved on afterwards.                                *)
CounterOK ==
  lastPacket.id # 0 =>
    /\ FrontRequested => sender.counter = lastPacket.counter
    /\ ~FrontRequested /\ ~cutShort => sender.counter # lastPacket.counter

SenderInv ==
  TypeOK /\ PendingIsFront /\ IdsOK /\ OneOutstanding /\ TallyOK /\ RetiredOK /\ CounterOK

----------------------------------------------------------------------------
(* The counter.                                                            *)

(* In terms of the numbers of the queue.                                   *)
LEMMA FrontIds ==
  ASSUME NEW s \in Sender
  PROVE  /\ s.queue # <<>> <=> Ids(s) # <<>>
         /\ s.queue # <<>> => /\ Ids(s)[1] = FrontOf(s).id
                              /\ 1 \in DOMAIN Ids(s)
BY DEF Ids, FrontOf, Sender

(* A step that at most appends a command to the queue.                     *)
LEMMA CounterKept ==
  ASSUME TypeOK, TypeOK', IdsOK, CounterOK, UNCHANGED <<lastPacket, cutShort>>,
         sender'.counter = sender.counter,
         Ids(sender') \in {Ids(sender), Append(Ids(sender), accepted + 1)}
  PROVE  CounterOK'
<1>0. sender \in Sender /\ sender' \in Sender /\ accepted \in Nat
      /\ Ids(sender) \in Seq(Nat) /\ lastPacket.id <= accepted /\ lastPacket.id \in Nat
  BY IdsType, SenderAssumption DEF TypeOK, IdsOK, Packet
<1>1. FrontRequested <=> Ids(sender) # <<>> /\ lastPacket.id = Ids(sender)[1]
  BY <1>0, FrontIds DEF FrontRequested
<1>2. FrontRequested' <=> Ids(sender') # <<>> /\ lastPacket.id = Ids(sender')[1]
  BY <1>0, FrontIds DEF FrontRequested
<1>3. FrontRequested' <=> FrontRequested
  <2>1. CASE Ids(sender) = <<>> /\ Ids(sender') # Ids(sender)
    <3>1. Ids(sender')[1] = accepted + 1
      BY <1>0, <2>1
    <3>2. QED BY <1>0, <1>1, <1>2, <2>1, <3>1
  <2>2. CASE Ids(sender) # <<>> \/ Ids(sender') = Ids(sender)
    <3>1. Ids(sender) # <<>> => Ids(sender') # <<>> /\ Ids(sender')[1] = Ids(sender)[1]
      BY <1>0
    <3>2. QED BY <1>1, <1>2, <2>2, <3>1
  <2>3. QED BY <2>1, <2>2
<1>4. QED BY <1>3 DEF CounterOK

(* The command on the air is retired: the next one has another counter.    *)
LEMMA CounterMoved ==
  ASSUME TypeOK, TypeOK', IdsOK, CounterOK, FrontRequested, UNCHANGED lastPacket,
         sender'.queue = Tail(sender.queue), sender'.counter = NextCounter(sender.counter)
  PROVE  CounterOK'
<1>0. sender \in Sender /\ sender' \in Sender /\ sender.queue # <<>>
      /\ Ids(sender) \in Seq(Nat) /\ sender.queue \in Seq(Entry)
  BY IdsType DEF TypeOK, FrontRequested, Sender
<1>1. ~FrontRequested'
  <2>1. Ids(sender)[1] = lastPacket.id /\ 1 \in DOMAIN Ids(sender)
    BY <1>0, FrontIds DEF FrontRequested
  <2>2. sender'.queue # <<>> => /\ 2 \in DOMAIN sender.queue
                                /\ FrontOf(sender') = sender.queue[2]
    BY <1>0 DEF FrontOf
  <2>3. 2 \in DOMAIN sender.queue => /\ 2 \in DOMAIN Ids(sender)
                                      /\ Ids(sender)[2] = sender.queue[2].id
    BY DEF Ids
  <2>4. 2 \in DOMAIN Ids(sender) => Ids(sender)[1] < Ids(sender)[2]
    BY <2>1 DEF IdsOK
  <2>5. 2 \in DOMAIN Ids(sender) => Ids(sender)[1] \in Nat /\ Ids(sender)[2] \in Nat
    BY <1>0, <2>1
  <2>6. QED BY <2>1, <2>2, <2>3, <2>4, <2>5 DEF FrontRequested
<1>2. sender'.counter # sender.counter
  BY <1>0, NextCounterDiffers DEF Sender
<1>3. lastPacket.id # 0 => sender.counter = lastPacket.counter
  BY DEF CounterOK
<1>4. QED BY <1>1, <1>2, <1>3 DEF CounterOK

(* A failed or timed out attempt.                                          *)
LEMMA AttemptCounter ==
  ASSUME TypeOK, TypeOK', PendingIsFront, IdsOK, CounterOK, sender.state = "TX_PENDING",
         NEW d \in BOOLEAN, sender' = FailAttempt(sender, d), UNCHANGED <<lastPacket, cutShort>>
  PROVE  CounterOK'
<1>0. sender \in Sender
  BY DEF TypeOK
<1>1. CASE GivesUp(sender)
  <2>1. FrontRequested
    BY <1>1, LimitsAssumption DEF GivesUp, PendingIsFront
  <2>2. sender' = AdvanceQueue(sender, d) /\ sender.queue # <<>>
    BY <1>0, <1>1, <2>1, FailAttemptFields DEF FrontRequested
  <2>3. sender'.queue = Tail(sender.queue) /\ sender'.counter = NextCounter(sender.counter)
    BY <1>0, <2>2, AdvanceQueueFields
  <2>4. QED BY <2>1, <2>3, CounterMoved
<1>2. CASE ~GivesUp(sender)
  <2>1. Ids(sender') = Ids(sender) /\ sender'.counter = sender.counter
    BY <1>0, <1>2, FailAttemptFields DEF Ids
  <2>2. QED BY <2>1, CounterKept
<1>3. QED BY <1>1, <1>2

LEMMA CompletionCounter ==
  ASSUME TypeOK, TypeOK', PendingIsFront, IdsOK, CounterOK,
         NEW ok \in BOOLEAN, sender' = OnTxComplete(sender, ok), UNCHANGED <<lastPacket, cutShort>>
  PROVE  CounterOK'
<1>0. sender \in Sender /\ sender.cancelled \in BOOLEAN
  BY DEF TypeOK, Sender
<1>1. CASE Counts(sender) /\ ~ok
  BY <1>1, AttemptCounter DEF OnTxComplete, Counts
<1>2. CASE Counts(sender) /\ ok /\ LastPacket(sender)
  <2>1. FrontRequested /\ sender.queue # <<>>
    BY <1>2 DEF PendingIsFront, Counts, FrontRequested
  <2>2. sender' = AdvanceQueue(sender, TRUE)
    BY <1>2 DEF OnTxComplete, Counts
  <2>3. sender'.queue = Tail(sender.queue) /\ sender'.counter = NextCounter(sender.counter)
    BY <1>0, <2>1, <2>2, AdvanceQueueFields
  <2>4. QED BY <2>1, <2>3, CounterMoved
<1>3. CASE ~Counts(sender) \/ (ok /\ ~LastPacket(sender))
  <2>1. sender' \in {sender, Forgotten(sender), NextPacket(sender)}
    BY <1>0, <1>3 DEF OnTxComplete, Counts
  <2>2. Ids(sender') = Ids(sender) /\ sender'.counter = sender.counter
    BY <1>0, <2>1, ForgottenFields, NextPacketFields DEF Ids
  <2>3. QED BY <2>2, CounterKept
<1>4. QED BY <1>1, <1>2, <1>3

LEMMA CounterStep ==
  ASSUME TypeOK, TypeOK', PendingIsFront, IdsOK, CounterOK, [Next]_vars
  PROVE  CounterOK'
<1>0. sender \in Sender /\ accepted \in Nat
  BY SenderAssumption DEF TypeOK
<1>1. ASSUME NEW cmd \in Commands, EnqueueCommand(cmd)
      PROVE  CounterOK'
  <2>1. NewEntry(cmd, {}) \in Entry /\ NewEntry(cmd, {}).id = accepted + 1
    BY <1>0 DEF NewEntry, Entry
  <2>2. Ids(sender') = Append(Ids(sender), accepted + 1)
    BY <1>0, <1>1, <2>1, PushIds DEF EnqueueCommand
  <2>3. sender'.counter = sender.counter /\ UNCHANGED <<lastPacket, cutShort>>
    BY <1>0, <1>1 DEF EnqueueCommand, Push, Sender
  <2>4. QED BY <2>2, <2>3, CounterKept
<1>2. ASSUME NEW cmd \in Buttons, NEW channels \in SUBSET Channels,
             CommandGroup(cmd, channels)
      PROVE  CounterOK'
  <2>1. sender'.counter = sender.counter /\ UNCHANGED <<lastPacket, cutShort>>
    BY <1>0, <1>2 DEF CommandGroup, Push, Sender
  <2>2. CASE Collapses(sender, cmd)
    <3> DEFINE n == Len(sender.queue)
    <3>1. n \in 1 .. n /\ sender.queue \in Seq(Entry)
      BY <2>2, <1>0, FrontType DEF Collapses, Sender
    <3>2. sender'.queue = [sender.queue EXCEPT ![n].for = channels]
      BY <1>0, <1>2, <2>2 DEF CommandGroup, Sender
    <3>3. \A e \in Entry : [e EXCEPT !.for = channels].id = e.id
      BY DEF Entry
    <3>4. DOMAIN sender'.queue = DOMAIN sender.queue
          /\ \A k \in DOMAIN sender.queue : sender'.queue[k].id = sender.queue[k].id
      BY <3>1, <3>2, <3>3
    <3>5. Ids(sender') = Ids(sender)
      BY <3>4 DEF Ids
    <3>6. QED BY <2>1, <3>5, CounterKept
  <2>3. CASE ~Collapses(sender, cmd)
    <3>1. NewEntry(cmd, channels) \in Entry
          /\ NewEntry(cmd, channels).id = accepted + 1
      BY CommandsAssumption, <1>0 DEF NewEntry, Entry
    <3>2. [sender EXCEPT !.dests = channels] \in Sender
          /\ [sender EXCEPT !.dests = channels].queue = sender.queue
      BY <1>0 DEF Sender
    <3>3. sender' = Push([sender EXCEPT !.dests = channels], NewEntry(cmd, channels))
      BY <1>2, <2>3 DEF CommandGroup
    <3>4. Ids([sender EXCEPT !.dests = channels]) = Ids(sender)
      BY <3>2 DEF Ids
    <3>5. Ids(sender') = Append(Ids(sender), accepted + 1)
      BY <3>1, <3>2, <3>3, <3>4, PushIds
    <3>6. QED BY <2>1, <3>5, CounterKept
  <2>4. QED BY <2>2, <2>3
<1>3. ASSUME Clear
      PROVE  CounterOK'
  <2>1. /\ sender'.queue = <<>> /\ UNCHANGED lastPacket
        /\ sender.state = "TX_PENDING" => sender'.counter = NextCounter(sender.counter)
    BY <1>0, <1>3 DEF Clear, ClearQueue, CancelRequest, Sender
  <2>2. ~cutShort' => sender.state = "TX_PENDING" /\ NextCounter(sender.counter) # lastPacket.counter
    BY <1>3 DEF Clear
  <2>3. QED BY <2>1, <2>2 DEF CounterOK, FrontRequested
<1>4. ASSUME Request
      PROVE  CounterOK'
  <2>1. sender'.queue = sender.queue /\ sender'.counter = sender.counter /\ sender.queue # <<>>
    BY <1>0, <1>4 DEF Request, CanRequest, Requested, Sender
  <2>2. lastPacket'.id = FrontOf(sender).id /\ lastPacket'.counter = sender.counter
    BY <1>4 DEF Request, PacketOf
  <2>3. QED BY <2>1, <2>2 DEF CounterOK, FrontRequested, FrontOf
<1>5. ASSUME Wake \/ DelayElapses \/ Settle \/ LoseCompletion \/ UNCHANGED vars
      PROVE  CounterOK'
  <2>1. Ids(sender') = Ids(sender) /\ sender'.counter = sender.counter
        /\ UNCHANGED <<lastPacket, cutShort>>
    BY <1>0, <1>5 DEF Wake, Woken, DelayElapses, Settle, Settled, LoseCompletion, history, vars,
                      Ids, Sender
  <2>2. QED BY <2>1, CounterKept
<1>6. ASSUME Timeout
      PROVE  CounterOK'
  BY <1>6, AttemptCounter DEF Timeout, TimedOut
<1>7. ASSUME CompleteOk \/ CompleteFailed
      PROVE  CounterOK'
  BY <1>7, CompletionCounter DEF CompleteOk, CompleteFailed
<1>8. QED
  BY <1>1, <1>2, <1>3, <1>4, <1>5, <1>6, <1>7 DEF Next, Enqueues, Groups

----------------------------------------------------------------------------
(* The completions and what they are counted for.                          *)

LEMMA OneOutstandingStep ==
  ASSUME TypeOK, OneOutstanding, [Next]_vars
  PROVE  OneOutstanding'
<1> SUFFICES ASSUME ~late' PROVE OneOutstanding'
  BY DEF OneOutstanding
<1>0. sender \in Sender /\ lastPacket \in Packet
  BY DEF TypeOK
<1>1. ASSUME UNCHANGED <<outstanding, lastPacket, late>>,
             sender.state = "TX_PENDING" => sender'.state = "TX_PENDING"
      PROVE  OneOutstanding'
  BY <1>1 DEF OneOutstanding
<1>2. ASSUME Enqueues \/ Groups
      PROVE  OneOutstanding'
  <2>1. UNCHANGED <<outstanding, lastPacket, late>>
    BY <1>2 DEF Enqueues, Groups, EnqueueCommand, CommandGroup
  <2>2. sender.state = "TX_PENDING" => sender'.state = "TX_PENDING"
    BY <1>0, <1>2 DEF Enqueues, Groups, EnqueueCommand, CommandGroup, Push, Sender
  <2>3. QED BY <1>1, <2>1, <2>2
<1>3. ASSUME Clear \/ Wake \/ DelayElapses \/ Settle \/ UNCHANGED vars
      PROVE  OneOutstanding'
  <2>1. UNCHANGED <<outstanding, lastPacket, late>>
    BY <1>3 DEF Clear, Wake, DelayElapses, Settle, history, vars
  <2>2. sender.state = "TX_PENDING" => sender'.state = "TX_PENDING"
    BY <1>0, <1>3 DEF Clear, ClearQueue, CancelRequest, Wake, DelayElapses, Settle, CanSettle,
                      vars, Sender
  <2>3. QED BY <1>1, <2>1, <2>2
<1>4. ASSUME Request
      PROVE  OneOutstanding'
  <2>1. outstanding = <<>>
    BY <1>4 DEF Request, CanRequest, OneOutstanding
  <2>2. sender'.state = "TX_PENDING" /\ outstanding' = Append(outstanding, lastPacket')
    BY <1>0, <1>4 DEF Request, Requested, Sender
  <2>3. outstanding' = <<lastPacket'>>
    BY <2>1, <2>2
  <2>4. QED BY <2>2, <2>3 DEF OneOutstanding
<1>5. ASSUME Timeout
      PROVE  OneOutstanding'
  BY <1>5 DEF Timeout, OneOutstanding
<1>6. ASSUME CompleteOk \/ CompleteFailed \/ LoseCompletion
      PROVE  OneOutstanding'
  <2>1. ~late /\ outstanding # <<>>
    <3>1. CompleteOk \/ CompleteFailed => outstanding # <<>> /\ late' = late
      BY Zenon DEF CompleteOk, CompleteFailed
    <3>2. LoseCompletion => outstanding # <<>> /\ late' = late
      BY DEF LoseCompletion, history
    <3>3. QED BY <1>6, <3>1, <3>2
  <2>2. outstanding = <<lastPacket>>
    BY <2>1 DEF OneOutstanding
  <2>3. outstanding' = <<>>
    <3>1. CASE CompleteOk \/ CompleteFailed
      <4>1. outstanding' = Tail(outstanding)
        BY <3>1, Zenon DEF CompleteOk, CompleteFailed
      <4>2. QED BY <2>2, <4>1
    <3>2. CASE LoseCompletion
      <4>1. PICK k \in DOMAIN outstanding : outstanding' = RemoveAt(outstanding, k)
        BY <3>2 DEF LoseCompletion
      <4>2. Len(outstanding) = 1 /\ DOMAIN outstanding = 1 .. 1
        BY <2>2
      <4>3. k = 1
        BY <4>1, <4>2
      <4>4. outstanding' = SubSeq(outstanding, 1, 0) \o SubSeq(outstanding, 2, 1)
        BY <4>1, <4>2, <4>3 DEF RemoveAt
      <4>5. QED BY <2>2, <4>4
    <3>3. QED BY <1>6, <3>1, <3>2
  <2>4. QED BY <2>3 DEF OneOutstanding
<1>7. QED BY <1>2, <1>3, <1>4, <1>5, <1>6 DEF Next

(* The tally of an attempt of the front command, and of another one.       *)
LEMMA TalliedIs ==
  ASSUME NEW id
  PROVE  /\ sender.queue # <<>> /\ FrontOf(sender).id = id =>
              /\ Tallied(id, TRUE) = [ok |-> own.ok + 1, bad |-> 0]
              /\ Tallied(id, FALSE) = [own EXCEPT !.bad = IF own.bad > SEND_RETRIES
                                                         THEN own.bad ELSE own.bad + 1]
         /\ ~(sender.queue # <<>> /\ FrontOf(sender).id = id) =>
              Tallied(id, TRUE) = own /\ Tallied(id, FALSE) = own
BY DEF Tallied

(* A step that ends no attempt.                                            *)
LEMMA TallyKept ==
  ASSUME TypeOK, TallyOK, RetiredOK, UNCHANGED <<own, retired, late>>,
         sender'.packets = sender.packets, sender'.retries = sender.retries
  PROVE  TallyOK' /\ RetiredOK'
BY DEF TallyOK, RetiredOK, PromptMeansConfirmed, DroppedMeansFailed, SentMeansConfirmed

(* A failed or timed out attempt of the pending request.                   *)
LEMMA AttemptTally ==
  ASSUME TypeOK, PendingIsFront, TallyOK, RetiredOK, sender.state = "TX_PENDING", ~late,
         NEW d \in BOOLEAN, sender' = FailAttempt(sender, d),
         Record(lastPacket.id, FALSE, FailureVerdict)
  PROVE  TallyOK' /\ RetiredOK'
<1>0. /\ sender \in Sender /\ own \in Tally /\ own.ok \in Nat /\ own.bad \in Nat
      /\ sender.packets \in Nat /\ sender.retries \in 0 .. SEND_RETRIES
      /\ SEND_RETRIES \in Nat \ {0}
      /\ sender.packets <= own.ok /\ sender.retries <= own.bad + 1
  BY LimitsAssumption DEF TypeOK, Sender, Tally, TallyOK
<1> DEFINE t == Tallied(lastPacket.id, FALSE)
<1>1. FrontRequested =>
        /\ t.ok = own.ok /\ t.bad \in Nat
        /\ t.bad = IF own.bad > SEND_RETRIES THEN own.bad ELSE own.bad + 1
  <2>1. SUFFICES ASSUME FrontRequested
        PROVE  /\ t.ok = own.ok /\ t.bad \in Nat
               /\ t.bad = IF own.bad > SEND_RETRIES THEN own.bad ELSE own.bad + 1
    OBVIOUS
  <2>2. t = [own EXCEPT !.bad = IF own.bad > SEND_RETRIES THEN own.bad ELSE own.bad + 1]
    BY <2>1, TalliedIs DEF FrontRequested
  <2> HIDE DEF t
  <2>3. QED BY <1>0, <2>2 DEF Tally
<1>2. ~FrontRequested => t = own /\ sender.retries = 0
  BY TalliedIs DEF FrontRequested, PendingIsFront
<1>3. CASE GivesUp(sender)
  <2>1. FrontRequested /\ sender.queue # <<>> /\ sender.retries = SEND_RETRIES
    <3> HIDE DEF t
    <3>1. sender.retries = SEND_RETRIES
      BY <1>0, <1>3 DEF GivesUp
    <3>2. FrontRequested
      BY <1>0, <1>2, <3>1
    <3>3. QED BY <3>1, <3>2 DEF FrontRequested
  <2>2. own' = NoTally /\ retired'.how = "dropped" /\ retired'.bad = t.bad
    <3>1. FailureVerdict = "dropped"
      BY <1>3 DEF FailureVerdict
    <3>2. own' = NoTally
          /\ retired' = [how |-> "dropped", need |-> PacketsOf[FrontOf(sender).cmd],
                         ok |-> t.ok, bad |-> t.bad]
      BY <2>1, <3>1 DEF Record
    <3> HIDE DEF t
    <3>3. QED BY <3>2
  <2>3. sender'.packets = 0 /\ sender'.retries = 0
    BY <1>0, <1>3, FailAttemptFields, AdvanceQueueFields
  <2> HIDE DEF t
  <2>4. t.bad >= SEND_RETRIES
    BY <1>0, <1>1, <2>1
  <2>5. TallyOK'
    BY <2>2, <2>3 DEF TallyOK, NoTally
  <2>6. RetiredOK'
    BY <2>2, <2>4 DEF RetiredOK, PromptMeansConfirmed, DroppedMeansFailed, SentMeansConfirmed
  <2>7. QED BY <2>5, <2>6
<1>4. CASE ~GivesUp(sender)
  <2>1. own' = t /\ UNCHANGED retired
    BY <1>4 DEF Record, FailureVerdict
  <2>2. sender'.packets = sender.packets /\ sender'.retries = sender.retries + 1
        /\ sender.retries + 1 <= SEND_RETRIES
    BY <1>0, <1>4, FailAttemptFields DEF GivesUp
  <2> HIDE DEF t
  <2>3. TallyOK'
    BY <1>0, <1>1, <1>2, <2>1, <2>2 DEF TallyOK
  <2>4. RetiredOK'
    BY <2>1 DEF RetiredOK, PromptMeansConfirmed, DroppedMeansFailed, SentMeansConfirmed
  <2>5. QED BY <2>3, <2>4
<1>5. QED BY <1>3, <1>4

(* A completion that is in time: it is the pending request's.              *)
LEMMA InTime ==
  ASSUME OneOutstanding, ~late, outstanding # <<>>
  PROVE  sender.state = "TX_PENDING" /\ outstanding[1].id = lastPacket.id
BY DEF OneOutstanding

(* The completion of a request that was cancelled.                         *)
LEMMA ForgottenTally ==
  ASSUME TypeOK, TypeOK', RetiredOK, sender' = Forgotten(sender), UNCHANGED <<retired, late>>
  PROVE  TallyOK' /\ RetiredOK'
<1>1. sender'.packets = 0 /\ sender'.retries = 0 /\ own'.ok \in Nat /\ own'.bad \in Nat
  BY ForgottenFields DEF TypeOK, Tally
<1>2. QED
  BY <1>1 DEF TallyOK, RetiredOK, PromptMeansConfirmed, DroppedMeansFailed, SentMeansConfirmed

LEMMA CompleteFailedTally ==
  ASSUME TypeOK, TypeOK', PendingIsFront, OneOutstanding, TallyOK, RetiredOK, CompleteFailed, ~late
  PROVE  TallyOK' /\ RetiredOK'
<1>1. /\ sender.state = "TX_PENDING" /\ UNCHANGED late
      /\ sender' = OnTxComplete(sender, FALSE)
      /\ Record(lastPacket.id, FALSE, IF Counts(sender) THEN FailureVerdict ELSE "stays")
  BY InTime, Zenon DEF CompleteFailed
<1>2. CASE Counts(sender)
  <2>1. sender' = FailAttempt(sender, TRUE) /\ Record(lastPacket.id, FALSE, FailureVerdict)
    BY <1>1, <1>2, Zenon DEF OnTxComplete, Counts
  <2>2. QED BY <1>1, <2>1, AttemptTally
<1>3. CASE ~Counts(sender)
  <2>1. sender' = Forgotten(sender) /\ UNCHANGED retired
    BY <1>1, <1>3, Zenon DEF OnTxComplete, Record
  <2>2. QED BY <1>1, <2>1, ForgottenTally
<1>4. QED BY <1>2, <1>3

LEMMA CompleteOkTally ==
  ASSUME TypeOK, TypeOK', PendingIsFront, OneOutstanding, TallyOK, RetiredOK, CompleteOk, ~late
  PROVE  TallyOK' /\ RetiredOK'
<1>0. /\ sender \in Sender /\ own.ok \in Nat /\ own.bad \in Nat
      /\ sender.packets \in Nat /\ sender.packets <= own.ok
  BY DEF TypeOK, Sender, Tally, TallyOK
<1> DEFINE how == IF Counts(sender) /\ LastPacket(sender) THEN "sent" ELSE "stays"
           t == Tallied(lastPacket.id, TRUE)
<1>1. /\ sender.state = "TX_PENDING" /\ UNCHANGED late
      /\ sender' = OnTxComplete(sender, TRUE)
      /\ Record(lastPacket.id, TRUE, how)
  BY InTime, Zenon DEF CompleteOk
<1>2. CASE ~Counts(sender)
  <2>1. sender' = Forgotten(sender) /\ UNCHANGED retired
    BY <1>1, <1>2, Zenon DEF OnTxComplete, Record
  <2>2. QED BY <1>1, <2>1, ForgottenTally
<1>3. CASE Counts(sender)
  <2>1. FrontRequested /\ sender.queue # <<>>
    BY <1>3 DEF Counts, PendingIsFront, FrontRequested
  <2>2. t = [ok |-> own.ok + 1, bad |-> 0]
    BY <2>1, TalliedIs DEF FrontRequested
  <2>3. CASE LastPacket(sender)
    <3>1. sender' = AdvanceQueue(sender, TRUE)
      BY <1>1, <1>3, <2>3, Zenon DEF OnTxComplete, Counts
    <3>2. sender'.packets = 0 /\ sender'.retries = 0
      BY <1>0, <3>1, AdvanceQueueFields
    <3>3. own' = NoTally
          /\ retired' = [how |-> "sent", need |-> PacketsOf[FrontOf(sender).cmd],
                         ok |-> t.ok, bad |-> t.bad]
      BY <1>1, <1>3, <2>1, <2>3 DEF Record
    <3>4. PacketsOf[FrontOf(sender).cmd] <= sender.packets + 1
      <4>1. sender.packets + 1 >= PacketsOf[FrontOf(sender).cmd]
        BY <2>1, <2>3 DEF LastPacket, TargetPackets
      <4>2. PacketsOf[FrontOf(sender).cmd] \in Nat
        BY <1>0, <2>1, FrontType, CommandsAssumption DEF Entry
      <4>3. QED BY <1>0, <4>1, <4>2
    <3>5. PacketsOf[FrontOf(sender).cmd] \in Nat
      BY <1>0, <2>1, FrontType, CommandsAssumption DEF Entry
    <3> HIDE DEF t
    <3>6. TallyOK'
      BY <3>2, <3>3 DEF TallyOK, NoTally
    <3>7. retired'.how = "sent" /\ retired'.ok >= retired'.need
      BY <1>0, <2>2, <3>3, <3>4, <3>5
    <3>8. RetiredOK'
      BY <3>7 DEF RetiredOK, PromptMeansConfirmed, DroppedMeansFailed, SentMeansConfirmed
    <3>9. QED BY <3>6, <3>8
  <2>4. CASE ~LastPacket(sender)
    <3>1. sender' = NextPacket(sender)
      BY <1>1, <1>3, <2>4, Zenon DEF OnTxComplete, Counts
    <3>2. own' = t /\ UNCHANGED retired
      BY <1>1, <2>4, Zenon DEF Record
    <3>3. sender'.packets = sender.packets + 1 /\ sender'.retries = 0
      BY <1>0, <3>1, NextPacketFields
    <3> HIDE DEF t
    <3>4. TallyOK'
      BY <1>0, <2>2, <3>2, <3>3 DEF TallyOK
    <3>5. RetiredOK'
      BY <1>1, <3>2 DEF RetiredOK, PromptMeansConfirmed, DroppedMeansFailed, SentMeansConfirmed
    <3>6. QED BY <3>4, <3>5
  <2>5. QED BY <2>3, <2>4
<1>4. QED BY <1>2, <1>3

LEMMA TallyStep ==
  ASSUME TypeOK, TypeOK', PendingIsFront, OneOutstanding, TallyOK, RetiredOK, [Next]_vars
  PROVE  TallyOK' /\ RetiredOK'
<1>0. sender \in Sender
  BY DEF TypeOK
<1>1. CASE late'
  BY <1>1 DEF TallyOK, RetiredOK, PromptMeansConfirmed, DroppedMeansFailed
<1>2. CASE ~late'
  <2>1. ASSUME Enqueues \/ Groups
        PROVE  TallyOK' /\ RetiredOK'
    <3>1. UNCHANGED <<own, retired, late>>
      BY <2>1 DEF Enqueues, Groups, EnqueueCommand, CommandGroup
    <3>2. sender'.packets = sender.packets /\ sender'.retries = sender.retries
      BY <1>0, <2>1 DEF Enqueues, Groups, EnqueueCommand, CommandGroup, Push, Sender
    <3>3. QED BY <3>1, <3>2, TallyKept
  <2>2. ASSUME Clear
        PROVE  TallyOK' /\ RetiredOK'
    <3>1. sender'.packets = 0 /\ sender'.retries = 0 /\ own' = NoTally
      BY <1>0, <2>2 DEF Clear, ClearQueue, CancelRequest, Sender
    <3>2. UNCHANGED <<retired, late>>
      BY <2>2 DEF Clear
    <3>3. QED
      BY <3>1, <3>2
      DEF TallyOK, NoTally, RetiredOK, PromptMeansConfirmed, DroppedMeansFailed, SentMeansConfirmed
  <2>3. ASSUME Wake \/ DelayElapses \/ Request \/ Settle \/ LoseCompletion \/ UNCHANGED vars
        PROVE  TallyOK' /\ RetiredOK'
    <3>1. UNCHANGED <<own, retired, late>>
      BY <2>3 DEF Wake, DelayElapses, Request, Settle, LoseCompletion, history, vars
    <3>2. sender'.packets = sender.packets /\ sender'.retries = sender.retries
      BY <1>0, <2>3 DEF Wake, Woken, DelayElapses, Request, Requested, Settle, Settled,
                        LoseCompletion, vars, Sender
    <3>3. QED BY <3>1, <3>2, TallyKept
  <2>4. ASSUME Timeout
        PROVE  TallyOK' /\ RetiredOK'
    <3>1. ~late /\ sender.state = "TX_PENDING" /\ sender' = FailAttempt(sender, FALSE)
          /\ Record(lastPacket.id, FALSE, FailureVerdict)
      BY <1>2, <2>4, Zenon DEF Timeout, TimedOut
    <3>2. QED BY <3>1, AttemptTally
  <2>5. ASSUME CompleteOk \/ CompleteFailed
        PROVE  TallyOK' /\ RetiredOK'
    <3>1. ~late
      BY <1>2, <2>5, Zenon DEF CompleteOk, CompleteFailed
    <3>2. QED BY <2>5, <3>1, CompleteOkTally, CompleteFailedTally
  <2>6. QED BY <2>1, <2>2, <2>3, <2>4, <2>5 DEF Next
<1>3. QED BY <1>1, <1>2

----------------------------------------------------------------------------
(* The inductive invariant of a CommandSender: its types, that a pending   *)
(* request is the front command's, the order of the commands, and what its *)
(* counter, its packets and its retries say of the attempts that were made.*)
THEOREM SenderInvariant == Spec => []SenderInv
<1>1. Init /\ TypeOK => SenderInv
  <2> SUFFICES ASSUME Init, TypeOK PROVE SenderInv
    OBVIOUS
  <2>1. PendingIsFront /\ OneOutstanding /\ CounterOK
    BY DEF Init, NewSender, NoPacket, PendingIsFront, OneOutstanding, CounterOK
  <2>2. Ids(sender) = <<>> /\ DOMAIN Ids(sender) = {} /\ lastPacket.id = 0 /\ accepted = 0
    BY DEF Init, NewSender, NoPacket, Ids
  <2>3. IdsOK
    <3>1. 0 <= 0
      OBVIOUS
    <3>2. QED BY <2>2, <3>1 DEF IdsOK
  <2>4. TallyOK /\ RetiredOK
    BY DEF Init, NewSender, NoTally, NotRetired, TallyOK, RetiredOK, PromptMeansConfirmed,
           DroppedMeansFailed, SentMeansConfirmed
  <2>5. QED BY <2>1, <2>3, <2>4 DEF SenderInv
<1>2. SenderInv /\ TypeOK' /\ [Next]_vars => SenderInv'
  BY PendingStep, IdsStep, OneOutstandingStep, TallyStep, CounterStep DEF SenderInv
<1>3. QED BY <1>1, <1>2, TypeCorrect, PTL DEF Spec

(* A command is retired as sent only after the completions of all of its   *)
(* own packets, as long as no completion is later than the watchdog.       *)
THEOREM PromptConfirmed == Spec => []PromptMeansConfirmed
<1>1. SenderInv => PromptMeansConfirmed
  BY DEF SenderInv, RetiredOK
<1>2. QED BY <1>1, SenderInvariant, PTL

(* A command is dropped only after SEND_RETRIES failures of its own in a   *)
(* row, as long as no completion is later than the watchdog.               *)
THEOREM DroppedFailed == Spec => []DroppedMeansFailed
<1>1. SenderInv => DroppedMeansFailed
  BY DEF SenderInv, RetiredOK
<1>2. QED BY <1>1, SenderInvariant, PTL

(* The packets of one command carry one counter and those of the next      *)
(* command another, so that a blind can tell a repetition from a command.  *)
THEOREM CounterTells == Spec => CounterTellsCommands
<1>1. SenderInv /\ [Next]_vars =>
        [(lastPacket.id # 0 /\ lastPacket' # lastPacket) =>
           /\ lastPacket'.id = lastPacket.id => lastPacket'.counter = lastPacket.counter
           /\ lastPacket'.id # lastPacket.id /\ ~cutShort =>
                lastPacket'.counter # lastPacket.counter]_vars
  <2> SUFFICES ASSUME SenderInv, [Next]_vars, lastPacket.id # 0, lastPacket' # lastPacket
               PROVE  /\ lastPacket'.id = lastPacket.id =>
                           lastPacket'.counter = lastPacket.counter
                      /\ lastPacket'.id # lastPacket.id /\ ~cutShort =>
                           lastPacket'.counter # lastPacket.counter
    OBVIOUS
  <2>1. Request
    <3>1. ASSUME Enqueues \/ Groups PROVE FALSE
      BY <3>1 DEF Enqueues, Groups, EnqueueCommand, CommandGroup
    <3>2. ASSUME Clear \/ Wake \/ DelayElapses \/ Settle \/ LoseCompletion \/ UNCHANGED vars
          PROVE  FALSE
      BY <3>2 DEF Clear, Wake, DelayElapses, Settle, LoseCompletion, history, vars
    <3>3. ASSUME Timeout \/ CompleteOk \/ CompleteFailed PROVE FALSE
      BY <3>3, Zenon DEF Timeout, CompleteOk, CompleteFailed
    <3>4. QED BY <3>1, <3>2, <3>3 DEF Next
  <2>2. /\ sender.queue # <<>> /\ lastPacket'.id = FrontOf(sender).id
        /\ lastPacket'.counter = sender.counter
    BY <2>1 DEF Request, CanRequest, PacketOf
  <2>3. QED BY <2>2 DEF SenderInv, CounterOK, FrontRequested
<1>2. QED BY <1>1, SenderInvariant, PTL DEF Spec, CounterTellsCommands

=============================================================================
