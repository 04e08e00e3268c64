----------------------- MODULE CommandSenderCoreProofs -----------------------
(***************************************************************************)
(* Lemmas about the operators of one sender record: every handler maps     *)
(* sender records to sender records.  The theorems about the sender, on    *)
(* the abstract radio and on the wrapping clock, rest on them.             *)
(***************************************************************************)
EXTENDS CommandSenderCore, TLAPS

----------------------------------------------------------------------------
(* The rolling counter stays in 1 .. COUNTER_MAX.                          *)
LEMMA NextCounterType ==
  ASSUME NEW c \in 1 .. COUNTER_MAX
  PROVE  NextCounter(c) \in 1 .. COUNTER_MAX
BY LimitsAssumption DEF NextCounter

(* Appending keeps the record well-typed.                                  *)
LEMMA PushType ==
  ASSUME NEW s \in Sender, NEW e \in Entry
  PROVE  Push(s, e) \in Sender
<1>1. Append(s.queue, e) \in Seq(Entry)
  BY DEF Sender
<1>2. QED BY <1>1 DEF Push, Sender, State

(* clear_queue() keeps the record well-typed.                              *)
LEMMA ClearQueueType ==
  ASSUME NEW s \in Sender
  PROVE  ClearQueue(s) \in Sender
<1>1. NextCounter(s.counter) \in 1 .. COUNTER_MAX
  BY NextCounterType DEF Sender
<1>2. <<>> \in Seq(Entry) /\ 0 \in 0 .. SEND_RETRIES
  BY LimitsAssumption
<1>3. QED BY <1>1, <1>2 DEF ClearQueue, CancelRequest, Sender, State

(* advance_queue_() keeps the record well-typed: first for any well-typed  *)
(* values of the fields it sets, then for those it computes.               *)
LEMMA AdvancedType ==
  ASSUME NEW s \in Sender, NEW rest \in Seq(Entry), NEW state \in State,
         NEW delaying \in BOOLEAN, NEW counter \in 1 .. COUNTER_MAX
  PROVE  [s EXCEPT !.queue = rest, !.packets = 0, !.retries = 0, !.dests = {},
                   !.counter = counter, !.state = state,
                   !.delaying = delaying] \in Sender
<1>1. 0 \in 0 .. SEND_RETRIES
  BY LimitsAssumption
<1>2. QED BY <1>1 DEF Sender

LEMMA AdvanceQueueType ==
  ASSUME NEW s \in Sender, NEW d \in BOOLEAN
  PROVE  AdvanceQueue(s, d) \in Sender
<1> DEFINE rest == IF s.queue = <<>> THEN <<>> ELSE Tail(s.queue)
           state == IF rest = <<>> THEN "IDLE" ELSE "WAIT_DELAY"
           delaying == IF rest = <<>> THEN s.delaying ELSE d
<1>1. NextCounter(s.counter) \in 1 .. COUNTER_MAX
  BY NextCounterType DEF Sender
<1>2. rest \in Seq(Entry)
  BY DEF Sender
<1>3. state \in State
  BY DEF State
<1>4. delaying \in BOOLEAN
  BY DEF Sender
<1>5. [s EXCEPT !.queue = rest, !.packets = 0, !.retries = 0, !.dests = {},
                !.counter = NextCounter(s.counter), !.state = state,
                !.delaying = delaying] \in Sender
  <2> HIDE DEF rest, state, delaying
  <2>1. QED BY <1>1, <1>2, <1>3, <1>4, AdvancedType
<1>6. QED BY <1>5 DEF AdvanceQueue

(* A failed or timed out attempt keeps the record well-typed: the retry    *)
(* count is increased only while it is below SEND_RETRIES.                 *)
LEMMA FailAttemptType ==
  ASSUME NEW s \in Sender, NEW d \in BOOLEAN
  PROVE  FailAttempt(s, d) \in Sender
<1>1. CASE GivesUp(s)
  BY <1>1, AdvanceQueueType DEF FailAttempt
<1>2. CASE ~GivesUp(s)
  <2>1. s.retries + 1 \in 0 .. SEND_RETRIES
    BY <1>2, LimitsAssumption DEF GivesUp, Sender
  <2>2. QED BY <1>2, <2>1 DEF FailAttempt, Sender, State
<1>3. QED BY <1>1, <1>2

(* on_tx_complete() keeps the record well-typed.                           *)
LEMMA OnTxCompleteType ==
  ASSUME NEW s \in Sender, NEW ok \in BOOLEAN
  PROVE  OnTxComplete(s, ok) \in Sender
<1>0. 0 \in 0 .. SEND_RETRIES
  BY LimitsAssumption
<1>1. CASE s.state # "TX_PENDING"
  BY <1>1 DEF OnTxComplete, Counts
<1>2. CASE s.state = "TX_PENDING" /\ s.cancelled
  <2>1. Forgotten(s) \in Sender
    BY <1>0 DEF Forgotten, Sender, State
  <2>2. QED BY <1>2, <2>1 DEF OnTxComplete, Counts
<1>3. CASE Counts(s) /\ ~ok
  BY <1>3, FailAttemptType DEF OnTxComplete, Counts
<1>4. CASE Counts(s) /\ ok /\ LastPacket(s)
  BY <1>4, AdvanceQueueType DEF OnTxComplete, Counts
<1>5. CASE Counts(s) /\ ok /\ ~LastPacket(s)
  <2>1. ASSUME NEW n \in Nat
        PROVE  [s EXCEPT !.retries = 0, !.packets = n, !.delaying = TRUE,
                         !.state = "WAIT_DELAY"] \in Sender
    BY <1>0 DEF Sender, State
  <2>2. s.packets + 1 \in Nat
    BY DEF Sender
  <2>3. OnTxComplete(s, ok) =
          [s EXCEPT !.retries = 0, !.packets = s.packets + 1, !.delaying = TRUE,
                    !.state = "WAIT_DELAY"]
    BY <1>5 DEF OnTxComplete, NextPacket, Counts
  <2>4. QED BY <2>1, <2>2, <2>3
<1>6. QED
  <2>1. s.cancelled \in BOOLEAN
    BY DEF Sender
  <2>2. QED BY <1>1, <1>2, <1>3, <1>4, <1>5, <2>1 DEF Counts

(* Facts about the front command that the invariant proofs use.            *)
LEMMA FrontType ==
  ASSUME NEW s \in Sender, s.queue # <<>>
  PROVE  /\ FrontOf(s) \in Entry
         /\ Len(s.queue) \in Nat \ {0}
         /\ s.queue[Len(s.queue)] \in Entry
BY DEF Sender, FrontOf
=============================================================================
