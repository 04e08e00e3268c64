----------------------------- MODULE Sx1262Proofs -----------------------------
(***************************************************************************)
(* Theorems about the SX1262 driver, for any number of packets,            *)
(* transmissions, failed transfers and faults of the chip: between         *)
(* transmissions the receiver is up and its interrupt can still rise,      *)
(* unless a transfer failed.                                               *)
(***************************************************************************)
EXTENDS Sx1262, TLAPS

Routes == {"RX", "TX"}
ChipStates == {"RX", "TX", "STBY", "UNLOCKED", "DEAD"}
Places == {"take", "poll", "return", "recover", "escalate", "drain", "irq", "clear", "buffer",
           "health", "heal"}
FsmStates == {"Idle", "WaitTxDone", "ReturnToRx", "WaitRxReady", "Recover"}

Chips == [state : ChipStates, irq : SUBSET Routes, dio : Routes \cup {"none"},
          params : Routes \cup {"none"}, unread : BOOLEAN]
Flags == [mode : Routes, rx : BOOLEAN, tx : BOOLEAN, fem : Routes]
Tasks == [pc : Places, fsm : FsmStates, terminal : {"None", "Success", "Failed"},
          inProgress : BOOLEAN, seen : SUBSET Routes]

SxTypeOK ==
  /\ sx \in Chips /\ flags \in Flags /\ task \in Tasks
  /\ edge \in BOOLEAN /\ hurt \in BOOLEAN

(* Where the RF task can be in each state of the TX state machine.  The    *)
(* FIFO is read between transmissions, or while one of them waits for RX.  *)
Listening == task.fsm \in {"Idle", "WaitRxReady"} /\ task.pc # "escalate"

TaskOK ==
  /\ task.pc = "recover" <=> task.fsm = "Recover"
  /\ task.pc = "return" <=> task.fsm = "ReturnToRx"
  /\ task.pc = "poll" => task.fsm \in {"WaitTxDone", "WaitRxReady"}
  /\ task.pc \in {"escalate", "heal"} => task.fsm = "Idle"
  /\ task.fsm = "WaitTxDone" => task.pc \in {"take", "poll", "drain", "health"}
  /\ task.fsm \in {"WaitTxDone", "ReturnToRx", "WaitRxReady"} => task.inProgress
  /\ task.fsm = "Idle" => ~task.inProgress
  /\ task.seen # {} => task.pc = "clear"

(* The mode the handler chooses its flag by, and the amplifier.            *)
ModeOK ==
  /\ SaysRx(sx) => flags.mode = "RX"
  /\ Listening => flags.mode = "RX"
  /\ Listening \/ task.pc = "escalate" => flags.fem = "RX"
  /\ task.fsm = "WaitTxDone" => flags.mode = "TX"

(* The chip, as long as every transfer worked: while it listens, while it  *)
(* transmits, and when it has transmitted.                                 *)
ReceiverUp ==
  /\ Hears(sx) /\ sx.params = "RX" /\ sx.dio = "RX"
  /\ "RX" \in sx.irq => edge \/ flags.rx \/ task.pc = "irq" \/ "RX" \in task.seen
  /\ sx.unread => "RX" \in sx.irq \/ task.pc = "buffer"

SenderUp ==
  /\ sx.state \in {"TX", "STBY"} /\ sx.dio = "TX" /\ ~sx.unread /\ "RX" \notin sx.irq
  /\ "TX" \in sx.irq => sx.state = "STBY"

ChipOK ==
  /\ Listening => ReceiverUp
  /\ task.fsm = "WaitTxDone" => SenderUp
  /\ task.fsm = "ReturnToRx" => sx.state = "STBY" /\ sx.irq = {} /\ ~sx.unread
  /\ task.pc # "escalate"

SxInv == SxTypeOK /\ TaskOK /\ ModeOK /\ (~hurt => ChipOK)

----------------------------------------------------------------------------
(* Lemmas: what may be written into the records.                           *)

LEMMA ChipType ==
  ASSUME NEW state \in ChipStates, NEW irq \in SUBSET Routes, NEW dio \in Routes \cup {"none"},
         NEW params \in Routes \cup {"none"}, NEW unread \in BOOLEAN
  PROVE  Chip(state, irq, dio, params, unread) \in Chips
BY DEF Chip, Chips

LEMMA ChipUpdates ==
  ASSUME NEW c \in Chips
  PROVE  /\ \A i \in SUBSET Routes, b \in BOOLEAN : [c EXCEPT !.irq = i, !.unread = b] \in Chips
         /\ \A i \in SUBSET Routes, s \in ChipStates : [c EXCEPT !.state = s, !.irq = i] \in Chips
         /\ \A i \in SUBSET Routes : [c EXCEPT !.irq = i] \in Chips
         /\ \A s \in ChipStates : [c EXCEPT !.state = s] \in Chips
         /\ \A b \in BOOLEAN : [c EXCEPT !.unread = b] \in Chips
BY DEF Chips

LEMMA TaskUpdates ==
  ASSUME NEW t \in Tasks, NEW pc \in Places
  PROVE  /\ [t EXCEPT !.pc = pc] \in Tasks
         /\ \A f \in FsmStates : [t EXCEPT !.fsm = f, !.pc = pc] \in Tasks
         /\ \A seen \in SUBSET Routes : [t EXCEPT !.pc = pc, !.seen = seen] \in Tasks
BY DEF Tasks

LEMMA Becomes ==
  ASSUME SxTypeOK, NEW c \in Chips, ChipBecomes(c)
  PROVE  sx' = c /\ sx' \in Chips /\ edge' \in BOOLEAN
BY DEF SxTypeOK, ChipBecomes

----------------------------------------------------------------------------
(* Every action keeps the invariant.                                       *)

LEMMA PacketArrivesKeeps == SxInv /\ PacketArrives => SxInv'
<1> SUFFICES ASSUME SxInv, PacketArrives PROVE SxInv'
  OBVIOUS
<1>1. SxTypeOK'
  <2> DEFINE c == [sx EXCEPT !.irq = @ \cup (Dio(sx) \cap {"RX"}), !.unread = sx.params = "RX"]
  <2>1. sx.irq \cup (Dio(sx) \cap {"RX"}) \in SUBSET Routes /\ (sx.params = "RX") \in BOOLEAN
    BY DEF SxInv, SxTypeOK, Chips, Routes
  <2>2. c \in Chips
    BY <2>1, ChipUpdates DEF SxInv, SxTypeOK
  <2>3. ChipBecomes(c) /\ UNCHANGED <<flags, task, hurt>>
    BY DEF PacketArrives
  <2> HIDE DEF c
  <2>4. QED BY <2>2, <2>3, Becomes DEF SxInv, SxTypeOK
<1>2. TaskOK'
  BY DEF SxInv, SxTypeOK, Tasks, TaskOK, PacketArrives, Hears, ChipBecomes, Masked, Dio
<1>3. ModeOK'
  BY <1>2 DEF SxInv, SxTypeOK, Chips, Flags, Tasks, TaskOK, ModeOK, Listening, SaysRx,
     PacketArrives, Hears, ChipBecomes, Masked, Dio
<1>4. (~hurt => ChipOK)'
  <2> SUFFICES ASSUME ~hurt PROVE ChipOK'
    BY DEF PacketArrives
  <2> DEFINE c == [sx EXCEPT !.irq = @ \cup (Dio(sx) \cap {"RX"}), !.unread = sx.params = "RX"]
  <2>1. UNCHANGED <<task, flags>> /\ Hears(sx) /\ ChipBecomes(c)
    BY DEF PacketArrives
  <2>a. CASE ~Listening
    <3>1. task.fsm = "Recover"
      BY <2>a, <2>1 DEF SxInv, SxTypeOK, Tasks, FsmStates, ChipOK, SenderUp, Hears, Listening
    <3>2. task.pc # "escalate"
      BY DEF SxInv, ChipOK
    <3>3. QED BY <3>1, <3>2, <2>1 DEF ChipOK, Listening
  <2>b. CASE Listening
    <3>2. ReceiverUp
      BY <2>b DEF SxInv, ChipOK
    <3>3. /\ sx'.state = sx.state /\ sx'.dio = sx.dio /\ sx'.params = sx.params
          /\ sx'.irq = sx.irq \cup {"RX"}
      BY <2>1, <3>2 DEF ChipBecomes, Dio, ReceiverUp, SxInv, SxTypeOK, Chips
    <3>4. edge' \/ flags.rx \/ task.pc = "irq" \/ "RX" \in task.seen
      <4>1. CASE "RX" \in sx.irq
        BY <4>1, <2>1, <3>2 DEF ReceiverUp, ChipBecomes
      <4>2. CASE "RX" \notin sx.irq
        <5> HIDE DEF c
        <5>1. Masked(sx) = {}
          BY <4>2, <3>2 DEF Masked, Dio, ReceiverUp
        <5>2. Masked(c) # {}
          <6>1. "RX" \in Masked(sx')
            BY <3>2, <3>3 DEF Masked, Dio, ReceiverUp
          <6>2. sx' = c
            BY <2>1 DEF ChipBecomes
          <6>3. QED BY <6>1, <6>2
        <5>3. QED BY <5>1, <5>2, <2>1 DEF ChipBecomes
      <4>3. QED BY <4>1, <4>2
    <3>5. ReceiverUp'
      BY <2>1, <3>2, <3>3, <3>4 DEF ReceiverUp, Hears
    <3>6. QED BY <2>1, <2>b, <3>5 DEF ChipOK, Listening
  <2>c. QED BY <2>a, <2>b
<1>5. QED BY <1>1, <1>2, <1>3, <1>4 DEF SxInv

LEMMA PacketLeavesKeeps == SxInv /\ PacketLeaves => SxInv'
<1> SUFFICES ASSUME SxInv, PacketLeaves PROVE SxInv'
  OBVIOUS
<1>1. SxTypeOK'
  <2> DEFINE c == [sx EXCEPT !.state = "STBY", !.irq = @ \cup (Dio(sx) \cap {"TX"})]
  <2>1. sx.irq \cup (Dio(sx) \cap {"TX"}) \in SUBSET Routes /\ "STBY" \in ChipStates
    BY DEF SxInv, SxTypeOK, Chips, Routes, ChipStates
  <2>2. c \in Chips
    BY <2>1, ChipUpdates DEF SxInv, SxTypeOK
  <2>3. ChipBecomes(c) /\ UNCHANGED <<flags, task, hurt>>
    BY DEF PacketLeaves
  <2> HIDE DEF c
  <2>4. QED BY <2>2, <2>3, Becomes DEF SxInv, SxTypeOK
<1>2. TaskOK'
  BY DEF SxInv, SxTypeOK, Tasks, TaskOK, PacketLeaves, ChipBecomes
<1>3. ModeOK'
  BY <1>2 DEF SxInv, SxTypeOK, Chips, Flags, Tasks, TaskOK, ModeOK, Listening, SaysRx,
     PacketLeaves, ChipBecomes
<1>4. (~hurt => ChipOK)'
  BY <1>2 DEF SxInv, SxTypeOK, Chips, Flags, Tasks, TaskOK, ModeOK, ChipOK, Listening,
     ReceiverUp, SenderUp, Hears, PacketLeaves, ChipBecomes
<1>5. QED BY <1>1, <1>2, <1>3, <1>4 DEF SxInv

LEMMA ChipFaultsKeeps == SxInv /\ ChipFaults => SxInv'
<1> SUFFICES ASSUME SxInv, ChipFaults PROVE SxInv'
  OBVIOUS
<1>1. SxTypeOK'
  <2>1. PICK state \in ChipStates : ChipBecomes([sx EXCEPT !.state = state])
    BY DEF ChipFaults, ChipStates
  <2>2. [sx EXCEPT !.state = state] \in Chips
    BY ChipUpdates DEF SxInv, SxTypeOK
  <2>3. sx' \in Chips /\ edge' \in BOOLEAN
    BY <2>1, <2>2, Becomes DEF SxInv
  <2>4. QED BY <2>3 DEF ChipFaults, SxInv, SxTypeOK
<1>2. TaskOK'
  BY DEF SxInv, SxTypeOK, Tasks, TaskOK, ChipFaults, ChipBecomes, Hears
<1>3. ModeOK'
  BY <1>2 DEF SxInv, SxTypeOK, Chips, Flags, Tasks, TaskOK, ModeOK, Listening, SaysRx,
     ChipFaults, ChipBecomes, Hears
<1>4. (~hurt => ChipOK)'
  BY <1>2 DEF SxInv, SxTypeOK, Chips, Flags, Tasks, TaskOK, ModeOK, ChipOK, Listening,
     ReceiverUp, SenderUp, ChipFaults, ChipBecomes, Hears
<1>5. QED BY <1>1, <1>2, <1>3, <1>4 DEF SxInv

LEMMA InterruptKeeps == SxInv /\ Interrupt => SxInv'
<1> SUFFICES ASSUME SxInv, Interrupt PROVE SxInv'
  OBVIOUS
<1>1. SxTypeOK'
  <2>1. [flags EXCEPT !.tx = TRUE] \in Flags /\ [flags EXCEPT !.rx = TRUE] \in Flags
    BY DEF SxInv, SxTypeOK, Flags
  <2>2. flags' \in Flags /\ edge' \in BOOLEAN
    BY <2>1 DEF Interrupt
  <2>3. QED BY <2>2 DEF Interrupt, SxInv, SxTypeOK
<1>2. TaskOK'
  BY DEF SxInv, SxTypeOK, Tasks, TaskOK, Interrupt
<1>3. ModeOK'
  BY <1>2 DEF SxInv, SxTypeOK, Chips, Flags, Tasks, TaskOK, ModeOK, Listening, SaysRx, Interrupt
<1>4. (~hurt => ChipOK)'
  BY <1>2 DEF SxInv, SxTypeOK, Chips, Flags, Tasks, TaskOK, ModeOK, ChipOK, Listening,
     ReceiverUp, SenderUp, Hears, Interrupt
<1>5. QED BY <1>1, <1>2, <1>3, <1>4 DEF SxInv

LEMMA WindowPassesKeeps == SxInv /\ WindowPasses => SxInv'
<1> SUFFICES ASSUME SxInv, WindowPasses PROVE SxInv'
  OBVIOUS
<1>1. SxTypeOK'
  BY DEF SxInv, SxTypeOK, WindowPasses
<1>2. TaskOK'
  BY DEF SxInv, SxTypeOK, Tasks, TaskOK, WindowPasses
<1>3. ModeOK'
  BY <1>2 DEF SxInv, SxTypeOK, Chips, Flags, Tasks, TaskOK, ModeOK, Listening, SaysRx,
     WindowPasses
<1>4. (~hurt => ChipOK)'
  BY <1>2 DEF SxInv, SxTypeOK, Chips, Flags, Tasks, TaskOK, ModeOK, ChipOK, Listening,
     ReceiverUp, SenderUp, Hears, WindowPasses
<1>5. QED BY <1>1, <1>2, <1>3, <1>4 DEF SxInv

LEMMA ProceedKeeps == SxInv /\ Proceed => SxInv'
<1> SUFFICES ASSUME SxInv, Proceed PROVE SxInv'
  OBVIOUS
<1>1. SxTypeOK'
  <2>1. task' \in Tasks
    BY TaskUpdates DEF Proceed, Goes, SxInv, SxTypeOK, Places
  <2>2. QED BY <2>1 DEF Proceed, SxInv, SxTypeOK
<1>2. TaskOK'
  BY DEF SxInv, SxTypeOK, Tasks, TaskOK, Proceed, Goes, FsmStates
<1>3. ModeOK'
  BY <1>2 DEF SxInv, SxTypeOK, Chips, Flags, Tasks, TaskOK, ModeOK, Listening, SaysRx, Proceed,
     Goes
<1>4. (~hurt => ChipOK)'
  BY <1>2 DEF SxInv, SxTypeOK, Chips, Flags, Tasks, TaskOK, ModeOK, ChipOK, Listening,
     ReceiverUp, SenderUp, Hears, Proceed, Goes
<1>5. QED BY <1>1, <1>2, <1>3, <1>4 DEF SxInv

LEMMA StartTxKeeps == SxInv /\ StartTx => SxInv'
<1> SUFFICES ASSUME SxInv, StartTx PROVE SxInv'
  OBVIOUS
<1>a. PICK n \in 0 .. 5 :
        /\ ChipBecomes(Prepared(n)) /\ hurt' = (n < 5)
        /\ flags' = [flags EXCEPT !.mode = IF n = 5 THEN "TX" ELSE @,
                                  !.tx = @ /\ n < 3, !.fem = IF n = 5 THEN "TX" ELSE @]
        /\ task' = [task EXCEPT !.terminal = "None", !.inProgress = n = 5,
                                !.fsm = IF n = 5 THEN "WaitTxDone" ELSE "Recover",
                                !.pc = IF n = 5 THEN "poll" ELSE "recover"]
  <2>1. Working(5) \subseteq 0 .. 5
    BY DEF Working
  <2>2. QED BY <2>1, Zenon DEF StartTx
<1>b. task.pc = "take" /\ ~task.inProgress
  BY DEF StartTx
<1>c. task.fsm = "Idle" /\ task.seen = {}
  BY <1>b DEF SxInv, SxTypeOK, Tasks, FsmStates, TaskOK
<1>d. /\ task'.pc = (IF n = 5 THEN "poll" ELSE "recover")
      /\ task'.fsm = (IF n = 5 THEN "WaitTxDone" ELSE "Recover")
      /\ task'.seen = {}
  BY <1>a, <1>c DEF SxInv, SxTypeOK, Tasks
<1>e. task'.inProgress <=> n = 5
  BY <1>a DEF SxInv, SxTypeOK, Tasks
<1>f. /\ flags'.mode = (IF n = 5 THEN "TX" ELSE flags.mode)
      /\ flags'.fem = (IF n = 5 THEN "TX" ELSE flags.fem)
  BY <1>a DEF SxInv, SxTypeOK, Flags
<1>g. sx' = Prepared(n)
  BY <1>a DEF ChipBecomes
<1>1. SxTypeOK'
  <2>2. Prepared(n) \in Chips
    <3>1. /\ (IF n = 0 THEN sx.state ELSE IF n = 5 THEN "TX" ELSE "STBY") \in ChipStates
          /\ (IF n >= 3 THEN {} ELSE sx.irq) \in SUBSET Routes
          /\ (IF n >= 4 THEN "TX" ELSE sx.dio) \in Routes \cup {"none"}
          /\ (IF n >= 2 THEN "TX" ELSE sx.params) \in Routes \cup {"none"}
      BY DEF SxInv, SxTypeOK, Chips, ChipStates, Routes
    <3>2. (sx.unread /\ n < 3) \in BOOLEAN
      OBVIOUS
    <3>3. QED BY <3>1, <3>2, ChipType DEF Prepared
  <2>3. sx' \in Chips /\ edge' \in BOOLEAN
    BY <1>a, <2>2, Becomes DEF SxInv
  <2>4. flags' \in Flags
    <3>1. \A x \in Routes, y \in Routes, b \in BOOLEAN :
            [flags EXCEPT !.mode = x, !.tx = b, !.fem = y] \in Flags
      BY DEF SxInv, SxTypeOK, Flags
    <3>2. /\ (IF n = 5 THEN "TX" ELSE flags.mode) \in Routes
          /\ (IF n = 5 THEN "TX" ELSE flags.fem) \in Routes
          /\ (flags.tx /\ n < 3) \in BOOLEAN
      BY DEF SxInv, SxTypeOK, Flags, Routes
    <3>3. QED BY <1>a, <3>1, <3>2
  <2>5. task' \in Tasks
    <3>1. \A t \in Tasks, b \in BOOLEAN, fsm \in FsmStates, pc \in Places :
            [t EXCEPT !.terminal = "None", !.inProgress = b, !.fsm = fsm, !.pc = pc] \in Tasks
      BY DEF Tasks
    <3>2. /\ (n = 5) \in BOOLEAN
          /\ (IF n = 5 THEN "WaitTxDone" ELSE "Recover") \in FsmStates
          /\ (IF n = 5 THEN "poll" ELSE "recover") \in Places
      BY DEF FsmStates, Places
    <3>3. QED BY <1>a, <3>1, <3>2 DEF SxInv, SxTypeOK
  <2>6. hurt' \in BOOLEAN
    BY <1>a
  <2>7. QED BY <2>3, <2>4, <2>5, <2>6 DEF SxTypeOK
<1>2. TaskOK'
  BY <1>d, <1>e DEF TaskOK
<1>3. ModeOK'
  <2>1. CASE n = 5
    <3>1. sx'.state = "TX"
      BY <2>1, <1>g DEF Prepared, Chip
    <3>2. QED BY <2>1, <3>1, <1>d, <1>f DEF ModeOK, SaysRx, Listening
  <2>2. CASE n # 5
    <3>1. SaysRx(sx)' => SaysRx(sx)
      BY <2>2, <1>g DEF SaysRx, Prepared, Chip
    <3>2. QED BY <2>2, <3>1, <1>d, <1>f DEF SxInv, ModeOK, SaysRx, Listening
  <2>3. QED BY <2>1, <2>2
<1>4. (~hurt => ChipOK)'
  <2>1. CASE n = 5
    <3>1. sx'.state = "TX" /\ sx'.irq = {} /\ sx'.dio = "TX"
      BY <2>1, <1>g DEF Prepared, Chip
    <3>2. ~sx'.unread
      <4>1. ~(n < 3)
        BY <2>1
      <4>2. sx'.unread = (sx.unread /\ n < 3)
        BY <1>g, Zenon DEF Prepared, Chip
      <4>3. QED BY <4>1, <4>2, Zenon
    <3>3. QED BY <2>1, <3>1, <3>2, <1>d DEF ChipOK, SenderUp, Listening
  <2>2. CASE n # 5
    <3>1. n < 5
      BY <2>2
    <3>2. QED BY <3>1, <1>a, Zenon
  <2>3. QED BY <2>1, <2>2
<1>5. QED BY <1>1, <1>2, <1>3, <1>4 DEF SxInv

LEMMA TxDoneKeeps == SxInv /\ TxDone => SxInv'
<1> SUFFICES ASSUME SxInv, TxDone PROVE SxInv'
  OBVIOUS
<1>1. SxTypeOK'
  <2>1. PICK f : /\ ChipBecomes([sx EXCEPT !.irq = IF f = {} THEN {} ELSE @])
                  /\ hurt' = (hurt \/ f # {})
    BY DEF TxDone
  <2>2. (IF f = {} THEN {} ELSE sx.irq) \in SUBSET Routes
    BY DEF SxInv, SxTypeOK, Chips
  <2>3. [sx EXCEPT !.irq = IF f = {} THEN {} ELSE @] \in Chips
    BY <2>2, ChipUpdates DEF SxInv, SxTypeOK
  <2>4. sx' \in Chips /\ edge' \in BOOLEAN
    BY <2>1, <2>3, Becomes DEF SxInv
  <2>5. [flags EXCEPT !.tx = FALSE] \in Flags
    BY DEF SxInv, SxTypeOK, Flags
  <2>6. task' \in Tasks
    BY TaskUpdates DEF TxDone, SxInv, SxTypeOK, Places, FsmStates
  <2>7. QED BY <2>1, <2>4, <2>5, <2>6 DEF TxDone, SxTypeOK
<1>2. TaskOK'
  BY DEF SxInv, SxTypeOK, Tasks, TaskOK, TxDone, ChipBecomes
<1>3. ModeOK'
  BY <1>2 DEF SxInv, SxTypeOK, Chips, Flags, Tasks, TaskOK, ModeOK, Listening, SaysRx, TxDone,
     ChipBecomes
<1>4. (~hurt => ChipOK)'
  BY <1>2 DEF SxInv, SxTypeOK, Chips, Flags, Tasks, TaskOK, ModeOK, ChipOK, Listening,
     ReceiverUp, SenderUp, Hears, TxDone, ChipBecomes
<1>5. QED BY <1>1, <1>2, <1>3, <1>4 DEF SxInv

LEMMA TxPendingKeeps == SxInv /\ TxPending => SxInv'
<1> SUFFICES ASSUME SxInv, TxPending PROVE SxInv'
  OBVIOUS
<1>1. SxTypeOK'
  <2>1. task' \in Tasks
    BY TaskUpdates DEF TxPending, Goes, SxInv, SxTypeOK, Places
  <2>2. QED BY <2>1 DEF TxPending, SxInv, SxTypeOK
<1>2. TaskOK'
  BY DEF SxInv, SxTypeOK, Tasks, TaskOK, TxPending, Goes
<1>3. ModeOK'
  BY <1>2 DEF SxInv, SxTypeOK, Chips, Flags, Tasks, TaskOK, ModeOK, Listening, SaysRx,
     TxPending, Goes
<1>4. (~hurt => ChipOK)'
  BY <1>2 DEF SxInv, SxTypeOK, Chips, Flags, Tasks, TaskOK, ModeOK, ChipOK, Listening,
     ReceiverUp, SenderUp, Hears, TxPending, Goes
<1>5. QED BY <1>1, <1>2, <1>3, <1>4 DEF SxInv

LEMMA TxFailsKeeps == SxInv /\ TxFails => SxInv'
<1> SUFFICES ASSUME SxInv, TxFails PROVE SxInv'
  OBVIOUS
<1>1. SxTypeOK'
  <2>1. task' \in Tasks
    BY TaskUpdates DEF TxFails, Fails, SxInv, SxTypeOK, Places, FsmStates
  <2>2. hurt' \in BOOLEAN
    BY DEF TxFails, SxInv, SxTypeOK
  <2>3. QED BY <2>1, <2>2 DEF TxFails, SxInv, SxTypeOK
<1>2. TaskOK'
  BY DEF SxInv, SxTypeOK, Tasks, TaskOK, TxFails, Fails
<1>3. ModeOK'
  BY <1>2 DEF SxInv, SxTypeOK, Chips, Flags, Tasks, TaskOK, ModeOK, Listening, SaysRx, TxFails,
     Fails
<1>4. (~hurt => ChipOK)'
  BY <1>2 DEF SxInv, SxTypeOK, Chips, Flags, Tasks, TaskOK, ModeOK, ChipOK, Listening,
     ReceiverUp, SenderUp, Hears, TxFails, Fails
<1>5. QED BY <1>1, <1>2, <1>3, <1>4 DEF SxInv

LEMMA ReturnToRxKeeps == SxInv /\ ReturnToRx => SxInv'
<1> SUFFICES ASSUME SxInv, ReturnToRx PROVE SxInv'
  OBVIOUS
<1>a. PICK n \in 0 .. 3 :
        /\ ChipBecomes(Returned(n)) /\ hurt' = (hurt \/ n < 3)
        /\ flags' = [flags EXCEPT !.fem = "RX", !.mode = IF n = 3 THEN "RX" ELSE @]
        /\ IF n = 3 THEN task' = [task EXCEPT !.fsm = "WaitRxReady", !.pc = "drain"] ELSE Fails
  <2>1. Working(3) \subseteq 0 .. 3
    BY DEF Working
  <2>2. QED BY <2>1, Zenon DEF ReturnToRx
<1>b. task.pc = "return" /\ task.fsm = "ReturnToRx" /\ task.seen = {}
  BY DEF ReturnToRx, SxInv, SxTypeOK, Tasks, TaskOK
<1>c. /\ task'.pc = (IF n = 3 THEN "drain" ELSE "recover")
      /\ task'.fsm = (IF n = 3 THEN "WaitRxReady" ELSE "Recover")
      /\ task'.seen = {}
  BY <1>a, <1>b DEF Fails, SxInv, SxTypeOK, Tasks
<1>d. task'.inProgress = task.inProgress
  BY <1>a DEF Fails, SxInv, SxTypeOK, Tasks
<1>e. flags'.mode = (IF n = 3 THEN "RX" ELSE flags.mode) /\ flags'.fem = "RX"
  BY <1>a DEF SxInv, SxTypeOK, Flags
<1>f. /\ sx'.state = (IF n = 3 THEN "RX" ELSE sx.state)
      /\ sx'.dio = (IF n >= 2 THEN "RX" ELSE sx.dio)
      /\ sx'.params = (IF n >= 1 THEN "RX" ELSE sx.params)
      /\ sx'.irq = sx.irq
  BY <1>a DEF ChipBecomes, Returned, SxInv, SxTypeOK, Chips
<1>g. sx'.unread = sx.unread
  BY <1>a DEF ChipBecomes, Returned, SxInv, SxTypeOK, Chips
<1>1. SxTypeOK'
  <2>2. Returned(n) \in Chips
    <3>1. \A r \in Routes \cup {"none"}, d \in Routes \cup {"none"}, s \in ChipStates :
            [sx EXCEPT !.params = r, !.dio = d, !.state = s] \in Chips
      BY DEF SxInv, SxTypeOK, Chips
    <3>2. /\ (IF n >= 1 THEN "RX" ELSE sx.params) \in Routes \cup {"none"}
          /\ (IF n >= 2 THEN "RX" ELSE sx.dio) \in Routes \cup {"none"}
          /\ (IF n = 3 THEN "RX" ELSE sx.state) \in ChipStates
      BY DEF SxInv, SxTypeOK, Chips, Routes, ChipStates
    <3>3. QED BY <3>1, <3>2 DEF Returned
  <2>3. sx' \in Chips /\ edge' \in BOOLEAN
    BY <1>a, <2>2, Becomes DEF SxInv
  <2>4. flags' \in Flags
    <3>1. \A x \in Routes : [flags EXCEPT !.fem = "RX", !.mode = x] \in Flags
      BY DEF SxInv, SxTypeOK, Flags, Routes
    <3>2. (IF n = 3 THEN "RX" ELSE flags.mode) \in Routes
      BY DEF SxInv, SxTypeOK, Flags, Routes
    <3>3. QED BY <1>a, <3>1, <3>2
  <2>5. task' \in Tasks
    BY TaskUpdates DEF ReturnToRx, Fails, SxInv, SxTypeOK, Places, FsmStates
  <2>6. hurt' \in BOOLEAN
    BY <1>a
  <2>7. QED BY <2>3, <2>4, <2>5, <2>6 DEF SxTypeOK
<1>2. TaskOK'
  <2>1. task.inProgress
    BY <1>b DEF SxInv, TaskOK
  <2>2. QED BY <1>c, <1>d, <2>1 DEF TaskOK
<1>3. ModeOK'
  BY <1>b, <1>c, <1>e, <1>f DEF SxInv, ModeOK, SaysRx, Listening
<1>4. (~hurt => ChipOK)'
  <2>1. CASE n = 3 /\ ~hurt
    <3>1. sx.irq = {} /\ ~sx.unread
      BY <1>b, <2>1 DEF SxInv, ChipOK
    <3>2. QED BY <2>1, <3>1, <1>c, <1>f, <1>g DEF ChipOK, ReceiverUp, Listening, Hears
  <2>2. CASE n # 3 \/ hurt
    <3>1. hurt \/ n < 3
      BY <2>2
    <3>2. QED BY <3>1, <1>a, Zenon
  <2>3. QED BY <2>1, <2>2
<1>5. QED BY <1>1, <1>2, <1>3, <1>4 DEF SxInv

LEMMA RxReadyKeeps == SxInv /\ RxReady => SxInv'
<1> SUFFICES ASSUME SxInv, RxReady PROVE SxInv'
  OBVIOUS
<1>1. SxTypeOK'
  <2>1. \A t \in Tasks : [t EXCEPT !.fsm = "Idle", !.terminal = "Success", !.inProgress = FALSE,
                                   !.pc = "drain"] \in Tasks
    BY DEF Tasks, FsmStates, Places
  <2>2. task' \in Tasks
    BY <2>1 DEF RxReady, SxInv, SxTypeOK
  <2>3. QED BY <2>2 DEF RxReady, SxInv, SxTypeOK
<1>2. TaskOK'
  BY DEF SxInv, SxTypeOK, Tasks, TaskOK, RxReady
<1>3. ModeOK'
  BY <1>2 DEF SxInv, SxTypeOK, Chips, Flags, Tasks, TaskOK, ModeOK, Listening, SaysRx, RxReady
<1>4. (~hurt => ChipOK)'
  BY <1>2 DEF SxInv, SxTypeOK, Chips, Flags, Tasks, TaskOK, ModeOK, ChipOK, Listening,
     ReceiverUp, SenderUp, Hears, RxReady
<1>5. QED BY <1>1, <1>2, <1>3, <1>4 DEF SxInv

LEMMA RxPendingKeeps == SxInv /\ RxPending => SxInv'
<1> SUFFICES ASSUME SxInv, RxPending PROVE SxInv'
  OBVIOUS
<1>1. SxTypeOK'
  <2>1. task' \in Tasks
    BY TaskUpdates DEF RxPending, Goes, SxInv, SxTypeOK, Places
  <2>2. QED BY <2>1 DEF RxPending, SxInv, SxTypeOK
<1>2. TaskOK'
  BY DEF SxInv, SxTypeOK, Tasks, TaskOK, RxPending, Goes
<1>3. ModeOK'
  BY <1>2 DEF SxInv, SxTypeOK, Chips, Flags, Tasks, TaskOK, ModeOK, Listening, SaysRx,
     RxPending, Goes
<1>4. (~hurt => ChipOK)'
  BY <1>2 DEF SxInv, SxTypeOK, Chips, Flags, Tasks, TaskOK, ModeOK, ChipOK, Listening,
     ReceiverUp, SenderUp, Hears, RxPending, Goes
<1>5. QED BY <1>1, <1>2, <1>3, <1>4 DEF SxInv

LEMMA RxFailsKeeps == SxInv /\ RxFails => SxInv'
<1> SUFFICES ASSUME SxInv, RxFails PROVE SxInv'
  OBVIOUS
<1>1. SxTypeOK'
  <2>1. task' \in Tasks
    BY TaskUpdates DEF RxFails, Fails, SxInv, SxTypeOK, Places, FsmStates
  <2>2. hurt' \in BOOLEAN
    BY DEF RxFails, SxInv, SxTypeOK
  <2>3. QED BY <2>1, <2>2 DEF RxFails, SxInv, SxTypeOK
<1>2. TaskOK'
  BY DEF SxInv, SxTypeOK, Tasks, TaskOK, RxFails, Fails
<1>3. ModeOK'
  BY <1>2 DEF SxInv, SxTypeOK, Chips, Flags, Tasks, TaskOK, ModeOK, Listening, SaysRx, RxFails,
     Fails
<1>4. (~hurt => ChipOK)'
  BY <1>2 DEF SxInv, SxTypeOK, Chips, Flags, Tasks, TaskOK, ModeOK, ChipOK, Listening,
     ReceiverUp, SenderUp, Hears, RxFails, Fails
<1>5. QED BY <1>1, <1>2, <1>3, <1>4 DEF SxInv

LEMMA DrainRxKeeps == SxInv /\ DrainRx => SxInv'
<1> SUFFICES ASSUME SxInv, DrainRx PROVE SxInv'
  OBVIOUS
<1>1. SxTypeOK'
  <2>1. task' \in Tasks
    BY TaskUpdates DEF DrainRx, Goes, SxInv, SxTypeOK, Places
  <2>2. [flags EXCEPT !.rx = FALSE] \in Flags
    BY DEF SxInv, SxTypeOK, Flags
  <2>3. flags' \in Flags
    BY <2>2 DEF DrainRx, SxInv, SxTypeOK
  <2>4. QED BY <2>1, <2>3 DEF DrainRx, SxInv, SxTypeOK
<1>2. TaskOK'
  BY DEF SxInv, SxTypeOK, Tasks, TaskOK, DrainRx, Goes, FsmStates, ModeOK, Flags, Routes,
     Listening
<1>3. ModeOK'
  BY <1>2 DEF SxInv, SxTypeOK, Chips, Flags, Tasks, TaskOK, ModeOK, Listening, SaysRx, DrainRx,
     Goes
<1>4. (~hurt => ChipOK)'
  BY <1>2 DEF SxInv, SxTypeOK, Chips, Flags, Tasks, TaskOK, ModeOK, ChipOK, Listening,
     ReceiverUp, SenderUp, Hears, DrainRx, Goes
<1>5. QED BY <1>1, <1>2, <1>3, <1>4 DEF SxInv

LEMMA ReadIrqKeeps == SxInv /\ ReadIrq => SxInv'
<1> SUFFICES ASSUME SxInv, ReadIrq PROVE SxInv'
  OBVIOUS
<1>1. SxTypeOK'
  <2>1. PICK f : /\ task' = [task EXCEPT !.pc = "clear", !.seen = IF f = {} THEN sx.irq ELSE {}]
                  /\ hurt' = (hurt \/ f # {})
    BY DEF ReadIrq
  <2>2. (IF f = {} THEN sx.irq ELSE {}) \in SUBSET Routes /\ "clear" \in Places
    BY DEF SxInv, SxTypeOK, Chips, Places
  <2>3. task' \in Tasks
    BY <2>1, <2>2, TaskUpdates DEF SxInv, SxTypeOK
  <2>4. QED BY <2>1, <2>3 DEF ReadIrq, SxInv, SxTypeOK
<1>2. TaskOK'
  BY DEF SxInv, SxTypeOK, Tasks, TaskOK, ReadIrq
<1>3. ModeOK'
  BY <1>2 DEF SxInv, SxTypeOK, Chips, Flags, Tasks, TaskOK, ModeOK, Listening, SaysRx, ReadIrq
<1>4. (~hurt => ChipOK)'
  BY <1>2 DEF SxInv, SxTypeOK, Chips, Flags, Tasks, TaskOK, ModeOK, ChipOK, Listening,
     ReceiverUp, SenderUp, Hears, ReadIrq
<1>5. QED BY <1>1, <1>2, <1>3, <1>4 DEF SxInv

LEMMA ClearIrqKeeps == SxInv /\ ClearIrq => SxInv'
<1> SUFFICES ASSUME SxInv, ClearIrq PROVE SxInv'
  OBVIOUS
<1>1. SxTypeOK'
  <2>1. PICK f : ChipBecomes([sx EXCEPT !.irq = Cleared(f)]) /\ hurt' = (hurt \/ f # {})
    BY DEF ClearIrq
  <2>2. Cleared(f) \in SUBSET Routes
    BY DEF Cleared, SxInv, SxTypeOK, Chips
  <2>3. [sx EXCEPT !.irq = Cleared(f)] \in Chips
    BY <2>2, ChipUpdates DEF SxInv, SxTypeOK
  <2>4. sx' \in Chips /\ edge' \in BOOLEAN
    BY <2>1, <2>3, Becomes DEF SxInv
  <2>5. task' \in Tasks
    <3>1. {} \in SUBSET Routes
      OBVIOUS
    <3>2. QED BY <3>1, TaskUpdates DEF ClearIrq, SxInv, SxTypeOK, Places
  <2>6. QED BY <2>1, <2>4, <2>5 DEF ClearIrq, SxInv, SxTypeOK
<1>2. TaskOK'
  BY DEF SxInv, SxTypeOK, Tasks, TaskOK, ClearIrq, ChipBecomes, Cleared
<1>3. ModeOK'
  BY <1>2 DEF SxInv, SxTypeOK, Chips, Flags, Tasks, TaskOK, ModeOK, Listening, SaysRx, ClearIrq,
     ChipBecomes, Cleared
<1>4. (~hurt => ChipOK)'
  <2> SUFFICES ASSUME ~hurt' PROVE ChipOK'
    OBVIOUS
  <2>1. PICK f : ChipBecomes([sx EXCEPT !.irq = Cleared(f)]) /\ hurt' = (hurt \/ f # {})
    BY DEF ClearIrq
  <2>2. f = {} /\ ~hurt
    BY <2>1, Zenon
  <2>3. task.pc = "clear" /\ UNCHANGED flags
    BY DEF ClearIrq
  <2>4. /\ task'.pc = (IF "RX" \in task.seen THEN "buffer" ELSE "health")
        /\ task'.fsm = task.fsm /\ task'.seen = {}
    BY DEF ClearIrq, SxInv, SxTypeOK, Tasks
  <2>5. task.fsm \in {"Idle", "WaitRxReady"}
    BY <2>3 DEF SxInv, SxTypeOK, TaskOK, Tasks, FsmStates
  <2>6. ReceiverUp
    BY <2>2, <2>3, <2>5 DEF SxInv, ChipOK, Listening
  <2>7. /\ sx'.state = sx.state /\ sx'.dio = sx.dio /\ sx'.params = sx.params
        /\ sx'.irq = sx.irq \ task.seen
    BY <2>1, <2>2 DEF ChipBecomes, Cleared, SxInv, SxTypeOK, Chips
  <2>8. (sx'.unread => sx.unread) /\ (edge => edge')
    BY <2>1 DEF ChipBecomes, SxInv, SxTypeOK, Chips
  <2>9. ReceiverUp'
    BY <2>3, <2>4, <2>6, <2>7, <2>8 DEF ReceiverUp, Hears
  <2>10. QED BY <2>4, <2>5, <2>9 DEF ChipOK, Listening
<1>5. QED BY <1>1, <1>2, <1>3, <1>4 DEF SxInv

LEMMA ReadBufferKeeps == SxInv /\ ReadBuffer => SxInv'
<1> SUFFICES ASSUME SxInv, ReadBuffer PROVE SxInv'
  OBVIOUS
<1>1. SxTypeOK'
  <2>1. sx' \in Chips
    BY ChipUpdates DEF ReadBuffer, SxInv, SxTypeOK
  <2>2. task' \in Tasks
    BY TaskUpdates DEF ReadBuffer, Goes, SxInv, SxTypeOK, Places
  <2>3. hurt' \in BOOLEAN
    BY DEF ReadBuffer
  <2>4. QED BY <2>1, <2>2, <2>3 DEF ReadBuffer, SxInv, SxTypeOK
<1>2. TaskOK'
  BY DEF SxInv, SxTypeOK, Tasks, TaskOK, ReadBuffer, Goes
<1>3. ModeOK'
  BY <1>2 DEF SxInv, SxTypeOK, Chips, Flags, Tasks, TaskOK, ModeOK, Listening, SaysRx,
     ReadBuffer, Goes
<1>4. (~hurt => ChipOK)'
  BY <1>2 DEF SxInv, SxTypeOK, Chips, Flags, Tasks, TaskOK, ModeOK, ChipOK, Listening,
     ReceiverUp, SenderUp, Hears, ReadBuffer, Goes
<1>5. QED BY <1>1, <1>2, <1>3, <1>4 DEF SxInv

LEMMA HealthyKeeps == SxInv /\ Healthy => SxInv'
<1> SUFFICES ASSUME SxInv, Healthy PROVE SxInv'
  OBVIOUS
<1>1. SxTypeOK'
  <2>1. task' \in Tasks
    BY TaskUpdates DEF Healthy, Goes, SxInv, SxTypeOK, Places
  <2>2. QED BY <2>1 DEF Healthy, SxInv, SxTypeOK
<1>2. TaskOK'
  BY DEF SxInv, SxTypeOK, Tasks, TaskOK, Healthy, Goes
<1>3. ModeOK'
  BY <1>2 DEF SxInv, SxTypeOK, Chips, Flags, Tasks, TaskOK, ModeOK, Listening, SaysRx, Healthy,
     Goes
<1>4. (~hurt => ChipOK)'
  BY <1>2 DEF SxInv, SxTypeOK, Chips, Flags, Tasks, TaskOK, ModeOK, ChipOK, Listening,
     ReceiverUp, SenderUp, Hears, Healthy, Goes
<1>5. QED BY <1>1, <1>2, <1>3, <1>4 DEF SxInv

LEMMA FoundIllKeeps == SxInv /\ FoundIll => SxInv'
<1> SUFFICES ASSUME SxInv, FoundIll PROVE SxInv'
  OBVIOUS
<1>1. SxTypeOK'
  <2>1. task' \in Tasks
    BY TaskUpdates DEF FoundIll, Goes, SxInv, SxTypeOK, Places, FsmStates
  <2>2. hurt' \in BOOLEAN
    BY DEF FoundIll, SxInv, SxTypeOK
  <2>3. QED BY <2>1, <2>2 DEF FoundIll, SxInv, SxTypeOK
<1>2. TaskOK'
  BY DEF SxInv, SxTypeOK, Tasks, TaskOK, FoundIll, Goes, FsmStates
<1>3. ModeOK'
  BY <1>2 DEF SxInv, SxTypeOK, Chips, Flags, Tasks, TaskOK, ModeOK, Listening, SaysRx, FoundIll,
     Goes
<1>4. (~hurt => ChipOK)'
  BY <1>2 DEF SxInv, SxTypeOK, Chips, Flags, Tasks, TaskOK, ModeOK, ChipOK, Listening,
     ReceiverUp, SenderUp, Hears, FoundIll, Goes
<1>5. QED BY <1>1, <1>2, <1>3, <1>4 DEF SxInv

LEMMA RestoredType ==
  ASSUME SxTypeOK, NEW f
  PROVE  Restored(f) \in Chips
<1> DEFINE state == IF "standby" \in f THEN sx.state ELSE "STBY"
<1>1. /\ (IF "rx" \in f \/ state = "UNLOCKED" THEN state ELSE "RX") \in ChipStates
      /\ (IF "clear" \in f THEN sx.irq ELSE {}) \in SUBSET Routes
      /\ (IF "dio" \in f THEN sx.dio ELSE "RX") \in Routes \cup {"none"}
      /\ (IF "params" \in f THEN sx.params ELSE "RX") \in Routes \cup {"none"}
  BY DEF SxTypeOK, Chips, ChipStates, Routes
<1>2. (sx.unread /\ "clear" \in f) \in BOOLEAN
  OBVIOUS
<1>3. QED BY <1>1, <1>2, ChipType DEF Restored

(* A recovery all of whose transfers worked leaves a receiver.             *)
LEMMA RestoredFully ==
  ASSUME SxTypeOK
  PROVE  /\ Restored({}).state = "RX" /\ Restored({}).irq = {} /\ ~Restored({}).unread
         /\ Restored({}).dio = "RX" /\ Restored({}).params = "RX"
         /\ SeenInRx({})
<1>1. /\ Restored({}).state = "RX" /\ Restored({}).irq = {}
      /\ Restored({}).dio = "RX" /\ Restored({}).params = "RX"
  BY DEF Restored, Chip
<1>2. ~Restored({}).unread
  BY DEF Restored, Chip
<1>3. QED BY <1>1, <1>2 DEF SeenInRx, SaysRx

(* A chip that says RX was switched there, or it was there before.         *)
LEMMA RestoredMode ==
  ASSUME SxTypeOK, NEW f, SaysRx(Restored(f)), "rx" \in f
  PROVE  SaysRx(sx)
BY DEF Restored, SaysRx, Chip

LEMMA RecoverTxKeeps == SxInv /\ RecoverTx => SxInv'
<1> SUFFICES ASSUME SxInv, RecoverTx PROVE SxInv'
  OBVIOUS
<1>1. PICK f : /\ ChipBecomes(Restored(f))
               /\ flags' = FlagsAt(IF "rx" \notin f \/ SeenInRx(f) THEN "RX" ELSE flags.mode, "RX")
               /\ task' = [task EXCEPT !.pc = IF SeenInRx(f) THEN "drain" ELSE "escalate",
                                       !.fsm = "Idle", !.terminal = "Failed", !.inProgress = FALSE]
               /\ hurt' = (f # {})
  BY DEF RecoverTx
<1>2. task.pc = "recover" /\ task.fsm = "Recover" /\ task.seen = {}
  BY DEF RecoverTx, SxInv, SxTypeOK, TaskOK, Tasks
<1>3. sx' = Restored(f) /\ sx' \in Chips /\ edge' \in BOOLEAN
  BY <1>1, RestoredType, Becomes DEF SxInv
<1>4. /\ task'.pc = (IF SeenInRx(f) THEN "drain" ELSE "escalate")
      /\ task'.fsm = "Idle" /\ task'.seen = {}
  BY <1>1, <1>2 DEF SxInv, SxTypeOK, Tasks
<1>5. ~task'.inProgress
  BY <1>1 DEF SxInv, SxTypeOK, Tasks
<1>6. /\ flags'.mode = (IF "rx" \notin f \/ SeenInRx(f) THEN "RX" ELSE flags.mode)
      /\ flags'.fem = "RX"
  BY <1>1 DEF FlagsAt
<1>7. SxTypeOK'
  <2>1. flags' \in Flags
    <3>1. \A x \in Routes : FlagsAt(x, "RX") \in Flags
      BY DEF FlagsAt, Flags, Routes
    <3>2. (IF "rx" \notin f \/ SeenInRx(f) THEN "RX" ELSE flags.mode) \in Routes
      BY DEF SxInv, SxTypeOK, Flags, Routes
    <3>3. QED BY <1>1, <3>1, <3>2
  <2>2. task' \in Tasks
    <3>1. \A t \in Tasks, pc \in Places :
            [t EXCEPT !.pc = pc, !.fsm = "Idle", !.terminal = "Failed", !.inProgress = FALSE] \in Tasks
      BY DEF Tasks, FsmStates
    <3>2. (IF SeenInRx(f) THEN "drain" ELSE "escalate") \in Places
      BY DEF Places
    <3>3. QED BY <1>1, <3>1, <3>2 DEF SxInv, SxTypeOK
  <2>3. hurt' \in BOOLEAN
    BY <1>1
  <2>4. QED BY <1>3, <2>1, <2>2, <2>3 DEF SxTypeOK
<1>8. TaskOK'
  BY <1>4, <1>5 DEF TaskOK
<1>9. ModeOK'
  <2>1. SaysRx(sx)' => flags'.mode = "RX"
    <3>1. SaysRx(Restored(f)) /\ "rx" \in f => flags.mode = "RX"
      BY RestoredMode DEF SxInv, ModeOK
    <3>2. QED BY <1>3, <1>6, <3>1 DEF SaysRx
  <2>2. Listening' => SeenInRx(f)
    BY <1>4 DEF Listening
  <2>3. QED BY <2>1, <2>2, <1>4, <1>6 DEF ModeOK
<1>10. ASSUME ~hurt' PROVE ChipOK'
  <2>1. f = {}
    BY <1>1, <1>10, Zenon
  <2>2. /\ sx'.state = "RX" /\ sx'.irq = {} /\ ~sx'.unread /\ sx'.dio = "RX" /\ sx'.params = "RX"
        /\ SeenInRx(f)
    BY <2>1, <1>3, RestoredFully DEF SxInv
  <2>3. QED BY <2>2, <1>4 DEF ChipOK, ReceiverUp, Hears
<1>11. QED BY <1>7, <1>8, <1>9, <1>10 DEF SxInv

(* What recover() leaves, by itself or with a reset: the same for both     *)
(* places it is called from.                                               *)
LEMMA RecoveredKeeps ==
  ASSUME SxInv, Recover, sx' \in Chips, edge' \in BOOLEAN, flags' \in Flags, hurt' \in BOOLEAN,
         flags'.mode = "RX", flags'.fem = "RX",
         ~hurt' => sx'.state = "RX" /\ sx'.irq = {} /\ ~sx'.unread /\ sx'.dio = "RX"
                   /\ sx'.params = "RX"
  PROVE  SxInv'
<1>1. task.pc \in {"escalate", "heal"} /\ task.fsm = "Idle" /\ task.seen = {}
  BY DEF Recover, SxInv, TaskOK
<1>2. /\ task'.pc = (IF task.pc = "escalate" THEN "drain" ELSE "take")
      /\ task'.fsm = "Idle" /\ task'.seen = {}
  BY <1>1 DEF Recover, SxInv, SxTypeOK, Tasks
<1>3. ~task'.inProgress
  <2>1. task'.inProgress = task.inProgress
    BY DEF Recover, SxInv, SxTypeOK, Tasks
  <2>2. QED BY <2>1, <1>1 DEF SxInv, TaskOK
<1>4. task' \in Tasks
  BY TaskUpdates DEF Recover, SxInv, SxTypeOK, Places
<1>5. TaskOK'
  BY <1>2, <1>3 DEF TaskOK
<1>6. ModeOK'
  BY <1>2 DEF ModeOK
<1>7. ASSUME ~hurt' PROVE ChipOK'
  BY <1>2, <1>7 DEF ChipOK, ReceiverUp, Hears
<1>8. QED BY <1>4, <1>5, <1>6, <1>7 DEF SxInv, SxTypeOK

LEMMA RecoverKeeps == SxInv /\ Recover => SxInv'
<1> SUFFICES ASSUME SxInv, Recover PROVE SxInv'
  OBVIOUS
<1> USE DEF SxInv
<1>1. task.pc \in {"escalate", "heal"} /\ task.fsm = "Idle"
  BY DEF Recover, TaskOK
<1>2. CASE RecoverSoftly
  <2>1. PICK f : /\ SeenInRx(f) /\ ChipBecomes(Restored(f)) /\ hurt' = (f # {})
                 /\ flags' = FlagsAt(IF "rx" \in f THEN flags.mode ELSE "RX", flags.fem)
    BY <1>2 DEF RecoverSoftly
  <2>2. sx' = Restored(f) /\ sx' \in Chips /\ edge' \in BOOLEAN
    BY <2>1, RestoredType, Becomes
  <2>3. flags.fem = "RX"
    BY <1>1 DEF ModeOK, Listening
  <2>4. (IF "rx" \in f THEN flags.mode ELSE "RX") = "RX"
    BY <2>1, RestoredMode DEF SeenInRx, ModeOK
  <2>5. flags' = FlagsAt("RX", "RX")
    BY <2>1, <2>3, <2>4
  <2>6. flags' \in Flags /\ flags'.mode = "RX" /\ flags'.fem = "RX"
    BY <2>5 DEF FlagsAt, Flags, Routes
  <2>7. ASSUME ~hurt'
        PROVE  sx'.state = "RX" /\ sx'.irq = {} /\ ~sx'.unread /\ sx'.dio = "RX" /\ sx'.params = "RX"
    <3>1. f = {}
      BY <2>1, <2>7, Zenon
    <3>2. QED BY <3>1, <2>2, RestoredFully
  <2>8. hurt' \in BOOLEAN
    BY <2>1
  <2>9. QED BY <2>2, <2>6, <2>7, <2>8, RecoveredKeeps
<1>3. CASE RecoverByReset
  <2>1. PICK g \in SUBSET InitSteps : sx' = Reset(g) /\ hurt' = (g # {})
    BY <1>3 DEF RecoverByReset
  <2>2. UNCHANGED edge /\ flags' = FlagsAt("RX", "RX")
    BY <1>3 DEF RecoverByReset
  <2>3. Reset(g) \in Chips
    BY DEF Reset, Chip, Chips, ChipStates, Routes
  <2>4. flags' \in Flags /\ flags'.mode = "RX" /\ flags'.fem = "RX"
    BY <2>2 DEF FlagsAt, Flags, Routes
  <2>5. ASSUME ~hurt'
        PROVE  sx'.state = "RX" /\ sx'.irq = {} /\ ~sx'.unread /\ sx'.dio = "RX" /\ sx'.params = "RX"
    <3>1. g = {}
      BY <2>1, <2>5, Zenon
    <3>2. QED BY <3>1, <2>1 DEF Reset, Chip
  <2>6. hurt' \in BOOLEAN
    BY <2>1
  <2>7. QED BY <2>1, <2>2, <2>3, <2>4, <2>5, <2>6, RecoveredKeeps DEF SxTypeOK
<1>4. QED BY <1>2, <1>3 DEF Recover

----------------------------------------------------------------------------
(* The theorems.                                                           *)

(* The inductive invariant: its four parts say where the RF task can be,   *)
(* which mode the driver is in there, and what the chip is set to as long  *)
(* as every transfer worked, also in the middle of a transmission.         *)
THEOREM SxInvariant == Sx1262Spec => []SxInv
<1>1. Sx1262Init => SxInv
  <2> SUFFICES ASSUME Sx1262Init PROVE SxInv
    OBVIOUS
  <2>1. SxTypeOK
    BY DEF Sx1262Init, SxTypeOK, Chip, Chips, Flags, Tasks, Routes, ChipStates, Places, FsmStates
  <2>2. TaskOK
    BY DEF Sx1262Init, TaskOK
  <2>3. ModeOK
    BY DEF Sx1262Init, ModeOK, Listening
  <2>4. ChipOK
    BY DEF Sx1262Init, ChipOK, ReceiverUp, Hears, Chip
  <2>5. QED BY <2>1, <2>2, <2>3, <2>4 DEF SxInv
<1>2. SxInv /\ [Sx1262Next]_sxVars => SxInv'
  <2>1. SxInv /\ UNCHANGED sxVars => SxInv'
    BY DEF sxVars, SxInv, SxTypeOK, TaskOK, ModeOK, ChipOK, Listening, ReceiverUp, SenderUp, SaysRx,
           Hears
  <2>2. QED
    BY <2>1, PacketArrivesKeeps, PacketLeavesKeeps, ChipFaultsKeeps, InterruptKeeps,
       WindowPassesKeeps, ProceedKeeps, StartTxKeeps, TxDoneKeeps, TxPendingKeeps, TxFailsKeeps,
       ReturnToRxKeeps, RxReadyKeeps, RxPendingKeeps, RxFailsKeeps, RecoverTxKeeps, RecoverKeeps,
       DrainRxKeeps, ReadIrqKeeps, ClearIrqKeeps, ReadBufferKeeps, HealthyKeeps, FoundIllKeeps
       DEF Sx1262Next
<1>3. QED BY <1>1, <1>2, PTL DEF Sx1262Spec

(* Between transmissions the SX1262 listens: its mode, its amplifier and,  *)
(* unless a transfer failed, its packet format and its mask are those of   *)
(* reception, and no status bit is left that keeps the line from rising.   *)
THEOREM ReceiverHears == Sx1262Spec => []HearsAtRest
<1>1. SxInv => HearsAtRest
  BY DEF SxInv, ModeOK, ChipOK, Listening, ReceiverUp, HearsAtRest, AtRest
<1>2. QED BY <1>1, SxInvariant, PTL
=============================================================================
