----------------------------- MODULE Cc1101Proofs -----------------------------
(***************************************************************************)
(* Theorems about the CC1101 driver, for every size of the FIFO, every     *)
(* limit of the recovery and any number of packets, transmissions and      *)
(* faults: no received packet is stranded by an interrupt that was taken   *)
(* for something else, a success is reported for what left only, and the   *)
(* driver gives up only after as many faults as it allows resets.          *)
(***************************************************************************)
EXTENDS Cc1101, SequenceTheorems, TLAPS

FsmStates == {"Idle", "Prepare", "WaitTxStarted", "WaitTxDone", "ReturnToRx"}
Places == {"take", "sidle", "load", "proof", "poll", "return", "count", "restore",
           "drain", "read", "health"}

(* A number of events of each kind.                                        *)
Events == [packets : Nat, sends : Nat, faults : Nat, windows : Nat]

(* recoveries is a uint8_t; a reset counts only up.                        *)
WindowType == [recoveries : 0 .. 255, resets : Nat, old : BOOLEAN]

RadioTypeOK ==
  /\ chip \in Marc
  /\ receiving \in {"no", "head", "tail"}
  /\ rxFifo \in Seq({"whole", "part"})
  /\ txFifo \in BOOLEAN /\ irq \in BOOLEAN /\ aired \in BOOLEAN
  /\ mode \in {"RX", "TX"} /\ rxReady \in BOOLEAN /\ txDone \in BOOLEAN
  /\ pc \in Places /\ fsm \in FsmStates /\ terminal \in {"None", "Success", "Failed"}
  /\ inProgress \in BOOLEAN /\ failed \in BOOLEAN
  /\ window \in WindowType /\ events \in Events

(* Where the RF task can be in each state of the TX state machine.         *)
TaskOK ==
  /\ pc \in {"sidle", "load"} <=> fsm = "Prepare"
  /\ pc = "proof" <=> fsm = "WaitTxStarted"
  /\ pc = "poll" => fsm \in {"WaitTxDone", "ReturnToRx"}
  /\ pc \in {"return", "count", "restore"} => fsm = "ReturnToRx"
  /\ inProgress <=> fsm \in {"WaitTxDone", "ReturnToRx"}

(* The mode the handler chooses its flag by.  The RX FIFO is read with it  *)
(* set to RX, so the flush of an overflow found there ends no transmission.*)
ModeOK ==
  /\ mode = "TX" <=> fsm \in {"Prepare", "WaitTxStarted", "WaitTxDone"}
  /\ pc = "read" => mode = "RX"

(* What was received is not forgotten, between transmissions and once the  *)
(* bytes have been counted on the way back to RX.                          *)
HeardOK ==
  (fsm = "Idle" \/ pc = "restore") /\ HoldsPacket /\ chip # "WEDGED" =>
    rxReady \/ irq \/ pc = "read"

(* The TX FIFO is empty after a load only because its packet left.         *)
SentOK ==
  /\ fsm # "Idle" => terminal = "None"
  /\ fsm \in {"WaitTxStarted", "WaitTxDone"} => txFifo \/ aired
  /\ fsm = "ReturnToRx" => aired
  /\ terminal = "Success" => aired

(* Every reset of the window was the answer to a fault of its own.         *)
FaultsOK ==
  /\ window.resets <= events.faults
  /\ chip = "WEDGED" => window.resets + 1 <= events.faults
  /\ failed => events.faults >= RESETS_BEFORE_FAILED

RadioInv == RadioTypeOK /\ TaskOK /\ ModeOK /\ HeardOK /\ SentOK /\ FaultsOK

----------------------------------------------------------------------------
(* Lemmas: the parts the operations are made of.                           *)

(* Every event counted is one more of its kind.                            *)
LEMMA CountedType ==
  ASSUME events \in Events, NEW what \in {"packets", "sends", "faults", "windows"},
         NEW bound, Counted(what, bound)
  PROVE  /\ events' \in Events
         /\ events'.faults = IF what = "faults" THEN events.faults + 1 ELSE events.faults
BY DEF Counted, Events

(* A recovery counts in its window, which forgets its resets when it is old.*)
LEMMA WindowCounts ==
  ASSUME window \in WindowType
  PROVE  /\ Window \in WindowType /\ Window.resets <= window.resets
         /\ [Window EXCEPT !.resets = @ + 1] \in WindowType
         /\ [Window EXCEPT !.resets = @ + 1].resets = Window.resets + 1
<1>1. window.resets \in Nat /\ window.recoveries \in Nat /\ window.old \in BOOLEAN
  BY DEF WindowType
<1>2. ASSUME window.old
      PROVE  Window \in WindowType /\ Window.resets <= window.resets
  <2>1. Window = [recoveries |-> 1, resets |-> 0, old |-> FALSE]
    BY <1>2 DEF Window
  <2>2. [recoveries |-> 1, resets |-> 0, old |-> FALSE] \in WindowType
    BY DEF WindowType
  <2>3. Window.resets = 0
    BY <2>1
  <2>4. QED BY <1>1, <2>1, <2>2, <2>3
<1>3. ASSUME ~window.old
      PROVE  Window \in WindowType /\ Window.resets <= window.resets
  <2>1. Window = [window EXCEPT !.recoveries = (window.recoveries + 1) % 256]
    BY <1>3 DEF Window
  <2>2. (window.recoveries + 1) % 256 \in 0 .. 255
    BY <1>1
  <2>3. \A n \in 0 .. 255 : /\ [window EXCEPT !.recoveries = n] \in WindowType
                            /\ [window EXCEPT !.recoveries = n].resets = window.resets
    BY DEF WindowType
  <2>4. window.resets <= window.resets
    BY <1>1
  <2>5. QED BY <2>1, <2>2, <2>3, <2>4 DEF WindowType
<1>4. Window \in WindowType /\ Window.resets <= window.resets
  BY <1>2, <1>3
<1>5. Window.resets + 1 \in Nat
  BY <1>4 DEF WindowType
<1>6. QED BY <1>4, <1>5 DEF WindowType

(* Nothing is held by an empty FIFO, and what it holds is in it alone.     *)
LEMMA EmptyHolds ==
  /\ rxFifo' = <<>> => ~HoldsPacket'
  /\ rxFifo' = rxFifo => (HoldsPacket' <=> HoldsPacket)
BY DEF HoldsPacket

(* A chip that obeys ends a flush on its way to RX with both FIFOs empty,  *)
(* a wedged one is left as it was; the flags are down and the mode is RX.  *)
Flushed ==
  /\ mode' = "RX" /\ rxReady' = FALSE /\ txDone' = FALSE
  /\ aired' = aired
  /\ \/ /\ chip' = "TO_RX" /\ receiving' = "no" /\ rxFifo' = <<>> /\ txFifo' = FALSE
        /\ irq' \in BOOLEAN
     \/ /\ chip = "WEDGED"
        /\ UNCHANGED <<chip, receiving, rxFifo, txFifo, irq>>

LEMMA FlushIsFlushed ==
  ASSUME RadioTypeOK
  PROVE  /\ FlushAndRx => Flushed
         /\ Recover => Flushed
<1>1. (irq \/ receiving # "no") \in BOOLEAN
  OBVIOUS
<1>2. FlushAndRx => Flushed
  BY <1>1 DEF FlushAndRx, RouteToRx, Restarted, Obeys, Flushed
<1>3. Recover => Flushed
  BY <1>1, <1>2 DEF Recover, RouteToRx, Restarted, Flushed
<1>4. QED BY <1>2, <1>3

(* The recovery counters: a reset is made of a wedged chip only, and leaves*)
(* it in another state.                                                    *)
LEMMA RecoverCounts ==
  ASSUME RadioTypeOK, FaultsOK, Recover, UNCHANGED events
  PROVE  /\ window' \in WindowType /\ failed' \in BOOLEAN
         /\ FaultsOK'
<1> USE RadioAssumption
<1>0. /\ window \in WindowType /\ window.resets \in Nat
      /\ events.faults \in Nat /\ failed \in BOOLEAN
      /\ Window.resets \in Nat /\ RESETS_BEFORE_FAILED \in Nat
  BY WindowCounts DEF RadioTypeOK, WindowType, Events
<1>1. CASE FlushAndRx /\ window' = Window /\ UNCHANGED failed
  <2>1. chip' = "WEDGED" => chip = "WEDGED"
    BY <1>1, FlushIsFlushed DEF Flushed
  <2>2. QED BY <1>0, <1>1, <2>1, WindowCounts DEF FaultsOK
<1>2. CASE /\ ~Obeys /\ ResetDue /\ Restarted
           /\ window' = [Window EXCEPT !.resets = @ + 1]
           /\ failed' = (failed \/ GivesUp)
  <2>1. chip = "WEDGED" /\ chip' = "TO_RX"
    BY <1>2 DEF Obeys, Restarted
  <2>2. window'.resets = Window.resets + 1 /\ window' \in WindowType
    BY <1>2, WindowCounts, <1>0
  <2>3. Window.resets + 1 <= events.faults
    BY <1>0, <2>1, WindowCounts DEF FaultsOK
  <2>4. failed' \in BOOLEAN /\ (failed' => failed \/ GivesUp)
    BY <1>2
  <2>5. GivesUp => events.faults >= RESETS_BEFORE_FAILED
    BY <1>0, <2>3 DEF GivesUp
  <2>6. QED BY <1>0, <2>1, <2>2, <2>3, <2>4, <2>5 DEF FaultsOK
<1>3. QED BY <1>1, <1>2 DEF Recover

(* A failed transmission leaves the driver ready for the next one.         *)
LEMMA FailTxKeeps ==
  ASSUME RadioInv, FailTx
  PROVE  RadioInv'
<1> USE DEF RadioInv
<1>1. Flushed /\ pc' = "drain" /\ fsm' = "Idle" /\ terminal' = "Failed" /\ inProgress' = FALSE
      /\ Recover /\ UNCHANGED events
  BY FlushIsFlushed DEF FailTx
<1>2. window' \in WindowType /\ failed' \in BOOLEAN /\ FaultsOK'
  BY <1>1, RecoverCounts
<1>3. RadioTypeOK'
  <2>1. <<>> \in Seq({"whole", "part"})
    OBVIOUS
  <2>2. QED BY <1>1, <1>2, <2>1 DEF RadioTypeOK, Flushed, Marc, FsmStates, Places
<1>4. TaskOK' /\ ModeOK'
  BY <1>1 DEF TaskOK, ModeOK, Flushed
<1>5. HeardOK'
  BY <1>1, EmptyHolds DEF HeardOK, Flushed
<1>6. SentOK'
  BY <1>1 DEF SentOK
<1>7. QED BY <1>2, <1>3, <1>4, <1>5, <1>6

----------------------------------------------------------------------------
(* The invariant holds at first, and every step keeps it.                  *)

LEMMA RadioInit == Init => RadioInv
<1> SUFFICES ASSUME Init PROVE RadioInv
  OBVIOUS
<1>1. RadioTypeOK
  <2>1. <<>> \in Seq({"whole", "part"})
    OBVIOUS
  <2>2. window \in WindowType /\ events \in Events
    BY DEF Init, WindowType, Events
  <2>3. QED BY <2>1, <2>2 DEF Init, RadioTypeOK, Marc, Places, FsmStates
<1>2. TaskOK /\ ModeOK
  BY DEF Init, TaskOK, ModeOK
<1>3. HeardOK /\ SentOK
  BY DEF Init, HeardOK, SentOK, HoldsPacket
<1>4. FaultsOK
  BY RadioAssumption DEF Init, FaultsOK
<1>5. QED BY <1>1, <1>2, <1>3, <1>4 DEF RadioInv

LEMMA StutterKeeps ==
  ASSUME RadioInv, UNCHANGED vars
  PROVE  RadioInv'
BY DEF RadioInv, vars, chipVars, flags, recovery, RadioTypeOK, TaskOK, ModeOK, HeardOK, SentOK,
       FaultsOK, HoldsPacket

(* The chip, the clock and the handler.                                    *)
LEMMA SettleKeeps ==
  ASSUME RadioInv, Settle
  PROVE  RadioInv'
BY DEF Settle, RadioInv, flags, recovery, RadioTypeOK, TaskOK, ModeOK, HeardOK, SentOK,
       FaultsOK, HoldsPacket, Marc

LEMMA FinishTxKeeps ==
  ASSUME RadioInv, FinishTx
  PROVE  RadioInv'
BY DEF FinishTx, RadioInv, flags, recovery, RadioTypeOK, TaskOK, ModeOK, HeardOK, SentOK,
       FaultsOK, HoldsPacket, Marc

LEMMA PacketStartsKeeps ==
  ASSUME RadioInv, PacketStarts
  PROVE  RadioInv'
<1> USE DEF RadioInv
<1>1. events' \in Events /\ events'.faults = events.faults
  BY CountedType DEF PacketStarts, RadioTypeOK
<1>2. RadioTypeOK'
  BY <1>1 DEF PacketStarts, RadioTypeOK, flags, recovery
<1>3. QED
  BY <1>1, <1>2
  DEF PacketStarts, flags, recovery, TaskOK, ModeOK, HeardOK, SentOK, FaultsOK, HoldsPacket

LEMMA PacketEndsKeeps ==
  ASSUME RadioInv, PacketEnds
  PROVE  RadioInv'
<1> USE DEF RadioInv
<1>1. rxFifo' \in Seq({"whole", "part"}) /\ chip' \in Marc
  BY DEF PacketEnds, RadioTypeOK, Marc
<1>2. chip' # "WEDGED" /\ irq' = TRUE
  BY DEF PacketEnds
<1>3. RadioTypeOK'
  BY <1>1, <1>2 DEF PacketEnds, RadioTypeOK, flags, recovery
<1>4. TaskOK' /\ ModeOK' /\ SentOK' /\ FaultsOK'
  BY <1>2 DEF PacketEnds, flags, recovery, TaskOK, ModeOK, SentOK, FaultsOK
<1>5. HeardOK'
  BY <1>2 DEF HeardOK
<1>6. QED BY <1>3, <1>4, <1>5

LEMMA FaultKeeps ==
  ASSUME RadioInv, Fault
  PROVE  RadioInv'
<1> USE DEF RadioInv
<1>1. events' \in Events /\ events'.faults = events.faults + 1
  BY CountedType DEF Fault, RadioTypeOK
<1>2. RadioTypeOK'
  BY <1>1 DEF Fault, RadioTypeOK, flags, recovery, Marc
<1>3. TaskOK' /\ ModeOK' /\ SentOK'
  BY DEF Fault, flags, recovery, TaskOK, ModeOK, SentOK
<1>4. HeardOK'
  <2>1. chip # "WEDGED" /\ UNCHANGED <<rxFifo, rxReady, pc, fsm>>
    BY DEF Fault, flags
  <2>2. irq' = irq \/ irq' = TRUE
    BY DEF Fault
  <2>3. QED BY <2>1, <2>2, EmptyHolds DEF HeardOK
<1>5. FaultsOK'
  <2>1. events.faults \in Nat /\ window.resets \in Nat /\ RESETS_BEFORE_FAILED \in Nat
    BY RadioAssumption DEF RadioTypeOK, Events, WindowType
  <2>2. UNCHANGED <<window, failed>>
    BY DEF Fault, recovery
  <2>3. QED BY <1>1, <2>1, <2>2 DEF FaultsOK
<1>6. QED BY <1>2, <1>3, <1>4, <1>5

LEMMA WindowPassesKeeps ==
  ASSUME RadioInv, WindowPasses
  PROVE  RadioInv'
<1> USE DEF RadioInv
<1>1. events' \in Events /\ events'.faults = events.faults
  BY CountedType DEF WindowPasses, RadioTypeOK
<1>2. window' \in WindowType /\ window'.resets = window.resets
  BY DEF WindowPasses, RadioTypeOK, WindowType
<1>3. RadioTypeOK'
  BY <1>1, <1>2 DEF WindowPasses, RadioTypeOK, flags, chipVars
<1>4. QED
  BY <1>1, <1>2, <1>3
  DEF WindowPasses, flags, chipVars, TaskOK, ModeOK, HeardOK, SentOK, FaultsOK, HoldsPacket

LEMMA InterruptKeeps ==
  ASSUME RadioInv, Interrupt
  PROVE  RadioInv'
<1> USE DEF RadioInv
<1>1. RadioTypeOK'
  BY DEF Interrupt, RadioTypeOK, recovery
<1>2. TaskOK' /\ ModeOK' /\ SentOK' /\ FaultsOK'
  BY DEF Interrupt, recovery, TaskOK, ModeOK, SentOK, FaultsOK
<1>3. HeardOK'
  <2>1. fsm = "Idle" \/ pc = "restore" => mode # "TX"
    BY DEF TaskOK, ModeOK
  <2>2. (fsm' = "Idle" \/ pc' = "restore") => rxReady'
    BY <2>1 DEF Interrupt
  <2>3. QED BY <2>2 DEF HeardOK
<1>4. QED BY <1>1, <1>2, <1>3

----------------------------------------------------------------------------
(* The RF task: sending.                                                   *)

LEMMA ProceedKeeps ==
  ASSUME RadioInv, Proceed
  PROVE  RadioInv'
BY DEF Proceed, RadioInv, chipVars, flags, recovery, RadioTypeOK, TaskOK, ModeOK, HeardOK,
       SentOK, FaultsOK, HoldsPacket, Places, FsmStates

LEMMA StartKeeps ==
  ASSUME RadioInv, Start
  PROVE  RadioInv'
<1> USE DEF RadioInv
<1>1. events' \in Events /\ events'.faults = events.faults
  BY CountedType DEF Start, RadioTypeOK
<1>2. RadioTypeOK'
  BY <1>1 DEF Start, RadioTypeOK, recovery, Places, FsmStates
<1>3. TaskOK' /\ ModeOK' /\ HeardOK' /\ SentOK'
  BY DEF Start, TaskOK, ModeOK, HeardOK, SentOK
<1>4. FaultsOK'
  BY <1>1 DEF Start, recovery, FaultsOK
<1>5. QED BY <1>1, <1>2, <1>3, <1>4

LEMMA GoIdleKeeps ==
  ASSUME RadioInv, GoIdle
  PROVE  RadioInv'
<1> USE DEF RadioInv
<1>1. rxFifo' \in Seq({"whole", "part"})
  BY DEF GoIdle, CutShort, RadioTypeOK
<1>2. irq' \in BOOLEAN
  BY DEF GoIdle, RadioTypeOK
<1>3. RadioTypeOK'
  BY <1>1, <1>2 DEF GoIdle, RadioTypeOK, flags, recovery, Marc, Places
<1>4. TaskOK' /\ ModeOK' /\ HeardOK' /\ SentOK' /\ FaultsOK'
  BY DEF GoIdle, flags, recovery, TaskOK, ModeOK, HeardOK, SentOK, FaultsOK
<1>5. QED BY <1>3, <1>4

LEMMA LoadKeeps ==
  ASSUME RadioInv, Load
  PROVE  RadioInv'
<1> USE DEF RadioInv
<1>1. chip' \in Marc /\ (chip' = "WEDGED" <=> chip = "WEDGED")
  BY DEF Load, RadioTypeOK, Marc
<1>2. RadioTypeOK'
  BY <1>1 DEF Load, RadioTypeOK, recovery, Places, FsmStates
<1>3. TaskOK' /\ ModeOK' /\ HeardOK' /\ SentOK'
  BY DEF Load, TaskOK, ModeOK, HeardOK, SentOK
<1>4. FaultsOK'
  BY <1>1 DEF Load, recovery, FaultsOK
<1>5. QED BY <1>2, <1>3, <1>4

LEMMA TxStartedKeeps ==
  ASSUME RadioInv, TxStarted
  PROVE  RadioInv'
BY DEF TxStarted, RadioInv, chipVars, flags, recovery, RadioTypeOK, TaskOK, ModeOK, HeardOK,
       SentOK, FaultsOK, Places, FsmStates

----------------------------------------------------------------------------
(* The RF task: the end of a transmission and the way back to RX.          *)

(* The end is believed only with the TX FIFO empty: the packet has left.   *)
LEMMA PollDoneKeeps ==
  ASSUME RadioInv, PollDone
  PROVE  RadioInv'
<1> USE DEF RadioInv
<1>1. RadioTypeOK'
  BY DEF PollDone, RadioTypeOK, chipVars, recovery, Places, FsmStates
<1>2. TaskOK' /\ ModeOK' /\ HeardOK' /\ FaultsOK'
  BY DEF PollDone, chipVars, recovery, TaskOK, ModeOK, HeardOK, FaultsOK
<1>3. SentOK'
  BY DEF PollDone, Done, chipVars, SentOK
<1>4. QED BY <1>1, <1>2, <1>3

LEMMA PollPendingKeeps ==
  ASSUME RadioInv, PollPending
  PROVE  RadioInv'
BY DEF PollPending, RadioInv, chipVars, flags, recovery, RadioTypeOK, TaskOK, ModeOK, HeardOK,
       SentOK, FaultsOK, Places

LEMMA PollAgainKeeps ==
  ASSUME RadioInv, PollAgain
  PROVE  RadioInv'
BY DEF PollAgain, RadioInv, chipVars, flags, recovery, RadioTypeOK, TaskOK, ModeOK, HeardOK,
       SentOK, FaultsOK, Places

LEMMA ReturnPendingKeeps ==
  ASSUME RadioInv, ReturnPending
  PROVE  RadioInv'
BY DEF ReturnPending, RadioInv, flags, recovery, RadioTypeOK, TaskOK, ModeOK, HeardOK, SentOK,
       FaultsOK, Places, Marc

LEMMA ReturnSeesRxKeeps ==
  ASSUME RadioInv, ReturnSeesRx
  PROVE  RadioInv'
BY DEF ReturnSeesRx, RadioInv, chipVars, flags, recovery, RadioTypeOK, TaskOK, ModeOK, HeardOK,
       SentOK, FaultsOK, Places

(* Bytes in the FIFO raise the flag before the mode of the handler can     *)
(* have told the end of a transmission from a packet.                      *)
LEMMA CountBytesKeeps ==
  ASSUME RadioInv, CountBytes
  PROVE  RadioInv'
<1> USE DEF RadioInv
<1>1. /\ pc = "count" /\ pc' = "restore" /\ fsm = "ReturnToRx" /\ mode = "RX"
      /\ UNCHANGED <<fsm, terminal, inProgress, window, failed, events>>
  BY DEF CountBytes, recovery, TaskOK, ModeOK, RadioTypeOK
<1>2. CASE chip = "RXFIFO_OFLOW" /\ FlushAndRx
  <2>1. Flushed /\ chip' = "TO_RX" /\ rxFifo' = <<>> /\ receiving' = "no" /\ txFifo' = FALSE
        /\ irq' \in BOOLEAN
    BY <1>2, FlushIsFlushed DEF Flushed
  <2>2. RadioTypeOK'
    <3>1. <<>> \in Seq({"whole", "part"})
      OBVIOUS
    <3>2. QED BY <1>1, <2>1, <3>1 DEF Flushed, RadioTypeOK, Marc, Places
  <2>3. TaskOK' /\ ModeOK' /\ SentOK' /\ FaultsOK'
    BY <1>1, <2>1 DEF Flushed, TaskOK, ModeOK, SentOK, FaultsOK
  <2>4. HeardOK'
    BY <2>1, EmptyHolds DEF HeardOK
  <2>5. QED BY <2>2, <2>3, <2>4
<1>3. CASE /\ chip # "RXFIFO_OFLOW"
           /\ rxReady' = (rxReady \/ rxFifo # <<>> \/ receiving # "no")
           /\ UNCHANGED <<chipVars, mode, txDone>>
  <2>1. rxReady' \in BOOLEAN
    BY <1>3
  <2>2. RadioTypeOK'
    BY <1>1, <1>3, <2>1 DEF RadioTypeOK, chipVars, Places
  <2>3. TaskOK' /\ ModeOK' /\ SentOK' /\ FaultsOK'
    BY <1>1, <1>3 DEF chipVars, TaskOK, ModeOK, SentOK, FaultsOK
  <2>4. HoldsPacket' => rxFifo # <<>>
    BY <1>3 DEF chipVars, HoldsPacket
  <2>5. HoldsPacket' => rxReady'
    BY <1>3, <2>4
  <2>6. QED BY <2>2, <2>3, <2>5 DEF HeardOK
<1>4. QED BY <1>2, <1>3 DEF CountBytes

LEMMA ReturnedKeeps ==
  ASSUME RadioInv, Returned
  PROVE  RadioInv'
<1> USE DEF RadioInv
<1>1. RadioTypeOK'
  BY DEF Returned, RadioTypeOK, chipVars, recovery, Places, FsmStates
<1>2. TaskOK' /\ ModeOK' /\ SentOK' /\ FaultsOK'
  BY DEF Returned, chipVars, recovery, TaskOK, ModeOK, SentOK, FaultsOK
<1>3. HeardOK'
  BY EmptyHolds DEF Returned, chipVars, HeardOK
<1>4. QED BY <1>1, <1>2, <1>3

----------------------------------------------------------------------------
(* The RF task: reading and the health of the chip.                        *)

LEMMA DrainKeeps ==
  ASSUME RadioInv, Drain
  PROVE  RadioInv'
<1> USE DEF RadioInv
<1>1. RadioTypeOK'
  <2>1. rxReady' \in BOOLEAN /\ pc' \in Places
    BY DEF Drain, RadioTypeOK, Places
  <2>2. QED BY <2>1 DEF Drain, RadioTypeOK, chipVars, recovery
<1>2. TaskOK' /\ ModeOK' /\ SentOK' /\ FaultsOK'
  BY DEF Drain, HasData, chipVars, recovery, TaskOK, ModeOK, SentOK, FaultsOK
<1>3. HeardOK'
  BY EmptyHolds DEF Drain, chipVars, HeardOK, RadioTypeOK
<1>4. QED BY <1>1, <1>2, <1>3

(* What a flush between transmissions, or while the driver returns to RX,  *)
(* leaves of the invariant.                                                *)
LEMMA FlushKeeps ==
  ASSUME RadioInv, FlushAndRx, fsm \in {"Idle", "ReturnToRx"},
         pc \in {"read", "health"}, pc' \in {"health", "take"},
         UNCHANGED <<fsm, terminal, inProgress, window, failed, events>>
  PROVE  RadioInv'
<1> USE DEF RadioInv
<1>1. Flushed
  BY FlushIsFlushed
<1>2. RadioTypeOK'
  <2>1. <<>> \in Seq({"whole", "part"})
    OBVIOUS
  <2>2. QED BY <1>1, <2>1 DEF Flushed, RadioTypeOK, Marc, Places
<1>3. TaskOK' /\ ModeOK' /\ SentOK'
  BY <1>1 DEF Flushed, TaskOK, ModeOK, SentOK
<1>4. HeardOK'
  BY <1>1, EmptyHolds DEF Flushed, HeardOK
<1>5. FaultsOK'
  BY <1>1 DEF Flushed, FaultsOK
<1>6. QED BY <1>2, <1>3, <1>4, <1>5

LEMMA ReadFifoKeeps ==
  ASSUME RadioInv, ReadFifo
  PROVE  RadioInv'
<1>1. /\ pc = "read" /\ pc' = "health" /\ fsm \in {"Idle", "ReturnToRx"}
      /\ UNCHANGED <<fsm, terminal, inProgress, window, failed, events>>
  BY DEF RadioInv, ReadFifo, recovery, TaskOK, ModeOK, RadioTypeOK, FsmStates
<1>2. CASE FlushAndRx
  BY <1>1, <1>2, FlushKeeps
<1>3. CASE /\ rxFifo' = <<>>
           /\ receiving' = IF receiving = "head" THEN "tail" ELSE receiving
           /\ UNCHANGED <<chip, txFifo, irq, aired, flags>>
  <2> USE DEF RadioInv
  <2>1. <<>> \in Seq({"whole", "part"})
    OBVIOUS
  <2>2. receiving' \in {"no", "head", "tail"}
    BY <1>3 DEF RadioTypeOK
  <2>3. RadioTypeOK'
    BY <1>1, <1>3, <2>1, <2>2 DEF RadioTypeOK, flags, Places
  <2>4. TaskOK' /\ ModeOK' /\ SentOK' /\ FaultsOK'
    BY <1>1, <1>3 DEF flags, TaskOK, ModeOK, SentOK, FaultsOK
  <2>5. HeardOK'
    BY <1>3, EmptyHolds DEF HeardOK
  <2>6. QED BY <2>3, <2>4, <2>5
<1>4. QED BY <1>2, <1>3 DEF ReadFifo

LEMMA HealKeeps ==
  ASSUME RadioInv, Heal
  PROVE  RadioInv'
<1>1. /\ pc = "health" /\ pc' = "take" /\ fsm = "Idle"
      /\ UNCHANGED <<fsm, terminal, inProgress, window, failed, events>>
  BY DEF RadioInv, Heal, Unhealthy, recovery, TaskOK, RadioTypeOK, FsmStates
<1>2. CASE FlushAndRx
  BY <1>1, <1>2, FlushKeeps
<1>3. CASE chip = "IDLE" /\ RestartRx
  <2> USE DEF RadioInv
  <2>1. RadioTypeOK'
    BY <1>1, <1>3 DEF RestartRx, RadioTypeOK, flags, Marc, Places
  <2>2. TaskOK' /\ ModeOK' /\ SentOK' /\ FaultsOK'
    BY <1>1, <1>3 DEF RestartRx, flags, TaskOK, ModeOK, SentOK, FaultsOK
  <2>3. HeardOK'
    BY <1>1, <1>3, EmptyHolds DEF RestartRx, flags, HeardOK
  <2>4. QED BY <2>1, <2>2, <2>3
<1>4. QED BY <1>2, <1>3 DEF Heal

LEMMA SkipHealthKeeps ==
  ASSUME RadioInv, SkipHealth
  PROVE  RadioInv'
BY DEF SkipHealth, RadioInv, chipVars, flags, recovery, RadioTypeOK, TaskOK, ModeOK, HeardOK,
       SentOK, FaultsOK, HoldsPacket, Places

----------------------------------------------------------------------------
LEMMA RadioStep == RadioInv /\ [Next]_vars => RadioInv'
<1> SUFFICES ASSUME RadioInv, [Next]_vars PROVE RadioInv'
  OBVIOUS
<1>1. Chip => RadioInv'
  BY SettleKeeps, FinishTxKeeps, PacketStartsKeeps, PacketEndsKeeps, FaultKeeps DEF Chip
<1>2. WindowPasses => RadioInv'
  BY WindowPassesKeeps
<1>3. Interrupt => RadioInv'
  BY InterruptKeeps
<1>4. LoadAndTransmit => RadioInv'
  BY StartKeeps, GoIdleKeeps, FailTxKeeps, LoadKeeps, TxStartedKeeps
  DEF LoadAndTransmit, GoIdleFails, TxNotStarted
<1>5. PollTx => RadioInv'
  BY PollDoneKeeps, PollPendingKeeps, FailTxKeeps, PollAgainKeeps, ReturnPendingKeeps,
     ReturnSeesRxKeeps, CountBytesKeeps, ReturnedKeeps
  DEF PollTx, PollFails, ReturnFails
<1>6. RfTask => RadioInv'
  BY <1>4, <1>5, ProceedKeeps, DrainKeeps, ReadFifoKeeps, HealKeeps, SkipHealthKeeps
  DEF RfTask
<1>7. QED BY <1>1, <1>2, <1>3, <1>6, StutterKeeps DEF Next

(* The inductive invariant of the RF task, the driver, its interrupt and   *)
(* the chip: types, where the task can be, the handler's mode, what was    *)
(* received, what was sent, and the faults behind each reset.              *)
THEOREM RadioInvariant == Spec => []RadioInv
BY RadioInit, RadioStep, PTL DEF Spec

(* A packet in the FIFO is never forgotten between transmissions.          *)
THEOREM RadioNoPacketStranded == Spec => []NoPacketStranded
<1>1. RadioInv => NoPacketStranded
  BY DEF RadioInv, HeardOK, ModeOK, RadioTypeOK, NoPacketStranded
<1>2. QED BY <1>1, RadioInvariant, PTL

(* A transmission that is reported as successful has left the antenna.     *)
THEOREM RadioSuccessMeansSent == Spec => []SuccessMeansSent
<1>1. RadioInv => SuccessMeansSent
  BY DEF RadioInv, SentOK, SuccessMeansSent
<1>2. QED BY <1>1, RadioInvariant, PTL

(* The driver gives up only after RESETS_BEFORE_FAILED faults of the chip. *)
THEOREM RadioSurvivesFaults == Spec => []SurvivesFaults
<1>1. RadioInv => SurvivesFaults
  BY DEF RadioInv, FaultsOK, SurvivesFaults
<1>2. QED BY <1>1, RadioInvariant, PTL
=============================================================================
