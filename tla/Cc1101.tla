------------------------------- MODULE Cc1101 -------------------------------
(***************************************************************************)
(* The RF task of components/elero/elero.cpp with the CC1101 driver        *)
(* (cc1101_driver.cpp) and its TX state machine (cc1101_tx_fsm.cpp),       *)
(* against the chip and the interrupt handler, which run by themselves.    *)
(*                                                                         *)
(* The chip has one interrupt line for "packet received" and "packet       *)
(* sent".  The handler sets rx_ready_ or tx_done_, chosen by the driver's  *)
(* mode_ at the time it runs, which can be later than the edge: "irq" is   *)
(* an edge that is not handled yet.  "pc" is where the RF task is in its   *)
(* loop; a step of it reads the chip once.                                 *)
(***************************************************************************)
EXTENDS Naturals, Sequences

CONSTANTS
  FIFO_PACKETS,            \* packets the RX FIFO holds before it overflows
  RECOVERIES_BEFORE_RESET, \* flushes in a window before a chip reset
  RESETS_BEFORE_FAILED,    \* resets in a window before the driver gives up
  MaxPackets,              \* bound: packets that arrive over the air
  MaxSends,                \* bound: calls of load_and_transmit()
  MaxFaults,               \* bound: faults of the chip
  MaxWindows               \* bound: RECOVERY_WINDOW_MS passing

ASSUME RadioAssumption ==
  /\ {FIFO_PACKETS, RECOVERIES_BEFORE_RESET, RESETS_BEFORE_FAILED} \subseteq Nat \ {0}
  /\ {MaxPackets, MaxSends, MaxFaults, MaxWindows} \subseteq Nat

VARIABLES
  chip,       \* MARCSTATE, see Marc
  receiving,  \* reception in progress: "no", "head" (all bytes of the packet
              \* so far are in the FIFO) or "tail" (the first ones were read)
  rxFifo,     \* what the RX FIFO holds: "whole" packets and "part"s of one
  txFifo,     \* TRUE: the TX FIFO holds bytes
  irq,        \* an edge of GDO0 the handler has not seen yet
  mode,       \* mode_
  rxReady,    \* rx_ready_
  txDone,     \* tx_done_
  pc,         \* the RF task's next step
  fsm,        \* tx_fsm_.state_ (Recover is entered and left in one step)
  terminal,   \* tx_terminal_result_
  inProgress, \* tx_in_progress
  window,     \* [recoveries, resets, old]: the counters of the recovery window,
              \* and whether RECOVERY_WINDOW_MS has passed since its start
  failed,     \* failed_
  aired,      \* history: the packet loaded last has been transmitted
  events      \* [packets, sends, faults, windows]: how often (bounds)

chipVars == <<chip, receiving, rxFifo, txFifo, irq, aired>>
flags == <<mode, rxReady, txDone>>
recovery == <<window, failed>>
vars == <<chipVars, flags, pc, fsm, terminal, inProgress, recovery, events>>

(* MARCSTATE: calibrating and turning around towards RX or TX are the      *)
(* transient states; "WEDGED" is any state that only a reset leaves.       *)
Marc == {"IDLE", "TO_RX", "RX", "RXFIFO_OFLOW", "TO_TX", "TX", "WEDGED"}

Init ==
  /\ chip = "RX" /\ receiving = "no" /\ rxFifo = <<>> /\ txFifo = FALSE
  /\ irq = FALSE /\ aired = FALSE
  /\ mode = "RX" /\ rxReady = FALSE /\ txDone = FALSE
  /\ pc = "take" /\ fsm = "Idle" /\ terminal = "None" /\ inProgress = FALSE
  /\ window = [recoveries |-> 0, resets |-> 0, old |-> FALSE]
  /\ failed = FALSE
  /\ events = [packets |-> 0, sends |-> 0, faults |-> 0, windows |-> 0]

----------------------------------------------------------------------------
(* The chip, the clock and the interrupt handler.                          *)

Counted(what, bound) ==
  /\ events[what] < bound
  /\ events' = [events EXCEPT ![what] = @ + 1]

Settle ==
  /\ \/ chip = "TO_RX" /\ chip' = "RX"
     \/ chip = "TO_TX" /\ chip' = "TX"
  /\ UNCHANGED <<receiving, rxFifo, txFifo, irq, aired, flags, pc, fsm, terminal,
                 inProgress, recovery, events>>

(* The chip goes from TX to RX by itself (TXOFF_MODE).                     *)
FinishTx ==
  /\ chip = "TX"
  /\ chip' = "TO_RX" /\ txFifo' = FALSE /\ aired' = TRUE /\ irq' = TRUE
  /\ UNCHANGED <<receiving, rxFifo, flags, pc, fsm, terminal, inProgress, recovery, events>>

PacketStarts ==
  /\ chip = "RX" /\ receiving = "no"
  /\ Counted("packets", MaxPackets)
  /\ receiving' = "head"
  /\ UNCHANGED <<chip, rxFifo, txFifo, irq, aired, flags, pc, fsm, terminal, inProgress,
                 recovery>>

PacketEnds ==
  /\ chip = "RX" /\ receiving # "no"
  /\ receiving' = "no"
  /\ irq' = TRUE
  /\ IF Len(rxFifo) < FIFO_PACKETS
     THEN /\ rxFifo' = Append(rxFifo, IF receiving = "head" THEN "whole" ELSE "part")
          /\ UNCHANGED chip
     ELSE /\ chip' = "RXFIFO_OFLOW"
          /\ UNCHANGED rxFifo
  /\ UNCHANGED <<txFifo, aired, flags, pc, fsm, terminal, inProgress, recovery, events>>

(* The chip drops out of what it was doing.                                *)
Fault ==
  /\ chip # "WEDGED"
  /\ Counted("faults", MaxFaults)
  /\ chip' \in {"IDLE", "WEDGED"}
  /\ chip' # chip
  /\ receiving' = "no"
  /\ irq' \in {irq, TRUE}
  /\ UNCHANGED <<rxFifo, txFifo, aired, flags, pc, fsm, terminal, inProgress, recovery>>

WindowPasses ==
  /\ Counted("windows", MaxWindows)
  /\ ~window.old
  /\ window' = [window EXCEPT !.old = TRUE]
  /\ UNCHANGED <<chipVars, flags, pc, fsm, terminal, inProgress, failed>>

Interrupt ==
  /\ irq
  /\ irq' = FALSE
  /\ IF mode = "TX" THEN txDone' = TRUE /\ UNCHANGED rxReady
                    ELSE rxReady' = TRUE /\ UNCHANGED txDone
  /\ UNCHANGED <<chip, receiving, rxFifo, txFifo, aired, mode, pc, fsm, terminal,
                 inProgress, recovery, events>>

----------------------------------------------------------------------------
(* Parts of the driver's operations.                                       *)

Obeys == chip # "WEDGED"

(* SIDLE cuts a reception short: what was received stays in the FIFO, and  *)
(* GDO0 falls.                                                             *)
CutShort == IF receiving = "no" THEN rxFifo ELSE Append(rxFifo, "part")

(* flush_and_rx(), or a reset with init_registers(): both FIFOs are empty  *)
(* and the chip is on its way to RX.  A wedged chip ignores the flush.     *)
Restarted ==
  /\ chip' = "TO_RX" /\ receiving' = "no" /\ rxFifo' = <<>> /\ txFifo' = FALSE
  /\ irq' = (irq \/ receiving # "no")

FlushAndRxInTxMode ==                                             \* mutant
  /\ rxReady' = FALSE /\ txDone' = FALSE /\ UNCHANGED mode
  /\ IF Obeys THEN Restarted ELSE UNCHANGED <<chip, receiving, rxFifo, txFifo, irq>>
  /\ UNCHANGED aired

RouteToRx == rxReady' = FALSE /\ txDone' = FALSE /\ mode' = "RX"

FlushAndRx ==
  /\ RouteToRx
  /\ IF Obeys THEN Restarted ELSE UNCHANGED <<chip, receiving, rxFifo, txFifo, irq>>
  /\ UNCHANGED aired

(* tx_recover_for_fsm(): flush, then reset, then failed.  The counters are *)
(* those of the current window; they are uint8_t.                          *)

Window ==
  IF window.old THEN [recoveries |-> 1, resets |-> 0, old |-> FALSE]
  ELSE [window EXCEPT !.recoveries = (@ + 1) % 256]

ResetDue == Window.recoveries >= RECOVERIES_BEFORE_RESET

GivesUpOnRecoveries ==                                            \* mutant
  Window.recoveries >= RESETS_BEFORE_FAILED

GivesUp == Window.resets + 1 >= RESETS_BEFORE_FAILED

Recover ==
  \/ /\ ~(~Obeys /\ ResetDue)
     /\ FlushAndRx
     /\ window' = Window
     /\ UNCHANGED failed
  \/ /\ ~Obeys /\ ResetDue
     /\ RouteToRx
     /\ Restarted
     /\ window' = [Window EXCEPT !.resets = @ + 1]
     /\ failed' = (failed \/ GivesUp)
     /\ UNCHANGED aired

(* HandleRecover() and the return to the hub, which posts the failure.     *)
FailTx ==
  /\ Recover
  /\ terminal' = "Failed"
  /\ fsm' = "Idle"
  /\ inProgress' = FALSE
  /\ pc' = "drain"
  /\ UNCHANGED events

----------------------------------------------------------------------------
(* The RF task.                                                            *)

(* Nothing to take, or a transmission is in progress.                      *)
Proceed ==
  /\ pc = "take" /\ ~failed
  /\ pc' = IF inProgress THEN "poll" ELSE "drain"
  /\ UNCHANGED <<chipVars, flags, fsm, terminal, inProgress, recovery, events>>

(* load_and_transmit(): Start(), then HandlePrepare() in two steps, with   *)
(* the wait for IDLE between them, and HandleWaitTxStarted().              *)
Start ==
  /\ pc = "take" /\ ~failed /\ ~inProgress
  /\ Counted("sends", MaxSends)
  /\ mode' = "TX" /\ terminal' = "None" /\ fsm' = "Prepare"
  /\ aired' = FALSE
  /\ pc' = "sidle"
  /\ UNCHANGED <<chip, receiving, rxFifo, txFifo, irq, rxReady, txDone, inProgress, recovery>>

(* Only SFRX leaves the overflow state, so SIDLE fails in it.              *)
GoIdle ==
  /\ pc = "sidle" /\ chip \notin {"WEDGED", "RXFIFO_OFLOW"}
  /\ chip' = "IDLE" /\ receiving' = "no" /\ rxFifo' = CutShort
  /\ irq' = (irq \/ receiving # "no")
  /\ pc' = "load"
  /\ UNCHANGED <<txFifo, aired, flags, fsm, terminal, inProgress, recovery, events>>

GoIdleFails ==
  /\ pc = "sidle" /\ chip \in {"WEDGED", "RXFIFO_OFLOW"}
  /\ FailTx

Load ==
  /\ pc = "load"
  /\ txFifo' = TRUE
  /\ txDone' = FALSE
  /\ chip' = IF chip = "IDLE" THEN "TO_TX" ELSE chip
  /\ fsm' = "WaitTxStarted"
  /\ pc' = "proof"
  /\ UNCHANGED <<receiving, rxFifo, irq, aired, mode, rxReady, terminal, inProgress,
                 recovery, events>>

(* Up to 20 reads of MARCSTATE; only TX counts.                            *)
TxStarted ==
  /\ pc = "proof" /\ chip = "TX"
  /\ fsm' = "WaitTxDone" /\ inProgress' = TRUE
  /\ pc' = "poll"
  /\ UNCHANGED <<chipVars, flags, terminal, recovery, events>>

TxNotStarted ==
  /\ pc = "proof" /\ chip # "TX"
  /\ FailTx

(* poll_tx() in WaitTxDone: tx_check_done_result_().                       *)
DoneUnchecked == txDone \/ chip \in {"IDLE", "RX"}                \* mutant

Done == ~txFifo /\ (txDone \/ chip \in {"IDLE", "RX"})

PollDone ==
  /\ pc = "poll" /\ fsm = "WaitTxDone" /\ Done
  /\ mode' = "RX"
  /\ fsm' = "ReturnToRx"
  /\ pc' = "return"
  /\ UNCHANGED <<chipVars, rxReady, txDone, terminal, inProgress, recovery, events>>

PollPending ==
  /\ pc = "poll" /\ fsm = "WaitTxDone" /\ ~Done /\ ~txDone
  /\ pc' = "drain"
  /\ UNCHANGED <<chipVars, flags, fsm, terminal, inProgress, recovery, events>>

(* The interrupt came with bytes left, or TX_DONE_TIMEOUT_MS has passed.   *)
PollFailsWithoutTimeout ==                                        \* mutant
  /\ pc = "poll" /\ fsm = "WaitTxDone" /\ ~Done /\ txDone
  /\ FailTx

PollFails ==
  /\ pc = "poll" /\ fsm = "WaitTxDone" /\ ~Done
  /\ FailTx

PollAgain ==
  /\ pc = "poll" /\ fsm = "ReturnToRx"
  /\ pc' = "return"
  /\ UNCHANGED <<chipVars, flags, fsm, terminal, inProgress, recovery, events>>

(* tx_return_to_rx_for_fsm(): MARCSTATE, the RX FIFO, MARCSTATE again.     *)
ReturnPending ==
  /\ \/ pc = "return" /\ chip \in {"IDLE", "TO_RX"}
     \/ pc = "restore" /\ chip = "TO_RX"
  /\ chip' = "TO_RX"
  /\ pc' = "drain"
  /\ UNCHANGED <<receiving, rxFifo, txFifo, irq, aired, flags, fsm, terminal, inProgress,
                 recovery, events>>

ReturnSeesRx ==
  /\ pc = "return" /\ chip = "RX"
  /\ pc' = "count"
  /\ UNCHANGED <<chipVars, flags, fsm, terminal, inProgress, recovery, events>>

(* Bytes in the RX FIFO raise the flag: their interrupt may have been      *)
(* taken for the end of the transmission.                                  *)
CountedBytesLost ==                                               \* mutant
  /\ pc = "count"
  /\ pc' = "restore"
  /\ \/ chip = "RXFIFO_OFLOW" /\ FlushAndRx
     \/ chip # "RXFIFO_OFLOW" /\ UNCHANGED <<chipVars, flags>>
  /\ UNCHANGED <<fsm, terminal, inProgress, recovery, events>>

CountBytes ==
  /\ pc = "count"
  /\ pc' = "restore"
  /\ \/ chip = "RXFIFO_OFLOW" /\ FlushAndRx
     \/ /\ chip # "RXFIFO_OFLOW"
        /\ rxReady' = (rxReady \/ rxFifo # <<>> \/ receiving # "no")
        /\ UNCHANGED <<chipVars, mode, txDone>>
  /\ UNCHANGED <<fsm, terminal, inProgress, recovery, events>>

(* Any other state, or RX_READY_TIMEOUT_MS has passed.                     *)
ReturnFails ==
  /\ pc \in {"return", "restore"} /\ chip # "RX"
  /\ FailTx

Returned ==
  /\ pc = "restore" /\ chip = "RX"
  /\ mode' = "RX"
  /\ terminal' = "Success" /\ fsm' = "Idle" /\ inProgress' = FALSE
  /\ pc' = "drain"
  /\ UNCHANGED <<chipVars, rxReady, txDone, recovery, events>>

(* has_data(), and the flag is cleared before the FIFO is read.            *)
HasData == mode = "RX" /\ rxReady

Drain ==
  /\ pc = "drain"
  /\ \/ HasData /\ rxReady' = FALSE /\ pc' = "read"
     \/ ~HasData /\ pc' = "health" /\ UNCHANGED rxReady
  /\ UNCHANGED <<chipVars, mode, txDone, fsm, terminal, inProgress, recovery, events>>

ReadFifo ==
  /\ pc = "read"
  /\ pc' = "health"
  /\ \/ chip = "RXFIFO_OFLOW" /\ FlushAndRx
     \/ /\ chip # "RXFIFO_OFLOW"
        /\ rxFifo' = <<>>
        /\ receiving' = IF receiving = "head" THEN "tail" ELSE receiving
        /\ UNCHANGED <<chip, txFifo, irq, aired, flags>>
  /\ UNCHANGED <<fsm, terminal, inProgress, recovery, events>>

(* check_health(), which looks at the chip every five seconds, and         *)
(* recover().                                                              *)
UnhealthyButIdle == ~inProgress /\ chip \in {"RXFIFO_OFLOW", "WEDGED"}   \* mutant

Unhealthy == ~inProgress /\ chip \in {"IDLE", "RXFIFO_OFLOW", "WEDGED"}

RestartRx ==
  /\ chip' = "TO_RX"
  /\ UNCHANGED <<receiving, rxFifo, txFifo, irq, aired, flags>>

Heal ==
  /\ pc = "health" /\ Unhealthy
  /\ pc' = "take"
  /\ (chip = "IDLE" /\ RestartRx) \/ (chip # "IDLE" /\ FlushAndRx)
  /\ UNCHANGED <<fsm, terminal, inProgress, recovery, events>>

SkipHealth ==
  /\ pc = "health"
  /\ pc' = "take"
  /\ UNCHANGED <<chipVars, flags, fsm, terminal, inProgress, recovery, events>>

----------------------------------------------------------------------------
Chip == Settle \/ FinishTx \/ PacketStarts \/ PacketEnds \/ Fault

LoadAndTransmit ==
  Start \/ GoIdle \/ GoIdleFails \/ Load \/ TxStarted \/ TxNotStarted

PollTx ==
  \/ PollDone \/ PollPending \/ PollFails \/ PollAgain
  \/ ReturnPending \/ ReturnSeesRx \/ CountBytes \/ ReturnFails \/ Returned

RfTask == Proceed \/ LoadAndTransmit \/ PollTx \/ Drain \/ ReadFifo \/ Heal \/ SkipHealth

Next == Chip \/ WindowPasses \/ Interrupt \/ RfTask

Spec == Init /\ [][Next]_vars

(* The RF task loops for ever, a millisecond at a time; its timeouts and   *)
(* its five-second check come when what they wait for does not, and a      *)
(* pending interrupt is served.                                            *)
Fairness ==
  /\ WF_vars(RfTask)
  /\ WF_vars(Interrupt)
  /\ SF_vars(PollFails)
  /\ SF_vars(ReturnFails)
  /\ SF_vars(Heal)

FairSpec == Spec /\ Fairness

----------------------------------------------------------------------------
(* Properties                                                              *)

HoldsPacket == \E k \in DOMAIN rxFifo : rxFifo[k] = "whole"

(* Whatever the interleaving of the chip, a late interrupt handler and the *)
(* RF task: when no transmission is in progress, a packet in the FIFO has  *)
(* its flag set, or is being read, or its interrupt is still to come, and  *)
(* the mode lets the RF task see the flag.  A wedged chip ignores the      *)
(* flush that clears the flags, so what its FIFO holds waits for a reset.  *)
NoPacketStranded ==
  (fsm = "Idle" /\ HoldsPacket /\ chip # "WEDGED") =>
    mode = "RX" /\ (rxReady \/ irq \/ pc = "read")

(* A transmission is reported as successful only if the packet left.       *)
SuccessMeansSent == terminal = "Success" => aired

(* One wedge of the chip is survived, and so is any number below           *)
(* RESETS_BEFORE_FAILED: the driver gives up only when the chip wedges     *)
(* again after each of its resets.                                         *)
SurvivesFaults == failed => events.faults >= RESETS_BEFORE_FAILED

(* A packet in the FIFO is read or flushed in the end, however many        *)
(* transmissions compete with the reading, unless the driver has failed or *)
(* the chip is wedged.                                                     *)
PacketsDrained == HoldsPacket ~> (~HoldsPacket \/ failed \/ chip = "WEDGED")

(* A transmission ends.                                                    *)
TxEnds == inProgress ~> ~inProgress

(* A chip that fell to IDLE or whose RX FIFO overflowed is brought out of  *)
(* it, unless the driver has failed.                                       *)
DeafnessEnds ==
  chip \in {"IDLE", "RXFIFO_OFLOW"} ~> (chip \notin {"IDLE", "RXFIFO_OFLOW"} \/ failed)
=============================================================================
