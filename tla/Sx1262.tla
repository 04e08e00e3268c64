------------------------------- MODULE Sx1262 -------------------------------
(***************************************************************************)
(* The RF task of components/elero/elero.cpp with the SX1262 driver        *)
(* (sx1262_driver.cpp) and its TX state machine (sx1262_tx_fsm.cpp).       *)
(*                                                                         *)
(* The chip holds one packet and a status register; its interrupt line     *)
(* DIO1 is high while a status bit of the current mask is set, and only a  *)
(* rising edge calls the handler.  So a bit that is left set makes the     *)
(* receiver deaf: no edge comes any more.  Every transfer fails when BUSY  *)
(* does not fall within 20 ms; most of the results are ignored.            *)
(***************************************************************************)
EXTENDS Naturals, FiniteSets

CONSTANTS
  RESETS_BEFORE_FAILED,  \* resets in a window before the driver gives up
  MaxArrivals,           \* bound: packets that arrive over the air
  MaxSends,              \* bound: calls of load_and_transmit()
  MaxMishaps             \* bound: failed transfers and faults of the chip

ASSUME Sx1262Assumption ==
  /\ RESETS_BEFORE_FAILED \in 1 .. 255
  /\ {MaxArrivals, MaxSends, MaxMishaps} \subseteq Nat

VARIABLES
  sx,        \* the chip: [state, irq, dio, params, unread]; dio is the mask of
             \* DIO1, params the packet format, unread: the buffer holds a packet
             \* that the driver has neither read nor discarded
  edge,      \* a rising edge of DIO1 the handler has not seen yet
  flags,     \* [mode, rx, tx, fem]: mode_, rx_ready_, tx_done_ and the antenna
             \* amplifier, which is switched to "TX" or "RX" by a pin
  task,      \* [pc, fsm, terminal, inProgress, seen]: where the RF task is, its
             \* tx_fsm_.state_, tx_terminal_result_ and tx_in_progress, and the
             \* status bits that read_fifo() has read
  resets,    \* resets_in_window_
  windowOld, \* RECOVERY_WINDOW_MS has passed since the window began
  gaveUp,    \* failed_
  hurt,      \* history: a transfer failed or the chip left its state by itself,
             \* and no transmission was prepared or recovery made since then all
             \* of whose transfers worked
  happened   \* [arrivals, sends, mishaps]: how often (bounds)

sxVars == <<sx, edge, flags, task, resets, windowOld, gaveUp, hurt, happened>>

Chip(state, irq, dio, params, unread) ==
  [state |-> state, irq |-> irq, dio |-> dio, params |-> params, unread |-> unread]

(* "UNLOCKED" is RX with a critical device error, "DEAD" a chip whose BUSY *)
(* never falls until it is reset.                                          *)
Hears(c) == c.state = "RX"
SaysRx(c) == c.state \in {"RX", "UNLOCKED"}

Sx1262Init ==
  /\ sx = Chip("RX", {}, "RX", "RX", FALSE) /\ edge = FALSE
  /\ flags = [mode |-> "RX", rx |-> FALSE, tx |-> FALSE, fem |-> "RX"]
  /\ task = [pc |-> "take", fsm |-> "Idle", terminal |-> "None", inProgress |-> FALSE,
             seen |-> {}]
  /\ resets = 0 /\ windowOld = FALSE /\ gaveUp = FALSE /\ hurt = FALSE
  /\ happened = [arrivals |-> 0, sends |-> 0, mishaps |-> 0]

----------------------------------------------------------------------------
(* The chip, the interrupt handler and the transfers.                      *)

(* The status bits are "RX" and "TX" (done); the mask also chooses which   *)
(* of them are ever set.                                                   *)
Dio(c) == {c.dio}
Masked(c) == c.irq \cap Dio(c)

ChipBecomes(c) == sx' = c /\ edge' = (edge \/ (Masked(sx) = {} /\ Masked(c) # {}))

PacketArrives ==
  /\ Hears(sx) /\ happened.arrivals < MaxArrivals
  /\ happened' = [happened EXCEPT !.arrivals = @ + 1]
  /\ ChipBecomes([sx EXCEPT !.irq = @ \cup (Dio(sx) \cap {"RX"}), !.unread = sx.params = "RX"])
  /\ UNCHANGED <<flags, task, resets, windowOld, gaveUp, hurt>>

(* After a transmission the chip falls back to standby.                    *)
PacketLeaves ==
  /\ sx.state = "TX"
  /\ ChipBecomes([sx EXCEPT !.state = "STBY", !.irq = @ \cup (Dio(sx) \cap {"TX"})])
  /\ UNCHANGED <<flags, task, resets, windowOld, gaveUp, hurt, happened>>

Mishap == [happened EXCEPT !.mishaps = @ + 1]
Unharmed == MaxMishaps - happened.mishaps

ChipFaults ==
  /\ Unharmed > 0 /\ sx.state # "DEAD"
  /\ \E state \in {"STBY", "DEAD"} \cup {s \in {"UNLOCKED"} : Hears(sx)} :
       state # sx.state /\ ChipBecomes([sx EXCEPT !.state = state])
  /\ hurt' = TRUE /\ happened' = Mishap
  /\ UNCHANGED <<flags, task, resets, windowOld, gaveUp>>

Interrupt ==
  /\ edge /\ edge' = FALSE
  /\ flags' = IF flags.mode = "TX" THEN [flags EXCEPT !.tx = TRUE]
                                   ELSE [flags EXCEPT !.rx = TRUE]
  /\ UNCHANGED <<sx, task, resets, windowOld, gaveUp, hurt, happened>>

WindowPasses ==
  /\ resets > 0 /\ ~windowOld
  /\ windowOld' = TRUE
  /\ UNCHANGED <<sx, edge, flags, task, resets, gaveUp, hurt, happened>>

(* Which of the transfers "all" of an operation fail.                      *)
Failing(all) ==
  IF sx.state = "DEAD" THEN {all} ELSE {f \in SUBSET all : Cardinality(f) <= Unharmed}

Suffer(f) == happened' = IF sx.state = "DEAD" THEN happened
                         ELSE [happened EXCEPT !.mishaps = @ + Cardinality(f)]

(* An operation that ends at its first failure: how many of its "last"     *)
(* transfers work.                                                         *)
Working(last) ==
  IF sx.state = "DEAD" THEN {0} ELSE {n \in 0 .. last : n < last => Unharmed > 0}

Stops(n, last) ==
  happened' = IF n = last \/ sx.state = "DEAD" THEN happened ELSE Mishap

----------------------------------------------------------------------------
(* Recovery.                                                               *)

RecoverySteps == {"standby", "clear", "params", "dio", "rx", "status"}

(* Standby, clear the status, packet format, mask, receive: the results of *)
(* all of them are ignored, only the chip's state is read afterwards.      *)
Restored(f) ==
  LET state == IF "standby" \in f THEN sx.state ELSE "STBY"
  IN Chip(IF "rx" \in f \/ state = "UNLOCKED" THEN state ELSE "RX",
          IF "clear" \in f THEN sx.irq ELSE {},
          IF "dio" \in f THEN sx.dio ELSE "RX",
          IF "params" \in f THEN sx.params ELSE "RX",
          sx.unread /\ "clear" \in f)

SeenInRx(f) == "status" \notin f /\ SaysRx(Restored(f))

FlagsAt(mode, fem) == [mode |-> mode, rx |-> FALSE, tx |-> FALSE, fem |-> fem]

(* tx_recover_for_fsm() and HandleRecover(); recover() follows if the chip *)
(* is not seen in RX.                                                      *)
RecoverTx ==
  /\ task.pc = "recover"
  /\ \E f \in Failing(RecoverySteps) :
       /\ ChipBecomes(Restored(f))
       /\ flags' = FlagsAt(IF "rx" \notin f \/ SeenInRx(f) THEN "RX" ELSE flags.mode, "RX")
       /\ task' = [task EXCEPT !.pc = IF SeenInRx(f) THEN "drain" ELSE "escalate",
                               !.fsm = "Idle", !.terminal = "Failed", !.inProgress = FALSE]
       /\ hurt' = (f # {})
       /\ Suffer(f)
  /\ UNCHANGED <<resets, windowOld, gaveUp>>

Resets == IF windowOld THEN 0 ELSE resets

(* recover(): as above, without a look at the amplifier, and then a reset. *)
RecoverSoftly ==
  \E f \in Failing(RecoverySteps) :
    /\ SeenInRx(f)
    /\ ChipBecomes(Restored(f))
    /\ flags' = FlagsAt(IF "rx" \in f THEN flags.mode ELSE "RX", flags.fem)
    /\ hurt' = (f # {})
    /\ Suffer(f)
    /\ resets' = Resets
    /\ UNCHANGED gaveUp

(* The verification of the bus in init() gives up for good by itself; what *)
(* the other transfers of it fail to set has the value of the reset.       *)
InitSteps == {"verify", "params", "dio", "rx", "status"}

Reset(g) ==
  LET Set(step, value) == IF {"verify", step} \cap g = {} THEN value ELSE "none"
  IN Chip(IF {"verify", "rx"} \cap g = {} THEN "RX" ELSE "STBY", {}, Set("dio", "RX"),
          Set("params", "RX"), FALSE)

RecoverByReset ==
  \E f \in Failing(RecoverySteps), g \in SUBSET InitSteps :
    /\ ~SeenInRx(f)
    /\ Cardinality(g) + (IF sx.state = "DEAD" THEN 0 ELSE Cardinality(f)) <= Unharmed
    /\ sx' = Reset(g) /\ UNCHANGED edge
    /\ flags' = FlagsAt("RX", "RX")
    /\ hurt' = (g # {})
    /\ happened' = [happened EXCEPT !.mishaps = @ + Cardinality(g)
                       + (IF sx.state = "DEAD" THEN 0 ELSE Cardinality(f))]
    /\ resets' = Resets + 1
    /\ gaveUp' = (\/ gaveUp \/ "verify" \in g
                  \/ ({"rx", "status"} \cap g # {} /\ resets' >= RESETS_BEFORE_FAILED))

Recover ==
  /\ task.pc \in {"escalate", "heal"}
  /\ RecoverSoftly \/ RecoverByReset
  /\ windowOld' = FALSE
  /\ task' = [task EXCEPT !.pc = IF @ = "escalate" THEN "drain" ELSE "take"]

----------------------------------------------------------------------------
(* Transmission: load_and_transmit() and poll_tx().                        *)

Goes(pc) == task' = [task EXCEPT !.pc = pc]

(* A request is taken unless a transmission is in progress; with none the  *)
(* loop goes on.                                                           *)
Proceed ==
  /\ task.pc = "take" /\ ~gaveUp
  /\ Goes(IF task.inProgress THEN "poll" ELSE "drain")
  /\ UNCHANGED <<sx, edge, flags, resets, windowOld, gaveUp, hurt, happened>>

(* tx_prepare_for_fsm(): 1 standby, 2 power and packet format, 3 buffer    *)
(* and status, 4 mask, 5 transmit; it ends at the first that fails.        *)
Prepared(n) ==
  Chip(IF n = 0 THEN sx.state ELSE IF n = 5 THEN "TX" ELSE "STBY",
       IF n >= 3 THEN {} ELSE sx.irq,
       IF n >= 4 THEN "TX" ELSE sx.dio,
       IF n >= 2 THEN "TX" ELSE sx.params,
       sx.unread /\ n < 3)

StartTx ==
  /\ task.pc = "take" /\ ~gaveUp /\ ~task.inProgress
  /\ happened.sends < MaxSends
  /\ \E n \in Working(5) :
       /\ ChipBecomes(Prepared(n))
       /\ flags' = [flags EXCEPT !.mode = IF n = 5 THEN "TX" ELSE @,
                                 !.tx = @ /\ n < 3, !.fem = IF n = 5 THEN "TX" ELSE @]
       /\ task' = [task EXCEPT !.terminal = "None", !.inProgress = n = 5,
                               !.fsm = IF n = 5 THEN "WaitTxDone" ELSE "Recover",
                               !.pc = IF n = 5 THEN "poll" ELSE "recover"]
       /\ hurt' = (n < 5)
       /\ happened' = [happened EXCEPT !.sends = @ + 1,
                          !.mishaps = IF n = 5 \/ sx.state = "DEAD" THEN @ ELSE @ + 1]
  /\ UNCHANGED <<resets, windowOld, gaveUp>>

Fails == task' = [task EXCEPT !.fsm = "Recover", !.pc = "recover"]

(* tx_wait_done_for_fsm(): the bit decides, not the flag.                  *)
TxDone ==
  /\ task.pc = "poll" /\ task.fsm = "WaitTxDone" /\ "TX" \in sx.irq /\ sx.state # "DEAD"
  /\ \E f \in Failing({"clear"}) :
       /\ ChipBecomes([sx EXCEPT !.irq = IF f = {} THEN {} ELSE @])
       /\ hurt' = (hurt \/ f # {})
       /\ Suffer(f)
  /\ flags' = [flags EXCEPT !.tx = FALSE]
  /\ task' = [task EXCEPT !.fsm = "ReturnToRx", !.pc = "return"]
  /\ UNCHANGED <<resets, windowOld, gaveUp>>

TxPending ==
  /\ task.pc = "poll" /\ task.fsm = "WaitTxDone" /\ "TX" \notin sx.irq /\ sx.state # "DEAD"
  /\ Goes("drain")
  /\ UNCHANGED <<sx, edge, flags, resets, windowOld, gaveUp, hurt, happened>>

(* TX_TIMEOUT_MS has passed, or the status cannot be read.                 *)
TxFails ==
  /\ task.pc = "poll" /\ task.fsm = "WaitTxDone"
  /\ \/ "TX" \notin sx.irq /\ UNCHANGED <<hurt, happened>>
     \/ \E f \in Failing({"status"}) : f # {} /\ hurt' = TRUE /\ Suffer(f)
  /\ Fails
  /\ UNCHANGED <<sx, edge, flags, resets, windowOld, gaveUp>>

(* tx_return_to_rx_for_fsm(): 1 packet format, 2 mask, 3 receive.          *)
Returned(n) ==
  [sx EXCEPT !.params = IF n >= 1 THEN "RX" ELSE @, !.dio = IF n >= 2 THEN "RX" ELSE @,
             !.state = IF n = 3 THEN "RX" ELSE @]

ReturnToRx ==
  /\ task.pc = "return"
  /\ \E n \in Working(3) :
       /\ ChipBecomes(Returned(n))
       /\ flags' = [flags EXCEPT !.fem = "RX", !.mode = IF n = 3 THEN "RX" ELSE @]
       /\ IF n = 3 THEN task' = [task EXCEPT !.fsm = "WaitRxReady", !.pc = "drain"] ELSE Fails
       /\ hurt' = (hurt \/ n < 3)
       /\ Stops(n, 3)
  /\ UNCHANGED <<resets, windowOld, gaveUp>>

(* tx_wait_rx_ready_for_fsm()                                              *)
RxReady ==
  /\ task.pc = "poll" /\ task.fsm = "WaitRxReady" /\ SaysRx(sx)
  /\ task' = [task EXCEPT !.fsm = "Idle", !.terminal = "Success", !.inProgress = FALSE,
                          !.pc = "drain"]
  /\ UNCHANGED <<sx, edge, flags, resets, windowOld, gaveUp, hurt, happened>>

RxPending ==
  /\ task.pc = "poll" /\ task.fsm = "WaitRxReady"
  /\ Goes("drain")
  /\ UNCHANGED <<sx, edge, flags, resets, windowOld, gaveUp, hurt, happened>>

RxFails ==
  /\ task.pc = "poll" /\ task.fsm = "WaitRxReady"
  /\ \/ ~SaysRx(sx) /\ UNCHANGED <<hurt, happened>>
     \/ \E f \in Failing({"status"}) : f # {} /\ hurt' = TRUE /\ Suffer(f)
  /\ Fails
  /\ UNCHANGED <<sx, edge, flags, resets, windowOld, gaveUp>>

----------------------------------------------------------------------------
(* Reception and health.                                                   *)

(* has_data(); the flag is cleared before the status is read.              *)
DrainRx ==
  /\ task.pc = "drain"
  /\ IF flags.mode = "RX" /\ flags.rx
     THEN Goes("irq") /\ flags' = [flags EXCEPT !.rx = FALSE]
     ELSE Goes("health") /\ UNCHANGED flags
  /\ UNCHANGED <<sx, edge, resets, windowOld, gaveUp, hurt, happened>>

(* read_fifo(): status, clear what was read, buffer.  A status that cannot *)
(* be read is read as 0.                                                   *)
ReadIrq ==
  /\ task.pc = "irq"
  /\ \E f \in Failing({"status"}) :
       /\ task' = [task EXCEPT !.pc = "clear", !.seen = IF f = {} THEN sx.irq ELSE {}]
       /\ hurt' = (hurt \/ f # {})
       /\ Suffer(f)
  /\ UNCHANGED <<sx, edge, flags, resets, windowOld, gaveUp>>

ClearedAll(f) == IF f = {} THEN {} ELSE sx.irq                    \* mutant

Cleared(f) == IF f = {} THEN sx.irq \ task.seen ELSE sx.irq

ClearIrq ==
  /\ task.pc = "clear"
  /\ \E f \in Failing({"clear"}) :
       /\ ChipBecomes([sx EXCEPT !.irq = Cleared(f)])
       /\ hurt' = (hurt \/ f # {})
       /\ Suffer(f)
  /\ task' = [task EXCEPT !.pc = IF "RX" \in task.seen THEN "buffer" ELSE "health", !.seen = {}]
  /\ UNCHANGED <<flags, resets, windowOld, gaveUp>>

(* Without the buffer's status the packet is given up.                     *)
ReadBuffer ==
  /\ task.pc = "buffer"
  /\ \E f \in Failing({"buffer"}) :
       /\ sx' = [sx EXCEPT !.unread = FALSE]
       /\ hurt' = (hurt \/ f # {})
       /\ Suffer(f)
  /\ Goes("health")
  /\ UNCHANGED <<edge, flags, resets, windowOld, gaveUp>>

(* check_health() looks every five seconds, while nothing is transmitted,  *)
(* at the chip's state and its errors only.                                *)
Healthy ==
  /\ task.pc = "health"
  /\ Goes("take")
  /\ UNCHANGED <<sx, edge, flags, resets, windowOld, gaveUp, hurt, happened>>

FoundIll ==
  /\ task.pc = "health" /\ ~task.inProgress
  /\ \/ sx.state \in {"STBY", "UNLOCKED"} /\ UNCHANGED <<hurt, happened>>
     \/ \E f \in Failing({"status"}) : f # {} /\ hurt' = TRUE /\ Suffer(f)
  /\ Goes("heal")
  /\ UNCHANGED <<sx, edge, flags, resets, windowOld, gaveUp>>

----------------------------------------------------------------------------
Sx1262Next ==
  \/ PacketArrives \/ PacketLeaves \/ ChipFaults \/ Interrupt \/ WindowPasses
  \/ Proceed \/ StartTx \/ TxDone \/ TxPending \/ TxFails \/ ReturnToRx
  \/ RxReady \/ RxPending \/ RxFails \/ RecoverTx \/ Recover
  \/ DrainRx \/ ReadIrq \/ ClearIrq \/ ReadBuffer \/ Healthy \/ FoundIll

Sx1262Spec == Sx1262Init /\ [][Sx1262Next]_sxVars

----------------------------------------------------------------------------
(* Properties                                                              *)

AtRest == task.fsm = "Idle" /\ task.pc # "escalate" /\ ~gaveUp

(* Whatever the order of the chip's events, a late handler and the RF      *)
(* task: between transmissions the driver routes interrupts to reception   *)
(* and the amplifier is off.  And unless a transfer has failed since the   *)
(* last transmission or recovery, the receiver is up with its own packet   *)
(* format and mask, a status bit that would keep DIO1 high is being looked *)
(* at, and a packet in the buffer still has its bit set or is being read.  *)
HearsAtRest ==
  AtRest =>
    /\ flags.mode = "RX" /\ flags.fem = "RX"
    /\ ~hurt => /\ Hears(sx) /\ sx.params = "RX" /\ sx.dio = "RX"
                /\ "RX" \in sx.irq => edge \/ flags.rx \/ task.pc = "irq" \/ "RX" \in task.seen
                /\ sx.unread => "RX" \in sx.irq \/ task.pc = "buffer"
=============================================================================
