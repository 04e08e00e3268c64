# A TLA+ model of esphome-elero

esphome-elero turns an ESP32 with an 868 MHz transceiver into a gateway for
Elero blinds and lights. This directory holds TLA+ modules that model its
control logic, TLC configurations that check them on small instances, and
proofs of their most important properties for TLAPS.

## 1. Inventory

Paths are relative to `src/components/` unless they say otherwise.

| part | source | state it keeps | operations |
|---|---|---|---|
| command sender | `elero/command_sender.h` | command queue, IDLE/WAIT_DELAY/TX_PENDING, deadline, packets sent, retries, rolling counter, group destinations, `cancelled_` | `enqueue`, `clear_queue`, `process_queue`, `on_tx_complete` |
| hub and RF task | `elero/elero.{h,cpp}`, `elero/tx_client.h` | FreeRTOS queues tx (8), tx_done (8), rx (32); the RF task's `tx_owner`/`tx_in_progress`; the ISR flags | `request_tx`, `loop`, `rf_task_func_`, `interrupt`, `reinit_frequency` |
| radio drivers | `elero/{cc1101,sx1262,sx1276}_{driver,tx_fsm}.*`, `elero/radio_driver.h` | mode, TX state machine, IRQ flag, fault counters, `failed` | `load_and_transmit`, `poll_tx`, `abort_tx`, `has_data`, `read_fifo`, `check_health`, `recover` |
| packet codec | `elero/elero_packet.*`, `elero/elero_protocol.h`, `elero/cc1101_compat.h` | none | build and parse packets, encryption, CC1101 framing |
| cover and light state machines | `elero/cover_sm.*`, `elero/light_sm.*` | the variant states and their start times | `on_command`, `on_rf_status`, `on_tick`, `position`, `brightness`, ... |
| poll timer | `elero/poll_timer.h` | last poll, awaiting-response flag | `should_poll`, `on_poll_sent`, `on_command_sent`, `on_rf_received` |
| device registry | `elero/device_registry.*`, `elero/device.h`, `elero/nvs_config.h` | device slots, hub config, groups, published snapshots, NVS records | upsert/remove, commands, group commands, `on_rf_packet`, `loop`, restore |
| learn-in | `elero/learn_in_manager.*` | session state, pending request, deadlines | start/cancel, programming steps, `on_tx_complete`, `loop` |
| snapshots | `elero/state_snapshot.*` | none | what is published about a device, and the difference of two |
| adapters | `elero/esp_*_shell.h`, `elero/refresh_button.h`, `elero_nvs`, `elero_mqtt`, `elero_web` | bindings of shells to devices, discovery caches, websocket clients | notify, discover, remove, serve the web API |
| web UI | `elero_web/frontend/app/src` | browser store | websocket handling, views |
| build-time code | `*/__init__.py`, `scripts/` | none | configuration schema, YAML migration |

### How they interact

Core 1 runs `Elero::loop()`: it drains `tx_done_queue` (each result calls its
client's `on_tx_complete`), drains `rx_queue` into
`DeviceRegistry::on_rf_packet`, then runs `DeviceRegistry::loop`, which lets
every device tick, poll and call its sender's `process_queue`, and finally the
learn-in manager. `process_queue` posts to `tx_queue` through `request_tx`.
Core 0 runs `rf_task_func_`: it takes one request at a time, drives the radio
through its TX state machine, posts the result to `tx_done_queue` and the
received packets to `rx_queue`. The interrupt handler sets one of two flags,
chosen by the driver's mode. No queue operation ever blocks: a full `tx_queue`
refuses the request, a full `tx_done_queue` or `rx_queue` drops the item.

### What is hard

* A request posted to the RF task cannot be taken back, its answer can come
  after the sender's 500 ms watchdog gave it up, or never.
* One sender record serves commands, cancellations and group commands, whose
  destinations are kept outside of the queue.
* The millisecond clock wraps after 49.7 days and is compared both as a signed
  distance and as an age.
* The interrupt handler and the RF task race on the driver's mode and flags.
* Slots of the registry are reused, groups refer to devices by address, shells
  keep pointers to slots, and NVS is written record by record.

### What makes each part correct

* **Command sender**: commands go out in order, each with all of its packets
  or dropped after its retries; only the command at the front is ever on the
  air; packets of one command share a counter, packets of two do not; a group
  button reaches the channels it was meant for; nothing stays queued for ever.
* **Hub**: each sender sees an in-order, at-most-once channel, whatever the
  others do; a sender waits only for a request that can still be answered.
* **Radio driver**: no received packet stays unseen in the FIFO; success means
  that the packet left the chip; faults are recovered from until they persist.
* **Cover**: the derived position and tilt are those of the blind while it
  runs undisturbed; targets are met; a STOP stays a STOP; after losses the
  estimate comes back to the truth.
* **Light**: brightness follows the dimming time and ends at the target.
* **Registry**: a slot belongs to one address; groups name existing members of
  one type; what NVS holds after a crash restores to a registry that could
  have been; shells never see a slot that changed hands.
* **Learn-in**: a session ends, and completions of one session do not drive
  another.
* **Codec**: parse after build is the identity on what is built.

## 2. How the modules are layered

The order is that of importance: first the path of a command from an adapter
to the air, then what is derived from it, then what is stored.

1. `CommandSenderCore` and `CommandSender`, which implement the abstract
   `CommandService`; `Clock` and `SenderClock`, the same sender on the wrapping
   millisecond clock.
2. `RadioHub`: many senders behind the queues of the hub. It implements, for
   each sender, the abstract `TxChannel`, which is what `CommandSender` assumes
   of its radio.
3. `Cc1101` and `Sx1262`: the RF task with a driver, its chip and a late
   interrupt handler; `Packet`: what is put on the air and made of what is heard.
4. `CoverSM` and `CoverDevice`, `LightSM` and `LightDevice`: state machines,
   commands, reports and loops in front of what they steer; `LearnIn`: learn-in
   sessions over the channel of the hub.
5. `DeviceRegistry` with its records, `MqttAdapter` and `WebServer` that follow
   it, and `Gateway`, their composition with users, the broker's link and
   restarts.

Worth adding: groups of covers and disabled devices in `CoverDevice`; the
receive queue of the hub; an abstract registry (slots without records) that
`Gateway` implements between restarts. Every invariant that a run checks is
proved but one, which the prover cannot reach (section 6); worth proving next is
what a wider model would add, such as groups of covers.

## 3. Modules

| module | models | state and actions |
|---|---|---|
| `CommandSenderCore` | `command_sender.h` | operators on one sender record: `Push`, `ClearQueue`, `AdvanceQueue`, `OnTxComplete`, ... Time is one bit, `delaying` |
| `CommandSender` | one sender, its callers and its radio | `EnqueueCommand`, `CommandGroup`, `Clear` are the registry; `Wake`, `DelayElapses`, `Request`, `Settle`, `Timeout` are the outcomes of `process_queue`; `CompleteOk`, `CompleteFailed`, `LoseCompletion` the radio |
| `CommandService` | what a sender promises (abstract) | `Accept`, `Transmit`, `Retire`, `CancelAll` on a sequence of numbers |
| `SenderClock` | one sender with `uint32_t` deadlines | the real deadline beside the predicted bit, on a clock of `CLOCK_BITS` bits |
| `RadioHub` | `elero.cpp` with several senders | `turn` is where the main loop is; `txQueue`, `onAir`, `doneQueue` are the RF task's side |
| `HubChannel` | the refinement of `TxChannel` by `RadioHub` | the numbers of the requests of one sender that are in the hub are its channel |
| `TxChannel` | what the hub promises one sender (abstract) | `Request`, `Answer`, `Lose` |
| `Cc1101` | RF task, driver, TX state machine; chip and interrupt as environment | `pc` is where the RF task is; every step reads the chip once |
| `CoverSM` | `cover_sm.cpp` | pure operators with the names of the code |
| `CoverDevice` | cover commands, status dispatch, `loop_cover_()`, `poll_timer.h`; the blind as environment | one action per entry point of the registry; `Tick` moves the blind and all ages |
| `Clock` | the clock of `command_sender.h` and `learn_in_manager.h` | `uptime` is true time, `now` the `uint32_t` made of it; signed distances (`TimeReached`) and ages (`Age`) |
| `Sx1262` | RF task, SX1262 driver and TX state machine; chip and interrupt as environment | `sx` is the chip with its status bits and the mask of DIO1, `task.pc` where the RF task is; every transfer may fail |
| `Packet` | `elero_packet.*`, `elero_protocol.h`, `decode_fifo_packets_` | pure operators on bytes; `fifo` is what the radio holds, `decoded` what the hub was given |
| `LearnIn` | `learn_in_manager.*` | `learn` is the record of the manager's fields; `LearnStarts`, `ConfirmUp`, `ConfirmDown`, `LearnCancel` are its entry points, `SessionTimeout`, `TxTimeout`, `RequestTx` the outcomes of `loop`, `LearnComplete` and `LearnLose` the hub |
| `LightSM` | `light_sm.cpp` | pure operators |
| `LightDevice` | light commands, groups, reports, `loop_light_` | `house` holds, for each light, state, queue and group destinations, and the last button its receiver heard |
| `DeviceRegistry` | `device_registry.cpp`, `nvs_config.h` | `slots`, `groups`, `hub`; `nvs` is what was saved, `disk` what a boot would find, `doubled` the history of a boot that restored something twice; `Upsert`, `RemoveDevice`, `UpsertGroup`, `RemoveGroup`, `TrackRemote`, `SetHubName`, `Flush`, `Restart`. What an operation notifies of is one event (`UpsertEvent`, `RemoveEvent` with what became of each group it pruned, ...) |
| `MqttAdapter` | `mqtt_adapter.cpp`, `mqtt_context.h` | `wire` is the broker: retained topics (discovery, and the attributes of groups) and subscriptions; one operator per callback, of which `Handle` is the choice for an event; what is published in slot order (`GroupMessages`, `DeviceMessages`) is a function from slots in which the last message of a topic stands (`PutAll`), and empty messages withdraw topics (`Withdrawn`); `MqttStep` is its `loop`, in which `FinishCleanup` withdraws what is stale and then publishes everything again |
| `WebServer` | the configuration side of `elero_web_server.cpp` | `client` is what a browser shows; `ClientOpens`, `ClientCloses`, `Toggle`, `ExportConfig`, `StartImport`, and one step per entry of an import (`Entry`), whose places in the backup are `todo` |
| `Gateway` | the registry with both adapters | a registry operation, its saves and its notifications are one step, as they are one callback of the main loop |
| `CommandSenderCoreProofs` | | lemmas on the operators of a sender record |
| `CommandSenderProofs`, `RadioHubProofs`, `Cc1101Proofs`, `Sx1262Proofs`, `CoverDeviceProofs` | | theorems |
| `GatewayProofs` | | theorems of `DeviceRegistry` and of `Gateway` with its adapters |
| `UnitsProofs` | | theorems of `SenderClock`, `LearnIn` and `LightDevice` |
| `MC*` | | constants for TLC; `MCUnits` puts the modules that share no state side by side, and a behaviour is one of one of them |

`CommandSender` uses the radio through a FIFO `outstanding` whose entries may
be lost (in `TxChannel` it is the set of the numbers, of which the least is
answered); `HubChannel` shows that its queues give each sender that channel
(`ImplementsChannel`). `CoverDevice` uses the sender through a queue whose
front is sent and removed; `CommandSender` shows that it gives its device that
service (`ImplementsService`). So the three are layers of one system, each
checked against the promise of the one below. `LearnIn` uses the same channel
as `CommandSender`; `Sx1262` and `Cc1101` are what the hub calls a driver.

In `Gateway` neither adapter writes to the registry, so a behaviour observes
the store, the broker or the browser (`observed`), and the other adapter stays
unconnected: three smaller state spaces for one large. Every operation on the
registry, imports included, happens in all three; in a behaviour of the
store or the broker an import takes one of the edits (`ImportBound`). When the collection of
topics ends, any part of the offer that is not expected may be late. Whether
an expected topic arrived makes no difference to the code, and none is late in
the model.

## 4. Runs

| run | question | bounds | result |
|---|---|---|---|
| `sender` | does the sender serve its commands, whatever is late, lost or cleared? | 2 commands, 2 clears, 2 retries, 3 requests outstanding, counter of 3 values, 2 channels | holds |
| `sender_stale` | does "sent" always mean that its own packets were confirmed? | 3 commands, 2 clears | violated |
| `sender_group` | does every button address the channels its caller meant? | 3 commands, 2 clears | violated |
| `units` | five parts, one in each behaviour: the sender's deadlines on a clock that wraps; learn-in sessions; lights; packets; the SX1262 driver | see below | holds |
| `clock_stop` | is the deadline 0 always in the past? | 4-bit clock | violated |
| `learn_late` | is a learn-in step due when it is queued? | 4-bit clock, 20 ticks | violated |
| `hub` | several senders, a raw client, a failing driver | 2 devices, queues of 1 and 2, 1 command each, 1 clear, 2 watchdogs each | holds |
| `hub_fail` | is every accepted request answered? | as above | violated |
| `radio` | RF task against chip and interrupt | 2 packets, 3 transmissions, 2 faults, FIFO of 1 | holds |
| `cover` | does the estimate follow the blind, and the blind the wish? | travel of 3 ticks and slat sweep of 2, 2 commands, 1 loss or wall remote, 1 late tick | holds |
| `cover_full` | does a full move run to the end? | 2 commands | violated |
| `registry` | do slots, groups, records, broker and browser agree, through imports, outages and restarts? | 4 slots, 3 addresses, 2 remotes, 1 group of at most 2 members per remote, 2 or 3 edits, 1 import (with the store and the broker one of the edits), 1 outage, 1 restart | holds |

Why these bounds are enough:

* `sender`: two commands are enough for a completion of one to meet the other;
  two clears for a mark left by one to meet the next; three outstanding
  requests for a request given up, its retry and the next command. A counter
  of three values wraps within the run.
* `units`, clock and learn-in: 20 ticks of a 4-bit clock pass the half of the
  range, where signed distances change sign, and the wrap. What only holds in
  the first half is stated so in `DelayIsDeadline`. Two learn-in sessions with
  two requests in flight let a completion of the first meet the second, with
  one retry and one or two packets per step.
* `units`, lights: three lights, two of one remote (one of them not dimmable)
  and one of another, so that a saved group has a native group and a single
  member; a queue of two refuses; three orders put a group command between two
  commands of a member. Dimming takes three ticks.
* `units`, packets: two frames in one FIFO read, of every message type, with
  the counters 1, 128 and 255 and as many destinations as fit, one more, and as
  many as the encoder takes; the second frame can be cut off at every
  interesting length (`Unread`).
* `units`, SX1262: two packets, two transmissions, three mishaps (failed
  transfers or faults of the chip): one for the fault, one for the recovery
  from it, one for the reset. `RESETS_BEFORE_FAILED` is 2.
* `registry`: the image left in flash has a version 3 record, and a group of
  three on two remotes; the edits rename a member, disable it, turn it into a
  light, move one to a remote whose part of the group is full, and save a
  remote at a member's address. A removal and a new edit reuse the slot. A
  restart finds any part of what was not flushed.
* `hub`: a request queue shorter than the number of clients makes refusals
  happen, a completion queue of two that is not drained drops completions (the
  code has 8 and 8; nothing depends on the lengths but whether they fill up).
  Two watchdogs per device are not binding: a third adds no state.
* `radio`: two faults reach both escalations of the recovery, with its
  thresholds at 2; a FIFO of one packet overflows with the second.
* `cover`: the slats turn in two ticks and the blind travels in three, so that
  starts, reversals and targets fall inside either phase, and a blind that is
  off by the late ticks is told from one that is off by more. The movement
  timeout of 6 is longer than a whole movement, the cooldown, answer and poll
  times keep the order they have in the code (response wait <= fast poll <=
  cooldown <= idle poll <= movement timeout). One context has durations and a
  tilt time, one has neither.

`CHECK_DEADLOCK FALSE` is used where the bounds let the system stop: no
commands, faults or ticks left. `hub` and `cover` are checked for deadlock.

### Fairness

* The main loop calls `process_queue()` of every enabled device, drains
  `tx_done_queue` and `rx_queue` in every round: weak fairness of its steps.
* Timers pass: weak fairness of `DelayElapses`, `Timeout`, `TimeoutPasses`, `Tick`.
* The RF task takes requests while its driver has not failed, and a
  transmission ends because every wait of the TX state machine has a timeout:
  weak fairness of its steps, strong fairness of the timeouts in `Cc1101`
  (`PollFails`, `ReturnFails`) and of the five-second check (`Heal`), which
  come up again and again but are not enabled continuously.
* `Request` is strongly fair in `CommandSender`: `tx_queue` is shared and can be
  full any time, but the RF task empties it again and again.
* `units` and `registry` check safety only and state no fairness.
* The chip, the interrupt line's edges, losses and people are never fair: they
  may do nothing. The handler itself runs once its edge is there.

## 5. Properties

* `sender`: `PendingIsFront` (a pending request is the front command's, or one
  that was cancelled and counted no retry), `CounterTellsCommands` (the packets
  of one command carry one counter and those of the next another, unless
  `clear_queue()` cut the first command short or brought the counter round),
  `PromptMeansConfirmed` and `DroppedMeansFailed` (what "sent" and "dropped"
  mean when no completion is later than the watchdog), `ImplementsService`,
  `EveryCommandRetired`.
* `hub`: `PendingIsInFlight` (a sender that waits has a request that is queued,
  on the air or answered, unless its completion was dropped),
  `OneRequestEach`, `LossNeedsTimeout`, `ImplementsChannel`,
  `EveryCommandLeaves`.
* `radio`: `NoPacketStranded`, `SuccessMeansSent`, `SurvivesFaults`,
  `PacketsDrained`, `TxEnds`, `DeafnessEnds`.
* `cover`: `EstimateExact` (position and tilt are derived right through both
  phases and reversals), `RestsAtTarget` (a blind sent to a position stands
  there in the end, off by the ticks commands and reports were late, twice if
  it had to turn round), `JogKeepsPosition`, `StopHolds`, `EstimateSettles`.
* `units`: `DelayIsDeadline`, `NeverEarly`, `WatchdogWaits` (clock);
  `ConfirmedSteps` (a learn-in step that was taken as done was sent by its own
  packets, unless a completion outlived its session), `EndsStay`;
  `EstimateAsHeard` (when nothing is left to send, a light's estimate is what
  the last button it received makes of it), `DimsSmoothly`; `HeardAsSent`
  (what was sent is what is decoded, packet by packet, from any FIFO read);
  `HearsAtRest` (between transmissions the SX1262 listens, with no status bit
  left that would keep its interrupt line from rising, unless a transfer
  failed).
* `registry`: `RegTypeOK`, `StoreMatches` (the records are what the registry
  holds), `TwinsNeedTornWrite`, `MembersKnown`; `BrokerMirrors` (after a
  cleanup the broker shows every saved enabled device and every group with its
  attributes, and retains nothing else but what no cleanup of this connection
  can know of: discoveries that arrived too late, attributes of groups that
  were gone by then, both in `missed`), `ShownIsHeard` (what it shows can be commanded),
  `ClientMirrors` (a browser shows what the registry holds). The last three
  leave out the time after a boot that restored a device or a group twice
  (`doubled`): it then has two configurations, of which one shows. And
  `BrokerMirrors` leaves out the groups with a member at whose address there are two
  devices (`Ambiguous`); section 7 says how either comes about.

## 6. What is proved

For every value of the constants, from the named assumptions of the modules
(`CommandsAssumption`, `LimitsAssumption`, `SenderAssumption`,
`HubAssumption`, `RadioAssumption`, `Sx1262Assumption`, `CoverAssumption`,
`DeviceAssumption`, `ClockAssumption`, `OutstandingAssumption`,
`LearnAssumption`, `LightAssumption`, `LightsAssumption`, `RegistryAssumption`,
`ImagesAssumption`, `TopicsAssumption`, `GatewayAssumption`). They say that the members of a saved group are its lights,
each once, that limits, times and sizes are positive numbers, that a counter
has two values at least (`COUNTER_MAX > 1`; the code has 255), that the object
id of a group is never that of a device (`mqtt_context.h` puts "_group_" in the
one and the type in the other), that what a user saves went through the parsers
of the web server, and that the
small powers of two by which a backoff grows are numbers other than 0, which
the prover does not compute:

* `TypeCorrect`: `CommandSender` keeps its types; the retry count never exceeds
  `SEND_RETRIES` and the counter stays in `1 .. COUNTER_MAX`.
* `PendingFront`: `PendingIsFront`. It is inductive relative to `TypeOK`: the
  second disjunct is needed because `clear_queue()` empties the queue under a
  pending request, and its `retries = 0` because a later completion must find
  nothing to count.
* `Refinement`: the sender implements `CommandService`. Each step maps to a
  step of the service or a stutter; a completion retires the front command
  only if `PendingIsFront` gives that it was the one on the air.
* `SenderInvariant`: what the next three rest on. `SenderInv` adds to the
  types and `PendingIsFront` that the numbers of the queue grow and the last
  request was for the front or for an earlier one (`IdsOK`); that as long
  as no completion outlived the watchdog, the only request that can be
  outstanding is the pending one (`OneOutstanding`), so that what the sender
  counts is what the history saw of the front command (`TallyOK`); and where
  the counter stands while and after a command is on the air (`CounterOK`).
* `PromptConfirmed`, `DroppedFailed`: `PromptMeansConfirmed` and
  `DroppedMeansFailed`, for any number of packets, retries and requests.
  `TallyOK` has to allow one retry more than the history saw, because a request
  that was cancelled can leave one behind for the next command.
* `CounterTells`: the action property `CounterTellsCommands`.
* `HubInvariant`, `HubPendingInFlight`: `PendingIsInFlight`, for any number of
  devices and any lengths of the queues. With the types it is inductive: any
  completion, also a late one, ends the wait of its sender (`CompletionEnds`),
  no other handler but a request starts one (`StillPending`), and each step of
  the RF task moves a request on, answers it or counts it as lost
  (`PostKeeps`, `TakenHead`).
* `HubOneRequestEach`, `HubLossNeedsTimeout`: `OneRequestEach` (the hub holds
  one request of a sender, and one more for each that its watchdog gave up)
  and `LossNeedsTimeout`. `HeldInv` counts the requests of a client in both
  queues and on the air (`Held`, with `Of` as the cardinality of a set of
  indices, for which the proofs have their own lemmas on `Append` and `Tail`);
  a watchdog that fires moves one request from what is waited for to what is late
  (`Watched`), and only then another may be made.
* `HubImplementsChannel`: `ImplementsChannel`, that each sender sees the channel
  of `TxChannel`. `ChannelInv` orders the requests of one sender by their
  numbers: what is answered is before what is on the air, and that before what
  is queued (`InOrder`), and none has a number that was not given yet
  (`Numbered`). A request enters behind all others (`EnterOrder`), the RF task
  moves it on or loses it (`PostMaps`), and what is delivered was first
  (`DeliverMaps`); there is room in the channel whenever `tx_queue` has a place
  (`DepthSuffices`).
* `RadioInvariant`, `RadioNoPacketStranded`, `RadioSuccessMeansSent`,
  `RadioSurvivesFaults`: the three invariants of the CC1101, for any FIFO
  length, retry count and fault threshold. `RadioInv` again ties the place of
  the RF task to the TX state machine and to the mode of the handler
  (`TaskOK`, `ModeOK`). `HeardOK` strengthens `NoPacketStranded` to the point
  of the return to RX where the bytes have just been counted: from there on a
  packet that ends raises the line, and one that had ended was counted.
  `SentOK` follows a packet through the states (loaded or aired, then aired),
  and `FaultsOK` pays every reset of a window with a fault of its own, also
  the one whose chip is still wedged.
* `SxInvariant`, `ReceiverHears`: `HearsAtRest` of the SX1262. The inductive
  invariant `SxInv` ties the RF task's place to the state of the TX state
  machine (`TaskOK`), the mode that the interrupt handler looks at and the
  amplifier to both (`ModeOK`), and the chip to them as long as no transfer
  failed (`ChipOK`): while it transmits no status bit of a reception is set,
  and none is left when it goes back to receiving, which is why the first
  packet raises the line.
* `CoverCorrect`: `CoverTypeOK`, for every travel time, tilt model, timeout,
  cooldown, poll interval and queue. It is not inductive: a tick makes a
  movement older. The inductive invariant `CoverInv` adds that after the loop
  has run, which is when time may pass, neither the movement timeout nor the
  cooldown is due (`TimeoutsKept`), and that a blind whose motor runs is not at
  the end it runs to (`Blind`).
* `CoverStopHolds`: `StopHolds`, for every number of late ticks less than the
  cooldown. `StopInv` says why the estimate cannot be set in motion again: a
  report from before the STOP, and the STOP itself, are under way only in the
  cooldown, and no report of an end, which would cut the cooldown short, goes
  before a report of a movement (`Braked`).
* `CoverEstimateExact`, `CoverJogKeepsPosition`: `EstimateExact` and
  `JogKeepsPosition`, from `TimeoutSuffices`: the movement timeout covers the
  travel and the sweep of the slats. A user sets the durations, the code's
  timeout is 120 s (`device.h:138`), and a blind that takes longer is given up
  by design. The invariants follow a wish through four phases: its movement is
  queued (`Commanded`), the blind runs (`Running`), a STOP is queued
  (`StopFirst`), the motor stands still (`Still`). While it runs, `ExactFor`
  equates the position and tilt derived from the age of the movement with
  those of the blind, through both phases of the movement; a jog adds that the
  slats have not arrived before the loop sees it (`JogTurns`, `JogArrives`) and
  that what is still in the air cannot start the estimate (`JogHalts`,
  `JogDone`).
* `CoverRestsAtTarget`: `RestsAtTarget`, from the same hypothesis.
  `PositionInv` bounds how far the blind is behind the estimate by the ticks
  that something was late, `Slack`, in position and slats together (`Upwards`,
  `Downwards`): the two cannot be bounded one by one, because what the estimate
  is ahead in slats becomes position when the slats are turned. A reversal
  counts late ticks twice, once for the way the blind still went in the old
  direction and once for the start in the new one.
* `ClockInvariant`, `ClockNeverEarly`, `ClockWatchdogWaits`: no packet is
  requested before its delay has passed and no watchdog fires early, for every
  width of the clock in which twice the longest backoff fits (below that a
  deadline ahead and one behind cannot be told apart). The inductive invariant
  `ClockInv` relates each `uint32_t` the sender keeps to a true time of the
  history: `tx_start_ms_` is the clock's reading of when the request was made
  (`StartIsRead`), the deadline is the reading of when it falls due as long as
  that lies ahead, by a backoff at most, and a pending request was due
  (`DueIsRead`). The rest is arithmetic of remainders (`Distance`,
  `AgeIsNoMore`, `AheadIsNotReached`).
* `ClockDelayIsDeadline`: `DelayIsDeadline`, that the bit `delaying` of
  `CommandSender` is the deadline of the code, in the lower half of the clock's
  range. `DelayInv` adds where the deadline can lie: at most one backoff ahead,
  not before the last packet's gap while there are retries, and in the past
  once a request is pending. Above half the range the deadline 0 of
  `clear_queue()` falsifies it (`clock_stop`).
* `LearnInvariant`, `LearnEndsStay`, `LearnStepsAreConfirmed`: the action
  properties `EndsStay` and `ConfirmedSteps` of a learn-in session, for every
  clock width, retry limit, packet count and timeout. Both rest on `LearnInv`:
  the types, `StepsAreSent` (a request is pending only for a queued step, and a
  step is queued only in a state that sends, with packets left: without it a
  completion could move a session that has ended) and `SentMeansConfirmed`
  (what the manager counts as sent equals what the history saw confirmed,
  unless a late completion misled it).
* `LightHouse`, `LightEstimateAsHeard`, `LightDimsSmoothly`: for any number of
  lights, remotes and levels, any order of the saved group and any queue
  length. `EstimateAsHeard` speaks of empty queues; `HouseOK` says what holds
  before. A light that nothing excuses has a `Promised` button: the last one in
  its queue, or the last it heard if only CHECKs wait, and the estimate follows
  that one. While a group command is under way the button is the front of the
  lead's queue and no other button waits, and `Parted` says whose queue that
  is: destinations are only in the sender of the first member of their remote
  (`Lead`), name the whole remote, and are gone before that queue is empty. So
  a member finds out from one other light whether it is `Entangled`
  (`EntangledIs`), and a command for one remote leaves the others alone; the
  command for the saved group is then, for the lights of each remote, the
  command for that remote (`SavedKeeps`). `DimsSmoothly` needs the types only:
  a light that dims has its target ahead of it (`LightStates`), so a new target
  starts from the brightness of the moment (`SetType`).
* `RegistryInvariant` and its parts `RegistryTypes`, `RegistryStoreMatches`,
  `RegistryTwins`, `RegistryMembersKnown`: for any number of slots, addresses,
  groups and boot images. `MembersKnown` is inductive only with `StoreMatches`
  and the types, because a restart restores groups from records;
  `TwinsNeedTornWrite` only if also what is flushed has no twins (`NoTwins`).
  That the first match of a loop over the slots is a match rests on the
  well-foundedness of the naturals (`FirstIsIn`).
* `GatewayInvariant`: `GatewayInv`, on which the next five rest, for any number
  of edits, imports, outages and restarts. It adds three things to the
  registry's invariant: no device or group is in two slots unless the last boot
  restored one twice (`NoDoubles`), the members of a group that are alone at
  their addresses have one type (`OneType`: a device keeps its type as long as
  it keeps its slot, and a new one makes its address ambiguous), and the entries
  of a backup are well formed (`BackupOK`). The proof does not look at the
  operations one by one: each of them puts a device into a slot (`Placed`),
  empties a slot and prunes the groups (`Emptied`), puts a group into a slot or
  empties it (`Grouped`), or renames the hub, and its event is the one for that
  (`Notified`). The adapters are looked at for these four only.
* `GatewayClient`: `ClientMirrors`. What a message does to the set of devices
  or groups that the browser shows is what the operation does to the set that
  the registry holds (`ShowPlaced`, `ShowEmptied`, `ShowGrouped`). Here
  `NoDoubles` is needed: of two slots with one device the message replaces both.
* `GatewayHeard`: `ShownIsHeard`. The inductive invariant `WireInv` has the
  shape of what the broker and the client keep (`WireOK`), that an outage that
  `loop()` has seen ended the cleanup (`Outage`), the property itself for any
  link that the client believes in (`Heard`), and that while topics are
  collected the broker has offered all that it retains (`Collecting`). Subscriptions of one device
  survive the removal of another because their topics differ.
* `GatewayBroker`: `BrokerMirrors`. `Mirrors`, what the property says of a
  settled link, holds after `finish_stale_cleanup_`, whatever part of the
  offer was delivered: what was collected and is not expected is withdrawn,
  then everything is published again, so that a topic is either of a device or
  group that is there now (`Current`) and shows it, or was retained before. A
  discovery that was retained was offered (`Collecting`), so it was withdrawn
  or is `missed`; retained attributes are `missed` if their group is gone.
  After that each of the four kinds of steps keeps it: the topic of the device,
  or both topics of the group, that it is about follow the registry, and any other topic, and whatever it stands
  for, is left alone (`PlacedOthers`, `EmptiedChanged`, `GroupedChanged`). That a
  group is still announced under its type when a device is edited is `OneType`.
* `GatewayRegistry`, `GatewayStore`: the gateway implements the registry
  (`Spec => RegSpec`), so that `RegTypeOK`, `StoreMatches`,
  `TwinsNeedTornWrite` and `MembersKnown` hold of it, imports and partial
  flushes included. An import stores a group by the set of its members, the
  handler by a list: the step needs that a finite set can be listed
  (`MembersListed`).

The lemmas on the operators (`PushType`, `OnTxCompleteType`, `positionType`,
`FirstIsIn`, ...) carry the case analysis, one per operator, so that each step
of the induction is one citation.

Only model-checked: `HeardAsSent` of `Packet`, which computes with `Bitwise`,
whose operators are recursive, so that the prover loses its SMT backend; and
all liveness properties, because the prover has no rules for liveness under
fairness or for `ENABLED`. No other module declares or uses a recursive
operator.

## 7. What the runs found

* `sender_stale`: a completion that arrives after the 500 ms watchdog counts
  for the retry or for the next command, so a command can be retired as sent
  with packets that never were.
* `sender_group`: the destinations of a group command are in the sender, not
  in the queue entry: a button queued before it is sent to the group, and an
  entry after a dropped one loses them.
* `clock_stop`: `clear_queue()` sets the deadline to 0, which lies in the
  future while `millis()` is in the upper half of its range: a STOP waits.
* `hub_fail`: requests still queued when the driver fails are never answered,
  and nobody reads `failed()`.
* `cover_full`: `command_cover()` leaves `target_position` of an earlier move
  in place, and the loop stops the full move there.

* `learn_late`: a learn-in step is queued with the deadline 0 too, so that in
  the upper half of the clock's range nothing is sent and the session times out.

Seen on the way, with no run of their own: a STOP that finds the estimate idle
starts no cooldown, so a late report sets the estimate in motion after it; a
tilt request equal to the derived tilt is ignored during a movement; a report
TOP sets the estimated tilt to slats closed although opening turns them open,
so that the slat phase of the next closing is missed; `docs/flows/STATE_MACHINES.md`
gives the transmit queues other lengths than the code; a device that is
disabled and enabled again is announced over MQTT but its command topics are
not subscribed until the next connection (`ShownIsHeard` leaves it out); a
group that `restore_all` refuses keeps its record while its slot counts as
free, so that saving it again can put it into another slot and the next
restart, if a member is back, restores it in both (`doubled`); a group with a
member at whose address a device of another type is added in an earlier slot
changes its type without being announced again (`Ambiguous`); a
group whose members lost their common type keeps its old discovery topic until the next connection;
the cleanup collects discovery topics only, so that the retained attributes of
a group that was removed while there was no connection stay at the broker for
ever (`missed`), and they name the members as they were called when the group
was last published: renaming a device does not publish them again;
`reset_all_()` of the learn-in manager forgets that a completion is to be
ignored, so that one of a cancelled session counts for the next
(`ConfirmedSteps` leaves it out as `misled`), and the flag has no effect at all,
because whenever it is set nothing is pending and `start()` clears it before
anything can be; the recovery of the SX1262
ignores failed transfers and looks at the mode only, so that a receiver with
the wrong mask or a status bit left set passes for healthy (`hurt` in
`HearsAtRest`), its `init()` gives up for good on the first reset that does
not come up, and `read_fifo()` decodes an uninitialised buffer when the
transfer of the packet itself fails; `recover()` of the CC1101 never resets
the chip.

## 8. What is not modelled

* The SX1276 driver. Its TX state machine equals the SX1262's but for names,
  and its transfers cannot fail and its flags are cleared with the FIFO: it has
  the interleavings of `Sx1262` without the causes of its hazards.
* `abort_tx()` and `reinit_frequency()` of the drivers, which nothing calls at
  run time; register values; failures of single SPI transfers of the CC1101.
* The receive queue between the RF task and the main loop, which drops packets
  when it is full; the rolling counter of raw packets.
* Groups of covers (groups of lights are in `LightDevice`), disabled covers,
  `last_direction`, the command INT. Different durations for opening and
  closing; positions are whole ticks.
* State topics and command payloads of MQTT, whose content is the snapshots
  of `state_snapshot.cpp`: formatting, and a comparison of two snapshots. The
  gateway's birth message, which is always the same. In what a group publishes,
  the names of its members and, for covers, the device class of the first.
* HTTP, TLS, the packet log, the firmware and status pages and raw transmit
  requests of the web server; the web UI, which runs in the browser.
* Entity shells: they bind the entities of a build with static devices to slots
  once, at setup, and that build does not remove devices.
* Whitening (`cc1101_compat.h`) and the names of drive states.
* Strings, the time provider (an indirection of `millis()`), the Matter adapter
  (a stub), build-time code, which runs on the developer's machine.

## 9. Running

`tlc -config <run>.cfg <module>` with the module named in `PROJECT.json`, and
`tlapm <module>.tla` for each module whose name ends in `Proofs`.
