# A TLA+ verification of the CX-5 driving stack

The repository drives a 2023 Mazda CX-5 with an openpilot fork: a Jetson runs
the model, the planner and the control loops, and a self-built STM32 board (the
"panda") sits between the forward camera and the car's CAN bus.  Everything that
moves the car goes through that board, so this project starts there: the safety
model that decides which frames pass, the board that runs it, and the host
threads that have to stay in step with it.  From there it follows the frames: the
board's transmit queues below, the receive path of the host above, and the
processes of openpilot that decide what is sent, with the queue between them.

## 1. Inventory

| component | source | state it keeps | operations | what is hard |
|---|---|---|---|---|
| safety model | `car/opendbc/safety/{safety,longitudinal}.h`, `modes/{mazda,defaults}.h` | mode, `controls_allowed`, pedal / cruise / button history, relay malfunction, message ages | rx hook, tx hook, forward hook, mode change, 1 Hz check | frames in any order; edges against levels; state that outlives a session |
| torque limits | `car/opendbc/safety/lateral.h`, `mazda.h` (limits) | last torque, real-time reference, driver samples | torque check, sample update | the history is reset by four different causes |
| board | `firmware/board/{main.c,main_comms.h,power_saving.h}`, `drivers/can_common.h` | heartbeat, ignition, power save, mismatch count | control requests, tick, boot, `can_rx`, `can_send` | the tick races the host and the car; a dead host; a timer that is not clocked |
| CAN queues and link framing | `firmware/board/{can_comms.h,drivers/can_common.h,drivers/bxcan.h,drivers/usb.h,drivers/serial_comms.h}` | ring buffers, partial frames, endpoint flow control | push / pop, chunked read and write, resync | full queues, split frames, a reset in the middle of a frame |
| host link | `control/usb_panda.py` | receive buffer, device handle, windows and cooldowns of four watchdogs | `can_recv`, resync, soft reset, board reset | faults that look like a parked car; a cheap recovery that starves the one that works |
| lateral sender | `control/control_stack/dashcam_web.py` (`tx_thread`), `car/opendbc/car/lateral.py`, `mazda/values.py` | last torque, health snapshot, blocked counter | one LKAS frame per period, 10 Hz health poll, resync, re-mode | two copies of one history (host and panda) that must stay in step over a lossy link |
| radar take-over | `dashcam_web.py` (`takeover_thread`, `long_tx_thread`), `mazda/{interface,longitudinal}.py` | gate, hold, handover flags, census | arm, suppress, hold, release, dead-man | two threads, a receiver and an ECU with its own session timer |
| longitudinal controller of the Mazda port | `car/opendbc/car/mazda/{carcontroller,longitudinal}.py`, `openpilot/selfdrive/controls/{controlsd,lib/longcontrol}.py` | hold / resume counters | one step per frame | long sequences of legal inputs |
| messaging | `msgq/msgq/msgq.cc` | shared ring, reader slots | publish, receive, subscribe, evict | lock-free readers and a writer that laps them |
| engagement | `openpilot/selfdrive/selfdrived/*` | enabled, active, soft-disable timer, alerts | one step per event set | event priorities |
| host watchdogs | `openpilot/selfdrive/pandad/*`, `openpilot/system/manager/*` | panda state, process table | per-tick checks, restarts | process death, stale state |

How they interact.  The car and the camera put frames on buses 0 and 2;
`can_rx` forwards each to the other bus (`safety_fwd_hook`), runs the safety
model on it and queues it for the host.  The host reads frames, computes a
torque and hands LKAS frames to `can_send`, which asks `safety_tx_hook`.  The
host also writes control requests (mode, heartbeat, power save) and polls a
health record.  The tick ages everything once a second.  For longitudinal
control the host additionally silences the stock radar over UDS and sends the
radar's frames itself; the radar falls back to sending when it no longer
receives tester-present.

What makes each component correct:

- *safety model*: nothing that moves the car passes without control granted and
  with a relay malfunction latched, no acceleration with a pedal down; one source
  of steering; the camera relay is closed when
  idle; state of an earlier session never arms this one.
- *torque limits*: the torque that is accepted is slew-limited across every reset,
  the driver wins, and a sender can always start over from zero.
- *board*: a car mode never outlives its heartbeat; a dead host disarms for good;
  unused control expires.
- *lateral sender*: rejections have a cause, a stall is bounded, and the demand is
  reached again after any fault.
- *take-over*: 0x21b never stops while the radar is muted, two writers do not
  outlast ACC, and the mute fails open.
- *queues*: frames leave in order and once; nothing accepted under an old mode
  stays queued; whoever waits has somebody to wait for.
- *host link*: every fault the watchdogs are for ends, and a parked car is left
  alone.
- *engagement and longitudinal control*: a session that must end does so in time
  and the car hears of it; the stop frames never contradict each other; a held
  car is only let go for a cause.
- *messaging*: what a reader is handed was sent, whole, in order; a reader that
  keeps asking catches up, whoever died before.

`PROJECT.json` lists the hazards of this code at the lines where they bite, each
with the properties that cover it or the reason why none does yet.

## 2. Plan

1. `MazdaSafety` and `PandaBoard`: the authority over the car. *(done)*
2. `SteerTorque` and `LateralLoop`: the torque checks, then the sender composed
   with them. *(done)*
3. `RadarHandover`: the longitudinal take-over. *(done for engage-first)*
4. `TxFifo` and `CanTxQueue`: what the transmit path promises and the rings,
   mailboxes, interrupts and endpoint flow control that implement it. *(done)*
5. `Engagement` and `LongHold`: the state machine of selfdrived, and the
   longitudinal path from it to the frames on the bus. *(done)*
6. `Msgq`: the lock-free ring, one shared access per step. *(done)*
7. `HostLink`: the watchdogs of the receive path. *(done)*
8. Left: the receive ring and the frames split over USB transfers, the serial
   link, the suppression of the radar at arm time and coexist mode, a second
   publisher and polling in `Msgq`, the alerts of selfdrived.

Composition: `PandaBoard` EXTENDS `MazdaSafety` and takes its hooks as parts of
its own actions; `LateralLoop` EXTENDS `SteerTorque` and `LongHold` EXTENDS
`Engagement` the same way.  In these cases the inner specification is the
abstract one (any sender, any order) and the composed specification is shown to
implement it, so every property of the inner module carries over.  `CanTxQueue`
implements `TxFifo` through a refinement mapping (`INSTANCE TxFifo WITH`): the
abstract queue is what lies between the two pointers of a ring.

## 3. Modules and how they correspond to the code

Line-by-line correspondence is in `PROJECT.json` under `map`.

### MazdaSafety
State: the globals of `safety.h` and the statics of `mazda.h` under their own
names.  A received frame is an address, a bus and the set of payload bits some
hook reads; a host frame is an address, a bus and the kind of command (a torque
"limited" or in "excess", an acceleration "idle", "command" or "excess", ...).
The arithmetic behind "limited" is `SteerTorque`'s.

| action | code |
|---|---|
| `RxEngineData`, `RxCrzCtrl`, `RxCrzBtns`, `RxPedals`, `RxOther` | `can_rx` → `safety_fwd_hook`, `safety_rx_hook` → `mazda_rx_hook`, one per address, each followed by `generic_rx_checks` and `stock_ecu_check` as in the code |
| `safety_tx_hook` | whitelist, relay flag and `mazda_tx_hook` |
| `set_safety_hooks` | mode change with all resets |
| `safety_tick` | the 1 Hz lag check |

`Build` is the compile-time gate of the CRZ_CTRL branch: `STOCK`
(`pcm_cruise_check`), `MADS` (F446) and `MADS_BRAKE` (F407).  One frame is one
step: interrupts of this firmware do not preempt each other.  `button_seen` and
`out` are history variables.

### PandaBoard
Adds the state of `main.c` around the hooks: the heartbeat, the ignition seen on
CAN, power save, the interrupts of the camera's controller, and whether the host
is alive.  `set_safety_mode`, `Heartbeat`, `DisableHeartbeat`, `SetPowerSave`
and `SystemReset` are requests 0xdc, 0xf3, 0xf8, 0xe7 and 0xd8; `tick_handler`
is the whole 1 Hz part of the interrupt, in its order (mismatch check,
heartbeat, expiry with power save and mode, `safety_tick`, ignition count).
`TickClocked` says whether the timer of the tick has a clock at all, which the
F446 and F407 ports leave out.  `llcan_init` enables the interrupts of the camera's
controller or times out and leaves them as they were: at boot, at every mode change
and at the expiry of the mode.

### SteerTorque
`steer_torque_cmd_checks` of `lateral.h` with the parts Mazda selects
(`max_limit_check`, `driver_limit_check`, `rate_limit_check`, the real-time
window) as one predicate `violation` and one action; `update_sample`;
`SteerReset` (mode change); control granted or taken.  `accepted` is the torque of
the last frame that the hook accepted.  A frame that is accepted and then finds the
ring full (`can_common.h` 305) is lost after the history has moved; the module says
nothing of the bus beyond it.

### LateralLoop
One iteration of `tx_thread` is three steps, split where the panda can change
under it: `Compute` (`apply_driver_steer_torque_limits`), `Poll` or `PollFails`
every `PollPeriod` frames (health read, resync to zero after a rejection, mode
asserted again), and `Send` or `SendFails`.  `ReadHealth` and `StoreHealth` are
`can_thread`'s refresh of the same snapshot, whose read may be old when it is
stored.  `BoardReset` is a reset of the board at any point, and `OtherBlocked` a
rejected frame of `long_tx_thread`, which the same `safety_tx_blocked` counts.
`stall` counts the rejections since the last accepted frame and `lost` the faults
since then.

### RadarHandover
`tk` is where `takeover_thread` is and `lt` where `long_tx_thread` is; the flags
keep their names.  `Engage`, `SuppressRaises`, `SuppressReturns`,
`StillSending`, `TakenOver`, `Release`, `RadarBack`, `RadarStaysAway` are the
steps of the first thread; `DeadMan`, `RadarReturned`, `Reenter`, `Recheck` of
the second.  The radar is external: it is modelled from what the code assumes
of it (a session lapses without tester-present) plus the faults in
`RadarFaults`, which the code tests for.  Durations are steps, except that a
lapse takes less than the 20 s wait for the radar's return unless "no_return"
is chosen.  `echoes` is the link of the process, with our own frames reported back
(the retired serial panda) or not (`UsbPanda.can_recv` drops them): `Foreign`, the
census of 0x21b less our own count, depends on it.

### TxFifo and CanTxQueue
`TxFifo` is the promise: per bus a sequence and a frame in flight, and the listed
reasons for which a frame may be lost.  `CanTxQueue` has the rings with their
pointers, mailbox 0 of each bxCAN controller, the pending transmit interrupt,
the OUT endpoint and a program counter for the interrupt level and for the main
loop.  On the F407 everything runs in handlers of one priority; on the F446 the
host is served in the main loop and handlers come in between two critical
sections of `can_send` and of `can_init_all`.

| action | code |
|---|---|
| `Forward`, `HostSend` | `can_send` from `can_rx` and from `comms_can_write`, on either bus: push, endpoint refresh, then `process_can` as a step of its own |
| `Process`, `TxIrq`, `can_sce` | `process_can` with its pop, checksum test and mailbox load; the transmit and error interrupts |
| `XferComplete` | the end of a USB transfer: the endpoint opens or NAKs |
| `SetSafetyMode`, `InitStep`, `ClearRequest` | `can_init_all` step by step, and request 0xf1 |

Abstractions: a slot without a waiting frame holds `NoFrame`; a chunk of the
endpoint is one frame and a transfer at most `MIN_SLOTS` frames; `tx_irq` stands
for the RQCP bits; a mailbox keeps its frame through the initialisation of its
controller.  Mode changes come from the host only, as the timer of the tick has
no clock on these boards.

### Engagement and LongHold
`Engagement` is `StateMachine.update` with its soft-disable timer, the mismatch
counter of `data_sample`, and the publication of `selfdriveState` and
`onroadEvents` as two steps, because they are two messages.  Which events hold is
an input (`EventSets`).  `LongHold` adds `Controlsd` (`longActive`, the state
machine of `LongControl`) and `CarUpdate` (`CarController.update`: one operator
per counter or flag, in the order of the code, and the pair CRZ_INFO / CRZ_CTRL
it builds every `LONG_COMMAND_STEP` frames).  The follow and cruise profiles are
one, "engaged"; the ramp of the brake near a stop is its target.

### Msgq
A step is one load, store, compare-and-exchange or cell of a copy in the shared
memory, for the publisher (`w`) and each subscriber (`r`).  A payload word
carries the number and size of its message, so a torn copy shows.  Either
process may die between any two steps and start again; the header and the data
outlive it.  The bound of one subscriber and one slot makes a restarted
subscriber evict its own predecessor.

### HostLink
One action, `Recv`, is a call of `_recv_resync` after the parse: the wrong-lock
detector, the rate watchdog, the silicon-against-host check with its two cases,
and the stall watchdog, in that order and with what each leaves behind.  Time
passes by the gap between two calls; a window is what its calls brought back,
and one that was full for a part of the time may be judged either way.  The
faults (a clogged or wedged link, a slipped lock, a core stuck in
initialisation) and what cures each are external, as the comments of the code
report them.

## 4. Runs

Passing:

| run | shows |
|---|---|
| `safety_mads_brake` | in the F407 build, over every frame the hooks tell apart: no control while braking in motion and arming only by a button press of this session (both alpha long), no unauthorised actuation, one steering source |
| `board_live` | the stock gate with a clocked tick, under every request, power save, resets and host loss: the car mode needs a heartbeat, unused control expires in time, a dead host disarms for good, a foreign LKAS sender is noticed |
| `steer_torque` | slew limit from one accepted frame to the next, driver override, zero always passes |
| `lateral_loop` | with lost frames, failed polls, resets and rejections of other senders: rejections have a cause, stalls are at most one poll period and one more for each fault, and a session that stays up accepts the demanded torque and stays there |
| `handover_faults` | on both kinds of link: no gap in 0x21b but the listed cases; a mute and two writers with ACC off end, the mute fails open |
| `can_tx_queue` | on both boards: the rings implement `TxFifo`, a mode change leaves no old frame in a ring, no lost wake-up of a ring or of the endpoint, transfers fit, and a ring on a bus that goes on forwarding moves |
| `msgq_ring` | a writer that laps its reader, queueing and conflating, with a death of either process: delivery is whole and in order, readers catch up |
| `long_hold` | a soft disable whose condition stays ends a session in time, a withdrawal reaches the car, stop frames brake, the brake relaxes only after the latch, holds end for a cause |
| `host_link` | on a board without an ignition line: starvation and a wrong lock end, a frozen core ends while the ignition is remembered; a parked car is not reset in a loop |

Violations.  Each states what a comment or a document of the repository says and
shows that the code does something else; the quoted lines are in `findings`.

| run | disagreement |
|---|---|
| `lateral_on_brake` | the MADS_BRAKE build is documented to keep lateral control with the brake down; `generic_rx_checks` takes it on the brake's edge, and on every frame in motion |
| `unclocked_host_loss` | with the tick's timer unclocked, as the F446 and F407 ports leave it, the heartbeat timeout never happens |
| `handover_after_halt` | the radar is silenced again after `long_tx_thread` has ended |

The conditions under which the passing runs hold are values of constants or
clauses of a property, and each of them matters; without it there is a
counterexample, which is what the code does:

- `TickClocked = TRUE` in `board_live`: without a clock `safety_mode_cnt` stays 0,
  so a foreign LKAS sender is not noticed either.
- `Build = "STOCK"` in `board_live`: with the level gate of the MADS builds
  unused control is granted again at the next CRZ_CTRL frame with MAIN on, and
  likewise after the lag check of `safety_tick`.
- `~acc_active` in `TwoWritersEnd`: with ACC on it is the census that has to end two
  writers.  `dashcam_web.py` 5649 subtracts our own count from it, and over
  `UsbPanda` (`usb_panda.py` 664-675), which drops our echoes, a radar that did not
  stop stays hidden behind that: both write until ACC ends.
- `mazda_longitudinal \/ Build # "MADS_BRAKE"` in `NoControlsBrakingInMotion`: the
  level gate of the MADS_BRAKE build is meant to keep lateral control with the
  brake down.  That the generic check takes it is `lateral_on_brake`.
- `OtherTraffic = FALSE`: frames of the camera's bus stamp the receive liveness too,
  so with bus 2 alive a quiet bus 0 is not noticed (`MuteFailsOpen`).
- `RadarFaults` without `"slow"`: the count of foreign 0x21b starts before
  `CarInterface.init` returns (`dashcam_web.py` 5620), so a radar that goes silent
  late aborts a handover that worked, and the abort leaves `radar_hold` set: the
  radar stays muted with the gate closed.
- `Allowance(lost)` in `StallIsBounded`: each lost frame, failed poll or board reset
  may lengthen a stall by one poll period.  `DemandIsReached` asks for no rejected
  frame of `long_tx_thread` (`OtherBlocked`): the counter is shared, so each one
  makes the torque start over from zero at the next poll.
- `undelivered` in `RejectionHasCause`: a frame lost on the link makes the next one
  exceed the panda's rate with control allowed.
- `halted` in `NoSilentStall`: a popped frame with a bad checksum loads no mailbox,
  so nothing pops the next one until a new frame of that bus arrives;
  `QueueMoves` therefore has strong fairness of `Forward`.
- `shared` in `HostFramesFit`: frames forwarded to a bus take the room that the
  endpoint was opened for, and the host is not told of the loss.
- `SETTLED = TRUE` in `msgq_ring`: a premise on timing, which no line of `msgq.cc`
  enforces (`MayCall`, `MaySend`).  No publisher starts while a subscriber is in a
  call: one that starts between a subscriber's compare-and-exchange (`msgq.cc` 215)
  and the store of its uid (225) zeroes `num_readers` (162) and leaves a holder of
  a slot that nobody counts, and is not warned of being lapped.  With more
  subscribers an evicted one inside `msgq_reset_reader` may write into a slot that
  is already another's.  A process that dies half-way through withdrawing the slots
  leaves `num_readers` at 0 with holders behind it, so a claim may hit a slot that
  is still held; the premise is that the next publisher withdraws it first, and that
  no evicting subscriber dies while another holds a slot.  A reset that has loaded
  the write pointer stores it within a lap.
- `ignition_on` in `FrozenCoreIsReset`, with `IGNITION_LINE = FALSE`: on this board
  (`harness.h` 102-104, `PANDA_NUCLEO`) the ignition is only known from ENGINE_DATA,
  which comes through the controller that is stuck.  A frozen core is reset as long
  as an ignition of before is remembered; once it is forgotten "ignition asserted,
  zero frames" (`usb_panda.py` 629) is never seen, and the recovery of 603-632 does
  not fire.  The absence of resets in a parked car is proved with and without a
  line.
- `open` in the liveness properties of `host_link`: when the reconnection in
  `_board_reset` fails, the closed handle stays, every later call raises, and
  `can_thread` swallows it (`dashcam_web.py` 2813); the comment leaves the decision
  to the caller, which takes none.
- `edge` in `StopBitsMeanBraking`: at exactly `NEAR_STOP_ENTRY_SPEED` the intent is
  kept and the clamp does not apply.

Further observations, none of which a property depends on:
`resume_crz_latched_frames` of `CarController` influences no frame; a `starting`
state is configured in `mazda/interface.py` but `long_control_state_trans` never
produces it for this car; the driver's RES is ignored while the car is stopping
and not yet latched; the mismatch counter of selfdrived accumulates over a
session, to 200 (`selfdrived.py` 346), where its comment (506-509) speaks of two
samples, so no bound on it is claimed; power save entered before a session may leave the
camera's controller without interrupts, when `llcan_init` times out in the mode
change that should bring them back; the wrong-lock reset of
`_recv_resync` has no cooldown and does not stamp the one of the other resets; the
check that resets the board stores the old count after `_board_reset` cleared it,
so the next window is usually not judged.

### Bounds and why they are enough
- *Frames.* Hooks only look at the bits in `Bit`, so `MCRxFrames` is every
  distinguishable Mazda frame of bus 0 plus representatives of other buses and
  of unlisted addresses.  The board's runs use the frames that arm, disarm and
  age the board; the full set is covered by the safety runs and the refinement.
- *Counters.* `heartbeat_counter`, `ignition_can_cnt`, `safety_mode_cnt` and the
  message ages saturate one past the largest number they are compared with
  (`HEARTBEAT_CAP`, `IGNITION_CAP`, `MODE_CNT_CAP`, `LagCap`); the history
  counters `unused_ticks` and `stall` saturate one past what their property
  allows (`HISTORY_CAP`, `STALL_CAP`).
- *Torque.* Limits are scaled down with their order kept (2 up, 1 down against a
  maximum of 6, a window smaller than the maximum in `steer_torque`, and a sender
  that asks for at most 3 in `lateral_loop`, where `MAX_LOST` counts up to 2 faults
  between accepted frames).
  `MCSteerTorque` lets the driver push a limit past zero, which the real sensor
  cannot.  The theorems hold for every value of the limits.
- *Poll period.* 2 frames instead of the code's frames per 100 ms: a stall can
  begin before, at and after the poll.  `StallIsBounded` is proved for every
  period and every bound on the faults that are counted.
- *Re-entries.* 3, as in the code.
- *Rings.* Three slots, of which two can be used, with transfers of two frames:
  pointers wrap, meet and overflow, and one forwarded frame is enough to take the
  room of a transfer.  The host sends a good and a bad frame on bus 0 and a good one
  on bus 2.  The theorems hold for every size.
- *Messages.* Nine cells, payloads of one and two cells and five messages: the
  writer wraps, laps a reader that stands anywhere in the segment, and the reader
  restarts in the middle of it.  One subscriber, because two with a slot each are
  out of reach together with liveness; the theorems hold for any number.
- *Hold phases.* Latch after 1, relax after 3, passive after 4 frames, and releases
  of 1 and 2 frames, in the order of the code's numbers; a soft disable of 2
  frames and 3 mismatches.  The theorems hold for every value that
  `HoldAssumption` allows.
- *Windows.* A window of 2, cooldowns of 3 and 4, calls 1 or 2 apart: windows end
  exactly or late, and the soft reset may fall between, on and after a board
  reset.  One health read fails (`MAX_FAULTS`).

### Fairness
- `tick_handler`: a hardware timer; weak fairness, and only where
  `TickClocked` says it has a clock.
- a foreign LKAS sender (`ForeignLkasSpec`): the premise of the property, not a
  promise of the code.
- `TxThread`, `Takeover`, `LongTx`: daemon threads that sleep for bounded times
  and catch the exceptions of their loops.  The link, the driver and the board's
  resets get no fairness; `DemandIsReached` states its premise (a session that
  eventually stays up) itself.
- the board's handlers (`TxFairness`): a pending interrupt runs, a frame in the
  mailbox is sent or its error interrupt comes.  `Forward` is strongly fair, a
  premise of `QueueMoves`: the bus keeps carrying frames to forward.
- `PublishEvents`, `FollowsEngagement`, `CarUpdate`: loops at 100 Hz.  What they
  read may stay the same, so only the steps that pass a decision on are required.
- `Writer`, `Subscriber`: a process that is up takes its next step; deaths and
  starts are bounded by `MAX_DEATHS`.
- `Recv`: `can_thread` calls for as long as the process runs.  The car, the board
  and the link get none.
- `SessionLapses`, `RxExpires`: the radar's own time-out and the comparison of a
  clock with a stamp that is no longer refreshed.

## 5. What is proved

TLAPS checks every theorem for all values of the constants, from the `ASSUME`
named in the module that declares them; no run replaces a definition, so runs
and proofs speak of the same formulas.

- `MazdaSafety_proofs`, from `SafetyAssumption` (a known build; any sets of
  frames): type correctness, `NoControlsBrakingInMotion`, `ArmedByButton`,
  `ActuationIsAuthorised`, `RelayMalfunctionLatches`, each with its clauses on the
  build.  The inductive invariant
  adds that the `_prev` copies equal their originals between frames (the tx hook
  reads the copies), that a remembered button was a press of this session (so
  the falling edge of SET cannot come from an earlier one), and that idle modes
  hold no control.  A second one (`RelayIInv`) gives `OneSteeringSource` and
  `IdleModeForwards`: the idle mode starts without a relay malfunction and never
  gets one, and the camera's LKAS frame is blocked wherever the host's may pass.
- `PandaBoard_proofs`: the board implements the safety model step by step, hence
  `ActuationIsAuthorised` in the running board, and `CarModeNeedsHeartbeat`.
  `BoardIInv` adds that control of the stock build means cruise, that the history
  of unused control is bounded by the mismatch counter, and that the counter is
  below its limit while control lasts; from it `MismatchesSinceArmed`,
  `UnusedControlsExpire` and type correctness.
- `LateralLoop_proofs`, which also holds the theorems of `SteerTorque`.  From
  `SteerAssumption`: type correctness, `RtCeiling`, `ZeroAlwaysPasses`,
  `DriverOverrules` and `AcceptedSlew`.  The invariant says that the panda's reference
  is zero or the last accepted torque, which is why a reset can only make the next step
  smaller in effect.  From `LoopAssumption`: the sender's limits are within the
  panda's and no driver torque brings the panda's limit below `STEER_MAX`.  The
  repository's values satisfy it: 800 <= 2047 (`max_torque` and
  `max_rt_delta`), 80 <= 80, and 2047 + 15 - 127 >= 800.  Proved:
  `LoopImplementsSteer` (so the sender inherits all of the above),
  `RejectionHasCause` and `StallIsBounded`.  The invariant relates the two torque
  histories at each point of the iteration (`HistoriesAgree`, `OneTorque`) and
  the length of a stall to the frames since the last poll and to the faults
  (`StallSincePoll`).
- `RadarHandover_proofs`, from `HandoverAssumption`: type correctness (with the
  bound on re-entries) and `NoGap`.  The invariant says what the two threads know
  of each other: the gate is open from the entry to the end of the release, a
  waiting thread has a sending radar, and a session request is only pending after
  a completed handover.

- `CanTxQueue_proofs`, from `TxAssumption`, for rings of every size: type
  correctness, the refinement of `TxFifo` (the mapping turns each push, pop and
  clear of pointers into the step on sequences, across the wrap), and
  `ModeChangeEmptiesRings`, `NoSilentStall`, `EndpointReopens`, `HostFramesFit`.
  The invariants: only the host's level runs `can_init_all`, which leaves ring 0
  free of old frames from its second step on and ring 2 at its end
  (`OldFramesGo`); and the ring keeps the room that the endpoint was opened for
  while nothing is forwarded (`RoomKept`).
- `LongHold_proofs`, from `EngagementAssumption` and `HoldAssumption`: the
  composition implements `Engagement`; `SoftDisableIsBounded` (timer and run add up
  to the length of the timer); `StopBitsMeanBraking`, `BrakeRelaxesAfterLatch` and
  `HoldEndsForCause` from `HoldInv`: a latched intent has no release under way, a
  count without an intent has one, a remembered virtual RES was sent in this
  standstill, and a hold that is older than the latch phase by a command period
  has been told to the chassis.
- `HostLink_proofs`, from `LinkAssumption`: type correctness and
  `ParkedCarIsLeftAlone`.  The invariant: whatever the board tells of the car (the
  engine, frames in the silicon's count, the ignition) it has seen since it
  booted, which every branch that resets it needs.
- `Msgq_proofs`, from `MsgqAssumption` (any numbers of subscribers and slots, a
  segment of any size, message sizes within the assertion of `msgq_msg_send`) and
  `SETTLED`: `MsgqTypeOK`, `DeliveredIntact` and `DeliveredInOrder`, for any
  interleaving of single loads and stores and deaths of any process within it.  None of them is inductive; `MsgqIInv` has these parts:
  - `SlotInv`: whoever withdraws the slots is alone and leaves none behind it, a
    claimed slot is nobody else's, and only a subscriber outside a call loses its
    slot.  A subscriber in a call therefore never touches the slot of another.
  - `SegmentInv`: but for the one being written, every size tag in the segment
    starts a whole message, behind which is the next one, the write pointer or the
    wrap-around tag of the last lap; numbers grow along a lap, and what is left of
    the last lap is older than all of the new one.
  - `WriterInv`: what the publisher has stored of its message is whole and ends
    before the last cell.
  - `LocalInv`: what a subscriber has in its locals whatever became of its slot;
    a copy that is being handed out is whole and newer than the last one.
  - `ReaderInv`, for a subscriber whose flag is set: it stands at a message newer
    than the last one it got, at a wrap-around tag or at the write pointer; a
    publisher that has passed its slot in the loop leaves it out of the area it
    writes (`Passed`, `PlaceOK`); and what it has loaded so far agrees with the
    segment (`TagOK`, `CopyOK`).  Nothing is claimed of one whose flag was
    cleared, which is why the flag must be read again after the tag and after the
    copy.

  The parts about the segment, the publisher and a subscriber are predicates of
  values: the lemmas say once what a store, a wrap-around and a publication do to
  a message and to a subscriber at any place (`StoreKeepsReader`,
  `WrapKeepsReader`, `PublishKeepsReader`), and each action cites them.

Only model-checked: liveness (`HostLossDisarms`, `ForeignLkasNoticed`,
`DemandIsReached`, `MuteNeedsAcc`, `TwoWritersEnd`, `MuteFailsOpen`, `QueueMoves`,
`CatchesUp`, `WithdrawalReachesCar`, `StarvationEnds`, `WrongLockEnds`,
`FrozenCoreIsReset`), which is outside the prover's reach.  Only proved, with no
run of their own: the type invariants (but `MsgqTypeOK`), `IdleModeForwards`,
`RelayMalfunctionLatches`, `MismatchesSinceArmed`, the refinements of
`MazdaSafety`, `SteerTorque` and `Engagement`, `RtCeiling`, which is about a
microsecond timer without a clock, and the builds `MADS` and `STOCK` of the
safety model's properties (the theorems hold for every `Build`).

## 6. What is not modelled

- The receive ring with echoes and rejections, packets split over transfers, the
  serial link and its framing.  Their losses are nondeterministic choices in
  `LateralLoop` and `RadarHandover`, and the parser's lock is one in `HostLink`.
- In `Msgq` the check for a second publisher (`write_uid`), polling and signals,
  and visionipc.
- Which event selfdrived raises when, and its alerts; the lateral part of
  `CarController.update`, which this stack does not use.
- The process manager and pandad: `dashcam_web.py` talks to the board itself and
  starts its own threads.
- Preemption inside a safety hook.  The F446 build serves host requests in the
  main loop, where an interrupt may come in between.  `CanTxQueue` has it for the
  queues; the safety modules describe the F407 build, whose handlers do not
  preempt each other.
- 32-bit microsecond time: ages are whole seconds or "late", so the wrap after 71
  minutes is not covered.
- Coexist mode and arm-time suppression of the radar; ELM327, all-output and the
  modes of other cars.
- Perception, planning, UI and logging: numerical or I/O code, outside the reach of
  a model checker.
- Most of the repository by lines is no control logic of this stack: generated
  cereal and Cython code, register headers of the microcontrollers, DBC tables,
  the ports of other cars and vendored libraries.  None of it has a state machine
  of its own that the car of this repository runs.
