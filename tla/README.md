# Verification of the ODrive S1 firmware's control logic

This directory specifies the discrete core of the firmware under `src/Firmware`
in TLA+: the configuration store, the calibration pipeline with the commands
that race it, how the motor is powered and floated, how the position of the joint
is found and followed, the command watchdogs, the CAN server, the shared SPI bus,
and the stream of calibration records out of the USB port. The specifications are
model-checked with TLC; the safety of all of them, and every refinement, are also
proved with TLAPS for every value of their constants (section 5). What the code does
otherwise than its documents and comments say is shown by runs that violate it
(section 4).

Most of the repository by lines is vendor code (CMSIS, the STM32 HAL, FreeRTOS,
the USB stack, doctest), generated code, floating-point control and the Python
tools. The specifications cover the hand-written control logic that is left.

Contents: [1 Inventory](#1-inventory), [2 Modules](#2-modules),
[3 Runs](#3-runs), [4 Findings](#4-findings), [5 Proofs](#5-proofs),
[6 Not modelled](#6-not-modelled), [7 Plan](#7-plan).
`PROJECT.json` holds the same information by definition: which lines each
definition stands for, what each run checks, which mutation of the code each
property catches, and the hazards the properties are aimed at.

## 1 Inventory

The firmware runs on one Cortex-M4 core. What may interleave follows from
priorities, and every module states which of these it relies on.

| context | priority | code |
|---|---|---|
| TIM8 update interrupt | 0 | samples ADC and encoders (`Encoder::sample_now`) |
| control-loop interrupt | 5 | one control iteration, error checks, fast capture |
| SPI DMA interrupts | 6 (TX), 7 (RX) | `Stm32SpiArbiter::on_complete` and its callbacks |
| USB, CAN interrupts | 6, 9 | post events, release semaphores |
| axis thread | High + 1 | `Axis::run_state_machine_loop` |
| calibration transport | AboveNormal | `calibration_transport_task` |
| CAN thread, USB thread | Normal | command handlers, stdout |
| log thread | Low | `printf` |

| component | state | operations | interacts with |
|---|---|---|---|
| Configuration store: `stm32_nvm.c`, `nvm_config.hpp`, `ODrive::save_configuration` | two flash sectors with allocation tables, RAM variables describing them, `store_state`, configuration structs | load at power-up, prepare, start, write, commit, erase | CAN (SAVE, ERASE), the calibration commit |
| Calibration session: `calibration_session.hpp` | id, profile, state, stage, failure code | begin, transition, set_stage, fail, abort | axis thread, CAN thread |
| Axis state machine and pipeline: `axis.cpp` | task chain, requested state, candidate result, configuration on trial | six experiments, validation, commit, start-up sequence | motor, encoder, session, store, CAN |
| Motor and encoder calibration: `motor.cpp`, `encoder.cpp` | `is_armed_`, measured parameters, offsets | arm, disarm, run_calibration, run_offset_calibration | axis thread, control-loop interrupt |
| CAN commands: `can_simple.cpp` | none of their own | START, ABORT, Set_Axis_State, configuration writes, SAVE | everything above |
| Record stream: `calibration_buffer.hpp`, `calibration_transport.cpp` | lock-free ring of 32 records, counters, the record in hand | push, pop, reset, send, discard | control loop, axis thread, USB stdout |
| USB stdout: `interface_usb.cpp`, `usbd_cdc_if.c` | byte ring of 4096, event queue of 7, packet under way | write, write_frame, events, transmit | transport, log thread, USB interrupt |
| SPI arbiter and its users: `stm32_spi_arbiter.cpp`, `mt6826s_spi.cpp`, `drv8301.cpp` | linked list of tasks, bus, per-sensor transaction, pair state | transfer_async, transfer, on_complete, pair of reads | two encoders, gate driver |
| Joint position: `encoder.cpp`, `vernier_resolver.cpp` | the last pair's result, the anchor, the count, the continuous and the circular position | sample, resolve, publish, reset, re-zero, configure | SPI callbacks, control loop, start of closed loop, CAN |
| Control timeout: `control_timeout.cpp` | two deadlines, the latch and state of a timeout | feed, check, clear, apply the action | CAN thread writes inputs and feeds; control loop checks; controller obeys |
| CAN server: `odrive_can.cpp`, `can_simple.cpp` | eight filter slots, FIFO, mailboxes, the id subscribed | subscribe, unsubscribe, service, receive, send, wait | controller interrupts, every CAN command |
| Arming and protections: `motor.cpp`, `board.cpp`, `main.cpp`, `low_level.cpp` | `is_armed_`, `armed_state_`, the control law, PWM registers, brake resistor | arm, apply timings, disarm, the two interrupts | timers, ADC, axis thread, CAN thread |
| Control laws, estimators, fitters | floating point | — | — |
| Host tools: `tools`, `foc_ui` | — | — | protocols above |

What is hard, and what would make each component correct:

* **Store.** Power may go, or the flash may fail, between any two flash
  operations; sequence numbers wrap; a store that failed is tried again.
  Correct: a power-up finds the configuration from before the save or the one
  being saved, a failed save changed nothing, and the RAM variables never
  disagree with the flash.
* **Pipeline.** Each experiment borrows the live configuration, blocks with
  trial values in it, and has many exits. The host aborts, edits, saves and
  requests states at any blocking point; the interrupt disarms at any step.
  Correct: trial values never survive their experiment nor reach flash, a
  commit is all or nothing, the motor is floating at every exit, a session ends,
  and session, stage and failure code tell the host the truth. (That they never reach
  flash, and that every session ends, is more than the code does: section 4.)
* **Arming.** The timers latch timings and enable outputs whatever the software
  is doing; two interrupts and two threads arm, disarm and apply. Correct: a
  motor that is not armed floats and stays so, what is driven was computed for
  now from currents that were really measured, and a law is not called once its
  owner has gone.
* **Position.** No encoder shows the position of the joint; two reads at two
  instants do, and everything later is counted from an anchor that three
  contexts move. Reads fail, come late, and the resolver may give up and start
  again. Correct: the joint is always in the turn of the motor it is really in,
  and nothing but motion looks like motion.
* **Watchdogs.** The tick wraps, 0 means no deadline, and the interrupt comes
  between any two steps of a command. Correct: every silence leads to the
  configured action, and nothing but silence does. (The code has exceptions to the
  first: section 4.)
* **CAN server.** Interrupts switch themselves off and are switched on again
  after the last fetch; the filter follows a node id that the bus may change.
  Correct: no frame and no due message waits for ever, and a node hears its id. (For
  as long as there are slots: section 4.)
* **SPI.** Three interrupts and the threads preempt one another within a list operation, and a
  completion callback submits the next transfer. Correct: the list is a queue
  served in order, with one callback per transfer, and nobody waits for ever.
* **Record stream.** A producer that may preempt a pop between any two loads,
  a full queue, wrapping counters, a session that resets the queue, a host that
  comes and goes. Correct: nothing torn, lost or reordered; gaps are marked.
* **USB stdout.** Events are posted without waiting to a short queue; the host
  may reset the device with events still queued. Correct: each byte once and in
  order, and data does not stay while a host listens.

## 2 Modules

`X -> Y` below means that X is checked to implement Y.

| module | models | abstract specification |
|---|---|---|
| `NvmStore` | configuration store | `-> DurableConfig` |
| `NvmStoreProofs` | proofs about `NvmStore` | |
| `CalibrationSession` | session object, as pure functions | used by `AxisCalibration` |
| `AxisCalibration` | axis thread, CAN commands, disarming interrupt | `-> CalibrationContract` |
| `AxisCalibrationProofs` | proofs about `AxisCalibration` | |
| `SpiArbiter` | SPI arbiter, two sensors and their pair, gate driver | `-> SpiService` |
| `SpiArbiterProofs` | proofs about `SpiArbiter` | |
| `MotorArming` | arming, both interrupts, timers, brake resistor | `-> PowerStage` |
| `MotorArmingProofs` | proofs about `MotorArming` | |
| `VernierPosition` | sampling, resolver, position of the joint | |
| `VernierPositionProofs` | proofs about `VernierPosition` | |
| `ControlTimeout` | command and heartbeat watchdogs, and what feeds them | |
| `CanServer` | CAN thread, subscriptions, FIFO, mailboxes | |
| `CanCommandProofs` | proofs about `CanServer` and `ControlTimeout` | |
| `RecordStream` | record queue, producer, transport thread | `-> RecordChannel` |
| `RecordStreamProofs` | proofs about `RecordStream` | |
| `UsbStdout` | byte ring, writers, event queue, USB thread, CDC class | |
| `UsbStdoutProofs` | proofs about `UsbStdout` | |

`MC*` modules instantiate these for TLC. Operators whose names end in
`_SomeChange` are deliberately wrong variants of an action (a dropped guard, a
missing reset); they are not part of any specification and serve to show that a
property would notice that bug.

**NvmStore.** One step is one flash program or sector erase; `flash` holds for
each sector the allocation table and the fields, `nvm` the RAM variables of
`stm32_nvm.c`. `Scan`, `Inspect` and `NVM_init` are the functions that read the
log back. A save is the sequence `PrepareStore`, `EraseTarget`, `ClaimField`,
`WriteHeader`, `WriteChunk`, `SealHeader`, `PublishField`, `RetireOld`;
`FlashFailure` and `PowerLoss` may come between any two. Programming only clears
bits: writing a field that is not blank makes it garbage. CRCs are taken to be
collision-free: a sealed header carries the payload it was computed over. Two history
variables serve the properties: `stored` is what a power-up would load now, `before`
what it would have loaded when the last operation was called, so that `SaveContract`
can compare the end of a save with its beginning, over all the steps between.

**AxisCalibration.** `pc` names the point the axis thread is blocked at, or the
code it runs next; `asleep` says that it is really blocked, and only then may a
CAN handler run, because the axis thread outranks it. A run of code without a
blocking call is a step or a few. The idle loop blocks twice: it reads the fault
registers of the gate driver (`faultRead`) before it looks at the requested state, and
each of these reads sleeps until the SPI bus has answered. `requestedBy` and `chainBy`
remember who asked for what is requested and what is executed. SAVE is refused while
the motor is armed, and only then, as in the code. The values of parameters are abstracted to
*who is answerable for them*: the user, the running experiment (`Trial`), or the
session that committed them. That is what the transactional promises need, and
it makes restore, edit, save and commit distinguishable. Each measurement may
succeed or fail; fits and range checks are a free choice. A measurement cut
short while it stayed armed may also succeed, as in the code. The contract promises
that the model the user is left with is changed by the user and by a commit alone; what
`Save` stores while an experiment has values of its own in force (`trying`) may be a
mixture of these and the user's (`Mixed`), because the code does store it.

**SpiArbiter.** `frame` holds for each context, three interrupts and the `Threads`
that call `transfer()`, what it is executing; a context steps only if those above it
are at rest. The firmware has one such thread at a time: the main thread while it sets
the gate driver up, the axis thread afterwards. `next` and `taskList` are the pointers
of the code. A critical section is one step; everything else is
split where another context could see the difference, down to the order in which
`handle_spi_done` clears the transaction, takes the callback and releases the
task. The HAL may refuse any start and any transfer may fail; `faulted` records
that one of these has happened, and liveness is promised only before.

**RecordStream.** A pop is three steps (load, copy, store), a push one, since the
producer outranks the transport. START and the connection change only while the
transport sleeps, since they come from threads below it. A record is its
session, sequence number and DROPPED_BEFORE flag.

**UsbStdout.** The ring is counted in cells instead of bytes; a frame is two
cells, a text up to one, a packet two. The event queue drops what does not fit,
as `osMessagePut(..., 0)` does. The cells have names only so that properties can
say which of them the host has read. The hardware takes a packet over when it is
submitted (it fits the endpoint FIFO, and the FIFO interrupt follows at once).

**MotorArming.** The environment is the pair of timers: `Tim1Update` latches the
compare registers, enables the outputs if told to, and samples; `Tim8Update`
raises the interrupt that paces everything. TIM1 leads TIM8 by a quarter of a
period (`start_timers`), so the four events alternate, and `next` says which one
is due. `isr` is the point the control-loop interrupt has reached, `cs` the point
within a critical section, during which only the timers act; TIM8's interrupt
preempts the rest, and threads run when no interrupt wants to. Timings are
abstracted to their age: `fresh` when written, `used` once latched, `stale` if
latched again, `torn` while half written, `half` for the harmless 50 %. A current
is `driven`, `blind` (sampled before the outputs came on), `zero` or `off`.
`axis` is an operation of the axis thread: a measurement, whose control law lives
on its stack, or a run under the current controller. `ERROR_CONTROLLER_INITIALIZING`,
which no law returns with the outputs off, is left out.

**VernierPosition.** Positions are counts of the main encoder modulo one turn of the
output shaft. `shaft` is where the motor really is; an angle that was read is kept
as the position it was read at, and `Main` and `Nonius` are all that the code may
know of it: its phase in a turn of the motor, and what the phases of both encoders
say together. So a property can compare what the code computes with the truth.
`ControlPeriod` is the sampling interrupt and the control loop behind it; the SPI
callbacks come when no other interrupt runs, and a pair is three of them, between
which the shaft turns. Threads run when nothing else does. `LOST` stands
for the states of the resolver without a position (UNINITIALIZED, ACQUIRING, ERROR). What is
unknown is kept as 0. The error for a sample that is missing too long disarms
the motor, for which `stop_closed_loop_control` stands. `Followed` is the premise of
the whole method: from one sample taken in to the next, and from one read of a pair
to the other, the shaft turns at most `MaxTravel`, so little that neither encoder's
phase is ambiguous, and from one pair a locked resolver takes in to the next less than half
a turn of the motor. A resolver that has given up may be left behind by any distance.
`VernierResolver::reset()` runs below the axis thread with interrupts on: it is two steps
(`ResetBegins`, `ResetEnds`) with everything else between them. The history variable
`astray` holds what may have led the resolver or the position astray since they were last
found anew: the shaft left the turn of a resolver that has given up (`"lost"`), or a pair
locked (`"paired"`) or closed-loop control started (`"started"`) within a reset. The
properties that hold are about behaviours without these; section 4 shows what each does.

**ControlTimeout.** A motion frame writes its inputs (in a critical section) and
then feeds; `pc` is where the CAN thread is, and `ControlIteration`, the control
loop, may come before each step. An input is abstracted to whether it asks for a
speed, a torque or an MIT law, and a target to whether the controller has seen
it; `trajectory` says that one is being followed, which ends by itself or with a new
target, but not with a timeout. Ticks are modulo `Wrap`; `commandAge` and `heartbeatAge` count the silence
without wrapping, for the properties only. Configuration writes are refused
while armed, as `handle_set_control_config` does.

**CanServer.** A frame is its addressee and the id it sets, if any. The thread
goes round `service_stack`, `process_rx_fifo` until the FIFO is empty,
`ActivateNotification` and `SemaphoreWait`. `subscriptions` holds what each
filter bank accepts; `denied` (history) says that the last subscription found no slot,
which no caller looks at. The controller raises an interrupt as long as its cause is
there and its notification is on.

How they fit together: `AxisCalibration` commits through a store assumed to
behave like `DurableConfig`, which `NvmStore` implements, with save as one step
because `save_configuration` runs with interrupts masked. `MotorArming`
splits what is one step in `AxisCalibration` and `ControlTimeout`: their `armed`
is its `armed`, and `FloatingWhenDisarmed` is why it can stand for the outputs.
`VernierPosition` takes from `SpiArbiter` that a pair reads the main encoder first,
ends once and is not begun twice, and runs its closed loop where `AxisCalibration`
has its. The error that `FAULT_DISABLE` raises in `ControlTimeout` is the `error` that
disarms in `ControlLoopCb`. `CanServer` delivers the frames whose handlers are
the actions of `AxisCalibration` and `ControlTimeout`. `RecordStream` relies
on `CaptureIsOwned` of `AxisCalibration` for its single producer and for a reset
that never meets it, and its liveness assumes that stdout accepts a frame again,
which is `DrainsUnlessLost` of `UsbStdout`.

## 3 Runs

| run | checks | instance |
|---|---|---|
| `axis_calibration` | `PoweredOnlyWatched`, `CaptureIsOwned`, `TrialEndsWithExperiment`, `OnlyCommittedSurvives`, `SessionTellsTruth`, refinement of `CalibrationContract`, `SessionEndsUnmeddled`, `AbortComesToRestUnmeddled` | 2 sessions, 2 scan segments, the full start-up chain, three kinds of host; about 610,000 states |
| `nvm_store` | `LogIsSound` (nothing spoiled, RAM agrees with flash, one live sector), `SaveContract`, refinement of `DurableConfig` | 2 configurations, sectors of 7 fields, records of 3, 4 saves or erasures, sequence numbers mod 4; about 390,000 states |
| `motor_arming` | `FloatingWhenDisarmed`, `NoBlindSample`, `LawIsLive`, `TimingsRenewed`, `BrakeGuards`, `ArmingResolves`, refinement of `PowerStage` | iterations of up to 3 periods; about 580,000 states |
| `control_timeout` | `DeafOnlyWhenQuiet`, `SilenceStops`, `OnlySilenceExpires` | tick mod 4, a command watchdog of 1 tick, a heartbeat watchdog of 1 or 2, 3 servo modes, 2 configured actions; about 2,350,000 states |
| `can_server` | `OwnIdIsHeard`, `ServerKeepsUp` | 2 ids, 3 slots, FIFO of 2, 1 mailbox; about 85,000 states |
| `vernier_position` | `PositionIsAbsolute`, `NothingLooksLikeMotion` | 5 counts to a motor turn, ratios 3 and 2, a joint that turns forwards through the place where everything wraps, every second sample a pair, 1 missing read tolerated; about 3,470,000 states |
| `spi_arbiter` | `ArbiterIsSound` (the pointers are a list, the bus serves its head, the pair is in step, nothing is forgotten), refinement of `SpiService`, `RequestsAreAnswered` | the code's own users: two sensors and one thread; refused starts and failed transfers at any time; about 10,000 states |
| `record_stream` | `GapsAreMarked`, refinement of `RecordChannel`, `EveryRecordLeaves` | queue of 3, counters mod 6, 2 sessions of 8 samples; about 44,000 states |
| `usb_stdout` | `StreamIsContinuous`, `DrainsUnlessLost` | ring of 5 cells, 2 enumerations, event queue of 3 that overflows; about 150,000 states |
| `nvm_retire_interrupted`, `spi_error`, `relock_off_by_a_turn` | one property each, which the code violates | see section 4 |

Each passing run also checks its module's `TypeOK`, which is a conjunct of
`LogIsSound`, `ArbiterIsSound`, `OwnIdIsHeard` and `PositionIsAbsolute`.

Why the bounds are enough.

* *Store.* Seven fields of which a record takes three leave room for two records
  and one field: a sector is exactly full, and too full by one, within four
  saves. Four operations reach both sectors twice, and sequence numbers wrap.
  `nvm_store` excludes an interruption in the one window that the finding is
  about (`RetireMayFail = FALSE`), so that everything else can be shown to hold.
* *Pipeline.* Two sessions make the previous session's commit, failure or abort
  the start of the next one. Two segments already have a first, a pause between
  and a last, and a loop over four (the code's) differs in nothing else. All hosts start,
  abort, edit a group and save whenever the axis thread sleeps; what tells them apart is
  what they request of the axis. One requests nothing but IDLE, and only of it is liveness
  asked; one drives the axis itself, in closed loop and in an open-loop spin, and also
  cancels its requests; one runs a calibration of its own beside the session. They are
  three because the product of all their requests is too large for a run of every day.
* *Arming.* An iteration that is late by one event, by a whole period and by more
  are told apart by `MaxLate = 3`; the ages of timings need no more, since a third
  latch is already the violation. There is no other bound.
* *Watchdogs.* Half a range of two ticks is the smallest in which a deadline can
  be in the future, just past, and so far past that it looks fresh again. A deadline of
  one tick comes to the value that means none, one of two wraps past it. The three modes
  have the three different actions of the code, and
  `FAULT_DISABLE` is the override that fits none. To keep the run short, the heartbeat
  watchdog of one tick stands beside the modes with a quick stop and a trajectory, the one
  of two beside those that leave an MIT law behind. TORQUE, whose action MIT shares,
  is left to the proofs, which cover every set of modes.
* *Position.* With ratios of 3 and 2, what two encoders say together may be off by two
  counts when the shaft turns by one between the two reads, the most that five counts to
  a turn allow. The joint turns through five positions: the zero of the output, of the motor
  and of the count all lie within, and five counts are more than half a motor turn, so
  that a position off by a turn, or a pair older than it may be, is told from a true one,
  and a resolver that has given up can be left behind (`astray`).
* *CAN server.* Two ids take the three slots in a few renamings, because nothing is given
  back, and then a subscription may find none; a FIFO of
  two is overwritten at its end and has frames behind its head. `Burst` bounds the
  frames that come in while the thread empties the FIFO: a frame takes some
  hundred microseconds on the bus, fetching one a few.
* *SPI.* Besides the threads there is nothing to bound: both sensors are as in the code.
  With one thread the list already has a head, a middle and a tail. With two the safety
  properties hold in 137,000 states, too slow for a run of every day; the proofs cover any
  number.
* *Record stream.* A queue of three has an oldest, a middle and a newest record;
  eight samples let it overflow, drain and overflow again, and wrap the counters.
  `Wrap` must be a multiple of `Capacity`, as 2^32 is of 32.
* *USB stdout.* Four usable cells hold two frames, so that frame boundaries,
  packet boundaries and the end of the ring fall at different places in each
  round. Two enumerations let events of one meet the next. In the firmware a
  ring of 4096 bytes holds 29 frames of 140 bytes and the event queue 7 slots.
  The model keeps the queue as much too short for what can be posted between two
  turns of the USB thread: three slots for two frames, a text, a completion and
  the events of two enumerations. Behaviours in which no event is lost are part of
  the run too, and for these liveness is checked (`lost` records the first loss),
  which isolates the lost event as the only cause of a stall.

`CHECK_DEADLOCK FALSE` is set where the system may really stop or the bound
stops it: the store after its last operation, and the SPI queue once a start has been
refused or a transfer has failed.

Fairness.

* `AxisCalibration`: weak fairness of the axis thread. It has the highest
  priority, every loop of an experiment is timed, and an open-loop scan covers
  its commanded distance. That the thread goes on from `faultRead` supposes that the SPI bus
  answers the gate driver, which `RequestsAreAnswered` shows for a bus without faults. No
  host step and no interrupt is promised. Of `SessionEnds` and `AbortComesToRest` the run
  checks the case of the host that requests nothing but IDLE: one that asks for
  closed-loop control may drive for ever.
* `SpiArbiter`: strong fairness per context (the sampling interrupt is periodic
  and returns; what it preempts runs again), weak fairness of the DMA. No
  request is promised.
* `RecordStream`: weak fairness of the transport thread, strong fairness of an
  accepted frame: stdout has room again and again. That is an assumption about
  `UsbStdout`, which holds as long as no event is lost.
* `UsbStdout`: the transport thread returns to `osDelay`, the USB thread and the
  log thread get the processor again and again, and a host that stays configured
  reads its packets.
* `MotorArming`: weak fairness of the timers and of the interrupts: time passes,
  and an interrupt that is due runs to its end. No thread is promised anything, and
  no request to arm.
* `ControlTimeout`: none. What a silence leads to is stated by the tick:
  the control iteration is an action of its own, and what is checked is what it
  leaves behind.
* `VernierPosition`: none; both properties are safety.
* `CanServer`: `PromptSpec` has weak fairness of the thread, of the receive
  interrupt and of the bus letting frames out; no frame is promised to come in.

## 4 Findings

Each is a property that quotes a document or comment of the repository and that the code
violates: TLC finds a behaviour of the model that breaks it. Three are runs of
`PROJECT.json`, which has the full account:

* `nvm_retire_interrupted` — an interruption between publishing a record and
  retiring the old one makes a later save unreadable (`stm32_nvm.c:590`).
* `spi_error` — `transfer()` ignores its timeout, and neither a refused start behind
  a completion (`stm32_spi_arbiter.cpp:138`) nor a failed transfer (no
  `HAL_SPI_ErrorCallback` is defined) is reported: the axis thread waits for ever.
* `relock_off_by_a_turn` — a resolver that has given up keeps its last phase and does not
  follow the main encoder; when the shaft turns by more than half a motor turn meanwhile,
  it locks again a motor turn off (`vernier_resolver.cpp:554`), and the next start of closed
  loop takes that over. `MULTIRATE_CONTROL_REFACTOR_PLAN.md:271` says that the recovery of
  a pair must not make the output jump by 1/42 of a turn.

The others have a configuration each, which takes TLC a few seconds
(`tlc -config X.cfg M`), and a comment at the property that quotes what it violates:

| configuration, module | property | the document says | the code does |
|---|---|---|---|
| `MCAxisSaveInPause.cfg`, `MCAxisCalibration` | `StoredIsAuthoritative` | a session "does not persist results"; until they are staged "the existing configuration remains authoritative" (`calibration_session.hpp:7-9`) | SAVE looks at `is_armed_` only (`can_simple.cpp:952`, `main.cpp:149-157`); the scan sleeps disarmed between its segments with trial parameters in the live configuration (`axis.cpp:406-411`), and a SAVE there puts them in flash |
| `MCAxisStranded.cfg`, `MCAxisCalibration` | `StartIsDriven` | "After START is accepted, firmware owns the complete stage sequence" (`CAN_PROTOCOL_PRODUCTION.md:426-427`) | START writes `requested_state_` (`axis.cpp:1101`) and the idle loop reads the gate driver, asleep (`axis.cpp:1275`, `stm32_spi_arbiter.cpp:109-111`), before it looks at it: an IDLE that arrives meanwhile replaces the request, and the session stays in ELECTRICAL_CAPTURE until it is aborted |
| `MCControlWrap.cfg`, `MCControlTimeout` | `SilenceAlwaysStops` | on expiry "the firmware executes the mode-aware timeout action" (`CAN_PROTOCOL_PRODUCTION.md:305-307`) | a deadline that comes out as 0 (`control_timeout.cpp:76`) is none (`:98`): one command in 2^32 ms is followed by no timeout |
| `MCControlHold.cfg`, `MCControlTimeout` | `HoldFreezes` | "freeze the current position setpoint and hold it" (`odrive-interface.yaml:1321-1324`) | HOLD writes the input position (`control_timeout.cpp:137-138`); a trajectory under way goes on to its end (`controller.cpp:425-447`) |
| `MCControlHeartbeat.cfg`, `MCControlTimeout` | `HeartbeatLossStops` | the heartbeat watchdog is separate, and on expiry "the same timeout action path runs" (`CAN_PROTOCOL_PRODUCTION.md:309-311`) | with `can_watchdog_timeout_ms` 0 a command never clears the timeout (`control_timeout.cpp:75-80`), and while one is latched no deadline is looked at (`:109`): the second loss of the heartbeat has no action |
| `MCCanSlots.cfg`, `MCCanServer` | `SlotsSuffice` | `unsubscribe()` "deregisters a callback" (`canbus.hpp:38`) | it takes a slot in use for one that is not (`odrive_can.cpp:199`) and gives nothing back. The ninth node id finds no slot, nothing looks at that, and from then on the node is deaf to its own id, the frame that would change it back included |
| `MCVernierReset.cfg`, `MCVernierPosition` | `ResetIsWhole` | the resolver gives out `position_turns = x`, the position of the joint (`vernier_resolver.hpp:12`, `:26`) | `reset()` clears the flags of the last phase before the position (`vernier_resolver.cpp:20-25`) with interrupts on, called by every write of an offset (`encoder.hpp:66`, `encoder.cpp:467`): a pair that locks within it leaves a flag that says there is a position and a position of 0, to which the next pairs are snapped (`vernier_resolver.cpp:561`) |

All but two (that of the heartbeat needs a command watchdog of 0, a deaf node more ids than
slots) also lie in the state space of a run that passes; its properties say what still holds
beside them. `CalibrationContract` allows that a `Save` stores trial values;
`SessionEnds` excepts a session whose first request was overtaken (`Overtaken`);
`SilenceStops` speaks of deadlines other than 0, of what the inputs ask for anew, and of a
configuration with a command watchdog; `OwnIdIsHeard` of the time until a subscription is
`denied`; `PositionIsAbsolute` of a position that is not `astray`. `NothingIsGivenBack` proves
that the leak of slots is without remedy: no filter slot ever becomes free again.

Noted while modelling, without a property of their own:

*Pipeline.* Nothing
calls `mark_stale`, although `CAN_PROTOCOL_PRODUCTION.md:448` says that the firmware marks a
result STALE. Set_Axis_State MOTOR_CALIBRATION right after START runs the session's
calibration without its session. The closed-loop scans do not look at a pending
state request, although `axis.cpp:1318` says handlers should; Set_Axis_State
UNDEFINED after START cancels the wake-up; profile ELECTRICAL ends in COLLECTED,
which is active, so a START is refused until ABORT; an acknowledged edit during a
mechanical or delay scan is undone by the restore; a truncated measurement may
count as a success; FITTING is passed without blocking, so a host never sees it.

*Arming.* The comment at `motor.cpp:258` says that the motor must be disarmed if the
timers latch while timings are being written; the check below it is commented out.
The deadline check at the end of the interrupt (`board.cpp:458`) does not stand in
for it: it watches TIM8, and TIM1 latches a quarter of a period earlier. An iteration
late by half a period takes the two samples for one another, undetected. If the
second fetch finds no current, the first one's, the motor's, enters the calibration
of the offset. `arm` keeps the law it was given and returns true when it refuses.
`clear_errors` may re-arm the brake resistor after an interrupt has raised another
error, and a thread's `update_brake_current` may write a duty that an interrupt has
just replaced.

*Position.* In the phase-difference mode the branch is never checked once it is found: a
new pair is snapped to the turn of the motor nearest to what was predicted, and the
resolver says LOCKED, although `encoder.cpp:296-297` speaks of checking it. A start anchors a
pair that may be 25 samples
old to the count of now, so what the shaft turned since is missing from the position,
although `encoder.cpp:732` says that the auxiliary encoder only tells the branch.
`run_offset_calibration` sets the count without moving the anchor, which
`encoder.cpp:116` says must not look like motion; the motor is not under control then.
Writing an offset leaves `vernier_result_` as it was: up to 25 samples long a start
uses the position of the old configuration. And a closed-loop control that starts within
`reset()`, which the CAN thread may have begun, loses its anchor when it ends (`"started"`).

*Watchdogs.* `CAN_PROTOCOL_PRODUCTION.md:300-307` says that only motion commands feed
the command watchdog. Configuration writes
of the timeout itself and `clear_errors` feed it as well. A deadline above 2^31 ms expires
at once; one that has been past for
24.8 days looks fresh. The input of a fresh command can be overwritten by an expiry
that comes before it feeds. Writing the timeout action keeps it as an override when
the mode changes. `clear_errors` clears the axis error after it has fed, and with it
a fault raised in between.

*CAN, SPI, USB.* A flood of answered commands may take every mailbox before a
periodic message does, which is then tried again and again. The sensor pair marks
itself idle before it takes its callback, so a sample that starts in between loses
its own. The USB interrupt posts its completion event without waiting
(`usbd_cdc.c:520`): when a burst of frames has filled the queue the event is lost,
and stdout stops until the device is configured again.

## 5 Proofs

Every theorem holds under the assumption its module makes about its constants alone,
unless its own `ASSUME` says more: those of `NvmStoreProofs` have `RetireMayFail =
FALSE`, and `TrueTurn` of `VernierPositionProofs` relates two ratios.

### AxisCalibrationProofs

For every number of sessions and segments, every start-up chain, and every set of
host requests, profiles and editable groups:

| theorem | statement |
|---|---|
| `InvariantHolds` | `Spec => []IInv` |
| `TypeCorrect`, `PoweredSafety`, `CaptureSafety`, `TrialSafety`, `StageSafety` | the invariants `TypeOK`, `PoweredOnlyWatched`, `CaptureIsOwned`, `TrialEndsWithExperiment` and `SessionTellsTruth` |
| `OnlyCommittedSafety` | `OnlyCommittedSurvives`: nothing uncommitted is in force or stored |
| `Implements` | `ImplementsContract`, refinement of `CalibrationContract` |

The argument. None of the properties is inductive: that `AlignmentEnds` gives the
user's values back depends on the snapshot being taken before anything was put on
trial; that a failure names its stage depends on which experiment can be running
at which point. `IInv` adds to the properties: `ThreadInv` (which
experiment and axis state belong to each point of the thread), `SessionInv` (the
session's state, stage and profile follow the thread), `OriginInv` (no
parameter belongs to a session that has not begun or has not committed) and what the
contract's view of an experiment needs: which experiment the session has
(`ExperimentStep`), what it may have put on trial (`TriedStep`), and that a value in force
is on trial, the user's or the one in the snapshot (`ValueStep`).
`InitHolds` and `StepHolds` are proved by one lemma per part (`FlagsStep`,
`DataStep`, `ThreadStep`, `PoweredStep`, `SessionStep`, `CaptureStep`,
`TrialStep`, `OriginStep` and the three above), each with a case per action.
`Implements` is then about single steps from a state that satisfies `IInv`: `ModelStep`
says what the user would be left with after each, and `CommitImplements`, with
`CommitFacts`, that a commit replaces the model and what is stored in one of them. A SAVE
during an experiment is the contract's `Save`; the refinement needs no hypothesis about
when the host saves.

### CanCommandProofs

The two ends of a command, which share no state. Of `CanServer`, for every number of
ids, slots and frames: `IdIsHeard` (`OwnIdIsHeard`), from the invariant `SubscriptionInv`,
which says that the handle's slot is never another subscription's (`HandleUsed`); and
`NothingIsGivenBack` (`SlotsAreKept`): the leak of section 4, so that `IdIsHeard` ends with
the last free slot, however many there are.

Of `ControlTimeout`, for every width of the tick, every set of watchdog times and modes:
`TypeCorrect`, `DeafIsSafe` (`DeafOnlyWhenQuiet`), `SilenceIsSafe`
(`SilenceStops`) and `ExpiryIsSound` (`OnlySilenceExpires`). `SilenceStops` promises what
the code keeps and no more: with a command watchdog, a deadline other than 0 and an action
that suits the mode, the inputs ask for nothing new, and a trajectory under way is the most
that goes on (`TimeoutQuiets`, `TimeoutPlansNothing`). The two action
properties speak of how long there has been silence, the code of a deadline in
wrapping ticks. `DeadlinesMatch` is the invariant that ties them: as long as a
deadline is not zero and its age is within half a range, it is the tick at which
the last feed happened plus the time configured then, modulo `Wrap`. Two lemmas about
modular arithmetic turn it into "a deadline has passed exactly when the silence is
as long as the time".

### MotorArmingProofs

For every lateness of an iteration: `TypeCorrect`, `DisarmedFloats`
(`FloatingWhenDisarmed`), `LawLives` (`LawIsLive`), `BrakeGuarded` (`BrakeGuards`),
`TimingsAreRenewed` (`TimingsRenewed`), `SamplesAreSeen` (`NoBlindSample`) and
`StageImplemented` (refinement of `PowerStage`). `Wired` says that the outputs are on, or
about to be, only while the motor is armed or `disarm` is on its way to them; `BrakeFound` that an iteration past
`apply_pwm_timings` that has left the motor armed found the brake armed; `Paced` and
`Latchable` relate `counting_down_`, the timer event that is due and the age of the
timings: while the motor can be powered no update of TIM8 is missed, so its handler
always puts back the 50 % in time, and what TIM1 latches next is never a third use.
`SamplesAreSeen` rests on `BlindInv`, which counts the iterations since the motor was
armed (`armed_state_`): the first that runs to its end has enabled the outputs
(`Enabled`), so that when the second begins they are on, or come on at the next latch,
which samples no current (`Behind`); a current sampled before that is only ever fetched
by an iteration that still forces it to zero (`BlindUnused`), also when an iteration late
by half a period fetches the two samples in the wrong order (`SeenOnce`).

### NvmStoreProofs

For every size of a sector and of a record, every modulus of the sequence numbers and
number of saves, if no interruption comes between publishing and retiring:
`TypeCorrect`, `LogSound` (`LogIsSound`), `SaveKept` (`SaveContract`) and
`DurableImplemented` (refinement of `DurableConfig`). A sector is described by its
frontier, the first field still erased: `Dead` if the field before it is not valid,
`Live` if a whole record ends there. `RestRead` says what a power-up reads of two such
sectors, `NewestRead` which of two live ones it takes. The parts of `IInv` are `TypesOK`,
`BlankAbove` (nothing beyond the frontier is programmed), `AtRest`, `Indexed` (RAM has the
frontiers), and within a save `Staged` (what has been claimed, programmed and published so
far) and `Overlap` (while both records are valid the one just published is the newer). One
lemma per action preserves them; the last `PublishField` is the step that the abstract
store sees. `SaveKept` adds `Kept`: from the call of a save to its end or failure, what a
power-up would load is `before`, over every erasure and every field programmed
(`SavingKeeps`, `KeptHolds`). The hypothesis excludes the window of the finding
`nvm_retire_interrupted`, in which all of them are false.

### RecordStreamProofs

For every capacity, width of the counters, number and length of sessions:
`TypeCorrect`, `GapsMarked` (`GapsAreMarked`) and `ChannelImplemented` (refinement of
`RecordChannel`). `Filled` says that the slots between the two counters hold records
of the session; `Handed` that a pop under way has the oldest one, out of the producer's
reach, until its counter is stored. `Chained` and `Continued` say that what the host has,
the record in hand, the queue and the next sample continue one another, so that a jump
always meets a mark. The arithmetic needs that `Wrap` is a multiple of `Capacity`.

### UsbStdoutProofs

For every size of the ring, of a packet and of the event queue: `TypeCorrect` and
`StreamContinuous` (`StreamIsContinuous`). `Filled` says which cells of the stream lie in
the ring, `Chosen` and `Packets` what is under way, `Followed` that the next packet goes
on where the last one ended, and `Counted` that the ring is reset only for enumerations
that have ended.

### SpiArbiterProofs

For any number of threads: `ArbiterSound` (`ArbiterIsSound`) and `ServiceImplemented`
(refinement of `SpiService`). `Listed` says that the pointers spell a sequence of
different tasks; `ChainsAgree` that they cannot spell two, so that `ListIs` may call it
*the* queue, and `AppendListed` and `HeadUnlinked` that the two critical sections append
to it and take its head off. The rest of `IInv` says who may do so next:

* `OneStarts`: at most one context is about to start or unlink the first task, and only
  while the bus is idle and the list is not empty. This is what the code relies on when
  it calls `start()` outside the critical section.
* `OneHolds`: a task is in one context's hand at most, from its submission to the moment
  it is linked and from its removal to its release; whoever is linked or in hand still
  waits for a callback (`Pending`), and is on the list exactly in between. So no task is
  linked twice, and none whose owner has gone.
* `OneRequest`: the pair's request is in one place, with the sensor that is being read
  or with the one context that is to call the pair back, and the auxiliary sensor is in
  use only while the pair waits for it.

Each part has one lemma per kind of step (`StartsStep`, `HoldsStep`, `RequestStep`).
None of them uses who may preempt whom (`Runs`): the critical sections alone make the
arbiter safe, which is why the order of threads among themselves does not matter. For
the refinement, `OwedIs` reads the tasks whose callback is owed from the drivers' flags
and the contexts' positions; every step is then a `Submit`, a `Leave`, a `CallBack` or
invisible.

### VernierPositionProofs

For every resolution, pair of ratios, divider and range of the joint, with interrupts
anywhere in `reset()` and a shaft that turns as far as it likes while the resolver has given
up: `TypeCorrect`, `NoFalseMotion` (`NothingLooksLikeMotion`) and
`ResolverExact` (`ResolverIsExact`). `Together` is the invariant behind
both: what has been read and not yet taken in, the count, and the shaft are within
`MaxTravel` of each other, also when two samples come between two control periods.
`PhaseStep`, `Counted` and `NoniusIs` turn that into statements about phases: a step of
less than half a turn is what an encoder shows of it, and two encoders read within
`MaxTravel` tell the place of the first read. `SameTurnIs` and `NearSameTurn` say
that a prediction from less than half a motor turn away is exact. `Anchored` says that the position is the
branch plus the count.

`TrueTurn` (`PositionIsAbsolute`) needs a bound on the age of the pair a start is
anchored to, since the control loop may stay without a pair for as long as starts are
refused, and a reset of the resolver leaves the last result standing. It comes from the
counter of samples: `Used` is how many samples of its own the main encoder may have given
since the last pair was begun. When the next pair is due no other sample is begun until
it has come, so that `Used` never passes `Divider - 1`, and each sample is at most
`MaxTravel` from the one before. `Kept` says so of the last sample and of the count, and
`Placed` of the position while the motor is under control, which moves as the count does.
The hypotheses are `Ratio > 2` and `Divider <= Ratio`: with them
that motion is less than half a motor turn, because `MaxTravel` is small enough for the
nonius. The production profile has 42 (`production_config.h:86`) and 25
(`encoder.cpp:298`).

### Only model-checked

All liveness (the prover has no fairness and no ENABLED): `SessionEndsUnmeddled`,
`AbortComesToRestUnmeddled`, `ArmingResolves`, `ServerKeepsUp`, `EveryRecordLeaves`,
`DrainsUnlessLost` and `RequestsAreAnswered`; and the counterexamples of section 4.

## 6 Not modelled

* Control laws, estimators, field-oriented control, current sensing and the four
  fitters: floating-point arithmetic, about which TLC decides nothing. The
  pipeline takes either outcome of each fit.
* Of the CAN driver: extended ids, bus errors and the change of the bit rate. Of the
  protections: the values of currents, voltages and temperatures; each check may find
  fault or not. The gate driver's reset pin. Status flags and counters nothing
  decides by.
* Payload formats, CRC arithmetic, register words, formatting, LEDs, logging.
* Vendor code (HAL, FreeRTOS, USB stack), nine lines in ten of the repository, except
  where an action stands for the part the firmware calls; host tools; documentation.
* Within modelled components: `mark_stale`, `reset` of the session, which nothing
  calls; read-only queries; of the joint's position the resolver's candidate-search mode, which
  the production profile does not use, the reversal of an encoder, the correction of the
  joint's geometry, the velocity, and the fit of the vernier offsets; the gate driver's
  configuration sequence; the receive side of USB.

## 7 Plan

Done, in this order because the store and the pipeline can lose a user's
configuration or leave a motor energised: `DurableConfig`, `NvmStore`;
`CalibrationSession`, `AxisCalibration`, `CalibrationContract` and its proofs;
`SpiService`, `SpiArbiter`; `RecordChannel`, `RecordStream`; `UsbStdout`;
`ControlTimeout` and its proofs; `PowerStage`, `MotorArming` and its proofs;
`CanServer`; the proofs of `RecordStream`, `NvmStore`, `CanServer` and `UsbStdout`;
`VernierPosition` and its proofs; `SpiArbiter` with any number of threads and its proofs.

Left: does a resolver that has lost its lock find it again, once reads succeed
(`VernierPosition`)? And the candidate-search mode, for joints with other ratios.
