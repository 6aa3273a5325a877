# A formal model of the BT610 firmware

The BT610 is a battery-powered sensor with four analog inputs, four thermistors, two digital
inputs, a magnet switch and a tamper switch. It advertises what it measures over Bluetooth Low
Energy, on the 1M PHY or on the coded (long range) PHY, and is configured through attributes
that a mobile application, an SMP client or a serial console reads and writes. The firmware is
a set of Zephyr threads, each with a message queue, plus interrupt handlers, the system work
queue and the Bluetooth receive thread.

This directory holds TLA+ modules translated from the C code, configurations that model-check
them with TLC, and theorems proved with TLAPS. `PROJECT.json` names the source lines each
definition stands for (`map`), what each run checks (`runs`), the slip in the code each property
catches (`mutants`), the disagreements between code and comments (`findings`), and what is hard
to test in this code (`hazards`).

## 1. Inventory

| Component | Code | State | Modelled in |
|---|---|---|---|
| BLE task | `src/src/BleTask.c` | `bto`, five kernel timers, message queue, queue of stored events | `BleTask` |
| Advertiser | `src/src/Advertisement.c` | the advertising set, its PHY and interval, flags `advertising` and `connected`, one work item, the advertisement | `Advertisement`, `BleTask` |
| Event task | `src/src/EventTask.c` | the event id, the filter | id and sending only, in `BleTask` |
| Sensor task | `src/src/SensorTask.c` | three interval timers, message queue, `input_config_changed` | `SensorTask` |
| Analog input validator | `attr_custom_validator.c` | none of its own: the four type attributes | `AnalogConfig` |
| Analog measurements | `src/src/AdcBt6.c` | port expander, supplies, the channel set up last, the lock | `Adc` |
| Switch inputs | `BspSupport.c`, `UserInterfaceTask.c`, `SensorTask.c`, simulation validators | levels, simulated levels, stored states | `SwitchInputs` |
| Flags | `Flags.c` | one word, its mutex, its shadow attribute | `Flags`, in `SwitchInputs` |
| Control task | `src/src/ControlTask.c` | heartbeat timer, factory reset flag, message queue | `ControlTask` |
| RAM that survives a reset | `src/src/NonInit.c` | saved time, bootloader time | `ControlTask` |
| Buttons and LEDs | `UserInterfaceTask.c`, `LEDs.c` | the times of the last edges, message queue, what two LEDs show | `UserInterface` |
| Serial port shut-off | `BspSupport.c` | two delayed work items, CTS, the UART, the log backend | `SerialPort` |
| Attribute table, file access, production management, test menu, start-up | `attr_table.c`, `FileAccess.c`, `production_mgmt.c`, `TestMenu.c`, `main.c` | see section 8 | not modelled |

The framework (queues, buffer pool, timers), the attribute library, the clock library
(`lcz_qrtc`), the locking library, the Bluetooth stack and the kernel are outside the repository.
They are modelled by how the code uses them and marked external in the map.

### Operations and interaction

* **BLE task.** Handles start and end of advertising, attribute changes, stored events
  (`SENSOR_EVENT`, `SENSOR_UPDATE`), the end of a connection and the exit from shelf mode. Five
  timers post to it from interrupt handlers: the duration of an event in the advertisement, the
  30 s window after a start in shelf mode, the 30 s on 1M after leaving it, the 30 s on the PHY
  of a firmware upgrade, and the delay before a disconnection the mobile application asked for.
  The connection callbacks change `bto`, stop timers and purge the stored events from the
  Bluetooth receive thread. `Advertisement_Update` hands an event to the one work item, which
  the system work queue executes.
* **Sensor task.** Each interval timer expires once, posts a message, and is started again by
  the handler of that message. A change of an attribute arrives as a broadcast after the fact;
  the handler reads the attribute then. A change of `config_type` disables every input. The
  flag `input_config_changed` keeps readings away from telemetry objects made for other inputs,
  and is cleared by a message the task sends itself at start-up.
* **Analog measurements.** The sensor task measures, and so does any thread in which a client
  reads an input or the battery voltage. One converter, one mux behind a port expander, three
  supplies.
* **Switch inputs.** A pin interrupts, the handler posts a message, the task reads the pin and
  stores what it shows. A simulated value replaces the pin and feigns interrupts.
* **Flags.** Whoever stores a switch sets its bit in the word that is advertised: under a mutex,
  with a copy of the word written to an attribute after it.
* **User interface.** Interrupt handlers time how long the button is held and the magnet is near
  and post what it means: a sign of life, the exit from shelf mode, a factory reset. The task
  shows it on two LEDs, which the LwM2M client, the tamper switch and clients that simulate the
  magnet use as well.
* **Serial port.** An edge of CTS starts a debounce; the debounce turns the UART on, or schedules
  the work that shuts it off and remembers whether logging was active.
* **Control task.** Saves the time on each heartbeat; performs factory and software resets;
  puts the clock right after a reset from the saved time, the time in the bootloader and the
  uptime.
* **Between components.** Sensor readings become events, which the event task numbers and sends
  to the BLE task. A write of `active_mode` goes to the sensor task, which sends the BLE task the
  exit from shelf mode or asks the control task for a software reset. The control task writes
  `boot_phy` after an upload, and the BLE task uses it up at the next start.

### What is hard

Messages are dropped without the sender being told when the buffer pool or the queue is full.
Timers expire while their messages' effect is being undone. Callbacks preempt the task between
two of its steps: wherever it blocks in the HCI, and between its look at a queue and its take from it.
The work item is overwritten while it waits.
Supplies and the expander are shared by threads, and one lock covers part of their uses.
Attributes change before the task that uses them is told. Resets cut any of this off and keep
only attributes and a piece of RAM.

### What makes each component correct

* BLE task: it returns to the configured PHY; a stored event is never stuck; the advertisement
  shows events in order; the device comes back on the air; a requested disconnection happens.
* Sensor task: accepted configurations fit the supplies; every periodic reading stays armed;
  changes of the configuration reach the flag and the pins.
* Measurements: the right supply, the right input, nothing left on, the lock given back.
* Switch inputs and flags: what is shown and advertised is the pin, when nothing is simulated or
  under way; no thread's flag undoes another's.
* User interface: a command follows a real hold, a hold is answered, an LED tells the truth.
* Serial port: on for a client, off without one, never cut short, logging as it was left.
* Control task: the clock is right within stated bounds through any resets; the heartbeat goes
  on; the configuration survives any reset but for what a crash takes away before it is saved.

## 2. Modules

`Advertisement` (operators on the advertiser's record) <- `BleTask` (the state machine of the
BLE task, the advertiser, the work queue and the callbacks) <- `MCBleTask` (for TLC) and
`BleTask_proofs` (theorems) <- `BleFeed_proofs` (the refinement). `EventFeed` is the abstract
specification `BleTask` implements. `AnalogConfig` (the validator) <- `SensorTask`. `Flags` (operators
on the word and the threads in `Flags_Set`) <- `SwitchInputs` (whose threads set flags). `Adc`,
`ControlTask`, `UserInterface` and `SerialPort` stand alone. Each of these six has an `MC` module for
TLC and a module of proofs, `MCAdc` and `Adc_proofs` and so on.

No module declares a recursive operator, so each can be proved about.

### Correspondence with the code

**BleTask.** `attr` holds the four attributes the task depends on, `ble` is `bto` with `pc`, the
place where the task stands, `timers` the running timers, `bleQ` the message queue, `advertQ` the
ids in `ble_task_advert_queue`, `adv` the advertiser, `work` the work item, `shown` the id in the
advertisement. One action per message handler, timer handler and callback, with four cuts where
another thread can come in and it matters: `BleSensorUpdateMsgHandler` between its look at
`ble_task_advert_queue` and `TakeEvent`, the `k_msgq_get` with `K_FOREVER`, since the receive
thread purges that queue (`pc` is `"take"` there, and the task waits for as long as the queue is
empty); `BleEnterActiveModeMsgHandler` before it arms its timer; `ConnectedCallback` before it
stops the timers; `QueuedUpdateAdvertisement` between stopping and restarting the advertiser.
Elsewhere a handler is one step: the Bluetooth thread and the work queue are cooperative, and the
task, which is preemptible, is otherwise taken to be preempted before or after a handler. `Post`
sends the messages of a handler; it may lose some of them when the pool or the queue is full, and
`lost` remembers. `DisconnectedUnrefNull` is the second disconnection of two:
`bt_conn_unref(NULL)` faults in this build (the MPU catches the null pointer) and the device
restarts.

**SensorTask.** `attr` holds the attributes the task reads: whether a sampling interval is zero is
all that matters of it. The handler of a broadcast sends one message for each thing that changed
(`Answers`), and any of them may be lost while the others arrive (`Fragments`). `timers`,
`changed` (`input_config_changed`), `sensorQ` and `dinEnabled` are the task's state. The start-up
has the stages in which clients can write: `Boot` (and `Init`) stand for `SensorTask_Initialize`,
which makes the telemetry objects (`objects` remembers for which inputs); then the thread loads
the configuration, arms the timers and, after its first measurements, sends itself the message
that clears the flag (`started` remembers the inputs at that moment), each in an action of its
own. After the handler of `ENTER_SHELF` the task goes on until the reset it asked for. Writes and
broadcasts are separate steps. Each write is one attribute at a time and is judged by `av_aic` if
it is an input type.

**Adc.** `thread[t]` says where each thread is in `MeasureAnalogInput`, `MeasureThermistor` or
`AdcBt6_CalibrateThermistor`. A step is one access to what they share. The expander is a byte of
bit-fields, so changing a field is a load and a store. `holder` is `LOCKING_ID_adc`. Each write on
the I2C bus and each setup of a channel may fail. `channel` is `pcfg->channel_id` and `ready` what
the converter was really set up for. The guards of `AdcBt6_BplusEnable`, `AdcBt6_FiveVoltDisable`
and their like are the refusals in the code.

**SwitchInputs.** One function per piece of state, indexed by the input. An input's `pin`, its
simulation (`simulated`, `value`, `last`), what is `shown`, the messages `sent`, and the level the
task has read and not yet stored (`task`). At first nothing is shown, and the tasks have just read
the switches for the first time. The client's thread is cut between the two attributes it writes
and between reading and storing.

**Flags.** `calls[t]` says where thread t is in `Flags_Set`: before the mutex, between reading the
word and storing it, before it reads the word for the attribute, before it writes the attribute.
`SwitchInputs` starts a call wherever the code sets the flag of an input it has stored: in the
sensor task, the user interface task or a client's thread, and a thread takes no other step until
its call is over.

**UserInterface.** `held` and `open` are the world, `irq` the interrupts that wait (an edge on an
input whose interrupt waits is merged with it), `since` the time since `swEventTime` and
`amrEventTime`, `pressSeen` is `button0_pressed`, `queue` the message queue, `led` what each LED shows.
`hold` is the true time, which the properties compare with what the handlers measured. A client
that simulates the magnet runs `Button2HandlerIsr` in its own thread: `SimulateMagnet` reads pin and
time, `SendOfClient` sends. A blinking pattern may end at any time after it began, except the one of
the LwM2M connection, which repeats.

**SerialPort.** `delay` and `due` are the delayed works, before and after their delay; `running` is the
handler with the level of CTS it read. Logging is active at first or not, as `log_on_boot` says.
Time passes in `Tick`, a unit being the debounce time.

**ControlTask.** Time passes in ticks, `Second` of them a second, so that every cut to whole
seconds in the code is visible. `nird` is the RAM; a crash may leave it invalid. `phase` says
where the device is between resets. `config` stands for the attributes, in RAM and saved, and
`written` remembers what clients and factory resets made of them. A reboot before `task_started` saves
nothing and is a `Crash` here.

## 3. Runs

| Run | Module | Distinct states | Shows |
|---|---|---|---|
| `ble_task` | `MCBleTask` | 412 thousand | `PhyRestored`, `PumpArmed`, `AdvertNeverGoesBack`, `ImplementsFeed`, `EventsFlow`, `ActiveOnAir`, `AppDisconnectHonoured` |
| `sensor_task` | `MCSensorTask` | 7.6 million | `SensorsRationed`, `MeasurementArmed`, `ConfigChangeNoticed`, `DinFollowsConfig` |
| `adc` | `MCAdc` | 1.4 million | `SampleSupplied`, `SuppliesOff`, `SampleOfInput`, `ChannelSetUp`, `MeasurementEnds` |
| `switch_inputs` | `MCSwitchInputs` | 4.1 million | `InputShown`, `FlagShown`, `ShadowFollows` |
| `control_task` | `MCControlTask` | 4.4 million | `ClockTracks`, `ConfigSurvives`, `HeartbeatGoesOn` |
| `user_interface` | `MCUserInterface` | 1.6 million | `LedsTruthful`, `CommandsFollowHolds`, `HoldAnswered` |
| `serial_port` | `MCSerialPort` | 37 thousand | `NothingForgotten`, `LoggingComesBack`, `OnForWholeDelay`, `PortFollowsClient` |

Each of these also checks its module's `TypeOK`. Every property is broken by a named slip in the
code (`mutants`). Five more runs (section 5) show where the code does not do what a comment says.

Several properties are conditional on a history variable, because the code makes no promise
otherwise: `lost` (a message was dropped), `Starved` (a purge has come between the BLE task's look
at the queue and its take; the run `blocking_take` is about that), `started` (the inputs at the
end of the start-up; the run `inputs_at_start` is about what comes before), `calm` (a calibration
has switched the supply while another thread measured), `fresh` (an I2C write failed, or two
threads met between their accesses to the expander), `steady` (no setup of a channel has failed),
`synced` (a client's thread has stored the input at the same time as the task), `overlap` (the
last calls of `Flags_Set` overlapped), `disturbed` (edges of the button or the magnet were served
together, or a client simulated the magnet within the hold), `overlapped` (the magnet's interrupt
came within a client's call), `twice` (the UART was shut off while it was off: the logging that is
then remembered is none). The steps that end those conditions are in the models and are taken in
the runs. So such a property does not cover the hazard its condition names: the hazards list says
so where it is the case.

### Bounds

* `MaxStimuli` = 3: events, connections, writes, uploads and resets from outside; 4 in
  `upgrade_phy`, whose counterexample takes more of them. Everything the device does by itself is
  unbounded. Three are enough for an event on either side of a connection, for two links to open and
  close, and for each slip in `mutants`; the safety properties are proved for any number (section 6).
* `QueueDepth` 2 to 5 where the code has 32, `AdvertDepth` 1 or 2: small queues overflow within
  the bound, large ones would not. `PoolMayFail` drops any message.
* `MaxLinks` = 2 is `CONFIG_BT_MAX_CONN`.
* `Channels` = three of the four inputs, interchangeable: the validator counts at most two of a
  kind, so three are enough to pass each limit. `MaxWrites` = 3 builds each limit up.
* `Threads` = the sensor task and one client; `Inputs` = 2: the mux and one other input to
  confuse with; `MaxJobs` = 2 lets the two threads meet, or one follow another on the state it
  leaves. A calibration takes one sample of each thermistor where the code takes several with the
  same steps.
* `MaxChanges` = 5 of pins, configuration and simulation, of a digital input and the tamper switch,
  with three threads that set flags: enough for a simulation to begin and end between edges while
  a client reads.
* The user interface: `Scenes` are four pairs of actors, since at most two of them compete for an LED
  or the queue at a time; `MaxActs` = 5 of them are enough for a press and a release around a
  connection and its end. The windows are scaled down with their order and their overlap kept:
  `PairMax` = `MinFactoryReset`, as in the configuration of the product. Messages are lost when the
  queue of 2 is full. Times stop at a horizon past which all are alike.
* The serial port: the delay is four debounces (in the code it is longer, which adds only time in
  which nothing happens), `MaxEvents` = 10 of CTS and clients, so that the line can move several times
  in each phase of several shut-offs.
* `Second` = 2 ticks, `MaxTime` = 19, `MaxResets` = 2, bootloader times on both sides of the sanity
  limit.

### Fairness

`ble_task` and `blocking_take`: weak fairness of the task (`HandleMessage`), of each timer that
runs, of the work item, of the end of the connected callback, and of the report of a disconnection
that was asked for. The task, the work queue and the receive thread have their own priorities and
block between messages, so none is starved; a running timer expires. Nothing is assumed of
clients, centrals or sensors. Fairness of the task does not assume that the take of an event
returns: the task is not enabled while it waits, and only the task puts events in. A run in which
it waits for good is fair, so the properties say `Starved`. The liveness properties stand aside
when a message was dropped, since no retry exists.

`user_interface`: weak fairness of each interrupt handler, of the start of the task and of its
message handlers: interrupts are served and a thread with a message runs. Actors, clients and the
end of a pattern are not assumed.

`serial_port`: weak fairness of time and of the system work queue, a cooperative thread of the
kernel.

`adc`: weak fairness of each thread. It is enough for the lock because the bounded number of
measurements makes each thread hold it finitely often.

## 4. The abstract specification

`EventFeed` says what the path from a sensor event to the advertisement promises: events are
accepted in the order of their ids, a bounded number waits, what is shown is replaced only by a
later one; any may be dropped. `ImplementsFeed` is this specification with the waiting events
mapped to the stored ones together with the one in the work item, unless that has been shown
already. TLC checks it in `ble_task`, with lost messages, purges on a disconnection, the work
item overwritten by a dummy update, and resets.

## 5. Findings

Five comments of the source say what the code does not do, each with a run that TLC finds violated;
the counterexamples are short.

* `blocking_take`: `BleSensorUpdateMsgHandler` sees an event in the queue; the receive thread preempts
  the task, and `DisconnectedCallback` purges the queue; the task's `k_msgq_get` with `K_FOREVER` then
  waits for an event that only the task itself could store. The advertising the callback asked for
  is never started, and no timer can bring the task back.
* `inputs_at_start`: a client changes the inputs after the telemetry objects are made and before the
  sensor task asks for `input_config_changed` to be cleared. The broadcast of the change is handled
  first, and the flag it sets is cleared.
* `upgrade_phy`: a firmware upgrade over 1M stores `ADVERTISING_PHY_1M` in `boot_phy`, whose value 0
  is `BOOT_PHY_DEFAULT`, so the device does not come back on 1M.
* `magnet`: when the simulation ends, the simulated value is compared with a level of the opposite
  polarity; the magnet may keep the simulated state.
* `ain_sel`: the load of a current input is taken away for a moment by a thread that rebuilds the
  byte outside the lock while another writes it.

Others were met while translating and have no run of their own:

* The upgrade timer is not stopped by a connection (`BleTask.c:630`), and the END and START it posts
  change the PHY within it, though the comment there wants no change of PHY within a connection.
* `SoftwareResetMsgHandler` clears the saved time for a factory reset (`ControlTask.c:387`), and the
  reboot notification saves the current time again.
* `DigitalInputIRQNeeded` (`BspSupport.c:754`) tests the mask `GPIO_INT_EDGE_BOTH` for any bit, so a
  simulated change is reported on an edge that is not configured.
* `uart_cfg` is static and `config_uart0` sets its flow control to none for a shut-off; nothing sets it
  to RTS/CTS again, so the first shut-off ends flow control until a reset.
* The attribute `bluetooth_flags` may keep a word older than the flags after two calls of `Flags_Set`
  that overlap, until the next call.
* A shut-off that is scheduled is not cancelled when the client comes back while the UART is still on;
  its handler finds CTS low then and does nothing.
* The green pattern of the LwM2M connection is shown once, at the connection: any later message that
  uses the LEDs ends it, though the comment at `UserInterfaceTask.c:531` has it flash "continuously
  whilst the DM connection is active". The end of the connection turns the red LED off as well.

## 6. Proofs

`BleTask_proofs` proves, for any number of links, any queue depths, any bound on the environment
and with or without a failing pool (assumptions `MaxLinksAssumption` and `BleTaskAssumption`, which
TLC evaluates in the runs):

* `TypeCorrect`: `Spec => []TypeOK`. The lemmas say that every function of the advertiser maps an
  advertiser to one and that `Post` leaves a well-typed queue within its depth.
* `PumpNeverStalls`: `Spec => []PumpArmed`. The property is not inductive alone. The invariant
  `PumpInv` adds that a callback between its two halves has a connection (`CallbackConnected`), since
  its second half stops the duration timer and only the connection then accounts for the stored
  events, and that events are stored only in active mode (`StoredWhenActive`), since in shelf mode
  the handler of `SENSOR_UPDATE` takes nothing. A task at its take counts as what will take the event.
* `PhyAlwaysRestored`: `Spec => []PhyRestored`, with `CallbackConnected` again, because the second
  half of the connected callback stops the timer that would restore the PHY.

Each is laid out with one step per action of `Next`. The lemma `PostAppends` describes what a
handler that sends messages does to the queue, losses included, and the ones after it say which
messages are still there when the first has been handled.

`Adc_proofs` proves, for any finite set of threads, any number of inputs, any bounds, and a bus and a
converter that fail or not (`AdcAssumption`, which TLC evaluates in the runs):

* `TypeCorrect`, `SamplesSupplied`, `SuppliesAlwaysOff`, `SamplesTheInput`, `ChannelsSetUp`: the five
  invariants of the run `adc`.
* `MeasurementsExclusive`: the steps under `LOCKING_ID_adc` are those of one thread at a time. The
  lock counts as taken and given in `TakeLock` and `GiveLock`; that the steps between are the
  holder's alone is what is proved.

They all follow from one inductive invariant, `IInv`, with a lemma for each conjunct:

* `PathInv`: what a thread is doing tells what it measures. Only a calibration bypasses the power
  sequence, and the battery voltage skips mux and supplies.
* `LockInv`: a thread is at a step under the lock exactly while it holds it. All that follows rests
  on it, since a step of one thread must not disturb what the others are said to be at.
* `FiveInv`: when 5V and b+ are on, step by step of a pressure measurement. `SuppliesOff` alone is not
  inductive: the refusals of `AdcBt6_BplusDisable` and `AdcBt6_FiveVoltDisable` could leave a supply
  on, were the two not in the states this says they are in.
* `SupplyInv`: from `ConfigPower` to `DisablePower` the supply is the measurement's own, and without a
  measurement or a calibration there is none.
* `ConverterInv`: the channel remembered has been set up, but for the thread just about to do it.
* `ExpanderInv`: until `fresh` is lost one thread at a time uses the expander, and the outputs follow
  what the program takes them to be, but between storing the mux and writing it.

`BleFeed_proofs` proves, under the assumptions of `BleTask_proofs`:

* `AdvertOrdered` (`AdvertNeverGoesBack`) and `FeedImplemented` (`ImplementsFeed`, the refinement of
  `EventFeed`). Both follow from `FeedInv`: ids increase from `shown` over the event in the work item
  and those in `advertQ` to the ones in messages, and all are below the next id. The event in the work
  item may equal the one shown, since it is left there when it has been executed; the refinement
  counts it as waiting only until then. Each step maps to `Accept`, `Show`, `Drop` or
  `Reset` of the feed, or to a stutter.

`SensorTask_proofs` proves, for any finite set of analog inputs and any depth of the queue
(`SensorTaskAssumption`):

* `TypeCorrect`; `InputsRationed`, which rests on one step only: the validator judges the types as
  they will be, all others leave them or make all of them unused (`UnusedRationed`).
* `MeasurementsArmed`, `PinsFollow`, `ChangesNoticed`, each from an invariant of the same shape
  (`ArmedInv`, `DinInv`, `NoticedInv`): the state agrees with the attributes, or a message that
  will make it agree is in the queue, from the stage of the start-up on that has seen to it. The
  lemmas on queues say what `Post` appends and what the rest of the queue still holds when its
  head has been handled. `NoticedInv` also needs the order: no message that clears
  `input_config_changed` is behind the broadcast that sets it, and if it is set already none is in
  the queue at all. `ChangesNoticed` is about changes after the start-up, as `started` says; the
  ones before are lost (`inputs_at_start`).

`SwitchInputs_proofs` proves, for any selection of the three inputs (`SwitchInputsAssumption`):

* `TypeCorrect`. `TypeOK` is not inductive: it lets a thread be in two places of its own code.
  `Typed` adds that a thread in `Flags_Set` has no level it has yet to store (`ThreadsApart`) and
  that a call names its flag (`CallsNamed`).
* `ShadowUpToDate`, from `MutexInv` (who is past the mutex has read the word as it is, and is
  alone there) and `ShadowInv` (the last call writes the word as it is, unless calls overlapped).
* `PinsShown` and `FlagsShown`, from `RightInv`. While an input is enabled, interrupts on both
  edges and none of its messages waits, the level a task has read, the one shown, the one a client
  is about to show, those given to `Flags_Set` and the flag are each right, or about to be set;
  right is the level of the pin or, until the end of a simulation has been completed, the
  simulated one. The two properties are the settled states of it.

`ControlTask_proofs` proves, for any ticks in a second, sanity limit and bootloader times
(`ControlTaskAssumption`):

* `TypeCorrect`, and `HeartbeatAlive`, which is inductive itself.
* `ConfigSurvivesResets` (`ConfigSurvives`), from `ConfigInv`, which adds that what is saved is
  what was written while the bootloader runs: that is where the attributes are lost, and it takes
  the save of every reset the firmware is told of, at the reset itself and not only when it was
  asked for.
* `ClockStaysRight`. `ClockInv` bounds the difference of the clock and the true time in each phase
  between two resets: running, saved, in the bootloader, starting. Each reset may add a second
  less one tick ahead, and behind the ticks nothing measures (`missed`) with two seconds less two
  ticks for the cuts. `MaxTime` and `MaxResets` play no part in it.

`UserInterface_proofs` proves, for any windows in the order the code gives them
(`UserInterfaceAssumption`):

* `TypeCorrect`; `HoldsPrecedeCommands` (`CommandsFollowHolds`), from `HoldInv`: unless edges were
  served together, the time the handlers measure is the time of the hold, from the interrupt of
  the press to that of the release.
* `LedsTellTruth`, from `LedInv`: a message that turns an LED on for something that has ended is
  followed in the queue by one that turns it off, and an LED that is on for it has such a message
  waiting. It needs nothing of how many actors there are at a time (`Scenes`).

`SerialPort_proofs` proves, for any debounce and any longer delay (`SerialPortAssumption`):

* `TypeCorrect`; `ClientNeverForgotten`, which needs `LooksAgain`: if CTS has moved since a
  debounce read it, another debounce waits; `LoggingRestored`, with what `restore` holds while the
  UART is off; `ClientHasWholeDelay`, from `DelayInv`: a shut-off that waits, is due or runs
  belongs to the last time the UART was turned on.

Every invariant and action property of the passing runs is a theorem. What stays with TLC:

* Liveness, beyond the prover: `EventsFlow`, `ActiveOnAir`, `AppDisconnectHonoured`, `HoldAnswered`,
  `PortFollowsClient`, `MeasurementEnds`.
* The five properties that do not hold (section 5).

The proofs are about the models without fairness, and the bounds on what the environment does
are arbitrary constants in them. `Inputs`, `Threads` and `Bits` of `SwitchInputs` keep the names of
the program.

## 7. Plan

In order of importance:

1. Done: the BLE task with the advertiser, its abstract feed and its liveness; the sensor task; the
   measurements with the channel cache; the switch inputs with the flags they set; the control task;
   the user interface; the serial port; the theorems of all their invariants.
2. Left for the model: the event filter; the upload check with the chunks of two images; transmit
   power across connections; connections that fail; a module that composes the writes of `active_mode`
   across the user interface, sensor, BLE and control tasks.
3. The proofs: those of every invariant and action property of the runs are done. With the modules
   of item 2 come theirs: that the event filter drops nothing it was told to keep, and that a write of
   `active_mode` is carried out by each task in turn. A module of theorems of a new component has to
   join an existing one, as the measurements, the feed and the rest each have their own.

## 8. Not modelled

* The event filter, the upload check and the transmit power: see the plan.
* The blink times of the LED patterns, and the baud rate and flow control of the serial port.
* The values measured, their conversion and calibration, alarms and the telemetry objects: data
  that no property tells apart.
* The layout and the encryption of the advertisement; only the id of the event is kept.
* Connections that fail, security levels, connection parameters, the device name.
* The deferred save of attributes is modelled in `ControlTask` only. `BleTask` and `SensorTask` let
  attributes survive every reset, as they do after any reboot the firmware is told of
  (`ConfigSurvives`).
* The attribute table is generated; `FileAccess.c` checks names and keeps no state;
  `production_mgmt.c` answers one request at a time; `TestMenu.c` is for development; `main.c` calls
  each initialisation once; `Template.c` is unused.

## 9. Running it

`tlc -config ble_safety.cfg MCBleTask`, and so on, with the module and configuration of each entry
of `runs`. `tlapm BleTask_proofs.tla`, and so on for each module whose name ends in `_proofs`,
checks the proofs, in one to several minutes each. Runs take from seconds to three minutes.
