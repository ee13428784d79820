# A TLA+ model of the Nemeio keyboard firmware

The Nemeio keyboard is an STM32L4 with FreeRTOS, an nRF chip for Bluetooth Low Energy behind SPI, an e-paper
display behind an ITE controller, and a desktop application that talks to it over USB or BLE. This directory
holds TLA+ modules of the parts of the firmware where order, concurrency and crashes decide whether it is
right, TLC configurations that check them on small instances, and theorems about them that TLAPS checks for
every value of their parameters.

Run everything from this directory:

    tlc -workers 2 -config MCFirmwareUpdate.cfg MCFirmwareUpdate     # one run; the table below has them all
    tlapm FirmwareUpdateProofs.tla                                   # one proof module

Paths below are relative to the root of the repository. `PROJECT.json` ties every definition to the lines
it stands for, and lists runs, mutants, hazards, findings and theorems.

Contents: 1 inventory · 2 modules · 3 how to read the models · 4 runs, bounds, fairness · 5 what the
checks found · 6 what is proved · 7 what is only model-checked, what is left out · 8 plan


## 1. Inventory

### 1.1 The parts and how they interact

    keypad, AppComm, demo, settings ──► PowerManager::mActivityQueue ──► activity task ──► PowerStateMachine
                                             ▲                                                │ IPowerManageable
    USB interrupts, battery task ──► mPowerManagerQueue ──► power manager task                ▼
                                             ▲                    │        BLE, display, connectivity, keypad ...
                       suspend timer (timer daemon) ◄─────────────┤
                                                                  ▼ IUsbActivable
                                             BatteryStateMachine, ConnectivityState
                                                                       │ IConnectivityListener
                                                                       ▼
    HID, AppComm, pairing, DFU ──► BleChip (hfsm, mutex) ◄──── BleActivationStrategy
                                        │  orders     ▲ events of the chip
                                        ▼             │
                        NrfCommunication::mQueue ──► communication task ◄── SPI ──► nRF chip

    AppComm FIRMWARE_UPDATE stream ──► SystemUpdateFile (bank) ──► UpdateEngine ──► ITE, nRF (DFU), STM32
                                              ▲                                          │ reset
    boot: SBSFU loader ──► SystemRuntime::start ── FirmwareEnvironmentRedundant ◄────────┘

| part | state it keeps | operations | interacts by | what is hard | what makes it correct |
|---|---|---|---|---|---|
| Power state machine (`Middlewares/Nemeio/PowerManager/PowerStateMachine`) | state, supply, delays in force, delay waited, state last notified | seven events, `updateTimeouts`, `updatePowerConnectionState` | calls from the activity task, callbacks to listeners | the delay is only computed on entry to a state; the demo is a state without a callback | the delay waited is the one of state, supply and settings; the listeners know the state; only on battery does sleep end in OFF |
| Battery state machine (same directory) | state, last level | `batteryLevel`, `pluggedIn`, `pluggedOut` | calls from the power manager task | the level changes while charging | charging exactly when plugged, else the state of the last level |
| Power manager (`Libraries/PowerManager`) | two queues, supply, USB activity, suspend timer | two task loops, posts from tasks and interrupts, one timer callback | bounded queues of 10, dropped on overflow; a timer daemon that reads the variables of another task | stale timer verdicts, lost messages, two copies of the supply in two tasks | the supply believed is the real one once all is handled; it reaches the state machine; no delay ends in a shutdown on USB power it could know of; shutdown on battery |
| Connectivity (`Libraries/Connectivity`) | NONE, BLE or USB | `usbPlugged*`, `active`, `sleep` | called by both tasks of the power manager without a mutex; notifies BLE, AppComm, key locks | check-then-write from two tasks; order of the notifications | it matches supply and activity once quiet, and every listener knows it |
| Firmware environment (`Middlewares/Nemeio/Environment`) | two flash banks with id and CRC, active bank | `init`, `reset`, `writeEnvironment`, `getActiveEnvironment` | raw file system on the internal flash; `SystemRuntime` and the update engine call it | a power cut between or inside erase and program; errors that show on close only | a crash-atomic register |
| Firmware update (`SystemRuntime::start`, `Libraries/FirmwareUpdate`, `Middlewares/Nemeio/FirmwareUpdate`) | environment, two package banks, three firmwares, boot loader's slots, backup register | download, install, validate, switch banks, roll back, recover | across resets; boot loader and BLE chip decide for themselves | every step may be the last one before a power cut; two chips are committed one after the other | the application only runs a confirmed image; chips agree; there is a package to go back to; it ends |
| BLE driver (`Libraries/BLE`, `Middlewares/Nemeio/Tools/FSM`) | hierarchical state, mutex, command queue, packet pool, SPI frames | events from tasks and from the chip, commands, DFU, power off | tasks share the mutex; one task owns the SPI; the chip answers when it likes | stale answers, full queue, waiting under a mutex, restarts of the chip | driver and chip agree when quiet; never advertises unconfigured; ends up advertising; packets have one owner |
| BLE requests and timers (`Libraries/BLE/BleRequestTimer.hpp`, `Libraries/System/Timer`, `Work`) | pending requests, timers, queued work | `sendRequest`, answer, timeout | the timer daemon submits work to a work queue | work of a timeout that runs after the answer | a request ends exactly once |
| NRF DFU (`Libraries/FirmwareUpdate/NRF*.cpp`, `FlashWriteBuffer.hpp`) | parser of the package, packet buffer, object, offset, command in retry | header, firmware and end of an image; select, create, write, execute, ping | BLE driver's data commands; replies by a queue of 2 | retries of writes that are not idempotent, late replies taken for others', failures on the way back | a transfer that is reported as done is whole; it ends |
| AppComm (`Libraries/AppComm`, `Middlewares/Nemeio/AppComm/StreamDataCmd`) | current link, stream buffers; INIT or GET_DATA, listener, offset, file | frames in, answers out, change of link; start, send, stop | two receivers, two AppComm tasks, the power manager; one mutex, held while it waits | one command object run by two tasks without a mutex; restart and error at any point; a wait under the mutex | a listener is started, fed and stopped in order; what is put in place is what was announced; the mutex comes back |
| Configuration (`Middlewares/Nemeio/Configuration`) | current user configuration and layout, files | switch, select, update, delete | a mutex, button callbacks, AppComm | deletion of what is in use | the current one exists |
| Keypad (`Middlewares/Nemeio/Keypad`, `Libraries/NemeioKeypad`), keep-alive (`Libraries/KeepAlive`) | click state, timers | press, release, timeout | timer, then work queue | timeout work that is already queued when the timer is stopped | a click is simple or double, not both |
| Rest: display, file systems, USB stack, HID, drivers, crypto, LEDs, log, test benches | device registers, buffers | I/O | | | see section 7 |

### 1.2 Threads of control

FreeRTOS with preemption (`Platform/Target/FreeRTOS/FreeRTOSConfig.h`). The two tasks of the power manager
have priority 3, the AppComm task 3, the BLE communication task 2, the timer daemon 2 with a command queue
of 10. Interrupts post with `xQueueSendFromISR` and drop what does not fit; tasks wait for room for 10 ticks
and then drop. A failed `ASSERT` resets the system. In the models every step between two points at which
another task, an interrupt, the timer daemon or the other chip may come in is an action of its own; priorities
are not used to exclude interleavings, except where a comment in a module says so.

### 1.3 Hazards

`PROJECT.json` lists 40, each at its line. In short: the suspend timer's unlocked reads, `init`'s late PLUG_OUT,
dropped messages, timeouts that run against a stale supply, a threshold set from another task (power); a link tested
and written by two tasks (connectivity); power cuts at every step, errors dropped on close (environment); resets
between the steps that commit three chips, an image on trial, failures dropped by the rollback (update); retries
that are not idempotent, failures overwritten on their way back, headers split over two chunks (transfer to the BLE
chip); a transfer command shared by two tasks, a dropped error of the close, a wait under the proxy's mutex
(AppComm); a wait under a mutex, stale answers of the chip, packets of a full queue (BLE). Eight have no property
yet; each carries the reason, and most are in the parts planned in section 8. Others bite in this code as it is: the
property that names such a hazard says exactly when it does and that it does no more harm than that, and the
hazard's note says so.


## 2. Modules

| module | models | extends | proofs |
|---|---|---|---|
| `UsbPowerState` | the supplies (`usbPowerState.h`) | | |
| `PowerStateMachine` | `PowerStateMachine.cpp`, all states, events and operations | `UsbPowerState` | `PowerStateMachineProofs` |
| `BatteryStateMachine` | `BatteryStateMachine.cpp` | | |
| `UsbSupply` | the power manager task, the USB interrupts, the suspend timer and its daemon | `UsbPowerState`, `BatteryStateMachine` | in `PowerManagerProofs` |
| `PowerManager` | the whole: `UsbSupply`, the activity queue, the activity task, `PowerStateMachine` | `PowerStateMachine`, `UsbSupply` | `PowerManagerProofs` |
| `ConnectivityState` | `AbstractConnectivityState.cpp`, statement by statement, called by two tasks | | |
| `PowerConnectivity` | both tasks of the power manager, the state machine and the connectivity state | `PowerStateMachine`, `ConnectivityState` | `PowerConnectivityProofs` |
| `FirmwareEnvironmentStore` | abstract: a register written all at once or not at all | | |
| `FirmwareEnvironmentRedundant` | the two banks, step by step, under power cuts; implements the store | instance of the store | `FirmwareEnvironmentProofs` |
| `FirmwareUpdate` | download, `UpdateEngine`, boot, validation, rollback, recovery | | `FirmwareUpdateProofs` |
| `NrfFirmwareUpdate` | the transfer of a package to the BLE chip: parser, buffer, objects, commands and retries | | `NrfFirmwareUpdateProofs` |
| `BleChip` | the hierarchical state machine as a table, and the orders of its actions | | |
| `NrfCommunication` | mutex, queue, pool, communication task, and the chip as the other side | `BleChip` | `NrfCommunicationProofs` |
| `StreamDataCmd` | the transfer command of AppComm with the listener of a layout and its file | | |
| `AppComm` | the proxy and its mutex, both receivers, both streams, both AppComm tasks, which run that command | `StreamDataCmd` | `AppCommProofs` |

Each `MC` module gives constants their values (for the update it adds the flag explained below, for the transfer
a way to write down a package). Definitions named `X_Something` with the comment `fault:` are deliberately wrong
forms of `X`. The specifications do not use them: they show that a property would notice that mistake in the
code.

### 2.1 Composition and abstraction

* `PowerManager` is a composition by shared variables. Its two halves meet in one action,
  `updateUSBPowerStateToCheckActivityTask`, in which the power manager task posts the supply to the activity
  task. `PMImplementsPowerStateMachine` says that the composition drives the state machine only in ways that
  machine's own specification allows, so what is proved of the machine alone holds in the whole.
* `PowerConnectivity` joins the state machine with the connectivity state, which both tasks call: a step of the
  machine that makes the callback `active` or `sleep` begins a call of the activity task, each change of supply
  one of the power manager task, and the two run through each other statement by statement. Its supply side is
  abstract, as any supply may follow any other: the interrupts, the suspend timer and their races are in
  `UsbSupply`.
* `AppComm` composes `StreamDataCmd` with the proxy and the tasks: the same variables of the one command object
  are written by the two tasks that the composition schedules.
* `FirmwareUpdate` takes the transfer to the BLE chip as a step (`InstallNrf`) with three outcomes: installed;
  cut short by a reset; failed and reported as done. The third is what `NrfFirmwareUpdate` shows to be possible
  (a failure in the last bytes of an image is overwritten; a header that lies in two chunks spoils the images
  from its own on), so that step has it unless `answering` says that the chips answer and the headers come in one
  piece. `InstalledUnlessUnreported` says that these two are the only ways.
* `FirmwareEnvironmentRedundant` implements `FirmwareEnvironmentStore`. The mapping sends the two banks to
  what a boot would read from them now (`Survivor`): the abstract write happens at the program of the page, or
  at a power cut never.
* `FirmwareUpdate` uses the environment as that store does: an environment is written in one step. This is
  justified by the theorem `EnvImplementsStore` as long as the flash obeys; finding 2 says what happens
  otherwise.
* `NrfCommunication` uses `BleChip` as pure operators (`Target`, `Orders`).


## 3. How state and actions correspond to the code

Variables have the names of the members they stand for, actions those of the functions. Where they do not:

**Power.** `psmState` is the state of the `etl::fsm`; `listenerState` is the last `IPowerManageable` callback.
`pmPc` splits `updateUSBPowerState` where the other task may run: after the assignment, after the post, after the
notification. `mLowBatteryLevelThresholdPercent` is set by the parameters, from another task than the one that reads
it. `timerPc` splits `suspendDetectTimerCallback` after each of its two reads and before its send. `timerCommands`
is the timer daemon's queue: `xTimerStop` only sends a command. `bus` and `hostSuspended` are the world outside,
from which the interrupts come. `disturbed` and `forwardLost` are history variables: they record that a message was
lost or was late, which the code neither notices nor repairs. `activityPc` is "timeout" between the receive that
comes back empty (`PowerManager.cpp:267`) and the call of `timeout()` (`:298`): the task has no lock there, and the
power manager task, of the same priority, may change the supply, post it and finish in between. A wait of 10 ticks
for room is the action not being taken yet, or the message being dropped. Delays are abstract: only whether a delay
is infinite matters to the task that waits, and `connectivity` uses one value per field so that a delay taken from
the wrong field would show.

**Connectivity.** `call[c]` is where a task stands in an operation: "check" is the switch on `mState`,
"compare" and "write" are `setState`, "select" is the switch of `notifyState`, which reads `mState` again, and
"notify" is one listener after the other, each of which may make its caller wait. `overlapped` and `crossed`
are history variables: they record that two operations met, which the code does not notice, until a change of
supply that met none has set everything right again. `activityPc` is that of the power manager. `sleepCrossed` is a
history variable, too: the keyboard fell asleep while the activity task had not yet read a change of supply, or the
power manager task had not yet finished telling it (`HalfTold`); it is forgotten with the next change and when the
keyboard is active again.

**Environment.** `flash[bank]` is the id and the content, or `NoEnv` when the CRC is wrong. `pc` runs through
`reset` and `writeEnvironment`: remove the file (erase), open and write (the page buffer, no I/O), close (the
program, whose error is dropped). A program over a bank that is not erased, and an interrupted erase or
program, leave any id and a wrong CRC. An erased id is 0xFFFFFFFF, modelled as the greatest id.

**Update.** A package is one version of three firmwares. `active`, `trial` and `slot` are the boot loader's image
slots; `floor` is the oldest version the BLE chip accepts, which a commit raises to the version it runs. `pc` runs
through `SystemRuntime::start` ("boot" to "clean", "wipe" to "rollbackEnd"), the application ("app", "download") and
`UpdateEngine::run` ("start", "ite", "nrf", "stm"); "off" is the time before the boot loader. `answering` is fixed
in a behaviour: when it is true the BLE chip and the secure engine answer each call, and no header of a package is
handed to the transfer in two chunks. An installation may fail in any behaviour; a `PowerCut` may come at each step,
and tears what that step was writing.

**Transfer to the BLE chip.** A byte is its place in its image; `package` has the type, the size and the end of each
image. `pc` runs through `initUpdate` ("init" to "pingForced"), `receiveData` ("read", "parse"), `onManifest`
("pingDfu" to "select"), `pushBack` and `partialFlush` ("push", "packet", "pushed") and `_bufferFull` ("create",
"write", "execute"). `asked`, `nbRetry` and `answer` are the loop of `sendAndWaitForReply`; a reply is told from
another by its command only, as there. `via` tells why a packet is sent: a full buffer, bytes straight from the
chunk, the end of an image. `chip` is the boot loader of the chip (external): it counts the bytes it takes, wherever
they belong, and knows whether they came in order. `unreported` is a history variable: the images of which a packet
failed and the update went on. `mHeaderOffset` is what has been gathered of a header that a chunk cut
(`SplitHeader`). `ReadHeader` takes the rest as the code does: what is left (`copySize`) is computed from
`nextFirmwareOffset`, a field of the header, and not from the offset reached. A header cut before the end of what
stands in front of that field is complete all the same, but takes as many bytes of its image as it had before the
cut: `swallowed`. One cut within that field has a length made of some of its bytes, and what is copied is written
over the object: what the code does from there on is not defined, and the model ends with the result "undefined".
What stands where the next header should be, after `swallowed` bytes, is no header (`SpoiltHeader`): the update
fails, or a late reply is taken for the answer to it, and then bytes of an image are a length.

**AppComm.** `pc[t]` and `at[t]` are an AppComm task and the frame it handles: `evtStart`, `evtSend` and
`evtStop` up to the call of the listener, the listener's work, the answer under the proxy's mutex, the end of the
handler. `stored` is how many of the data's first bytes were written, or `Garbled`; `onDisk` is what the file on
the disk holds, for the file system keeps what is written until the file is closed. The close may fail, which
`LayoutWriter::endWrite` does not look at (`LayoutWriter.cpp:18`): then `onDisk` is what an earlier transfer left there,
and the check that follows ("check") sees the header and the metadata only. `unflushed` is a history variable: the tasks
whose close failed. `holder` is the receiver
that waits for room in its stream with the mutex in its hand. `met` and `crossed` are history variables: two
tasks were in the command at once, and none has cleaned up since without meeting another.

**BLE.** `LeafTransitions` has one row per `on_event` that returns a state. ETL offers an event to the leaf
first, then to its parents, runs handler, exit and entry actions in that order, and neither leaves nor enters
a state that is its own target; the library is not in the tree, and these rules are modelled from how the
code uses it. `todo` holds the orders of the event being handled: they are given one at a time, under
`mutex`, while the communication task goes on. `sending` and `frame` are the communication task inside
`execSendCommand`: its packet, and the event it has received meanwhile and must hand on, which needs the
mutex. `chip` and `frames` are the other side. `Faults` switches on what may go wrong.

External, modelled from the use `src/` makes of it: the boot loader (SBSFU), the nRF chip, ETL's hfsm, the
user and the hosts.


## 4. Runs

| run | configuration | instance | shows |
|---|---|---|---|
| `usb_supply` | `MCUsbSupply` | all interrupts, queue of 2, timer queue of 1, one level report | the supply believed is the real one once all is handled; a stable host is found out; battery state |
| `usb_suspend_race` | `MCUsbSupplySuspend` | queues of 2 | finding 1 |
| `power_manager` | `MCPowerManager` | every request, all queues of 1, plug and unplug, one setting of the threshold | supply forwarded and arrives, no delay ends in a shutdown on reported USB power, shutdown on battery, battery state fresh, refinement of `PowerStateMachine!Spec` |
| `connectivity` | `MCPowerConnectivity` | any supply, any request, one delay per field, queue of 1 | freshness of the delay, listeners informed, sleep by supply; the link fits supply and sleep; a computer is talked to |
| `environment` | `MCFirmwareEnvironment` | 3 contents, ids to 6 | readable, what is read survives, refinement of `FirmwareEnvironmentStore` |
| `environment_flash_fault` | `MCFirmwareEnvironmentFaults` | the flash may fail | finding 2 |
| `firmware_update` | `MCFirmwareUpdate` | 3 versions, answering chips and others | confirmed image, chips agree, package kept, update ends |
| `nrf_dfu` | `MCNrfFirmwareUpdate` | 6 packages, three with a header in two chunks, 3 replies late, 3 messages lost, a chip that may fall silent | a transfer reported as done is whole but for two ways, every transfer ends |
| `ble_commands` | `MCNrfCommunication` | 3 packets, queue of 8, two configuration commands, no faults | driver follows chip, configured before advertising, advertising starts |
| `ble_commands_faults` | `MCNrfCommunicationFaults` | 2 packets, queue of 3, all faults | packets and mutex have one owner |
| `ble_power_off` | `MCNrfCommunicationPowerOff` | as `ble_commands` | finding 3 |
| `app_comm` | `AppComm` with `MCAppComm.cfg` | 2 links, 2 bytes, streams of 1, 3 frames out, a close that may fail | a transfer is consistent between frames and applied whole; who loses the mutex |

The passing runs check 40 properties; for each there is a mutant, one plausible mistake in a modelled
function that the run then finds.

### 4.1 Bounds, and why they are enough

* `PowerManagerQueueLen`, `TimerQueueLen`, `ActivityQueueLen` (10 in the code): at 1 and 2 all of empty,
  partly full, full and overflowing occur, and a stale message can stand before and behind a fresh one. The
  safety properties of the two queues are proved for every length.
* `BatteryLevels = {10}` against an initial 100: one on each side of the threshold of 20.
* In `power_manager` the host is never suspended, so the timer daemon stays idle there; its
  interleavings are in `usb_supply`, and the proofs of the composition cover both. Its delays are all finite or
  all infinite; `connectivity` tells the fields apart.
* `SupplyQueueLen = 1`: a supply on its way, and one lost. The two calls meet at every pair of statements, and a delay
  may end, and its timeout run, before and after every one of them.
* `MaxId`: six writes. Each bank is overwritten several times; ids only matter by their order. The wrap of the
  32-bit id is out of reach: a flash sector lasts some 10^5 erases.
* `Version = 1..3`: the installed one, an update, and one older or newer than either; versions only matter by
  order.
* `Packets` (5), `QueueLen` (15), `Configuration` (3 or 4 commands): three packets hold a configuration of two
  commands and one more, as five packets hold one of four. With the faults, two packets and a
  queue of three are exhausted in every combination.
* `MaxFrames = 2`: two answers on their way at once, which already lets a stale one precede a fresh one.
* `PacketLen = 2`, `ChunkLen = 8`, `ObjectLen = 8` (64, 256 and what the chip says): a packet is filled by one
  piece or two, sent from the buffer or straight from the chunk, and is partial at the end of an image; an object
  has several packets and an image several objects. `HeaderLen = 3`, `NextField = 1` (12 and 8): a header can be cut in
  front of `nextFirmwareOffset` and within it. The packages have images that end with a chunk, within one and across
  several: no header of `<<8, 11>>`, `<<5, 11>>` and `<<2, 3, 2, 5>>`, the last with two pairs for a chip that restarts
  in between, lies in two chunks; that of the last image of `<<1, 3, 2, 5>>` does, that of the second of
  `<<4, 3, 2, 5>>`, and `<<3, 5>>` has one that is cut within that field. `NbTries` is the code's 3.
* `MaxLate = 3`, `MaxLost = 3`: a command can use up its tries by late replies, by lost ones or by a mixture,
  and three late replies can stand before the reply to a later command.
* `MaxLength = 2`, `Lengths = {0, 2}`: an empty transfer, one of a single SEND and one of two, and sends that are too
  long, out of order or repeated. `Window = 3` against `StreamLen = 1`: the least with which the mutex can be
  lost; a computer that waits for answers is among its behaviours.
* The assumption `Unhurried`, without the fault `hurry`: tasks start orders only when the pool can hold them.
  The code has no such rule; without it advertising can be lost (a hazard in `PROJECT.json`).

### 4.2 Fairness

Weak fairness of a task means: a task that stays ready runs. The two tasks of the power manager have the
highest priority of those that run for long and block on their queues; the timer daemon runs when they block;
a finite delay elapses and an armed timer expires. Interrupts, requests, users and hosts are never fair.

For the update, boot and update are one task that runs to its next reset, and the boot loader follows each
reset. `UpdateEnds` speaks of a keyboard whose power is stable from some moment on. A power cut cannot be
told from a reset by the states before and after it, so `MCFirmwareUpdate` adds a flag `stable` that, once
true, excludes further disturbances.

For BLE, the communication task and the task that gives orders run when they can, and a chip that was reset
starts. Handing on a frame is strongly fair: a frame the chip has pending is transferred with some command or
with the reception the interrupt asks for, also when commands keep the task busy.

For the transfer to the BLE chip, the update task and the task that hands it the replies run when they can; a
timeout is a step of the first, taken when nothing is on its way or what is comes late. The chip is not fair: it
may fall silent for ever. For the connectivity, both tasks run and a listener lets its caller go on in the end;
supplies and requests need never come. `AppComm` states no liveness and no fairness.

Deadlock is checked but in `app_comm`, where a failed assertion is the end, and `nrf_dfu`, where the transfer
ends.

### 4.3 The properties

*Power.* `CurrentTimeoutFresh`: no order of events leaves an old delay in force. `ListenersInformed`: the last
callback is the one of the state, outside the demo. `SleepMatchesSupply`: a change of supply always wakes the
machine from a sleep that belongs to the old one. `QuiescentSupplyRight`, `SupplyFoundOut`: what the power manager
believes is what cable and host say, finally and always when quiet, unless a message was lost or late.
`SupplyForwarded`: the two tasks' copies of the supply never part without a loss. `NoShutdownOnUsbPower`: no delay
ends in the sleep that leads to OFF while USB power is reported; a keyboard that shuts down all the same was plugged
in after its last delay had ended, and the report is then unread in the queue. The code does not look at the queue
again, so more does not hold. `IdleOnBatteryShutsDown`: an idle keyboard on battery always comes to OFF.
`BatteryStateFresh`: on battery the state shown is the one of the last level and of the threshold in force, unless
the threshold was set since, which the code does not look at again.

*Connectivity.* `LinkFits`: with both tasks at rest the keyboard talks over USB exactly when a computer is plugged
in and awake, over BLE while it is awake and not at all while it sleeps. `ListenersOnLink`: every listener was last
told of that link. Both except after two operations met (the hazard at `AbstractConnectivityState.cpp:104`) and
until the next change of supply. `LinkFits` also excepts the keyboard that fell asleep with a change of supply half
told (`sleepCrossed`): a delay ends, the host suspends, the keyboard sleeps on its own and then reads of the
suspend, which leaves it SUSPENDED without a link, though no two calls met and nothing was lost. `ComputerFound`: a
computer that stays is talked to in the end.

*Environment.* `ActiveBankReadable`: the assertion of `getActiveEnvironment` holds. `ReadsWhatSurvives`: a
restart never reads anything but what the firmware read before. `StoreSpec`: a power cut loses at most the
write in progress.

*Update.* `ApplicationConfirmed`: the application never runs an image the boot loader would take back.
`KeepsPackage`: the package of the running image is never given up. `RollbackPackageFits`: the other bank
never holds a package of a version that does not run. `ChipsAgree`: the application finds both chips on one
version. `UpdateEnds`: no reset loop.

*Transfer to the BLE chip.* `InstalledUnlessUnreported`: an update of the chip that is reported as done has put
every image in place or left it out for its version, whatever was lost or late, except for a packet that fails in
the last chunk of its image, as the end of the image overwrites that failure, and for the images from the one on
whose header lay in two chunks: when that is the last, the package ends within it and nothing tells.
`IgnoresOnlyOlder`: only a version that is too old lets an image be left out. `PacketFitsObject`: the assertion of
`_bufferFull` holds, also after packets that failed and behind a header in two chunks. `TakenOnceInOrder`: without
losses and delays, and with no header in two chunks, chunks, packets and objects split the image into each of its
bytes, once and in order. `TransferEnds`: whatever the chip does, or where the code no longer says what it does.

*AppComm.* `TransferConsistent`: between two frames there is a transfer with its listener, its open file and as many
bytes as the offset says, or nothing is left of one, however it ended. `AppliesTheWhole`: all the bytes announced
were written, first to last, and the layout put in place holds them, unless the close of the file failed: then it
may be the part an earlier transfer left on the disk. `ListenerFree`: the assertion of `prepare` holds. All three as
long as the tasks of the two transports do not meet in the command, which nothing in the code prevents.
`LockLostOnlyWhenCrowded`: the proxy's mutex is kept beyond its 5 s only for a computer that sends on without
waiting for answers.

*BLE.* `ChipFollows`: when everything sent has arrived the driver's state is the chip's. `AdvertisesConfigured`:
no advertising without name and report map. `AdvertisingStarts`. `PacketsOwned`: no packet is lost, released
twice or released while queued. `OrdersUnderMutex`: the orders of two events never mix.


## 5. What the checks found

Three runs show the code doing other than a comment or an assertion says. `PROJECT.json` has the quotes.

1. **A stale suspend report is accepted after an unplug** (`PowerManager.cpp:411-417`). The timer callback
   reads two variables of the power manager task without a lock and then queues its verdict. The task, of a
   higher priority, can handle the unplug in between; the verdict then makes an unplugged keyboard believe in a
   suspended host, until the next change of supply.
2. **A failed program is not noticed** (`FirmwareEnvironmentRedundant.cpp:202-210`). The environment is shorter
   than a flash page: `write` only fills the buffer, `close` programs it and drops the error. The bank was
   already switched, so the active bank cannot be read, and the next write erases the good one.
3. **Powering off can wait for itself** (`NrfCommunication.cpp:601`). The task that powers the chip off waits,
   holding the state machine's mutex, for the communication task, which may be waiting for that mutex to hand on
   an event. After 5 s the assertion in `AutoLock` resets the keyboard instead of switching it off.

Hypotheses of passing properties mark places where the code does not protect itself either, though no line
of the repository says that it would:

* the two tasks in the connectivity state (`overlapped`);
* a timeout that was decided on before a change of supply and runs after it (`PowerManager.cpp:267, 298`): the keyboard
  may shut down though it has just been plugged in (`NoShutdownOnUsbPower`), or be left without a link by a host that
  suspends (`sleepCrossed`);
* a supply dropped at a full queue (`forwardLost`, `supplyLost`), or overruled by the late PLUG_OUT of `init`
  (`disturbed`);
* a threshold that is set while the keyboard is on battery (`thresholdMoved`);
* the two tasks in the transfer command (`crossed`);
* the close of a layout's file that fails (`unflushed`, `LayoutWriter.cpp:18`);
* the failure that the end of an image overwrites (`unreported`);
* a header of a package that lies in two chunks (`swallowed`, `NRFFirmwarePackage.cpp:41`);
* a reset between the commit of the BLE chip and the validation of the STM32 image (`SystemRuntime.cpp:535, 543`), after
  which the boot loader takes the STM32 back and the rollback offers the BLE chip an image it may refuse, which counts
  as done. This rests on the reading of `BLESPICommands.hpp:44` that a commit makes the chip refuse older versions;
  `ChipsAgree` excepts that window (`floor`), and chips that do not answer (`answering`).


## 6. What is proved

All proofs use only SMT, Zenon and LS4, and no assumption but the named ones of the modules. The constants
are arbitrary: any lengths of queues, any delays and settings, any contents, any versions, any
pool and configuration.

| theorem | establishes | rests on |
|---|---|---|
| `PsmCorrect` | the type invariant and the four safety invariants of `PowerStateMachine` (`SuspendedOnlyWithHost` is one that no run repeats) | the conjunction is inductive. The delay is fresh because a change of supply re-enters a state whose delay depends on it; SLEEP, OFF, DEMO and SUSPENDED have a delay that depends on neither (`TimeoutOfUntimed`) |
| `SupplyCorrect` | `SupplyTypeOK`: no queue is overfilled; `BatteryFollowsSupply`, `BatteryStateFresh`: battery state by supply, last level and threshold | `SupplyInv`: in the middle of a forward the supply has been reported, which is what `NotifyUsbObserver` relies on |
| `QuiescentSupplyCorrect` | `QuiescentSupplyRight`, for queues of any length and every interleaving of interrupts, suspend timer and task | `QuietInv`: the last message about the cable that is on its way tells what was plugged in, and what is behind it in the queue undoes nothing (`PlugSettles`); the same of the last word about the host, which is a message, a verdict of the timer, or a timer that will give one (`ResumeSettles`, `SuspendSettles`) |
| `SupplyForwardedCorrect` | `PMTypeOK`, `SupplyForwarded` | `PMInv`: the invariants of both halves and the last USB message in the queue |
| `NoShutdownOnUsbPowerCorrect` | the action property | `PMInv`: a delay ends only with an empty queue, so `SupplyWillBe` is then the supply the machine has, and `SleepMatchesSupply` gives the first half. At the timeout, which may come later, only a sleeping machine on battery goes to OFF, and `SupplyWillBe` finds the report in the queue. `TimeoutDue`: only a finite delay of a running machine ends |
| `PMImplementsPowerStateMachine` | every step of the whole is a step of the machine or a stutter | `PMStepIsPsmStep`, under `PMInv`, which bounds what the queue holds |
| `ListenersOnLinkCorrect` | `ListenersOnLink`, for any number of listeners | `ConnectivityInv`: an operation nobody crossed still finds the state it looked at, then the one it wrote, and has told that one to the first of the listeners (`UncrossedCall`, `UncrossedNotice`) |
| `LinkFitsCorrect` | `LinkFits`, with a queue of supplies of any length | `LinkInv`: the two invariants of the halves; while a supply is on its way to the activity task the link stays the one it set, and nothing puts the keyboard to sleep without crossing or falling asleep half told (`LinkFollows`, `AwakeForSupply`), which is remembered until the keyboard is active again (`NotActiveSince`) |
| `LinkImplementsPowerStateMachine` | every step of the composition is a step of the power state machine or a stutter | `LinkInv` |
| `EnvCorrect` | `EnvTypeOK`, `ActiveBankReadable`, `ReadsWhatSurvives` | `EnvInv` under `Reliable`: at each step of a call, which bank holds the greatest valid id |
| `EnvImplementsStore` | `EnvSpec => StoreSpec` | `EnvInv`, and that what is erased or programmed is never what survives (`DangerIsHarmless`) |
| `UpdateCorrect` | `ApplicationConfirmed`, whatever fails | `TrialInv`: an image on trial is known to the environment or to the backup register until the boot has decided |
| `PackageKept` | `KeepsPackage`, whatever fails | `TrialInv` and `BootInv`: what each step of the boot has already found and done |
| `ChipsCorrect` | `ChipsAgree`, `RollbackPackageFits` | those and `ChipInv`: the package in the other bank is the confirmed image's, except between validation and the write of the environment (`Validated`) |
| `NrfCorrect` | types, `PacketsOwned`, `OrdersUnderMutex`, whatever fails | `NrfInv`: also, that only the power manager orders POWEROFF and holds the mutex until then (`PowerOffOrdered`) |
| `AdvertisesConfiguredCorrect` | `AdvertisesConfigured`, without restarts of the chip and lost frames, as long as the orders that configure it find room | `StartInv`: from reset to advertising, which side waits for what; `ConfInv`: every command that configures is ahead of the one that advertises, in the chip, in the queue or among the orders of the event at work |
| `ChipFollowsCorrect` | `ChipFollows`, likewise, as long as those and the orders to start and stop advertising find room | `FollowInv`: the events on their way lead, in their order, from the state of the driver to the mode of the chip (`Follows`); where the two differ, an order on its way makes up for it (`Agrees`) |
| `AppCommCorrect` | `TransferConsistent`, `ListenerFree`, `LockLostOnlyWhenCrowded`, for every length, stream and window | `StreamInv`: where the one task in the command stands says what is there of a transfer (`Where`), and who met whom (`Who`); `LockInv`: a receiver that keeps the mutex has its frame in its hand |
| `LayoutsWhole` | `AppliesTheWhole` | `StreamInv`: at "finish" the offset is the length announced; at "check" the file was closed, and holds what was written unless that failed |
| `PacketsFit` | `PacketFitsObject` and `NrfUpdateTypeOK`, for every package and all lengths of packets, chunks and objects, whatever the chip does | `FitInv`: an object is a number of packets, so where there is room there is room for a whole one (`RoomForPacket`); a full buffer with nothing to push behind it is the end of its image (`Pushing`), so no packet of an image follows one that failed, unless its header took bytes of it and the package has come to its end (`Exhausted`); no more is sent than is outstanding |
| `IgnoresOnlyOlderCorrect` | `IgnoresOnlyOlder`, for every package of pairs of images, whatever is lost, late or repeated | `RefusalInv`: replies keep their order, so behind the first reply to a command there is none to an earlier one (`Channel`); a reply to EXECUTE that is taken was given after a packet of this image was taken, hence about it (`BytesTaken`, `Refusals`) |
| `TakenOnceInOrderCorrect` | `TakenOnceInOrder`, likewise, without losses and delays and with no header in two chunks | `OrderInv`: while all is tidy at most one command or reply is on its way and it is the right one (`Conversation`); what remains to be sent is what is buffered, to be pushed and to be received (`Ledger`); the chip has what was sent, up to the object that is open (`Progress`). Once it is not tidy it never is again (`UntidyStays`, `SwallowedStays`) |
| `InstalledUnlessUnreportedCorrect` | `InstalledUnlessUnreported`, for every package of pairs, whatever is lost, late or repeated, and whichever reply is taken for another's | `DeliveryInv`, see below |

`InstalledUnlessUnreported` speaks of the end of the update, long after the images it is about; `DeliveryInv` says what
the chip has of the image at hand while its packets are taken. It is `RefusalInv` with these parts:

* `Account`: as long as no packet of the image failed, the `Ledger` of `TakenOnceInOrder` holds, here without the
  hypothesis that nothing is lost or late; the lemmas on it (`ReadHeaderLedger` to `PacketTakenLedger`) serve both
  theorems.
* `Failures`: behind a packet that failed the image has come to its end, and nothing more of it is sent; or the package
  has come to its end within it (`Exhausted`).
* `InitSent`, `DataSent`: when the update task has taken the answer to an object, the chip has executed that object
  of that image. Success of EXECUTE is in the channel only if the chip executed what was sent (`Told`), also when the
  command went out three times and the answer is the one to the first.
* `CreateTold`: a late reply to CREATE can be taken for the answer of the next, since both images of a pair
  begin with one. This says what the chip must have open for such a reply to exist.
* `Stale`, `Misled`, `TooFar`: where failures were overwritten the chip may still expect an earlier DATA image, and
  take the bytes of this one for that one's. Either it has executed nothing of that image; then every image since
  was given up without a report (`Stale`), the two before this one among them (`Misled`), and the property excepts
  that. Or it has executed some; then its checksum is further on than what the update task has sent (`TooFar`), and
  the packet fails.

Only `Finished`, that the DATA images before the one at hand are in place, or lie behind a header in two chunks, is
the property itself, on the way. It was checked with TLC, before it was proved, with objects of two packets, two
tries and packages of up to three pairs of images: the cases of `Stale` and `TooFar` need a third pair or a second
object.

The properties are seldom inductive as they are stated. `ApplicationConfirmed`, for instance,
speaks of a single variable in the application, but whether a boot reaches the application with an image on
trial depends on what was stored before a reset many steps earlier; `TrialInv` says what that is. Each
strengthening was checked with TLC on small instances before it was proved.

Some invariants got their form from an attempt that failed. That no listener is told before the state to tell has
been read (`NoneToldEarly`) looked too obvious to state. `IgnoresOnlyOlder` first named only the image at hand; the
proof stopped at the header of the DATA image behind a refused INIT image, with the flag still up, which the
property now says. And it does not hold of any list of images: it needs them to come in pairs.

Hypotheses of theorems beyond the constants' assumptions:

* `Reliable` (`DeviceFaults = FALSE`) in the two about the environment: without it finding 2 is a counterexample.
* `Reliable` in `AdvertisesConfiguredCorrect` and `ChipFollowsCorrect`: the chip does not restart by itself and no
  frame is lost; how early or late it answers is free. They also assume `[]ConfigurationFits` or `[]OrdersFit`: an
  order about the configuration (or about advertising) finds room in the queue and a packet in the pool, unless the
  chip is on its way to its boot loader. That does not follow from the lengths in the code. HID reports share the
  queue and the pool and their number is not bounded, and the result of an order that finds no room is dropped: the
  hazard at `BleChip.cpp:401`. TLC finds both conditions invariant in the instance without faults, so the hypothesis
  excludes nothing of what `ble_commands` explores.
* `ChipsAgree`, `RollbackPackageFits`, `TakenOnceInOrder`, `LinkFits` and the others with a history variable carry their
  hypotheses (`answering`, nothing lost or late, no header in two chunks, ...) themselves; section 5 lists them.

`NrfUpdateAssumption` is what the code relies on without saying so: an object is a whole number of packets, a packet
is no longer than a chunk, and the images of a package lie behind one another, each behind a header that is no
longer than a chunk. `PairsAssumption` adds what `mIgnoreNextFirmware` relies on: INIT and DATA images take turns,
and an INIT image fits one object. `NrfAssumption` says that the commands that configure the chip are none of its
other commands.


## 7. What is only model-checked, and what is left out

Only model-checked: all liveness properties (`SupplyFoundOut`, `SupplyReachesStateMachine`,
`IdleOnBatteryShutsDown`, `ComputerFound`, `UpdateEnds`, `TransferEnds`, `AdvertisingStarts`), which are beyond
the prover. Every invariant and every action property of the passing runs is also a theorem.

Left out of what is modelled:

* `usbResume` ends in `updateUSBPowerState`, whose own `xTimerStop` repeats the one just sent; it is left out.
* The settings of the environment are abstract contents, and the migration from version 1 is not modelled.
* Installing on the display controller has outcomes but no steps. The decompression of a package is taken to
  deliver its bytes.
* Transfer to the BLE chip: what the code does with a length that is none, behind a header cut within
  `nextFirmwareOffset` (the result "undefined"); `getVersion`; and the chip's own object size, which is the constant
  `ObjectLen`. The chip answers a command when it gets it, and what is late is the
  reply: to the update task a command that waits cannot be told from a reply that does.
* AppComm: the pointer to the listener is read with the check before it; all transfers are of one layout, hence of
  one file; once two tasks have met, the writer of one may be destroyed under the other, which is not followed
  further. `ReceiveDataCmd`, the same template read backwards, and the listeners of configurations are not modelled.
* The test bench branches of `SystemRuntime::start`, and a second recovery before the first is dealt with.
* BLE requests with their timers, and the parser of the frames' bytes.

Not modelled: file systems and block devices (littlefs, FatFS, the package file system; what the models rely
on, buffering until close and the verification of a package, is in them), display, battery gauge and charger,
USB stack, HID and key protocol, configuration codecs and storage, LEDs and front light, demo, cryptography,
logging, watchdog, test benches, I2C, SPI, QSPI, GPIO and PWM drivers: register access, conversions and
sequential I/O, or vendored code. Parts with state worth modelling that are missing are in the plan.

The map covers a small share of the C and C++ in the tree, because most of that is not the keyboard's logic:
`Drivers` alone, the HAL and the CMSIS headers of the microcontroller, is some 110 000 of 187 000 lines. Of the
rest, the display, USB, HID, file system and test bench code named above is the larger part. Of the files that
belong to the components modelled wholly or in part, the map covers more than four tenths; what is left there is
includes, declarations, logging and accessors.


## 8. Plan

Done of the first plan: connectivity composed with the power manager, the transfer to the BLE chip, the streams
of AppComm with their proxy. Left, in this order, each with its hazards from `PROJECT.json`:

1. `BleRequests`: requests with a timer, the daemon and the work queue. Abstract specification: a request ends
   once, with an answer or a timeout. The click and keep-alive timers have the same shape and share a module
   for a timer whose work runs later.
2. `ConfigurationSwitcher`: the current configuration against updates and deletions, and `ReceiveDataCmd` and the
   listeners of configurations beside it.
3. The restart of the BLE chip while the driver waits for it to advertise, and orders that are lost to a full pool:
   both need a specification of what the driver should do then.
4. A refinement: the transfer of `NrfFirmwareUpdate` as the step `InstallNrf` of `FirmwareUpdate`, and an abstract
   specification of the update as a switch of two chips.
5. Arithmetic at the width of the code: the delays of `updatePowerManagerStateMachineTimeouts`, the ticks of
   `PowerOffButton`, the chunks of the frame parser.
6. Proofs: of what the items above add; and, once the HID reports in flight are bounded, `ConfigurationFits` and
   `OrdersFit` as theorems instead of hypotheses.
