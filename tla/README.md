# TLA+ models of zephyr_app

zephyr_app is a set of Zephyr firmware applications for one product family: a
gateway between a 2.4 GHz radio link and UDP, the battery powered hand control
at the other end of that link, a Modbus data collector, a laser controller and
its bootloader, with the drivers and libraries they share. This directory
holds TLA+ models of the parts whose correctness depends on the order of
steps, the TLC configurations that check them on small instances, and TLAPS
proofs.

Paths below are relative to `src/`.

## 1. Inventory

| Part | State it keeps | Operations | Talks to |
|---|---|---|---|
| `drivers/nrf24l01p/nrf24l01p.c` | chip mode, `ready`, lock, `tx_done_sem`, `irq_sem`, last status, receive queue or callback | interrupt thread, `nrf24_send`, `nrf24_recv`, power, configure, start_rx, registration | chip over SPI, CE and IRQ pins; gateway and mod_handler radio services |
| `drivers/nrf24l01p/nrf24_crypt.c` | transmit counter, receive counter, `rx_initialized` | seal, open, set_key, rx_reset | both radio services |
| `libs/udp_fw_upgrade` | `fw_started`, `fw_received`, flash context | START, DATA, END, VERSION, REBOOT; other commands go to the application | flash slot1, MCUboot, UDP host |
| `libs/can_fw_upgrade` | `fw_img_initialized`, count, total, flash context, key buffer | keyhash, START, DATA, CONFIRM, VERSION, REBOOT | flash slot1, MCUboot, CAN host |
| `tools/can_upgrade_cli.py` | position in the exchange | one firmware upgrade | CAN server |
| `applications/gateway` | `gw_params` and the settings, `gw_net_link_up`, sockets, LED flags | forward radio to UDP and back, configuration commands, shell, status LEDs | driver, UDP library, settings |
| `applications/mod_handler` | `sleeping`, `waking`, link type, power rails, joystick and battery values | sleep and wake, link switch, scan, display, heartbeat | driver, CAN library, main loop, work queue |
| `applications/laser_ctrl` | status bits, event object, register cache, upgrade context | serial request and acknowledgement, CAN commands, register writes, firmware upgrade | serial laser, CAN, flash |
| `applications/stm32_bootloader` | upgrade flag, buffer, counters | START, DATA, CONFIRM, verify, jump | CAN, UART, flash |
| `applications/data_collect` | holding registers, DO, TCP connection, history file, fifo, FTP sessions, network events | Modbus TCP and RTU, UDP and CAN commands, history, heartbeat, HTTP upload, FTP | files, flash, sockets |

What is hard in each, and what makes it correct:

* **Radio driver.** A sender, the interrupt thread, the chip and whoever
  powers or configures it interleave around one mutex, one semaphore and a
  status word read earlier. Correct: a result tells the truth about its own
  frame; a frame is not transmitted after its call has returned; outside a
  send the chip listens; pending reception is served though edges get lost; no
  call waits for ever.
* **Firmware upgrade.** Datagrams are lost, repeated and reordered, CAN frames
  and replies are lost, the flash may fail, the device may restart, and
  data_collect has two servers for one slot. Correct: counts agree with what
  the flash context holds; between acceptance and restart the slot holds what
  was accepted.
* **Gateway LEDs.** Two threads and a work item share unlocked flags. Correct:
  the light never sticks, each activity is visible, an error stays lit.
* **Hand control power.** `system_sleep` and `system_wake` block in the middle,
  and the main thread, the work queue, the shell and the receive threads go on.
  Correct: asleep means rails off, awake means rails and link on.
* **Radio link.** Retries duplicate frames and lost acknowledgements hide
  deliveries; counters of eight transmitted bits follow counters of 32.
  Correct: the two ends agree on the key stream, no frame is accepted twice.
* **Gateway configuration.** Two editors change `gw_params` without a lock and
  save it key by key, and the power may fail between two keys. Correct: what
  was reported as done is found again; settings, memory and radio agree when
  nothing is under way; the link flag follows the cable.
* **Laser controller.** A wait forgets what was posted before it; two threads
  share one transmit buffer, one event object and one register cache. Correct:
  the status bits tell what the sensor does once the dialogue has been put in
  order; the registers read are those in flash; an abandoned upgrade ends.
* **Bootloader.** It overwrites the only copy of the application, page by page.
  Correct: what is started is one image, whole; the buffer is not overrun.
* **Data collector.** The system work queue executes Modbus requests, saves
  settings and writes the history; every service is a thread that meets it
  through a semaphore, a mutex or the registers. Correct: records stay, replies
  belong to their requests, outputs fall when the master is silent, changes of
  files need the password, every server starts.

The full list, line by line, is under `hazards` in `PROJECT.json`.

## 2. Modules

| Module | Models | Runs | Proofs |
|---|---|---|---|
| `Nrf24Driver` | radio driver | `Radio`, `RadioBurst` | `Nrf24Driver_proofs` |
| `FirmwareUpgrade` | UDP and CAN upgrade servers, the CAN host tool, slot1 | `Upgrade`, `UpgradeCan` | `FirmwareUpgrade_proofs` |
| `GatewayLed` | gateway LEDs and the boot order that reaches them | `Led`, `LedLatch` | `GatewayLed_proofs` |
| `HandlerPower` | sleep, wake and link switch of the hand control | `Handler`, `HandlerWake` | `HandlerPower_proofs` |
| `RfLink` | both ends of the encrypted radio link | `Link` | `RfLink_proofs` |
| `FrameChannel` | abstract: what one direction of that link promises | refined by `RfLink` | `RfLink_proofs` |
| `GatewayNet` | gateway boot, network, settings and their editors, forwarding | `Net` | `GatewayNet_proofs` |
| `LaserCtrl` | laser controller: serial dialogue, registers, upgrade | `Boards` | `F103Boards_proofs` |
| `Bootloader` | `stm32_bootloader` | `Boards` | `F103Boards_proofs` |
| `F103Boards` | either of these two programs | `Boards` | `F103Boards_proofs` |
| `DaqRecorder` | data_collect: sampling and the history files | `Collect` | `DataCollect_proofs` |
| `DaqControl` | data_collect: outputs, Modbus, heartbeat, settings; extends `DaqRecorder` | `Collect` | `DataCollect_proofs` |
| `FtpServer` | data_collect: the FTP server on the recorder's files; extends `DaqRecorder` | `Collect` | `DataCollect_proofs` |
| `DaqNetwork` | data_collect: from power-up to serving; the UDP port of `libs/udp_fw_upgrade` | `Collect` | `DataCollect_proofs` |
| `DataCollect` | the board: composition of the four | `Collect` | `DataCollect_proofs` |

The `MC` modules extend these for TLC; `MCNrf24Driver`, `MCFirmwareUpgrade`,
`MCGatewayLed` and `MCHandlerPower` hold the claims of documents and comments that the code refutes. An
operator whose comment begins with "Mutant" is a faulty form of the operator
that follows it; no specification uses it.

### Nrf24Driver

Every function except the interrupt thread holds `nrf24_data.lock` from its
first to its last access to the chip, so each critical section is one action
whose guard is `~locked`; `locked` is true while the interrupt thread owns the
mutex. `nrf24_send` is five actions: `SendBegin` (the application's
`rf24_tx_mutex`, which serialises calls), `SendStart` (first critical section),
`SendWake` or `SendTimeout` (`k_sem_take` without the lock), `SendFinish`
(second critical section). The interrupt thread is one action per SPI transfer
of its receive loop (`IrqTop` .. `IrqFinal`), because frames arrive and
acknowledgements come in between any two. The chip is a party of its own:
`RadioReceive`, `RadioAcked`, `RadioGivesUp`, and `Edge`, which may be lost.
`PowerOff` leaves `ready` false and the chip blank. MISO has no pull resistor:
each read of an unpowered chip returns all zeros or all ones (`Readings`), chosen
anew. The interrupt thread looks at `ready` before it takes the lock, so it can
find itself in its receive loop on such a chip, and as long as the line reads
high it goes on there and keeps the lock that switching the power on again
needs. `SendReturns` says that every other send returns; it excepts behaviours
in which the loop stays on a dead chip for ever (`ReadsDeadChip`). They are no
artefact: without the exception TLC finds one with one send and one power-off, no
frame and the other constants of `Radio`.

Left out: SPI errors, the blocking time of a transfer, the carrier test, the
payload's content and length, and the numbers of retransmissions. `irq_sem`,
which counts up to its limit, is a Boolean: the thread looks at the status
after every take, so a second unit only makes it look again. `acked` and
`gaveUp` are history variables.

### FirmwareUpgrade

The unit of data is a frame; the image is the sequence `1 .. ImageLen`, a cell
of the slot holds a frame number, `Blank` or `Garbage`. Programming a cell that
is not blank spoils it (`Burn`). `flash_img` (external) buffers `Block` frames.
UDP commands come from an environment that may send any of them at any time,
which covers every loss, repetition and order of datagrams. The CAN side is
driven by the repository's own host program, `tools/can_upgrade_cli.py`, that
its user may run again. `FW_END` is two actions, `UdpEnd` and `UdpRequest`,
because in data_collect the CAN thread may run between the CRC check and the
boot request. `Reboot` is the REBOOT command, a power cycle, or a watchdog: the
servers forget their sessions and MCUboot swaps a requested image.

Left out: the CRC is exact (collisions of CRC-16 are not modelled), VERSION
commands (no state), sockets, the subnet filter, and reboots in the middle of a
swap, which MCUboot handles.

### GatewayLed

Time is counted in ticks of 50 ms. `gw_led_rf24_activity` is six actions, one
per access to a shared variable; a work handler is one action, since the system
work queue is a cooperative thread. Time does not pass a due work item. The
difference `uptime - rf24_last_activity` is kept up to the timeout it is
compared with. `Fatal(t)` is `k_sys_fatal_error_handler`: it lights the error
LED and the kernel aborts the thread where it stands. `CallTicks` bounds how
long a thread is preempted inside one call.

### HandlerPower

Three threads move the power rails: main and the shell run `system_sleep` and
`connect_switch`, the system work queue runs `system_wake` and
`connect_switch`. `pc[t]` says where thread `t` is; each procedure is one
action per access to shared state, split where its thread blocks or can be
preempted (`SleepClear` .. `SleepDark`, `SwitchRead` .. `SwitchSave`,
`sleep_work_handler` .. `WakeDone`). The part of a work handler before its
first wait is one action, since the work queue is cooperative; main, at
priority 0, is not overtaken by the shell or the heartbeat while it is ready
(`Runs`). The rails are `power`, the bits of `global_params.event` are
`wakeEvent` and `linkEvents`; posting an event readies the threads that wait
for it. `heart_thread` stands for the threads that wait for `WAKE_EVENT`: the
receiver and the two ADC threads wait for it in the same way.

The history variable `clash` records that two of the procedures, or a switch
and the sleeping state, have overlapped.

Left out: the frames themselves, the display, the handle button, settings that
fail to save, and the lengths of waits: main may find the ten minutes over at
any look, and a wait may outlast another. `last_activity_time` is therefore not
a variable. (`system_wake` writes it after it has cleared `sleeping`, so that
main can start the next sleep on the old value; the model has that step, as an
overlap.)

### RfLink and FrameChannel

Two ends, each with an application, a shell and a receive thread. One
`nrf24_send` under `rf24_tx_mutex` is one step with the outcome of the radio:
acknowledged, heard with the acknowledgement lost, or lost; what happens inside
is `Nrf24Driver`. A frame is sealed before the mutex is taken, in two steps
(`BeginSend` loads `tx_counter`, `StoreCounter` stores it). So is opening one,
which takes no lock either: `Pass` is the check of the window and the inferred
counter, `Opening` the decryption and the store, and between them (`hand`) a
`nrf24_crypt_set_key` of another thread may forget the counters that the store
then sets. `InWindow` and `FullCounter` are the arithmetic of
`nrf24_crypt_open`, with the byte's range `Mod` and the window as constants. A frame decrypted with another counter or
another key is noise and reaches nobody. Both ends may have their counters
reset: by a new address, a link switch of the hand control, a restart of the
gateway.

`FrameChannel` says only: frames are sealed once, opened only if sealed, and
none of the last `Memory` frames opened since a reset is opened again. `OpensOnce`
is the refinement, for the direction to the gateway, with the history variables
`sealed` and `opened` and, for `Memory`, as many windows as do not come to a full
turn of the byte: `(Mod - 1) \div Window`, seven with the 256 and 32 of the code.
More the byte cannot promise: a frame that a preempted thread repeats after eight
windows is opened again.

Left out: the cipher and the length of backoffs; the two ends colliding is a
loss on both sides.

### GatewayNet

A configuration value is the number of the command that set it; 0 is the
default, `Torn` a string that is being rewritten. The configuration port and
the shell are two `Editors`; a command is the sequence of steps it still has to
do (`op`): keys to save, the radio to set, the reply. Saving a key reads
`gw_params` when its turn comes. `PowerCut` comes between any two steps and
leaves the settings, `Reset` erases them under the running system (`wiped`).
`main` runs at the highest priority until it first waits. Left out: DHCP leases
and commands that only read; `use_dhcp` is a key that is saved like the others.

### LaserCtrl, Bootloader, F103Boards

`LaserCtrl`: `todo[c]` is the sequence of exchanges that commander `c` (the CAN
thread or the shell) has begun, `at[c]` the place in `serial_send` of the first
of them: print, transmit from the first to the last byte, wait. `Runs` is the
order of priorities. The sensor (external, from the table of its error codes)
answers each command, and while it measures only a stop is accepted.
`laser_flash_write` is three actions. `synced` and `solo` are history: an
exchange is disturbed when another begins before it is over.

`Bootloader`: the flash is counted in frames and `pc[t]` is where the thread of
transport `t` is in `fw_update`: erasing, writing, advancing, jumping. The CAN
thread may preempt the UART thread at each of these. A START may announce any
size: nothing is erased for 0, and no more than the application's part of the
flash for one beyond it; of an image that does not fit the last frames meet no
erased cell. Hosts send every frame of a download once, in order; a frame may be
lost in a full queue. History:
`complete` is the set of downloads that were in flash in full and have not been
joined since by a download that two transports took part in. The last part was
found by the proof of `StartedInFull`: `Start` clears `mixed`, so that the flag
alone does not tell that the flash was written by two transports in an earlier
download; it takes a third download, more than the run allows, to see it.

`F103Boards` runs one of the two: they share the host's protocol and nothing
else, so one state space is the sum of the two.

### DaqRecorder, DaqControl, FtpServer, DaqNetwork, DataCollect

The system work queue is one thread for the history (`wq`, `cur`), the Modbus
requests (`rtu`, `raw`, `exec`) and a save of all settings. It is cooperative:
`Preempted` says where others may run, which is where it waits for the flash or
has nothing to do. `DaqRecorder` declares the registers, since the samplers
read them. A data file is a sequence of sample numbers, named by its second;
`synced` is the part that survives a power cut. `tcp_poll` is `stage`, the one
connection and the shared `tmp_adu`; ids tell requests apart. A request whose rest
does not arrive, or that cannot be submitted, gets no reply (`RequestLost`).

`FtpServer` is one thread: `job` is the command it is in the middle of. A
session's `proved` is history, set by the right password and cleared by every
user name. A path is modelled by what it leads to (`Paths`): a file of the recorder,
another file, no file, or nothing that can be a path. A data port that could not be bound or listened on may stay in the
session (`Pasv`).

`DaqNetwork` is one record, `lan`: how far `main` has come with the SYS_INITs,
the link, the address, and each thread that waits for them.

`DataCollect` composes them. A behaviour has one kind of `clients`: the masters,
the parameter channels, FTP clients, each beside the recorder, or the network.
The first three share the registers, the work queue and the files; the network's
part of them is only read at its boot.

Left out: what is in a sample and the other registers, directories other than
the root, HTTP, CAN frames as such (a CAN command is one of `Channels`).

## 3. Runs

| Run | Bounds | What it shows |
|---|---|---|
| `Radio` | one sender thread, two sends, one received frame, one power-off/configure/registration, queues of one, power switch present | `TxResultIsOwn`, `RadioListens`, `OnlyOwnFrameOnAir`, the invariant `DriverInv`, and under fairness `RxServed`, `SendReturns` |
| `RadioBurst` | the same with two received frames | `NoFrameFlushed` is violated |
| `Upgrade` | image 3, slot 4, block 2, progress every 2 frames, one key frame, one flash failure, two host runs, one CAN loss, for UDP alone, CAN alone, both | `CountsAgree`, `VerifiedStays`, `ConfirmedNotShort` |
| `UpgradeCan` | CAN alone, no flash failure, two host runs, two losses | `ConfirmedImageIntact` is violated |
| `Led` | two threads, three calls, half period 2, timeout 8, self-test 3, preemption up to 3 ticks | `NeverStuckOff`, and under fairness `BurstVisible`, `SteadyWhenQuiet` |
| `LedLatch` | one call | `ErrorLightLocked` is violated |
| `Handler` | two sleeps, one press of the power key, one link switch | `OrderlyPower`, `SwitchSettles`, `NoWakeLost`, and under fairness `WaitersResume`, `HeartGoesOn` |
| `HandlerWake` | one sleep, one press, no switch | `SleepPowersOff` is violated |
| `Link` | two addresses (symmetric), byte of 10 values, window 3, one retry, queue of 2, two threads of the hand control send and the gateway echoes, three frames an end, one reset, also in the middle of opening a frame, counters that start at 0 or one below the wrap | `OpensOnce`, `KeepsStep` |
| `Net` | two commands, one power cut, two changes of the carrier | `AckedDurable`, `SettledAgrees`, `LinkKnown`, and under fairness `LinkFollows` |
| `Boards` | laser: queue of 2, three commands, one fault, an image of one frame; bootloader: three pages of one frame, buffer of two, images of 2 and 3 frames, announcements of 0 and of 4 frames, which do not fit, two downloads, one mishap | `StatusAgrees`, `RegistersKept`, `BufferKept`, `ConfirmedWhole`, `StartedInFull`, and under fairness `UpgradeGivenUp` |
| `Collect` | one sampler, files of two records, two files, fsync every two, fifo of one, five samples (one beside masters or FTP), three seconds, one parameter channel with two settings, three requests, one fault, three FTP clients on two sessions with four commands, two troubles of the network | `RepliesMatch`, `OutputsKnown`, `OwnersProved`, `PortReceives`, `RecordsKept`, and under fairness `HeartDrops`, `ServersStart` |

Why the bounds are enough:

* Two sends are what a result, a payload or a status bit needs to be carried
  over from one call to the next; only one call is in progress at a time. One
  power cycle or reconfiguration can fall into any state of either. Every read of
  a chip without power may be all zeros or all ones. The proofs of the safety
  properties cover any number of senders and operations.
* An image of three frames with blocks of two leaves a block half full at the
  end, and one frame of slack lets a repeated datagram be written without
  error. Two host runs are what an interrupted and a repeated upgrade need.
* Three activity calls by two threads give a call during a burst, one at its
  end and one after it. `Timeout` and `HalfPeriod` keep their proportion (400
  and 100 ms).

* A window of three below a byte of ten values leaves a memory of three frames
  (`(Mod - 1) \div Window`), as 32 below 256 leaves one of seven. Counters that
  have come to 9 put the wrap between the first frame and the second; those that
  start at 0 have the receiver take its first frame without a window. Three
  frames an end are one opened, one lost and one that must still be opened in
  step; with so few, no frame opened between two resets is ever outside the
  memory, so the run does not reach the limit of what the byte can promise. That
  limit is the matter of the theorems `CopiesFarApart` and `LinkOpensOnce`.
* Two commands are what an interleaving of two editors needs, and either may be
  the one a power cut interrupts.
* An image of two frames fills the buffer exactly, one of three ends with a
  half-full buffer in the page of the flag, one of four has a frame more than the
  flash, and none is announced as 0. Two downloads are a download and the
  one that starts over, on the same or the other transport. Longer pages and more
  downloads are left to the proofs, which cover every value. A queue of two in place of the three
  of the code is full after a distance and an acknowledgement.
* Five samples fill two files and rotate into a third. Three clients use the
  entry of a session that has ended; four commands are a login, a command and a
  change of the login.

* Two sleeps, a press and a switch let every pair of the three procedures
  overlap, in the second sleep also on the state that a wake-up has left.

Deadlock is checked in `Radio` and `Led`. `Handler` says `CHECK_DEADLOCK
FALSE`: when nobody presses the power key the sleeping system stops. `Upgrade`
says `CHECK_DEADLOCK
FALSE`: with the CAN host's runs used up and no session open the modelled part
of the world may have nothing left to do. `Link`, `Net`, `Boards` and `Collect`
say so as well: once the frames, commands and faults their bounds allow are used up,
their systems wait for input.

### Fairness

* `Nrf24Driver`: the interrupt thread is a cooperative thread whose waits end,
  hence weak fairness of `IrqThread`. Its two waits for the mutex, and those of
  `nrf24_send`, are strongly fair: Zephyr hands a mutex to the highest-priority
  waiter when it is unlocked, and critical sections are finite. `SendWake` or
  `SendTimeout` happens because the semaphore is taken with a timeout. Nothing
  is assumed of the radio, of power, or of the applications.
* `GatewayLed`: time passes, the work queue and main run, and a thread that has
  not faulted finishes the call it is in. Nobody is assumed to call.
* `HandlerPower`: a procedure that has begun goes on while the clock runs, weakly
  fair for main and the work queue, strongly fair for the shell and the
  heartbeat, which main preempts again and again but only for a moment
  (`k_sleep` of 500 ms in its loop). `pm_policy_next_state` stops the clock of
  the sleeping system at every idle (`ClockRuns`), and nothing is assumed then:
  neither that the 100 ms of `system_sleep` pass, since `sleeping` is already
  set, nor that a work item that is due will run.
* `GatewayNet`: main, the event thread and the two editors go on. Nothing is
  assumed of the cable, of power or of commands.
* `LaserCtrl`: the CAN thread and the message thread run, the sensor, while it
  measures, goes on measuring, and time passes. Nothing is assumed of the shell,
  or of the sensor's answers to commands.
* `DataCollect`: the work queue, the heartbeat thread, `main`'s boot and the
  threads that start the servers run. Nothing is assumed of clients, of the link,
  of a DHCP server, of faults, or of the channels that set parameters.
* `FirmwareUpgrade`, `RfLink` and `Bootloader` are checked for safety only: the
  radio may lose every frame and a host may never send one.

### Findings

`RadioBurst`, `UpgradeCan`, `LedLatch` and `HandlerWake` each refute a statement of the
repository; `PROJECT.json` quotes them. In short: the receive loop reads one
payload and flushes the rest of the FIFO, although its comment says no merged
frame is lost; the CAN server accepts a confirmation on a count that a START in
an open session does not reset, although the documentation says the image is
verified; the self-test work item puts out an error light that initialisation
has just latched; a power key press within the 100 ms that `system_sleep` waits
leaves the hand control awake with every rail off (the run's specification
`UsualSpec` keeps boot quiet and lets the sleep finish within the wake-up's
200 ms, so that the trace is the ordinary one).

The others are listed without a run, among them the receive loop on a chip that
has just lost its power and reads as all ones: it never ends and keeps the lock,
and `nrf24_send`, which promises an answer within a timeout, waits for ever. Where
one of them bites, the property that meets it excludes the case by name:
`ReadsDeadChip` in `SendReturns`, `late` in `RepliesMatch`, `early` in `ServersStart`
and `PortReceives`, `session` and `InStep` in `KeepsStep`, `mixed` and `broken` in the
bootloader's properties, `wiped` in `AckedDurable`, the reset connection in
`HeartDrops`.

## 4. Proofs

Every theorem below is about `Spec` of the module it is named after, without
fairness, and for every value of the constants that the module's assumption
allows; `KeepsStepWhenNear` in `RfLink_proofs` has a hypothesis more, stated in it. The
assumptions say what kind of thing a constant is (bounds are naturals, sizes are
positive); those that say more are given with the module. In each proof module
one invariant is proved, and the theorems follow from it; `DataCollect_proofs`
has one for each part of the board, and a property of which the main invariant
says nothing has a small one of its own, over the typed states. `TypeCorrect`, the
invariance of `TypeOK`, is among them and not repeated for each module; the runs
check it where a bound of the code is in it (`Upgrade`, `Link`, `Boards`,
`Collect`), `Radio` as a part of `DriverInv`, and `Led`, `Handler` and `Net` leave it
to the theorem. There is one lemma per action or group of actions, and lemmas on
the operators they share.

### Nrf24Driver_proofs

`DriverInvariant` (`Spec => []DriverInv`), `ResultIsOwn` (`TxResultIsOwn`),
`Listens` (`RadioListens`), and the action property `OnlyOwnFrame`
(`OnlyOwnFrameOnAir`); for any number of senders, any queue length, with or
without a power switch, whatever a chip without power reads as.

None of the properties is inductive by itself. `TxResultIsOwn` speaks of
results already returned, and follows step by step from `DriverInv`:

* `IrqOwnsLock`: the lock is held exactly at the places of the interrupt thread
  that use the bus, so no critical section of a sender runs while the thread
  acts on a status word it has read;
* `SendInv`: one sender at a time; and during its call (`OwnTransmission`) the
  payload in the chip, the STATUS bits, the status word in the thread's hands
  and the completion signalled through `tx_done_sem` all concern that frame. It
  is established by `SendStart`, which drains the semaphore and clears FIFO and
  STATUS under the lock - dropping either of these breaks it;
* `ModeInv`: `ready` agrees with the supply, and the driver's `mode` with the
  chip's whenever it is PRX.

### FirmwareUpgrade_proofs

`UpgradeInvariant`, `CountsAlwaysAgree` (`CountsAgree`), `VerifiedImageStays`
(`VerifiedStays`), `ConfirmedImageNotShort` (`ConfirmedNotShort`); for any length
of image that fits slot1 (`UpgradeAssumption`), any write block, acknowledgement
interval and set of builds.

A request for a swap outlives the handler that made it, so what it stands for has
to be carried through every later step. `UdpImage`, where the UDP server is alone:
while a request, or a handler between its CRC check and its request, exists, slot1
holds the image frame by frame, and no session can write to it before the next
erase withdraws the request. `CanImage`, where the CAN server is alone and no flash
operation failed: the cells below the write position are not blank. Both rest on
`CountsAgree`, the count of bytes received against written plus buffered, for which
the write buffer's operators have lemmas of their own (`PushContext`,
`FlushCounts`, `BuffersMarks`).

### GatewayLed_proofs

`LightIsAttended` (`NeverStuckOff`), for any set of calling threads and any
periods with the half period below the timeout (`LedAssumption`; 100 ms and 400 ms
in the code). `NeverStuckOff` speaks of the light alone.
`Attended` also follows the flag: whoever finds the light dark, or `blinking`
set, there is a work item under way, or a thread that claimed the flag and has
yet to submit one. `Unlit` covers the time before `gw_led_init`.

### HandlerPower_proofs

`PowerInvariant`, `PowerFollowsState` (`OrderlyPower`), `SwitchesSettle`
(`SwitchSettles`); for any number of sleeps, presses and switches. `OrderlyPower`
holds where all procedures are over; the invariant says what holds in the middle
of each. `Settling` holds however they overlap: a change of `connect` has still
to be saved by someone, an event that was cleared still to be posted. `Orderly`
holds until two procedures overlapped (`clash`, the race of the findings):
`Apart`, who may be under way together; `Asleep`, the outputs of a board at rest;
`Sleepers`, `WakeInv` and `SwitchInv`, the outputs, the flag and the event bits
at every place of the sleep, the wake and the switch.

`WakeUpsKept` (`NoWakeLost`) is the safety part of `WaitersResume`, without any
assumption on scheduling or on overlaps: a thread that waits for `WAKE_EVENT` in an
awake system is about to be woken, or a sleep is about to be announced. A thread
reads `sleeping` some time before it waits, so `WakeTold` already covers it in
between (`due`), when the event it is about to look for may have been posted or
withdrawn; and it says that nobody waits while the event is posted.

### GatewayNet_proofs

`NetInvariant`, `ReportedSurvives` (`AckedDurable`), `RestAgrees`
(`SettledAgrees`); for any number of commands, power cuts and link changes.
`AckedDurable` is about settings that were reported as saved; before the report
they are only in `gw_params`, or half in flash. `InHand` says of a command under
way that its value, or a later one, is in `gw_params` and, unless the key is
among the steps left, in flash; `Plans` says which steps can be left, the
report last. `AckedHeld` and `AckedStored` then survive the two editors
overtaking each other, and `Agree` accounts for every difference between flash,
`gw_params` and the radio by a step some editor has left.

`LinkIsKnown` (`LinkKnown`) is the safety part of `LinkFollows`. `EventsTell`: from
`net_init` on, the last pending event says how the cable is, and `gw_net_link_up`
does where none is pending; before, there is neither an event nor a link. So no
order of the cable, the boot and the event thread leaves a flag that nobody
will correct.

### F103Boards_proofs

For either program, for flashes, pages, buffers and images of any size, a queue
of any length, and any number of downloads, commands, faults and mishaps
(`BootAssumption`: announced sizes are any naturals, at least one of them that of
an image that fits; `LaserAssumption`).
`BoardsInvariant` and

* `StatusFollowsSensor` (`StatusAgrees`). `SyncInv` follows an exchange on a line
  that a stop has made quiet: at every place of the commander it says what is on
  the wire, what the sensor does and what may wait in the queue - distances
  while the request is on its way, then the answer to this request and nothing
  that would be taken for another. `SoloInv` is the same for the stop itself,
  which has to empty a queue with old distances before the agreement is known.
* `RegistersSurvive` (`RegistersKept`). `RegisterInv`: the CAN thread, which has
  the higher priority, finds the partition blank as it erased it; the console finds
  it blank or already written with the same registers.
* `BufferHolds` (`BufferKept`), `ConfirmedIsWhole` (the action property
  `ConfirmedWhole`). As long as one transport takes part (`Alone`), every frame
  counted as received is in its place, in flash or in the buffer, or one was
  lost and the count is behind what the host has sent for good (`InPlace`);
  hence a confirmation with equal counts is one of a whole image.
* `StartedIsFull` (the action property `StartedInFull`). `Standing`: an image that
  was complete still is, or has lost its first frame, which is erased first; a
  start tests the first frame.

`StartedInFull` failed to be proved in its first form. `Start` clears `mixed`,
and the lemma for it left open what an earlier download of two transports had
left in the flash: with three downloads the property was false, with the two
of the run TLC could not see it. The history now forgets such images.

### RfLink_proofs

`LinkInvariant`, and for any range of the counter byte, window, queue, number of
retries, frames and resets, and any threads that send:

* `CopiesFarApart`: an invariant, `FarApart`, that no run checks. If a frame is
  opened twice without a reset in between, the frames opened from the first time to
  the second have windows that come to at least `Mod` - eight frames, with the 32
  and 256 of the code, however the sender's counter has jumped.
* `InferredIsTrue`: the action property `StepPastLosses`. A receiver in step opens
  the next frame in step unless the frame is `Mod` or more ahead of the last, or
  `Mod - Window` or more behind.
* `LinkOpensOnce` (`OpensOnce`, the refinement of `FrameChannel`, step by step): for
  any number of frames, whatever is opened was sealed and is none of the last
  `(Mod - 1) \div Window` frames opened since the last reset. It follows from
  `CopiesFarApart`, since the windows of so many frames stay below a full turn.
* `KeepsStepWhenNear` (`KeepsStep`) under the hypothesis
  `MaxFrames < Mod - Window`: one byte of the counter is on the air, and a thread
  that is preempted before its transmission may send its frame after any number
  of others, so beyond that many frames `KeepsStep` fails. The hypothesis holds of
  the run; for the code it means fewer than 224 frames an end. `InferredIsTrue` is
  what holds of a link that goes on.

`InHand` is about the frame between the two steps of its opening: the counter
noted for it is the one inferred from where the receiver stands, or the counters
have been forgotten since, and then it has only the low byte right; the store that
follows is in either case like an opening of a first or a next frame.
`Sessions`: between two jumps of its counter an end counts up from some value
by at most one per frame it seals, and the frame a receiver opened last is not
beyond that. Two threads may load the same counter and store it in either
order, so counters are not in the order of the frames, only within these
bounds. `Openings`: for each receiver there are values of its counter, one per
frame it opened, that have the low bytes of these frames and grow by a window at
most. Neither the values nor the starting points are state; the
invariant says that they exist. The arithmetic of the byte is in lemmas of its
own (`InferredAhead`, `SameByte`, `Infer`), and each action is first reduced to
what it is for a sender and for a receiver (`EveryStep`).

### DataCollect_proofs

For any samplers and channels, any size and number of files, queue, sync
interval, number of sessions, clients, commands, requests and faults
(`RecorderAssumption`, `FtpAssumption`: what has a size has a positive one).

* `OwnersAlwaysProved` (`OwnersProved`). The property speaks of sessions that are
  logged in. `OwnersInv` says in one formula that every entry of
  `ftp_sessions` has its type and keeps the rule (`Honest`); a free entry is honest
  because releasing a session clears its login as well.
* `RecordsStay` (the action property `RecordsKept`). A step can only keep what
  is in the files if the recorder writes where the file ends, so `FilesInv`
  follows the descriptor: while `fd` is open on a file that nobody removed, that
  file exists, `pos` is its length unless the clock was set back, and `synced` is
  not beyond it; and a work item that is about to write holds `h_lock`, so
  nobody can switch the history off under it. `QueueInv` says that the fifo and
  the work item hold only records that were sampled; `Pending` counts them, and a
  file is never longer than the samples no longer pending. `SettingsInv` is there
  for `settings_save`, whose registers a restart reads. The lemmas on prefixes
  (`AppendPrefix`, `CutPrefix`) say what writing and a power cut leave, those on
  numbers (`LeastNumber`, `GreatestNumber`) that the oldest and the newest file,
  which the code finds by searching the directory, exist.
* `RepliesAlwaysMatch` (`RepliesMatch`). One buffer and one semaphore serve all
  requests. `ExchangeInv`: until an answer is late, the raw server and the work
  queue do not both hold a request, the one that does holds the one the thread
  waits for and has not yet given the semaphore; and when the thread selects
  again, neither holds any, and the semaphore is taken.
* `OutputsAreKnown` (`OutputsKnown`), inductive over typed registers: work queue,
  heartbeat, link event and restart write the register and the outputs in one
  order, so that between two steps an output is on only if the register says so
  or its clearing is under way. The converse does not hold: a master may set an
  output between the two steps of the heartbeat, whose second clears it.
* `PortAlwaysReceives` (`PortReceives`), the safety part of `ServersStart` for the
  configuration port. `PortWaits`: unless the link came up early, it is down and
  the port not started until the threads run; from the registration on the
  callback waits for it; a started port has a receiver; and a carrier on a running
  board has started it.
* `TypeCorrect`: `RecordsInv`, `ExchangeInv`, `FtpInv` and `NetworkTypeOK` give
  `TypeOK` together. `FtpInv` adds to `OwnersInv` that what is still to come
  of an upload has room behind what is there (`JobInv`), and that only `Accept` adds
  an entry, only below the limit (`NoneJoins`).

Two things in `DaqRecorder` were put right for these proofs. `OpenFile` took the
synced part of the file it opens from the length before the step, although with a
clock set back to the second of the oldest file it deletes that file to make room
and creates it anew, empty: such a board could not restart in the model. And the first
clock is 1, so `MaxClock` has to be positive.

### Only model-checked

* Liveness (`RxServed`, `SendReturns`, `BurstVisible`, `SteadyWhenQuiet`,
  `WaitersResume`, `HeartGoesOn`, `LinkFollows`, `UpgradeGivenUp`, `HeartDrops`,
  `ServersStart`): the prover supports neither fairness nor `ENABLED`. Of
  `WaitersResume`, `LinkFollows` and `ServersStart` the safety part is proved
  (`NoWakeLost`, `LinkKnown`, `PortReceives`): nothing is left to wait for that
  nobody will do.

No module that is proved about reaches a recursive operator.

## 5. Plan

Every invariant and every action property that a run checks has its theorem.

Modules that could follow: the commands of gateway and data_collect that only
read, DHCP in `GatewayNet`, the CAN receiver and the joystick of the hand
control beside `HandlerPower`.

### Not modelled

* The cipher of `nrf24_crypt.c`: pure data. Its counters are modelled.
* HTTP of data_collect: pages that print registers, and the upload, whose
  chunks are cut out of a multipart body by searching text.
* `drivers/flash/flashfs.c`: the flash API on a file, pure I/O behind one
  semaphore.
* Display, fonts, LCD, 24C02 and shell libraries: drawing and register access
  without concurrent state; the ADC, joystick and CAN parts of mod_handler beyond their
  waits, which `HandlerPower` has.
* Demos (`canopen_demo`, `spi_demo`, `dapLink`, `nrf24l01p_demo`), the simulator
  `gw_sim` and the host scripts, other than `can_upgrade_cli.py`: stand-ins and
  generated tables.
* Real time: lengths of waits and backoffs, and priorities beyond the order in
  which threads can run.
