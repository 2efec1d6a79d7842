------------------------------ MODULE LaserCtrl ------------------------------
(***************************************************************************)
(* applications/laser_ctrl: the serial dialogue with the range finder      *)
(* (laser_serial.c), the CAN commands (can.c), the registers in flash      *)
(* (flash.c) and the firmware upgrade (firmware.c).                        *)
(*                                                                         *)
(* The CAN thread (priority 11) and the shell (lowest) both command the    *)
(* sensor through serial_send: print into the one tx_buf, transmit, then   *)
(* wait for an event with reset.  The message thread (12) turns the frames *)
(* of a queue of three into events.  A thread runs only while no thread of *)
(* a higher priority can.  The rs485_tx branch is left out: no board of    *)
(* the repository has that pin.                                            *)
(***************************************************************************)
EXTENDS Naturals, Sequences, SequencesExt

CONSTANTS
  Slots,        \* laser_serial_msgq: 3
  Image,        \* frames of the firmware image
  MaxCommands,  \* bound: commands of the CAN host and the console
  MaxFaults     \* bound: flash operations that fail, and restarts

ASSUME LaserAssumption ==
  /\ Slots \in Nat \ {0} /\ Image \in Nat \ {0}
  /\ MaxCommands \in Nat /\ MaxFaults \in Nat

VARIABLES
  status,   \* laser_status
  firstOn,  \* first_on
  txbuf,    \* tx_buf
  todo, at, \* per commander: the exchanges still to do, and where the first is
  wire,     \* commands transmitted and not yet read by the sensor
  sensor,   \* the range finder
  msgq,     \* laser_serial_msgq
  sending,  \* the message thread is in laser_can_send
  regs, partition, reg,  \* laser_regs, the partition, per commander the write
  failed,   \* a flash operation failed since the partition was last written
  fw, pending,  \* the static msg of fw_update; boot_request_upgrade
  old,      \* ten seconds have passed since latest_fw_up_times
  synced,   \* history: only undisturbed exchanges since the last undisturbed stop
  solo,     \* history: the commands in progress are one, begun on a quiet line
  commands, faults

dialogue  == <<firstOn, txbuf, todo, at, wire, sensor, msgq, sending, synced, solo>>
registers == <<regs, partition, reg, failed>>
upgrade   == <<fw, pending, old>>
laserVars == <<status, dialogue, registers, upgrade, commands, faults>>

Commanders == {"can", "shell"}
Bits     == {"DEVICE_STATUS", "WRITE_MODE", "ON", "CON_MESURE", "FW_UPDATE"}
Events   == {"STOP_ON", "ERROR", "MSG", "OTHER"}
Requests == {"c", "o", "re", "ce", "h"}
Replies  == {"?", "@E", "h", "other"}
Registers == 1 .. 2   \* two of the fifty
Values    == 0 .. 1
Blank    == 2
AllBlank == [r \in Registers |-> Blank]

LaserTypeOK ==
  /\ status \subseteq Bits /\ firstOn \in BOOLEAN
  /\ txbuf \in Requests \cup {"junk"}
  /\ todo \in [Commanders -> Seq(Requests \cup {"send"})]
  /\ at \in [Commanders -> {"idle", "print", "printed", "garbled", "transmit", "sent", "wait",
                            "acked"}]
  /\ wire \in Seq(Requests \cup {"junk"}) /\ sensor \in {"off", "on", "tracking"}
  /\ msgq \in Seq(Replies) /\ Len(msgq) <= Slots
  /\ sending \in BOOLEAN
  /\ regs \in [Registers -> Values \cup {Blank}] /\ partition \in [Registers -> Values \cup {Blank}]
  /\ reg \in [Commanders -> {"none", "flatten", "write"}] /\ failed \in BOOLEAN
  /\ fw \in [total : 0 .. Image, offset : 0 .. MaxCommands, written : 0 .. MaxCommands]
  /\ pending \in BOOLEAN /\ old \in BOOLEAN
  /\ synced \in BOOLEAN /\ solo \in BOOLEAN
  /\ commands \in 0 .. MaxCommands /\ faults \in 0 .. MaxFaults

LaserInit ==
  /\ status = {} /\ firstOn = FALSE /\ txbuf = "junk"
  /\ todo = [c \in Commanders |-> <<>>] /\ at = [c \in Commanders |-> "idle"]
  /\ wire = <<>> /\ msgq = <<>> /\ sending = FALSE
  /\ sensor \in {"off", "on", "tracking"}   \* its own supply: it may be left measuring
  /\ regs = [r \in Registers |-> 0] /\ partition = regs
  /\ reg = [c \in Commanders |-> "none"] /\ failed = FALSE
  /\ fw = [total |-> 0, offset |-> 0, written |-> 0] /\ pending = FALSE /\ old = FALSE
  /\ synced = (sensor = "off") /\ solo = TRUE /\ commands = 0 /\ faults = 0

Fault == faults < MaxFaults /\ faults' = faults + 1

Idle(c) == at[c] = "idle" /\ reg[c] = "none"

(* The thread of the commander can run, and nothing above it wants to.     *)
CanBlocked == at["can"] \in {"idle", "wait"} /\ reg["can"] = "none"
Runs(c) == c = "can" \/ (CanBlocked /\ (msgq = <<>> \/ sending))

(* No request or reply of an earlier exchange is still on its way.         *)
Quiet == wire = <<>> /\ ~\E i \in DOMAIN msgq : msgq[i] # "h"

-----------------------------------------------------------------------------
(* Commands.                                                               *)

NewCommand == commands < MaxCommands /\ commands' = commands + 1

(* Commander c starts the exchanges s.                                     *)
Begin(c, s) ==
  /\ NewCommand /\ Runs(c) /\ Idle(c)
  /\ todo' = [todo EXCEPT ![c] = s] /\ at' = [at EXCEPT ![c] = "print"]
  /\ solo' = (Quiet /\ \A d \in Commanders \ {c} : at[d] = "idle")
  /\ synced' = (synced /\ solo' /\ s # <<"send">>)
  /\ UNCHANGED <<status, firstOn, txbuf, wire, sensor, msgq, sending, registers, upgrade,
                 faults>>

laser_con_measure == <<"re", "ce", "h">>
laser_setup == <<"c", "o">> \o laser_con_measure

CanEnable == Begin("can", <<"o">> \o laser_con_measure)
CanDisable == Begin("can", <<"c">>)
ShellCommand ==
  \E s \in {<<"o">>, <<"c">>, laser_con_measure, laser_setup, <<"send">>} : Begin("shell", s)

(* The control word and the read and write modes of the registers.         *)
SetBit(b) ==
  /\ NewCommand /\ Idle("can")
  /\ status' \in {status \cup {b}, status \ {b}}
  /\ UNCHANGED <<dialogue, registers, upgrade, faults>>
ControlWord == SetBit("DEVICE_STATUS")
RegisterMode == SetBit("WRITE_MODE")

-----------------------------------------------------------------------------
(* serial_send, for the first of the exchanges of c.                       *)

Snprintf(c) ==
  /\ at[c] = "print" /\ Runs(c)
  /\ at' = [at EXCEPT ![c] = "printed"]
  /\ IF Head(todo[c]) = "send" THEN txbuf' \in Requests \cup {"junk"} ELSE txbuf' = Head(todo[c])
  /\ UNCHANGED <<status, firstOn, todo, wire, sensor, msgq, sending, synced, solo,
                 registers, upgrade, commands, faults>>

FirstByte(c) ==
  /\ at[c] = "printed" /\ Runs(c)
  /\ at' = [at EXCEPT ![c] = "transmit"]
  /\ UNCHANGED <<status, firstOn, txbuf, todo, wire, sensor, msgq, sending, synced, solo,
                 registers, upgrade, commands, faults>>

(* A frame sent inside another thread's frame spoils both; one printed     *)
(* over by another thread goes out with the length of its own.             *)
LastByte(c) ==
  /\ at[c] \in {"transmit", "garbled"} /\ Runs(c)
  /\ LET inside == {d \in Commanders \ {c} : at[d] \in {"transmit", "garbled"}}
         spoilt == at[c] = "garbled" \/ inside # {}
     IN /\ \E frame \in IF spoilt THEN {"junk"}
                        ELSE IF Head(todo[c]) \in {txbuf, "send"} THEN {txbuf}
                        ELSE {txbuf, "junk"} :
             wire' = Append(wire, frame)
        /\ at' = [d \in Commanders |-> IF d = c THEN "sent"
                                       ELSE IF d \in inside THEN "garbled" ELSE at[d]]
  /\ UNCHANGED <<status, firstOn, txbuf, todo, sensor, msgq, sending, synced, solo,
                 registers, upgrade, commands, faults>>

(* k_event_wait with reset: what was posted before it is forgotten, so     *)
(* that laser_event holds nothing anyone will look at but by waiting.      *)
Wait(c) ==
  /\ at[c] = "sent" /\ Runs(c)
  /\ at' = [at EXCEPT ![c] = "wait"]
  /\ UNCHANGED <<status, firstOn, txbuf, todo, wire, sensor, msgq, sending, synced, solo,
                 registers, upgrade, commands, faults>>

Mask(c) ==
  CASE Head(todo[c]) \in {"c", "o"}   -> {"STOP_ON"}
    [] Head(todo[c]) \in {"re", "ce"} -> {"ERROR"}
    [] Head(todo[c]) = "h"            -> {"MSG"}
    [] OTHER                          -> Events

(* k_event_set: wakes whoever waits for the event.                         *)
Set(e) ==
  at' = [c \in Commanders |-> IF at[c] = "wait" /\ e \in Mask(c) THEN "acked" ELSE at[c]]

(* Mutant: a stop leaves the measuring flag.                               *)
NotedStop(s) ==
  CASE s = "c" -> status \ {"ON"}
    [] s = "o" -> status \cup {"ON"}
    [] s = "h" -> status \cup {"CON_MESURE", "DEVICE_STATUS"}
    [] OTHER   -> status

Noted(s) ==
  CASE s = "c" -> status \ {"ON", "CON_MESURE"}
    [] s = "o" -> status \cup {"ON"}
    [] s = "h" -> status \cup {"CON_MESURE", "DEVICE_STATUS"}
    [] OTHER   -> status

(* The exchange was answered: note it and go on with the next.             *)
Acknowledged(c) ==
  /\ at[c] = "acked" /\ Runs(c)
  /\ status' = Noted(Head(todo[c]))
  /\ todo' = [todo EXCEPT ![c] = Tail(@)]
  /\ at' = [at EXCEPT ![c] = IF Len(todo[c]) = 1 THEN "idle" ELSE "print"]
  /\ synced' = (synced \/ (Head(todo[c]) = "c" /\ solo))
  /\ solo' = (solo \/ \A d \in Commanders : at'[d] = "idle")
  /\ UNCHANGED <<firstOn, txbuf, wire, sensor, msgq, sending, registers, upgrade, commands, faults>>

(* A second without the event: the sensor answers within it, or not at all.*)
TimedOut(c) ==
  /\ at[c] = "wait" /\ Runs(c) /\ wire = <<>> /\ msgq = <<>>
  /\ todo' = [todo EXCEPT ![c] = <<>>] /\ at' = [at EXCEPT ![c] = "idle"]
  /\ synced' = FALSE /\ solo' = (solo \/ \A d \in Commanders : at'[d] = "idle")
  /\ UNCHANGED <<status, firstOn, txbuf, wire, sensor, msgq, sending, registers, upgrade, commands,
                 faults>>

-----------------------------------------------------------------------------
(* The sensor.  Error 212 of error_msg_list: while it measures it takes    *)
(* nothing but a stop.                                                     *)

React(request) ==
  CASE request = "c" -> [mode |-> "off", reply |-> "?"]
    [] request = "o" /\ sensor # "tracking" -> [mode |-> "on", reply |-> "?"]
    [] request = "h" /\ sensor = "on" -> [mode |-> "tracking", reply |-> "h"]
    [] request = "junk" -> [mode |-> sensor, reply |-> "other"]
    [] OTHER -> [mode |-> sensor, reply |-> "@E"]

(* Mutant: the queue has no end.                                           *)
ReceivedAll(reply) == msgq' = Append(msgq, reply) /\ UNCHANGED synced

(* uart_cb: a full queue drops the frame.                                  *)
Received(reply) ==
  IF Len(msgq) < Slots
  THEN msgq' = Append(msgq, reply) /\ UNCHANGED synced
  ELSE UNCHANGED msgq /\ synced' = (synced /\ reply = "h")

Sensor ==
  /\ wire # <<>> /\ wire' = Tail(wire)
  /\ LET r == React(Head(wire)) IN sensor' = r.mode /\ Received(r.reply)
  /\ UNCHANGED <<status, firstOn, txbuf, todo, at, sending, solo, registers, upgrade,
                 commands, faults>>

Distance ==
  /\ sensor = "tracking" /\ Received("h")
  /\ UNCHANGED <<status, firstOn, txbuf, todo, at, wire, sensor, sending, solo, registers,
                 upgrade, commands, faults>>

-----------------------------------------------------------------------------
(* laser_msg_process_thread.                                               *)

Take == CanBlocked /\ ~sending /\ msgq # <<>> /\ msgq' = Tail(msgq)

(* Mutant: the upgrade is given up by its own frames only.                 *)
ReportOnly == sending' = ("FW_UPDATE" \notin status) /\ UNCHANGED status

(* What follows a distance or an error: it is sent to the host, unless     *)
(* an upgrade runs, which is given up ten seconds after its last frame.    *)
Report ==
  /\ sending' = ("FW_UPDATE" \notin status)
  /\ status' = IF old THEN status \ {"FW_UPDATE"} ELSE status

OnDistance ==
  /\ Take /\ Head(msgq) = "h"
  /\ firstOn' = FALSE
  /\ IF firstOn THEN Set("MSG") ELSE UNCHANGED at
  /\ Report
  /\ UNCHANGED <<txbuf, todo, wire, sensor, synced, solo, registers, upgrade, commands, faults>>

OnError ==
  /\ Take /\ Head(msgq) = "@E"
  /\ IF "CON_MESURE" \notin status THEN Set("ERROR") ELSE UNCHANGED at
  /\ Report
  /\ UNCHANGED <<firstOn, txbuf, todo, wire, sensor, synced, solo, registers, upgrade, commands,
                 faults>>

OnStop ==
  /\ Take /\ Head(msgq) = "?"
  /\ firstOn' = ("CON_MESURE" \notin status)
  /\ Set("STOP_ON")
  /\ UNCHANGED <<status, txbuf, todo, wire, sensor, sending, synced, solo, registers, upgrade,
                 commands, faults>>

OnOther ==
  /\ Take /\ Head(msgq) = "other"
  /\ Set("OTHER")
  /\ UNCHANGED <<status, firstOn, txbuf, todo, wire, sensor, sending, synced, solo, registers,
                 upgrade, commands, faults>>

(* can_send returns: a mailbox was free, or 100 ms have passed.            *)
laser_can_send ==
  /\ sending /\ CanBlocked /\ sending' = FALSE
  /\ UNCHANGED <<status, firstOn, txbuf, todo, at, wire, sensor, msgq, synced, solo,
                 registers, upgrade, commands, faults>>

-----------------------------------------------------------------------------
(* laser_flash_write, for the CAN thread and the console.                  *)

RegisterWrite(c, r, v) ==
  /\ NewCommand /\ Runs(c) /\ Idle(c)
  /\ "WRITE_MODE" \in status /\ "FW_UPDATE" \notin status
  /\ regs[r] # v   \* an equal value is answered at once
  /\ regs' = [regs EXCEPT ![r] = v] /\ reg' = [reg EXCEPT ![c] = "flatten"]
  /\ UNCHANGED <<status, dialogue, partition, failed, upgrade, faults>>

Flatten(c) ==
  /\ reg[c] = "flatten" /\ Runs(c)
  /\ \/ partition' = AllBlank /\ reg' = [reg EXCEPT ![c] = "write"] /\ UNCHANGED <<failed, faults>>
     \/ Fault /\ failed' = TRUE /\ reg' = [reg EXCEPT ![c] = "none"] /\ UNCHANGED partition
  /\ UNCHANGED <<status, dialogue, regs, upgrade, commands>>

(* Mutant: the size of one register is written.                            *)
WriteFirst(c) ==
  /\ reg[c] = "write" /\ Runs(c) /\ reg' = [reg EXCEPT ![c] = "none"]
  /\ partition = AllBlank /\ partition' = [partition EXCEPT ![1] = regs[1]] /\ failed' = FALSE
  /\ UNCHANGED <<status, dialogue, regs, upgrade, commands, faults>>

(* The partition is written from the cache as it is now.  A write to a     *)
(* partition that is not erased is refused.                                *)
Write(c) ==
  /\ reg[c] = "write" /\ Runs(c) /\ reg' = [reg EXCEPT ![c] = "none"]
  /\ \/ partition = AllBlank /\ partition' = regs /\ failed' = FALSE /\ UNCHANGED faults
     \/ partition # AllBlank /\ UNCHANGED <<partition, failed, faults>>
     \/ Fault /\ failed' = TRUE /\ UNCHANGED partition
  /\ UNCHANGED <<status, dialogue, regs, upgrade, commands>>

-----------------------------------------------------------------------------
(* fw_update.  Every frame of it renews latest_fw_up_times.                *)

UpgradeFrame == NewCommand /\ Idle("can") /\ old' = FALSE /\ UNCHANGED <<dialogue, registers>>

(* BOARD_START_UPDATE: the flag is taken back if the frame is too short,   *)
(* with the counts as they were, or the slot does not erase.               *)
StartUpdate ==
  /\ UpgradeFrame /\ UNCHANGED pending
  /\ \/ /\ status' = status \cup {"FW_UPDATE"} /\ UNCHANGED faults
        /\ fw' = [total |-> Image, offset |-> 0, written |-> 0]
     \/ status' = status \ {"FW_UPDATE"} /\ UNCHANGED <<fw, faults>>
     \/ /\ Fault /\ status' = status \ {"FW_UPDATE"}
        /\ fw' = [total |-> 0, offset |-> 0, written |-> 0]

FwData ==
  /\ UpgradeFrame /\ UNCHANGED pending
  /\ \/ /\ fw' = [fw EXCEPT !.offset = @ + 1, !.written = @ + 1] /\ UNCHANGED faults
        /\ status' = IF fw.offset + 1 = fw.total THEN status \ {"FW_UPDATE"} ELSE status
     \/ Fault /\ status' = status \ {"FW_UPDATE"} /\ UNCHANGED fw

BoardConfirm ==
  /\ UpgradeFrame /\ pending' = (pending \/ fw.total = fw.written)
  /\ UNCHANGED <<status, fw, faults>>

TenSeconds ==
  /\ ~old /\ "FW_UPDATE" \in status /\ old' = TRUE
  /\ UNCHANGED <<status, dialogue, registers, fw, pending, commands, faults>>

(* BOARD_REBOOT, a reset or a power cut: the sensor goes on as it was.     *)
LaserRestart ==
  /\ Fault
  /\ status' = {} /\ firstOn' = FALSE /\ txbuf' = "junk"
  /\ todo' = [c \in Commanders |-> <<>>] /\ at' = [c \in Commanders |-> "idle"]
  /\ wire' = <<>> /\ msgq' = <<>> /\ sending' = FALSE
  /\ regs' = partition /\ reg' = [c \in Commanders |-> "none"] /\ failed' = FALSE
  /\ fw' = [total |-> 0, offset |-> 0, written |-> 0] /\ pending' = FALSE /\ old' = FALSE
  /\ synced' = FALSE /\ solo' = TRUE
  /\ UNCHANGED <<sensor, partition, commands>>

-----------------------------------------------------------------------------
Exchange(c) ==
  Snprintf(c) \/ FirstByte(c) \/ LastByte(c) \/ Wait(c) \/ Acknowledged(c) \/ TimedOut(c)
Message == OnDistance \/ OnError \/ OnStop \/ OnOther \/ laser_can_send

LaserNext ==
  \/ CanEnable \/ CanDisable \/ ShellCommand \/ ControlWord \/ RegisterMode
  \/ Sensor \/ Distance \/ Message
  \/ StartUpdate \/ FwData \/ BoardConfirm \/ TenSeconds \/ LaserRestart
  \/ \E c \in Commanders : \/ Exchange(c) \/ Flatten(c) \/ Write(c)
                           \/ \E r \in Registers, v \in Values : RegisterWrite(c, r, v)

(* The CAN and the message thread run, a sensor that measures goes on with *)
(* it, and time passes.                                                    *)
LaserFairness ==
  /\ WF_laserVars(Distance) /\ WF_laserVars(Message)
  /\ WF_laserVars(TenSeconds)
  /\ WF_laserVars(Exchange("can") \/ Flatten("can") \/ Write("can"))

LaserSpec == LaserInit /\ [][LaserNext]_laserVars
LaserFairSpec == LaserSpec /\ LaserFairness

-----------------------------------------------------------------------------
(* Once a stop has been acknowledged undisturbed (can.c:110), and until an *)
(* exchange is disturbed again (an answer lost, late or taken by the other *)
(* thread, a restart), the status bits that decide which replies count     *)
(* (laser_serial.c:91,94) tell what the sensor does.                       *)
StatusAgrees ==
  synced /\ Quiet /\ (\A c \in Commanders : at[c] = "idle") =>
    /\ "CON_MESURE" \in status <=> sensor = "tracking"
    /\ "ON" \in status <=> sensor # "off"

(* The registers the host reads (laser_regs) are those a restart finds,    *)
(* whenever no write is in progress and none has failed since the last     *)
(* good one, although two threads erase and write the partition unlocked   *)
(* (flash.c:66-72).                                                        *)
RegistersKept == (\A c \in Commanders : reg[c] = "none") /\ ~failed => partition = regs

(* An upgrade the host abandons does not silence the measurement for good  *)
(* (laser_serial.c:107,122): FW_UPDATE is given up as long as the sensor   *)
(* measures.                                                               *)
UpgradeGivenUp == "FW_UPDATE" \in status ~> ("FW_UPDATE" \notin status \/ sensor # "tracking")
=============================================================================
