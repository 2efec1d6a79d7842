------------------------------ MODULE DaqControl ------------------------------
(***************************************************************************)
(* applications/data_collect: the digital outputs (DO), who commands them  *)
(* and the settings.                                                       *)
(*   - Modbus masters write registers: over RS-485 (rtu.c) and over one    *)
(*     TCP connection (tcp.c).  The requests are executed by the system    *)
(*     work queue (function.c), the same that saves the history.           *)
(*   - UDP and CAN set parameters and save them (udp.c, can.c).            *)
(*   - The heart thread and the link-down event clear the outputs.         *)
(* The work queue is cooperative: while it is ready no other thread runs;  *)
(* where it waits for the flash all may run.                               *)
(***************************************************************************)
EXTENDS DaqRecorder

CONSTANTS
  Channels,     \* the threads that take parameters: UDP, CAN
  MaxRequests,  \* bound: requests of the masters, and parameters set beside them
  MaxSettings,  \* bound: parameters set without masters
  MaxFaults     \* bound: resets of a connection, link failures, restarts

ASSUME ControlAssumption ==
  "none" \notin Channels /\ "wq" \notin Channels /\ {MaxRequests, MaxSettings, MaxFaults} \subseteq Nat

VARIABLES
  pins,       \* the outputs
  saved,      \* the settings in flash
  chan,       \* per channel: its command still to be done
  saving,     \* settings_save: who, and the keys left
  rtu, raw,   \* the request of the serial and of the raw server: rx_adu
  exec,       \* the raw request the work queue executes
  conn, idle, \* the TCP connection; nothing received on it for 30 s
  stage, tmp, received, reply,  \* the TCP thread; tmp_adu; its semaphore; what it replied last
  link, heart, beat,            \* the Ethernet link; the heart thread; sync_sem
  late,       \* history: an answer came after its second
  requests, faults

ctlVars == <<pins, saved, chan, saving, rtu, raw, exec, conn, idle, stage, tmp, received, reply,
             link, heart, beat, late, requests, faults>>
adu == <<rtu, raw, exec, tmp, received, reply, late>>

(* Writes of registers; a read or a coil goes as a write of the value that *)
(* is there.  "foreign" is addressed to another unit.                      *)
Kinds == {"DO0", "DO1", "HIS0", "HIS1", "SAVE", "foreign"}
None  == [id |-> 0, kind |-> "none"]
Keys  == <<"HIS_SAVE", "HEART_EN">>   \* in the order of mb_handle_export
Todo  == {"none", "his_on", "his_off", "save"}
Unbusy == [by |-> "none", left |-> <<>>]

ControlTypeOK ==
  /\ pins \in 0 .. 1
  /\ saved \in [HIS_SAVE : BOOLEAN, HEART_EN : BOOLEAN]
  /\ chan \in [Channels -> Todo] /\ saving.by \in Channels \cup {"none", "wq"}
  /\ rtu \in Kinds \cup {"none"}
  /\ {raw, exec} \subseteq [id : 0 .. MaxRequests, kind : Kinds \cup {"none"}]
  /\ conn \in {"none", "open", "reset"} /\ {idle, received, beat, late} \subseteq BOOLEAN
  /\ stage \in {"select", "wait"} /\ link \in {"up", "dropping", "down"} /\ heart \in {"wait", "drop"}
  /\ {tmp, reply} \subseteq [id : 0 .. MaxRequests, what : {"none", "request", "answer", "failure"}]

(* modbus_init: the defaults, and the saved settings over them.            *)
Booted ==
  /\ pins' = 0 /\ regs' = [DO |-> 0, HIS_SAVE |-> saved.HIS_SAVE, HEART_EN |-> saved.HEART_EN]
  /\ chan' = [c \in Channels |-> "none"] /\ saving' = Unbusy
  /\ rtu' = "none" /\ raw' = None /\ exec' = None /\ conn' = "none" /\ idle' = FALSE
  /\ stage' = "select" /\ tmp' = [id |-> 0, what |-> "none"] /\ reply' = tmp' /\ received' = FALSE
  /\ link' = "up" /\ heart' = "wait" /\ beat' = FALSE /\ late' = FALSE

ControlInit(history) ==
  /\ pins = 0 /\ saved = [HIS_SAVE |-> history, HEART_EN |-> FALSE]
  /\ regs = [DO |-> 0, HIS_SAVE |-> history, HEART_EN |-> FALSE]
  /\ chan = [c \in Channels |-> "none"] /\ saving = Unbusy
  /\ rtu = "none" /\ raw = None /\ exec = None /\ conn = "none" /\ idle = FALSE
  /\ stage = "select" /\ tmp = [id |-> 0, what |-> "none"] /\ reply = tmp /\ received = FALSE
  /\ link = "up" /\ heart = "wait" /\ beat = FALSE /\ late = FALSE /\ requests = 0 /\ faults = 0

Fault == faults < MaxFaults /\ faults' = faults + 1

Restart ==
  /\ Fault /\ Booted /\ RecorderRestart
  /\ UNCHANGED <<saved, requests>>

-----------------------------------------------------------------------------
(* The work queue is idle, with nothing to do, or waits for the flash.     *)
Preempted ==
  \/ wq \in {"append", "saving"} \/ (wq = "save" /\ saving # Unbusy)
  \/ wq = "idle" /\ fifo = <<>> /\ rtu = "none" /\ raw = None

(* settings_save takes the settings lock and writes one key after the      *)
(* other, each with the value its register has then.                       *)
StartSaving(who) == saving = Unbusy /\ saving' = [by |-> who, left |-> Keys]

SaveKey ==
  /\ saving.left # <<>> /\ saving' = [saving EXCEPT !.left = Tail(@)]
  /\ saved' = [saved EXCEPT ![Head(saving.left)] = regs[Head(saving.left)]]
  /\ UNCHANGED <<recVars, pins, chan, adu, conn, idle, stage, link, heart, beat, requests, faults>>

-----------------------------------------------------------------------------
(* The masters' requests, and holding_reg_wr in the work queue.            *)

ServeRtu(kind) ==
  /\ Preempted /\ rtu = "none" /\ requests < MaxRequests
  /\ rtu' = kind /\ requests' = requests + 1
  /\ UNCHANGED <<recVars, pins, saved, chan, saving, raw, exec, conn, idle, stage, tmp, received, reply,
                 link, heart, beat, late, faults>>

(* The register and what follows from writing it.                          *)
Effect(kind) ==
  /\ CASE kind = "DO1"  -> regs' = [regs EXCEPT !.DO = 1] /\ pins' = 1
       [] kind = "DO0"  -> regs' = [regs EXCEPT !.DO = 0] /\ pins' = 0
       [] kind = "HIS1" -> regs' = [regs EXCEPT !.HIS_SAVE = TRUE] /\ UNCHANGED pins
       [] kind = "HIS0" -> regs' = [regs EXCEPT !.HIS_SAVE = FALSE] /\ UNCHANGED pins
       [] OTHER         -> UNCHANGED <<regs, pins>>
  /\ IF kind \in {"HIS0", "HIS1"} THEN EnableWrite(kind = "HIS1") ELSE UNCHANGED <<enable, fileVars>>
  /\ UNCHANGED <<clock, setBack, sampled, data, fifo, cur, lock>>

(* server_raw_cb                                                           *)
Answered(request) == tmp' = [id |-> request.id, what |-> "answer"] /\ received' = TRUE

ExecuteRtu ==
  /\ wq = "idle" /\ rtu # "none" /\ rtu' = "none" /\ Effect(rtu)
  /\ IF rtu = "SAVE" THEN wq' = "save" ELSE UNCHANGED wq
  /\ UNCHANGED <<saved, chan, saving, raw, exec, conn, idle, stage, tmp, received, reply, link, heart,
                 beat, late, requests, faults>>

(* Nobody answers for another unit.                                        *)
ExecuteRaw ==
  /\ wq = "idle" /\ raw # None /\ raw' = None /\ Effect(raw.kind)
  /\ CASE raw.kind = "SAVE"    -> wq' = "save" /\ exec' = raw /\ UNCHANGED <<tmp, received>>
       [] raw.kind = "foreign" -> UNCHANGED <<wq, exec, tmp, received>>
       [] OTHER                -> Answered(raw) /\ UNCHANGED <<wq, exec>>
  /\ UNCHANGED <<saved, chan, saving, rtu, conn, idle, stage, reply, link, heart, beat, late, requests,
                 faults>>

(* HOLDING_CFG_SAVE; the answer follows when all is saved.                 *)
SaveAll ==
  /\ UNCHANGED <<regs, clock, setBack, sampled, data, fifo, cur, enable, lock, fileVars,
                 pins, saved, chan, rtu, raw, conn, idle, stage, reply, link, heart, beat, late,
                 requests, faults>>
  /\ \/ wq = "save" /\ StartSaving("wq") /\ wq' = "saving" /\ UNCHANGED <<exec, tmp, received>>
     \/ /\ wq = "saving" /\ saving = [by |-> "wq", left |-> <<>>] /\ saving' = Unbusy /\ wq' = "idle"
        /\ exec' = None /\ IF exec = None THEN UNCHANGED <<tmp, received>> ELSE Answered(exec)

-----------------------------------------------------------------------------
(* tcp_poll                                                                *)

notTcp == <<recVars, pins, saved, chan, saving, rtu, exec, link, heart>>

(* An old connection, or any while the link is down, gives way.            *)
Connect ==
  /\ Preempted /\ stage = "select" /\ ~(conn = "open" /\ ~idle /\ link # "down")
  /\ ~(conn = "reset" /\ link # "down")
  /\ conn' = "open" /\ idle' = FALSE
  /\ UNCHANGED <<notTcp, stage, tmp, received, reply, raw, beat, late, requests, faults>>

ConnIdle ==
  /\ conn = "open" /\ ~idle /\ idle' = TRUE
  /\ UNCHANGED <<notTcp, conn, stage, tmp, received, reply, raw, beat, late, requests, faults>>

PeerCloses ==
  /\ Preempted /\ stage = "select" /\ conn = "open" /\ conn' = "none" /\ idle' = FALSE
  /\ UNCHANGED <<notTcp, stage, tmp, received, reply, raw, beat, late, requests, faults>>

PeerResets ==
  /\ Fault /\ conn = "open" /\ conn' = "reset" /\ idle' = FALSE
  /\ UNCHANGED <<notTcp, stage, tmp, received, reply, raw, beat, late, requests>>

(* recv fails on a connection that was reset: it counts as a heartbeat,    *)
(* renews the time and takes the last header for a new one.                *)
ReadReset ==
  /\ Preempted /\ stage = "select" /\ conn = "reset" /\ beat' = TRUE
  /\ UNCHANGED <<notTcp, conn, idle, stage, tmp, received, reply, raw, late, requests, faults>>

(* A request; one that waits in the server is overwritten.                 *)
Request(kind) ==
  /\ Preempted /\ stage = "select" /\ conn = "open"
  /\ requests < MaxRequests /\ requests' = requests + 1
  /\ idle' = FALSE /\ beat' = TRUE /\ stage' = "wait"
  /\ tmp' = [id |-> requests', what |-> "request"] /\ raw' = [id |-> requests', kind |-> kind]
  /\ UNCHANGED <<notTcp, conn, received, reply, late, faults>>

(* A request that the server does not take, or of which only the header    *)
(* arrives before the connection breaks, gets no reply.                    *)
RequestLost ==
  /\ Preempted /\ stage = "select" /\ conn = "open"
  /\ requests < MaxRequests /\ requests' = requests + 1
  /\ idle' = FALSE /\ beat' = TRUE
  /\ tmp' = [id |-> requests', what |-> "request"] /\ reply' = [id |-> requests', what |-> "none"]
  /\ UNCHANGED <<conn, faults>> \/ (Fault /\ conn' = "reset")
  /\ UNCHANGED <<notTcp, stage, received, raw, late>>

(* Mutant: the semaphore is looked at, not taken.                          *)
ReplyNotTaken ==
  /\ Preempted /\ stage = "wait" /\ received /\ stage' = "select" /\ reply' = tmp
  /\ UNCHANGED <<notTcp, conn, idle, tmp, raw, beat, late, received, requests, faults>>

Reply ==
  /\ Preempted /\ stage = "wait" /\ received /\ received' = FALSE /\ stage' = "select" /\ reply' = tmp
  /\ UNCHANGED <<notTcp, conn, idle, tmp, raw, beat, late, requests, faults>>

(* A second has passed: modbus_raw_set_server_failure.                     *)
Expired ==
  /\ Preempted /\ stage = "wait" /\ ~received /\ stage' = "select"
  /\ tmp' = [tmp EXCEPT !.what = "failure"] /\ reply' = tmp'
  /\ late' = (late \/ raw # None \/ exec # None)
  /\ UNCHANGED <<notTcp, conn, idle, received, raw, beat, requests, faults>>

Tcp == \/ Connect \/ ConnIdle \/ PeerCloses \/ PeerResets \/ ReadReset
       \/ RequestLost \/ Reply \/ Expired

-----------------------------------------------------------------------------
(* dc_build_config_payload: a channel's command, then settings_save.       *)

Set(c, value, todo) ==
  /\ Preempted /\ chan[c] = "none" /\ requests < MaxRequests /\ requests' = requests + 1
  /\ regs' = value /\ chan' = [chan EXCEPT ![c] = todo]
  /\ UNCHANGED <<clock, setBack, sampled, data, fifo, wq, cur, enable, lock, fileVars, pins, saved,
                 saving, adu, conn, idle, stage, link, heart, beat, faults>>

SetHeart(c)  == \E on \in BOOLEAN : Set(c, [regs EXCEPT !.HEART_EN = on], "save")
SetOther(c)  == Set(c, regs, "save")   \* addresses, speeds: nothing here reads them
SetSample(c) == \E on \in BOOLEAN :
                  Set(c, [regs EXCEPT !.HIS_SAVE = on], IF on THEN "his_on" ELSE "his_off")

SetClock ==
  /\ Preempted /\ requests < MaxRequests /\ requests' = requests + 1
  /\ \E t \in Seconds : SetTime(t)
  /\ UNCHANGED <<pins, saved, chan, saving, adu, conn, idle, stage, link, heart, beat, faults>>

(* history_enable_write waits for h_lock, for ever if it was not returned. *)
EnableHistory(c) ==
  /\ Preempted /\ chan[c] \in {"his_on", "his_off"} /\ lock = "none"
  /\ EnableWrite(chan[c] = "his_on") /\ chan' = [chan EXCEPT ![c] = "save"]
  /\ UNCHANGED <<regs, clock, setBack, sampled, data, fifo, wq, cur, lock, pins, saved, saving, adu,
                 conn, idle, stage, link, heart, beat, requests, faults>>

SaveSet(c) ==
  /\ Preempted /\ chan[c] = "save"
  /\ \/ StartSaving(c) /\ UNCHANGED chan
     \/ /\ saving = [by |-> c, left |-> <<>>] /\ saving' = Unbusy
        /\ chan' = [chan EXCEPT ![c] = "none"]
  /\ UNCHANGED <<recVars, pins, saved, adu, conn, idle, stage, link, heart, beat, requests, faults>>

-----------------------------------------------------------------------------
(* heart_poll and net_event_handler: the register, then the outputs.       *)

notDrop == <<clock, setBack, sampled, data, fifo, wq, cur, enable, lock, fileVars, saved, chan, saving,
             adu, conn, idle, stage, requests>>

HeartBeat ==
  /\ heart = "wait" /\ beat /\ beat' = FALSE
  /\ UNCHANGED <<notDrop, regs, pins, link, heart, faults>>

HeartTimeout ==
  /\ Preempted /\ heart = "wait" /\ ~beat /\ regs.HEART_EN
  /\ regs' = [regs EXCEPT !.DO = 0] /\ heart' = "drop"
  /\ UNCHANGED <<notDrop, pins, link, beat, faults>>

(* Mutant: the timeout clears only the register.                           *)
HeartForgets ==
  /\ Preempted /\ heart = "drop" /\ heart' = "wait"
  /\ UNCHANGED <<notDrop, regs, pins, link, beat, faults>>

HeartDrop ==
  /\ Preempted /\ heart = "drop" /\ pins' = 0 /\ heart' = "wait"
  /\ UNCHANGED <<notDrop, regs, link, beat, faults>>

LinkFails ==
  /\ Fault /\ link = "up" /\ link' = "dropping" /\ regs' = [regs EXCEPT !.DO = 0]
  /\ UNCHANGED <<notDrop, pins, heart, beat>>

LinkDrop ==
  /\ link = "dropping" /\ link' = "down" /\ pins' = 0
  /\ UNCHANGED <<notDrop, regs, heart, beat, faults>>

LinkUp ==
  /\ link = "down" /\ link' = "up"
  /\ UNCHANGED <<notDrop, regs, pins, heart, beat, faults>>

-----------------------------------------------------------------------------
WorkQueue   == ExecuteRtu \/ ExecuteRaw \/ SaveAll
HeartThread == HeartBeat \/ HeartTimeout \/ HeartDrop
Link        == LinkFails \/ LinkDrop \/ LinkUp
Configure(c) == SaveSet(c) \/ EnableHistory(c)

Common   == SaveKey \/ \E c \in Channels : Configure(c)
Settings == Restart \/ SetClock \/ \E c \in Channels : SetOther(c) \/ SetSample(c)
Masters  == \/ WorkQueue \/ Tcp \/ Link \/ HeartThread \/ \E c \in Channels : SetHeart(c)
            \/ \E kind \in Kinds : ServeRtu(kind) \/ Request(kind)

-----------------------------------------------------------------------------
(* The TCP master gets the answer of the work queue to its last request,   *)
(* or the failure that stands for it, and not an echo of the request or    *)
(* the answer to another one (tcp.c:240-261), as long as no answer came    *)
(* after its second: tmp_adu and the semaphore serve all requests.         *)
RepliesMatch ==
  ~late /\ stage = "select" => reply.what # "request" /\ reply.id = tmp.id

(* An output that is on is one the register says is on, unless the heart   *)
(* thread or the link event is just about to clear it: both clear the      *)
(* register first and the outputs then (init.c:50-56, tcp.c:31-34), while  *)
(* holding_reg_wr sets both in the work queue (function.c:89-93).  No      *)
(* output stays on that the masters read as off.                           *)
OutputsKnown == pins = 1 => regs.DO = 1 \/ heart = "drop" \/ link = "dropping"

(* Without frames of the TCP master the enabled heartbeat clears the       *)
(* outputs again and again, whatever RS-485 writes (init.c:45-60); a       *)
(* connection that was reset must have been replaced.                      *)
HeartDrops == <>[](regs.HEART_EN /\ conn # "reset") => []<>(pins = 0)
=============================================================================
