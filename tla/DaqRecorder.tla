------------------------------ MODULE DaqRecorder ------------------------------
(***************************************************************************)
(* applications/data_collect: the samples (dio.c, adc.c) that the system   *)
(* work queue appends to the files data_<seconds>.raw (history.c).  The    *)
(* holding registers (function.c) are declared here because the sampling   *)
(* threads read them.                                                      *)
(*                                                                         *)
(* The work queue is cooperative: it is interrupted only where it waits    *)
(* for the flash or for h_lock.  A file is named by the second it was      *)
(* created in; a record is the number of its sample.                       *)
(***************************************************************************)
EXTENDS Naturals, FiniteSets, Sequences, SequencesExt

CONSTANTS
  Samplers,    \* the sampling threads: digital and analogue inputs
  FileSize,    \* records of a file: MAX_FILE_SIZE
  MaxFiles,    \* MAX_FILE_NUM
  SyncEvery,   \* records between two fsync
  QueueSize,   \* entries of the fifo the heap has room for
  MaxSamples,  \* bound: samples taken
  MaxClock     \* bound: seconds

ASSUME RecorderAssumption ==
  /\ {FileSize, MaxFiles, SyncEvery, QueueSize, MaxClock} \subseteq Nat \ {0}
  /\ MaxSamples \in Nat

VARIABLES
  regs,       \* the holding registers that matter here
  clock, setBack,  \* time(NULL); history: the clock was set back
  sampled, data,   \* samples taken; per sampling thread its struct his_data
  fifo,       \* his_rx_fifo: pointers to these structs
  wq, cur,    \* what the work queue does; the struct it saves
  enable,     \* enable_write
  lock,       \* h_lock: its owner; "leaked" is the work queue that never returns it
  files,      \* the data files: second |-> records
  fd, pos, offset,  \* the file written, where in it, fd_offset
  gone,       \* the file written was removed while open
  synced,     \* records of the file written that survive a power cut
  removed     \* history: the files a client removed

recVars == <<regs, clock, setBack, sampled, data, fifo, wq, cur, enable, lock, files, fd, pos, offset,
             gone, synced, removed>>
fileVars == <<files, fd, pos, offset, gone, synced, removed>>

Seconds  == 1 .. MaxClock
NoFile   == 0
Registers == [DO : 0 .. 1, HIS_SAVE : BOOLEAN, HEART_EN : BOOLEAN]

RecorderTypeOK ==
  /\ regs \in Registers
  /\ clock \in Seconds /\ setBack \in BOOLEAN
  /\ sampled \in 0 .. MaxSamples /\ data \in [Samplers -> 0 .. MaxSamples]
  /\ fifo \in Seq(Samplers) /\ Len(fifo) <= QueueSize
  /\ wq \in {"idle", "history", "record", "append", "save", "saving"} /\ cur \in Samplers /\ enable \in BOOLEAN
  /\ lock \in {"none", "wq", "leaked"}
  /\ DOMAIN files \subseteq Seconds /\ Cardinality(DOMAIN files) <= MaxFiles
  /\ \A f \in DOMAIN files : files[f] \in Seq(1 .. MaxSamples)
  /\ fd \in Seconds \cup {NoFile} /\ {pos, offset, synced} \subseteq 0 .. FileSize + MaxSamples
  /\ gone \in BOOLEAN /\ removed \subseteq Seconds

NoFiles == [f \in {} |-> <<>>]

RecorderInit ==
  /\ clock = 1 /\ setBack = FALSE /\ sampled = 0 /\ data = [p \in Samplers |-> 0]
  /\ fifo = <<>> /\ wq = "idle" /\ cur \in Samplers /\ enable = regs.HIS_SAVE /\ lock = "none"
  /\ files = NoFiles /\ fd = NoFile /\ pos = 0 /\ offset = 0 /\ gone = FALSE /\ synced = 0
  /\ removed = {}

-----------------------------------------------------------------------------
(* The sampling threads and the clock.                                     *)

(* send_history_data queues the address of the thread's own struct, which  *)
(* the next sample overwrites whether it was saved or not.                 *)
Sample(p) ==
  /\ regs.HIS_SAVE /\ sampled < MaxSamples /\ sampled' = sampled + 1
  /\ data' = [data EXCEPT ![p] = sampled']
  /\ fifo' = IF Len(fifo) < QueueSize THEN Append(fifo, p) ELSE fifo
  /\ UNCHANGED <<regs, clock, setBack, wq, cur, enable, lock, fileVars>>

Tick ==
  /\ clock < MaxClock /\ clock' = clock + 1
  /\ UNCHANGED <<regs, setBack, sampled, data, fifo, wq, cur, enable, lock, fileVars>>

(* set_timestamp                                                           *)
SetTime(t) ==
  /\ clock' = t /\ setBack' = (setBack \/ t < clock)
  /\ UNCHANGED <<regs, sampled, data, fifo, wq, cur, enable, lock, fileVars>>

-----------------------------------------------------------------------------
(* his_process_save                                                        *)

Take ==
  /\ wq = "history" \/ (wq = "idle" /\ fifo # <<>>)
  /\ IF fifo = <<>> THEN wq' = "idle" /\ UNCHANGED <<cur, fifo>>
     ELSE wq' = "record" /\ cur' = Head(fifo) /\ fifo' = Tail(fifo)
  /\ UNCHANGED <<regs, clock, setBack, sampled, data, enable, lock, fileVars>>

Unlocked == IF lock = "leaked" THEN "leaked" ELSE "none"
Full == offset + 1 > FileSize

(* write_history_data returns without unlocking.                           *)
RecordRefused ==
  /\ wq = "record" /\ ~enable
  /\ lock' = "leaked" /\ wq' = "history"
  /\ UNCHANGED <<regs, clock, setBack, sampled, data, fifo, cur, enable, fileVars>>

Latest == CHOOSE f \in DOMAIN files : \A g \in DOMAIN files : g <= f
Oldest == CHOOSE f \in DOMAIN files : \A g \in DOMAIN files : f <= g
Count  == Cardinality(DOMAIN files)

(* Mutant: the oldest file is kept one file too long.                      *)
MadeRoomLate == IF Count > MaxFiles THEN DOMAIN files \ {Oldest} ELSE DOMAIN files

(* open_latest_file, to create one: the files that are left.               *)
MadeRoom == IF Count >= MaxFiles THEN DOMAIN files \ {Oldest} ELSE DOMAIN files

(* A file takes longer than a second to fill, so that the name is new      *)
(* unless the clock was set back.  One that exists is not emptied.         *)
CreateFile ==
  /\ ~setBack => clock \notin DOMAIN files
  /\ files' = [f \in MadeRoom \cup {clock} |-> IF f \in MadeRoom THEN files[f] ELSE <<>>]
  /\ fd' = clock /\ pos' = 0 /\ offset' = 0

(* Mutant: no lseek to the end.                                            *)
OpenExistingAtStart ==
  /\ fd' = Latest /\ pos' = 0 /\ offset' = Len(files[Latest]) /\ UNCHANGED files

OpenExisting ==
  /\ fd' = Latest /\ pos' = Len(files[Latest]) /\ offset' = pos' /\ UNCHANGED files

(* The record goes to a file to be opened, after the full one is closed.   *)
(* A full file that is opened after a restart takes this record too.       *)
OpenFile ==
  /\ wq = "record" /\ enable /\ (Full \/ fd = NoFile)
  /\ wq' = "append" /\ lock' = IF lock = "none" THEN "wq" ELSE lock
  /\ IF ~Full /\ Count \in 1 .. MaxFiles THEN OpenExisting ELSE CreateFile
  /\ gone' = FALSE /\ synced' = Len(files'[fd'])
  /\ UNCHANGED <<regs, clock, setBack, sampled, data, fifo, cur, enable, removed>>

OpenFails ==
  /\ wq = "record" /\ enable /\ (Full \/ fd = NoFile)
  /\ wq' = "history" /\ fd' = NoFile /\ gone' = FALSE
  /\ offset' = IF ~Full /\ Count \in 1 .. MaxFiles THEN Len(files[Latest]) ELSE 0
  /\ files' = IF ~Full /\ Count \in 1 .. MaxFiles THEN files ELSE [f \in MadeRoom |-> files[f]]
  /\ UNCHANGED <<regs, clock, setBack, sampled, data, fifo, cur, enable, lock, pos, synced, removed>>

UseFile ==
  /\ wq = "record" /\ enable /\ ~Full /\ fd # NoFile
  /\ wq' = "append" /\ lock' = IF lock = "none" THEN "wq" ELSE lock
  /\ UNCHANGED <<regs, clock, setBack, sampled, data, fifo, cur, enable, fileVars>>

Written(records) ==
  IF pos = Len(records) THEN Append(records, data[cur]) ELSE [records EXCEPT ![pos + 1] = data[cur]]

(* write and fsync; what goes to a removed file is lost.                   *)
AppendRecord ==
  /\ wq = "append" /\ wq' = "history" /\ lock' = Unlocked
  /\ files' = IF gone THEN files ELSE [files EXCEPT ![fd] = Written(@)]
  /\ pos' = pos + 1 /\ offset' = offset + 1
  /\ synced' = IF offset' % SyncEvery = 0 /\ ~gone THEN Len(files'[fd]) ELSE synced
  /\ UNCHANGED <<regs, clock, setBack, sampled, data, fifo, cur, enable, fd, gone, removed>>

AppendFails ==
  /\ wq = "append" /\ wq' = "history" /\ lock' = Unlocked
  /\ UNCHANGED <<regs, clock, setBack, sampled, data, fifo, cur, enable, fileVars>>

(* history_enable_write, once h_lock is taken.  A closed file is synced;   *)
(* fd_offset keeps its value.                                              *)
EnableWrite(on) ==
  /\ enable' = on
  /\ IF on THEN UNCHANGED <<fd, gone>> ELSE fd' = NoFile /\ gone' = FALSE
  /\ UNCHANGED <<files, pos, offset, synced, removed>>

(* A client removes a file.                                                *)
RemoveFile(f) ==
  /\ f \in DOMAIN files
  /\ files' = [g \in DOMAIN files \ {f} |-> files[g]]
  /\ gone' = (gone \/ f = fd) /\ removed' = removed \cup {f}
  /\ UNCHANGED <<fd, pos, offset, synced>>

(* A power cut or a restart: what was not synced may be lost.              *)
RecorderRestart ==
  /\ IF fd = NoFile \/ gone THEN UNCHANGED files
     ELSE \E kept \in synced .. Len(files[fd]) : files' = [files EXCEPT ![fd] = SubSeq(@, 1, kept)]
  /\ data' = [p \in Samplers |-> 0] /\ fifo' = <<>> /\ wq' = "idle" /\ cur' \in Samplers
  /\ enable' = regs'.HIS_SAVE /\ lock' = "none"
  /\ fd' = NoFile /\ pos' = 0 /\ offset' = 0 /\ gone' = FALSE /\ synced' = 0
  /\ UNCHANGED <<clock, setBack, sampled, removed>>

Record == Take \/ RecordRefused \/ OpenFile \/ OpenFails \/ UseFile \/ AppendRecord \/ AppendFails

-----------------------------------------------------------------------------
(* What is in a data file stays there (history.c:101-129): the recorder    *)
(* appends, whatever was switched off and on, rotated, cut off or removed  *)
(* before; only the oldest of MAX_FILE_NUM files, a file a client removes, *)
(* and what was not yet synced at a power cut may go.  This needs a clock  *)
(* that is not set back: a name that exists is written from its start.     *)
RecordsKept ==
  [][~setBack' =>
       \A f \in DOMAIN files :
         \/ f \in DOMAIN files' /\ IsPrefix(files[f], files'[f])
         \/ /\ f \in DOMAIN files' /\ f = fd /\ fd' = NoFile
            /\ IsPrefix(files'[f], files[f]) /\ Len(files'[f]) >= synced
         \/ f \notin DOMAIN files' /\ (f \in removed' \/ (f = Oldest /\ Count >= MaxFiles))]_recVars
=============================================================================
