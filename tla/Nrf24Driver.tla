---------------------------- MODULE Nrf24Driver ----------------------------
(***************************************************************************)
(* drivers/nrf24l01p/nrf24l01p.c: the nRF24L01+ radio driver.              *)
(*                                                                         *)
(* Four parties share one chip: the radio itself (frames arrive, a         *)
(* transmission is acknowledged or gives up), the interrupt thread         *)
(* nrf24_irq_thread, the threads that call nrf24_send, and the threads     *)
(* that power, configure or register a receiver.  Everything but the       *)
(* interrupt thread holds nrf24_data.lock from its first to its last chip  *)
(* access, so each of those critical sections is one action that needs the *)
(* lock free.  The interrupt thread is split at every SPI transfer of its  *)
(* receive loop: the radio can receive between any two of them.            *)
(*                                                                         *)
(* SPI transfers succeed.  A chip without power ignores writes, and nothing *)
(* drives MISO, which has no pull resistor (its pin state in the overlay   *)
(* sets no bias): such a read returns all zeros or all ones.               *)
(***************************************************************************)
EXTENDS Naturals, Sequences, FiniteSets

CONSTANTS
  Senders,     \* threads that call nrf24_send
  MaxSends,    \* bound: frames sent, numbered 1 .. MaxSends
  MaxFrames,   \* bound: frames received by the chip, numbered 1 .. MaxFrames
  MaxOps,      \* bound: power-off, configure and register calls together
  QueueLen,    \* depth of the receive queues
  HasPower     \* the board switches the chip's supply (power-gpios)

ASSUME DriverAssumption ==
  /\ MaxSends \in Nat /\ MaxFrames \in Nat /\ MaxOps \in Nat
  /\ QueueLen \in Nat /\ HasPower \in BOOLEAN

VARIABLES
  powered, chipMode, ce,              \* supply, CONFIG.PWR_UP/PRIM_RX, CE pin
  txFifo, rxFifo, txDs, maxRt, rxDr,  \* FIFOs and STATUS of the chip
  ready, mode, locked, irqSem,        \* nrf24_data; locked: held by the IRQ thread
  txDone, lastMaxRt,                  \* tx_done_sem; MAX_RT bit of last_status
  rxMsgq, rxCb, msgq, fallback,       \* rx_msgq / rx_cb registered; their queues
  irqPc, status, frame,               \* nrf24_irq_thread: its locals
  sndPc, cur, got, outcome,           \* nrf24_send callers
  sent, received, ops, cut,           \* cut: the supply has been cut before
  acked, gaveUp   \* history: payloads the peer acknowledged, or the chip gave up

chipVars == <<powered, chipMode, ce, txFifo, rxFifo, txDs, maxRt, rxDr>>
irqVars  == <<irqPc, status, frame, locked>>
sndVars  == <<sndPc, cur, got, outcome, sent>>
rxqVars  == <<rxMsgq, rxCb, msgq, fallback>>
budget   == <<ops, cut>>
airVars  == <<acked, gaveUp>>
vars     == <<chipVars, irqVars, sndVars, rxqVars, budget, ready, mode, irqSem,
              txDone, lastMaxRt, received, airVars>>

NoFrame  == 0
Payloads == 1 .. MaxSends
Frames   == 1 .. MaxFrames
Modes    == {"PRX", "PTX", "DOWN"}
RxDepth  == 3                         \* the chip's receive FIFO holds 3 frames
StatusWord == [tx : BOOLEAN, maxRt : BOOLEAN, rx : BOOLEAN]
NoStatus == [tx |-> FALSE, maxRt |-> FALSE, rx |-> FALSE]

TypeOK ==
  /\ powered \in BOOLEAN /\ ce \in BOOLEAN /\ chipMode \in Modes
  /\ txFifo \in Payloads \cup {NoFrame} /\ rxFifo \in Seq(Frames)
  /\ txDs \in BOOLEAN /\ maxRt \in BOOLEAN /\ rxDr \in BOOLEAN
  /\ ready \in BOOLEAN /\ mode \in Modes
  /\ locked \in BOOLEAN /\ irqSem \in BOOLEAN
  /\ txDone \in BOOLEAN /\ lastMaxRt \in BOOLEAN
  /\ rxMsgq \in BOOLEAN /\ rxCb \in BOOLEAN
  /\ msgq \in Seq(Frames) /\ fallback \in Seq(Frames)
  /\ irqPc \in {"top", "park", "poll", "lock", "fetch", "flush", "clear",
                "deliver", "relock", "reread", "final"}
  /\ status \in StatusWord /\ frame \in Frames \cup {NoFrame}
  /\ sndPc \in [Senders -> {"idle", "start", "wait", "finish"}]
  /\ cur \in [Senders -> Payloads \cup {NoFrame}]
  /\ got \in [Senders -> BOOLEAN]
  /\ outcome \in [Senders -> {"none", "OK", "EIO", "EAGAIN"}]
  /\ sent \in 0 .. MaxSends /\ received \in 0 .. MaxFrames
  /\ acked \in SUBSET Payloads /\ gaveUp \in SUBSET Payloads
  /\ ops \in 0 .. MaxOps /\ cut \in BOOLEAN

(* nrf24_init has powered and configured the chip and started the thread.  *)
Init ==
  /\ powered = TRUE /\ chipMode = "PRX" /\ ce = TRUE
  /\ txFifo = NoFrame /\ rxFifo = <<>>
  /\ txDs = FALSE /\ maxRt = FALSE /\ rxDr = FALSE
  /\ ready = TRUE /\ mode = "PRX" /\ locked = FALSE /\ irqSem = FALSE
  /\ txDone = FALSE /\ lastMaxRt = FALSE
  /\ rxMsgq = FALSE /\ rxCb = FALSE /\ msgq = <<>> /\ fallback = <<>>
  /\ irqPc = "top" /\ frame = NoFrame
  /\ status = NoStatus
  /\ sndPc = [s \in Senders |-> "idle"]
  /\ cur = [s \in Senders |-> NoFrame]
  /\ got = [s \in Senders |-> FALSE]
  /\ outcome = [s \in Senders |-> "none"]
  /\ sent = 0 /\ received = 0 /\ acked = {} /\ gaveUp = {}
  /\ ops = 0 /\ cut = FALSE

-----------------------------------------------------------------------------
(* The radio (external): what the chip does on its own.                    *)

(* The IRQ pin is low while a STATUS bit is set.  Setting a bit on a high  *)
(* pin makes a falling edge, and nrf24_irq_handler gives irq_sem, unless   *)
(* the edge follows another too closely and the EXTI controller misses it. *)
Edge == irqSem' \in IF rxDr \/ txDs \/ maxRt THEN {irqSem} ELSE {irqSem, TRUE}

RadioReceive ==
  /\ powered /\ ce /\ chipMode = "PRX"
  /\ received < MaxFrames /\ Len(rxFifo) < RxDepth
  /\ received' = received + 1
  /\ rxFifo' = Append(rxFifo, received + 1)
  /\ rxDr' = TRUE
  /\ Edge
  /\ UNCHANGED <<powered, chipMode, ce, txFifo, txDs, maxRt, irqVars, sndVars,
                 rxqVars, budget, ready, mode, txDone, lastMaxRt, airVars>>

Transmitting == powered /\ ce /\ chipMode = "PTX" /\ txFifo # NoFrame /\ ~maxRt

(* The acknowledgement arrives: the payload leaves the FIFO, TX_DS rises.  *)
RadioAcked ==
  /\ Transmitting
  /\ acked' = acked \cup {txFifo}
  /\ txFifo' = NoFrame
  /\ txDs' = TRUE
  /\ Edge
  /\ UNCHANGED <<powered, chipMode, ce, rxFifo, maxRt, rxDr, irqVars, sndVars,
                 rxqVars, budget, ready, mode, txDone, lastMaxRt, received,
                 gaveUp>>

(* Retransmissions are used up: the payload stays in the FIFO and is sent  *)
(* again as soon as MAX_RT is cleared while CE is still high.              *)
RadioGivesUp ==
  /\ Transmitting
  /\ gaveUp' = gaveUp \cup {txFifo}
  /\ maxRt' = TRUE
  /\ Edge
  /\ UNCHANGED <<powered, chipMode, ce, txFifo, rxFifo, txDs, rxDr, irqVars,
                 sndVars, rxqVars, budget, ready, mode, txDone, lastMaxRt,
                 received, acked>>

-----------------------------------------------------------------------------
(* nrf24_irq_thread.                                                       *)

(* What a read of STATUS may return: without power, whatever level MISO    *)
(* floats at.                                                              *)
Readings ==
  IF powered THEN {[tx |-> txDs, maxRt |-> maxRt, rx |-> rxDr]}
             ELSE {[tx |-> b, maxRt |-> b, rx |-> b] : b \in BOOLEAN}

(* A completed transmission: keep its status, clear it, wake the sender.   *)
TxComplete(st) ==
  IF st.tx \/ st.maxRt
    THEN /\ lastMaxRt' = st.maxRt
         /\ txDs' = FALSE /\ maxRt' = FALSE
         /\ txDone' = TRUE
    ELSE UNCHANGED <<lastMaxRt, txDs, maxRt, txDone>>

IrqTop ==
  /\ irqPc = "top"
  /\ irqPc' = IF ready THEN "poll" ELSE "park"
  /\ UNCHANGED <<chipVars, status, frame, locked, sndVars, rxqVars, budget,
                 ready, mode, irqSem, txDone, lastMaxRt, received, airVars>>

(* Powered down: wait for an edge or for power, without polling.           *)
IrqPark ==
  /\ irqPc = "park" /\ irqSem
  /\ irqSem' = FALSE
  /\ irqPc' = "top"
  /\ UNCHANGED <<chipVars, status, frame, locked, sndVars, rxqVars, budget,
                 ready, mode, txDone, lastMaxRt, received, airVars>>

(* Mutant: no timeout on irq_sem, so that a missed edge is never made up.   *)
IrqPollForever ==
  /\ irqPc = "poll" /\ irqSem
  /\ irqSem' = FALSE
  /\ irqPc' = IF ready THEN "lock" ELSE "top"
  /\ UNCHANGED <<chipVars, status, frame, locked, sndVars, rxqVars, budget,
                 ready, mode, txDone, lastMaxRt, received, airVars>>

(* Wait for an edge for at most 50 ms, then look at ready once more.       *)
IrqPoll ==
  /\ irqPc = "poll"
  /\ irqSem' = FALSE
  /\ irqPc' = IF ready THEN "lock" ELSE "top"
  /\ UNCHANGED <<chipVars, status, frame, locked, sndVars, rxqVars, budget,
                 ready, mode, txDone, lastMaxRt, received, airVars>>

IrqLock ==
  /\ irqPc = "lock" /\ ~locked
  /\ locked' = TRUE
  /\ \E st \in Readings :
       /\ status' = st
       /\ TxComplete(st)
       /\ irqPc' = IF st.rx THEN "fetch" ELSE "final"
  /\ UNCHANGED <<powered, chipMode, ce, txFifo, rxFifo, rxDr, frame, sndVars,
                 rxqVars, budget, ready, mode, irqSem, received, airVars>>

(* fetch_rx_payload_locked: an empty or unpowered FIFO yields length 0.    *)
IrqFetch ==
  /\ irqPc = "fetch"
  /\ frame' = IF powered /\ rxFifo # <<>> THEN Head(rxFifo) ELSE NoFrame
  /\ rxFifo' = IF powered /\ rxFifo # <<>> THEN Tail(rxFifo) ELSE rxFifo
  /\ irqPc' = "flush"
  /\ UNCHANGED <<powered, chipMode, ce, txFifo, txDs, maxRt, rxDr, status,
                 locked, sndVars, rxqVars, budget, ready, mode, irqSem, txDone,
                 lastMaxRt, received, airVars>>

IrqFlush ==
  /\ irqPc = "flush"
  /\ rxFifo' = <<>>
  /\ irqPc' = "clear"
  /\ UNCHANGED <<powered, chipMode, ce, txFifo, txDs, maxRt, rxDr, status, frame,
                 locked, sndVars, rxqVars, budget, ready, mode, irqSem, txDone,
                 lastMaxRt, received, airVars>>

(* Clear RX_DR and, with a frame in hand, release the lock to deliver it.  *)
IrqClear ==
  /\ irqPc = "clear"
  /\ rxDr' = FALSE
  /\ locked' = (frame = NoFrame)
  /\ irqPc' = IF frame = NoFrame THEN "reread" ELSE "deliver"
  /\ UNCHANGED <<powered, chipMode, ce, txFifo, rxFifo, txDs, maxRt, status,
                 frame, sndVars, rxqVars, budget, ready, mode, irqSem, txDone,
                 lastMaxRt, received, airVars>>

(* k_msgq_put with K_NO_WAIT: a full queue drops the frame.                *)
PutNoWait(q, f) == IF Len(q) < QueueLen THEN Append(q, f) ELSE q

(* The target is the registered queue, else the fallback queue, which the  *)
(* device macro always provides; rx_cb is reached only without either.     *)
IrqDeliver ==
  /\ irqPc = "deliver"
  /\ IF rxMsgq
       THEN msgq' = PutNoWait(msgq, frame) /\ UNCHANGED fallback
       ELSE fallback' = PutNoWait(fallback, frame) /\ UNCHANGED msgq
  /\ frame' = NoFrame
  /\ irqPc' = "relock"
  /\ UNCHANGED <<chipVars, status, locked, sndVars, rxMsgq, rxCb, budget, ready,
                 mode, irqSem, txDone, lastMaxRt, received, airVars>>

(* Back under the lock, STATUS is read again: loop, or leave the loop.     *)
IrqReread ==
  /\ irqPc = "reread" \/ (irqPc = "relock" /\ ~locked)
  /\ locked' = TRUE
  /\ \E st \in Readings :
       /\ status' = st
       /\ irqPc' = IF st.rx THEN "fetch" ELSE "final"
  /\ UNCHANGED <<chipVars, frame, sndVars, rxqVars, budget, ready, mode, irqSem,
                 txDone, lastMaxRt, received, airVars>>

(* Mutant: the lock is released only when the last look found a completion. *)
IrqFinalKeepsLock ==
  /\ irqPc = "final"
  /\ TxComplete(status)
  /\ status' = NoStatus
  /\ locked' = ~(status.tx \/ status.maxRt)
  /\ irqPc' = "top"
  /\ UNCHANGED <<powered, chipMode, ce, txFifo, rxFifo, rxDr, frame, sndVars,
                 rxqVars, budget, ready, mode, irqSem, received, airVars>>

(* The last STATUS read is examined for a completion once more.            *)
IrqFinal ==
  /\ irqPc = "final"
  /\ TxComplete(status)
  /\ status' = NoStatus
  /\ locked' = FALSE
  /\ irqPc' = "top"
  /\ UNCHANGED <<powered, chipMode, ce, txFifo, rxFifo, rxDr, frame, sndVars,
                 rxqVars, budget, ready, mode, irqSem, received, airVars>>

IrqThread == \/ IrqTop \/ IrqPark \/ IrqPoll \/ IrqLock \/ IrqFetch \/ IrqFlush
             \/ IrqClear \/ IrqDeliver \/ IrqReread \/ IrqFinal

-----------------------------------------------------------------------------
(* set_mode_locked, as seen after it returns: CE is high only in PRX.      *)
SetMode(m) ==
  /\ mode' = m
  /\ ce' = (m = "PRX")
  /\ chipMode' = IF powered THEN m ELSE chipMode

(* nrf24_send.  Every caller holds its application's rf24_tx_mutex, so a   *)
(* call begins only when no other is in progress.                          *)
SendBegin(s) ==
  /\ \A t \in Senders : sndPc[t] = "idle"
  /\ sent < MaxSends
  /\ sent' = sent + 1
  /\ cur' = [cur EXCEPT ![s] = sent + 1]
  /\ outcome' = [outcome EXCEPT ![s] = "none"]
  /\ sndPc' = [sndPc EXCEPT ![s] = "start"]
  /\ UNCHANGED <<chipVars, irqVars, got, rxqVars, budget, ready, mode, irqSem,
                 txDone, lastMaxRt, received, airVars>>

(* Mutant: a completion left over from an earlier send is not drained.     *)
SendStartUndrained(s) ==
  /\ sndPc[s] = "start" /\ ~locked
  /\ mode' = "PTX" /\ ce' = TRUE
  /\ chipMode' = IF powered THEN "PTX" ELSE chipMode
  /\ txFifo' = IF powered THEN cur[s] ELSE txFifo
  /\ txDs' = FALSE /\ maxRt' = FALSE
  /\ sndPc' = [sndPc EXCEPT ![s] = "wait"]
  /\ UNCHANGED <<powered, rxFifo, rxDr, irqVars, cur, got, outcome, sent, txDone,
                 rxqVars, budget, ready, irqSem, lastMaxRt, received, airVars>>

(* Mutant: TX_DS and MAX_RT of an earlier send are not cleared.             *)
SendStartStaleStatus(s) ==
  /\ sndPc[s] = "start" /\ ~locked
  /\ txDone' = FALSE
  /\ mode' = "PTX" /\ ce' = TRUE
  /\ chipMode' = IF powered THEN "PTX" ELSE chipMode
  /\ txFifo' = IF powered THEN cur[s] ELSE txFifo
  /\ sndPc' = [sndPc EXCEPT ![s] = "wait"]
  /\ UNCHANGED <<powered, rxFifo, txDs, maxRt, rxDr, irqVars, cur, got, outcome,
                 sent, rxqVars, budget, ready, irqSem, lastMaxRt, received,
                 airVars>>

(* Drain tx_done_sem, switch to PTX, flush and clear what an earlier send  *)
(* left behind, load the payload, raise CE.                                *)
SendStart(s) ==
  /\ sndPc[s] = "start" /\ ~locked
  /\ txDone' = FALSE
  /\ mode' = "PTX" /\ ce' = TRUE
  /\ chipMode' = IF powered THEN "PTX" ELSE chipMode
  /\ txFifo' = IF powered THEN cur[s] ELSE txFifo
  /\ txDs' = FALSE /\ maxRt' = FALSE
  /\ sndPc' = [sndPc EXCEPT ![s] = "wait"]
  /\ UNCHANGED <<powered, rxFifo, rxDr, irqVars, cur, got, outcome, sent,
                 rxqVars, budget, ready, irqSem, lastMaxRt, received, airVars>>

(* k_sem_take(&d->tx_done_sem, timeout), without the lock.                 *)
SendWake(s) ==
  /\ sndPc[s] = "wait" /\ txDone
  /\ txDone' = FALSE
  /\ got' = [got EXCEPT ![s] = TRUE]
  /\ sndPc' = [sndPc EXCEPT ![s] = "finish"]
  /\ UNCHANGED <<chipVars, irqVars, cur, outcome, sent, rxqVars, budget, ready,
                 mode, irqSem, lastMaxRt, received, airVars>>

SendTimeout(s) ==
  /\ sndPc[s] = "wait" /\ ~txDone
  /\ got' = [got EXCEPT ![s] = FALSE]
  /\ sndPc' = [sndPc EXCEPT ![s] = "finish"]
  /\ UNCHANGED <<chipVars, irqVars, cur, outcome, sent, rxqVars, budget, ready,
                 mode, irqSem, txDone, lastMaxRt, received, airVars>>

Result(s) == CASE ~got[s] -> "EAGAIN"
               [] got[s] /\ lastMaxRt -> "EIO"
               [] OTHER -> "OK"

(* Mutant: a timeout returns at once, with CE high and the payload loaded.  *)
SendFinishEarly(s) ==
  /\ sndPc[s] = "finish" /\ ~locked
  /\ outcome' = [outcome EXCEPT ![s] = Result(s)]
  /\ txFifo' = IF Result(s) = "EIO" THEN NoFrame ELSE txFifo
  /\ IF got[s] THEN SetMode("PRX") ELSE UNCHANGED <<mode, ce, chipMode>>
  /\ got' = [got EXCEPT ![s] = FALSE]
  /\ sndPc' = [sndPc EXCEPT ![s] = "idle"]
  /\ UNCHANGED <<powered, txDs, maxRt, rxFifo, rxDr, irqVars, cur, sent, rxqVars,
                 budget, ready, irqSem, txDone, lastMaxRt, received, airVars>>

(* CE low; flush an unsent payload; after a timeout also clear the STATUS  *)
(* bits; back to PRX whatever the outcome.                                 *)
SendFinish(s) ==
  /\ sndPc[s] = "finish" /\ ~locked
  /\ outcome' = [outcome EXCEPT ![s] = Result(s)]
  /\ txFifo' = IF Result(s) = "OK" THEN txFifo ELSE NoFrame
  /\ txDs' = (txDs /\ got[s]) /\ maxRt' = (maxRt /\ got[s])
  /\ SetMode("PRX")
  /\ got' = [got EXCEPT ![s] = FALSE]
  /\ sndPc' = [sndPc EXCEPT ![s] = "idle"]
  /\ UNCHANGED <<powered, rxFifo, rxDr, irqVars, cur, sent, rxqVars, budget, ready,
                 irqSem, txDone, lastMaxRt, received, airVars>>

Send(s) == \/ SendBegin(s) \/ SendStart(s) \/ SendWake(s)
           \/ SendTimeout(s) \/ SendFinish(s)

-----------------------------------------------------------------------------
(* Power, configuration, receiver registration: any other thread.          *)

(* The write to CONFIG clears PWR_UP before it sets the role again; FIFOs  *)
(* and STATUS end up clear.                                                *)
ApplyConfig(role) ==
  /\ chipMode' = role
  /\ txFifo' = NoFrame /\ rxFifo' = <<>>
  /\ txDs' = FALSE /\ maxRt' = FALSE /\ rxDr' = FALSE

PowerOn ==
  /\ HasPower /\ ~locked
  /\ powered' = TRUE
  /\ ApplyConfig("PRX")
  /\ ready' = TRUE /\ mode' = "PRX" /\ ce' = TRUE
  /\ irqSem' = TRUE
  /\ UNCHANGED <<irqVars, sndVars, rxqVars, budget, txDone, lastMaxRt, received,
                 airVars>>

(* Mutant: ready survives the power cut.                                   *)
PowerOffStaysReady ==
  /\ HasPower /\ ~locked /\ ops < MaxOps
  /\ ops' = ops + 1 /\ cut' = TRUE
  /\ powered' = FALSE
  /\ ApplyConfig("DOWN")
  /\ mode' = "DOWN" /\ ce' = FALSE
  /\ UNCHANGED <<irqVars, sndVars, rxqVars, irqSem, ready,
                 txDone, lastMaxRt, received, airVars>>

(* Soft power-down, then the supply is cut: the chip forgets everything.   *)
PowerOff ==
  /\ HasPower /\ ~locked /\ ops < MaxOps
  /\ ops' = ops + 1 /\ cut' = TRUE
  /\ powered' = FALSE
  /\ ApplyConfig("DOWN")
  /\ ready' = FALSE /\ mode' = "DOWN" /\ ce' = FALSE
  /\ UNCHANGED <<irqVars, sndVars, rxqVars, irqSem,
                 txDone, lastMaxRt, received, airVars>>

(* nrf24_configure keeps the role the driver believes it has.              *)
Configure ==
  /\ ~locked /\ ops < MaxOps
  /\ ops' = ops + 1
  /\ IF powered
       THEN ApplyConfig(IF mode = "PRX" THEN "PRX" ELSE "PTX")
       ELSE UNCHANGED <<chipMode, txFifo, rxFifo, txDs, maxRt, rxDr>>
  /\ UNCHANGED <<powered, ce, irqVars, sndVars, rxqVars, cut, ready,
                 mode, irqSem, txDone, lastMaxRt, received, airVars>>

(* nrf24_start_rx, which every nrf24_configure call is followed by.        *)
StartRx ==
  /\ ~locked
  /\ SetMode("PRX")
  /\ UNCHANGED <<powered, txFifo, rxFifo, txDs, maxRt, rxDr, irqVars, sndVars,
                 rxqVars, budget, ready, irqSem, txDone, lastMaxRt, received,
                 airVars>>

Register(q, c) ==
  /\ ~locked /\ ops < MaxOps
  /\ ops' = ops + 1
  /\ rxMsgq' = q /\ rxCb' = c
  /\ UNCHANGED <<chipVars, irqVars, sndVars, msgq, fallback, cut, ready,
                 mode, irqSem, txDone, lastMaxRt, received, airVars>>

AddRxMsgq    == Register(TRUE, FALSE)
AddRxCallback == Register(FALSE, TRUE)

(* The receiving thread takes a frame from the queue it registered.        *)
AppGet ==
  /\ msgq # <<>>
  /\ msgq' = Tail(msgq)
  /\ UNCHANGED <<chipVars, irqVars, sndVars, rxMsgq, rxCb, fallback, budget,
                 ready, mode, irqSem, txDone, lastMaxRt, received, airVars>>

(* nrf24_recv takes a frame from the fallback queue; the start_rx it calls *)
(* first, when not in PRX, is the action StartRx.                          *)
Recv ==
  /\ fallback # <<>>
  /\ fallback' = Tail(fallback)
  /\ UNCHANGED <<chipVars, irqVars, sndVars, rxMsgq, rxCb, msgq, budget, ready,
                 mode, irqSem, txDone, lastMaxRt, received, airVars>>

Radio  == RadioReceive \/ RadioAcked \/ RadioGivesUp
Client == \/ PowerOn \/ PowerOff \/ Configure \/ StartRx
          \/ AddRxMsgq \/ AddRxCallback \/ AppGet \/ Recv

Next == Radio \/ IrqThread \/ (\E s \in Senders : Send(s)) \/ Client

Spec == Init /\ [][Next]_vars

(* The interrupt thread is cooperative and its waits are bounded; a mutex  *)
(* is handed to its waiter on unlock; nrf24_send waits with a timeout.     *)
Fairness ==
  /\ WF_vars(IrqThread)
  /\ SF_vars(IrqLock) /\ SF_vars(IrqReread)
  /\ \A s \in Senders : /\ WF_vars(SendWake(s) \/ SendTimeout(s))
                        /\ SF_vars(SendStart(s)) /\ SF_vars(SendFinish(s))

FairSpec == Spec /\ Fairness

-----------------------------------------------------------------------------
(* nrf24l01p.h promises a caller "0 = ACK, -EIO = retransmissions used up" *)
(* for the frame it passed: no result is left over from an earlier send,   *)
(* although last_status and tx_done_sem outlive a call that timed out.     *)
(* (A powered-down chip may read as MAX_RT, so -EIO is only promised while *)
(* the power has stayed on.)                                               *)
TxResultIsOwn ==
  \A s \in Senders :
    /\ outcome[s] = "OK" => cur[s] \in acked
    /\ outcome[s] = "EIO" /\ ~cut => cur[s] \in gaveUp

(* With no transmission in progress and the radio up, the chip listens,    *)
(* whatever interleaving of sends, power cycles, reconfigurations and      *)
(* start_rx calls came before ("switches back to PRX after the send").     *)
RadioListens ==
  ready /\ (\A s \in Senders : sndPc[s] \in {"idle", "start"}) =>
    powered /\ ce /\ mode = "PRX" /\ chipMode = "PRX"

(* What goes on the air is the frame of the nrf24_send call in progress:   *)
(* a frame whose call has returned is never transmitted later.             *)
OnlyOwnFrameOnAir ==
  [][\A p \in acked' \ acked : \E s \in Senders :
        cur[s] = p /\ sndPc[s] \in {"wait", "finish"}]_vars

(* However many edges the EXTI misses, a pending RX_DR is served: the 50 ms *)
(* poll, and the give of irq_sem on power-up, are there for that.          *)
RxServed == rxDr ~> ~rxDr

(* The interrupt thread goes round its receive loop on a chip without      *)
(* power, and RX_DR reads as set: it holds the lock in every pass, because *)
(* no payload comes, and nrf24_power_enable needs that lock.               *)
ReadsDeadChip == ~powered /\ irqPc \in {"fetch", "flush", "clear", "reread"}

(* nrf24_send returns, with an answer or with its timeout, unless that     *)
(* loop has become endless: the interrupt thread never keeps the lock for  *)
(* ever in another place, and no sender waits for ever without it.         *)
SendReturns ==
  (\A s \in Senders : sndPc[s] = "start" ~> sndPc[s] = "idle") \/ <>[]ReadsDeadChip

-----------------------------------------------------------------------------
(* Why TxResultIsOwn holds: the strengthening that every step preserves.   *)

(* The interrupt thread holds the lock exactly while it uses the bus, and  *)
(* lets go of it in the receive loop only with a frame to deliver.         *)
IrqOwnsLock ==
  /\ locked <=> irqPc \in {"fetch", "flush", "clear", "reread", "final"}
  /\ irqPc = "deliver" => frame # NoFrame

(* A chip without power has nothing to send.                               *)
PowerLost == ~powered => cut /\ txFifo = NoFrame

(* rf24_tx_mutex: one call of nrf24_send at a time.                        *)
OneSender == \A s, t \in Senders : sndPc[s] # "idle" /\ sndPc[t] # "idle" => s = t

InFlight(s) == sndPc[s] \in {"wait", "finish"}

(* The answer "MAX_RT" or "ACK" is the truth about payload p.              *)
Truth(p, failed) == IF failed THEN cut \/ p \in gaveUp ELSE p \in acked

(* During a call, the payload in the chip, its STATUS bits, the status the *)
(* interrupt thread holds and the completion it has signalled all concern  *)
(* the frame of that call.                                                 *)
OwnTransmission(s) ==
  InFlight(s) =>
    /\ txFifo # NoFrame => txFifo = cur[s]
    /\ txDs => cur[s] \in acked
    /\ maxRt => cur[s] \in gaveUp
    /\ locked /\ (status.tx \/ status.maxRt) => Truth(cur[s], status.maxRt)
    /\ txDone \/ got[s] => Truth(cur[s], lastMaxRt)

SendInv ==
  /\ PowerLost /\ OneSender
  /\ \A s \in Senders : OwnTransmission(s) /\ (got[s] => sndPc[s] = "finish")

(* Why RadioListens holds: the mode the driver believes in is the chip's.  *)
ModeInv ==
  /\ ready = powered
  /\ powered /\ mode = "PRX" => chipMode = "PRX"
  /\ ready /\ (\A s \in Senders : ~InFlight(s)) => mode = "PRX" /\ ce

(* The inductive invariant: every action preserves it, and the safety      *)
(* properties above follow from it.                                        *)
DriverInv == TypeOK /\ IrqOwnsLock /\ SendInv /\ ModeInv
=============================================================================
