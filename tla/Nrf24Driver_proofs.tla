------------------------ MODULE Nrf24Driver_proofs -------------------------
(***************************************************************************)
(* What TLAPS proves of Nrf24Driver for any number of senders, frames and  *)
(* calls, any queue depth, and whatever MISO reads without power.          *)
(***************************************************************************)
EXTENDS Nrf24Driver, SequenceTheorems, TLAPS

-----------------------------------------------------------------------------
(* Types.                                                                  *)

(* A drop-when-full put returns a sequence over the same set.              *)
LEMMA PutNoWaitType ==
  ASSUME NEW q \in Seq(Frames), NEW f \in Frames
  PROVE  PutNoWait(q, f) \in Seq(Frames)
BY AppendProperties DEF PutNoWait

(* The first element and the rest of a queue that is not empty.            *)
LEMMA TakeType ==
  ASSUME NEW q \in Seq(Frames), q # <<>>
  PROVE  Head(q) \in Frames /\ Tail(q) \in Seq(Frames)
BY HeadTailProperties

(* The values the actions assign to the mode and to the status word.       *)
LEMMA ValueTypes ==
  ASSUME TypeOK
  PROVE  /\ "PRX" \in Modes /\ "PTX" \in Modes /\ "DOWN" \in Modes
         /\ NoStatus \in StatusWord /\ Readings \subseteq StatusWord
         /\ <<>> \in Seq(Frames)
BY DriverAssumption, EmptySeq
   DEF Modes, NoStatus, StatusWord, Readings, TypeOK

(* A completion keeps the bits Boolean.                                    *)
LEMMA TxCompleteType ==
  ASSUME TypeOK, NEW st \in StatusWord, TxComplete(st)
  PROVE  /\ lastMaxRt' \in BOOLEAN /\ txDone' \in BOOLEAN
         /\ txDs' \in BOOLEAN /\ maxRt' \in BOOLEAN
BY DEF TypeOK, StatusWord, TxComplete

(* Every step keeps the types.                                             *)
LEMMA TypeStep ==
  ASSUME TypeOK, IrqOwnsLock, [Next]_vars
  PROVE  TypeOK'
<1> USE DEF chipVars, irqVars, sndVars, rxqVars, budget, airVars
<1>1. CASE RadioReceive
  <2>1. received + 1 \in 0 .. MaxFrames /\ received + 1 \in Frames
    BY <1>1, DriverAssumption DEF RadioReceive, TypeOK, Frames
  <2>2. rxFifo' \in Seq(Frames)
    BY <1>1, <2>1, AppendProperties DEF RadioReceive, TypeOK
  <2>3. rxDr' \in BOOLEAN /\ irqSem' \in BOOLEAN
    BY <1>1 DEF RadioReceive, Edge, TypeOK
  <2>4. QED
    BY <1>1, <2>1, <2>2, <2>3 DEF RadioReceive, Edge, TypeOK
<1>2. CASE RadioAcked
  <2>1. txDs' \in BOOLEAN /\ irqSem' \in BOOLEAN /\ acked' \in SUBSET Payloads
    BY <1>2 DEF RadioAcked, Transmitting, Edge, TypeOK
  <2>2. QED
    BY <1>2, <2>1 DEF RadioAcked, Transmitting, Edge, TypeOK
<1>3. CASE RadioGivesUp
  <2>1. maxRt' \in BOOLEAN /\ irqSem' \in BOOLEAN /\ gaveUp' \in SUBSET Payloads
    BY <1>3 DEF RadioGivesUp, Transmitting, Edge, TypeOK
  <2>2. QED
    BY <1>3, <2>1 DEF RadioGivesUp, Transmitting, Edge, TypeOK
<1>4. CASE IrqTop
  BY <1>4 DEF TypeOK, IrqTop
<1>5. CASE IrqPark
  <2>1. irqSem' \in BOOLEAN
    BY <1>5 DEF IrqPark
  <2>2. QED
    BY <1>5, <2>1 DEF IrqPark, TypeOK
<1>6. CASE IrqPoll
  <2>1. irqSem' \in BOOLEAN
    BY <1>6 DEF IrqPoll
  <2>2. QED
    BY <1>6, <2>1 DEF IrqPoll, TypeOK
<1>7. CASE IrqLock
  <2>1. PICK st \in Readings :
          /\ status' = st
          /\ TxComplete(st)
          /\ irqPc' = IF st.rx THEN "fetch" ELSE "final"
    BY <1>7 DEF IrqLock
  <2>2. st \in StatusWord
    BY ValueTypes
  <2>3. /\ lastMaxRt' \in BOOLEAN /\ txDone' \in BOOLEAN
        /\ txDs' \in BOOLEAN /\ maxRt' \in BOOLEAN
    BY <2>1, <2>2, TxCompleteType
  <2>4. locked' \in BOOLEAN
    BY <1>7 DEF IrqLock
  <2>5. QED
    BY <1>7, <2>1, <2>2, <2>3, <2>4 DEF TypeOK, IrqLock
<1>8. CASE IrqFetch
  BY <1>8, TakeType DEF TypeOK, IrqFetch
<1>9. CASE IrqFlush
  BY <1>9, ValueTypes DEF TypeOK, IrqFlush
<1>10. CASE IrqClear
  <2>1. rxDr' \in BOOLEAN /\ locked' \in BOOLEAN
    BY <1>10 DEF IrqClear
  <2>2. QED
    BY <1>10, <2>1 DEF IrqClear, TypeOK
<1>11. CASE IrqDeliver
  <2>1. frame \in Frames
    BY <1>11 DEF IrqDeliver, TypeOK, IrqOwnsLock
  <2>2. PutNoWait(msgq, frame) \in Seq(Frames) /\ PutNoWait(fallback, frame) \in Seq(Frames)
    BY <2>1, PutNoWaitType DEF TypeOK
  <2>3. QED
    BY <1>11, <2>2 DEF IrqDeliver, TypeOK
<1>12. CASE IrqReread
  BY <1>12, ValueTypes DEF TypeOK, IrqReread
<1>13. CASE IrqFinal
  <2>1. NoStatus \in StatusWord
    BY ValueTypes
  <2>2. /\ lastMaxRt' \in BOOLEAN /\ txDone' \in BOOLEAN
        /\ txDs' \in BOOLEAN /\ maxRt' \in BOOLEAN
    BY <1>13, TxCompleteType DEF IrqFinal, TypeOK
  <2>3. locked' \in BOOLEAN
    BY <1>13 DEF IrqFinal
  <2>4. QED
    BY <1>13, <2>1, <2>2, <2>3 DEF TypeOK, IrqFinal
<1>14. ASSUME NEW s \in Senders, SendBegin(s)
      PROVE  TypeOK'
  <2>1. sent + 1 \in 0 .. MaxSends /\ sent + 1 \in Payloads
    BY <1>14, DriverAssumption DEF SendBegin, TypeOK, Payloads
  <2>2. QED
    BY <1>14, <2>1 DEF SendBegin, TypeOK
<1>15. ASSUME NEW s \in Senders, SendStart(s)
      PROVE  TypeOK'
  <2>1. txDone' \in BOOLEAN /\ ce' \in BOOLEAN /\ txDs' \in BOOLEAN /\ maxRt' \in BOOLEAN
    BY <1>15 DEF SendStart
  <2>2. QED
    BY <1>15, <2>1, ValueTypes DEF SendStart, TypeOK
<1>16. ASSUME NEW s \in Senders, SendWake(s)
      PROVE  TypeOK'
  <2>1. txDone' \in BOOLEAN
    BY <1>16 DEF SendWake
  <2>2. QED
    BY <1>16, <2>1 DEF SendWake, TypeOK
<1>17. ASSUME NEW s \in Senders, SendTimeout(s)
      PROVE  TypeOK'
  BY <1>17 DEF TypeOK, SendTimeout
<1>18. ASSUME NEW s \in Senders, SendFinish(s)
      PROVE  TypeOK'
  <2>1. txDs' \in BOOLEAN /\ maxRt' \in BOOLEAN /\ ce' \in BOOLEAN
    BY <1>18, Zenon DEF SendFinish, SetMode, TypeOK
  <2>2. mode' \in Modes /\ chipMode' \in Modes /\ txFifo' \in Payloads \cup {NoFrame}
    BY <1>18, ValueTypes DEF TypeOK, SendFinish, SetMode
  <2>3. /\ outcome' \in [Senders -> {"none", "OK", "EIO", "EAGAIN"}]
        /\ got' \in [Senders -> BOOLEAN]
        /\ sndPc' \in [Senders -> {"idle", "start", "wait", "finish"}]
    BY <1>18 DEF TypeOK, SendFinish, Result
  <2>4. UNCHANGED <<powered, rxFifo, rxDr, irqVars, cur, sent, rxqVars, budget, ready,
                    irqSem, txDone, lastMaxRt, received, airVars>>
    BY <1>18 DEF SendFinish
  <2>5. /\ powered' \in BOOLEAN /\ rxDr' \in BOOLEAN /\ ready' \in BOOLEAN /\ locked' \in BOOLEAN
        /\ irqSem' \in BOOLEAN /\ txDone' \in BOOLEAN /\ lastMaxRt' \in BOOLEAN
        /\ rxMsgq' \in BOOLEAN /\ rxCb' \in BOOLEAN /\ cut' \in BOOLEAN
    BY <2>4, Zenon DEF TypeOK, irqVars, rxqVars, budget
  <2>6. UNCHANGED <<rxFifo, irqPc, status, frame, msgq, fallback, cur, sent, received, ops,
                    acked, gaveUp>>
    BY <2>4 DEF irqVars, rxqVars, budget, airVars
  <2>7. /\ rxFifo' \in Seq(Frames) /\ msgq' \in Seq(Frames) /\ fallback' \in Seq(Frames)
        /\ irqPc' \in {"top", "park", "poll", "lock", "fetch", "flush", "clear",
                      "deliver", "relock", "reread", "final"}
        /\ status' \in StatusWord /\ frame' \in Frames \cup {NoFrame}
        /\ cur' \in [Senders -> Payloads \cup {NoFrame}]
        /\ sent' \in 0 .. MaxSends /\ received' \in 0 .. MaxFrames
        /\ acked' \in SUBSET Payloads /\ gaveUp' \in SUBSET Payloads
        /\ ops' \in 0 .. MaxOps
    BY <2>6, Zenon DEF TypeOK
  <2> QED
    BY <2>1, <2>2, <2>3, <2>5, <2>7, ZenonT(40) DEF TypeOK
<1>19. CASE PowerOn
  <2>1. ops' \in 0 .. MaxOps
    BY <1>19, DriverAssumption DEF PowerOn, TypeOK
  <2>2. /\ powered' \in BOOLEAN /\ ready' \in BOOLEAN /\ ce' \in BOOLEAN
        /\ cut' \in BOOLEAN
    BY <1>19 DEF PowerOn, ApplyConfig, TypeOK
  <2>3. txDs' \in BOOLEAN /\ maxRt' \in BOOLEAN /\ rxDr' \in BOOLEAN
    BY <1>19 DEF PowerOn, ApplyConfig
  <2>4. QED
    BY <1>19, <2>1, <2>2, <2>3, ValueTypes DEF PowerOn, ApplyConfig, TypeOK
<1>20. CASE PowerOff
  <2>1. ops' \in 0 .. MaxOps
    BY <1>20, DriverAssumption DEF PowerOff, TypeOK
  <2>2. /\ powered' \in BOOLEAN /\ ready' \in BOOLEAN /\ ce' \in BOOLEAN
        /\ cut' \in BOOLEAN
    BY <1>20 DEF PowerOff
  <2>3. txDs' \in BOOLEAN /\ maxRt' \in BOOLEAN /\ rxDr' \in BOOLEAN
    BY <1>20 DEF PowerOff, ApplyConfig
  <2>4. QED
    BY <1>20, <2>1, <2>2, <2>3, ValueTypes DEF PowerOff, ApplyConfig, TypeOK
<1>21. CASE Configure
  <2>1. ops' \in 0 .. MaxOps
    BY <1>21, DriverAssumption DEF Configure, TypeOK
  <2>2. CASE powered
    <3>1. txDs' \in BOOLEAN /\ maxRt' \in BOOLEAN /\ rxDr' \in BOOLEAN
      BY <1>21, <2>2 DEF Configure, ApplyConfig
    <3>2. QED
      BY <1>21, <2>1, <2>2, <3>1, ValueTypes DEF Configure, ApplyConfig, TypeOK
  <2>3. CASE ~powered
    BY <1>21, <2>1, <2>3 DEF Configure, TypeOK
  <2>4. QED
    BY <2>2, <2>3
<1>22. CASE StartRx
  BY <1>22, ValueTypes DEF TypeOK, StartRx, SetMode
<1>23. CASE AddRxMsgq
  <2>1. ops' \in 0 .. MaxOps
    BY <1>23, DriverAssumption DEF AddRxMsgq, Register, TypeOK
  <2>2. rxMsgq' \in BOOLEAN /\ rxCb' \in BOOLEAN
    BY <1>23 DEF AddRxMsgq, Register
  <2>3. QED
    BY <1>23, <2>1, <2>2 DEF AddRxMsgq, Register, TypeOK
<1>24. CASE AddRxCallback
  <2>1. ops' \in 0 .. MaxOps
    BY <1>24, DriverAssumption DEF AddRxCallback, Register, TypeOK
  <2>2. rxMsgq' \in BOOLEAN /\ rxCb' \in BOOLEAN
    BY <1>24 DEF AddRxCallback, Register
  <2>3. QED
    BY <1>24, <2>1, <2>2 DEF AddRxCallback, Register, TypeOK
<1>25. CASE AppGet
  BY <1>25, TakeType DEF TypeOK, AppGet
<1>26. CASE Recv
  BY <1>26, TakeType DEF TypeOK, Recv
<1>27. CASE UNCHANGED vars
  BY <1>27 DEF vars, TypeOK
<1>28. QED
  BY <1>1, <1>2, <1>3, <1>4, <1>5, <1>6, <1>7, <1>8, <1>9, <1>10, <1>11,
     <1>12, <1>13, <1>14, <1>15, <1>16, <1>17, <1>18, <1>19, <1>20, <1>21,
     <1>22, <1>23, <1>24, <1>25, <1>26, <1>27
     DEF Next, Radio, IrqThread, Send, Client

(* ... and who holds the lock.                                             *)
LEMMA IrqStep ==
  ASSUME TypeOK, IrqOwnsLock, [Next]_vars
  PROVE  IrqOwnsLock'
<1> USE DEF chipVars, irqVars, sndVars, rxqVars, budget, airVars
<1>1. CASE RadioReceive
  BY <1>1 DEF IrqOwnsLock, TypeOK, RadioReceive, Edge
<1>2. CASE RadioAcked
  BY <1>2 DEF IrqOwnsLock, TypeOK, RadioAcked, Transmitting, Edge
<1>3. CASE RadioGivesUp
  BY <1>3 DEF IrqOwnsLock, TypeOK, RadioGivesUp, Transmitting, Edge
<1>4. CASE IrqTop
  BY <1>4 DEF IrqOwnsLock, TypeOK, IrqTop
<1>5. CASE IrqPark
  BY <1>5 DEF IrqOwnsLock, TypeOK, IrqPark
<1>6. CASE IrqPoll
  BY <1>6 DEF IrqOwnsLock, TypeOK, IrqPoll
<1>7. CASE IrqLock
  BY <1>7 DEF IrqOwnsLock, TypeOK, IrqLock
<1>8. CASE IrqFetch
  BY <1>8 DEF IrqOwnsLock, TypeOK, IrqFetch
<1>9. CASE IrqFlush
  BY <1>9 DEF IrqOwnsLock, TypeOK, IrqFlush
<1>10. CASE IrqClear
  BY <1>10 DEF IrqOwnsLock, TypeOK, IrqClear
<1>11. CASE IrqDeliver
  BY <1>11 DEF IrqOwnsLock, TypeOK, IrqDeliver
<1>12. CASE IrqReread
  BY <1>12 DEF IrqOwnsLock, TypeOK, IrqReread
<1>13. CASE IrqFinal
  BY <1>13 DEF IrqOwnsLock, TypeOK, IrqFinal
<1>14. ASSUME NEW s \in Senders, SendBegin(s)
      PROVE  IrqOwnsLock'
  BY <1>14 DEF IrqOwnsLock, TypeOK, SendBegin
<1>15. ASSUME NEW s \in Senders, SendStart(s)
      PROVE  IrqOwnsLock'
  BY <1>15 DEF IrqOwnsLock, TypeOK, SendStart
<1>16. ASSUME NEW s \in Senders, SendWake(s)
      PROVE  IrqOwnsLock'
  BY <1>16 DEF IrqOwnsLock, TypeOK, SendWake
<1>17. ASSUME NEW s \in Senders, SendTimeout(s)
      PROVE  IrqOwnsLock'
  BY <1>17 DEF IrqOwnsLock, TypeOK, SendTimeout
<1>18. ASSUME NEW s \in Senders, SendFinish(s)
      PROVE  IrqOwnsLock'
  BY <1>18 DEF IrqOwnsLock, TypeOK, SendFinish, Result, SetMode
<1>19. CASE PowerOn
  BY <1>19 DEF IrqOwnsLock, TypeOK, PowerOn, ApplyConfig
<1>20. CASE PowerOff
  BY <1>20 DEF IrqOwnsLock, TypeOK, PowerOff, ApplyConfig
<1>21. CASE Configure
  BY <1>21 DEF IrqOwnsLock, TypeOK, Configure, ApplyConfig
<1>22. CASE StartRx
  BY <1>22 DEF IrqOwnsLock, TypeOK, StartRx, SetMode
<1>23. CASE AddRxMsgq
  BY <1>23 DEF IrqOwnsLock, TypeOK, AddRxMsgq, Register
<1>24. CASE AddRxCallback
  BY <1>24 DEF IrqOwnsLock, TypeOK, AddRxCallback, Register
<1>25. CASE AppGet
  BY <1>25 DEF IrqOwnsLock, TypeOK, AppGet
<1>26. CASE Recv
  BY <1>26 DEF IrqOwnsLock, TypeOK, Recv
<1>27. CASE UNCHANGED vars
  BY <1>27 DEF vars, IrqOwnsLock, TypeOK
<1>28. QED
  BY <1>1, <1>2, <1>3, <1>4, <1>5, <1>6, <1>7, <1>8, <1>9, <1>10, <1>11,
     <1>12, <1>13, <1>14, <1>15, <1>16, <1>17, <1>18, <1>19, <1>20, <1>21,
     <1>22, <1>23, <1>24, <1>25, <1>26, <1>27
     DEF Next, Radio, IrqThread, Send, Client

(* ... and the agreement of the driver with the chip about the role.       *)
LEMMA ModeStep ==
  ASSUME TypeOK, ModeInv, [Next]_vars
  PROVE  ModeInv'
<1> USE DEF chipVars, irqVars, sndVars, rxqVars, budget, airVars
<1>1. CASE RadioReceive
  BY <1>1 DEF ModeInv, InFlight, TypeOK, RadioReceive, Edge
<1>2. CASE RadioAcked
  BY <1>2 DEF ModeInv, InFlight, TypeOK, RadioAcked, Transmitting, Edge
<1>3. CASE RadioGivesUp
  BY <1>3 DEF ModeInv, InFlight, TypeOK, RadioGivesUp, Transmitting, Edge
<1>4. CASE IrqTop
  BY <1>4 DEF ModeInv, InFlight, TypeOK, IrqTop
<1>5. CASE IrqPark
  BY <1>5 DEF ModeInv, InFlight, TypeOK, IrqPark
<1>6. CASE IrqPoll
  BY <1>6 DEF ModeInv, InFlight, TypeOK, IrqPoll
<1>7. CASE IrqLock
  BY <1>7 DEF ModeInv, InFlight, TypeOK, IrqLock
<1>8. CASE IrqFetch
  BY <1>8 DEF ModeInv, InFlight, TypeOK, IrqFetch
<1>9. CASE IrqFlush
  BY <1>9 DEF ModeInv, InFlight, TypeOK, IrqFlush
<1>10. CASE IrqClear
  BY <1>10 DEF ModeInv, InFlight, TypeOK, IrqClear
<1>11. CASE IrqDeliver
  BY <1>11 DEF ModeInv, InFlight, TypeOK, IrqDeliver
<1>12. CASE IrqReread
  BY <1>12 DEF ModeInv, InFlight, TypeOK, IrqReread
<1>13. CASE IrqFinal
  BY <1>13 DEF ModeInv, InFlight, TypeOK, IrqFinal
<1>14. ASSUME NEW s \in Senders, SendBegin(s)
      PROVE  ModeInv'
  BY <1>14 DEF ModeInv, InFlight, TypeOK, SendBegin
<1>15. ASSUME NEW s \in Senders, SendStart(s)
      PROVE  ModeInv'
  BY <1>15 DEF ModeInv, InFlight, TypeOK, SendStart
<1>16. ASSUME NEW s \in Senders, SendWake(s)
      PROVE  ModeInv'
  BY <1>16 DEF ModeInv, InFlight, TypeOK, SendWake
<1>17. ASSUME NEW s \in Senders, SendTimeout(s)
      PROVE  ModeInv'
  BY <1>17 DEF ModeInv, InFlight, TypeOK, SendTimeout
<1>18. ASSUME NEW s \in Senders, SendFinish(s)
      PROVE  ModeInv'
  BY <1>18 DEF ModeInv, InFlight, TypeOK, SendFinish, Result, SetMode
<1>19. CASE PowerOn
  BY <1>19 DEF ModeInv, InFlight, TypeOK, PowerOn, ApplyConfig
<1>20. CASE PowerOff
  BY <1>20 DEF ModeInv, InFlight, TypeOK, PowerOff, ApplyConfig
<1>21. CASE Configure
  BY <1>21 DEF ModeInv, InFlight, TypeOK, Configure, ApplyConfig
<1>22. CASE StartRx
  BY <1>22 DEF ModeInv, InFlight, TypeOK, StartRx, SetMode
<1>23. CASE AddRxMsgq
  BY <1>23 DEF ModeInv, InFlight, TypeOK, AddRxMsgq, Register
<1>24. CASE AddRxCallback
  BY <1>24 DEF ModeInv, InFlight, TypeOK, AddRxCallback, Register
<1>25. CASE AppGet
  BY <1>25 DEF ModeInv, InFlight, TypeOK, AppGet
<1>26. CASE Recv
  BY <1>26 DEF ModeInv, InFlight, TypeOK, Recv
<1>27. CASE UNCHANGED vars
  BY <1>27 DEF vars, ModeInv, InFlight, TypeOK
<1>28. QED
  BY <1>1, <1>2, <1>3, <1>4, <1>5, <1>6, <1>7, <1>8, <1>9, <1>10, <1>11,
     <1>12, <1>13, <1>14, <1>15, <1>16, <1>17, <1>18, <1>19, <1>20, <1>21,
     <1>22, <1>23, <1>24, <1>25, <1>26, <1>27
     DEF Next, Radio, IrqThread, Send, Client

(* ... and what a call may take for its own answer.                        *)
LEMMA SendStep ==
  ASSUME TypeOK, IrqOwnsLock, ModeInv, SendInv, [Next]_vars
  PROVE  SendInv'
<1> USE DEF chipVars, irqVars, sndVars, rxqVars, budget, airVars
<1>1. CASE RadioReceive
  BY <1>1 DEF SendInv, PowerLost, OneSender, OwnTransmission, InFlight, Truth, TypeOK, RadioReceive, Edge
<1>2. CASE RadioAcked
  BY <1>2 DEF SendInv, PowerLost, OneSender, OwnTransmission, InFlight, Truth, TypeOK, RadioAcked, Transmitting, Edge
<1>3. CASE RadioGivesUp
  BY <1>3 DEF SendInv, PowerLost, OneSender, OwnTransmission, InFlight, Truth, TypeOK, RadioGivesUp, Transmitting, Edge
<1>4. CASE IrqTop
  BY <1>4 DEF SendInv, PowerLost, OneSender, OwnTransmission, InFlight, Truth, TypeOK, IrqTop
<1>5. CASE IrqPark
  BY <1>5 DEF SendInv, PowerLost, OneSender, OwnTransmission, InFlight, Truth, TypeOK, IrqPark
<1>6. CASE IrqPoll
  BY <1>6 DEF SendInv, PowerLost, OneSender, OwnTransmission, InFlight, Truth, TypeOK, IrqPoll
<1>7. CASE IrqLock
  BY <1>7, DriverAssumption DEF SendInv, PowerLost, OneSender, OwnTransmission, InFlight, Truth, TypeOK, IrqLock, Readings, TxComplete, IrqOwnsLock
<1>8. CASE IrqFetch
  BY <1>8 DEF SendInv, PowerLost, OneSender, OwnTransmission, InFlight, Truth, TypeOK, IrqFetch
<1>9. CASE IrqFlush
  BY <1>9 DEF SendInv, PowerLost, OneSender, OwnTransmission, InFlight, Truth, TypeOK, IrqFlush
<1>10. CASE IrqClear
  BY <1>10 DEF SendInv, PowerLost, OneSender, OwnTransmission, InFlight, Truth, TypeOK, IrqClear, IrqOwnsLock
<1>11. CASE IrqDeliver
  BY <1>11 DEF SendInv, PowerLost, OneSender, OwnTransmission, InFlight, Truth, TypeOK, IrqDeliver
<1>12. CASE IrqReread
  BY <1>12, DriverAssumption DEF SendInv, PowerLost, OneSender, OwnTransmission, InFlight, Truth, TypeOK, IrqReread, Readings, IrqOwnsLock
<1>13. CASE IrqFinal
  BY <1>13 DEF SendInv, PowerLost, OneSender, OwnTransmission, InFlight, Truth, TypeOK, IrqFinal, TxComplete, NoStatus, IrqOwnsLock
<1>14. ASSUME NEW s \in Senders, SendBegin(s)
      PROVE  SendInv'
  BY <1>14 DEF SendInv, PowerLost, OneSender, OwnTransmission, InFlight, Truth, TypeOK, SendBegin
<1>15. ASSUME NEW s \in Senders, SendStart(s)
      PROVE  SendInv'
  BY <1>15 DEF SendInv, PowerLost, OneSender, OwnTransmission, InFlight, Truth, TypeOK, SendStart
<1>16. ASSUME NEW s \in Senders, SendWake(s)
      PROVE  SendInv'
  BY <1>16 DEF SendInv, PowerLost, OneSender, OwnTransmission, InFlight, Truth, TypeOK, SendWake
<1>17. ASSUME NEW s \in Senders, SendTimeout(s)
      PROVE  SendInv'
  BY <1>17 DEF SendInv, PowerLost, OneSender, OwnTransmission, InFlight, Truth, TypeOK, SendTimeout
<1>18. ASSUME NEW s \in Senders, SendFinish(s)
      PROVE  SendInv'
  BY <1>18 DEF SendInv, PowerLost, OneSender, OwnTransmission, InFlight, Truth, TypeOK, SendFinish, Result, SetMode
<1>19. CASE PowerOn
  BY <1>19 DEF SendInv, PowerLost, OneSender, OwnTransmission, InFlight, Truth, TypeOK, PowerOn, ApplyConfig
<1>20. CASE PowerOff
  BY <1>20 DEF SendInv, PowerLost, OneSender, OwnTransmission, InFlight, Truth, TypeOK, PowerOff, ApplyConfig
<1>21. CASE Configure
  BY <1>21 DEF SendInv, PowerLost, OneSender, OwnTransmission, InFlight, Truth, TypeOK, Configure, ApplyConfig
<1>22. CASE StartRx
  BY <1>22 DEF SendInv, PowerLost, OneSender, OwnTransmission, InFlight, Truth, TypeOK, StartRx, SetMode
<1>23. CASE AddRxMsgq
  BY <1>23 DEF SendInv, PowerLost, OneSender, OwnTransmission, InFlight, Truth, TypeOK, AddRxMsgq, Register
<1>24. CASE AddRxCallback
  BY <1>24 DEF SendInv, PowerLost, OneSender, OwnTransmission, InFlight, Truth, TypeOK, AddRxCallback, Register
<1>25. CASE AppGet
  BY <1>25 DEF SendInv, PowerLost, OneSender, OwnTransmission, InFlight, Truth, TypeOK, AppGet
<1>26. CASE Recv
  BY <1>26 DEF SendInv, PowerLost, OneSender, OwnTransmission, InFlight, Truth, TypeOK, Recv
<1>27. CASE UNCHANGED vars
  BY <1>27 DEF vars, SendInv, PowerLost, OneSender, OwnTransmission, InFlight, Truth, TypeOK
<1>28. QED
  BY <1>1, <1>2, <1>3, <1>4, <1>5, <1>6, <1>7, <1>8, <1>9, <1>10, <1>11,
     <1>12, <1>13, <1>14, <1>15, <1>16, <1>17, <1>18, <1>19, <1>20, <1>21,
     <1>22, <1>23, <1>24, <1>25, <1>26, <1>27
     DEF Next, Radio, IrqThread, Send, Client

-----------------------------------------------------------------------------
(* The inductive invariant DriverInv.                                      *)

(* The state nrf24_init leaves behind satisfies it.                        *)
LEMMA InitInv == Init => DriverInv
<1> SUFFICES ASSUME Init PROVE DriverInv
  OBVIOUS
<1> USE DriverAssumption DEF Init
<1>1. NoStatus \in StatusWord /\ <<>> \in Seq(Frames)
  BY EmptySeq DEF NoStatus, StatusWord
<1>2. TypeOK
  <2>1. 0 \in 0 .. MaxSends /\ 0 \in 0 .. MaxFrames /\ 0 \in 0 .. MaxOps
    OBVIOUS
  <2>2. /\ sndPc \in [Senders -> {"idle", "start", "wait", "finish"}]
        /\ cur \in [Senders -> Payloads \cup {NoFrame}]
        /\ got \in [Senders -> BOOLEAN]
        /\ outcome \in [Senders -> {"none", "OK", "EIO", "EAGAIN"}]
    OBVIOUS
  <2>3. chipMode \in Modes /\ mode \in Modes
    BY DEF Modes
  <2>4. QED
    BY <1>1, <2>1, <2>2, <2>3 DEF TypeOK
<1>3. IrqOwnsLock
  BY DEF IrqOwnsLock
<1>4. ModeInv
  BY DEF ModeInv
<1>5. SendInv
  BY DEF SendInv, PowerLost, OneSender, OwnTransmission, InFlight
<1>6. QED
  BY <1>2, <1>3, <1>4, <1>5 DEF DriverInv

(* It holds in every reachable state, whatever the radio, the interrupt    *)
(* thread, the senders and the threads that power, configure and register  *)
(* do in between.                                                          *)
THEOREM DriverInvariant == Spec => []DriverInv
<1>1. DriverInv /\ [Next]_vars => DriverInv'
  BY TypeStep, IrqStep, ModeStep, SendStep DEF DriverInv
<1>2. QED
  BY InitInv, <1>1, PTL DEF Spec

(* Every variable keeps its type; in particular the driver never delivers  *)
(* a frame it did not read.                                                *)
THEOREM TypeCorrect == Spec => []TypeOK
<1>1. DriverInv => TypeOK
  BY DEF DriverInv
<1>2. QED
  BY DriverInvariant, <1>1, PTL

-----------------------------------------------------------------------------
(* What callers rely on.                                                   *)

(* The result of an nrf24_send call is remembered truthfully.              *)
LEMMA ResultStep ==
  ASSUME DriverInv, TxResultIsOwn, [Next]_vars
  PROVE  TxResultIsOwn'
<1> USE DEF chipVars, irqVars, sndVars, rxqVars, budget, airVars, DriverInv, TypeOK, TxResultIsOwn
<1>1. ASSUME NEW s \in Senders, SendBegin(s)
      PROVE  TxResultIsOwn'
  BY <1>1 DEF SendBegin
<1>2. ASSUME NEW s \in Senders, SendFinish(s)
      PROVE  TxResultIsOwn'
  <2>1. got[s] => Truth(cur[s], lastMaxRt)
    BY <1>2 DEF SendFinish, SendInv, OwnTransmission, InFlight
  <2>2. QED
    BY <1>2, <2>1 DEF SendFinish, Result, Truth
<1>3. ASSUME UNCHANGED <<cur, outcome>>, acked \subseteq acked', gaveUp \subseteq gaveUp',
             cut => cut'
      PROVE  TxResultIsOwn'
  BY <1>3
<1>4. CASE Radio
  BY <1>3, <1>4 DEF Radio, RadioReceive, RadioAcked, RadioGivesUp
<1>5. CASE IrqThread
  BY <1>3, <1>5 DEF IrqThread, IrqTop, IrqPark, IrqPoll, IrqLock, IrqFetch, IrqFlush,
     IrqClear, IrqDeliver, IrqReread, IrqFinal
<1>6. CASE Client
  BY <1>3, <1>6 DEF Client, PowerOn, PowerOff, Configure, StartRx, AddRxMsgq,
     AddRxCallback, Register, AppGet, Recv
<1>7. ASSUME NEW s \in Senders, SendStart(s) \/ SendWake(s) \/ SendTimeout(s)
      PROVE  TxResultIsOwn'
  BY <1>3, <1>7 DEF SendStart, SendWake, SendTimeout
<1>8. CASE UNCHANGED vars
  BY <1>3, <1>8 DEF vars
<1>9. QED
  BY <1>1, <1>2, <1>4, <1>5, <1>6, <1>7, <1>8 DEF Next, Send

(* nrf24_send never reports the fate of another call's frame.              *)
THEOREM ResultIsOwn == Spec => []TxResultIsOwn
<1>1. Init => TxResultIsOwn
  BY DEF Init, TxResultIsOwn
<1>2. QED
  BY <1>1, DriverInvariant, ResultStep, PTL DEF Spec

(* Whenever the radio is up and no transmission is in progress, the chip   *)
(* is in receive mode with CE high.                                        *)
THEOREM Listens == Spec => []RadioListens
<1>1. DriverInv => RadioListens
  BY DEF DriverInv, ModeInv, RadioListens, InFlight, TypeOK
<1>2. QED
  BY DriverInvariant, <1>1, PTL

(* The chip never puts a frame on the air whose nrf24_send has returned.   *)
THEOREM OnlyOwnFrame == Spec => OnlyOwnFrameOnAir
<1>1. ASSUME DriverInv, [Next]_vars
      PROVE  [\A p \in acked' \ acked : \E s \in Senders :
                 cur[s] = p /\ sndPc[s] \in {"wait", "finish"}]_vars
  <2>1. acked' # acked => RadioAcked
    BY <1>1 DEF chipVars, irqVars, sndVars, rxqVars, budget, airVars, vars, Next, Radio,
       RadioReceive, RadioGivesUp, IrqThread, IrqTop, IrqPark, IrqPoll, IrqLock, IrqFetch,
       IrqFlush, IrqClear, IrqDeliver, IrqReread, IrqFinal, Send, SendBegin, SendStart,
       SendWake, SendTimeout, SendFinish, Client, PowerOn, PowerOff, Configure, StartRx,
       AddRxMsgq, AddRxCallback, Register, AppGet, Recv
  <2>2. CASE acked' = acked
    BY <2>2
  <2>3. CASE RadioAcked
    <3>1. PICK s \in Senders : InFlight(s)
      BY <1>1, <2>3 DEF RadioAcked, Transmitting, DriverInv, ModeInv
    <3>2. acked' \ acked \subseteq {cur[s]}
      BY <1>1, <2>3, <3>1 DEF RadioAcked, Transmitting, DriverInv, SendInv,
         OwnTransmission, airVars
    <3>3. QED
      BY <3>1, <3>2 DEF InFlight
  <2>4. QED
    BY <2>1, <2>2, <2>3
<1>2. QED
  BY DriverInvariant, <1>1, PTL DEF Spec, OnlyOwnFrameOnAir
=============================================================================
