------------------------ MODULE FirmwareUpgrade_proofs ------------------------
(***************************************************************************)
(* What the two upgrade servers keep to, for images, slots and blocks of   *)
(* any size and any number of failures, lost frames and runs of the host.  *)
(*                                                                         *)
(* The invariant: the counts follow the flash contexts (Sessions); with    *)
(* the UDP server alone a request stands only over a slot that was read    *)
(* back, and no session is open that could write to it (UdpImage); with    *)
(* the CAN server alone every cell below the context's mark is programmed, *)
(* and no session is open under a request (CanImage).                      *)
(***************************************************************************)
EXTENDS FirmwareUpgrade, SequenceTheorems, TLAPS

LEMMA Constants ==
  /\ ImageLen \in Nat /\ ImageLen > 0 /\ SlotSize \in Nat /\ SlotSize > 0
  /\ Block \in Nat /\ Block > 0 /\ ImageLen <= SlotSize
  /\ MaxFails \in Nat /\ MaxRuns \in Nat /\ MaxLost \in Nat
  BY UpgradeAssumption

USE Constants

-----------------------------------------------------------------------------
(* The context of flash_img: its type, and what each operation makes of it.*)
Context(c) ==
  /\ c \in [written : Nat, buf : Seq(Frames)]
  /\ Len(c.buf) <= Block /\ Held(c) <= SlotSize

LEMMA ContextType == ASSUME NEW c, Context(c) PROVE c \in Contexts
<1>1. c.buf \in [1 .. Len(c.buf) -> Frames] /\ Len(c.buf) \in 0 .. Block
  BY LenProperties DEF Context
<1>2. c.written \in 0 .. SlotSize
  BY <1>1 DEF Context, Held
<1> QED
  BY <1>1, <1>2 DEF Context, Contexts

LEMMA FreshContext == Context(Fresh)
  BY DEF Fresh, Context, Held

LEMMA PushContext ==
  ASSUME NEW c, Context(c), NEW f \in Frames, FitsOne(c), ~Full(c)
  PROVE  /\ Context(Pushed(c, f)) /\ Held(Pushed(c, f)) = Held(c) + 1
         /\ Pushed(c, f).written = c.written
<1>1. /\ Pushed(c, f) \in [written : Nat, buf : Seq(Frames)]
      /\ Pushed(c, f).written = c.written /\ Pushed(c, f).buf = Append(c.buf, f)
  <2> DEFINE b == Append(c.buf, f)
  <2>1. b \in Seq(Frames)
    BY DEF Context
  <2>2. Pushed(c, f) = [c EXCEPT !.buf = b]
    BY DEF Pushed
  <2> HIDE DEF b
  <2>3. c \in [written : Nat, buf : Seq(Frames)]
    BY DEF Context
  <2>4. /\ [c EXCEPT !.buf = b] \in [written : Nat, buf : Seq(Frames)]
        /\ [c EXCEPT !.buf = b].written = c.written /\ [c EXCEPT !.buf = b].buf = b
    BY <2>1, <2>3
  <2> QED
    BY <2>2, <2>4 DEF b
<1>2. Len(Append(c.buf, f)) = Len(c.buf) + 1
  BY DEF Context
<1> QED
  BY <1>1, <1>2 DEF Context, FitsOne, Full, Held

LEMMA EmptyContext ==
  ASSUME NEW c, Context(c)
  PROVE  Context(Emptied(c, <<>>)) /\ Held(Emptied(c, <<>>)) = Held(c)
  BY DEF Context, Emptied, Held

LEMMA RestContext ==
  ASSUME NEW c, Context(c), NEW f \in Frames, FitsOne(c)
  PROVE  Context(Emptied(c, <<f>>)) /\ Held(Emptied(c, <<f>>)) = Held(c) + 1
  BY DEF Context, Emptied, Held, FitsOne

LEMMA FlushedType ==
  ASSUME NEW c, Context(c), slot \in [Cells -> Content]
  PROVE  Flushed(c) \in [Cells -> Content]
<1> SUFFICES ASSUME NEW i \in Cells
             PROVE  Flushed(c)[i] \in Content
  BY DEF Flushed
<1>1. Frames \subseteq Content /\ Garbage \in Content
  BY DEF Frames, Content, Garbage
<1>2. CASE i \in c.written + 1 .. c.written + Len(c.buf)
  <2>1. c.buf[i - c.written] \in Frames
    BY <1>2 DEF Context, Cells
  <2> QED
    BY <1>1, <1>2, <2>1 DEF Flushed, Burn
<1>3. CASE i \notin c.written + 1 .. c.written + Len(c.buf)
  BY <1>3 DEF Flushed
<1> QED
  BY <1>2, <1>3

LEMMA BuffersOne ==
  ASSUME NEW c, Context(c), NEW f \in Frames, NEW c1, Buffers(c, f, c1),
         slot \in [Cells -> Content]
  PROVE  Context(c1) /\ Held(c1) = Held(c) + 1 /\ slot' \in [Cells -> Content]
<1>1. CASE Full(c)
  BY <1>1, RestContext, FlushedType DEF Buffers
<1>2. CASE ~Full(c)
  <2>1. Context(Pushed(c, f)) /\ Held(Pushed(c, f)) = Held(c) + 1
    BY <1>2, PushContext DEF Buffers
  <2> QED
    BY <1>2, <2>1, EmptyContext, FlushedType DEF Buffers
<1> QED
  BY <1>1, <1>2

LEMMA WriteFailsKeeps ==
  ASSUME NEW c, Context(c), NEW f \in Frames, NEW c1, WriteFails(c, f, c1)
  PROVE  Context(c1) /\ Held(c1) >= Held(c)
<1>1. c1 = c \/ (FitsOne(c) /\ ~Full(c) /\ c1 = Pushed(c, f))
  BY DEF WriteFails
<1>2. Held(c) \in Nat
  BY DEF Context, Held
<1> QED
  BY <1>1, <1>2, PushContext

LEMMA FlushKeeps ==
  ASSUME NEW c, Context(c), NEW c1, Flush(c, c1), slot \in [Cells -> Content]
  PROVE  Context(c1) /\ Held(c1) = Held(c) /\ slot' \in [Cells -> Content]
  BY EmptyContext, FlushedType DEF Flush, FlushTo

(* What is flushed leaves no cell blank below the mark of the context.     *)
LEMMA FlushedMarks ==
  ASSUME NEW c, Context(c), slot \in [Cells -> Content],
         \A i \in Cells : i <= c.written => slot[i] # Blank
  PROVE  \A i \in Cells : i <= Held(c) => Flushed(c)[i] # Blank
<1> SUFFICES ASSUME NEW i \in Cells, i <= Held(c)
             PROVE  Flushed(c)[i] # Blank
  OBVIOUS
<1>1. CASE i \in c.written + 1 .. c.written + Len(c.buf)
  <2>1. c.buf[i - c.written] \in Frames
    BY <1>1 DEF Context, Cells
  <2> QED
    BY <1>1, <2>1 DEF Flushed, Burn, Frames, Blank, Garbage
<1>2. CASE i \notin c.written + 1 .. c.written + Len(c.buf)
  BY <1>2 DEF Flushed, Context, Held, Cells
<1> QED
  BY <1>1, <1>2

LEMMA BuffersMarks ==
  ASSUME NEW c, Context(c), NEW f \in Frames, NEW c1, Buffers(c, f, c1),
         slot \in [Cells -> Content],
         \A i \in Cells : i <= c.written => slot[i] # Blank
  PROVE  \A i \in Cells : i <= c1.written => slot'[i] # Blank
<1>1. CASE Full(c)
  <2>1. slot' = Flushed(c) /\ c1.written = Held(c)
    BY <1>1 DEF Buffers, Emptied, Held
  <2> QED
    BY <2>1, FlushedMarks
<1>2. CASE ~Full(c)
  <2> DEFINE p == Pushed(c, f)
  <2>1. Context(p) /\ p.written = c.written
    BY <1>2, PushContext DEF Buffers
  <2>2. CASE Full(p)
    <3>1. slot' = Flushed(p) /\ c1.written = Held(p)
      BY <1>2, <2>2 DEF Buffers, Emptied, Held
    <3> QED
      BY <2>1, <3>1, FlushedMarks
  <2>3. CASE ~Full(p)
    BY <1>2, <2>1, <2>3 DEF Buffers
  <2> QED
    BY <2>2, <2>3
<1> QED
  BY <1>1, <1>2

-----------------------------------------------------------------------------
(* TypeOK in parts, the Booleans apart.                                    *)
FlashType ==
  /\ slot \in [Cells -> Content] /\ pending \in {"none", "test", "permanent"}
  /\ fails \in 0 .. MaxFails

UdpType ==
  /\ uReceived \in 0 .. SlotSize /\ uPc \in {"idle", "test", "permanent"}
  /\ Context(uCtx)

CanType ==
  /\ cWritten \in 0 .. SlotSize /\ cTotal \in {0, ImageLen}
  /\ cKeys \in [1 .. KeyFrames -> Keys]
  /\ Context(cCtx)

HostType ==
  /\ hPc \in {"idle", "starting", "sending", "waiting", "confirm", "confirming"}
  /\ hSent \in 0 .. ImageLen /\ runs \in 0 .. MaxRuns /\ lost \in 0 .. MaxLost
  /\ reply \in Seq([code : Codes, offset : 0 .. SlotSize])

Flags == badErase \in BOOLEAN /\ uStarted \in BOOLEAN /\ cInit \in BOOLEAN

Typed == servers \in Builds /\ FlashType /\ UdpType /\ CanType /\ HostType /\ Flags

LEMMA TypedIsTypeOK == Typed => TypeOK
  BY ContextType DEF Typed, Flags, FlashType, UdpType, CanType, HostType, TypeOK

(* The counts, and which servers can be in a session.                      *)
Sessions ==
  /\ CountsAgree
  /\ cInit => cTotal = ImageLen
  /\ uPc # "idle" => uStarted /\ "udp" \in servers

(* slot1 holds the image.                                                  *)
Intact == \A i \in Frames : slot[i] = i

(* UDP server alone: a request, or a handler that is about to make one,    *)
(* stands over the image, and nothing writes to it before the next erase.  *)
UdpImage ==
  servers = {"udp"} /\ ~badErase =>
    /\ pending # "none" \/ uPc # "idle" => Intact
    /\ pending # "none" => uPc # "idle" \/ ~uStarted

(* CAN server alone, as long as no flash operation has failed.             *)
CanImage ==
  servers = {"can"} /\ fails = 0 =>
    /\ cInit => \A i \in Cells : i <= cCtx.written => slot[i] # Blank
    /\ pending # "none" => ~cInit /\ \A i \in Frames : slot[i] # Blank

UpgradeInv == Typed /\ Sessions /\ UdpImage /\ CanImage

LEMMA FreshHeld == Context(Fresh) /\ Held(Fresh) = 0 /\ Fresh.written = 0
  BY FreshContext DEF Fresh, Held

LEMMA InitHolds == Init => UpgradeInv
<1> SUFFICES ASSUME Init PROVE UpgradeInv
  OBVIOUS
<1>1. servers \in Builds /\ FlashType
  BY DEF Init, FlashType, Content, Garbage
<1>2. UdpType
  BY FreshHeld DEF Init, UdpType
<1>3. CanType
  BY FreshHeld DEF Init, CanType, NoKey, Keys
<1>4. HostType
  BY DEF Init, HostType
<1>7. Flags
  BY DEF Init, Flags
<1>5. Sessions
  BY FreshHeld DEF Init, Sessions, CountsAgree
<1>6. UdpImage /\ CanImage
  BY DEF Init, UdpImage, CanImage
<1> QED
  BY <1>1, <1>2, <1>3, <1>4, <1>5, <1>6, <1>7 DEF UpgradeInv, Typed

LEMMA EraseType ==
  ASSUME FlashType, badErase \in BOOLEAN, Erase \/ OpenFails
  PROVE  FlashType' /\ badErase' \in BOOLEAN
<1>1. Erased \in [Cells -> Content]
  BY DEF Erased, Content, Blank
<1>2. slot' \in [Cells -> Content] /\ pending' \in {"none", "test", "permanent"}
  BY <1>1 DEF FlashType, Erase, OpenFails, flashVars, failVars
<1>3. fails' \in 0 .. MaxFails
  BY DEF FlashType, Erase, OpenFails, flashVars, failVars
<1>4. badErase' \in BOOLEAN
  BY DEF Erase, OpenFails, flashVars, failVars
<1> QED
  BY <1>2, <1>3, <1>4 DEF FlashType

(* The failures count up, and an erase that succeeds leaves them alone.    *)
LEMMA EraseFails ==
  ASSUME FlashType, Erase \/ OpenFails
  PROVE  /\ fails' = 0 => fails = 0 /\ slot' = Erased /\ pending' = "none"
         /\ ~badErase' => ~badErase
         /\ slot' = slot \/ pending' = "none"
  BY DEF FlashType, Erase, OpenFails, flashVars, failVars

(* The steps of the UDP server.                                            *)
LEMMA UdpStartKeeps == ASSUME UpgradeInv, NEW key \in Keys, UdpStart(key) PROVE UpgradeInv'
<1>1. /\ servers' = servers /\ cVars' = cVars /\ hVars' = hVars /\ reply' = reply /\ lost' = lost
      /\ uPc' = uPc /\ uPc = "idle"
      /\ Erase \/ OpenFails
      /\ \/ uReceived' = 0 /\ uCtx' = Fresh
         \/ UNCHANGED <<uStarted, uReceived, uCtx>>
  BY DEF UdpStart, UdpRuns, UdpKeeps
<1>2. FlashType' /\ Flags'
  BY <1>1, EraseType DEF UpgradeInv, Typed, Flags, cVars, UdpStart
<1>3. UdpType'
  <2>1. CASE uReceived' = 0 /\ uCtx' = Fresh
    BY <1>1, <2>1, FreshHeld DEF UpgradeInv, Typed, UdpType
  <2>2. CASE UNCHANGED <<uStarted, uReceived, uCtx>>
    BY <1>1, <2>2 DEF UpgradeInv, Typed, UdpType
  <2> QED
    BY <1>1, <2>1, <2>2
<1>4. CanType' /\ HostType' /\ servers' \in Builds
  BY <1>1 DEF UpgradeInv, Typed, CanType, HostType, cVars, hVars
<1>5. Sessions'
  <2>1. fails' = 0 => fails = 0
    BY <1>1, EraseFails DEF UpgradeInv, Typed
  <2>2. uReceived' = 0 /\ uCtx' = Fresh => uReceived' = Held(uCtx')
    BY FreshHeld
  <2> QED
    BY <1>1, <2>1, <2>2 DEF UpgradeInv, Typed, Sessions, CountsAgree, cVars
<1>6. UdpImage'
  <2>1. UNCHANGED <<slot, pending, uStarted>> \/ pending' = "none" \/ badErase'
    BY DEF UdpStart, Erase, OpenFails, flashVars
  <2>2. ~badErase' => ~badErase
    BY <1>1, EraseFails DEF UpgradeInv, Typed
  <2> QED
    BY <1>1, <2>1, <2>2 DEF UpgradeInv, UdpImage, Intact
<1>7. CanImage'
  BY <1>1 DEF UpgradeInv, Typed, CanImage, cVars, UdpStart, UdpRuns
<1> QED
  BY <1>2, <1>3, <1>4, <1>5, <1>6, <1>7 DEF UpgradeInv, Typed

(* A frame that is refused, and what it leaves of the failures.            *)
LEMMA WriteFailsCounts ==
  ASSUME FlashType, NEW c, NEW f, NEW c1, WriteFails(c, f, c1), pending' = pending
  PROVE  FlashType' /\ UNCHANGED <<slot, badErase>> /\ (fails' = 0 => fails = 0 /\ c1 = c)
  BY DEF WriteFails, FlashType

LEMMA FlushCounts ==
  ASSUME FlashType, NEW c, NEW c1, Context(c), Flush(c, c1), pending' = pending
  PROVE  /\ FlashType' /\ UNCHANGED badErase
         /\ fails' = 0 => fails = 0 /\ FlushTo(c, c1)
  BY FlushedType DEF Flush, FlushTo, FlashType, failVars

LEMMA UdpDataKeeps == ASSUME UpgradeInv, NEW f \in Frames, UdpData(f) PROVE UpgradeInv'
<1>1. /\ servers' = servers /\ cVars' = cVars /\ hVars' = hVars /\ reply' = reply /\ lost' = lost
      /\ uPc' = uPc /\ uPc = "idle" /\ pending' = pending
  BY DEF UdpData, UdpRuns, UdpKeeps
<1>2. Context(uCtx) /\ slot \in [Cells -> Content] /\ FlashType
  BY DEF UpgradeInv, Typed, UdpType, FlashType
<1>3. /\ FlashType' /\ UNCHANGED badErase /\ Context(uCtx')
      /\ fails' = 0 => fails = 0
  <2>1. CASE Buffers(uCtx, f, uCtx') /\ UNCHANGED failVars
    <3>1. Context(uCtx') /\ slot' \in [Cells -> Content]
      BY <1>2, <2>1, BuffersOne
    <3> QED
      BY <1>1, <1>2, <2>1, <3>1 DEF FlashType, failVars
  <2>2. CASE WriteFails(uCtx, f, uCtx')
    <3>1. Context(uCtx')
      BY <1>2, <2>2, WriteFailsKeeps
    <3> QED
      BY <1>1, <1>2, <2>2, <3>1, WriteFailsCounts
  <2> QED
    BY <2>1, <2>2 DEF UdpData
<1>4. ASSUME UNCHANGED uStarted, Buffers(uCtx, f, uCtx'), uReceived' = uReceived + 1
      PROVE  UdpType' /\ Sessions'
  <2>1. uReceived = Held(uCtx) /\ Held(uCtx) < SlotSize /\ Held(uCtx') = Held(uCtx) + 1
    BY <1>2, <1>4, BuffersOne DEF UdpData, UpgradeInv, Sessions, CountsAgree, Buffers, FitsOne
  <2>2. UdpType'
    BY <1>1, <1>3, <1>4, <2>1 DEF UpgradeInv, Typed, UdpType
  <2>3. Sessions'
    BY <1>1, <1>3, <1>4, <2>1 DEF UpgradeInv, Typed, Sessions, CountsAgree, cVars
  <2> QED
    BY <2>2, <2>3
<1>5. ASSUME uStarted' = FALSE, UNCHANGED uReceived
      PROVE  UdpType' /\ Sessions'
  <2>1. UdpType'
    BY <1>1, <1>3, <1>5 DEF UpgradeInv, Typed, UdpType
  <2>2. Sessions'
    BY <1>1, <1>3, <1>5 DEF UpgradeInv, Typed, Sessions, CountsAgree, cVars
  <2> QED
    BY <2>1, <2>2
<1>6. UdpType' /\ Sessions'
  BY <1>4, <1>5 DEF UdpData
<1>7. CanType' /\ HostType' /\ servers' \in Builds
  BY <1>1 DEF UpgradeInv, Typed, CanType, HostType, cVars, hVars
<1>8. Flags'
  BY <1>1, <1>3 DEF UpgradeInv, Typed, Flags, cVars, UdpData
<1>9. UdpImage'
  BY <1>1, <1>3 DEF UdpData, UpgradeInv, UdpImage
<1>10. CanImage'
  BY <1>1 DEF UpgradeInv, Typed, CanImage, cVars, UdpData, UdpRuns
<1> QED
  BY <1>3, <1>6, <1>7, <1>8, <1>9, <1>10 DEF UpgradeInv, Typed

LEMMA UdpEndKeeps == ASSUME UpgradeInv, NEW test \in Requests, UdpEnd(test) PROVE UpgradeInv'
<1>1. /\ servers' = servers /\ cVars' = cVars /\ hVars' = hVars /\ reply' = reply /\ lost' = lost
      /\ uReceived' = uReceived /\ uPc = "idle" /\ pending' = pending
      /\ Flush(uCtx, uCtx')
  BY DEF UdpEnd, UdpRuns, UdpKeeps
<1>2. Context(uCtx) /\ slot \in [Cells -> Content] /\ FlashType
  BY DEF UpgradeInv, Typed, UdpType, FlashType
<1>3. Context(uCtx') /\ Held(uCtx') = Held(uCtx)
  BY <1>1, <1>2, FlushKeeps
<1>4. FlashType' /\ UNCHANGED badErase /\ (fails' = 0 => fails = 0)
  BY <1>1, <1>2, FlushCounts
<1>5. \/ Intact' /\ uPc' = test /\ uStarted' = uStarted
      \/ uStarted' = FALSE /\ uPc' = uPc
  BY DEF UdpEnd, Verified, Intact
<1>6. UdpType'
  BY <1>1, <1>3, <1>5 DEF UpgradeInv, Typed, UdpType, Requests
<1>7. CanType' /\ HostType' /\ servers' \in Builds
  BY <1>1 DEF UpgradeInv, Typed, CanType, HostType, cVars, hVars
<1>8. Flags'
  BY <1>1, <1>4, <1>5 DEF UpgradeInv, Typed, Flags, cVars
<1>9. Sessions'
  <2>1. uStarted /\ "udp" \in servers
    BY DEF UdpEnd, UdpRuns
  <2>2. uStarted' => uReceived' = Held(uCtx')
    BY <1>1, <1>3, <2>1 DEF UpgradeInv, Sessions, CountsAgree
  <2>3. uPc' # "idle" => uStarted' /\ "udp" \in servers'
    BY <1>1, <1>5, <2>1
  <2> QED
    BY <1>1, <1>4, <2>2, <2>3 DEF UpgradeInv, Sessions, CountsAgree, cVars
<1>10. UdpImage'
  BY <1>1, <1>4, <1>5 DEF UdpEnd, UpgradeInv, UdpImage, Requests
<1>11. CanImage'
  BY <1>1 DEF UpgradeInv, Typed, CanImage, UdpEnd, UdpRuns
<1> QED
  BY <1>4, <1>6, <1>7, <1>8, <1>9, <1>10, <1>11 DEF UpgradeInv, Typed

LEMMA UdpRequestKeeps == ASSUME UpgradeInv, UdpRequest PROVE UpgradeInv'
<1>1. /\ servers' = servers /\ cVars' = cVars /\ hVars' = hVars /\ reply' = reply /\ lost' = lost
      /\ uReceived' = uReceived /\ uCtx' = uCtx /\ uPc # "idle" /\ uPc' = "idle" /\ slot' = slot
      /\ "udp" \in servers
  BY DEF UdpRequest, UdpKeeps, UpgradeInv, Sessions
<1>2. /\ pending' = pending \/ pending' = uPc
      /\ badErase' = badErase
  BY DEF UdpRequest, RequestFails, failVars
<1>3. fails' \in 0 .. MaxFails /\ (fails' = 0 => fails = 0)
  BY DEF UdpRequest, RequestFails, failVars, UpgradeInv, Typed, FlashType
<1>4. FlashType'
  BY <1>1, <1>2, <1>3 DEF UpgradeInv, Typed, FlashType, UdpType
<1>5. UdpType'
  BY <1>1 DEF UpgradeInv, Typed, UdpType
<1>6. CanType' /\ HostType' /\ servers' \in Builds
  BY <1>1 DEF UpgradeInv, Typed, CanType, HostType, cVars, hVars
<1>7. Flags'
  BY <1>1, <1>2 DEF UpgradeInv, Typed, Flags, cVars, UdpRequest
<1>8. Sessions'
  BY <1>1, <1>3 DEF UpgradeInv, Typed, Sessions, CountsAgree, cVars, UdpRequest
<1>9. UdpImage'
  BY <1>1, <1>2 DEF UdpRequest, UpgradeInv, UdpImage, Intact
<1>10. CanImage'
  BY <1>1 DEF CanImage
<1> QED
  BY <1>4, <1>5, <1>6, <1>7, <1>8, <1>9, <1>10 DEF UpgradeInv, Typed

-----------------------------------------------------------------------------
(* The steps of the CAN server, all of them requests of its host.          *)
LEMMA ReplyType ==
  ASSUME HostType, NEW code \in Codes, NEW offset \in 0 .. SlotSize, Reply(code, offset)
  PROVE  /\ reply' \in Seq([code : Codes, offset : 0 .. SlotSize])
         /\ lost' \in 0 .. MaxLost
<1>1. [code |-> code, offset |-> offset] \in [code : Codes, offset : 0 .. SlotSize]
  OBVIOUS
<1>2. reply' \in Seq([code : Codes, offset : 0 .. SlotSize])
  <2> DEFINE R == [code : Codes, offset : 0 .. SlotSize]
             r == [code |-> code, offset |-> offset]
  <2>1. r \in R /\ reply \in Seq(R) /\ (reply' = Append(reply, r) \/ reply' = reply)
    BY <1>1 DEF HostType, Reply
  <2> HIDE DEF R, r
  <2>2. reply' \in Seq(R)
    BY <2>1
  <2> QED
    BY <2>2 DEF R
<1>3. lost' \in 0 .. MaxLost
  BY DEF HostType, Reply
<1> QED
  BY <1>2, <1>3

Answers ==
  /\ reply' \in Seq([code : Codes, offset : 0 .. SlotSize])
  /\ lost' \in 0 .. MaxLost

(* What a step of the CAN server must keep; the UDP server's session does  *)
(* not change, and on a board without it nothing else needs it.            *)
CanKeeps ==
  /\ FlashType' /\ CanType' /\ badErase' \in BOOLEAN /\ cInit' \in BOOLEAN
  /\ CountsAgree' /\ (cInit' => cTotal' = ImageLen)
  /\ CanImage'

LEMMA UnchangedAnswers == HostType /\ UNCHANGED <<reply, lost>> => Answers
  BY DEF HostType, Answers

LEMMA CanStartKeeps ==
  ASSUME UpgradeInv, CanStart, UNCHANGED <<servers, uVars>>
  PROVE  CanKeeps /\ Answers
<1>1. /\ FlashType /\ CanType /\ Flags /\ HostType /\ Sessions /\ CountsAgree /\ CanImage
      /\ Context(cCtx)
  BY DEF UpgradeInv, Typed, Sessions, CanType
<1>2. cKeys' \in [1 .. KeyFrames -> Keys]
  BY <1>1 DEF CanStart, CanType, NoKey, Keys
<1>3. Answers
  <2>1. 0 \in 0 .. SlotSize
    OBVIOUS
  <2> QED
    BY <1>1, <2>1, ReplyType DEF CanStart, Answers, Codes
<1>4. CASE UNCHANGED <<flashVars, failVars, cInit, cWritten, cCtx>> /\ cTotal' \in {cTotal, ImageLen}
  <2>1. FlashType' /\ CanType' /\ badErase' \in BOOLEAN /\ cInit' \in BOOLEAN
    BY <1>1, <1>2, <1>4 DEF FlashType, CanType, Flags, flashVars, failVars
  <2>2. CountsAgree' /\ (cInit' => cTotal' = ImageLen)
    BY <1>1, <1>4 DEF Sessions, CountsAgree, failVars, uVars
  <2>3. CanImage'
    BY <1>1, <1>4 DEF CanImage, flashVars, failVars
  <2> QED
    BY <1>3, <2>1, <2>2, <2>3 DEF CanKeeps
<1>5. CASE ~cInit /\ Erase /\ cInit' = TRUE /\ cWritten' = 0 /\ cCtx' = Fresh /\ cTotal' = ImageLen
  <2>1. FlashType' /\ badErase' \in BOOLEAN
    BY <1>1, <1>5, EraseType DEF Flags
  <2>2. CanType'
    BY <1>2, <1>5, FreshHeld DEF CanType
  <2>3. CountsAgree' /\ (cInit' => cTotal' = ImageLen)
    BY <1>1, <1>5, FreshHeld DEF CountsAgree, uVars
  <2>4. CanImage'
    <3>1. fails' = 0 => fails = 0 /\ pending' = "none"
      BY <1>1, <1>5, EraseFails
    <3>2. \A i \in Cells : ~ i <= cCtx'.written
      BY <1>5, FreshHeld DEF Cells
    <3> QED
      BY <3>1, <3>2 DEF CanImage
  <2> QED
    BY <1>3, <1>5, <2>1, <2>2, <2>3, <2>4 DEF CanKeeps
<1>6. CASE ~cInit /\ OpenFails /\ UNCHANGED <<cInit, cWritten, cTotal, cCtx>>
  <2>1. FlashType' /\ badErase' \in BOOLEAN
    BY <1>1, <1>6, EraseType DEF Flags
  <2>2. CanType'
    BY <1>1, <1>2, <1>6 DEF CanType
  <2>3. CountsAgree' /\ (cInit' => cTotal' = ImageLen)
    BY <1>1, <1>6 DEF CountsAgree, uVars, Sessions
  <2>4. CanImage'
    BY <1>1, <1>6, EraseFails DEF CanImage, OpenFails
  <2> QED
    BY <1>1, <1>3, <1>6, <2>1, <2>2, <2>3, <2>4 DEF CanKeeps, Flags
<1> QED
  BY <1>4, <1>5, <1>6 DEF CanStart

LEMMA CanDataKeeps ==
  ASSUME UpgradeInv, NEW f \in Frames, CanData(f), UNCHANGED <<servers, uVars>>
  PROVE  CanKeeps /\ Answers
<1>1. /\ FlashType /\ CanType /\ Flags /\ HostType /\ Sessions /\ CountsAgree /\ CanImage
      /\ Context(cCtx) /\ slot \in [Cells -> Content]
  BY DEF UpgradeInv, Typed, Sessions, CanType, FlashType
<1>2. UNCHANGED <<pending, cInit, cTotal, cKeys>> /\ 0 \in 0 .. SlotSize
  BY DEF CanData
<1>3. CASE ~cInit /\ Reply("TRANSFER_ERROR", 0) /\ UNCHANGED <<slot, failVars, cWritten, cCtx>>
  <2>1. Answers
    BY <1>1, <1>2, <1>3, ReplyType DEF Answers, Codes
  <2>2. FlashType' /\ CanType' /\ badErase' \in BOOLEAN /\ cInit' \in BOOLEAN
    BY <1>1, <1>2, <1>3 DEF FlashType, CanType, Flags, failVars
  <2>3. CountsAgree' /\ (cInit' => cTotal' = ImageLen)
    BY <1>1, <1>2, <1>3 DEF Sessions, CountsAgree, failVars, uVars
  <2>4. CanImage'
    BY <1>1, <1>2, <1>3 DEF CanImage, failVars
  <2> QED
    BY <2>1, <2>2, <2>3, <2>4 DEF CanKeeps
<1>4. CASE /\ cInit /\ Buffers(cCtx, f, cCtx') /\ UNCHANGED failVars
           /\ cWritten' = cWritten + 1 /\ Progress(cWritten + 1)
  <2>1. Context(cCtx') /\ Held(cCtx') = Held(cCtx) + 1 /\ slot' \in [Cells -> Content]
    BY <1>1, <1>4, BuffersOne
  <2>2. cWritten + 1 \in 0 .. SlotSize /\ Held(cCtx) \in Nat
    BY <1>1, <1>4 DEF CountsAgree, Buffers, FitsOne, CanType, Context, Held
  <2>3. Answers
    BY <1>1, <1>4, <2>2, ReplyType, UnchangedAnswers DEF Progress, NoReply, Answers, Codes
  <2>4. FlashType' /\ badErase' \in BOOLEAN /\ cInit' \in BOOLEAN
    BY <1>1, <1>2, <1>4, <2>1 DEF FlashType, Flags, failVars
  <2>5. CanType'
    BY <1>1, <1>2, <1>4, <2>1, <2>2 DEF CanType
  <2>6. CountsAgree' /\ (cInit' => cTotal' = ImageLen)
    BY <1>1, <1>2, <1>4, <2>1, <2>2 DEF Sessions, CountsAgree, failVars, uVars, CanType
  <2>7. CanImage'
    <3> SUFFICES ASSUME servers = {"can"}, fails = 0
                 PROVE  CanImage'
      BY <1>4 DEF CanImage, failVars, uVars
    <3>1. pending = "none" /\ \A i \in Cells : i <= cCtx.written => slot[i] # Blank
      BY <1>1, <1>4, <1>2 DEF CanImage, FlashType
    <3>2. \A i \in Cells : i <= cCtx'.written => slot'[i] # Blank
      BY <1>1, <1>4, <2>1, <3>1, BuffersMarks
    <3> QED
      BY <1>2, <3>1, <3>2 DEF CanImage
  <2> QED
    BY <2>3, <2>4, <2>5, <2>6, <2>7 DEF CanKeeps
<1>5. CASE cInit /\ WriteFails(cCtx, f, cCtx') /\ Reply("FLASH_ERROR", 0) /\ UNCHANGED cWritten
  <2>1. Context(cCtx') /\ Held(cCtx') >= Held(cCtx) /\ Held(cCtx) \in Nat /\ Held(cCtx') \in Nat
    BY <1>1, <1>5, WriteFailsKeeps DEF Context, Held
  <2>2. /\ FlashType' /\ UNCHANGED <<slot, badErase>>
        /\ fails' = 0 => fails = 0 /\ cCtx' = cCtx
    BY <1>1, <1>2, <1>5, WriteFailsCounts
  <2>3. Answers
    BY <1>1, <1>2, <1>5, ReplyType DEF Answers, Codes
  <2>4. badErase' \in BOOLEAN /\ cInit' \in BOOLEAN
    BY <1>1, <1>2, <2>2 DEF Flags
  <2>5. CanType'
    BY <1>1, <1>2, <1>5, <2>1 DEF CanType
  <2>6. CountsAgree' /\ (cInit' => cTotal' = ImageLen)
    BY <1>1, <1>2, <1>5, <2>1, <2>2 DEF Sessions, CountsAgree, uVars, CanType
  <2>7. CanImage'
    BY <1>1, <1>2, <1>5, <2>2 DEF CanImage
  <2> QED
    BY <2>2, <2>3, <2>4, <2>5, <2>6, <2>7 DEF CanKeeps
<1> QED
  BY <1>3, <1>4, <1>5 DEF CanData

LEMMA CanConfirmKeeps ==
  ASSUME UpgradeInv, CanConfirm, UNCHANGED <<servers, uVars>>
  PROVE  CanKeeps /\ Answers
<1>1. /\ FlashType /\ CanType /\ Flags /\ HostType /\ Sessions /\ CountsAgree /\ CanImage
      /\ Context(cCtx) /\ slot \in [Cells -> Content]
  BY DEF UpgradeInv, Typed, Sessions, CanType, FlashType
<1>2. UNCHANGED <<cWritten, cTotal, cKeys>> /\ 0 \in 0 .. SlotSize
  BY DEF CanConfirm
<1>3. Answers
  BY <1>1, <1>2, ReplyType DEF CanConfirm, Answers, Codes
<1>4. CASE ~cInit /\ UNCHANGED <<flashVars, failVars, cInit, cCtx>>
  <2>1. FlashType' /\ CanType' /\ badErase' \in BOOLEAN /\ cInit' \in BOOLEAN
    BY <1>1, <1>2, <1>4 DEF FlashType, CanType, Flags, failVars, flashVars
  <2>2. CountsAgree' /\ (cInit' => cTotal' = ImageLen)
    BY <1>1, <1>2, <1>4 DEF Sessions, CountsAgree, failVars, uVars
  <2>3. CanImage'
    BY <1>1, <1>2, <1>4 DEF CanImage, failVars, flashVars
  <2> QED
    BY <1>3, <2>1, <2>2, <2>3 DEF CanKeeps
<1>5. ASSUME cInit, cInit' = FALSE, FlashType', Context(cCtx'), UNCHANGED badErase, fails' = 0 => fails = 0,
             \/ fails' # 0 \/ pending' = pending
             \/ FlushTo(cCtx, cCtx') /\ cWritten = cTotal
      PROVE  CanKeeps
  <2>1. CanType' /\ badErase' \in BOOLEAN /\ cInit' \in BOOLEAN
    <3>1. CanType'
      BY <1>1, <1>2, <1>5 DEF CanType
    <3>2. badErase' \in BOOLEAN
      BY <1>1, <1>5 DEF Flags
    <3>3. cInit' \in BOOLEAN
      BY <1>5
    <3> QED
      BY <3>1, <3>2, <3>3
  <2>2. CountsAgree' /\ (cInit' => cTotal' = ImageLen)
    BY <1>1, <1>5 DEF CountsAgree, uVars
  <2>3. CanImage'
    <3> SUFFICES ASSUME servers = {"can"}, fails' = 0, fails = 0, pending' # "none"
                 PROVE  \A i \in Frames : slot'[i] # Blank
      BY <1>5 DEF CanImage, uVars
    <3>1. /\ pending = "none" /\ cWritten = Held(cCtx) /\ cTotal = ImageLen
          /\ \A i \in Cells : i <= cCtx.written => slot[i] # Blank
      BY <1>1, <1>5 DEF CanImage, CountsAgree, Sessions
    <3>2. slot' = Flushed(cCtx) /\ Held(cCtx) = ImageLen
      BY <1>5, <3>1 DEF FlushTo
    <3> QED
      BY <1>1, <3>1, <3>2, FlushedMarks DEF Frames, Cells
  <2> QED
    BY <1>5, <2>1, <2>2, <2>3 DEF CanKeeps
<1>6. CASE cInit /\ cInit' = FALSE /\ Flush(cCtx, cCtx') /\ cWritten = cTotal /\ pending' \in Requests
  <2>1. Context(cCtx') /\ slot' \in [Cells -> Content]
    BY <1>1, <1>6, FlushKeeps
  <2>2. fails' \in 0 .. MaxFails /\ UNCHANGED badErase /\ (fails' = 0 => fails = 0 /\ FlushTo(cCtx, cCtx'))
    BY <1>1, <1>6 DEF Flush, failVars, FlashType
  <2>3. FlashType'
    BY <1>6, <2>1, <2>2 DEF FlashType, Requests
  <2> QED
    BY <1>3, <1>5, <1>6, <2>1, <2>2, <2>3
<1>7. CASE cInit /\ cInit' = FALSE /\ FlushTo(cCtx, cCtx') /\ RequestFails
  <2>1. Context(cCtx') /\ slot' \in [Cells -> Content]
    BY <1>1, <1>7, FlushKeeps, EmptyContext, FlushedType DEF FlushTo
  <2>2. fails' \in 0 .. MaxFails /\ UNCHANGED <<badErase, pending>> /\ fails' # 0
    BY <1>1, <1>7 DEF RequestFails, FlashType
  <2>3. FlashType'
    BY <1>1, <2>1, <2>2 DEF FlashType
  <2> QED
    BY <1>3, <1>5, <1>7, <2>1, <2>2, <2>3
<1>8. CASE cInit /\ cInit' = FALSE /\ Flush(cCtx, cCtx') /\ UNCHANGED pending
  <2>1. Context(cCtx')
    BY <1>1, <1>8, FlushKeeps
  <2>2. FlashType' /\ UNCHANGED badErase /\ (fails' = 0 => fails = 0)
    BY <1>1, <1>8, FlushCounts
  <2> QED
    BY <1>3, <1>5, <1>8, <2>1, <2>2
<1> QED
  BY <1>4, <1>6, <1>7, <1>8 DEF CanConfirm

LEMMA KeyFrameKeeps ==
  ASSUME UpgradeInv, NEW k \in 1 .. KeyFrames, NEW key \in {"good", "bad"}, CanKeyFrame(k, key),
         UNCHANGED <<servers, uVars>>
  PROVE  CanKeeps /\ Answers
<1>1. /\ FlashType /\ CanType /\ Flags /\ HostType /\ Sessions /\ CountsAgree /\ CanImage
  BY DEF UpgradeInv, Typed, Sessions
<1>2. /\ cKeys' \in [1 .. KeyFrames -> Keys]
      /\ UNCHANGED <<flashVars, failVars, cInit, cWritten, cTotal, cCtx>>
  BY <1>1 DEF CanKeyFrame, CanType, Keys
<1>3. Answers
  BY <1>1, UnchangedAnswers DEF CanKeyFrame, NoReply
<1>4. FlashType' /\ CanType' /\ badErase' \in BOOLEAN /\ cInit' \in BOOLEAN
  BY <1>1, <1>2 DEF FlashType, CanType, Flags, failVars, flashVars
<1>5. CountsAgree' /\ (cInit' => cTotal' = ImageLen)
  BY <1>1, <1>2 DEF Sessions, CountsAgree, failVars, uVars
<1>6. CanImage'
  BY <1>1, <1>2 DEF CanImage, failVars, flashVars
<1> QED
  BY <1>3, <1>4, <1>5, <1>6 DEF CanKeeps

(* Nothing happens in the server: a frame is lost, or the host moves on.   *)
LEMMA StillKeeps ==
  ASSUME UpgradeInv, UNCHANGED <<servers, flashVars, failVars, uVars, cVars>>
  PROVE  CanKeeps
<1>1. /\ FlashType /\ CanType /\ Flags /\ HostType /\ Sessions /\ CountsAgree /\ CanImage
  BY DEF UpgradeInv, Typed, Sessions
<1>2. FlashType' /\ CanType' /\ badErase' \in BOOLEAN /\ cInit' \in BOOLEAN
  BY <1>1 DEF FlashType, CanType, Flags, failVars, flashVars, cVars
<1>3. CountsAgree' /\ (cInit' => cTotal' = ImageLen)
  BY <1>1 DEF Sessions, CountsAgree, failVars, uVars, cVars
<1>4. CanImage'
  BY <1>1 DEF CanImage, failVars, flashVars, cVars
<1> QED
  BY <1>2, <1>3, <1>4 DEF CanKeeps

(* A step of the host and what the CAN server makes of its frame.          *)
LEMMA ServerAndHost ==
  ASSUME UpgradeInv, CanKeeps, HostType', "can" \in servers, UNCHANGED <<servers, uVars>>
  PROVE  UpgradeInv'
<1>1. UdpType' /\ uStarted' \in BOOLEAN /\ servers' \in Builds
  BY DEF UpgradeInv, Typed, UdpType, Flags, uVars
<1>2. uPc' # "idle" => uStarted' /\ "udp" \in servers'
  BY DEF UpgradeInv, Sessions, uVars
<1>3. UdpImage'
  BY DEF UdpImage
<1> QED
  BY <1>1, <1>2, <1>3 DEF UpgradeInv, Typed, Flags, Sessions, CanKeeps

LEMMA CanHostKeeps == ASSUME UpgradeInv, CanHost PROVE UpgradeInv'
<1>1. HostType /\ CanType
  BY DEF UpgradeInv, Typed
<1>2. ASSUME NEW k \in 1 .. KeyFrames, NEW key \in {"good", "bad"}, HostKeyFrame(k, key)
      PROVE  UpgradeInv'
  <2>1. CanKeeps /\ Answers
    BY <1>2, KeyFrameKeeps DEF HostKeyFrame, HostKeeps
  <2>2. HostType'
    BY <1>1, <1>2, <2>1 DEF HostKeyFrame, HostType, Answers, hVars
  <2> QED
    BY <1>2, <2>1, <2>2, ServerAndHost DEF HostKeyFrame, HostKeeps
<1>3. ASSUME FrameLost, HostKeeps
      PROVE  CanKeeps /\ Answers
  <2>1. CanKeeps
    BY <1>3, StillKeeps DEF FrameLost, HostKeeps
  <2>2. Answers
    BY <1>1, <1>3 DEF FrameLost, HostType, Answers
  <2> QED
    BY <2>1, <2>2
<1>4. CASE HostStart
  <2>1. CanKeeps /\ Answers
    BY <1>3, <1>4, CanStartKeeps DEF HostStart, HostKeeps
  <2>2. HostType'
    BY <1>1, <1>4, <2>1 DEF HostStart, HostType, Answers
  <2> QED
    BY <1>4, <2>1, <2>2, ServerAndHost DEF HostStart, HostKeeps
<1>5. CASE HostSend
  <2>1. hSent + 1 \in Frames /\ hSent' \in 0 .. ImageLen
    BY <1>1, <1>5 DEF HostSend, HostType, Frames
  <2>2. CanKeeps /\ Answers
    BY <1>3, <1>5, <2>1, CanDataKeeps DEF HostSend, HostKeeps
  <2>3. HostType'
    BY <1>1, <1>5, <2>1, <2>2 DEF HostSend, HostType, Answers
  <2> QED
    BY <1>5, <2>2, <2>3, ServerAndHost DEF HostSend, HostKeeps
<1>6. CASE HostConfirm
  <2>1. CanKeeps /\ Answers
    BY <1>3, <1>6, CanConfirmKeeps DEF HostConfirm, HostKeeps
  <2>2. HostType'
    BY <1>1, <1>6, <2>1 DEF HostConfirm, HostType, Answers
  <2> QED
    BY <1>6, <2>1, <2>2, ServerAndHost DEF HostConfirm, HostKeeps
<1>7. ASSUME UNCHANGED <<flashVars, failVars, cVars, hSent, runs, lost>>, HostKeeps,
             reply' \in {<<>>, Tail(reply)}, reply # <<>> \/ reply' = <<>>,
             hPc' \in {"idle", "sending", "confirm"}
      PROVE  UpgradeInv'
  <2>1. CanKeeps
    BY <1>7, StillKeeps DEF HostKeeps
  <2>2. reply' \in Seq([code : Codes, offset : 0 .. SlotSize])
    <3> DEFINE R == [code : Codes, offset : 0 .. SlotSize]
    <3>1. reply \in Seq(R)
      BY <1>1 DEF HostType
    <3> HIDE DEF R
    <3>2. reply' \in Seq(R)
      BY <1>7, <3>1, EmptySeq, HeadTailProperties
    <3> QED
      BY <3>2 DEF R
  <2>3. HostType'
    BY <1>1, <1>7, <2>2 DEF HostType
  <2> QED
    BY <1>7, <2>1, <2>3, ServerAndHost DEF HostKeeps
<1>8. CASE HostStarted
  BY <1>7, <1>8 DEF HostStarted
<1>9. CASE HostRecv
  <2>1. hPc' \in {"idle", "sending", "confirm"}
    BY <1>9 DEF HostRecv
  <2> QED
    BY <1>7, <1>9, <2>1 DEF HostRecv
<1>10. CASE HostDone
  BY <1>7, <1>10 DEF HostDone
<1>11. CASE HostTimeout
  BY <1>7, <1>11 DEF HostTimeout
<1> QED
  BY <1>2, <1>4, <1>5, <1>6, <1>8, <1>9, <1>10, <1>11 DEF CanHost

LEMMA RebootKeeps == ASSUME UpgradeInv, Reboot PROVE UpgradeInv'
<1>1. /\ servers' = servers /\ fails' = fails /\ hVars' = hVars /\ reply' = reply /\ lost' = lost
      /\ pending' = "none" /\ uPc' = "idle" /\ uReceived' = 0 /\ uCtx' = Fresh
      /\ cWritten' = 0 /\ cTotal' = 0 /\ cCtx' = Fresh /\ cKeys' = NoKey
  BY DEF Reboot
<1>2. badErase' = FALSE /\ uStarted' = FALSE /\ cInit' = FALSE
  BY DEF Reboot
<1>3. slot' \in [Cells -> Content]
  BY DEF Reboot, UpgradeInv, Typed, FlashType, Content, Garbage
<1>4. FlashType' /\ HostType' /\ servers' \in Builds
  BY <1>1, <1>3 DEF UpgradeInv, Typed, FlashType, HostType, hVars
<1>5. UdpType'
  BY <1>1, FreshHeld DEF UdpType
<1>6. CanType'
  BY <1>1, FreshHeld DEF CanType, NoKey, Keys
<1>7. Flags'
  BY <1>2 DEF Flags
<1>8. Sessions'
  BY <1>1, <1>2 DEF Sessions, CountsAgree
<1>9. UdpImage' /\ CanImage'
  BY <1>1, <1>2 DEF UdpImage, CanImage
<1> QED
  BY <1>4, <1>5, <1>6, <1>7, <1>8, <1>9 DEF UpgradeInv, Typed

LEMMA NextKeeps == UpgradeInv /\ [Next]_vars => UpgradeInv'
<1> SUFFICES ASSUME UpgradeInv, [Next]_vars PROVE UpgradeInv'
  OBVIOUS
<1>1. CASE Udp
  <2>1. Requests = {"test", "permanent"}
    BY DEF Requests
  <2> QED
    BY <1>1, UdpStartKeeps, UdpDataKeeps, UdpEndKeeps, UdpRequestKeeps DEF Udp
<1>2. CASE UNCHANGED vars
  <2>1. /\ FlashType' /\ UdpType' /\ CanType' /\ HostType' /\ Flags' /\ servers' \in Builds
    BY <1>2 DEF UpgradeInv, Typed, FlashType, UdpType, CanType, HostType, Flags, vars,
                flashVars, failVars, uVars, cVars, hVars
  <2>2. Sessions' /\ UdpImage' /\ CanImage'
    BY <1>2 DEF UpgradeInv, Sessions, CountsAgree, UdpImage, Intact, CanImage, vars,
                flashVars, failVars, uVars, cVars, hVars
  <2> QED
    BY <2>1, <2>2 DEF UpgradeInv, Typed
<1> QED
  BY <1>1, <1>2, CanHostKeeps, RebootKeeps DEF Next

-----------------------------------------------------------------------------
(* The invariant holds in every behaviour of the two servers               *)
(* (udp_fw_upgrade.c, can_fw_upgrade.c), whatever the hosts send.          *)
THEOREM UpgradeInvariant == Spec => []UpgradeInv
<1> QED
  BY InitHolds, NextKeeps, PTL DEF Spec

(* Every variable of the servers and of the host keeps its type: no count, *)
(* mark or buffer of flash_img passes the slot or the block.               *)
THEOREM TypeCorrect == Spec => []TypeOK
<1>1. UpgradeInv => TypeOK
  BY TypedIsTypeOK DEF UpgradeInv
<1> QED
  BY <1>1, UpgradeInvariant, PTL

(* The counts that the replies carry agree with what flash_img holds       *)
(* (udp_fw_upgrade.c fw_received, can_fw_upgrade.c fw_written), after any  *)
(* repeated START and any failed write.                                    *)
THEOREM CountsAlwaysAgree == Spec => []CountsAgree
<1>1. UpgradeInv => CountsAgree
  BY DEF UpgradeInv, Sessions
<1> QED
  BY <1>1, UpgradeInvariant, PTL

(* What FW_END verified stays in slot1 until the reboot that swaps it in,  *)
(* on a board with the UDP server alone and no silently failed erase.      *)
THEOREM VerifiedImageStays == Spec => []VerifiedStays
<1>1. UpgradeInv => VerifiedStays
  BY DEF UpgradeInv, UdpImage, Intact, VerifiedStays
<1> QED
  BY <1>1, UpgradeInvariant, PTL

(* A CONFIRM that the CAN server accepts requests no image with a blank    *)
(* frame, on a board with the CAN server alone and no flash failure.       *)
THEOREM ConfirmedImageNotShort == Spec => []ConfirmedNotShort
<1>1. UpgradeInv => ConfirmedNotShort
  BY DEF UpgradeInv, CanImage, ConfirmedNotShort
<1> QED
  BY <1>1, UpgradeInvariant, PTL
=============================================================================
