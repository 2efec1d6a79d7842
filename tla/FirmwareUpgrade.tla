-------------------------- MODULE FirmwareUpgrade --------------------------
(***************************************************************************)
(* libs/udp_fw_upgrade and libs/can_fw_upgrade: the two servers that write *)
(* a new image into the flash partition slot1 and ask MCUboot to swap it   *)
(* in.  gateway builds the UDP server, mod_handler the CAN server, and     *)
(* data_collect both, on the one partition.                                *)
(*                                                                         *)
(* The unit of data is one frame.  A UDP host may send any command at any  *)
(* time: its datagrams are lost, repeated and reordered by the network.    *)
(* The CAN host is the repository's own tools/can_upgrade_cli.py, rerun by *)
(* its user after a failure, on a bus that may lose frames and replies.    *)
(* Programming and erasing the flash may fail.                             *)
(***************************************************************************)
EXTENDS Naturals, Sequences

CONSTANTS
  ImageLen,   \* frames of the image the hosts install
  SlotSize,   \* frames slot1 holds
  Block,      \* frames flash_img buffers before it programs them
  AckEvery,   \* the CAN server reports progress every AckEvery frames
  KeyFrames,  \* CAN frames that carry the keyhash
  Builds,     \* sets of servers an application may build
  MaxFails,   \* bound: flash operations that fail
  MaxRuns,    \* bound: runs of the CAN host
  MaxLost     \* bound: CAN frames and replies lost

ASSUME UpgradeAssumption ==
  /\ {ImageLen, SlotSize, Block, AckEvery, KeyFrames} \subseteq Nat \ {0}
  /\ ImageLen <= SlotSize
  /\ {MaxFails, MaxRuns, MaxLost} \subseteq Nat
  /\ Builds \subseteq SUBSET {"udp", "can"}

VARIABLES
  servers,                      \* what this application built
  slot, pending,                \* slot1 and its boot_request_upgrade trailer
  fails, badErase,              \* failed flash operations; an erase was one
  uStarted, uReceived, uCtx,    \* udp_fw: fw_started, fw_received, flash_img_ctx
  uPc,                          \* udp_fw: between the CRC check and the request
  cInit, cWritten, cTotal, cCtx, \* can_fw: fw_img_initialized, fw_written, ...
  cKeys,                        \* can_fw: rx_keybuf and key_chunk_mask
  hPc, hSent, reply, runs, lost \* the CAN host, and the replies it has not read

flashVars == <<slot, pending>>
failVars  == <<fails, badErase>>
uVars     == <<uStarted, uReceived, uCtx, uPc>>
cVars     == <<cInit, cWritten, cTotal, cCtx, cKeys>>
hVars     == <<hPc, hSent, runs>>
vars      == <<servers, flashVars, failVars, uVars, cVars, hVars, reply, lost>>

Cells   == 1 .. SlotSize
Frames  == 1 .. ImageLen              \* the frames of the image, in order
Blank   == 0                          \* an erased cell
Garbage == ImageLen + 1               \* anything else: an old image, a clash
Content == 0 .. ImageLen + 1
Erased  == [i \in Cells |-> Blank]
Fresh   == [written |-> 0, buf |-> <<>>]
Contexts == [written : 0 .. SlotSize, buf : UNION {[1 .. n -> Frames] : n \in 0 .. Block}]
Codes   == {"OFFSET", "UPDATE_SUCCESS", "CONFIRM", "FLASH_ERROR",
            "TRANSFER_ERROR", "KEYHASH_ERROR"}
Keys    == {"none", "good", "bad"}

TypeOK ==
  /\ servers \in Builds
  /\ slot \in [Cells -> Content]
  /\ pending \in {"none", "test", "permanent"}
  /\ fails \in 0 .. MaxFails /\ badErase \in BOOLEAN
  /\ uStarted \in BOOLEAN /\ uReceived \in 0 .. SlotSize /\ uCtx \in Contexts
  /\ uPc \in {"idle", "test", "permanent"}
  /\ cInit \in BOOLEAN /\ cWritten \in 0 .. SlotSize
  /\ cTotal \in {0, ImageLen} /\ cCtx \in Contexts
  /\ cKeys \in [1 .. KeyFrames -> Keys]
  /\ hPc \in {"idle", "starting", "sending", "waiting", "confirm", "confirming"}
  /\ hSent \in 0 .. ImageLen /\ runs \in 0 .. MaxRuns /\ lost \in 0 .. MaxLost
  /\ reply \in Seq([code : Codes, offset : 0 .. SlotSize])

NoKey == [k \in 1 .. KeyFrames |-> "none"]

(* slot1 holds whatever image was swapped out last.                        *)
Init ==
  /\ servers \in Builds
  /\ slot = [i \in Cells |-> Garbage] /\ pending = "none"
  /\ fails = 0 /\ badErase = FALSE
  /\ uStarted = FALSE /\ uReceived = 0 /\ uCtx = Fresh /\ uPc = "idle"
  /\ cInit = FALSE /\ cWritten = 0 /\ cTotal = 0 /\ cCtx = Fresh /\ cKeys = NoKey
  /\ hPc = "idle" /\ hSent = 0 /\ reply = <<>> /\ runs = 0 /\ lost = 0

-----------------------------------------------------------------------------
(* flash_img (external): a buffer of Block frames in front of the flash.   *)

(* Programming clears bits: a cell that was not erased is spoiled.         *)
Burn(old, new) == IF old \in {Blank, new} THEN new ELSE Garbage

Flushed(ctx) ==
  [i \in Cells |->
     IF i \in ctx.written + 1 .. ctx.written + Len(ctx.buf)
       THEN Burn(slot[i], ctx.buf[i - ctx.written]) ELSE slot[i]]

Emptied(ctx, rest) == [written |-> ctx.written + Len(ctx.buf), buf |-> rest]
Held(ctx)          == ctx.written + Len(ctx.buf)
FitsOne(ctx)       == Held(ctx) < SlotSize
Full(ctx)          == Len(ctx.buf) = Block
Pushed(ctx, f)     == [ctx EXCEPT !.buf = Append(@, f)]

(* flash_img_buffered_write of one frame: it is buffered; a full buffer is *)
(* programmed, one left full by a failure before anything else.            *)
Buffers(ctx, f, ctx1) ==
  /\ FitsOne(ctx)
  /\ IF Full(ctx)
       THEN ctx1 = Emptied(ctx, <<f>>) /\ slot' = Flushed(ctx)
       ELSE LET c == Pushed(ctx, f) IN
            IF Full(c) THEN ctx1 = Emptied(c, <<>>) /\ slot' = Flushed(c)
                       ELSE ctx1 = c /\ UNCHANGED slot

(* It fails when the slot is full, or the flash refuses to be programmed.  *)
WriteFails(ctx, f, ctx1) ==
  /\ UNCHANGED <<slot, badErase>>
  /\ \/ ~FitsOne(ctx) /\ ctx1 = ctx /\ UNCHANGED fails
     \/ /\ FitsOne(ctx) /\ fails < MaxFails /\ fails' = fails + 1
        /\ IF Full(ctx) THEN ctx1 = ctx
                        ELSE Full(Pushed(ctx, f)) /\ ctx1 = Pushed(ctx, f)

FlushTo(ctx, ctx1) == ctx1 = Emptied(ctx, <<>>) /\ slot' = Flushed(ctx)

(* The final flush; neither server looks at its result.                    *)
Flush(ctx, ctx1) ==
  \/ FlushTo(ctx, ctx1) /\ UNCHANGED failVars
  \/ /\ fails < MaxFails /\ fails' = fails + 1 /\ ctx.buf # <<>>
     /\ ctx1 = ctx /\ UNCHANGED <<slot, badErase>>

Requests == {"test", "permanent"}

(* boot_request_upgrade fails: nothing is requested.                       *)
RequestFails ==
  fails < MaxFails /\ fails' = fails + 1 /\ UNCHANGED <<pending, badErase>>

(* flash_area_erase, whose result neither server looks at, also takes the  *)
(* request in the trailer away.                                            *)
Erase ==
  \/ slot' = Erased /\ pending' = "none" /\ UNCHANGED failVars
  \/ /\ fails < MaxFails /\ fails' = fails + 1
     /\ badErase' = TRUE /\ UNCHANGED flashVars

(* flash_area_open reports an error, or flash_img_init does after an erase.*)
OpenFails ==
  /\ fails < MaxFails /\ fails' = fails + 1 /\ UNCHANGED badErase
  /\ \/ UNCHANGED flashVars
     \/ slot' = Erased /\ pending' = "none"

-----------------------------------------------------------------------------
(* The UDP server, handle_fw_cmd in its RX thread.                         *)

UdpRuns == "udp" \in servers /\ uPc = "idle"
UdpKeeps == UNCHANGED <<servers, cVars, hVars, reply, lost>>

(* FW_START [size][keyhash]: only a full keyhash is compared; the size is  *)
(* not used again.                                                         *)
UdpStart(key) ==
  /\ UdpRuns /\ UdpKeeps /\ UNCHANGED uPc
  /\ ~uStarted /\ key # "bad"
  /\ \/ /\ Erase
        /\ uStarted' = TRUE /\ uReceived' = 0 /\ uCtx' = Fresh
     \/ /\ OpenFails
        /\ UNCHANGED <<uStarted, uReceived, uCtx>>

(* FW_DATA: appended wherever the writing stands; an error ends the        *)
(* session.                                                                *)
UdpData(f) ==
  /\ UdpRuns /\ UdpKeeps /\ UNCHANGED <<uPc, pending>>
  /\ uStarted
  /\ \/ /\ Buffers(uCtx, f, uCtx') /\ UNCHANGED failVars
        /\ uReceived' = uReceived + 1
        /\ UNCHANGED uStarted
     \/ /\ WriteFails(uCtx, f, uCtx')
        /\ uStarted' = FALSE
        /\ UNCHANGED uReceived

(* Mutant: only the length is checked.                                     *)
VerifiedLength(ctx, content) == ctx.written = ImageLen

(* fw_verify_crc reads slot1 back, over what the context has written, and  *)
(* compares with the host's CRC: that of the image.                        *)
Verified(ctx, content) ==
  ctx.written = ImageLen /\ \A i \in Frames : content[i] = i

(* FW_END up to the CRC check ...                                          *)
UdpEnd(test) ==
  /\ UdpRuns /\ UdpKeeps /\ UNCHANGED <<uReceived, pending>>
  /\ uStarted
  /\ Flush(uCtx, uCtx')
  /\ IF Verified(uCtx', slot')
       THEN uPc' = test /\ UNCHANGED uStarted
       ELSE uStarted' = FALSE /\ UNCHANGED uPc

(* ... and boot_request_upgrade, in the same handler.                      *)
UdpRequest ==
  /\ uPc # "idle"
  /\ RequestFails \/ (pending' = uPc /\ UNCHANGED failVars)
  /\ uPc' = "idle" /\ uStarted' = FALSE
  /\ UdpKeeps /\ UNCHANGED <<slot, uReceived, uCtx>>

Udp == \/ \E key \in Keys : UdpStart(key)
       \/ \E f \in Frames : UdpData(f)
       \/ \E test \in Requests : UdpEnd(test)
       \/ UdpRequest

-----------------------------------------------------------------------------
(* The CAN server: one handler per frame identifier, in its RX thread.     *)

(* fw_can_reply; the host reads replies in order, and the bus may lose one.*)
Reply(code, offset) ==
  \/ reply' = Append(reply, [code |-> code, offset |-> offset]) /\ UNCHANGED lost
  \/ lost < MaxLost /\ lost' = lost + 1 /\ UNCHANGED reply

NoReply == UNCHANGED <<reply, lost>>

KeyComplete == \A k \in 1 .. KeyFrames : cKeys[k] # "none"
KeyRefused  == KeyComplete /\ \E k \in 1 .. KeyFrames : cKeys[k] = "bad"

(* handle_keyhash_frame: chunk k of the host's keyhash.                    *)
CanKeyFrame(k, key) ==
  /\ cKeys' = [cKeys EXCEPT ![k] = key]
  /\ NoReply
  /\ UNCHANGED <<flashVars, failVars, cInit, cWritten, cTotal, cCtx>>

(* Mutant: a repeated START resets the count but not the context.          *)
CanStartCountOnly ==
  /\ ~KeyRefused
  /\ cKeys' = IF KeyComplete THEN NoKey ELSE cKeys
  /\ IF cInit THEN UNCHANGED <<flashVars, failVars, cCtx>> ELSE Erase /\ cCtx' = Fresh
  /\ cInit' = TRUE /\ cWritten' = 0 /\ cTotal' = ImageLen
  /\ Reply("OFFSET", 0)

(* START_UPDATE: the flash is erased, and the context and the count reset, *)
(* only when no session is open; the total is taken over in any case.      *)
CanStart ==
  /\ cKeys' = IF KeyComplete THEN NoKey ELSE cKeys
  /\ \/ /\ KeyRefused
        /\ Reply("KEYHASH_ERROR", 0)
        /\ UNCHANGED <<flashVars, failVars, cInit, cWritten, cTotal, cCtx>>
     \/ /\ ~KeyRefused /\ cInit
        /\ cTotal' = ImageLen
        /\ Reply("OFFSET", 0)
        /\ UNCHANGED <<flashVars, failVars, cInit, cWritten, cCtx>>
     \/ /\ ~KeyRefused /\ ~cInit
        /\ Erase
        /\ cInit' = TRUE /\ cWritten' = 0 /\ cCtx' = Fresh
        /\ cTotal' = ImageLen
        /\ Reply("OFFSET", 0)
     \/ /\ ~KeyRefused /\ ~cInit
        /\ OpenFails
        /\ Reply("FLASH_ERROR", 0)
        /\ UNCHANGED <<cInit, cWritten, cTotal, cCtx>>

Progress(n) == CASE n = cTotal -> Reply("UPDATE_SUCCESS", n)
                 [] n # cTotal /\ n % AckEvery = 0 -> Reply("OFFSET", n)
                 [] OTHER -> NoReply

(* Mutant: a frame is counted before it is written.                        *)
CanDataCountsFirst(f) ==
  /\ cInit /\ UNCHANGED <<pending, cInit, cTotal, cKeys>>
  /\ cWritten' = cWritten + 1
  /\ \/ Buffers(cCtx, f, cCtx') /\ UNCHANGED failVars /\ Progress(cWritten + 1)
     \/ WriteFails(cCtx, f, cCtx') /\ Reply("FLASH_ERROR", 0)

(* handle_fw_data: a failed write leaves the session open.                 *)
CanData(f) ==
  /\ UNCHANGED <<pending, cInit, cTotal, cKeys>>
  /\ \/ /\ ~cInit
        /\ Reply("TRANSFER_ERROR", 0)
        /\ UNCHANGED <<slot, failVars, cWritten, cCtx>>
     \/ /\ cInit /\ Buffers(cCtx, f, cCtx') /\ UNCHANGED failVars
        /\ cWritten' = cWritten + 1
        /\ Progress(cWritten + 1)
     \/ /\ cInit /\ WriteFails(cCtx, f, cCtx')
        /\ Reply("FLASH_ERROR", 0)
        /\ UNCHANGED cWritten

(* Mutant: the last, partly filled block is not flushed.                   *)
CanConfirmUnflushed ==
  /\ cInit /\ cInit' = FALSE
  /\ IF cWritten = cTotal
       THEN pending' = "permanent" /\ Reply("CONFIRM", 0)
       ELSE UNCHANGED pending /\ Reply("TRANSFER_ERROR", 0)
  /\ UNCHANGED <<slot, failVars, cWritten, cTotal, cCtx, cKeys>>

(* CONFIRM: flush, close the session, compare the counts, ask MCUboot for  *)
(* a test or a permanent swap.  (A request that fails after a failed flush *)
(* leaves what the failed flush alone leaves.)                             *)
CanConfirm ==
  /\ UNCHANGED <<cWritten, cTotal, cKeys>>
  /\ \/ /\ ~cInit
        /\ Reply("TRANSFER_ERROR", 0)
        /\ UNCHANGED <<flashVars, failVars, cInit, cCtx>>
     \/ /\ cInit /\ cInit' = FALSE
        /\ \/ /\ cWritten = cTotal /\ Flush(cCtx, cCtx')
              /\ pending' \in Requests
              /\ Reply("CONFIRM", 0)
           \/ /\ cWritten = cTotal /\ FlushTo(cCtx, cCtx') /\ RequestFails
              /\ Reply("TRANSFER_ERROR", 0)
           \/ /\ cWritten # cTotal /\ Flush(cCtx, cCtx')
              /\ UNCHANGED pending
              /\ Reply("TRANSFER_ERROR", 0)

(* A frame the bus loses.                                                  *)
FrameLost ==
  /\ lost < MaxLost /\ lost' = lost + 1
  /\ UNCHANGED <<flashVars, failVars, cVars, reply>>

-----------------------------------------------------------------------------
(* tools/can_upgrade_cli.py, firmware_upgrade; it raises, and the user     *)
(* runs it again, when a reply is late or is an error.                     *)

HostKeeps == "can" \in servers /\ UNCHANGED <<servers, uVars>>

(* A newer tool sends its keyhash first.                                   *)
HostKeyFrame(k, key) ==
  /\ HostKeeps /\ hPc = "idle" /\ runs < MaxRuns
  /\ CanKeyFrame(k, key)
  /\ UNCHANGED hVars

HostStart ==
  /\ HostKeeps /\ hPc = "idle" /\ runs < MaxRuns
  /\ runs' = runs + 1 /\ hPc' = "starting" /\ hSent' = 0
  /\ CanStart \/ FrameLost

(* The first reply is refused only if it is no OFFSET and has an offset:   *)
(* no error has one.                                                       *)
HostStarted ==
  /\ hPc = "starting" /\ reply # <<>>
  /\ reply' = Tail(reply) /\ hPc' = "sending"
  /\ HostKeeps /\ UNCHANGED <<flashVars, failVars, cVars, hSent, runs, lost>>

HostSend ==
  /\ HostKeeps /\ hPc = "sending" /\ hSent < ImageLen
  /\ CanData(hSent + 1) \/ FrameLost
  /\ hSent' = hSent + 1
  /\ hPc' = IF hSent' % AckEvery = 0 \/ hSent' = ImageLen THEN "waiting" ELSE hPc
  /\ UNCHANGED runs

HostRecv ==
  /\ hPc = "waiting" /\ reply # <<>>
  /\ reply' = Tail(reply)
  /\ LET r == Head(reply) IN
     hPc' = CASE r.code = "UPDATE_SUCCESS" /\ r.offset = hSent -> "confirm"
              [] r.code = "OFFSET" -> IF hSent = ImageLen THEN "confirm" ELSE "sending"
              [] OTHER -> "idle"
  /\ HostKeeps /\ UNCHANGED <<flashVars, failVars, cVars, hSent, runs, lost>>

HostConfirm ==
  /\ HostKeeps /\ hPc = "confirm"
  /\ CanConfirm \/ FrameLost
  /\ hPc' = "confirming" /\ UNCHANGED <<hSent, runs>>

HostDone ==
  /\ hPc = "confirming" /\ reply # <<>>
  /\ reply' = <<>> /\ hPc' = "idle"
  /\ HostKeeps /\ UNCHANGED <<flashVars, failVars, cVars, hSent, runs, lost>>

(* can_recv raises; the next run opens the bus anew.                       *)
HostTimeout ==
  /\ hPc \in {"starting", "waiting", "confirming"}
  /\ reply' = <<>> /\ hPc' = "idle"
  /\ HostKeeps /\ UNCHANGED <<flashVars, failVars, cVars, hSent, runs, lost>>

CanHost == \/ \E k \in 1 .. KeyFrames, key \in {"good", "bad"} : HostKeyFrame(k, key)
           \/ HostStart \/ HostStarted \/ HostSend \/ HostRecv \/ HostConfirm
           \/ HostDone \/ HostTimeout

-----------------------------------------------------------------------------
(* REBOOT of either server, or the power: the servers forget their         *)
(* sessions; MCUboot swaps a requested image in and the old one out.       *)
Reboot ==
  /\ slot' = IF pending = "none" THEN slot ELSE [i \in Cells |-> Garbage]
  /\ pending' = "none"
  /\ uStarted' = FALSE /\ uReceived' = 0 /\ uCtx' = Fresh /\ uPc' = "idle"
  /\ cInit' = FALSE /\ cWritten' = 0 /\ cTotal' = 0 /\ cCtx' = Fresh
  /\ cKeys' = NoKey
  /\ badErase' = FALSE
  /\ UNCHANGED <<servers, fails, hVars, reply, lost>>

Next == Udp \/ CanHost \/ Reboot

Spec == Init /\ [][Next]_vars

-----------------------------------------------------------------------------
(* The count a host is told agrees with what the flash context holds:      *)
(* fw_received exactly; fw_written too while the flash does not fail.      *)
(* Neither a repeated START nor a failed write may let them drift apart.   *)
CountsAgree ==
  /\ uStarted => uReceived = Held(uCtx)
  /\ cInit => cWritten <= Held(cCtx)
  /\ cInit /\ fails = 0 => cWritten = Held(cCtx)

(* gateway, UDP alone: from FW_END's "1" to the reboot, slot1 holds the    *)
(* image that was verified.  No late, repeated or reordered datagram and   *)
(* no flash failure spoils it, except an erase that fails silently.        *)
VerifiedStays ==
  servers = {"udp"} /\ pending # "none" /\ ~badErase =>
    \A i \in Frames : slot[i] = i

(* mod_handler, CAN alone: an image the server confirmed is not short,     *)
(* flash failures aside, and stays untouched until the reboot.             *)
ConfirmedNotShort ==
  servers = {"can"} /\ pending # "none" /\ fails = 0 =>
    \A i \in Frames : slot[i] # Blank
=============================================================================
