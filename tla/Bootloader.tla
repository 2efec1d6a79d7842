------------------------------ MODULE Bootloader ------------------------------
(***************************************************************************)
(* applications/stm32_bootloader: the choice at power-up (main.c), the     *)
(* download over two transports (fw_can.c, fw_uart.c) into one set of      *)
(* static variables (fw_upgrade.c), and the jump to the application.       *)
(*                                                                         *)
(* Flash is counted in frames.  A frame in it is written <<d, n>>: the     *)
(* n-th frame of the d-th download, download 0 being what the board was    *)
(* delivered with.  The CAN thread (priority 8) preempts the UART thread   *)
(* (9) anywhere; main has finished before either runs.                     *)
(***************************************************************************)
EXTENDS Naturals, Sequences

CONSTANTS
  Pages,         \* pages of the application, the last holds the upgrade flag
  PageFrames,    \* frames of a page
  BufferFrames,  \* frames of flash_buffer
  Sizes,         \* sizes that hosts announce, in frames: 0 and more than fits, too
  MaxDownloads,  \* bound: downloads started
  MaxMishaps     \* bound: lost frames, failed flash operations, power cuts

ASSUME BootAssumption ==
  /\ {Pages, PageFrames, BufferFrames} \subseteq Nat \ {0}
  /\ {MaxDownloads, MaxMishaps} \subseteq Nat
  /\ Sizes \subseteq Nat /\ Sizes \cap (1 .. Pages * PageFrames) # {}

VARIABLES
  mode,   \* the board is off, in the bootloader or in the application
  flash, flag,  \* the application's flash; the upgrade flag
  buffer, addr, total, received,  \* the statics of fw_upgrade.c
  cb,     \* response_cb
  pc, page,  \* per transport: where its thread is in fw_update; the page it erases
  host,   \* per transport: the download of its host and the frame it sends next
  downloads, mishaps,
  broken, mixed, owner,  \* history: a flash write failed, two transports took part, who started
  complete,  \* history: the downloads that were in flash in full and not mixed since
  size       \* history: frames of each download

static   == <<buffer, addr, total, received, cb>>
history  == <<broken, mixed, owner, complete, size>>
bootVars == <<mode, flash, flag, static, pc, page, host, downloads, mishaps, history>>

Transports == {"can", "uart"}
Cells     == 1 .. Pages * PageFrames
Downloads == 0 .. MaxDownloads
Erased    == <<>>
Silent    == [download |-> 0, next |-> 0]   \* a host with nothing to send
PageOf(cell) == (cell - 1) \div PageFrames + 1
LastPage(s) == IF s <= Pages * PageFrames THEN PageOf(s) ELSE Pages

BootTypeOK ==
  /\ mode \in {"off", "boot", "app"}
  /\ \A c \in Cells : flash[c] = Erased \/ flash[c] \in Downloads \X Nat
  /\ flag \in BOOLEAN
  /\ buffer \in Seq(Downloads \X Nat) /\ Len(buffer) <= BufferFrames + 1
  /\ total \in Sizes \cup {0} /\ received \in 0 .. total /\ addr \in 1 .. received + 1
  /\ cb \in Transports
  /\ pc \in [Transports -> {"idle", "erase", "write", "advance", "jump"}]
  /\ page \in [Transports -> 1 .. Pages + 1]
  /\ host \in [Transports -> [download : Downloads, next : Nat]]
  /\ \A t \in Transports : host[t].next <= size[host[t].download] + 1
  /\ downloads \in Downloads /\ mishaps \in 0 .. MaxMishaps
  /\ broken \in BOOLEAN /\ mixed \in BOOLEAN /\ owner \in Transports
  /\ complete \subseteq Downloads /\ size \in [Downloads -> Sizes \cup {0}]

StaticZero ==
  /\ buffer' = <<>> /\ addr' = 1 /\ total' = 0 /\ received' = 0 /\ cb' = "can"
  /\ pc' = [t \in Transports |-> "idle"] /\ page' = [t \in Transports |-> 1]

BootInit ==
  /\ mode = "off" /\ flag = FALSE
  /\ buffer = <<>> /\ addr = 1 /\ total = 0 /\ received = 0 /\ cb = "can"
  /\ pc = [t \in Transports |-> "idle"] /\ page = [t \in Transports |-> 1]
  /\ host = [t \in Transports |-> Silent] /\ downloads = 0 /\ mishaps = 0
  /\ broken = FALSE /\ mixed = FALSE /\ owner = "can" /\ complete = {0}
  /\ \E s \in Sizes \cap Cells : /\ size = [d \in Downloads |-> IF d = 0 THEN s ELSE 0]
                              /\ flash = [c \in Cells |-> IF c <= s THEN <<0, c>> ELSE Erased]

Mishap == mishaps < MaxMishaps /\ mishaps' = mishaps + 1

-----------------------------------------------------------------------------
(* main                                                                    *)

ClearUpgradeFlag ==
  /\ flag' = FALSE
  /\ flash' = [c \in Cells |-> IF PageOf(c) = Pages THEN Erased ELSE flash[c]]

(* Two words at the start of the image are looked at.                      *)
VerifyAppFirmware == flash[1] # Erased

(* Key1 is held at power-up, or it is not.                                 *)
PowerUp ==
  /\ mode = "off"
  /\ \/ mode' = "boot" /\ UNCHANGED <<flash, flag>>
     \/ flag /\ ClearUpgradeFlag /\ mode' = "boot"
     \/ ~flag /\ mode' = (IF VerifyAppFirmware THEN "app" ELSE "boot") /\ UNCHANGED <<flash, flag>>
  /\ UNCHANGED <<static, pc, page, host, downloads, mishaps, history>>

(* A power cut, anywhere; a host does not notice.                          *)
PowerCut ==
  /\ mode # "off" /\ Mishap /\ mode' = "off" /\ StaticZero
  /\ UNCHANGED <<flash, flag, host, downloads, history>>

Whole(d) == size[d] \in Cells /\ \A n \in 1 .. size[d] : flash[n] = <<d, n>>

(* A running application writes the flag and restarts.                     *)
AppRequestsUpgrade ==
  /\ mode = "app" /\ downloads < MaxDownloads /\ flash[1] # Erased /\ Whole(flash[1][1])
  /\ flag' = TRUE /\ mode' = "off" /\ StaticZero
  /\ UNCHANGED <<flash, host, downloads, mishaps, history>>

-----------------------------------------------------------------------------
(* fw_update, in the thread of transport t.                                *)

Turn(t) == mode = "boot" /\ (t = "can" \/ pc["can"] \in {"idle", "jump"})
Receive(t) == Turn(t) /\ pc[t] = "idle" /\ cb' = t
At(t, where) == Turn(t) /\ pc[t] = where
Go(t, where) == pc' = [pc EXCEPT ![t] = where]

(* The transport answered last is told; an error ends its host's download. *)
Refused == host' = [host EXCEPT ![cb] = Silent]

(* Frames of two transports in one download spoil what was complete.       *)
Unmixed(images) == IF mixed' THEN {} ELSE images

(* A host that has no download under way makes nothing of the answer.      *)
ToldToSend == host' = IF host[cb] = Silent THEN host ELSE [host EXCEPT ![cb].next = 1]

(* Mutant: the frame count is not reset.                                   *)
StartKeepsCount(t) ==
  /\ Receive(t) /\ downloads < MaxDownloads /\ downloads' = downloads + 1
  /\ \E s \in Sizes : total' = s /\ size' = [size EXCEPT ![downloads'] = s]
  /\ received' = (IF received < total' THEN received ELSE total')
  /\ addr' = 1 /\ buffer' = <<>>
  /\ Go(t, IF total' = 0 THEN "idle" ELSE "erase") /\ page' = [page EXCEPT ![t] = 1]
  /\ host' = [host EXCEPT ![t] = [download |-> downloads', next |-> IF total' = 0 THEN 1 ELSE 0]]
  /\ broken' = FALSE /\ owner' = t /\ mixed' = \E u \in Transports \ {t} : pc[u] # "idle"
  /\ complete' = Unmixed(complete) /\ UNCHANGED <<mode, flash, flag, mishaps>>

(* BOARD_START_UPDATE, up to the first page; a size of 0 has none, and the *)
(* host is told to send at once.                                           *)
Start(t) ==
  /\ Receive(t) /\ downloads < MaxDownloads /\ downloads' = downloads + 1
  /\ \E s \in Sizes : total' = s /\ size' = [size EXCEPT ![downloads'] = s]
  /\ received' = 0 /\ addr' = 1 /\ buffer' = <<>>
  /\ Go(t, IF total' = 0 THEN "idle" ELSE "erase") /\ page' = [page EXCEPT ![t] = 1]
  /\ host' = [host EXCEPT ![t] = [download |-> downloads', next |-> IF total' = 0 THEN 1 ELSE 0]]
  /\ broken' = FALSE /\ owner' = t /\ mixed' = \E u \in Transports \ {t} : pc[u] # "idle"
  /\ complete' = Unmixed(complete) /\ UNCHANGED <<mode, flash, flag, mishaps>>

(* Mutant: the last page first.                                            *)
ErasedDownwards(t) == LastPage(size[host[t].download]) + 1 - page[t]
(* The pages that hold the announced size, or all there are, in the order  *)
(* they are erased.                                                        *)
ErasedPage(t) == page[t]

(* One page; after the last the host is told to send.                      *)
ErasePage(t) ==
  /\ At(t, "erase") /\ UNCHANGED <<mode, static, downloads, history>>
  /\ \/ /\ UNCHANGED mishaps
        /\ flash' = [c \in Cells |-> IF PageOf(c) = ErasedPage(t) THEN Erased ELSE flash[c]]
        /\ flag' = (flag /\ ErasedPage(t) # Pages)
        /\ page' = [page EXCEPT ![t] = @ + 1]
        /\ IF page[t] = LastPage(size[host[t].download])
           THEN Go(t, "idle") /\ ToldToSend
           ELSE UNCHANGED <<pc, host>>
     \/ Mishap /\ Go(t, "idle") /\ Refused /\ UNCHANGED <<flash, flag, page>>

Sending(t) == host[t].next \in 1 .. size[host[t].download]
SentNext(t) == host' = [host EXCEPT ![t].next = @ + 1]

(* A full queue of the transport, or a check sum that does not match.      *)
Lost(t) ==
  /\ mode = "boot" /\ Mishap /\ Sending(t) /\ SentNext(t)
  /\ UNCHANGED <<mode, flash, flag, static, pc, page, downloads, history>>

(* A frame beyond the announced size is ignored.                           *)
Extra(t) ==
  /\ Receive(t) /\ Sending(t) /\ received >= total /\ SentNext(t)
  /\ UNCHANGED <<mode, flash, flag, buffer, addr, total, received, pc, page, downloads, mishaps,
                 history>>

(* Mutant: the frame count is not compared with the announced size.       *)
DataUncounted(t) ==
  /\ Receive(t) /\ Sending(t) /\ SentNext(t)
  /\ Len(buffer) <= BufferFrames
  /\ buffer' = Append(buffer, <<host[t].download, host[t].next>>) /\ received' = received + 1
  /\ Go(t, IF Len(buffer') >= BufferFrames \/ received' >= total THEN "write" ELSE "idle")
  /\ mixed' = (mixed \/ owner # t) /\ complete' = Unmixed(complete)
  /\ UNCHANGED <<mode, flash, flag, addr, total, page, downloads, mishaps, broken, owner, size>>

Data(t) ==
  /\ Receive(t) /\ Sending(t) /\ received < total /\ SentNext(t)
  /\ Len(buffer) <= BufferFrames   \* one frame past the end is as far as is followed
  /\ buffer' = Append(buffer, <<host[t].download, host[t].next>>) /\ received' = received + 1
  /\ Go(t, IF Len(buffer') >= BufferFrames \/ received' >= total THEN "write" ELSE "idle")
  /\ mixed' = (mixed \/ owner # t) /\ complete' = Unmixed(complete)
  /\ UNCHANGED <<mode, flash, flag, addr, total, page, downloads, mishaps, broken, owner, size>>

Target == addr .. addr + Len(buffer) - 1
Writable == Target \subseteq Cells /\ \A c \in Target : flash[c] = Erased
Written == [c \in Cells |-> IF c \in Target THEN buffer[c - addr + 1] ELSE flash[c]]

(* flash_write of a full buffer, or of the last one.                       *)
FlashWrite(t) ==
  /\ At(t, "write")
  /\ \/ Writable /\ flash' = Written /\ Go(t, "advance") /\ UNCHANGED <<host, mishaps, broken>>
     \/ ~Writable /\ Refused /\ Go(t, "idle") /\ broken' = TRUE /\ UNCHANGED <<flash, mishaps>>
     \/ Mishap /\ Refused /\ Go(t, "idle") /\ broken' = TRUE /\ UNCHANGED flash
  /\ UNCHANGED <<mode, flag, static, page, downloads, mixed, owner, complete, size>>

(* Mutant: the index of the buffer is not reset.                           *)
AdvanceKeepsIndex(t) ==
  /\ At(t, "advance") /\ Go(t, "idle")
  /\ addr' = addr + Len(buffer)
  /\ UNCHANGED <<mode, flash, flag, buffer, total, received, cb, page, host, downloads, mishaps,
                 broken, mixed, owner, size>>
  /\ complete' = Unmixed(complete \cup {d \in 1 .. downloads : Whole(d)})

Advance(t) ==
  /\ At(t, "advance") /\ Go(t, "idle")
  /\ addr' = addr + Len(buffer) /\ buffer' = <<>>
  /\ UNCHANGED <<mode, flash, flag, total, received, cb, page, host, downloads, mishaps,
                 broken, mixed, owner, size>>
  /\ complete' = Unmixed(complete \cup {d \in 1 .. downloads : Whole(d)})

(* BOARD_CONFIRM: what the buffer still holds is written, whatever comes   *)
(* of it; the counts decide.                                               *)
Confirm(t) ==
  /\ Receive(t) /\ host[t].next > size[host[t].download] /\ host[t].download > 0
  /\ IF buffer = <<>> THEN UNCHANGED <<flash, addr, buffer, broken, mishaps>>
     ELSE /\ addr' = addr + Len(buffer) /\ buffer' = <<>>
          /\ \/ Writable /\ flash' = Written /\ UNCHANGED <<broken, mishaps>>
             \/ ~Writable /\ broken' = TRUE /\ UNCHANGED <<flash, mishaps>>
             \/ Mishap /\ broken' = TRUE /\ UNCHANGED flash
  /\ host' = [host EXCEPT ![t] = Silent]
  /\ Go(t, IF received = total THEN "jump" ELSE "idle")
  /\ UNCHANGED <<mode, flag, total, received, page, downloads, mixed, owner, complete, size>>

(* 100 ms after its answer.                                                *)
JumpToApp(t) ==
  /\ At(t, "jump") /\ mode' = "app" /\ StaticZero
  /\ UNCHANGED <<flash, flag, host, downloads, mishaps, history>>

(* BOARD_REBOOT                                                            *)
Reboot(t) ==
  /\ Turn(t) /\ pc[t] = "idle" /\ mode' = "off" /\ StaticZero
  /\ UNCHANGED <<flash, flag, host, downloads, mishaps, history>>

-----------------------------------------------------------------------------
BootNext ==
  \/ PowerUp \/ PowerCut \/ AppRequestsUpgrade
  \/ \E t \in Transports :
       \/ Start(t) \/ ErasePage(t) \/ Lost(t) \/ Extra(t) \/ Data(t) \/ FlashWrite(t) \/ Advance(t)
       \/ Confirm(t) \/ JumpToApp(t) \/ Reboot(t)

BootSpec == BootInit /\ [][BootNext]_bootVars

-----------------------------------------------------------------------------
(* A confirmed download is started (fw_upgrade.c:86-94) only if the flash  *)
(* holds every frame of one download in its place, whatever was lost, cut  *)
(* or started over before: as long as one transport was used, every write  *)
(* succeeded and a download of some size was announced since power-up.  An *)
(* image that does not fit is never confirmed.                             *)
ConfirmedWhole ==
  [][mode = "boot" /\ mode' = "app" /\ total > 0 /\ ~mixed /\ ~broken
       => \E d \in 1 .. downloads : size[d] = total /\ Whole(d)]_bootVars

(* A power-up does not start (main.c:71-73) an image that was once         *)
(* complete and has lost a part: an erase that is cut short has taken the  *)
(* first page, with the words that are verified, before any other.  Images *)
(* that share the page of the flag are left out, and those that were in    *)
(* flash before two transports took part in one download.                  *)
StartedInFull ==
  [][mode = "off" /\ mode' = "app"
       => LET d == flash[1][1]
          IN d \in complete /\ PageOf(size[d]) < Pages => Whole(d)]_bootVars

(* fw_update never stores past the end of flash_buffer (fw_upgrade.c:109): *)
(* its index goes back to 0 before the next frame, after a failed write    *)
(* too because the host starts over, unless two transports take part.      *)
BufferKept == Len(buffer) > BufferFrames => mixed
=============================================================================
