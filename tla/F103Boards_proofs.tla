-------------------------- MODULE F103Boards_proofs --------------------------
(***************************************************************************)
(* What the two programs keep to, for flashes, buffers and images of any   *)
(* size and any number of downloads, mishaps and commands.                 *)
(*                                                                         *)
(* The bootloader.  Its statics belong to the transport that started the   *)
(* download as long as no other takes part (Alone), and then the count of  *)
(* received frames runs behind what the host has sent, or every frame of   *)
(* it is in its place, in the buffer or in flash (InPlace).  Across        *)
(* downloads, an image that was complete is complete still or has lost its *)
(* first frame (Standing).                                                 *)
(*                                                                         *)
(* laser_ctrl.  Of the two threads that write the partition the one of     *)
(* higher priority finds it as it has erased it, the other finds it blank  *)
(* or already written for it (RegisterInv).  An exchange with the sensor   *)
(* that begins on a quiet line and alone is followed from the request to   *)
(* its answer (SoloInv, SyncInv).                                          *)
(***************************************************************************)
EXTENDS F103Boards, SequenceTheorems, TLAPS

LEMMA Constants ==
  /\ Pages \in Nat /\ Pages > 0 /\ PageFrames \in Nat /\ PageFrames > 0
  /\ BufferFrames \in Nat /\ BufferFrames > 0
  /\ MaxDownloads \in Nat /\ MaxMishaps \in Nat
  /\ Slots \in Nat /\ Slots > 0 /\ Image \in Nat /\ Image > 0
  /\ MaxCommands \in Nat /\ MaxFaults \in Nat
  BY BootAssumption, LaserAssumption

USE Constants

-----------------------------------------------------------------------------
(* Frames and pages.                                                       *)

LEMMA SizesFit ==
  /\ Pages * PageFrames \in Nat /\ 1 \in Cells /\ Cells \subseteq Nat \ {0}
  /\ Sizes \subseteq Nat /\ Sizes \cup {0} \subseteq Nat
  /\ \A c \in Cells : 1 .. c \subseteq Cells /\ c <= Pages * PageFrames
  /\ \A n \in Nat \ {0} : n \in Cells <=> n <= Pages * PageFrames
<1>1. Pages * PageFrames \in Nat /\ Pages * PageFrames > 0
  OBVIOUS
<1> DEFINE n == Pages * PageFrames
<1>2. n \in Nat /\ n > 0 /\ Cells = 1 .. n
  BY <1>1 DEF Cells
<1> HIDE DEF n
<1>3. /\ 1 \in Cells /\ Cells \subseteq Nat \ {0}
      /\ \A c \in Cells : 1 .. c \subseteq Cells /\ c <= n
      /\ \A m \in Nat \ {0} : m \in Cells <=> m <= n
  BY <1>2
<1> QED
  BY <1>2, <1>3, BootAssumption DEF n

LEMMA PageOrder ==
  /\ \A c \in Cells : PageOf(c) \in 1 .. Pages
  /\ \A c \in Cells : \A b \in 1 .. c : PageOf(b) <= PageOf(c)
  /\ PageOf(1) = 1
  /\ \A s \in Nat : s > 0 => LastPage(s) \in 1 .. Pages
<1>1. Pages * PageFrames \in Nat /\ Cells = 1 .. Pages * PageFrames
  BY DEF Cells
<1>2. ASSUME NEW c \in Cells PROVE PageOf(c) \in 1 .. Pages
  <2>1. c - 1 \in Nat /\ c - 1 < Pages * PageFrames
    BY <1>1
  <2>2. (c - 1) \div PageFrames \in Nat /\ (c - 1) \div PageFrames < Pages
    BY <2>1
  <2> QED
    BY <2>2 DEF PageOf
<1>3. ASSUME NEW c \in Cells, NEW b \in 1 .. c PROVE PageOf(b) <= PageOf(c)
  <2>1. c - 1 \in Nat /\ b - 1 \in Nat /\ b - 1 <= c - 1
    BY <1>1
  <2>2. (b - 1) \div PageFrames <= (c - 1) \div PageFrames
    BY <2>1
  <2>3. (b - 1) \div PageFrames \in Nat /\ (c - 1) \div PageFrames \in Nat
    BY <2>1
  <2> QED
    BY <2>2, <2>3 DEF PageOf
<1>4. PageOf(1) = 1
  BY DEF PageOf
<1>5. ASSUME NEW s \in Nat, s > 0 PROVE LastPage(s) \in 1 .. Pages
  BY <1>2, <1>5, SizesFit DEF LastPage
<1> QED
  BY <1>2, <1>3, <1>4, <1>5

-----------------------------------------------------------------------------
(* The invariant of the bootloader.                                        *)

BootTypes ==
  /\ mode \in {"off", "boot", "app"} /\ flag \in BOOLEAN
  /\ flash \in [Cells -> {Erased} \cup (Downloads \X Nat)]
  /\ buffer \in Seq(Downloads \X Nat)
  /\ total \in Sizes \cup {0} /\ received \in 0 .. total /\ addr \in Nat \ {0}
  /\ pc \in [Transports -> {"idle", "erase", "write", "advance", "jump"}]
  /\ page \in [Transports -> 1 .. Pages + 1]
  /\ host \in [Transports -> [download : Downloads, next : Nat]]
  /\ size \in [Downloads -> Sizes \cup {0}]

Ranges ==
  /\ cb \in Transports /\ owner \in Transports
  /\ downloads \in Downloads /\ mishaps \in 0 .. MaxMishaps
  /\ broken \in BOOLEAN /\ mixed \in BOOLEAN /\ complete \subseteq Downloads

(* fw_update runs in the bootloader only; it starts with cleared statics.  *)
Stopped ==
  mode # "boot" => /\ buffer = <<>> /\ addr = 1 /\ total = 0 /\ received = 0
                   /\ \A t \in Transports : pc[t] = "idle"

(* The frames received are those written and those in the buffer.          *)
Counted == addr + Len(buffer) = received + 1 /\ Len(buffer) <= BufferFrames + 1

(* What a host sends, and what fw_update erases, is of an announced size.  *)
Hosts ==
  /\ \A d \in Downloads : d <= downloads => size[d] \in Sizes
  /\ \A t \in Transports : /\ host[t].download <= downloads
                           /\ host[t].download = 0 => host[t].next = 0
                           /\ host[t].next <= size[host[t].download] + 1
                           /\ pc[t] = "erase" => /\ host[t].download > 0
                                                /\ size[host[t].download] > 0
                           /\ pc[t] = "erase" => page[t] <= LastPage(size[host[t].download])
  /\ pc["can"] \in {"erase", "write", "advance"} => cb = "can"
  /\ total > 0 => downloads > 0 /\ size[downloads] = total
  /\ total > 0 => host[owner].download \in {0, downloads}

(* The other transport has nothing under way.                              *)
Alone == ~mixed => \A t \in Transports : t # owner => pc[t] \in {"idle", "jump"}

(* A full buffer is being written, or nothing more is sent.                *)
Bounded ==
  ~mixed =>
    /\ Len(buffer) <= BufferFrames
    /\ Len(buffer) >= BufferFrames /\ received < total
         => (pc[owner] \in {"write", "advance"} /\ cb = owner) \/ host[owner].next = 0
    /\ pc[owner] = "erase" => received = 0
    /\ \A i \in 1 .. Len(buffer) : buffer[i][1] = downloads
    /\ \A t \in Transports : pc[t] = "jump" => received = total /\ buffer = <<>>

(* Every frame received is in its place, or one was lost: then the count   *)
(* stays behind the frames the host has sent, or behind their number.      *)
Content ==
  \A p \in 1 .. received :
    /\ p < addr => p \in Cells /\ flash[p] = <<downloads, p>>
    /\ p >= addr => buffer[p - addr + 1] = <<downloads, p>>
Promised == IF host[owner].download = downloads THEN host[owner].next - 1 ELSE total
InPlace ==
  ~mixed /\ ~broken /\ total > 0 =>
    /\ received <= Promised \/ received = 0
    /\ received < Promised \/ Content
    /\ pc[owner] = "advance"
         => \A p \in addr .. received : p \in Cells /\ flash[p] = buffer[p - addr + 1]

(* The image at the start of the flash.                                    *)
Standing ==
  /\ flash[1] # Erased /\ flash[1][1] \in complete /\ PageOf(size[flash[1][1]]) < Pages
       => Whole(flash[1][1])
  /\ mixed => complete = {}
  /\ \A d \in complete : d <= downloads
  /\ ~mixed /\ pc[owner] = "erase" => downloads \notin complete
  /\ ~mixed /\ pc[owner] = "erase" /\ page[owner] > 1 => flash[1] = Erased
  /\ ~mixed /\ total > 0 /\ downloads \in complete => flash[1] # Erased

BootInv == /\ BootTypes /\ Ranges /\ Stopped /\ Counted /\ Hosts
           /\ Alone /\ Bounded /\ InPlace /\ Standing

-----------------------------------------------------------------------------
LEMMA InitBoot == BootInit => BootInv
<1> SUFFICES ASSUME BootInit PROVE BootInv
  OBVIOUS
<1>1. PICK s \in Sizes \cap Cells :
             /\ size = [d \in Downloads |-> IF d = 0 THEN s ELSE 0]
             /\ flash = [c \in Cells |-> IF c <= s THEN <<0, c>> ELSE Erased]
  BY DEF BootInit
<1>2. 0 \in Downloads /\ Len(<<>>) = 0 /\ <<>> \in Seq(Downloads \X Nat)
  BY DEF Downloads
<1>3. flash \in [Cells -> {Erased} \cup (Downloads \X Nat)] /\ flash[1] = <<0, 1>>
  BY <1>1, <1>2, SizesFit DEF Erased
<1>4. BootTypes
  <2>1. Silent \in [download : Downloads, next : Nat]
    BY <1>2, SizesFit DEF Silent
  <2>2. /\ page \in [Transports -> 1 .. Pages + 1]
        /\ size \in [Downloads -> Sizes \cup {0}]
        /\ host \in [Transports -> [download : Downloads, next : Nat]]
        /\ pc \in [Transports -> {"idle", "erase", "write", "advance", "jump"}]
    BY <1>1, <2>1 DEF BootInit
  <2>3. flag \in BOOLEAN /\ mode = "off"
    BY Zenon DEF BootInit
  <2>4. buffer = <<>> /\ addr = 1 /\ total = 0 /\ received = 0
    BY DEF BootInit
  <2> QED
    BY <1>2, <1>3, <2>2, <2>3, <2>4 DEF BootTypes
<1>9. Ranges
  <2>1. cb = "can" /\ owner = "can" /\ downloads = 0 /\ mishaps = 0 /\ complete = {0}
    BY DEF BootInit
  <2>2. broken \in BOOLEAN /\ mixed \in BOOLEAN
    BY Zenon DEF BootInit
  <2> QED
    BY <1>2, <2>1, <2>2 DEF Ranges, Transports
<1>5. Stopped /\ Counted /\ Alone /\ Bounded /\ InPlace
  BY <1>1, <1>2 DEF BootInit, Stopped, Counted, Alone, Bounded, InPlace
<1>6. Hosts
  BY <1>1, <1>2, SizesFit DEF BootInit, Hosts, Downloads, Silent, Transports
<1>7. Whole(0) /\ flash[1][1] = 0
  BY <1>1, <1>2, <1>3, SizesFit DEF Whole
<1>8. Standing
  BY <1>1, <1>2, <1>7 DEF BootInit, Standing, Transports
<1> QED
  BY <1>4, <1>5, <1>6, <1>8, <1>9 DEF BootInv

(* A restart clears the statics and leaves the flash and the hosts.        *)
LEMMA RestartKeeps ==
  ASSUME BootInv, StaticZero, mode' \in {"off", "app"}, flag' \in BOOLEAN,
         mishaps' \in 0 .. MaxMishaps, UNCHANGED <<flash, host, downloads, history>>
  PROVE  BootInv'
<1>1. Len(<<>>) = 0 /\ <<>> \in Seq(Downloads \X Nat)
  OBVIOUS
<1>2. BootTypes'
  BY <1>1 DEF BootInv, BootTypes, StaticZero, history
<1>3. Ranges'
  BY DEF BootInv, Ranges, StaticZero, history, Transports
<1>4. Stopped' /\ Counted' /\ Alone' /\ Bounded' /\ InPlace'
  BY <1>1 DEF BootInv, Ranges, Stopped, Counted, Alone, Bounded, InPlace, StaticZero, history,
              Transports
<1>5. Hosts'
  BY DEF BootInv, Hosts, StaticZero, history, Transports
<1>6. \A d : Whole(d)' = Whole(d)
  BY DEF Whole, history
<1>7. Standing'
  BY <1>6 DEF BootInv, Ranges, Standing, StaticZero, history
<1> QED
  BY <1>2, <1>3, <1>4, <1>5, <1>7 DEF BootInv

LEMMA PowerUpKeeps == ASSUME BootInv, PowerUp PROVE BootInv'
<1> DEFINE flushed == [c \in Cells |-> IF PageOf(c) = Pages THEN Erased ELSE flash[c]]
<1>1. /\ UNCHANGED <<static, pc, page, host, downloads, mishaps, history>>
      /\ mode = "off" /\ mode' \in {"boot", "app"}
      /\ flash' \in {flash, flushed} /\ flag' \in {flag, FALSE}
  BY DEF PowerUp, ClearUpgradeFlag
<1>2. /\ total = 0 /\ \A t \in Transports : pc[t] = "idle"
      /\ buffer = <<>> /\ addr = 1 /\ received = 0
  BY <1>1 DEF BootInv, Stopped
<1>3. flushed \in [Cells -> {Erased} \cup (Downloads \X Nat)]
  BY DEF BootInv, BootTypes
<1>4. BootTypes'
  BY <1>1, <1>3 DEF BootInv, BootTypes, static, history
<1>5. Ranges' /\ Stopped' /\ Counted' /\ Hosts' /\ Alone' /\ Bounded' /\ InPlace'
  BY <1>1, <1>2 DEF BootInv, Ranges, Stopped, Counted, Hosts, Alone, Bounded, InPlace, static,
                    history
<1>6. Standing'
  <2> PICK d : d = flash[1][1]
    OBVIOUS
  <2>1. (Standing /\ Ranges)
        /\ \A t \in Transports : pc[t] = "idle"
    BY <1>2 DEF BootInv
  <2>2. CASE flash' = flash
    <3>1. \A x : Whole(x)' = Whole(x)
      BY <1>1, <2>2 DEF Whole, history
    <3> QED
      BY <1>1, <2>1, <2>2, <3>1 DEF Standing, static, history
  <2>3. CASE flash' = flushed
    <3>1. 1 \in Cells /\ (flash'[1] = Erased \/ flash'[1] = flash[1])
      BY <2>3, SizesFit
    <3>2. ASSUME flash'[1] # Erased, d \in complete, PageOf(size[d]) < Pages
          PROVE  Whole(d)'
      <4>1. Whole(d) /\ flash[1] # Erased
        BY <2>1, <3>1, <3>2 DEF Standing
      <4>2. size[d] \in Cells
        BY <4>1 DEF Whole
      <4>3. ASSUME NEW n \in 1 .. size[d] PROVE flash'[n] = <<d, n>>
        <5>1. n \in Cells /\ PageOf(n) <= PageOf(size[d]) /\ PageOf(n) \in 1 .. Pages
              /\ PageOf(size[d]) \in 1 .. Pages
          BY <4>2, SizesFit, PageOrder
        <5>2. PageOf(n) # Pages
          BY <3>2, <5>1
        <5> QED
          BY <2>3, <4>1, <5>1, <5>2 DEF Whole
      <4> QED
        BY <1>1, <4>2, <4>3 DEF Whole, history
    <3>3. flash'[1] # Erased => flash'[1][1] = d
      BY <3>1
    <3> QED
      BY <1>1, <1>2, <2>1, <3>2, <3>3 DEF Standing, static, history, Ranges
  <2> QED
    BY <1>1, <2>2, <2>3
<1> QED
  BY <1>4, <1>5, <1>6 DEF BootInv

LEMMA Numbers ==
  ASSUME BootInv
  PROVE  /\ total \in Nat /\ received \in Nat /\ received <= total /\ addr \in Nat /\ addr > 0
         /\ downloads \in Nat /\ owner \in Transports /\ cb \in Transports
         /\ Len(buffer) \in Nat /\ addr + Len(buffer) = received + 1
         /\ \A t \in Transports : host[t].next \in Nat /\ host[t].download \in Downloads
         /\ Downloads \subseteq Nat /\ 0 \in Downloads
         /\ "can" \in Transports /\ "uart" \in Transports
  BY SizesFit, SMTT(30) DEF BootInv, BootTypes, Ranges, Counted, Downloads, Transports

(* A host sends its next frame.                                            *)
LEMMA SentFacts ==
  ASSUME BootInv, NEW t \in Transports, Sending(t), SentNext(t)
  PROVE  /\ host' \in [Transports -> [download : Downloads, next : Nat]]
         /\ \A u \in Transports \ {t} : host'[u] = host[u]
         /\ host'[t].download = host[t].download /\ host'[t].next = host[t].next + 1
         /\ host[t].next \in 1 .. size[host[t].download]
         /\ host[t].download > 0 /\ host[t].download \in Downloads
         /\ host[t].next \in Nat /\ host[t].next > 0 /\ size[host[t].download] \in Sizes
<1>1. /\ host \in [Transports -> [download : Downloads, next : Nat]]
      /\ host[t].download \in Downloads /\ host[t].download <= downloads
      /\ host[t].download = 0 => host[t].next = 0
      /\ downloads \in Downloads /\ Downloads \subseteq Nat
  BY DEF BootInv, BootTypes, Hosts, Ranges, Downloads
<1>2. size[host[t].download] \in Sizes
  BY <1>1 DEF BootInv, Hosts
<1>3. size[host[t].download] \in Nat
  BY <1>2, SizesFit
<1>4. host[t].next \in 1 .. size[host[t].download]
  BY DEF Sending
<1>5. host[t].next \in Nat /\ host[t].next > 0 /\ host[t].next + 1 \in Nat
  BY <1>3, <1>4
<1>6. host[t].download > 0
  <2>1. host[t].next # 0
    BY <1>3, <1>4
  <2>2. host[t].download \in Nat
    BY <1>1
  <2> QED
    BY <1>1, <2>1, <2>2
<1> QED
  BY <1>1, <1>2, <1>3, <1>4, <1>5, <1>6 DEF SentNext

(* The count is never ahead of the owner's host.                           *)
LEMMA OwnerBehind ==
  ASSUME BootInv, total > 0, ~mixed, ~broken, Sending(owner)
  PROVE  host[owner].download = downloads /\ received <= host[owner].next - 1 /\ received < total
<1>1. host[owner].download \in {0, downloads} /\ total = size[downloads]
      /\ host[owner].next \in 1 .. size[host[owner].download]
      /\ (host[owner].download = 0 => host[owner].next = 0) /\ owner \in Transports
  BY DEF BootInv, Hosts, Ranges, Sending
<1>2. host[owner].download = downloads
  BY <1>1
<1>3. total \in Nat /\ received \in Nat
  BY SizesFit DEF BootInv, BootTypes
<1>4. received <= host[owner].next - 1
  BY <1>1, <1>2, <1>3 DEF BootInv, InPlace, Promised
<1> QED
  BY <1>1, <1>2, <1>3, <1>4

LEMMA SentHosts ==
  ASSUME BootInv, NEW t \in Transports, Sending(t), SentNext(t),
         pc' \in [Transports -> {"idle", "erase", "write", "advance", "jump"}],
         UNCHANGED <<page, downloads, size, total, owner>>,
         \A u \in Transports : pc'[u] = "erase" => pc[u] = "erase",
         pc'["can"] \in {"erase", "write", "advance"} => cb' = "can"
  PROVE  Hosts'
<1>1. ASSUME NEW u \in Transports
      PROVE  /\ host'[u].download = host[u].download
             /\ host'[u].download <= downloads
             /\ host'[u].download = 0 => host'[u].next = 0
             /\ host'[u].next <= size[host'[u].download] + 1
  <2>1. CASE u = t
    <3>1. /\ host'[t].download = host[t].download /\ host'[t].next = host[t].next + 1
          /\ host[t].next <= size[host[t].download] /\ host[t].download > 0
          /\ size[host[t].download] \in Nat /\ host[t].download <= downloads
      <4>1. host[t].download <= downloads
        BY DEF BootInv, Hosts
      <4>2. /\ host[t].next \in 1 .. size[host[t].download] /\ host[t].download > 0
            /\ size[host[t].download] \in Nat
            /\ host'[t].download = host[t].download /\ host'[t].next = host[t].next + 1
        BY SentFacts, SizesFit
      <4> QED
        BY <4>1, <4>2
    <3> QED
      BY <2>1, <3>1, Numbers, SMTT(30)
  <2>2. CASE u # t
    BY <2>2, SentFacts DEF BootInv, Hosts
  <2> QED
    BY <2>1, <2>2
<1> QED
  BY <1>1, Numbers DEF BootInv, Hosts

LEMMA LostKeeps ==
  ASSUME BootInv, NEW t \in Transports, Lost(t) PROVE BootInv'
<1>1. /\ Sending(t) /\ SentNext(t) /\ mode = "boot" /\ mishaps' \in 0 .. MaxMishaps
      /\ UNCHANGED <<mode, flash, flag, static, pc, page, downloads, history>>
  BY DEF Lost, Mishap, BootInv, Ranges
<1>2. BootTypes' /\ Ranges'
  BY <1>1, SentFacts DEF BootInv, BootTypes, Ranges, static, history
<1>3. Stopped' /\ Counted' /\ Alone' /\ Standing'
  BY <1>1 DEF BootInv, Stopped, Counted, Alone, Standing, Whole, static, history
<1>4. Hosts'
  BY <1>1, SentHosts DEF BootInv, BootTypes, Hosts, static, history
<1>5. host[owner].next = 0 => owner # t
  <2>1. host[t].next \in 1 .. size[host[t].download]
    BY <1>1 DEF Sending
  <2> QED
    BY <2>1
<1>6. Bounded'
  BY <1>1, <1>5, SentFacts, Numbers DEF BootInv, Bounded, static, history
<1>7. InPlace'
  <2> SUFFICES ASSUME ~mixed, ~broken, total > 0
               PROVE  InPlace'
    BY <1>1 DEF InPlace, static, history
  <2>1. CASE owner = t
    <3>1. received <= host[owner].next - 1 /\ host'[owner].download = downloads
          /\ host'[owner].next = host[owner].next + 1
      BY <1>1, <2>1, OwnerBehind, SentFacts
    <3>2. Promised' = host[owner].next /\ received < host[owner].next
      BY <1>1, <3>1, Numbers, SMTT(30) DEF Promised, static, history
    <3>3. pc[owner] = "advance"
            => \A p \in addr .. received : p \in Cells /\ flash[p] = buffer[p - addr + 1]
      BY DEF BootInv, InPlace
    <3> QED
      BY <1>1, <3>2, <3>3, Numbers DEF InPlace, static, history
  <2>2. CASE owner # t
    <3>1. host'[owner] = host[owner]
      BY <1>1, <2>2, SentFacts, Numbers
    <3> QED
      BY <1>1, <3>1, Numbers DEF BootInv, InPlace, Promised, Content, static, history
  <2> QED
    BY <2>1, <2>2
<1> QED
  BY <1>2, <1>3, <1>4, <1>6, <1>7 DEF BootInv

LEMMA ExtraKeeps ==
  ASSUME BootInv, NEW t \in Transports, Extra(t) PROVE BootInv'
<1>1. /\ Sending(t) /\ SentNext(t) /\ mode = "boot" /\ cb' = t /\ received >= total /\ pc[t] = "idle"
      /\ Turn(t)
      /\ UNCHANGED <<mode, flash, flag, buffer, addr, total, received, pc, page, downloads, mishaps,
                     history>>
  BY DEF Extra, Receive, Turn
<1>2. BootTypes' /\ Ranges'
  BY <1>1, SentFacts DEF BootInv, BootTypes, Ranges, history
<1>3. Stopped' /\ Counted' /\ Alone' /\ Standing'
  BY <1>1 DEF BootInv, Stopped, Counted, Alone, Standing, Whole, history
<1>4. Hosts'
  <2>1. pc["can"] \in {"erase", "write", "advance"} => FALSE
    BY <1>1 DEF Turn, Transports
  <2> QED
    BY <1>1, <2>1, SentHosts DEF BootInv, BootTypes, history
<1>5. Bounded'
  BY <1>1, Numbers DEF BootInv, Bounded, history
<1>6. InPlace'
  <2> SUFFICES ASSUME ~mixed, ~broken, total > 0
               PROVE  InPlace'
    BY <1>1 DEF InPlace, history
  <2>1. owner # t
    BY <1>1, OwnerBehind, Numbers
  <2>2. host'[owner] = host[owner]
    BY <1>1, <2>1, SentFacts, Numbers
  <2> QED
    BY <1>1, <2>2, Numbers DEF BootInv, InPlace, Promised, Content, history
<1> QED
  BY <1>2, <1>3, <1>4, <1>5, <1>6 DEF BootInv

(* A frame goes to the end of the buffer.                                  *)
LEMMA DataKeeps ==
  ASSUME BootInv, NEW t \in Transports, Data(t) PROVE BootInv'
<1> DEFINE frame == <<host[t].download, host[t].next>>
           next  == IF Len(buffer') >= BufferFrames \/ received' >= total THEN "write" ELSE "idle"
<1>1. /\ mode = "boot" /\ (t = "can" \/ pc["can"] \in {"idle", "jump"}) /\ pc[t] = "idle"
      /\ cb' = t /\ Sending(t) /\ SentNext(t) /\ received < total /\ Len(buffer) <= BufferFrames
      /\ received' = received + 1 /\ pc' = [pc EXCEPT ![t] = next]
      /\ UNCHANGED <<mode, flash, flag, addr, total, page, downloads, mishaps, broken, owner, size>>
  BY DEF Data, Receive, Turn, Go
<1>2. /\ frame \in Downloads \X Nat /\ frame[1] = host[t].download /\ frame[2] = host[t].next
      /\ frame = <<host[t].download, host[t].next>>
  BY <1>1, SentFacts
<1>3. buffer' = Append(buffer, frame)
  BY DEF Data
<1> HIDE DEF frame
<1>4. /\ buffer' \in Seq(Downloads \X Nat) /\ Len(buffer') = Len(buffer) + 1
      /\ buffer'[Len(buffer) + 1] = frame
      /\ \A i \in 1 .. Len(buffer) : buffer'[i] = buffer[i]
  BY <1>2, <1>3, AppendProperties DEF BootInv, BootTypes
<1>5. /\ mixed' \in BOOLEAN /\ (~mixed' => ~mixed /\ owner = t)
      /\ complete' \in {complete, {}} /\ (mixed' => complete' = {})
  BY DEF Data, Unmixed, BootInv, Ranges
<1>6. /\ pc' \in [Transports -> {"idle", "erase", "write", "advance", "jump"}]
      /\ pc'[t] = next /\ next \in {"write", "idle"} /\ \A u \in Transports \ {t} : pc'[u] = pc[u]
  BY <1>1 DEF BootInv, BootTypes
<1>7. BootTypes'
  <2>1. received' \in 0 .. total
    BY <1>1, Numbers
  <2>2. host' \in [Transports -> [download : Downloads, next : Nat]]
    BY <1>1, SentFacts
  <2> QED
    BY <1>1, <1>4, <1>6, <2>1, <2>2 DEF BootInv, BootTypes
<1>8. Ranges' /\ Stopped' /\ Counted'
  <2>1. Ranges'
    BY <1>1, <1>5 DEF BootInv, Ranges
  <2>2. Counted'
    <3>1. /\ received' = received + 1 /\ addr' = addr /\ Len(buffer') = Len(buffer) + 1
          /\ Len(buffer) <= BufferFrames
      BY <1>1, <1>4
    <3>2. /\ received \in Nat /\ addr \in Nat /\ Len(buffer) \in Nat
          /\ addr + Len(buffer) = received + 1
      BY Numbers
    <3> QED
      BY <3>1, <3>2 DEF Counted
  <2> QED
    BY <1>1, <2>1, <2>2 DEF Stopped
<1>9. Hosts'
  BY <1>1, <1>6, SentHosts DEF Transports
<1>10. Alone'
  BY <1>1, <1>5, <1>6 DEF BootInv, Alone
<1>11. Bounded'
  <2> SUFFICES ASSUME ~mixed' PROVE Bounded'
    BY DEF Bounded
  <2>1. ~mixed /\ owner = t /\ owner' = t
    BY <1>1, <1>5
  <2>2. Len(buffer) < BufferFrames
    <3>1. host[t].next > 0
      BY <1>1, SentFacts, SizesFit
    <3> QED
      BY <1>1, <2>1, <3>1, Numbers DEF BootInv, Bounded
  <2>3. host[t].download = downloads
    <3>1. host[t].download > 0
      BY <1>1, SentFacts
    <3>2. total > 0 => host[t].download \in {0, downloads}
      BY <2>1 DEF BootInv, Hosts
    <3>3. total > 0
      BY <1>1, Numbers
    <3> QED
      BY <3>1, <3>2, <3>3
  <2>4. \A i \in 1 .. Len(buffer') : buffer'[i][1] = downloads
    <3> SUFFICES ASSUME NEW i \in 1 .. Len(buffer') PROVE buffer'[i][1] = downloads
      OBVIOUS
    <3>1. i \in 1 .. Len(buffer) \/ i = Len(buffer) + 1
      BY <1>4, Numbers
    <3> QED
      BY <1>2, <1>4, <2>1, <2>3, <3>1 DEF BootInv, Bounded
  <2>5. \A u \in Transports : pc'[u] # "jump"
    BY <1>1, <1>6, <2>1, Numbers DEF BootInv, Bounded
  <2> QED
    BY <1>1, <1>4, <1>6, <2>1, <2>2, <2>4, <2>5, Numbers DEF Bounded
<1>12. InPlace'
  <2> SUFFICES ASSUME ~mixed', ~broken, total > 0
               PROVE  InPlace'
    BY <1>1 DEF InPlace
  <2>1. ~mixed /\ owner = t /\ owner' = t
    BY <1>1, <1>5
  <2>2. host[t].download = downloads /\ received <= host[t].next - 1
    BY <1>1, <2>1, OwnerBehind
  <2>3. Promised = host[t].next - 1 /\ Promised' = host[t].next
    <3>1. host'[t].download = downloads /\ host'[t].next = host[t].next + 1
      BY <1>1, <2>2, SentFacts
    <3> QED
      BY <1>1, <2>1, <2>2, <3>1, Numbers DEF Promised
  <2>4. ASSUME received = host[t].next - 1
        PROVE  Content'
    <3>1. Content
      BY <2>1, <2>3, <2>4, Numbers DEF BootInv, InPlace
    <3> SUFFICES ASSUME NEW p \in 1 .. received + 1
                 PROVE  /\ p < addr => p \in Cells /\ flash[p] = <<downloads, p>>
                        /\ p >= addr => buffer'[p - addr + 1] = <<downloads, p>>
      BY <1>1 DEF Content
    <3>2. CASE p \in 1 .. received
      <4>1. /\ p < addr => p \in Cells /\ flash[p] = <<downloads, p>>
            /\ p >= addr => buffer[p - addr + 1] = <<downloads, p>>
        BY <3>1, <3>2 DEF Content
      <4>2. p >= addr => p - addr + 1 \in 1 .. Len(buffer)
        BY <3>2, Numbers
      <4> QED
        BY <1>4, <4>1, <4>2
    <3>3. CASE p = received + 1
      <4>1. p >= addr /\ p - addr + 1 = Len(buffer) + 1
        BY <3>3, Numbers
      <4>2. frame = <<downloads, p>>
        BY <1>2, <2>2, <2>4, <3>3, Numbers, SMTT(30)
      <4> QED
        BY <1>4, <4>1, <4>2, Numbers
    <3> QED
      BY <3>2, <3>3, Numbers
  <2> QED
    BY <1>1, <1>6, <2>1, <2>2, <2>3, <2>4, Numbers, SMTT(30) DEF InPlace
<1>13. Standing'
  BY <1>1, <1>5, <1>6 DEF BootInv, Standing, Whole
<1> QED
  BY <1>7, <1>8, <1>9, <1>10, <1>11, <1>12, <1>13 DEF BootInv

(* The buffer is counted as written; the images now in flash are noted.    *)
LEMMA AdvanceKeeps ==
  ASSUME BootInv, NEW t \in Transports, Advance(t) PROVE BootInv'
<1>1. /\ mode = "boot" /\ pc[t] = "advance" /\ pc' = [pc EXCEPT ![t] = "idle"]
      /\ addr' = addr + Len(buffer) /\ buffer' = <<>>
      /\ UNCHANGED <<mode, flash, flag, total, received, cb, page, host, downloads, mishaps,
                     broken, mixed, owner, size>>
  BY DEF Advance, At, Turn, Go
<1>2. /\ complete' \subseteq complete \cup {d \in 1 .. downloads : Whole(d)}
      /\ mixed => complete' = {}
  BY <1>1 DEF Advance, Unmixed
<1>3. Len(<<>>) = 0 /\ <<>> \in Seq(Downloads \X Nat)
  OBVIOUS
<1>4. /\ pc' \in [Transports -> {"idle", "erase", "write", "advance", "jump"}]
      /\ pc'[t] = "idle" /\ \A u \in Transports \ {t} : pc'[u] = pc[u]
  BY <1>1 DEF BootInv, BootTypes
<1>5. BootTypes'
  <2>1. addr' \in Nat \ {0}
    BY <1>1, Numbers
  <2> QED
    BY <1>1, <1>3, <1>4, <2>1 DEF BootInv, BootTypes
<1>6. 1 .. downloads \subseteq Downloads
  BY Numbers DEF BootInv, Ranges, Downloads
<1>7. Ranges' /\ Stopped' /\ Counted'
  BY <1>1, <1>2, <1>3, <1>6, Numbers DEF BootInv, Ranges, Stopped, Counted
<1>8. Hosts' /\ Alone'
  BY <1>1, <1>4 DEF BootInv, Hosts, Alone
<1>9. ~mixed => owner = t
  BY <1>1 DEF BootInv, Alone
<1>10. Bounded'
  BY <1>1, <1>3, <1>4, <1>9, Numbers DEF BootInv, Bounded
<1>11. InPlace'
  <2> SUFFICES ASSUME ~mixed, ~broken, total > 0
               PROVE  InPlace'
    BY <1>1 DEF InPlace
  <2>1. \A p \in addr .. received : p \in Cells /\ flash[p] = buffer[p - addr + 1]
    BY <1>1, <1>9 DEF BootInv, InPlace
  <2>2. ASSUME Content PROVE Content'
    <3>1. addr' = received + 1 /\ received' = received /\ flash' = flash /\ downloads' = downloads
      BY <1>1, Numbers
    <3>2. ASSUME NEW p \in 1 .. received PROVE p \in Cells /\ flash[p] = <<downloads, p>>
      <4>1. p < addr => p \in Cells /\ flash[p] = <<downloads, p>>
        BY <2>2 DEF Content
      <4>2. p >= addr => buffer[p - addr + 1] = <<downloads, p>>
        BY <2>2 DEF Content
      <4>3. p >= addr => p \in Cells /\ flash[p] = buffer[p - addr + 1]
        BY <2>1, Numbers
      <4> QED
        BY <4>1, <4>2, <4>3, Numbers
    <3> QED
      BY <3>1, <3>2, Numbers DEF Content
  <2> QED
    BY <1>1, <1>4, <1>9, <2>2, Numbers DEF BootInv, InPlace, Promised
<1>12. Standing'
  <2>1. \A d : Whole(d)' = Whole(d)
    BY <1>1 DEF Whole
  <2>2. ASSUME NEW d \in 1 .. downloads, Whole(d) PROVE flash[1] = <<d, 1>>
    <3>1. size[d] \in Nat \ {0}
      BY <2>2, SizesFit DEF Whole
    <3>2. 1 \in 1 .. size[d]
      BY <3>1
    <3> QED
      BY <2>2, <3>2 DEF Whole
  <2>3. \A d : <<d, 1>> # Erased /\ <<d, 1>>[1] = d
    BY DEF Erased
  <2>4. ~mixed => pc'[owner] # "erase"
    BY <1>4, <1>9
  <2>5. (\A d \in complete' : d <= downloads) /\ (mixed => complete' = {})
    BY <1>2, <1>6, Numbers DEF BootInv, Standing
  <2>6. ASSUME flash[1][1] \in complete', flash[1] # Erased, PageOf(size[flash[1][1]]) < Pages
        PROVE  Whole(flash[1][1])
    BY <1>2, <2>6 DEF BootInv, Standing
  <2>7. ASSUME ~mixed, total > 0, downloads \in complete'
        PROVE  flash[1] # Erased
    BY <1>2, <2>2, <2>3, <2>7 DEF BootInv, Standing
  <2> QED
    BY <1>1, <2>1, <2>4, <2>5, <2>6, <2>7 DEF Standing
<1> QED
  BY <1>5, <1>7, <1>8, <1>10, <1>11, <1>12 DEF BootInv

(* A new download: its number is larger than any that was complete.        *)
LEMMA StartKeeps ==
  ASSUME BootInv, NEW t \in Transports, Start(t) PROVE BootInv'
<1>1. /\ mode = "boot" /\ (t = "can" \/ pc["can"] \in {"idle", "jump"}) /\ pc[t] = "idle"
      /\ cb' = t /\ downloads < MaxDownloads /\ downloads' = downloads + 1
      /\ received' = 0 /\ addr' = 1 /\ buffer' = <<>>
      /\ pc' = [pc EXCEPT ![t] = IF total' = 0 THEN "idle" ELSE "erase"]
      /\ page' = [page EXCEPT ![t] = 1]
      /\ host' = [host EXCEPT ![t] = [download |-> downloads',
                                     next |-> IF total' = 0 THEN 1 ELSE 0]]
      /\ broken' = FALSE /\ owner' = t
      /\ UNCHANGED <<mode, flash, flag, mishaps>>
  BY DEF Start, Receive, Turn, Go
<1>2. PICK s \in Sizes : s \in Nat /\ total' = s /\ size' = [size EXCEPT ![downloads'] = s]
  BY SizesFit DEF Start
<1>3. /\ mixed' \in BOOLEAN /\ (~mixed' => \A u \in Transports \ {t} : pc[u] = "idle")
      /\ complete' \in {complete, {}} /\ (mixed' => complete' = {})
  BY DEF Start, Unmixed
<1>4. downloads' \in Downloads /\ downloads' > 0 /\ \A d \in Downloads : d <= downloads => d # downloads'
  BY <1>1, Numbers DEF Downloads
<1>5. /\ size' \in [Downloads -> Sizes \cup {0}] /\ size'[downloads'] = s
      /\ \A d \in Downloads : d <= downloads => size'[d] = size[d] /\ size[d] \in Sizes
  BY <1>2, <1>4 DEF BootInv, BootTypes, Hosts
<1>6. /\ host' \in [Transports -> [download : Downloads, next : Nat]]
      /\ host'[t].download = downloads' /\ host'[t].next = IF s = 0 THEN 1 ELSE 0
      /\ \A u \in Transports \ {t} : host'[u] = host[u]
  BY <1>1, <1>2, <1>4 DEF BootInv, BootTypes
<1>7. /\ pc' \in [Transports -> {"idle", "erase", "write", "advance", "jump"}]
      /\ pc'[t] = (IF s = 0 THEN "idle" ELSE "erase") /\ \A u \in Transports \ {t} : pc'[u] = pc[u]
      /\ page' \in [Transports -> 1 .. Pages + 1]
      /\ page'[t] = 1 /\ \A u \in Transports \ {t} : page'[u] = page[u]
  BY <1>1, <1>2 DEF BootInv, BootTypes
<1>8. Len(<<>>) = 0 /\ <<>> \in Seq(Downloads \X Nat)
  OBVIOUS
<1>9. BootTypes'
  <2>1. 0 \in 0 .. s
    BY SizesFit
  <2> QED
    BY <1>1, <1>2, <1>5, <1>6, <1>7, <1>8, <2>1 DEF BootInv, BootTypes
<1>10. Ranges'
  <2>1. complete' \subseteq Downloads
    BY <1>3 DEF BootInv, Ranges
  <2>2. broken' \in BOOLEAN
    BY <1>1
  <2> QED
    BY <1>1, <1>3, <1>4, <2>1, <2>2 DEF BootInv, Ranges
<1>11. Stopped' /\ Counted' /\ Alone' /\ InPlace'
  BY <1>1, <1>3, <1>7, <1>8 DEF Stopped, Counted, Alone, InPlace, Content
<1>12. Hosts'
  <2>1. \A d \in Downloads : d <= downloads' => d <= downloads \/ d = downloads'
    BY <1>1, Numbers
  <2>2. \A d \in Downloads : d <= downloads' => size'[d] \in Sizes
    BY <1>5, <2>1
  <2>3. ASSUME NEW u \in Transports
        PROVE  /\ host'[u].download <= downloads'
               /\ host'[u].download = 0 => host'[u].next = 0
               /\ host'[u].next <= size'[host'[u].download] + 1
               /\ pc'[u] = "erase" => host'[u].download > 0 /\ size'[host'[u].download] > 0
               /\ pc'[u] = "erase" => page'[u] <= LastPage(size'[host'[u].download])
    <3>1. CASE u = t
      <4>1. s > 0 => 1 <= LastPage(s)
        BY <1>2, PageOrder
      <4> QED
        BY <1>1, <1>2, <1>4, <1>5, <1>6, <1>7, <3>1, <4>1, Numbers
    <3>2. CASE u # t
      <4>1. host[u].download \in Downloads /\ host[u].download <= downloads
        BY DEF BootInv, Hosts, BootTypes
      <4>2. size'[host[u].download] = size[host[u].download]
        BY <1>5, <4>1
      <4>3. host'[u] = host[u] /\ pc'[u] = pc[u] /\ page'[u] = page[u]
        BY <1>6, <1>7, <3>2
      <4>4. host[u].download <= downloads'
        BY <1>1, <4>1, Numbers
      <4> QED
        BY <4>2, <4>3, <4>4 DEF BootInv, Hosts
    <3> QED
      BY <3>1, <3>2
  <2>4. pc'["can"] \in {"erase", "write", "advance"} => cb' = "can"
    BY <1>1, <1>7 DEF Transports
  <2> QED
    BY <1>1, <1>2, <1>4, <1>5, <1>6, <2>2, <2>3, <2>4 DEF Hosts
<1>13. Bounded'
  BY <1>1, <1>3, <1>7, <1>8 DEF Bounded
<1>14. Standing'
  <2>1. ASSUME NEW d \in complete'
        PROVE  d \in complete /\ d <= downloads /\ d # downloads' /\ size'[d] = size[d]
               /\ Whole(d)' = Whole(d) /\ d <= downloads'
    <3>1. d \in complete /\ d \in Downloads /\ d <= downloads
      BY <1>3, <2>1 DEF BootInv, Ranges, Standing
    <3> QED
      BY <1>1, <1>4, <1>5, <3>1, Numbers, SMTT(30) DEF Whole
  <2>2. ASSUME flash[1][1] \in complete', flash[1] # Erased, PageOf(size'[flash[1][1]]) < Pages
        PROVE  Whole(flash[1][1])'
    BY <1>1, <2>1, <2>2 DEF BootInv, Standing
  <2> QED
    BY <1>1, <1>3, <1>7, <2>1, <2>2 DEF Standing
<1> QED
  BY <1>9, <1>10, <1>11, <1>12, <1>13, <1>14 DEF BootInv

(* What flash_write makes of the flash, when it can.                       *)
LEMMA WrittenFacts ==
  ASSUME BootInv, Writable
  PROVE  /\ Written \in [Cells -> {Erased} \cup (Downloads \X Nat)]
         /\ \A c \in Cells \ Target : Written[c] = flash[c]
         /\ \A c \in Target : c \in Cells /\ flash[c] = Erased
                              /\ c - addr + 1 \in 1 .. Len(buffer)
                              /\ Written[c] = buffer[c - addr + 1]
         /\ Target = addr .. received
<1>1. Target = addr .. received
  <2>1. addr + Len(buffer) - 1 = received
    <3>1. /\ addr + Len(buffer) = received + 1
          /\ addr \in Nat /\ Len(buffer) \in Nat /\ received \in Nat
      BY Numbers
    <3> QED
      BY <3>1
  <2> QED
    BY <2>1 DEF Target
<1>2. ASSUME NEW c \in Target
      PROVE  /\ c \in Cells /\ flash[c] = Erased /\ Written[c] = buffer[c - addr + 1]
             /\ c - addr + 1 \in 1 .. Len(buffer)
             /\ buffer[c - addr + 1] \in Downloads \X Nat
  <2>1. c - addr + 1 \in 1 .. Len(buffer)
    BY <1>1, Numbers
  <2>2. c \in Cells /\ flash[c] = Erased
    BY DEF Writable
  <2> QED
    BY <2>1, <2>2 DEF Written, BootInv, BootTypes
<1>3. \A c \in Cells \ Target : Written[c] = flash[c]
  BY DEF Written
<1>4. Written \in [Cells -> {Erased} \cup (Downloads \X Nat)]
  <2> SUFFICES ASSUME NEW c \in Cells
               PROVE  Written[c] \in {Erased} \cup (Downloads \X Nat)
    BY DEF Written
  <2> QED
    BY <1>2, <1>3 DEF BootInv, BootTypes
<1> QED
  BY <1>1, <1>2, <1>3, <1>4

LEMMA WrittenContent ==
  ASSUME BootInv, Writable, Content
  PROVE  \A p \in 1 .. received : p \in Cells /\ Written[p] = <<downloads, p>>
<1> SUFFICES ASSUME NEW p \in 1 .. received
             PROVE  p \in Cells /\ Written[p] = <<downloads, p>>
  OBVIOUS
<1>2. CASE p < addr
  <2>1. p \notin Target
    BY <1>2, WrittenFacts, Numbers
  <2> QED
    BY <1>2, <2>1, WrittenFacts DEF Content
<1>3. CASE p >= addr
  <2>1. p \in Target
    BY <1>3, WrittenFacts, Numbers
  <2> QED
    BY <1>3, <2>1, WrittenFacts DEF Content
<1> QED
  BY <1>2, <1>3, Numbers

LEMMA PairNotErased ==
  ASSUME NEW S, NEW T, NEW p \in S \X T PROVE p # Erased
<1>1. PICK x \in S, y \in T : p = <<x, y>>
  OBVIOUS
<1> QED
  BY <1>1 DEF Erased

(* A write leaves a complete image alone: its cells are not erased.        *)
LEMMA WrittenStands ==
  ASSUME BootInv, Writable, flash' = Written,
         UNCHANGED <<total, page, downloads, mixed, owner, complete, size>>,
         ~mixed /\ pc'[owner] = "erase" => pc[owner] = "erase"
  PROVE  Standing'
<1>1. /\ 1 \in Cells
      /\ 1 \in Target => /\ ~mixed => flash'[1][1] = downloads /\ downloads \notin complete
                         /\ flash[1] = Erased /\ flash'[1] # Erased
      /\ 1 \notin Target => flash'[1] = flash[1]
  <2>1. ASSUME 1 \in Target
        PROVE  /\ ~mixed => flash'[1][1] = downloads /\ downloads \notin complete
               /\ flash[1] = Erased /\ flash'[1] # Erased
    <3>1. /\ flash[1] = Erased /\ 1 - addr + 1 \in 1 .. Len(buffer)
          /\ flash'[1] = buffer[1 - addr + 1]
      BY <2>1, WrittenFacts
    <3>2. total > 0
      BY <3>1, Numbers
    <3>3. flash'[1] # Erased
      <4>1. buffer[1 - addr + 1] \in Downloads \X Nat
        BY <3>1 DEF BootInv, BootTypes
      <4> QED
        BY <3>1, <4>1, PairNotErased, Zenon
    <3>4. ASSUME ~mixed PROVE downloads \notin complete
      BY <3>1, <3>2, <3>4 DEF BootInv, Standing
    <3>5. ASSUME ~mixed PROVE flash'[1][1] = downloads
      BY <3>1, <3>2, <3>5 DEF BootInv, Bounded
    <3> QED
      BY <3>1, <3>3, <3>4, <3>5
  <2> QED
    BY <2>1, SizesFit, WrittenFacts
<1>2. ASSUME flash'[1] # Erased, flash'[1][1] \in complete, PageOf(size[flash'[1][1]]) < Pages
      PROVE  Whole(flash[1][1])'
  <2>1. ~mixed
    BY <1>2 DEF BootInv, Standing
  <2> PICK d : d = flash'[1][1]
    OBVIOUS
  <2>2. flash'[1] = flash[1] /\ Whole(d) /\ d \in complete
    BY <1>1, <1>2, <2>1 DEF BootInv, Standing
  <2>3. size[d] \in Cells
    BY <2>2 DEF Whole
  <2>4. ASSUME NEW n \in 1 .. size[d] PROVE flash'[n] = <<d, n>>
    <3>1. n \in Cells /\ flash[n] = <<d, n>> /\ <<d, n>> # Erased
      BY <2>2, <2>3, SizesFit DEF Whole, Erased
    <3> QED
      BY <3>1, WrittenFacts
  <2> QED
    BY <2>3, <2>4 DEF Whole
<1>3. ~mixed /\ pc[owner] = "erase" => flash' = flash
  <2> SUFFICES ASSUME ~mixed, pc[owner] = "erase" PROVE flash' = flash
    OBVIOUS
  <2>1. Target = {}
    <3>1. received = 0
      BY DEF BootInv, Bounded
    <3> QED
      BY <3>1, WrittenFacts, Numbers
  <2> QED
    BY <2>1 DEF Written, BootInv, BootTypes
<1> QED
  BY <1>1, <1>2, <1>3 DEF BootInv, Standing

(* The host of the transport answered last is told of a failure.           *)
LEMMA RefusedHosts ==
  ASSUME BootInv, NEW t \in Transports, Turn(t), pc[t] \in {"erase", "write"}, Refused,
         pc' = [pc EXCEPT ![t] = "idle"], UNCHANGED <<cb, page, downloads, size, total, owner>>
  PROVE  /\ Hosts' /\ host' \in [Transports -> [download : Downloads, next : Nat]]
         /\ host'[cb].next = 0 /\ \A u \in Transports \ {cb} : host'[u] = host[u]
         /\ host'[cb].download = 0
<1>1. 0 \in Downloads /\ Silent \in [download : Downloads, next : Nat]
  BY SizesFit DEF Silent, Downloads
<1>2. /\ host' \in [Transports -> [download : Downloads, next : Nat]]
      /\ host'[cb].download = 0 /\ host'[cb].next = 0
      /\ \A u \in Transports \ {cb} : host'[u] = host[u]
  BY <1>1, Numbers DEF Refused, BootInv, BootTypes, Silent
<1>3. /\ pc'[t] = "idle" /\ \A u \in Transports \ {t} : pc'[u] = pc[u]
      /\ pc'[cb] # "erase"
  BY Numbers DEF BootInv, BootTypes, Hosts, Turn, Transports
<1>4. size[0] \in Nat /\ size[0] \in Sizes
  <2>1. size[0] \in Sizes
    BY <1>1, Numbers DEF BootInv, Hosts
  <2> QED
    BY <2>1, SizesFit
<1>5. ASSUME NEW u \in Transports
      PROVE  /\ host'[u].download <= downloads
             /\ host'[u].download = 0 => host'[u].next = 0
             /\ host'[u].next <= size[host'[u].download] + 1
             /\ pc'[u] = "erase" => host'[u].download > 0 /\ size[host'[u].download] > 0
             /\ pc'[u] = "erase" => page[u] <= LastPage(size[host'[u].download])
  <2>1. CASE u = cb
    <3>1. downloads \in Nat
      BY Numbers
    <3> QED
      BY <1>2, <1>3, <1>4, <2>1, <3>1
  <2>2. CASE u # cb
    BY <1>2, <1>3, <2>2 DEF BootInv, Hosts
  <2> QED
    BY <2>1, <2>2
<1>6. total > 0 => host'[owner].download \in {0, downloads}
  BY <1>2, Numbers DEF BootInv, Hosts
<1>7. pc'["can"] \in {"erase", "write", "advance"} => cb = "can"
  BY <1>3, Numbers DEF BootInv, Hosts
<1> QED
  BY <1>2, <1>5, <1>6, <1>7 DEF BootInv, Hosts

LEMMA FlashWriteKeeps ==
  ASSUME BootInv, NEW t \in Transports, FlashWrite(t) PROVE BootInv'
<1> DEFINE Fine  == /\ Writable /\ flash' = Written /\ pc' = [pc EXCEPT ![t] = "advance"]
                    /\ UNCHANGED <<host, broken>>
           Fails == /\ Refused /\ pc' = [pc EXCEPT ![t] = "idle"] /\ broken' = TRUE
                    /\ flash' = flash
<1>1. /\ mode = "boot" /\ Turn(t) /\ pc[t] = "write" /\ (Fine \/ Fails)
      /\ mishaps' \in 0 .. MaxMishaps
      /\ UNCHANGED <<mode, flag, buffer, addr, total, received, cb, page, downloads, mixed, owner,
                     complete, size>>
  BY DEF FlashWrite, At, Turn, Go, Mishap, static, BootInv, Ranges
<1>2. /\ pc' \in [Transports -> {"idle", "erase", "write", "advance", "jump"}]
      /\ pc'[t] \in {"idle", "advance"} /\ (Fine => pc'[t] = "advance") /\ (Fails => pc'[t] = "idle")
      /\ \A u \in Transports \ {t} : pc'[u] = pc[u]
  BY <1>1 DEF BootInv, BootTypes
<1>3. ~mixed => owner = t
  BY <1>1 DEF BootInv, Alone
<1>4. /\ Hosts' /\ host' \in [Transports -> [download : Downloads, next : Nat]]
      /\ Fine => host' = host
      /\ Fails => host'[cb].next = 0 /\ \A u \in Transports \ {cb} : host'[u] = host[u]
  <2>1. CASE Fine
    <3>1. Hosts'
      BY <1>1, <1>2, <2>1 DEF BootInv, Hosts
    <3> QED
      BY <1>1, <2>1, <3>1, RefusedHosts DEF BootInv, BootTypes
  <2>2. CASE Fails
    BY <1>1, <2>2, RefusedHosts
  <2> QED
    BY <1>1, <2>1, <2>2
<1>5. BootTypes'
  <2>1. flash' \in [Cells -> {Erased} \cup (Downloads \X Nat)]
    BY <1>1, WrittenFacts DEF BootInv, BootTypes
  <2> QED
    BY <1>1, <1>2, <1>4, <2>1 DEF BootInv, BootTypes
<1>6. Ranges'
  <2>1. broken' \in BOOLEAN
    BY <1>1 DEF BootInv, Ranges
  <2> QED
    BY <1>1, <2>1 DEF BootInv, Ranges
<1>7. Stopped' /\ Counted' /\ Alone'
  BY <1>1, <1>2, <1>3 DEF BootInv, Stopped, Counted, Alone
<1>8. Bounded'
  <2> SUFFICES ASSUME ~mixed PROVE Bounded'
    BY <1>1 DEF Bounded
  <2>1. ASSUME Len(buffer) >= BufferFrames, received < total
        PROVE  (pc'[owner] \in {"write", "advance"} /\ cb = owner) \/ host'[owner].next = 0
    <3>1. cb = owner \/ host[owner].next = 0
      BY <2>1 DEF BootInv, Bounded
    <3> QED
      BY <1>1, <1>2, <1>3, <1>4, <3>1, Numbers
  <2>2. ASSUME NEW u \in Transports, pc'[u] = "jump" PROVE pc[u] = "jump"
    BY <1>2, <2>2
  <2> QED
    BY <1>1, <1>2, <1>3, <2>1, <2>2 DEF BootInv, Bounded
<1>9. InPlace'
  <2> SUFFICES ASSUME ~mixed, ~broken, total > 0, Fine PROVE InPlace'
    BY <1>1 DEF InPlace
  <2>1. ASSUME Content PROVE Content'
    <3>1. \A p \in 1 .. received : p \in Cells /\ flash'[p] = <<downloads, p>>
      BY <2>1, WrittenContent
    <3> QED
      BY <1>1, <2>1, <3>1 DEF Content
  <2>2. \A p \in addr .. received : p \in Cells /\ flash'[p] = buffer[p - addr + 1]
    BY WrittenFacts
  <2> QED
    BY <1>1, <2>1, <2>2 DEF BootInv, InPlace, Promised
<1>10. Standing'
  <2>1. ~mixed => pc'[owner] # "erase"
    BY <1>2, <1>3
  <2>2. CASE Fine
    BY <1>1, <2>1, <2>2, WrittenStands
  <2>3. CASE Fails
    BY <1>1, <2>1, <2>3 DEF BootInv, Standing, Whole
  <2> QED
    BY <1>1, <2>2, <2>3
<1> QED
  BY <1>4, <1>5, <1>6, <1>7, <1>8, <1>9, <1>10 DEF BootInv

(* The rest of the buffer is written, or the write fails and is noted.     *)
LEMMA ConfirmKeeps ==
  ASSUME BootInv, NEW t \in Transports, Confirm(t) PROVE BootInv'
<1> DEFINE next == IF received = total THEN "jump" ELSE "idle"
<1>1. /\ mode = "boot" /\ (t = "can" \/ pc["can"] \in {"idle", "jump"}) /\ pc[t] = "idle"
      /\ cb' = t /\ host[t].next > size[host[t].download] /\ host[t].download > 0
      /\ host' = [host EXCEPT ![t] = Silent] /\ pc' = [pc EXCEPT ![t] = next]
      /\ UNCHANGED <<mode, flag, total, received, page, downloads, mixed, owner, complete, size>>
  BY DEF Confirm, Receive, Turn, Go
<1>2. \/ buffer = <<>> /\ UNCHANGED <<flash, addr, buffer, broken>>
      \/ buffer # <<>> /\ Writable /\ flash' = Written /\ UNCHANGED broken
      \/ broken' = TRUE /\ UNCHANGED flash
  BY DEF Confirm
<1>3. mishaps' \in 0 .. MaxMishaps
  BY DEF Confirm, Mishap, BootInv, Ranges
<1>4. /\ buffer' = <<>> /\ Len(buffer') = 0 /\ addr' = received + 1
      /\ <<>> \in Seq(Downloads \X Nat)
  <2>1. CASE buffer = <<>>
    BY <2>1, Numbers DEF Confirm
  <2>2. CASE buffer # <<>>
    BY <2>2, Numbers DEF Confirm
  <2> QED
    BY <2>1, <2>2
<1>5. /\ pc' \in [Transports -> {"idle", "erase", "write", "advance", "jump"}]
      /\ pc'[t] \in {"idle", "jump"} /\ (pc'[t] = "jump" => received = total)
      /\ \A u \in Transports \ {t} : pc'[u] = pc[u]
  BY <1>1 DEF BootInv, BootTypes
<1>6. /\ host' \in [Transports -> [download : Downloads, next : Nat]]
      /\ host'[t].download = 0 /\ host'[t].next = 0
      /\ \A u \in Transports \ {t} : host'[u] = host[u]
  <2>1. Silent \in [download : Downloads, next : Nat]
    BY SizesFit, Numbers DEF Silent
  <2> QED
    BY <1>1, <2>1 DEF BootInv, BootTypes, Silent
<1>7. BootTypes'
  <2>1. flash' \in [Cells -> {Erased} \cup (Downloads \X Nat)]
    BY <1>2, WrittenFacts DEF BootInv, BootTypes
  <2>2. addr' \in Nat \ {0}
    BY <1>4, Numbers
  <2> QED
    BY <1>1, <1>4, <1>5, <1>6, <2>1, <2>2 DEF BootInv, BootTypes
<1>8. Ranges'
  <2>1. broken' \in BOOLEAN
    BY <1>2 DEF BootInv, Ranges
  <2> QED
    BY <1>1, <1>3, <2>1 DEF BootInv, Ranges
<1>9. Stopped' /\ Counted' /\ Alone'
  BY <1>1, <1>4, <1>5, Numbers DEF BootInv, Stopped, Counted, Alone
<1>10. Hosts'
  <2>1. size[0] \in Nat /\ size[0] \in Sizes
    <3>1. size[0] \in Sizes
      BY Numbers DEF BootInv, Hosts
    <3> QED
      BY <3>1, SizesFit
  <2>2. ASSUME NEW u \in Transports
        PROVE  /\ host'[u].download <= downloads
               /\ host'[u].download = 0 => host'[u].next = 0
               /\ host'[u].next <= size[host'[u].download] + 1
               /\ pc'[u] = "erase" => host'[u].download > 0 /\ size[host'[u].download] > 0
               /\ pc'[u] = "erase" => page[u] <= LastPage(size[host'[u].download])
    <3>1. CASE u = t
      <4>1. downloads \in Nat
        BY Numbers
      <4> QED
        BY <1>5, <1>6, <2>1, <3>1, <4>1
    <3>2. CASE u # t
      BY <1>5, <1>6, <3>2 DEF BootInv, Hosts
    <3> QED
      BY <3>1, <3>2
  <2>3. total > 0 => host'[owner].download \in {0, downloads}
    BY <1>6, Numbers DEF BootInv, Hosts
  <2>4. pc'["can"] \in {"erase", "write", "advance"} => cb' = "can"
    BY <1>1, <1>5, Numbers
  <2> QED
    BY <1>1, <2>2, <2>3, <2>4 DEF BootInv, Hosts
<1>11. Bounded'
  <2> SUFFICES ASSUME ~mixed PROVE Bounded'
    BY <1>1 DEF Bounded
  <2>1. pc'[owner] = "erase" => received = 0
    BY <1>5, Numbers DEF BootInv, Bounded
  <2>2. \A u \in Transports : pc'[u] = "jump" => received = total
    BY <1>5 DEF BootInv, Bounded
  <2> QED
    BY <1>1, <1>4, <2>1, <2>2 DEF Bounded
<1>12. InPlace'
  <2> SUFFICES ASSUME ~mixed, ~broken', total > 0 PROVE InPlace'
    BY <1>1 DEF InPlace
  <2>1. /\ ~broken /\ \/ buffer = <<>> /\ UNCHANGED <<flash, addr, buffer>>
                      \/ buffer # <<>> /\ Writable /\ flash' = Written
    BY <1>2
  <2>2. ASSUME Content PROVE Content'
    <3>1. ASSUME NEW p \in 1 .. received PROVE p \in Cells /\ flash'[p] = <<downloads, p>>
      <4>1. CASE buffer = <<>>
        <5>1. p < addr /\ flash' = flash
          BY <2>1, <4>1, Numbers
        <5> QED
          BY <2>2, <5>1 DEF Content
      <4>2. CASE buffer # <<>>
        BY <2>1, <2>2, <4>2, WrittenContent
      <4> QED
        BY <4>1, <4>2
    <3> QED
      BY <1>1, <1>4, <3>1, Numbers, SMTT(30) DEF Content
  <2>3. /\ total = size[downloads] /\ downloads > 0 /\ host[owner].download \in {0, downloads}
        /\ host[owner].next \in Nat /\ host[owner].next <= size[host[owner].download] + 1
    BY Numbers DEF BootInv, Hosts
  <2>4. Promised' = IF t = owner THEN total ELSE Promised
    <3>1. downloads \in Nat /\ owner \in Transports
      BY Numbers
    <3> QED
      BY <1>1, <1>6, <2>3, <3>1 DEF Promised
  <2>5. t = owner => Promised = total
    <3>1. total \in Nat /\ downloads \in Nat
      BY Numbers
    <3> QED
      BY <1>1, <2>3, <3>1 DEF Promised
  <2>6. ASSUME NEW p \in addr' .. received PROVE FALSE
    BY <1>4, <2>6, Numbers
  <2> QED
    <3>1. received <= Promised' \/ received = 0
      BY <2>1, <2>4, Numbers DEF BootInv, InPlace
    <3>2. received < Promised' \/ Content'
      BY <2>1, <2>2, <2>4, <2>5, Numbers DEF BootInv, InPlace
    <3> QED
      BY <1>1, <2>6, <3>1, <3>2 DEF InPlace
<1>13. Standing'
  <2>1. ~mixed /\ pc'[owner] = "erase" => pc[owner] = "erase"
    BY <1>5, Numbers
  <2>2. CASE flash' = flash
    BY <1>1, <2>1, <2>2 DEF BootInv, Standing, Whole
  <2>3. CASE Writable /\ flash' = Written
    BY <1>1, <2>1, <2>3, WrittenStands
  <2> QED
    BY <1>2, <2>2, <2>3
<1> QED
  BY <1>7, <1>8, <1>9, <1>10, <1>11, <1>12, <1>13 DEF BootInv

(* The first page is erased before any other.                              *)
LEMMA ErasePageKeeps ==
  ASSUME BootInv, NEW t \in Transports, ErasePage(t) PROVE BootInv'
<1> DEFINE last == page[t] = LastPage(size[host[t].download])
           Fine == /\ flash' = [c \in Cells |-> IF PageOf(c) = page[t] THEN Erased ELSE flash[c]]
                   /\ flag' = (flag /\ page[t] # Pages)
                   /\ page' = [page EXCEPT ![t] = @ + 1]
                   /\ IF last THEN pc' = [pc EXCEPT ![t] = "idle"] /\ ToldToSend
                              ELSE UNCHANGED <<pc, host>>
           Fails == pc' = [pc EXCEPT ![t] = "idle"] /\ Refused /\ UNCHANGED <<flash, flag, page>>
<1>1. /\ mode = "boot" /\ Turn(t) /\ pc[t] = "erase" /\ (Fine \/ Fails)
      /\ mishaps' \in 0 .. MaxMishaps
      /\ UNCHANGED <<mode, buffer, addr, total, received, cb, downloads, broken, mixed, owner,
                     complete, size>>
  BY DEF ErasePage, ErasedPage, At, Turn, Go, Mishap, static, history, BootInv, Ranges
<1>2. /\ host[t].download \in Downloads /\ host[t].download > 0 /\ host[t].download <= downloads
      /\ page[t] <= LastPage(size[host[t].download]) /\ page[t] \in Nat /\ page[t] > 0
      /\ size[host[t].download] \in Nat /\ size[host[t].download] > 0
      /\ LastPage(size[host[t].download]) \in 1 .. Pages
  <2>1. /\ host[t].download \in Downloads /\ host[t].download > 0 /\ host[t].download <= downloads
        /\ page[t] <= LastPage(size[host[t].download]) /\ page[t] \in Nat /\ page[t] > 0
        /\ size[host[t].download] \in Sizes /\ size[host[t].download] > 0
    BY <1>1 DEF BootInv, BootTypes, Hosts
  <2> QED
    BY <2>1, SizesFit, PageOrder
<1>3. ~mixed => owner = t
  BY <1>1 DEF BootInv, Alone
<1>4. /\ pc' \in [Transports -> {"idle", "erase", "write", "advance", "jump"}]
      /\ \A u \in Transports \ {t} : pc'[u] = pc[u]
      /\ Fails \/ last => pc'[t] = "idle"
      /\ Fine /\ ~last => pc'[t] = "erase"
  BY <1>1 DEF BootInv, BootTypes
<1>5. /\ page' \in [Transports -> 1 .. Pages + 1]
      /\ \A u \in Transports \ {t} : page'[u] = page[u]
      /\ Fine => page'[t] = page[t] + 1
  <2>1. page[t] + 1 \in 1 .. Pages + 1
    BY <1>2
  <2>2. page \in [Transports -> 1 .. Pages + 1]
    BY DEF BootInv, BootTypes
  <2>3. page' \in {page, [page EXCEPT ![t] = page[t] + 1]}
    BY <1>1
  <2>4. Fine => page' = [page EXCEPT ![t] = page[t] + 1]
    BY <1>1
  <2> QED
    BY <2>1, <2>2, <2>3, <2>4
<1>6. Hosts' /\ host' \in [Transports -> [download : Downloads, next : Nat]]
  <2>1. CASE Fails
    BY <1>1, <2>1, RefusedHosts
  <2>2. CASE Fine
    <3>1. /\ host' \in [Transports -> [download : Downloads, next : Nat]]
          /\ \A u \in Transports :
               /\ host'[u].download = host[u].download
               /\ host'[u].next = host[u].next \/ (host'[u].next = 1 /\ host[u] # Silent)
      <4>1. 1 \in Nat
        OBVIOUS
      <4>2. host \in [Transports -> [download : Downloads, next : Nat]]
        BY DEF BootInv, BootTypes
      <4>3. host' = host \/ (host[cb] # Silent /\ host' = [host EXCEPT ![cb].next = 1])
        BY <1>1, <2>2 DEF ToldToSend
      <4>4. host' \in [Transports -> [download : Downloads, next : Nat]]
        BY <4>1, <4>2, <4>3, Numbers
      <4>5. ASSUME NEW u \in Transports
            PROVE  /\ host'[u].download = host[u].download
                   /\ host'[u].next = host[u].next \/ (host'[u].next = 1 /\ host[u] # Silent)
        <5>1. CASE u = cb
          BY <4>2, <4>3, <5>1
        <5>2. CASE u # cb
          BY <4>2, <4>3, <5>2
        <5> QED
          BY <5>1, <5>2
      <4> QED
        BY <4>4, <4>5
    <3>2. ASSUME NEW u \in Transports
          PROVE  /\ host'[u].download <= downloads
                 /\ host'[u].download = 0 => host'[u].next = 0
                 /\ host'[u].next <= size[host'[u].download] + 1
                 /\ pc'[u] = "erase" => host'[u].download > 0 /\ size[host'[u].download] > 0
                 /\ pc'[u] = "erase" => page'[u] <= LastPage(size[host'[u].download])
      <4>1. /\ host[u].download \in Downloads /\ host[u].download <= downloads
            /\ host[u] \in [download : Downloads, next : Nat]
            /\ host[u].download = 0 => host[u].next = 0
            /\ host[u].next <= size[host[u].download] + 1
            /\ pc[u] = "erase" => host[u].download > 0 /\ size[host[u].download] > 0
            /\ pc[u] = "erase" => page[u] <= LastPage(size[host[u].download])
        BY DEF BootInv, BootTypes, Hosts
      <4>2. size[host[u].download] \in Nat
        BY <4>1, SizesFit DEF BootInv, Hosts
      <4>3. host[u].download = 0 => host[u] = Silent
        BY <4>1 DEF Silent
      <4>4. pc'[u] = "erase" => pc[u] = "erase"
        BY <1>1, <1>4
      <4>5. pc'[u] = "erase" => page'[u] <= LastPage(size[host[u].download])
        BY <1>2, <1>4, <1>5, <2>2, <4>1, <4>4
      <4>6. host'[u].next <= size[host[u].download] + 1
        BY <3>1, <4>1, <4>2
      <4>7. host[u].download = 0 => host'[u].next = 0
        BY <3>1, <4>1, <4>3
      <4> QED
        BY <3>1, <4>1, <4>4, <4>5, <4>6, <4>7
    <3>3. total > 0 => host'[owner].download \in {0, downloads}
      BY <3>1, Numbers DEF BootInv, Hosts
    <3>4. pc'["can"] \in {"erase", "write", "advance"} => cb = "can"
      BY <1>1, <1>4, Numbers DEF BootInv, Hosts
    <3> QED
      BY <1>1, <3>1, <3>2, <3>3, <3>4 DEF BootInv, Hosts
  <2> QED
    BY <1>1, <2>1, <2>2
<1>7. BootTypes'
  <2>1. flash' \in [Cells -> {Erased} \cup (Downloads \X Nat)]
    BY <1>1 DEF BootInv, BootTypes
  <2>2. flag' \in BOOLEAN
    BY <1>1 DEF BootInv, BootTypes
  <2> QED
    BY <1>1, <1>4, <1>5, <1>6, <2>1, <2>2 DEF BootInv, BootTypes
<1>8. Ranges' /\ Stopped' /\ Counted' /\ Alone'
  BY <1>1, <1>3, <1>4 DEF BootInv, Ranges, Stopped, Counted, Alone
<1>9. ~mixed => received = 0 /\ Len(buffer) = 0 /\ downloads \notin complete
  <2>1. ~mixed => received = 0 /\ downloads \notin complete
    BY <1>1, <1>3 DEF BootInv, Bounded, Standing
  <2> QED
    BY <2>1, Numbers
<1>10. Bounded' /\ InPlace'
  <2>1. Bounded'
    BY <1>1, <1>3, <1>4, <1>9 DEF BootInv, Bounded
  <2>2. ~mixed => pc'[owner] # "advance"
    BY <1>1, <1>3, <1>4
  <2>3. received = 0 => Content'
    BY <1>1 DEF Content
  <2> QED
    BY <1>1, <1>9, <2>1, <2>2, <2>3 DEF InPlace
<1>11. Standing'
  <2>1. CASE mixed
    BY <1>1, <2>1 DEF BootInv, Standing
  <2>2. CASE ~mixed /\ Fails
    BY <1>1, <1>3, <1>4, <1>9, <2>2 DEF BootInv, Standing, Whole
  <2>3. CASE ~mixed /\ Fine
    <3>1. flash'[1] = Erased
      <4>1. page[t] > 1 => flash[1] = Erased
        BY <1>1, <1>3, <2>3 DEF BootInv, Standing
      <4> QED
        BY <1>2, <2>3, <4>1, SizesFit, PageOrder
    <3> QED
      BY <1>1, <1>9, <2>3, <3>1 DEF BootInv, Standing
  <2> QED
    BY <1>1, <2>1, <2>2, <2>3
<1> QED
  BY <1>6, <1>7, <1>8, <1>10, <1>11 DEF BootInv

LEMMA BootKeeps == ASSUME BootInv, BootNext PROVE BootInv'
<1>1. CASE PowerUp
  BY <1>1, PowerUpKeeps
<1>2. CASE PowerCut
  <2>1. mishaps' \in 0 .. MaxMishaps /\ flag' \in BOOLEAN
    BY <1>2 DEF PowerCut, Mishap, BootInv, Ranges, BootTypes
  <2> QED
    BY <1>2, <2>1, RestartKeeps DEF PowerCut
<1>3. CASE AppRequestsUpgrade
  <2>1. mishaps' \in 0 .. MaxMishaps /\ flag' \in BOOLEAN
    BY <1>3 DEF AppRequestsUpgrade, BootInv, Ranges
  <2> QED
    BY <1>3, <2>1, RestartKeeps DEF AppRequestsUpgrade
<1>4. ASSUME NEW t \in Transports, JumpToApp(t) \/ Reboot(t) PROVE BootInv'
  <2>1. mishaps' \in 0 .. MaxMishaps /\ flag' \in BOOLEAN
    BY <1>4 DEF JumpToApp, Reboot, BootInv, Ranges, BootTypes
  <2> QED
    BY <1>4, <2>1, RestartKeeps DEF JumpToApp, Reboot
<1> QED
  BY <1>1, <1>2, <1>3, <1>4, StartKeeps, ErasePageKeeps, LostKeeps, ExtraKeeps, DataKeeps,
     FlashWriteKeeps, AdvanceKeeps, ConfirmKeeps DEF BootNext

LEMMA BootStutters == ASSUME BootInv, UNCHANGED bootVars PROVE BootInv'
<1>1. BootTypes' /\ Ranges' /\ Stopped' /\ Counted'
  BY DEF BootInv, BootTypes, Ranges, Stopped, Counted, bootVars, static, history
<1>2. Hosts' /\ Alone' /\ Bounded'
  BY DEF BootInv, Hosts, Alone, Bounded, bootVars, static, history
<1>3. InPlace' /\ Standing'
  BY DEF BootInv, InPlace, Promised, Content, Standing, Whole, bootVars, static, history
<1> QED
  BY <1>1, <1>2, <1>3 DEF BootInv

-----------------------------------------------------------------------------
(* The invariant of laser_ctrl.                                            *)

DialogueTypes ==
  /\ status \subseteq Bits /\ firstOn \in BOOLEAN /\ txbuf \in Requests \cup {"junk"}
  /\ todo \in [Commanders -> Seq(Requests \cup {"send"})]
  /\ at \in [Commanders -> {"idle", "print", "printed", "garbled", "transmit", "sent", "wait",
                            "acked"}]
  /\ wire \in Seq(Requests \cup {"junk"}) /\ sensor \in {"off", "on", "tracking"}
  /\ msgq \in Seq(Replies) /\ Len(msgq) <= Slots
  /\ sending \in BOOLEAN /\ synced \in BOOLEAN /\ solo \in BOOLEAN
  /\ \A c \in Commanders : at[c] # "idle" => todo[c] # <<>>

(* The count of frames follows the commands.                               *)
UpgradeTypes ==
  /\ fw \in [total : 0 .. Image, offset : Nat, written : Nat]
  /\ fw.offset <= commands /\ fw.written <= commands
  /\ pending \in BOOLEAN /\ old \in BOOLEAN
  /\ commands \in 0 .. MaxCommands /\ faults \in 0 .. MaxFaults

(* The CAN thread finds the partition as it left it; the console, when no  *)
(* other write is in progress, finds it blank or already written for it.   *)
RegisterInv ==
  /\ regs \in [Registers -> Values \cup {Blank}]
  /\ partition \in [Registers -> Values \cup {Blank}]
  /\ reg \in [Commanders -> {"none", "flatten", "write"}] /\ failed \in BOOLEAN
  /\ reg["can"] = "write" => partition = AllBlank
  /\ reg["can"] = "none" /\ reg["shell"] = "write" /\ ~failed => partition \in {AllBlank, regs}
  /\ RegistersKept

LaserInv == DialogueTypes /\ UpgradeTypes /\ RegisterInv

LEMMA InitLaser == LaserInit => LaserInv
<1> SUFFICES ASSUME LaserInit PROVE LaserInv
  OBVIOUS
<1>1. <<>> \in Seq(Requests \cup {"send"}) /\ <<>> \in Seq(Requests \cup {"junk"})
      /\ <<>> \in Seq(Replies) /\ Len(<<>>) = 0
  OBVIOUS
<1>2. /\ synced \in BOOLEAN /\ firstOn \in BOOLEAN /\ sending \in BOOLEAN /\ solo \in BOOLEAN
      /\ failed \in BOOLEAN /\ pending \in BOOLEAN /\ old \in BOOLEAN
  BY Zenon DEF LaserInit
<1>3. DialogueTypes
  <2>1. /\ status = {} /\ txbuf = "junk" /\ wire = <<>> /\ msgq = <<>>
        /\ sensor \in {"off", "on", "tracking"}
        /\ todo = [c \in Commanders |-> <<>>] /\ at = [c \in Commanders |-> "idle"]
    BY DEF LaserInit
  <2> QED
    BY <1>1, <1>2, <2>1 DEF DialogueTypes
<1>4. UpgradeTypes
  <2>1. fw = [total |-> 0, offset |-> 0, written |-> 0] /\ commands = 0 /\ faults = 0
    BY DEF LaserInit
  <2> QED
    BY <1>2, <2>1 DEF UpgradeTypes
<1>5. RegisterInv
  <2>1. /\ regs = [r \in Registers |-> 0] /\ partition = regs
        /\ reg = [c \in Commanders |-> "none"]
    BY DEF LaserInit
  <2> QED
    BY <1>2, <2>1 DEF RegisterInv, RegistersKept, Values, Commanders
<1> QED
  BY <1>3, <1>4, <1>5 DEF LaserInv

(* The commands there are.                                                 *)
LEMMA PlansTyped ==
  \A s \in {<<"o">>, <<"c">>, <<"send">>, <<"o">> \o laser_con_measure, laser_con_measure,
            laser_setup} : s \in Seq(Requests \cup {"send"}) /\ s # <<>>
<1> DEFINE Plan(s) == s \in Seq(Requests \cup {"send"}) /\ s # <<>>
<1>1. Plan(<<"o">>) /\ Plan(<<"c">>) /\ Plan(<<"send">>) /\ Plan(<<"c", "o">>)
      /\ Plan(laser_con_measure)
  BY DEF laser_con_measure, Requests
<1>2. \A s, r : Plan(s) /\ Plan(r) => Plan(s \o r)
  BY ConcatProperties, EmptySeq
<1>3. Plan(<<"o">> \o laser_con_measure) /\ Plan(<<"c", "o">> \o laser_con_measure)
  BY <1>1, <1>2
<1> QED
  BY <1>1, <1>3 DEF laser_setup

LEMMA BeginTypes ==
  ASSUME DialogueTypes, NEW c \in Commanders, NEW s \in Seq(Requests \cup {"send"}), s # <<>>,
         Begin(c, s)
  PROVE  DialogueTypes'
<1>1. solo' \in BOOLEAN /\ synced' \in BOOLEAN
  BY DEF Begin
<1> QED
  BY <1>1 DEF DialogueTypes, Begin

LEMMA ExchangeTypes ==
  ASSUME DialogueTypes, NEW c \in Commanders, Exchange(c)
  PROVE  DialogueTypes'
<1>1. CASE Snprintf(c)
  <2>1. todo[c] # <<>> /\ todo[c] \in Seq(Requests \cup {"send"})
    BY <1>1 DEF Snprintf, DialogueTypes
  <2>2. Head(todo[c]) \in Requests \cup {"send"}
    BY <2>1, HeadTailProperties
  <2> QED
    BY <1>1, <2>1, <2>2 DEF Snprintf, DialogueTypes
<1>2. CASE FirstByte(c)
  BY <1>2 DEF FirstByte, DialogueTypes
<1>3. CASE LastByte(c)
  <2>1. at' \in [Commanders -> {"idle", "print", "printed", "garbled", "transmit", "sent", "wait",
                                "acked"}]
        /\ \A d \in Commanders : at'[d] # "idle" => at[d] # "idle"
    BY <1>3 DEF LastByte, DialogueTypes
  <2>2. \E frame \in Requests \cup {"junk"} : wire' = Append(wire, frame)
    BY <1>3 DEF LastByte, DialogueTypes
  <2>3. wire' \in Seq(Requests \cup {"junk"})
    BY <2>2, AppendProperties DEF DialogueTypes
  <2> QED
    BY <1>3, <2>1, <2>3 DEF LastByte, DialogueTypes
<1>4. CASE Wait(c)
  BY <1>4 DEF Wait, DialogueTypes
<1>5. CASE Acknowledged(c)
  <2> DEFINE rest == Tail(todo[c])
  <2>1. todo[c] # <<>> /\ todo[c] \in Seq(Requests \cup {"send"})
    BY <1>5 DEF Acknowledged, DialogueTypes
  <2>2. rest \in Seq(Requests \cup {"send"}) /\ Len(rest) = Len(todo[c]) - 1
    BY <2>1, HeadTailProperties
  <2>3. todo' = [todo EXCEPT ![c] = rest]
    BY <1>5 DEF Acknowledged
  <2> HIDE DEF rest
  <2>4. Len(todo[c]) # 1 => rest # <<>>
    <3>1. Len(<<>>) = 0
      OBVIOUS
    <3>2. rest = <<>> => Len(rest) = 0
      BY <3>1, Zenon
    <3>3. Len(todo[c]) \in Nat
      BY <2>1
    <3> QED
      BY <2>2, <3>2, <3>3
  <2>5. status' \subseteq Bits
    BY <1>5 DEF Acknowledged, Noted, DialogueTypes, Bits
  <2>6. synced' \in BOOLEAN /\ solo' \in BOOLEAN
    BY <1>5 DEF Acknowledged, DialogueTypes
  <2> QED
    BY <1>5, <2>2, <2>3, <2>4, <2>5, <2>6 DEF Acknowledged, DialogueTypes
<1>6. CASE TimedOut(c)
  <2>1. synced' \in BOOLEAN /\ solo' \in BOOLEAN
    BY <1>6 DEF TimedOut, DialogueTypes
  <2> QED
    BY <1>6, <2>1 DEF TimedOut, DialogueTypes
<1> QED
  BY <1>1, <1>2, <1>3, <1>4, <1>5, <1>6 DEF Exchange

LEMMA ReceivedTypes ==
  ASSUME DialogueTypes, NEW reply \in Replies, Received(reply)
  PROVE  msgq' \in Seq(Replies) /\ Len(msgq') <= Slots /\ synced' \in BOOLEAN
<1>1. CASE Len(msgq) < Slots
  <2>1. msgq' = Append(msgq, reply) /\ synced' = synced
    BY <1>1 DEF Received
  <2>2. msgq' \in Seq(Replies) /\ Len(msgq') = Len(msgq) + 1 /\ Len(msgq) \in Nat
    BY <2>1, AppendProperties DEF DialogueTypes
  <2>3. synced' \in BOOLEAN
    BY <2>1 DEF DialogueTypes
  <2> QED
    BY <1>1, <2>2, <2>3
<1>2. CASE ~(Len(msgq) < Slots)
  <2>1. synced' \in BOOLEAN
    BY <1>2 DEF Received, DialogueTypes
  <2> QED
    BY <1>2, <2>1 DEF Received, DialogueTypes
<1> QED
  BY <1>1, <1>2

LEMMA SensorTypes ==
  ASSUME DialogueTypes, Sensor \/ Distance
  PROVE  DialogueTypes'
<1>1. CASE Sensor
  <2>1. wire' \in Seq(Requests \cup {"junk"})
    BY <1>1, HeadTailProperties DEF Sensor, DialogueTypes
  <2>2. sensor' \in {"off", "on", "tracking"} /\ React(Head(wire)).reply \in Replies
    BY <1>1 DEF Sensor, React, DialogueTypes, Replies
  <2>3. msgq' \in Seq(Replies) /\ Len(msgq') <= Slots /\ synced' \in BOOLEAN
    BY <1>1, <2>2, ReceivedTypes DEF Sensor
  <2> QED
    BY <1>1, <2>1, <2>2, <2>3 DEF Sensor, DialogueTypes
<1>2. CASE Distance
  <2>1. msgq' \in Seq(Replies) /\ Len(msgq') <= Slots /\ synced' \in BOOLEAN
    BY <1>2, ReceivedTypes DEF Distance, Replies
  <2> QED
    BY <1>2, <2>1 DEF Distance, DialogueTypes
<1> QED
  BY <1>1, <1>2

LEMMA MessageTypes ==
  ASSUME DialogueTypes, Message
  PROVE  DialogueTypes'
<1>1. CASE laser_can_send
  BY <1>1 DEF laser_can_send, DialogueTypes
<1>2. CASE OnDistance \/ OnError \/ OnStop \/ OnOther
  <2>1. Take
    BY <1>2 DEF OnDistance, OnError, OnStop, OnOther
  <2>2. msgq' \in Seq(Replies) /\ Len(msgq') <= Slots
    BY <2>1, HeadTailProperties DEF Take, DialogueTypes
  <2>3. /\ at' \in [Commanders -> {"idle", "print", "printed", "garbled", "transmit", "sent", "wait",
                                   "acked"}]
        /\ \A c \in Commanders : at'[c] # "idle" => at[c] # "idle"
    BY <1>2 DEF OnDistance, OnError, OnStop, OnOther, Set, DialogueTypes
  <2>4. status' \subseteq Bits /\ firstOn' \in BOOLEAN /\ sending' \in BOOLEAN
    BY <1>2 DEF OnDistance, OnError, OnStop, OnOther, Report, DialogueTypes
  <2>5. UNCHANGED <<txbuf, todo, wire, sensor, synced, solo>>
    BY <1>2 DEF OnDistance, OnError, OnStop, OnOther
  <2> QED
    BY <2>2, <2>3, <2>4, <2>5 DEF DialogueTypes
<1> QED
  BY <1>1, <1>2 DEF Message

(* A step that leaves what is counted alone, or counts a command or a fault.*)
LEMMA CountsKeep ==
  ASSUME UpgradeTypes, UNCHANGED upgrade,
         NewCommand \/ UNCHANGED commands, Fault \/ UNCHANGED faults
  PROVE  UpgradeTypes'
  BY DEF UpgradeTypes, upgrade, NewCommand, Fault

LEMMA UpgradeKeeps ==
  ASSUME UpgradeTypes, StartUpdate \/ FwData \/ BoardConfirm \/ TenSeconds \/ LaserRestart
  PROVE  UpgradeTypes'
<1> DEFINE Counts == [total : 0 .. Image, offset : Nat, written : Nat]
<1>1. /\ commands' \in 0 .. MaxCommands /\ faults' \in 0 .. MaxFaults /\ commands \in Nat
      /\ StartUpdate \/ FwData \/ BoardConfirm => commands' = commands + 1
      /\ TenSeconds \/ LaserRestart => commands' = commands
  <2>1. StartUpdate \/ FwData \/ BoardConfirm => NewCommand
    BY DEF StartUpdate, FwData, BoardConfirm, UpgradeFrame
  <2>2. TenSeconds \/ LaserRestart => commands' = commands
    BY DEF TenSeconds, LaserRestart
  <2>3. Fault \/ faults' = faults
    BY DEF StartUpdate, FwData, BoardConfirm, TenSeconds, LaserRestart
  <2>4. commands \in 0 .. MaxCommands /\ faults \in 0 .. MaxFaults
    BY DEF UpgradeTypes
  <2> QED
    BY <2>1, <2>2, <2>3, <2>4 DEF NewCommand, Fault
<1>2. pending' \in BOOLEAN /\ old' \in BOOLEAN
  BY DEF StartUpdate, FwData, BoardConfirm, TenSeconds, LaserRestart, UpgradeFrame, UpgradeTypes
<1>3. fw \in Counts /\ fw.offset <= commands /\ fw.written <= commands
  BY DEF UpgradeTypes
<1>4. \/ fw' = [total |-> 0, offset |-> 0, written |-> 0]
      \/ fw' = [total |-> Image, offset |-> 0, written |-> 0]
      \/ fw' = [fw EXCEPT !.offset = fw.offset + 1, !.written = fw.written + 1] /\ FwData
      \/ fw' = fw
  BY DEF StartUpdate, FwData, BoardConfirm, TenSeconds, LaserRestart
<1>5. fw' \in Counts /\ fw'.offset <= commands' /\ fw'.written <= commands'
  <2>1. CASE fw' = [fw EXCEPT !.offset = fw.offset + 1, !.written = fw.written + 1] /\ FwData
    <3>1. fw.offset \in Nat /\ fw.written \in Nat
      BY <1>3
    <3>2. fw.offset + 1 \in Nat /\ fw.written + 1 \in Nat
      BY <3>1
    <3>3. fw' \in Counts /\ fw'.offset = fw.offset + 1 /\ fw'.written = fw.written + 1
      BY <1>3, <2>1, <3>2
    <3> QED
      BY <1>1, <1>3, <2>1, <3>1, <3>3
  <2>2. CASE fw' = fw
    <3>1. fw.offset \in Nat /\ fw.written \in Nat /\ commands <= commands'
      BY <1>1, <1>3
    <3> QED
      BY <1>1, <1>3, <2>2, <3>1
  <2>3. CASE fw' \in {[total |-> 0, offset |-> 0, written |-> 0],
                      [total |-> Image, offset |-> 0, written |-> 0]}
    BY <1>1, <2>3
  <2> QED
    BY <1>4, <2>1, <2>2, <2>3
<1> QED
  BY <1>1, <1>2, <1>5 DEF UpgradeTypes

(* The partition.                                                          *)
LEMMA RegisterWriteKeeps ==
  ASSUME RegisterInv, NEW c \in Commanders, NEW r \in Registers, NEW v \in Values,
         RegisterWrite(c, r, v)
  PROVE  RegisterInv'
<1>1. /\ reg[c] = "none" /\ regs' = [regs EXCEPT ![r] = v] /\ reg' = [reg EXCEPT ![c] = "flatten"]
      /\ (c = "can" \/ reg["can"] = "none") /\ UNCHANGED <<partition, failed>>
  BY DEF RegisterWrite, Idle, Runs, CanBlocked
<1>2. regs' \in [Registers -> Values \cup {Blank}]
  BY <1>1 DEF RegisterInv
<1> QED
  BY <1>1, <1>2 DEF RegisterInv, RegistersKept, Commanders

LEMMA BlankPartition == AllBlank \in [Registers -> Values \cup {Blank}]
  BY DEF AllBlank

LEMMA FlattenKeeps ==
  ASSUME RegisterInv, NEW c \in Commanders, Flatten(c)
  PROVE  RegisterInv'
<1>1. /\ reg[c] = "flatten" /\ (c = "can" \/ reg["can"] = "none") /\ UNCHANGED regs
      /\ \/ partition' = AllBlank /\ reg' = [reg EXCEPT ![c] = "write"] /\ failed' = failed
         \/ failed' = TRUE /\ reg' = [reg EXCEPT ![c] = "none"] /\ partition' = partition
  BY DEF Flatten, Runs, CanBlocked
<1> QED
  BY <1>1, BlankPartition DEF RegisterInv, RegistersKept, Commanders

LEMMA WriteKeeps ==
  ASSUME RegisterInv, NEW c \in Commanders, Write(c)
  PROVE  RegisterInv'
<1>1. /\ reg[c] = "write" /\ (c = "can" \/ reg["can"] = "none") /\ UNCHANGED regs
      /\ reg' = [reg EXCEPT ![c] = "none"]
      /\ \/ partition = AllBlank /\ partition' = regs /\ failed' = FALSE
         \/ partition # AllBlank /\ UNCHANGED <<partition, failed>>
         \/ failed' = TRUE /\ partition' = partition
  BY DEF Write, Runs, CanBlocked
<1>2. failed' \in BOOLEAN
  BY <1>1 DEF RegisterInv
<1>3. CASE c = "can"
  <2>1. partition = AllBlank
    BY <1>1, <1>3 DEF RegisterInv
  <2>2. failed' \/ partition' = regs
    BY <1>1, <2>1
  <2>3. partition' \in {partition, regs}
    BY <1>1
  <2> QED
    BY <1>1, <1>2, <1>3, <2>2, <2>3 DEF RegisterInv, RegistersKept, Commanders
<1>4. CASE c = "shell"
  <2>1. ~failed => partition \in {AllBlank, regs}
    BY <1>1, <1>4 DEF RegisterInv
  <2>2. failed' \/ partition' = regs
    BY <1>1, <2>1
  <2>3. partition' \in {partition, regs}
    BY <1>1
  <2> QED
    BY <1>1, <1>2, <1>4, <2>2, <2>3 DEF RegisterInv, RegistersKept, Commanders
<1> QED
  BY <1>3, <1>4 DEF Commanders

LEMMA LaserRestartKeeps ==
  ASSUME DialogueTypes, RegisterInv, LaserRestart
  PROVE  DialogueTypes' /\ RegisterInv'
<1>1. <<>> \in Seq(Requests \cup {"send"}) /\ <<>> \in Seq(Requests \cup {"junk"})
      /\ <<>> \in Seq(Replies) /\ Len(<<>>) = 0
  OBVIOUS
<1>2. DialogueTypes'
  <2>1. /\ status' = {} /\ txbuf' = "junk" /\ wire' = <<>> /\ msgq' = <<>> /\ sensor' = sensor
        /\ todo' = [d \in Commanders |-> <<>>] /\ at' = [d \in Commanders |-> "idle"]
    BY DEF LaserRestart
  <2>2. synced' \in BOOLEAN /\ firstOn' \in BOOLEAN /\ sending' \in BOOLEAN /\ solo' \in BOOLEAN
    BY Zenon DEF LaserRestart
  <2> QED
    BY <1>1, <2>1, <2>2 DEF DialogueTypes
<1>3. RegisterInv'
  <2>1. /\ regs' = partition /\ partition' = partition /\ failed' = FALSE
        /\ reg' = [d \in Commanders |-> "none"]
    BY DEF LaserRestart
  <2> QED
    BY <2>1 DEF RegisterInv, RegistersKept, Commanders
<1> QED
  BY <1>2, <1>3

LEMMA LaserKeeps == ASSUME LaserInv, LaserNext PROVE LaserInv'
<1> USE DEF LaserInv
<1>1. ASSUME NEW c \in Commanders, NEW s \in Seq(Requests \cup {"send"}), s # <<>>, Begin(c, s)
      PROVE  LaserInv'
  <2>1. DialogueTypes'
    BY <1>1, BeginTypes
  <2>2. UpgradeTypes'
    BY <1>1, CountsKeep DEF Begin
  <2>3. RegisterInv'
    BY <1>1 DEF Begin, registers, RegisterInv, RegistersKept
  <2> QED
    BY <2>1, <2>2, <2>3
<1>2. CASE CanEnable \/ CanDisable \/ ShellCommand
  BY <1>1, <1>2, PlansTyped DEF CanEnable, CanDisable, ShellCommand, Commanders
<1>3. CASE ControlWord \/ RegisterMode
  <2>1. PICK b \in Bits : SetBit(b)
    BY <1>3 DEF ControlWord, RegisterMode, Bits
  <2>2. DialogueTypes'
    BY <2>1 DEF SetBit, DialogueTypes, dialogue
  <2>3. UpgradeTypes'
    BY <2>1, CountsKeep DEF SetBit
  <2>4. RegisterInv'
    BY <2>1 DEF SetBit, registers, RegisterInv, RegistersKept
  <2> QED
    BY <2>2, <2>3, <2>4
<1>4. ASSUME NEW c \in Commanders, Exchange(c) PROVE LaserInv'
  <2>1. UNCHANGED <<registers, upgrade, commands, faults>>
    BY <1>4 DEF Exchange, Snprintf, FirstByte, LastByte, Wait, Acknowledged, TimedOut
  <2> QED
    BY <1>4, <2>1, ExchangeTypes, CountsKeep DEF registers, RegisterInv, RegistersKept
<1>5. CASE Sensor \/ Distance \/ Message
  <2>1. UNCHANGED <<registers, upgrade, commands, faults>>
    BY <1>5 DEF Sensor, Distance, Message, OnDistance, OnError, OnStop, OnOther, laser_can_send
  <2> QED
    BY <1>5, <2>1, SensorTypes, MessageTypes, CountsKeep DEF registers, RegisterInv, RegistersKept
<1>6. CASE StartUpdate \/ FwData \/ BoardConfirm \/ TenSeconds
  <2>1. UNCHANGED <<dialogue, registers>> /\ status' \subseteq Bits
    BY <1>6 DEF StartUpdate, FwData, BoardConfirm, TenSeconds, UpgradeFrame, DialogueTypes, Bits
  <2>2. DialogueTypes'
    BY <2>1 DEF dialogue, DialogueTypes
  <2> QED
    BY <1>6, <2>1, <2>2, UpgradeKeeps DEF registers, RegisterInv, RegistersKept
<1>7. CASE LaserRestart
  BY <1>7, LaserRestartKeeps, UpgradeKeeps
<1>8. ASSUME NEW c \in Commanders, NEW r \in Registers, NEW v \in Values, RegisterWrite(c, r, v)
      PROVE  LaserInv'
  <2>1. DialogueTypes'
    BY <1>8 DEF RegisterWrite, dialogue, DialogueTypes
  <2>2. UpgradeTypes'
    BY <1>8, CountsKeep DEF RegisterWrite
  <2> QED
    BY <1>8, <2>1, <2>2, RegisterWriteKeeps
<1>9. ASSUME NEW c \in Commanders, Flatten(c) \/ Write(c)
      PROVE  LaserInv'
  <2>1. DialogueTypes'
    BY <1>9 DEF Flatten, Write, dialogue, DialogueTypes
  <2>2. UpgradeTypes'
    BY <1>9, CountsKeep DEF Flatten, Write
  <2> QED
    BY <1>9, <2>1, <2>2, FlattenKeeps, WriteKeeps
<1> QED
  BY <1>2, <1>3, <1>4, <1>5, <1>6, <1>7, <1>8, <1>9 DEF LaserNext

LEMMA LaserStutters == ASSUME LaserInv, UNCHANGED laserVars PROVE LaserInv'
  BY DEF LaserInv, DialogueTypes, UpgradeTypes, RegisterInv, RegistersKept, laserVars, dialogue,
         registers, upgrade

-----------------------------------------------------------------------------
(* The dialogue with the sensor.  What a commander still has to do is one  *)
(* of these.                                                               *)
Dialogues == {<<"send">>, <<"c">>, <<"o">>, <<"h">>, <<"ce", "h">>, <<"re", "ce", "h">>,
              <<"o", "re", "ce", "h">>, <<"c", "o", "re", "ce", "h">>}

Measures == "CON_MESURE" \in status
Tracks   == sensor = "tracking"
Agrees   == (Measures <=> Tracks) /\ ("ON" \in status <=> sensor # "off")

Only(queue, replies) == \A i \in 1 .. Len(queue) : queue[i] \in replies
StopLast(queue)      == \A i \in 1 .. Len(queue) : queue[i] = "?" => i = Len(queue)

(* The status bits agree with the sensor, and nothing but distances waits. *)
Still == Agrees /\ Only(msgq, {"h"}) /\ (Tracks \/ msgq = <<>>)

Scripted == \A c \in Commanders : at[c] # "idle" => todo[c] \in Dialogues

(* A stop begun on a quiet line: after its answer the line is empty.       *)
StopOnItsWay(c) ==
  /\ at[c] \in {"print", "printed", "transmit"} => wire = <<>> /\ Only(msgq, {"h"})
  /\ at[c] \in {"printed", "transmit"} => txbuf = "c"
  /\ at[c] \in {"sent", "wait"} =>
       \/ wire = <<"c">> /\ Only(msgq, {"h"})
       \/ wire = <<>> /\ sensor = "off" /\ Only(msgq, {"h", "?"}) /\ StopLast(msgq)
  /\ at[c] = "acked" => wire = <<>> /\ sensor = "off" /\ msgq = <<>>

SoloInv == solo =>
  /\ \A c, d \in Commanders : c = d \/ at[c] = "idle" \/ at[d] = "idle"
  /\ \A c \in Commanders : at[c] # "garbled"
  /\ \A c \in Commanders : at[c] # "idle" /\ Head(todo[c]) = "c" => StopOnItsWay(c)

(* The sensor has read request q; its reply may wait in the queue.         *)
Answered(q) ==
  CASE q = "o" -> \/ sensor = "on" /\ ~Measures /\ msgq \in {<<>>, <<"?">>}
                  \/ Tracks /\ Agrees /\ Only(msgq, {"h", "@E"})
    [] q = "h" -> \/ Tracks /\ "ON" \in status /\ Only(msgq, {"h"})
                  \/ sensor = "off" /\ Agrees /\ msgq \in {<<>>, <<"@E">>}
    [] OTHER -> Agrees /\ (Tracks \/ msgq \in {<<>>, <<"@E">>}) /\ (q = "ce" => ~Measures)

(* The message thread has acknowledged request q.                          *)
Accepted(q) ==
  CASE q = "o" -> sensor = "on" /\ ~Measures /\ msgq = <<>>
    [] q = "h" -> Tracks /\ "ON" \in status /\ Only(msgq, {"h"})
    [] OTHER -> Agrees /\ ~Measures /\ msgq = <<>>

(* Any other exchange after an undisturbed stop and until one is disturbed.*)
Exchanging(c, q) ==
  /\ q # "send"
  /\ at[c] \in {"print", "printed", "transmit"} =>
       wire = <<>> /\ Still /\ (q \in {"ce", "h"} => ~Measures)
  /\ at[c] \in {"printed", "transmit"} => txbuf = q
  /\ at[c] \in {"sent", "wait"} =>
       \/ wire = <<q>> /\ Still /\ (q \in {"ce", "h"} => ~Measures)
       \/ wire = <<>> /\ Answered(q)
  /\ at[c] = "acked" => wire = <<>> /\ Accepted(q)

SyncInv == synced =>
  /\ solo
  /\ (\A c \in Commanders : at[c] = "idle") => wire = <<>> /\ Still
  /\ \A c \in Commanders : at[c] # "idle" /\ Head(todo[c]) # "c" => Exchanging(c, Head(todo[c]))

DialogueInv == Scripted /\ SoloInv /\ SyncInv

(* The order of the exchanges of a dialogue.                               *)
LEMMA Sequel ==
  ASSUME NEW s \in Dialogues
  PROVE  /\ Len(s) \in 1 .. 5 /\ Head(s) \in {"send", "c", "o", "re", "ce", "h"}
         /\ Head(s) \in {"send", "h"} => Len(s) = 1
         /\ Len(s) # 1 => /\ Tail(s) \in Dialogues
                          /\ Head(s) = "c" => Head(Tail(s)) = "o"
                          /\ Head(s) = "o" => Head(Tail(s)) = "re"
                          /\ Head(s) = "re" => Head(Tail(s)) = "ce"
                          /\ Head(s) = "ce" => Head(Tail(s)) = "h"
<1>1. CASE s \in {<<"send">>, <<"c">>, <<"o">>, <<"h">>}
  BY <1>1
<1>2. CASE s = <<"ce", "h">>
  <2>1. Len(s) = 2 /\ Head(s) = "ce"
    BY <1>2
  <2>2. Tail(s) = <<"h">> /\ Head(<<"h">>) = "h"
    BY <1>2
  <2>3. Tail(s) \in Dialogues /\ Head(Tail(s)) = "h"
    BY <2>2, Zenon DEF Dialogues
  <2> QED
    BY <2>1, <2>3
<1>3. CASE s = <<"re", "ce", "h">>
  <2>1. Len(s) = 3 /\ Head(s) = "re"
    BY <1>3
  <2>2. Tail(s) = <<"ce", "h">> /\ Head(<<"ce", "h">>) = "ce"
    BY <1>3
  <2>3. Tail(s) \in Dialogues /\ Head(Tail(s)) = "ce"
    BY <2>2, Zenon DEF Dialogues
  <2> QED
    BY <2>1, <2>3
<1>4. CASE s = <<"o", "re", "ce", "h">>
  <2>1. Len(s) = 4 /\ Head(s) = "o"
    BY <1>4
  <2>2. Tail(s) = <<"re", "ce", "h">> /\ Head(<<"re", "ce", "h">>) = "re"
    BY <1>4
  <2>3. Tail(s) \in Dialogues /\ Head(Tail(s)) = "re"
    BY <2>2, Zenon DEF Dialogues
  <2> QED
    BY <2>1, <2>3
<1>5. CASE s = <<"c", "o", "re", "ce", "h">>
  <2>1. Len(s) = 5 /\ Head(s) = "c"
    BY <1>5
  <2>2. Tail(s) = <<"o", "re", "ce", "h">> /\ Head(<<"o", "re", "ce", "h">>) = "o"
    BY <1>5
  <2>3. Tail(s) \in Dialogues /\ Head(Tail(s)) = "o"
    BY <2>2, Zenon DEF Dialogues
  <2> QED
    BY <2>1, <2>3
<1>6. \/ s \in {<<"send">>, <<"c">>, <<"o">>, <<"h">>} \/ s = <<"ce", "h">>
      \/ s = <<"re", "ce", "h">> \/ s = <<"o", "re", "ce", "h">>
      \/ s = <<"c", "o", "re", "ce", "h">>
  BY Zenon DEF Dialogues
<1> QED
  BY <1>1, <1>2, <1>3, <1>4, <1>5, <1>6, Zenon

LEMMA Begun ==
  \A s \in {<<"o">>, <<"c">>, <<"send">>, <<"o">> \o laser_con_measure, laser_con_measure,
            laser_setup} : s \in Dialogues /\ Head(s) \in {"o", "c", "re", "send"}
                           /\ (Head(s) = "send" => s = <<"send">>)
  BY DEF Dialogues, laser_con_measure, laser_setup

LEMMA OnlyAppend ==
  ASSUME NEW queue \in Seq(Replies), NEW S, Only(queue, S), NEW r \in S, r \in Replies
  PROVE  Only(Append(queue, r), S)
<1>1. Len(Append(queue, r)) = Len(queue) + 1 /\ Len(queue) \in Nat
      /\ \A i \in 1 .. Len(queue) : Append(queue, r)[i] = queue[i]
      /\ Append(queue, r)[Len(queue) + 1] = r
  BY AppendProperties
<1> QED
  BY <1>1 DEF Only

LEMMA TailOf ==
  ASSUME NEW queue \in Seq(Replies), queue # <<>>
  PROVE  /\ Len(Tail(queue)) = Len(queue) - 1 /\ Len(queue) \in Nat /\ Len(queue) > 0
         /\ \A i \in 1 .. Len(queue) - 1 : Tail(queue)[i] = queue[i + 1]
         /\ Head(queue) = queue[1] /\ Tail(queue) \in Seq(Replies)
  BY HeadTailProperties, EmptySeq

LEMMA OnlyTail ==
  ASSUME NEW queue \in Seq(Replies), queue # <<>>, NEW S, Only(queue, S)
  PROVE  Only(Tail(queue), S) /\ Head(queue) \in S
  BY TailOf DEF Only

LEMMA StopTail ==
  ASSUME NEW queue \in Seq(Replies), queue # <<>>, StopLast(queue)
  PROVE  StopLast(Tail(queue)) /\ (Head(queue) = "?" => Tail(queue) = <<>>)
<1>1. StopLast(Tail(queue))
  BY TailOf DEF StopLast
<1>2. ASSUME Head(queue) = "?" PROVE Tail(queue) = <<>>
  <2>1. Len(queue) = 1
    <3>1. 1 \in 1 .. Len(queue) /\ queue[1] = "?"
      BY <1>2, TailOf
    <3> QED
      BY <3>1 DEF StopLast
  <2>2. Len(Tail(queue)) = 0
    BY <2>1, TailOf
  <2> QED
    BY <2>2, TailOf, EmptySeq
<1> QED
  BY <1>1, <1>2

LEMMA Singles ==
  ASSUME NEW x
  PROVE  Append(<<>>, x) = <<x>> /\ Head(<<x>>) = x /\ Tail(<<x>>) = <<>> /\ <<x>> # <<>>
         /\ Len(<<x>>) = 1 /\ <<x>>[1] = x
  OBVIOUS

LEMMA OnlyNone == \A S : Only(<<>>, S) /\ StopLast(<<>>)
  BY DEF Only, StopLast

LEMMA OnlyMore ==
  ASSUME NEW queue, NEW S, NEW T, S \subseteq T, Only(queue, S) PROVE Only(queue, T)
  BY DEF Only


(* What the two invariants read.                                           *)
LEMMA NotInDialogue ==
  ASSUME DialogueInv, UNCHANGED <<dialogue, Measures>>,
         ("ON" \in status) = ("ON" \in status')
  PROVE  DialogueInv'
<1>1. UNCHANGED <<txbuf, todo, at, wire, sensor, msgq, synced, solo>>
  BY DEF dialogue
<1> QED
  BY <1>1 DEF DialogueInv, Scripted, SoloInv, SyncInv, StopOnItsWay, Exchanging, Answered,
              Accepted, Still, Agrees, Measures, Tracks

LEMMA BeginKeeps ==
  ASSUME DialogueTypes, DialogueInv, NEW c \in Commanders, NEW s \in Dialogues, Begin(c, s),
         Head(s) \in {"o", "c", "re", "send"}, Head(s) = "send" => s = <<"send">>
  PROVE  DialogueInv'
<1>1. /\ at[c] = "idle" /\ at' = [at EXCEPT ![c] = "print"] /\ todo' = [todo EXCEPT ![c] = s]
      /\ solo' = (Quiet /\ \A d \in Commanders \ {c} : at[d] = "idle")
      /\ synced' => synced /\ solo' /\ Head(s) # "send"
      /\ UNCHANGED <<status, txbuf, wire, sensor, msgq>>
  BY DEF Begin, Idle
<1>2. /\ at'[c] = "print" /\ todo'[c] = s
      /\ \A d \in Commanders : d # c => at'[d] = at[d] /\ todo'[d] = todo[d]
  BY <1>1 DEF DialogueTypes
<1>3. Scripted'
  BY <1>2 DEF DialogueInv, Scripted
<1>4. ASSUME solo' PROVE wire = <<>> /\ Only(msgq, {"h"}) /\ \A d \in Commanders : at[d] = "idle"
  <2>1. wire = <<>> /\ \A i \in DOMAIN msgq : msgq[i] = "h"
    BY <1>1, <1>4 DEF Quiet
  <2>2. DOMAIN msgq = 1 .. Len(msgq)
    BY DEF DialogueTypes
  <2> QED
    BY <1>1, <1>4, <2>1, <2>2 DEF Only
<1>5. SoloInv'
  BY <1>1, <1>2, <1>4 DEF SoloInv, StopOnItsWay
<1>6. ASSUME synced' PROVE Still
  BY <1>1, <1>4, <1>6 DEF DialogueInv, SyncInv
<1>7. SyncInv'
  <2>1. Still' = Still
    BY <1>1 DEF Still, Agrees, Tracks, Measures
  <2>2. synced' => Exchanging(c, Head(s))'
    BY <1>1, <1>2, <1>4, <1>6, <2>1 DEF Exchanging
  <2> QED
    BY <1>1, <1>2, <1>4, <2>2 DEF SyncInv
<1> QED
  BY <1>3, <1>5, <1>7 DEF DialogueInv

(* A commander that goes on while the line is quiet, or waits.             *)
LEMMA ExchangeStarts ==
  ASSUME DialogueTypes, DialogueInv, NEW c \in Commanders, Snprintf(c) \/ FirstByte(c) \/ Wait(c)
  PROVE  DialogueInv'
<1> DEFINE q == Head(todo[c])
<1>1. /\ UNCHANGED <<status, todo, wire, sensor, msgq, synced, solo>>
      /\ at' = [at EXCEPT ![c] = at'[c]] /\ at[c] # "idle"
      /\ \/ at[c] = "print" /\ at'[c] = "printed" /\ (q = "send" \/ txbuf' = q)
         \/ at[c] = "printed" /\ at'[c] = "transmit" /\ txbuf' = txbuf
         \/ at[c] = "sent" /\ at'[c] = "wait" /\ txbuf' = txbuf
  BY DEF Snprintf, FirstByte, Wait, DialogueTypes
<1>2. \A d \in Commanders : d # c => at'[d] = at[d]
  BY <1>1 DEF DialogueTypes
<1>3. Scripted'
  BY <1>1, <1>2 DEF DialogueInv, Scripted
<1>4. ASSUME solo PROVE \A d \in Commanders : d # c => at[d] = "idle" /\ at'[d] = "idle"
  BY <1>1, <1>2, <1>4 DEF DialogueInv, SoloInv
<1>5. ASSUME solo, q = "c" PROVE StopOnItsWay(c)'
  <2>1. StopOnItsWay(c)
    BY <1>1, <1>5 DEF DialogueInv, SoloInv
  <2> QED
    BY <1>1, <1>5, <2>1 DEF StopOnItsWay
<1>6. SoloInv'
  BY <1>1, <1>4, <1>5 DEF SoloInv
<1>7. ASSUME synced, q # "c" PROVE Exchanging(c, q)'
  <2>1. Exchanging(c, q)
    BY <1>1, <1>7 DEF DialogueInv, SyncInv
  <2>2. Still' = Still /\ Answered(q)' = Answered(q) /\ Measures' = Measures
    BY <1>1 DEF Still, Answered, Agrees, Tracks, Measures
  <2> QED
    BY <1>1, <2>1, <2>2 DEF Exchanging
<1>8. SyncInv'
  <2>1. synced => solo
    BY DEF DialogueInv, SyncInv
  <2> QED
    BY <1>1, <1>4, <1>7, <2>1 DEF SyncInv
<1> QED
  BY <1>3, <1>6, <1>8 DEF DialogueInv

LEMMA LastByteKeeps ==
  ASSUME DialogueTypes, DialogueInv, NEW c \in Commanders, LastByte(c)
  PROVE  DialogueInv'
<1> DEFINE q == Head(todo[c])
<1>1. /\ UNCHANGED <<status, txbuf, todo, sensor, msgq, synced, solo>>
      /\ at[c] \in {"transmit", "garbled"} /\ at'[c] = "sent"
      /\ \A d \in Commanders : at'[d] = "idle" <=> at[d] = "idle"
  BY DEF LastByte, DialogueTypes
<1>2. Scripted'
  BY <1>1 DEF DialogueInv, Scripted
<1>3. ASSUME solo
      PROVE  /\ at[c] = "transmit" /\ \A d \in Commanders : d # c => at[d] = "idle" /\ at'[d] = "idle"
             /\ wire = <<>> /\ txbuf = q /\ q # "send" => wire' = <<q>>
  <2>1. at[c] = "transmit" /\ \A d \in Commanders : d # c => at[d] = "idle" /\ at'[d] = "idle"
    BY <1>1, <1>3 DEF DialogueInv, SoloInv
  <2>2. {d \in Commanders \ {c} : at[d] \in {"transmit", "garbled"}} = {}
    BY <2>1
  <2>3. wire' = Append(wire, txbuf) \/ (txbuf # q /\ q # "send")
    BY <2>1, <2>2 DEF LastByte
  <2> QED
    BY <2>1, <2>3, Singles
<1>4. ASSUME solo, q = "c" PROVE StopOnItsWay(c)'
  <2>1. StopOnItsWay(c)
    BY <1>1, <1>4 DEF DialogueInv, SoloInv
  <2> QED
    BY <1>1, <1>3, <1>4, <2>1 DEF StopOnItsWay
<1>5. SoloInv'
  BY <1>1, <1>3, <1>4 DEF SoloInv
<1>6. ASSUME synced, q # "c" PROVE solo /\ Exchanging(c, q)'
  <2>1. Exchanging(c, q) /\ solo
    BY <1>1, <1>6 DEF DialogueInv, SyncInv
  <2>2. Still' = Still /\ Measures' = Measures
    BY <1>1 DEF Still, Agrees, Tracks, Measures
  <2> QED
    BY <1>1, <1>3, <2>1, <2>2 DEF Exchanging
<1>7. SyncInv'
  <2>1. synced => solo
    BY DEF DialogueInv, SyncInv
  <2> QED
    BY <1>1, <1>3, <1>6, <2>1 DEF SyncInv
<1> QED
  BY <1>2, <1>5, <1>7 DEF DialogueInv

LEMMA AcknowledgedKeeps ==
  ASSUME DialogueTypes, DialogueInv, NEW c \in Commanders, Acknowledged(c)
  PROVE  DialogueInv'
<1> DEFINE q == Head(todo[c])
<1>1. /\ UNCHANGED <<txbuf, wire, sensor, msgq>>
      /\ at[c] = "acked" /\ status' = Noted(q)
      /\ synced' = (synced \/ (q = "c" /\ solo))
      /\ solo' = (solo \/ \A d \in Commanders : at'[d] = "idle")
  BY DEF Acknowledged
<1>2. /\ todo'[c] = Tail(todo[c]) /\ at'[c] = IF Len(todo[c]) = 1 THEN "idle" ELSE "print"
      /\ \A d \in Commanders : d # c => at'[d] = at[d] /\ todo'[d] = todo[d]
  BY DEF Acknowledged, DialogueTypes
<1>3. todo[c] \in Dialogues
  BY <1>1 DEF DialogueInv, Scripted
<1>4. q \in {"send", "c", "o", "re", "ce", "h"} /\ (q \in {"send", "h"} => at'[c] = "idle")
  BY <1>2, <1>3, Sequel
<1>5. at'[c] # "idle" =>
        /\ at'[c] = "print" /\ todo'[c] \in Dialogues
        /\ <<q, Head(todo'[c])>> \in {<<"c", "o">>, <<"o", "re">>, <<"re", "ce">>, <<"ce", "h">>}
  BY <1>2, <1>3, <1>4, Sequel
<1>6. Scripted'
  BY <1>2, <1>5 DEF DialogueInv, Scripted
<1>7. ASSUME solo PROVE \A d \in Commanders : d # c => at'[d] = "idle"
  BY <1>1, <1>2, <1>7 DEF DialogueInv, SoloInv
<1>8. SoloInv'
  <2>1. CASE solo
    BY <1>5, <1>7, <2>1 DEF SoloInv
  <2>2. CASE ~solo
    BY <1>1, <2>2 DEF SoloInv
  <2> QED
    BY <2>1, <2>2
<1>9. SyncInv'
  <2> SUFFICES ASSUME synced' PROVE SyncInv'
    BY DEF SyncInv
  <2>1. solo
    BY <1>1 DEF DialogueInv, SyncInv
  <2>2. CASE q = "c"
    <3>1. StopOnItsWay(c)
      BY <1>1, <2>1, <2>2 DEF DialogueInv, SoloInv
    <3>2. wire' = <<>> /\ Still'
      BY <1>1, <2>2, <3>1, OnlyNone DEF StopOnItsWay, Still, Agrees, Tracks, Measures, Noted
    <3> QED
      BY <1>1, <1>5, <1>7, <2>1, <2>2, <3>2 DEF SyncInv, Exchanging
  <2>3. CASE q # "c"
    <3>1. wire = <<>> /\ Accepted(q) /\ q # "send"
      BY <1>1, <2>3 DEF DialogueInv, SyncInv, Exchanging
    <3>2. Still'
      BY <1>1, <1>4, <2>3, <3>1, OnlyNone DEF Accepted, Still, Agrees, Tracks, Measures, Noted
    <3>3. q \in {"re", "ce"} => ~Measures'
      BY <1>1, <3>1 DEF Accepted, Measures, Noted
    <3> QED
      BY <1>1, <1>5, <1>7, <2>1, <2>3, <3>1, <3>2, <3>3 DEF SyncInv, Exchanging
  <2> QED
    BY <2>2, <2>3
<1> QED
  BY <1>6, <1>8, <1>9 DEF DialogueInv

LEMMA TimedOutKeeps ==
  ASSUME DialogueTypes, DialogueInv, NEW c \in Commanders, TimedOut(c)
  PROVE  DialogueInv'
<1>1. /\ UNCHANGED <<wire, sensor, msgq>> /\ at[c] # "idle" /\ at'[c] = "idle"
      /\ synced' = FALSE /\ solo' = (solo \/ \A d \in Commanders : at'[d] = "idle")
      /\ \A d \in Commanders : d # c => at'[d] = at[d] /\ todo'[d] = todo[d]
  BY DEF TimedOut, DialogueTypes
<1>2. Scripted'
  BY <1>1 DEF DialogueInv, Scripted
<1>3. \/ ~solo' \/ \A d \in Commanders : at'[d] = "idle"
  BY <1>1 DEF DialogueInv, SoloInv
<1> QED
  BY <1>1, <1>2, <1>3 DEF DialogueInv, SoloInv, SyncInv

(* What a reply makes of the queue.                                        *)
LEMMA ReceivedKinds ==
  ASSUME DialogueTypes, NEW reply \in Replies, Received(reply)
  PROVE  /\ synced' => synced
         /\ \A S : Only(msgq, S) => Only(msgq', S \cup {reply})
         /\ Only(msgq, {"h"}) => StopLast(msgq')
         /\ msgq = <<>> => msgq' \in {<<>>, <<reply>>}
<1>1. msgq \in Seq(Replies)
  BY DEF DialogueTypes
<1>2. CASE msgq' = Append(msgq, reply) /\ synced' = synced
  <2>1. ASSUME NEW S, Only(msgq, S) PROVE Only(msgq', S \cup {reply})
    <3>1. Only(msgq, S \cup {reply})
      BY <2>1, OnlyMore
    <3> QED
      BY <1>1, <1>2, <3>1, OnlyAppend
  <2>2. Only(msgq, {"h"}) => StopLast(msgq')
    BY <1>1, <1>2, AppendProperties DEF Only, StopLast
  <2>3. msgq = <<>> => msgq' = <<reply>>
    BY <1>2, Singles
  <2> QED
    BY <1>2, <2>1, <2>2, <2>3
<1>3. CASE msgq' = msgq /\ (synced' => synced)
  BY <1>3, OnlyMore DEF Only, StopLast
<1> QED
  BY <1>2, <1>3 DEF Received

LEMMA SensorKeeps ==
  ASSUME DialogueTypes, DialogueInv, Sensor
  PROVE  DialogueInv'
<1> DEFINE r == React(Head(wire))
<1>1. /\ UNCHANGED <<status, txbuf, todo, at, solo>>
      /\ wire # <<>> /\ wire' = Tail(wire) /\ sensor' = r.mode /\ Received(r.reply)
  BY DEF Sensor
<1>2. r.reply \in Replies
  BY <1>1 DEF React, Replies
<1>3. /\ synced' => synced
      /\ \A S : Only(msgq, S) => Only(msgq', S \cup {r.reply})
      /\ Only(msgq, {"h"}) => StopLast(msgq')
      /\ msgq = <<>> => msgq' \in {<<>>, <<r.reply>>}
  BY <1>1, <1>2, ReceivedKinds
<1>4. Scripted'
  BY <1>1 DEF DialogueInv, Scripted
<1>5. ASSUME solo, NEW c \in Commanders, at[c] # "idle", Head(todo[c]) = "c"
      PROVE  StopOnItsWay(c)'
  <2>1. StopOnItsWay(c)
    BY <1>5 DEF DialogueInv, SoloInv
  <2>2. at[c] \in {"sent", "wait"} => wire = <<"c">> /\ Only(msgq, {"h"})
    BY <1>1, <2>1 DEF StopOnItsWay
  <2>3. wire = <<"c">> => wire' = <<>> /\ sensor' = "off" /\ r.reply = "?"
    BY <1>1, Singles DEF React
  <2>4. Only(msgq, {"h"}) => Only(msgq', {"h"} \cup {r.reply})
    BY <1>3
  <2>5. {"h"} \cup {"?"} = {"h", "?"}
    OBVIOUS
  <2> QED
    BY <1>1, <1>3, <2>1, <2>2, <2>3, <2>4, <2>5 DEF StopOnItsWay
<1>6. SoloInv'
  BY <1>1, <1>5 DEF DialogueInv, SoloInv
<1>7. ASSUME synced, NEW c \in Commanders, at[c] # "idle", Head(todo[c]) # "c",
             NEW q, q = Head(todo[c])
      PROVE  Exchanging(c, q)'
  <2>1. Exchanging(c, q) /\ q \in {"o", "re", "ce", "h"}
    BY <1>7, Sequel DEF DialogueInv, Scripted, SyncInv, Exchanging
  <2>2. CASE at[c] \in {"sent", "wait"}
    <3>1. wire = <<q>> /\ Still /\ (q \in {"ce", "h"} => ~Measures)
      BY <1>1, <2>1, <2>2 DEF Exchanging
    <3>2. wire' = <<>> /\ r = React(q)
      BY <1>1, <3>1, Singles
    <3>3. Measures' = Measures
      BY <1>1 DEF Measures
    <3> SUFFICES Answered(q)'
      BY <1>1, <2>1, <2>2, <3>2 DEF Exchanging
    <3>4. CASE q = "o"
      <4>1. CASE Tracks
        <5>1. r.reply = "@E" /\ sensor' = sensor
          BY <1>1, <3>2, <3>4, <4>1 DEF React, Tracks
        <5>2. Only(msgq', {"h"} \cup {"@E"}) /\ {"h"} \cup {"@E"} = {"h", "@E"}
          BY <1>3, <3>1, <5>1 DEF Still
        <5> QED
          BY <1>1, <3>1, <3>2, <3>4, <4>1, <5>1, <5>2
             DEF Answered, Still, Agrees, Tracks, Measures
      <4>2. CASE ~Tracks
        <5>1. r.reply = "?" /\ sensor' = "on" /\ msgq = <<>> /\ ~Measures
          BY <1>1, <3>1, <3>2, <3>4, <4>2 DEF React, Tracks, Still, Agrees
        <5> QED
          BY <1>1, <1>3, <3>2, <3>3, <3>4, <4>2, <5>1 DEF Answered
      <4> QED
        BY <4>1, <4>2
    <3>5. CASE q = "h"
      <4>1. msgq = <<>> /\ sensor # "tracking" /\ ~Measures
        BY <3>1, <3>5 DEF Still, Agrees, Tracks
      <4>2. CASE sensor = "on"
        <5>1. r.reply = "h" /\ sensor' = "tracking" /\ "ON" \in status
          BY <1>1, <3>1, <3>2, <3>5, <4>2 DEF React, Still, Agrees
        <5>2. Only(msgq', {"h"})
          <6>1. Only(msgq', {"h"} \cup {"h"})
            BY <1>3, <3>1, <5>1 DEF Still
          <6>2. {"h"} \cup {"h"} = {"h"}
            OBVIOUS
          <6> QED
            BY <6>1, <6>2
        <5> QED
          BY <1>1, <3>2, <3>5, <5>1, <5>2 DEF Answered, Tracks
      <4>3. CASE sensor = "off"
        <5>1. r.reply = "@E" /\ sensor' = "off"
          BY <1>1, <3>2, <3>5, <4>3 DEF React
        <5> QED
          BY <1>1, <1>3, <3>1, <3>2, <3>5, <4>1, <4>3, <5>1
             DEF Answered, Still, Agrees, Tracks, Measures
      <4> QED
        BY <4>1, <4>2, <4>3 DEF DialogueTypes
    <3>6. CASE q \in {"re", "ce"}
      <4>1. r.reply = "@E" /\ sensor' = sensor
        BY <1>1, <3>2, <3>6 DEF React
      <4> QED
        BY <1>1, <1>3, <3>1, <3>2, <3>6, <4>1
           DEF Answered, Still, Agrees, Tracks, Measures
    <3> QED
      BY <2>1, <3>4, <3>5, <3>6
  <2>3. CASE at[c] \notin {"sent", "wait"}
    <3>1. at[c] = "garbled"
      BY <1>1, <1>7, <2>1, <2>3 DEF Exchanging, DialogueTypes
    <3> QED
      BY <1>7, <3>1 DEF DialogueInv, SyncInv, SoloInv
  <2> QED
    BY <2>2, <2>3
<1>8. SyncInv'
  <2>1. synced => ~\A c \in Commanders : at[c] = "idle"
    BY <1>1 DEF DialogueInv, SyncInv
  <2>2. synced => solo
    BY DEF DialogueInv, SyncInv
  <2> QED
    BY <1>1, <1>3, <1>7, <2>1, <2>2 DEF SyncInv
<1> QED
  BY <1>4, <1>6, <1>8 DEF DialogueInv

LEMMA DistanceKeeps ==
  ASSUME DialogueTypes, DialogueInv, Distance
  PROVE  DialogueInv'
<1>1. /\ UNCHANGED <<status, txbuf, todo, at, wire, sensor, solo>>
      /\ sensor = "tracking" /\ Received("h")
  BY DEF Distance
<1>2. /\ synced' => synced
      /\ \A S : Only(msgq, S) => Only(msgq', S \cup {"h"})
  BY <1>1, ReceivedKinds DEF Replies
<1>3. /\ Only(msgq, {"h"}) => Only(msgq', {"h"})
      /\ Only(msgq, {"h", "@E"}) => Only(msgq', {"h", "@E"})
  <2>1. {"h"} \cup {"h"} = {"h"} /\ {"h", "@E"} \cup {"h"} = {"h", "@E"}
    OBVIOUS
  <2> QED
    BY <1>2, <2>1
<1>4. Scripted'
  BY <1>1 DEF DialogueInv, Scripted
<1>5. SoloInv'
  BY <1>1, <1>3 DEF DialogueInv, SoloInv, StopOnItsWay
<1>6. Still => Still' /\ Measures' = Measures /\ Tracks /\ Tracks'
  BY <1>1, <1>3 DEF Still, Agrees, Tracks, Measures
<1>7. ASSUME NEW q, Answered(q) PROVE Answered(q)'
  BY <1>1, <1>3, <1>7 DEF Answered, Agrees, Tracks, Measures
<1>8. ASSUME NEW q, Accepted(q) PROVE Accepted(q)'
  BY <1>1, <1>3, <1>8 DEF Accepted, Agrees, Tracks, Measures
<1>9. ASSUME NEW c \in Commanders, NEW q, Exchanging(c, q) PROVE Exchanging(c, q)'
  <2>1. Measures' = Measures
    BY <1>1 DEF Measures
  <2> QED
    BY <1>1, <1>6, <1>7, <1>8, <1>9, <2>1 DEF Exchanging
<1>10. SyncInv'
  BY <1>1, <1>2, <1>6, <1>9 DEF DialogueInv, SyncInv
<1> QED
  BY <1>4, <1>5, <1>10 DEF DialogueInv

LEMMA TakeKinds ==
  ASSUME DialogueTypes, Take
  PROVE  /\ msgq # <<>> /\ Head(msgq) \in Replies
         /\ \A S : Only(msgq, S) => Only(msgq', S) /\ Head(msgq) \in S
         /\ StopLast(msgq) /\ Head(msgq) = "?" => msgq' = <<>>
         /\ StopLast(msgq) => StopLast(msgq')
         /\ \A x : msgq = <<x>> => msgq' = <<>> /\ Head(msgq) = x
<1>1. msgq \in Seq(Replies) /\ msgq # <<>> /\ msgq' = Tail(msgq)
  BY DEF Take, DialogueTypes
<1>2. \A S : Only(msgq, S) => Only(msgq', S) /\ Head(msgq) \in S
  BY <1>1, OnlyTail
<1>3. StopLast(msgq) => StopLast(msgq') /\ (Head(msgq) = "?" => msgq' = <<>>)
  BY <1>1, StopTail
<1>4. \A x : msgq = <<x>> => msgq' = <<>> /\ Head(msgq) = x
  BY <1>1, Singles
<1>5. Head(msgq) \in Replies
  BY <1>1, HeadTailProperties
<1> QED
  BY <1>1, <1>2, <1>3, <1>4, <1>5

(* Which reply acknowledges which request.                                 *)
LEMMA Acknowledges ==
  ASSUME DialogueTypes, OnDistance \/ OnError \/ OnStop \/ OnOther, NEW c \in Commanders,
         Head(todo[c]) \in {"c", "o", "re", "ce", "h"}, at'[c] # at[c]
  PROVE  /\ at[c] = "wait" /\ at'[c] = "acked"
         /\ \/ Head(msgq) = "h" /\ Head(todo[c]) = "h"
            \/ Head(msgq) = "@E" /\ ~Measures /\ Head(todo[c]) \in {"re", "ce"}
            \/ Head(msgq) = "?" /\ Head(todo[c]) \in {"c", "o"}
<1>1. ASSUME NEW e \in Events, Set(e)
      PROVE  at[c] = "wait" /\ at'[c] = "acked" /\ e \in Mask(c)
  BY <1>1 DEF Set, DialogueTypes
<1> QED
  BY <1>1 DEF OnDistance, OnError, OnStop, OnOther, Mask, Events, Measures

LEMMA MessageKeeps ==
  ASSUME DialogueTypes, DialogueInv, OnDistance \/ OnError \/ OnStop \/ OnOther
  PROVE  DialogueInv'
<1>1. /\ UNCHANGED <<txbuf, todo, wire, sensor, synced, solo>> /\ Take
      /\ Measures' = Measures /\ ("ON" \in status) = ("ON" \in status')
      /\ \A c \in Commanders : at'[c] = at[c] \/ (at[c] = "wait" /\ at'[c] = "acked")
  <2>1. \A e : Set(e) => \A c \in Commanders : at'[c] = at[c] \/ (at[c] = "wait" /\ at'[c] = "acked")
    BY DEF Set, DialogueTypes
  <2>2. /\ UNCHANGED <<txbuf, todo, wire, sensor, synced, solo>> /\ Take
        /\ UNCHANGED at \/ \E e : Set(e)
    BY DEF OnDistance, OnError, OnStop, OnOther
  <2>3. status' = status \/ status' = status \ {"FW_UPDATE"}
    BY DEF OnDistance, OnError, OnStop, OnOther, Report
  <2> QED
    BY <2>1, <2>2, <2>3 DEF Measures
<1>2. /\ msgq # <<>> /\ Head(msgq) \in Replies
      /\ \A S : Only(msgq, S) => Only(msgq', S) /\ Head(msgq) \in S
      /\ StopLast(msgq) /\ Head(msgq) = "?" => msgq' = <<>>
      /\ StopLast(msgq) => StopLast(msgq')
      /\ \A x : msgq = <<x>> => msgq' = <<>> /\ Head(msgq) = x
  BY <1>1, TakeKinds
<1>3. Scripted'
  BY <1>1 DEF DialogueInv, Scripted
<1>4. Only(msgq, {"h"}) => Only(msgq', {"h"}) /\ Head(msgq) = "h"
  BY <1>2
<1>5. ASSUME solo, NEW c \in Commanders, at[c] # "idle", Head(todo[c]) = "c"
      PROVE  StopOnItsWay(c)'
  <2>1. StopOnItsWay(c)
    BY <1>5 DEF DialogueInv, SoloInv
  <2>2. CASE at'[c] = at[c]
    <3>1. Only(msgq, {"h", "?"}) => Only(msgq', {"h", "?"})
      BY <1>2
    <3> QED
      BY <1>1, <1>2, <1>4, <2>1, <2>2, <3>1 DEF StopOnItsWay
  <2>3. CASE at'[c] # at[c]
    <3>1. at[c] = "wait" /\ at'[c] = "acked" /\ Head(msgq) = "?"
      BY <1>5, <2>3, Acknowledges
    <3>2. wire = <<>> /\ sensor = "off" /\ StopLast(msgq)
      BY <1>4, <2>1, <3>1 DEF StopOnItsWay
    <3> QED
      BY <1>1, <1>2, <3>1, <3>2 DEF StopOnItsWay
  <2> QED
    BY <2>2, <2>3
<1>6. SoloInv'
  BY <1>1, <1>5 DEF DialogueInv, SoloInv
<1>7. Still => Still'
  BY <1>1, <1>2, <1>4 DEF Still, Agrees, Tracks
<1>8. ASSUME NEW q, Answered(q) PROVE Answered(q)'
  <2>1. Only(msgq, {"h", "@E"}) => Only(msgq', {"h", "@E"})
    BY <1>2
  <2> QED
    BY <1>1, <1>2, <1>4, <1>8, <2>1 DEF Answered, Agrees, Tracks
<1>9. ASSUME NEW q, Accepted(q) PROVE Accepted(q)'
  BY <1>1, <1>2, <1>4, <1>9 DEF Accepted, Agrees, Tracks
<1>10. ASSUME synced, NEW c \in Commanders, at[c] # "idle", Head(todo[c]) # "c",
              NEW q, q = Head(todo[c])
       PROVE  Exchanging(c, q)'
  <2>1. Exchanging(c, q) /\ q \in {"o", "re", "ce", "h"}
    BY <1>10, Sequel DEF DialogueInv, Scripted, SyncInv, Exchanging
  <2>2. CASE at'[c] = at[c]
    BY <1>1, <1>7, <1>8, <1>9, <2>1, <2>2 DEF Exchanging
  <2>3. CASE at'[c] # at[c]
    <3>1. /\ at[c] = "wait" /\ at'[c] = "acked"
          /\ \/ Head(msgq) = "h" /\ q = "h"
             \/ Head(msgq) = "@E" /\ ~Measures /\ q \in {"re", "ce"}
             \/ Head(msgq) = "?" /\ q = "o"
      BY <1>10, <2>1, <2>3, Acknowledges
    <3>2. wire = <<>> /\ Answered(q)
      <4>1. Still => Head(msgq) = "h" /\ Tracks
        BY <1>2, <1>4 DEF Still
      <4> QED
        BY <2>1, <3>1, <4>1 DEF Exchanging, Still, Agrees
    <3>3. Accepted(q)'
      <4>1. CASE q = "o"
        <5>1. Head(msgq) = "?" /\ ~Only(msgq, {"h", "@E"})
          BY <1>2, <3>1, <4>1
        <5> QED
          BY <1>1, <1>2, <3>2, <4>1, <5>1 DEF Answered, Accepted
      <4>2. CASE q = "h"
        BY <1>1, <1>2, <1>4, <3>1, <3>2, <4>2 DEF Answered, Accepted, Tracks
      <4>3. CASE q \in {"re", "ce"}
        BY <1>1, <1>2, <3>1, <3>2, <4>3 DEF Answered, Accepted, Agrees, Tracks
      <4> QED
        BY <2>1, <4>1, <4>2, <4>3
    <3> QED
      BY <1>1, <2>1, <3>1, <3>2, <3>3 DEF Exchanging
  <2> QED
    BY <2>2, <2>3
<1>11. SyncInv'
  BY <1>1, <1>7, <1>10 DEF DialogueInv, SyncInv
<1> QED
  BY <1>3, <1>6, <1>11 DEF DialogueInv

LEMMA InitDialogue == LaserInit => DialogueInv
<1> SUFFICES ASSUME LaserInit PROVE DialogueInv
  OBVIOUS
<1>1. /\ \A c \in Commanders : at[c] = "idle"
      /\ status = {} /\ wire = <<>> /\ msgq = <<>> /\ solo /\ (synced => sensor = "off")
  BY DEF LaserInit
<1>2. synced => Still
  BY <1>1, OnlyNone DEF Still, Agrees, Measures, Tracks
<1> QED
  BY <1>1, <1>2 DEF DialogueInv, Scripted, SoloInv, SyncInv

LEMMA DialogueKeeps == ASSUME DialogueTypes, DialogueInv, LaserNext PROVE DialogueInv'
<1>1. CASE CanEnable \/ CanDisable \/ ShellCommand
  BY <1>1, Begun, BeginKeeps DEF CanEnable, CanDisable, ShellCommand, Commanders
<1>2. ASSUME UNCHANGED dialogue, NEW b \in {"DEVICE_STATUS", "WRITE_MODE", "FW_UPDATE"},
             status' \in {status, status \ {b}, status \cup {b}}
      PROVE  DialogueInv'
  <2>1. Measures' = Measures /\ ("ON" \in status) = ("ON" \in status')
    BY <1>2 DEF Measures
  <2> QED
    BY <1>2, <2>1, NotInDialogue
<1>3. CASE ControlWord \/ RegisterMode
  <2>1. PICK b \in {"DEVICE_STATUS", "WRITE_MODE", "FW_UPDATE"} : SetBit(b)
    BY <1>3 DEF ControlWord, RegisterMode
  <2>2. UNCHANGED dialogue /\ status' \in {status, status \ {b}, status \cup {b}}
    BY <2>1 DEF SetBit
  <2> QED
    BY <1>2, <2>2
<1>4. CASE StartUpdate \/ FwData \/ BoardConfirm \/ TenSeconds
  <2>1. UNCHANGED dialogue
        /\ status' \in {status, status \ {"FW_UPDATE"}, status \cup {"FW_UPDATE"}}
    BY <1>4 DEF StartUpdate, FwData, BoardConfirm, TenSeconds, UpgradeFrame
  <2> QED
    BY <1>2, <2>1
<1>5. CASE \E c \in Commanders : \/ Flatten(c) \/ Write(c)
                                 \/ \E r \in Registers, v \in Values : RegisterWrite(c, r, v)
  <2>1. UNCHANGED dialogue /\ status' = status
    BY <1>5 DEF Flatten, Write, RegisterWrite
  <2>2. "FW_UPDATE" \in {"DEVICE_STATUS", "WRITE_MODE", "FW_UPDATE"}
    OBVIOUS
  <2> QED
    BY <1>2, <2>1, <2>2
<1>6. CASE laser_can_send
  <2>1. UNCHANGED <<status, txbuf, todo, at, wire, sensor, msgq, synced, solo>>
    BY <1>6 DEF laser_can_send
  <2> QED
    BY <2>1 DEF DialogueInv, Scripted, SoloInv, SyncInv, StopOnItsWay, Exchanging, Answered,
                Accepted, Still, Agrees, Measures, Tracks
<1>7. CASE LaserRestart
  <2>1. synced' = FALSE /\ \A c \in Commanders : at'[c] = "idle"
    BY <1>7 DEF LaserRestart
  <2> QED
    BY <2>1 DEF DialogueInv, Scripted, SoloInv, SyncInv
<1> QED
  BY <1>1, <1>3, <1>4, <1>5, <1>6, <1>7, ExchangeStarts, LastByteKeeps, AcknowledgedKeeps,
     TimedOutKeeps, SensorKeeps, DistanceKeeps, MessageKeeps DEF LaserNext, Exchange, Message

LEMMA DialogueStutters == ASSUME DialogueInv, UNCHANGED laserVars PROVE DialogueInv'
<1>1. UNCHANGED <<status, dialogue>>
  BY DEF laserVars
<1>2. UNCHANGED <<Measures>>
  BY <1>1 DEF Measures
<1> QED
  BY <1>1, <1>2, NotInDialogue

LEMMA Told == ASSUME DialogueInv PROVE StatusAgrees
<1> SUFFICES ASSUME synced, \A c \in Commanders : at[c] = "idle" PROVE Agrees
  BY DEF StatusAgrees, Agrees, Measures, Tracks
<1> QED
  BY DEF DialogueInv, SyncInv, Still

-----------------------------------------------------------------------------
(* The theorems.                                                           *)

BoardsInv == LaserInv /\ DialogueInv /\ BootInv

(* Whatever program runs, the invariants of both hold.                     *)
THEOREM BoardsInvariant == Spec => []BoardsInv
<1>1. Init => BoardsInv
  BY InitLaser, InitDialogue, InitBoot DEF Init, BoardsInv
<1>2. BoardsInv /\ [Next]_boardVars => BoardsInv'
  <2> SUFFICES ASSUME BoardsInv, [Next]_boardVars PROVE BoardsInv'
    OBVIOUS
  <2>1. CASE LaserNext /\ UNCHANGED bootVars
    BY <2>1, LaserKeeps, DialogueKeeps, BootStutters DEF BoardsInv, LaserInv
  <2>2. CASE BootNext /\ UNCHANGED laserVars
    BY <2>2, BootKeeps, LaserStutters, DialogueStutters DEF BoardsInv
  <2>3. CASE UNCHANGED boardVars
    BY <2>3, BootStutters, LaserStutters, DialogueStutters DEF BoardsInv, boardVars
  <2> QED
    BY <2>1, <2>2, <2>3 DEF Next
<1> QED
  BY <1>1, <1>2, PTL DEF Spec

(* Type correctness: among the bounds that hold are those of the buffer    *)
(* and of the next address (fw_upgrade.c:99-112), of the page to erase and *)
(* of the frame the host sends next.                                       *)
THEOREM TypeCorrect == Spec => []TypeOK
<1>1. BoardsInv => TypeOK
  <2> SUFFICES ASSUME BoardsInv PROVE TypeOK
    OBVIOUS
  <2>1. LaserTypeOK
    <3>1. fw \in [total : 0 .. Image, offset : 0 .. MaxCommands, written : 0 .. MaxCommands]
      BY DEF BoardsInv, LaserInv, UpgradeTypes
    <3> QED
      BY <3>1 DEF BoardsInv, LaserInv, DialogueTypes, UpgradeTypes, RegisterInv, LaserTypeOK
  <2>2. addr \in 1 .. received + 1
    BY Numbers DEF BoardsInv
  <2>3. BootTypeOK
    BY <2>2 DEF BoardsInv, BootInv, BootTypes, Ranges, Hosts, Counted, BootTypeOK
  <2> QED
    BY <2>1, <2>3 DEF TypeOK
<1> QED
  BY <1>1, BoardsInvariant, PTL

(* Once a stop was acknowledged undisturbed (can.c:110), the status bits    *)
(* tell what the sensor does until an exchange is disturbed: for a queue   *)
(* of any length and any commands of the CAN host and the console.         *)
THEOREM StatusFollowsSensor == Spec => []StatusAgrees
<1>1. BoardsInv => StatusAgrees
  BY Told DEF BoardsInv
<1> QED
  BY <1>1, BoardsInvariant, PTL

(* The registers a restart finds (flash.c:66-72), for any number of        *)
(* writers' turns, failures and restarts.                                  *)
THEOREM RegistersSurvive == Spec => []RegistersKept
<1>1. BoardsInv => RegistersKept
  BY DEF BoardsInv, LaserInv, RegisterInv
<1> QED
  BY <1>1, BoardsInvariant, PTL

(* The end of flash_buffer (fw_upgrade.c:109), for any size of it.         *)
THEOREM BufferHolds == Spec => []BufferKept
<1>1. BoardsInv => BufferKept
  BY Numbers DEF BoardsInv, BootInv, Ranges, Bounded, BufferKept
<1> QED
  BY <1>1, BoardsInvariant, PTL

(* A confirmed download is whole when it is started (fw_upgrade.c:86-94).  *)
THEOREM ConfirmedIsWhole == Spec => ConfirmedWhole
<1> DEFINE Claim == mode = "boot" /\ mode' = "app" /\ total > 0 /\ ~mixed /\ ~broken
                      => \E d \in 1 .. downloads : size[d] = total /\ Whole(d)
<1>1. BoardsInv /\ [Next]_boardVars => [Claim]_bootVars
  <2> SUFFICES ASSUME BoardsInv, BootNext, mode = "boot", mode' = "app", total > 0, ~mixed, ~broken
               PROVE  \E d \in 1 .. downloads : size[d] = total /\ Whole(d)
    BY DEF Next, boardVars
  <2>1. PICK t \in Transports : JumpToApp(t)
    BY DEF BootNext, PowerUp, PowerCut, AppRequestsUpgrade, Start, ErasePage, Lost, Extra, Data,
           FlashWrite, Advance, Confirm, Reboot
  <2>2. received = total /\ buffer = <<>> /\ BootInv
    BY <2>1 DEF JumpToApp, At, BoardsInv, BootInv, Bounded
  <2>3. addr = received + 1
    <3>1. Len(<<>>) = 0
      OBVIOUS
    <3> QED
      BY <2>2, <3>1, Numbers
  <2>4. downloads \in 1 .. downloads /\ size[downloads] = total
    BY <2>2, Numbers DEF BootInv, Hosts
  <2>5. Promised <= total
    <3>1. host[owner].next <= size[host[owner].download] + 1
      BY <2>2, Numbers DEF BootInv, Hosts
    <3> QED
      BY <2>2, <2>4, <3>1, Numbers DEF Promised
  <2>6. Content
    BY <2>2, <2>5, Numbers DEF BootInv, InPlace, Promised
  <2>7. Whole(downloads)
    <3>1. \A p \in 1 .. total : p \in Cells /\ flash[p] = <<downloads, p>>
      BY <2>2, <2>3, <2>6, Numbers DEF Content
    <3> QED
      BY <2>2, <2>4, <3>1, Numbers DEF Whole
  <2> QED
    BY <2>4, <2>7
<1>2. Spec => [][Claim]_bootVars
  BY <1>1, BoardsInvariant, PTL DEF Spec
<1> QED
  BY <1>2 DEF ConfirmedWhole

(* An image that was complete is started in full or not at all             *)
(* (main.c:71-73).                                                         *)
THEOREM StartedIsFull == Spec => StartedInFull
<1> DEFINE Claim == mode = "off" /\ mode' = "app"
                      => LET d == flash[1][1]
                         IN d \in complete /\ PageOf(size[d]) < Pages => Whole(d)
<1>1. BoardsInv /\ [Next]_boardVars => [Claim]_bootVars
  <2> SUFFICES ASSUME BoardsInv, BootNext, mode = "off", mode' = "app"
               PROVE  flash[1][1] \in complete /\ PageOf(size[flash[1][1]]) < Pages
                        => Whole(flash[1][1])
    BY DEF Next, boardVars
  <2>1. PowerUp
    BY DEF BootNext, PowerCut, AppRequestsUpgrade, Start, ErasePage, Lost, Extra, Data, FlashWrite,
           Advance, Confirm, JumpToApp, Reboot, Receive, At, Turn
  <2>2. flash[1] # Erased
    BY <2>1 DEF PowerUp, VerifyAppFirmware
  <2> QED
    BY <2>2 DEF BoardsInv, BootInv, Standing
<1>2. Spec => [][Claim]_bootVars
  BY <1>1, BoardsInvariant, PTL DEF Spec
<1> QED
  BY <1>2 DEF StartedInFull

=============================================================================
