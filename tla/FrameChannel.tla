---------------------------- MODULE FrameChannel ----------------------------
(***************************************************************************)
(* What nrf24_crypt promises of one direction of the radio link            *)
(* (nrf24_crypt.c:142-160): whatever the radio repeats, loses or delays,   *)
(* the receiver opens only frames that were sealed, and none of the last   *)
(* Memory frames it has opened since its window was reset once more.       *)
(***************************************************************************)
EXTENDS Naturals, Sequences

CONSTANTS
  Frames,
  Memory    \* openings back to which a repeated frame is recognised

VARIABLES
  sealed,   \* the frames the sender has sealed
  opened    \* the frames the receiver has opened since its last reset

Init == sealed = {} /\ opened = <<>>

Seal  == /\ \E f \in Frames \ sealed : sealed' = sealed \cup {f}
         /\ UNCHANGED opened

Recent == {opened[k] : k \in {n \in 1 .. Len(opened) : Len(opened) - n < Memory}}

Open  == /\ \E f \in sealed \ Recent : opened' = Append(opened, f)
         /\ UNCHANGED sealed

Reset == opened' = <<>> /\ UNCHANGED sealed

Next == Seal \/ Open \/ Reset

Spec == Init /\ [][Next]_<<sealed, opened>>
=============================================================================
