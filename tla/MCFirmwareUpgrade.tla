------------------------- MODULE MCFirmwareUpgrade -------------------------
(* FirmwareUpgrade for TLC, and a claim of the documents it refutes.       *)
EXTENDS FirmwareUpgrade

(* docs/applications/mod-handler.md:224 "after the transfer the image is   *)
(* verified, the write is confirmed to have succeeded": a CONFIRM that the *)
(* CAN server accepts finds the image in slot1.                            *)
ConfirmedImageIntact ==
  [][pending' # "none" => \A i \in Frames : slot'[i] = i]_vars
=============================================================================
