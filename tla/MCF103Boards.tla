---------------------------- MODULE MCF103Boards ----------------------------
(* F103Boards for TLC.                                                      *)
EXTENDS F103Boards
=============================================================================
