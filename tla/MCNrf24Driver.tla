--------------------------- MODULE MCNrf24Driver ---------------------------
(* Nrf24Driver for TLC, and a claim of the source that the code refutes.   *)
EXTENDS Nrf24Driver

(* nrf24l01p.c:330 "RX ready: drain the FIFO in a loop (edge triggering    *)
(* may merge several frames, the loop guarantees none is lost)": the       *)
(* FLUSH_RX that follows the read of one payload never throws another      *)
(* frame away.                                                             *)
NoFrameFlushed == [][IrqFlush => rxFifo = <<>>]_vars
=============================================================================
