------------------------------ MODULE F103Boards ------------------------------
(***************************************************************************)
(* The two programs of the repository for STM32F103 boards that take a     *)
(* firmware image frame by frame over CAN: applications/laser_ctrl, which  *)
(* stores it for MCUboot while it commands its sensor, and                 *)
(* applications/stm32_bootloader, which writes it over the application.    *)
(* A board runs one of them; they share nothing but the host's protocol.   *)
(***************************************************************************)
EXTENDS LaserCtrl, Bootloader

VARIABLE program

boardVars == <<program, laserVars, bootVars>>

TypeOK == LaserTypeOK /\ BootTypeOK

Init ==
  /\ LaserInit /\ BootInit
  /\ \/ program = "laser_ctrl" /\ \A s \in Sizes \cap Cells : s <= size[0]
     \/ program = "stm32_bootloader" /\ sensor = "off"

Next ==
  \/ program = "laser_ctrl" /\ LaserNext /\ UNCHANGED <<program, bootVars>>
  \/ program = "stm32_bootloader" /\ BootNext /\ UNCHANGED <<program, laserVars>>

Spec == Init /\ [][Next]_boardVars /\ LaserFairness
=============================================================================
