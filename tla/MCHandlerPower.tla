--------------------------- MODULE MCHandlerPower ---------------------------
(* HandlerPower for TLC, and a claim of the documents that it refutes.      *)
EXTENDS HandlerPower

(* The behaviours in which nothing is typed or pressed before main has     *)
(* reached its loop, and a system_sleep that has begun its 100 ms is done  *)
(* before the 200 ms of the system_wake that follows it.                   *)
Booting == pc["main"] = "load" \/ InSwitch("main")

Usual ==
  /\ Booting => UNCHANGED <<presses, switches>> /\ pc'["shell"] = "out"
  /\ WakeReinit => \A t \in Movers : pc[t] \notin {"cut", "dark"}

UsualSpec == Init /\ [][Next /\ Usual]_vars

(* README.md:20 "sleep ... turns the power of every peripheral off; on     *)
(* waking they are powered up again": with no procedure under way, the     *)
(* rails are off exactly when the system sleeps.                           *)
SleepPowersOff == Settled => (sleeping = 1 <=> Dark)
=============================================================================
