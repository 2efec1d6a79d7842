---------------------------- MODULE MCGatewayLed ----------------------------
(* Two threads (the radio receive thread and a sender) and ticks of 50 ms.  *)
EXTENDS GatewayLed

(* led.c:40 says of error_latched "once set, never goes out again" (and    *)
(* led.c:7 of the light: "locked on").  The code: gw_rf24_init can find    *)
(* the radio missing within the 150 ms of the power-on self test, whose    *)
(* work handler then puts the light out without looking at error_latched.  *)
ErrorLightLocked == [][errorLatched /\ ledErr => ledErr']_vars
=============================================================================
