-------------------------- MODULE GatewayLed_proofs --------------------------
(***************************************************************************)
(* What the activity light keeps to, for any set of calling threads, any   *)
(* periods and timeouts, and any time a caller is preempted for.           *)
(***************************************************************************)
EXTENDS GatewayLed, TLAPS

LEMMA Constants ==
  /\ HalfPeriod \in Nat /\ HalfPeriod > 0 /\ SelfTest \in Nat /\ SelfTest > 0
  /\ Timeout \in Nat /\ HalfPeriod < Timeout /\ CallTicks \in Nat /\ MaxActivity \in Nat
  BY LedAssumption

USE Constants

Places == {"out", "stamp", "test", "claim", "dim", "arm", "dead"}

(* Until the light is initialised no thread reports activity.              *)
Unlit == boot = "led" => blinkWork = Idle /\ \A t \in Threads : pc[t] = "out"

(* A dark light and a set flag each have someone who will see to them.     *)
Attended ==
  boot # "led" /\ ~errorLatched =>
    /\ ledRf24 \/ blinkWork # Idle \/ \E t \in Threads : pc[t] = "arm"
    /\ ~blinking \/ blinkWork # Idle \/ \E t \in Threads : pc[t] \in {"dim", "arm"}

LedInv == TypeOK /\ Unlit /\ Attended

LEMMA InitHolds == Init => LedInv
<1> SUFFICES ASSUME Init PROVE LedInv
  OBVIOUS
<1>1. TypeOK
  <2>1. pc \in [Threads -> Places] /\ age \in [Threads -> 0 .. Timeout]
    BY DEF Init, Places
  <2>2. quiet \in 0 .. Timeout /\ calls \in 0 .. MaxActivity
    BY DEF Init
  <2> QED
    BY <2>1, <2>2 DEF Init, TypeOK, Places
<1> QED
  BY <1>1 DEF Init, LedInv, Unlit, Attended

LEMMA MainKeeps == ASSUME LedInv, Main PROVE LedInv'
<1> USE DEF LedInv
<1>1. UNCHANGED <<quiet, pc, age, calls>>
  BY DEF Main, gw_led_init, gw_rf24_init, gw_led_sys_on
<1>2. TypeOK'
  <2>1. /\ ledRf24' \in BOOLEAN /\ ledErr' \in BOOLEAN /\ ledSys' \in BOOLEAN
        /\ errorLatched' \in BOOLEAN /\ blinking' \in BOOLEAN
    BY DEF TypeOK, Main, gw_led_init, gw_rf24_init, gw_led_sys_on, gw_led_error_on
  <2>2. boot' \in {"led", "rf24", "wait", "ready"}
    BY DEF Main, gw_led_init, gw_rf24_init, gw_led_sys_on
  <2>3. blinkWork' \in {Idle} \cup 0 .. HalfPeriod /\ selfWork' \in {Idle} \cup 0 .. SelfTest
    BY DEF TypeOK, Main, gw_led_init, gw_rf24_init, gw_led_sys_on
  <2> QED
    BY <1>1, <2>1, <2>2, <2>3 DEF TypeOK
<1>3. Unlit'
  BY DEF Unlit, Main, gw_led_init, gw_rf24_init, gw_led_sys_on
<1>4. Attended'
  BY DEF Attended, Main, gw_led_init, gw_rf24_init, gw_led_sys_on, gw_led_error_on
<1> QED
  BY <1>2, <1>3, <1>4

LEMMA WorkKeeps == ASSUME LedInv, Workqueue PROVE LedInv'
<1> USE DEF LedInv
<1>1. UNCHANGED <<boot, ledSys, errorLatched, quiet, pc, age, calls>>
  BY DEF Workqueue, err_selftest_work_handler, led_blink_work_handler
<1>2. TypeOK'
  <2>1. ledRf24' \in BOOLEAN /\ ledErr' \in BOOLEAN /\ blinking' \in BOOLEAN
    BY DEF TypeOK, Workqueue, err_selftest_work_handler, led_blink_work_handler
  <2>2. blinkWork' \in {Idle} \cup 0 .. HalfPeriod /\ selfWork' \in {Idle} \cup 0 .. SelfTest
    BY DEF TypeOK, Workqueue, err_selftest_work_handler, led_blink_work_handler
  <2> QED
    BY <1>1, <2>1, <2>2 DEF TypeOK
<1>3. CASE err_selftest_work_handler
  BY <1>2, <1>3 DEF err_selftest_work_handler, Unlit, Attended
<1>4. CASE led_blink_work_handler
  <2>1. boot # "led"
    BY <1>4 DEF led_blink_work_handler, Due, Unlit, Idle
  <2>2. blinkWork' # Idle \/ (ledRf24' /\ ~blinking')
    BY <1>4 DEF led_blink_work_handler, Idle
  <2> QED
    BY <1>1, <1>2, <2>1, <2>2 DEF Unlit, Attended
<1> QED
  BY <1>3, <1>4 DEF Workqueue

LEMMA CallKeeps ==
  ASSUME LedInv, NEW t \in Threads, ReadUptime(t) \/ Activity(t) \/ Fatal(t)
  PROVE  LedInv'
<1> USE DEF LedInv
<1>1. /\ UNCHANGED <<boot, ledSys, selfWork>>
      /\ \E next \in Places : pc' = [pc EXCEPT ![t] = next]
  BY DEF ReadUptime, Activity, Fatal, Stamp, Test, Claim, Dim, Arm, At, Places
<1>2. /\ pc' \in [Threads -> Places] /\ \A u \in Threads : u # t => pc'[u] = pc[u]
  BY <1>1 DEF TypeOK, Places
<1>3. boot # "led"
  BY DEF Unlit, ReadUptime, Activity, Fatal, Stamp, Test, Claim, Dim, Arm, At
<1>4. TypeOK'
  <2>1. /\ ledRf24' \in BOOLEAN /\ ledErr' \in BOOLEAN
        /\ errorLatched' \in BOOLEAN /\ blinking' \in BOOLEAN
    BY DEF TypeOK, ReadUptime, Activity, Fatal, Stamp, Test, Claim, Dim, Arm, gw_led_error_on
  <2>2. age' \in [Threads -> 0 .. Timeout] /\ quiet' \in 0 .. Timeout
    BY DEF TypeOK, ReadUptime, Activity, Fatal, Stamp, Test, Claim, Dim, Arm
  <2>3. blinkWork' \in {Idle} \cup 0 .. HalfPeriod /\ calls' \in 0 .. MaxActivity
    BY DEF TypeOK, ReadUptime, Activity, Fatal, Stamp, Test, Claim, Dim, Arm
  <2> QED
    BY <1>1, <1>2, <2>1, <2>2, <2>3 DEF TypeOK, Places
<1>5. Unlit'
  BY <1>1, <1>3 DEF Unlit
<1>6. Attended'
  <2>1. CASE Fatal(t)
    BY <2>1 DEF Fatal, gw_led_error_on, Attended
  <2>2. CASE ReadUptime(t) \/ Stamp(t) \/ Test(t)
    <3>1. /\ UNCHANGED <<boot, errorLatched, ledRf24, blinking, blinkWork>>
          /\ pc[t] \in {"out", "stamp", "test"}
      BY <2>2 DEF ReadUptime, Stamp, Test, At
    <3> QED
      BY <1>2, <3>1 DEF Attended
  <2>3. CASE Claim(t)
    <3>1. /\ UNCHANGED <<boot, errorLatched, ledRf24, blinkWork>>
          /\ pc[t] = "claim" /\ pc'[t] = "dim"
      BY <2>3 DEF Claim, At, TypeOK
    <3> QED
      BY <1>2, <3>1 DEF Attended
  <2>4. CASE Dim(t)
    <3>1. pc'[t] = "arm"
      BY <2>4 DEF Dim, At, TypeOK
    <3> QED
      BY <3>1 DEF Attended
  <2>5. CASE Arm(t)
    <3>1. blinkWork' # Idle
      BY <2>5 DEF Arm, Idle
    <3> QED
      BY <3>1 DEF Attended
  <2> QED
    BY <2>1, <2>2, <2>3, <2>4, <2>5 DEF Activity
<1> QED
  BY <1>4, <1>5, <1>6

LEMMA TickKeeps == ASSUME LedInv, Tick PROVE LedInv'
<1> USE DEF LedInv
<1>1. UNCHANGED <<boot, ledRf24, ledErr, ledSys, errorLatched, blinking, pc, calls>>
  BY DEF Tick
<1>2. /\ quiet' \in 0 .. Timeout /\ age' \in [Threads -> 0 .. Timeout]
      /\ blinkWork' \in {Idle} \cup 0 .. HalfPeriod /\ selfWork' \in {Idle} \cup 0 .. SelfTest
      /\ blinkWork' = Idle <=> blinkWork = Idle
  <2>1. \A n \in 0 .. Timeout : Older(n) \in 0 .. Timeout
    BY DEF Older
  <2>2. quiet' \in 0 .. Timeout /\ age' \in [Threads -> 0 .. Timeout]
    BY <2>1 DEF Tick, TypeOK
  <2>3. /\ blinkWork' \in {Idle} \cup 0 .. HalfPeriod
        /\ blinkWork' = Idle <=> blinkWork = Idle
    BY DEF Tick, TypeOK, Due, Sooner, Idle
  <2>4. selfWork' \in {Idle} \cup 0 .. SelfTest
    BY DEF Tick, TypeOK, Due, Sooner, Idle
  <2> QED
    BY <2>2, <2>3, <2>4
<1>3. TypeOK'
  BY <1>1, <1>2 DEF TypeOK
<1>4. Unlit' /\ Attended'
  BY <1>1, <1>2 DEF Unlit, Attended
<1> QED
  BY <1>3, <1>4

LEMMA NextKeeps == ASSUME LedInv, [Next]_vars PROVE LedInv'
<1>1. CASE UNCHANGED vars
  BY <1>1 DEF vars, LedInv, TypeOK, Unlit, Attended
<1> QED
  BY <1>1, MainKeeps, WorkKeeps, CallKeeps, TickKeeps DEF Next

(* Every light, work item, reading and thread is of its kind: a work item  *)
(* is never more than its delay away.                                      *)
THEOREM TypeCorrect == Spec => []TypeOK
<1>1. LedInv => TypeOK
  BY DEF LedInv
<1> QED
  BY <1>1, InitHolds, NextKeeps, PTL DEF Spec

(* Whatever the interleaving of any number of callers and the workqueue, a *)
(* dark light and a set blinking flag each have a work item, or a thread   *)
(* about to submit one, that ends them (gw_led_rf24_activity).             *)
THEOREM LightIsAttended == Spec => []NeverStuckOff
<1>1. LedInv => NeverStuckOff
  BY DEF LedInv, Attended, NeverStuckOff
<1> QED
  BY <1>1, InitHolds, NextKeeps, PTL DEF Spec
=============================================================================
