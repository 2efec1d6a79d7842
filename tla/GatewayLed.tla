----------------------------- MODULE GatewayLed -----------------------------
(***************************************************************************)
(* applications/gateway/src/led.c, with the boot order of main.c and the   *)
(* error paths of gw_rf24_init that reach it.                              *)
(*                                                                         *)
(* The activity light is on when the radio is quiet and toggles while      *)
(* frames come and go.  Any thread that sends or receives a frame calls    *)
(* gw_led_rf24_activity, a sequence of unlocked reads and writes of        *)
(* rf24_last_activity and blinking; each is an action here, since another  *)
(* thread or the system workqueue can run between any two.  The workqueue  *)
(* thread is cooperative: a work handler is one action.                    *)
(*                                                                         *)
(* Time advances in ticks and never past a due work item.  The difference  *)
(* uptime - rf24_last_activity is kept instead of its two terms, up to the *)
(* timeout it is compared with.                                            *)
(***************************************************************************)
EXTENDS Integers

CONSTANTS
  Threads,        \* threads that report radio activity
  HalfPeriod,     \* RF24_BLINK_HALF_PERIOD_MS, in ticks
  Timeout,        \* RF24_ACTIVITY_TIMEOUT_MS, in ticks
  SelfTest,       \* ERR_SELFTEST_MS, in ticks
  CallTicks,      \* bound: how long a thread is preempted inside one call
  MaxActivity     \* bound: calls of gw_led_rf24_activity

ASSUME LedAssumption ==
  /\ HalfPeriod \in Nat \ {0} /\ SelfTest \in Nat \ {0}
  /\ Timeout \in Nat /\ HalfPeriod < Timeout
  /\ CallTicks \in Nat
  /\ MaxActivity \in Nat

VARIABLES
  boot,           \* where main is
  ledRf24, ledErr, ledSys,
  errorLatched,
  blinking,
  quiet,          \* uptime - rf24_last_activity, at most Timeout
  blinkWork,      \* ticks to led_blink_work, or Idle
  selfWork,       \* ticks to err_selftest_work, or Idle
  pc, age,        \* per thread: place in gw_led_rf24_activity, age of its reading
  calls           \* calls made so far

vars == <<boot, ledRf24, ledErr, ledSys, errorLatched, blinking, quiet,
          blinkWork, selfWork, pc, age, calls>>

Idle == -1
Due(work) == work = 0

TypeOK ==
  /\ boot \in {"led", "rf24", "wait", "ready"}
  /\ ledRf24 \in BOOLEAN /\ ledErr \in BOOLEAN /\ ledSys \in BOOLEAN
  /\ errorLatched \in BOOLEAN /\ blinking \in BOOLEAN
  /\ quiet \in 0 .. Timeout
  /\ blinkWork \in {Idle} \cup 0 .. HalfPeriod
  /\ selfWork \in {Idle} \cup 0 .. SelfTest
  /\ pc \in [Threads -> {"out", "stamp", "test", "claim", "dim", "arm", "dead"}]
  /\ age \in [Threads -> 0 .. Timeout]
  /\ calls \in 0 .. MaxActivity

Init ==
  /\ boot = "led"
  /\ ledRf24 = FALSE /\ ledErr = FALSE /\ ledSys = FALSE
  /\ errorLatched = FALSE /\ blinking = FALSE
  /\ quiet = Timeout
  /\ blinkWork = Idle /\ selfWork = Idle
  /\ pc = [t \in Threads |-> "out"]
  /\ age = [t \in Threads |-> 0]
  /\ calls = 0

-----------------------------------------------------------------------------
(* main: gw_led_init, gw_rf24_init, the wait for the link, gw_led_sys_on.  *)

gw_led_init ==
  /\ boot = "led"
  /\ boot' = "rf24"
  /\ ledRf24' = TRUE /\ ledErr' = TRUE /\ ledSys' = FALSE
  /\ blinking' = FALSE
  /\ blinkWork' = Idle /\ selfWork' = SelfTest
  /\ UNCHANGED <<errorLatched, quiet, pc, age, calls>>

gw_led_error_on == errorLatched' = TRUE /\ ledErr' = TRUE

(* The radio is not ready, or start_rx fails: an error, and main goes on.  *)
gw_rf24_init ==
  /\ boot = "rf24"
  /\ boot' = "wait"
  /\ gw_led_error_on \/ UNCHANGED <<errorLatched, ledErr>>
  /\ UNCHANGED <<ledRf24, ledSys, blinking, quiet, blinkWork, selfWork, pc, age,
                 calls>>

(* The link comes up, or five seconds pass.                                *)
gw_led_sys_on ==
  /\ boot = "wait"
  /\ boot' = "ready"
  /\ ledSys' = TRUE
  /\ UNCHANGED <<ledRf24, ledErr, errorLatched, blinking, quiet, blinkWork,
                 selfWork, pc, age, calls>>

(* A thread faults: k_sys_fatal_error_handler lights the error LED, and    *)
(* the kernel aborts that thread where it stands.                          *)
Fatal(t) ==
  /\ boot # "led" /\ pc[t] # "dead"
  /\ gw_led_error_on
  /\ pc' = [pc EXCEPT ![t] = "dead"]
  /\ UNCHANGED <<boot, ledRf24, ledSys, blinking, quiet, blinkWork, selfWork,
                 age, calls>>

-----------------------------------------------------------------------------
(* The system workqueue.                                                   *)

err_selftest_work_handler ==
  /\ Due(selfWork)
  /\ ledErr' = FALSE
  /\ selfWork' = Idle
  /\ UNCHANGED <<boot, ledRf24, ledSys, errorLatched, blinking, quiet,
                 blinkWork, pc, age, calls>>

(* Mutant: the end of a burst leaves the light as the last toggle left it. *)
StopBlinkingAsIs ==
  /\ Due(blinkWork)
  /\ IF quiet < Timeout
       THEN /\ ledRf24' = ~ledRf24
            /\ blinkWork' = HalfPeriod
            /\ UNCHANGED blinking
       ELSE /\ blinking' = FALSE
            /\ blinkWork' = Idle
            /\ UNCHANGED ledRf24
  /\ UNCHANGED <<boot, ledErr, ledSys, errorLatched, quiet, selfWork, pc, age,
                 calls>>

(* Mutant: blinking stays set at the end of a burst.                       *)
StopBlinkingStillSet ==
  /\ Due(blinkWork)
  /\ IF quiet < Timeout
       THEN ledRf24' = ~ledRf24 /\ blinkWork' = HalfPeriod
       ELSE ledRf24' = TRUE /\ blinkWork' = Idle
  /\ UNCHANGED <<boot, ledErr, ledSys, errorLatched, blinking, quiet, selfWork,
                 pc, age, calls>>

(* Mutant: the work item is not submitted again after a toggle.            *)
ToggleOnce ==
  /\ Due(blinkWork)
  /\ IF quiet < Timeout
       THEN ledRf24' = ~ledRf24 /\ UNCHANGED blinking
       ELSE ledRf24' = TRUE /\ blinking' = FALSE
  /\ blinkWork' = Idle
  /\ UNCHANGED <<boot, ledErr, ledSys, errorLatched, quiet, selfWork, pc, age,
                 calls>>

(* Active lately: toggle and come back.  Quiet: steady on, burst over.     *)
led_blink_work_handler ==
  /\ Due(blinkWork)
  /\ IF quiet < Timeout
       THEN /\ ledRf24' = ~ledRf24
            /\ blinkWork' = HalfPeriod
            /\ UNCHANGED blinking
       ELSE /\ ledRf24' = TRUE
            /\ blinking' = FALSE
            /\ blinkWork' = Idle
  /\ UNCHANGED <<boot, ledErr, ledSys, errorLatched, quiet, selfWork, pc, age,
                 calls>>

-----------------------------------------------------------------------------
(* gw_led_rf24_activity, called by thread t once the radio is initialised. *)

At(t, here, next) == pc[t] = here /\ pc' = [pc EXCEPT ![t] = next]

ReadUptime(t) ==
  /\ boot \in {"wait", "ready"} /\ calls < MaxActivity
  /\ At(t, "out", "stamp")
  /\ age' = [age EXCEPT ![t] = 0]
  /\ calls' = calls + 1
  /\ UNCHANGED <<boot, ledRf24, ledErr, ledSys, errorLatched, blinking, quiet,
                 blinkWork, selfWork>>

Stamp(t) ==
  /\ At(t, "stamp", "test")
  /\ quiet' = age[t]
  /\ UNCHANGED <<boot, ledRf24, ledErr, ledSys, errorLatched, blinking,
                 blinkWork, selfWork, age, calls>>

Test(t) ==
  /\ At(t, "test", IF blinking THEN "out" ELSE "claim")
  /\ UNCHANGED <<boot, ledRf24, ledErr, ledSys, errorLatched, blinking, quiet,
                 blinkWork, selfWork, age, calls>>

Claim(t) ==
  /\ At(t, "claim", "dim")
  /\ blinking' = TRUE
  /\ UNCHANGED <<boot, ledRf24, ledErr, ledSys, errorLatched, quiet, blinkWork,
                 selfWork, age, calls>>

Dim(t) ==
  /\ At(t, "dim", "arm")
  /\ ledRf24' = FALSE
  /\ UNCHANGED <<boot, ledErr, ledSys, errorLatched, blinking, quiet, blinkWork,
                 selfWork, age, calls>>

(* k_work_reschedule: a pending item is moved, not queued twice.           *)
Arm(t) ==
  /\ At(t, "arm", "out")
  /\ blinkWork' = HalfPeriod
  /\ UNCHANGED <<boot, ledRf24, ledErr, ledSys, errorLatched, blinking, quiet,
                 selfWork, age, calls>>

Activity(t) == \/ Stamp(t) \/ Test(t) \/ Claim(t) \/ Dim(t) \/ Arm(t)

-----------------------------------------------------------------------------
Older(n) == IF n < Timeout THEN n + 1 ELSE n
Sooner(work) == IF work = Idle THEN Idle ELSE work - 1

Tick ==
  /\ ~Due(blinkWork) /\ ~Due(selfWork)
  /\ \A t \in Threads : pc[t] \notin {"out", "dead"} => age[t] < CallTicks
  /\ quiet' = Older(quiet)
  /\ age' = [t \in Threads |-> Older(age[t])]
  /\ blinkWork' = Sooner(blinkWork) /\ selfWork' = Sooner(selfWork)
  /\ UNCHANGED <<boot, ledRf24, ledErr, ledSys, errorLatched, blinking, pc,
                 calls>>

Main == gw_led_init \/ gw_rf24_init \/ gw_led_sys_on
Workqueue == err_selftest_work_handler \/ led_blink_work_handler

Next == \/ Main \/ Workqueue \/ Tick
        \/ \E t \in Threads : ReadUptime(t) \/ Activity(t) \/ Fatal(t)

Spec == Init /\ [][Next]_vars

(* Time passes, the workqueue and main run, and a thread that has not      *)
(* faulted finishes the call it is in.                                     *)
Fairness ==
  /\ WF_vars(Tick) /\ WF_vars(Workqueue) /\ WF_vars(Main)
  /\ \A t \in Threads : WF_vars(Activity(t))

FairSpec == Spec /\ Fairness

-----------------------------------------------------------------------------
(* led.c keeps the activity light out of every thread's hands once a burst *)
(* has begun: whatever the interleaving of two callers and the workqueue,  *)
(* a dark light and a set blinking flag each have a work item, or a thread *)
(* about to submit one, that will end them.  (A thread that faults between *)
(* the two leaves the error light on instead.)                             *)
NeverStuckOff ==
  boot # "led" /\ ~errorLatched =>
    /\ ~ledRf24 => blinkWork # Idle \/ \E t \in Threads : pc[t] = "arm"
    /\ blinking => blinkWork # Idle \/ \E t \in Threads : pc[t] \in {"dim", "arm"}

(* "Visible however fast the traffic is" (led.c:29-32): every frame        *)
(* reported, even by a caller that finds the previous burst still marked   *)
(* as running just as it ends, is followed by a dark half period.          *)
BurstVisible ==
  \A t \in Threads :
    pc[t] = "test" /\ age[t] = 0 ~> ~ledRf24 \/ errorLatched

(* When the traffic stops (the bounded calls are used up) the light comes  *)
(* back on and stays on.                                                   *)
SteadyWhenQuiet == <>[](ledRf24 /\ ~blinking) \/ <>errorLatched
=============================================================================
