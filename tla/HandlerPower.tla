---------------------------- MODULE HandlerPower ----------------------------
(***************************************************************************)
(* applications/mod_handler: sleeping, waking and switching the link of    *)
(* the hand control (gpio.c, main.c), with a thread that waits for them    *)
(* (heart_thread in common.c; the receiver and the two ADC threads wait    *)
(* for WAKE_EVENT as it does).                                             *)
(*                                                                         *)
(* Three threads change the power rails: main and the shell run            *)
(* system_sleep and connect_switch, the system workqueue runs system_wake  *)
(* and connect_switch.  Nothing locks global_params; the three procedures  *)
(* interleave wherever their thread blocks or is preempted.  main runs at  *)
(* priority 0, above the shell and every waiting thread: while it is       *)
(* ready, they do not move.                                                *)
(*                                                                         *)
(* Waits end when they may: while the system sleeps its clock stands still *)
(* and a wait of any length may outlast the sleep.                         *)
(***************************************************************************)
EXTENDS Naturals, FiniteSets

CONSTANTS
  MaxSleeps,    \* bound: calls of system_sleep
  MaxPresses,   \* bound: presses of the power key
  MaxSwitches   \* bound: link switches asked for by the key or the shell

ASSUME PowerAssumption == {MaxSleeps, MaxPresses, MaxSwitches} \subseteq Nat

VARIABLES
  connect, sleeping, wakeEvent, linkEvents,  \* global_params and its event bits
  waking,
  power,                                     \* the four rails
  saved,                                     \* connect_type in the settings
  sleepWork, linkWork,                       \* pending work items
  pc, target,            \* per thread: where it is, the branch of connect_switch
  sleeps, presses, switches,
  clash                  \* history: two procedures have overlapped

vars == <<connect, sleeping, wakeEvent, linkEvents, waking, power, saved,
          sleepWork, linkWork, pc, target, sleeps, presses, switches, clash>>

Links    == {"can", "rf24"}
Rails    == Links \cup {"display", "handler"}
Movers   == {"main", "shell", "work"}
Waiters  == {"main", "heart"}   \* for WAKE_EVENT
Other(l) == CHOOSE m \in Links : m # l

SleepSteps  == {"clear", "mark", "cut", "dark"}
WakeSteps   == {"init", "warm", "reinit", "refresh"}
SwitchSteps == {"assigned", "off", "on", "post", "save"}
Resting     == {"out", "load", "check", "pause", "due", "wake", "link"}

TypeOK ==
  /\ connect \in Links /\ saved \in Links
  /\ sleeping \in 0 .. 1 /\ waking \in 0 .. 1
  /\ wakeEvent \in BOOLEAN /\ linkEvents \subseteq Links
  /\ power \in [Rails -> BOOLEAN]
  /\ sleepWork \in BOOLEAN /\ linkWork \in BOOLEAN
  /\ pc \in [Movers \cup Waiters -> SleepSteps \cup WakeSteps \cup SwitchSteps \cup Resting]
  /\ target \in [Movers -> Links]
  /\ sleeps \in 0 .. MaxSleeps /\ presses \in 0 .. MaxPresses
  /\ switches \in 0 .. MaxSwitches /\ clash \in BOOLEAN

(* power_init and nrf24_init have powered every rail; main has set up the  *)
(* keys and is about to load the settings.                                 *)
Init ==
  /\ connect = "can" /\ saved \in Links
  /\ sleeping = 0 /\ waking = 0
  /\ wakeEvent = FALSE /\ linkEvents = {"can"}
  /\ power = [r \in Rails |-> TRUE]
  /\ sleepWork = FALSE /\ linkWork = FALSE
  /\ pc = [main |-> "load", shell |-> "out", work |-> "out",
           heart |-> "link"]
  /\ target = [t \in Movers |-> "can"]
  /\ sleeps = 0 /\ presses = 0 /\ switches = 0 /\ clash = FALSE

InSleep(t)  == pc[t] \in SleepSteps
InWake(t)   == pc[t] \in WakeSteps
InSwitch(t) == pc[t] \in SwitchSteps
Busy(t)     == pc[t] \notin Resting

(* main is ready to run: no thread below it does.                          *)
MainReady == pc["main"] \in {"check", "due", "clear", "mark"}

Runs(t) == t \in {"main", "work"} \/ ~MainReady

At(t, here, next) == Runs(t) /\ pc[t] = here /\ pc' = [pc EXCEPT ![t] = next]

Back(t) == IF t = "main" THEN "check" ELSE "out"

(* What a wait for WAKE_EVENT returns to.                                  *)
Again(t) == IF t = "heart" THEN "link" ELSE "check"

-----------------------------------------------------------------------------
(* system_sleep, called by main or by the shell.                           *)

SleepClear(t) ==
  /\ At(t, "clear", "mark")
  /\ wakeEvent' = FALSE
  /\ UNCHANGED <<connect, sleeping, linkEvents, waking, power, saved, sleepWork,
                 linkWork, target, sleeps, presses, switches, clash>>

SleepMark(t) ==
  /\ At(t, "mark", "cut")
  /\ sleeping' = 1
  /\ UNCHANGED <<connect, wakeEvent, linkEvents, waking, power, saved, sleepWork,
                 linkWork, target, sleeps, presses, switches, clash>>

(* Mutant: the radio is left to its own power saving.                      *)
SleepCutCan(t) ==
  /\ At(t, "cut", "dark")
  /\ power' = [power EXCEPT !["can"] = FALSE]
  /\ UNCHANGED <<connect, sleeping, wakeEvent, linkEvents, waking, saved,
                 sleepWork, linkWork, target, sleeps, presses, switches, clash>>

(* After 100 ms, the link that connect_type names now.                     *)
SleepCut(t) ==
  /\ At(t, "cut", "dark")
  /\ power' = [power EXCEPT ![connect] = FALSE]
  /\ UNCHANGED <<connect, sleeping, wakeEvent, linkEvents, waking, saved,
                 sleepWork, linkWork, target, sleeps, presses, switches, clash>>

SleepDark(t) ==
  /\ At(t, "dark", Back(t))
  /\ power' = [power EXCEPT !["display"] = FALSE, !["handler"] = FALSE]
  /\ UNCHANGED <<connect, sleeping, wakeEvent, linkEvents, waking, saved,
                 sleepWork, linkWork, target, sleeps, presses, switches, clash>>

Sleep(t) == SleepClear(t) \/ SleepMark(t) \/ SleepCut(t) \/ SleepDark(t)

StartSleep(t) ==
  /\ sleeps < MaxSleeps /\ sleeps' = sleeps + 1
  /\ clash' = (clash \/ \E u \in Movers : InWake(u) \/ InSwitch(u))
  /\ UNCHANGED <<connect, sleeping, wakeEvent, linkEvents, waking, power, saved,
                 sleepWork, linkWork, target, presses, switches>>

(* The shell's sleep command.                                              *)
cmd_sleep ==
  /\ At("shell", "out", "clear") /\ sleeping = 0
  /\ StartSleep("shell")

-----------------------------------------------------------------------------
(* connect_switch, called by main at boot, by the shell and by the         *)
(* workqueue: for either link l, the other's event is cleared, the other   *)
(* is powered off, l is powered on and its event posted, which readies the *)
(* threads that wait for it, and connect_type is saved, as it is then.     *)

Branch(t, l) ==
  /\ target' = [target EXCEPT ![t] = l]
  /\ linkEvents' = linkEvents \ {Other(l)}

SwitchRead(t) ==
  /\ At(t, "assigned", "off")
  /\ Branch(t, connect)
  /\ UNCHANGED <<connect, sleeping, wakeEvent, waking, power, saved, sleepWork,
                 linkWork, sleeps, presses, switches, clash>>

(* Mutant: a switch that finds the system asleep returns halfway.          *)
SwitchOffUnlessAsleep(t) ==
  /\ At(t, "off", IF sleeping = 1 THEN Back(t) ELSE "on")
  /\ power' = IF sleeping = 1 THEN power ELSE [power EXCEPT ![Other(target[t])] = FALSE]
  /\ UNCHANGED <<connect, sleeping, wakeEvent, linkEvents, waking, saved,
                 sleepWork, linkWork, target, sleeps, presses, switches, clash>>

SwitchOff(t) ==
  /\ At(t, "off", "on")
  /\ power' = [power EXCEPT ![Other(target[t])] = FALSE]
  /\ UNCHANGED <<connect, sleeping, wakeEvent, linkEvents, waking, saved,
                 sleepWork, linkWork, target, sleeps, presses, switches, clash>>

SwitchOn(t) ==
  /\ At(t, "on", "post")
  /\ power' = [power EXCEPT ![target[t]] = TRUE]
  /\ UNCHANGED <<connect, sleeping, wakeEvent, linkEvents, waking, saved,
                 sleepWork, linkWork, target, sleeps, presses, switches, clash>>

SwitchPost(t) ==
  /\ Runs(t) /\ pc[t] = "post"
  /\ linkEvents' = linkEvents \cup {target[t]}
  /\ pc' = [u \in DOMAIN pc |->
               IF u = t THEN "save"
               ELSE IF pc[u] = "link" THEN "check" ELSE pc[u]]
  /\ UNCHANGED <<connect, sleeping, wakeEvent, waking, power, saved, sleepWork,
                 linkWork, target, sleeps, presses, switches, clash>>

(* persist_save_connect_type.                                              *)
SwitchSave(t) ==
  /\ At(t, "save", Back(t))
  /\ saved' = connect /\ target' = [target EXCEPT ![t] = "can"]
  /\ UNCHANGED <<connect, sleeping, wakeEvent, linkEvents, waking, power,
                 sleepWork, linkWork, sleeps, presses, switches, clash>>

Switch(t) == \/ SwitchRead(t) \/ SwitchOff(t) \/ SwitchOn(t)
             \/ SwitchPost(t) \/ SwitchSave(t)

Overlap == sleeping = 1 \/ \E u \in Movers : Busy(u)

(* link can, link rf24.                                                    *)
cmd_link(l) ==
  /\ At("shell", "out", "assigned")
  /\ switches < MaxSwitches /\ switches' = switches + 1
  /\ connect' = l
  /\ clash' = (clash \/ Overlap)
  /\ UNCHANGED <<sleeping, wakeEvent, linkEvents, waking, power, saved,
                 sleepWork, linkWork, target, sleeps, presses>>

(* linksw_irq: a press of the switch while the system is awake.            *)
linksw_irq ==
  /\ sleeping = 0 /\ ~linkWork
  /\ switches < MaxSwitches /\ switches' = switches + 1
  /\ linkWork' = TRUE
  /\ UNCHANGED <<connect, sleeping, wakeEvent, linkEvents, waking, power, saved,
                 sleepWork, pc, target, sleeps, presses, clash>>

(* Its work item, if the key is still down; it does not look at sleeping.  *)
linksw_work_handler ==
  /\ pc["work"] = "out" /\ linkWork
  /\ linkWork' = FALSE
  /\ \/ /\ connect' = Other(connect)
        /\ Branch("work", Other(connect))
        /\ pc' = [pc EXCEPT !["work"] = "off"]
        /\ clash' = (clash \/ Overlap)
     \/ UNCHANGED <<connect, target, linkEvents, pc, clash>>
  /\ UNCHANGED <<sleeping, wakeEvent, waking, power, saved, sleepWork, sleeps,
                 presses, switches>>

-----------------------------------------------------------------------------
(* system_wake, in the workqueue.                                          *)

(* gpio_irq: a press of the power key.                                     *)
gpio_irq ==
  /\ presses < MaxPresses /\ presses' = presses + 1
  /\ sleepWork' = TRUE
  /\ UNCHANGED <<connect, sleeping, wakeEvent, linkEvents, waking, power, saved,
                 linkWork, pc, target, sleeps, switches, clash>>

(* sleep_work_handler, and system_wake up to the first wait.               *)
sleep_work_handler ==
  /\ pc["work"] = "out" /\ sleepWork
  /\ sleepWork' = FALSE
  /\ \/ /\ sleeping = 1 /\ waking = 0
        /\ waking' = 1
        /\ power' = [power EXCEPT !["handler"] = TRUE, !["display"] = TRUE,
                                  !["can"] = (@ \/ connect = "can")]
        /\ pc' = [pc EXCEPT !["work"] = IF connect = "can" THEN "warm" ELSE "init"]
        /\ clash' = (clash \/ \E u \in Movers : Busy(u))
     \/ UNCHANGED <<waking, power, pc, clash>>
  /\ UNCHANGED <<connect, sleeping, wakeEvent, linkEvents, saved, linkWork,
                 target, sleeps, presses, switches>>

WakeRadio ==
  /\ At("work", "init", "warm")
  /\ power' = [power EXCEPT !["rf24"] = TRUE]
  /\ UNCHANGED <<connect, sleeping, wakeEvent, linkEvents, waking, saved,
                 sleepWork, linkWork, target, sleeps, presses, switches, clash>>

(* 200 ms, and the display starts from nothing, still unseen by the others.*)
WakeReinit ==
  /\ At("work", "warm", "reinit")
  /\ UNCHANGED <<connect, sleeping, wakeEvent, linkEvents, waking, power, saved,
                 sleepWork, linkWork, target, sleeps, presses, switches, clash>>

WakeAwake ==
  /\ At("work", "reinit", "refresh")
  /\ sleeping' = 0
  /\ UNCHANGED <<connect, wakeEvent, linkEvents, waking, power, saved, sleepWork,
                 linkWork, target, sleeps, presses, switches, clash>>

(* Mutant: the waiting threads are not told.                               *)
WakeDoneSilent ==
  /\ At("work", "refresh", "out")
  /\ waking' = 0
  /\ UNCHANGED <<connect, sleeping, wakeEvent, linkEvents, power, saved,
                 sleepWork, linkWork, target, sleeps, presses, switches, clash>>

(* The display is drawn; the threads that wait for WAKE_EVENT are readied. *)
WakeDone ==
  /\ pc["work"] = "refresh"
  /\ waking' = 0
  /\ wakeEvent' = TRUE
  /\ pc' = [t \in DOMAIN pc |-> IF t = "work" THEN "out"
                                ELSE IF pc[t] = "wake" THEN Again(t) ELSE pc[t]]
  /\ UNCHANGED <<connect, sleeping, linkEvents, power, saved, sleepWork,
                 linkWork, target, sleeps, presses, switches, clash>>

Wake == WakeRadio \/ WakeReinit \/ WakeAwake \/ WakeDone

-----------------------------------------------------------------------------
(* main and heart_thread.                                                  *)

(* settings_load, then connect_switch for the stored link.                 *)
MainLoad ==
  /\ At("main", "load", "assigned")
  /\ connect' = saved
  /\ clash' = (clash \/ Overlap)
  /\ UNCHANGED <<sleeping, wakeEvent, linkEvents, waking, power, saved,
                 sleepWork, linkWork, target, sleeps, presses, switches>>

Still == UNCHANGED <<connect, sleeping, wakeEvent, linkEvents, waking, power,
                     saved, sleepWork, linkWork, target, sleeps, presses,
                     switches, clash>>

(* Asleep, it waits; after ten minutes without activity, it goes to sleep; *)
(* or it pauses for half a second.                                         *)
MainCheck ==
  \/ sleeping = 1 /\ At("main", "check", "due") /\ Still
  \/ sleeping = 0 /\ At("main", "check", "clear") /\ StartSleep("main")
  \/ sleeping = 0 /\ At("main", "check", "pause") /\ Still

MainPause == At("main", "pause", "check") /\ Still

(* t has seen that the system sleeps and waits for WAKE_EVENT, which may   *)
(* have been posted in the meantime.                                       *)
AwaitWake(t) == At(t, "due", IF wakeEvent THEN Again(t) ELSE "wake") /\ Still

Main == MainLoad \/ MainCheck \/ MainPause \/ AwaitWake("main")

(* Mutant: the heartbeat waits for the CAN link only.                      *)
HeartLinkCan == "can" \in linkEvents /\ At("heart", "link", "check") /\ Still

(* heart_thread: either link, then one heartbeat and a pause.              *)
HeartLink  == linkEvents # {} /\ At("heart", "link", "check") /\ Still
HeartCheck == At("heart", "check", IF sleeping = 1 THEN "due" ELSE "link") /\ Still
Heart == HeartLink \/ HeartCheck \/ AwaitWake("heart")

Work  == sleep_work_handler \/ linksw_work_handler \/ Wake \/ Switch("work")
Shell == \/ cmd_sleep \/ (\E l \in Links : cmd_link(l))
         \/ Sleep("shell") \/ Switch("shell")
Keys  == gpio_irq \/ linksw_irq

Next == \/ Keys \/ Work \/ Shell
        \/ Main \/ Sleep("main") \/ Switch("main")
        \/ Heart

Spec == Init /\ [][Next]_vars

(* A thread that can run does, while the clock runs: pm_policy_next_state  *)
(* stops it at every idle of the sleeping system.  The threads below main  *)
(* run whenever main has paused often enough.                              *)
ClockRuns == sleeping = 0 \/ waking = 1

Fairness ==
  /\ WF_vars(ClockRuns /\ Main)
  /\ WF_vars(ClockRuns /\ Switch("main")) /\ WF_vars(ClockRuns /\ Sleep("main"))
  /\ WF_vars(Wake) /\ WF_vars(ClockRuns /\ Switch("work"))
  /\ SF_vars(ClockRuns /\ Sleep("shell")) /\ SF_vars(ClockRuns /\ Switch("shell"))
  /\ SF_vars(ClockRuns /\ Heart)

FairSpec == Spec /\ Fairness

-----------------------------------------------------------------------------
Settled == pc["main"] # "load" /\ \A t \in Movers : ~Busy(t)

Dark   == \A r \in Rails : ~power[r]
Lit(l) == \A r \in Rails : power[r] = (r # Other(l))

(* With sleep, wake and link switch one at a time, in any order and from   *)
(* any caller: asleep, every rail is off and no thread can be woken; awake,*)
(* the display, the handle and exactly the link in use are powered, and    *)
(* exactly that link's event is posted.                                    *)
OrderlyPower ==
  Settled /\ ~clash =>
    IF sleeping = 1 THEN Dark /\ ~wakeEvent
                    ELSE Lit(connect) /\ linkEvents = {connect}

(* However switches overlap each other, a sleep or a wake-up, the link in  *)
(* use is the link that the next boot will load, and some link's event is  *)
(* posted: heart_thread is not left waiting for one.                       *)
SwitchSettles == Settled => saved = connect /\ linkEvents # {}

(* No wake-up is lost (gpio.c:154-155, 211-215): system_sleep withdraws    *)
(* WAKE_EVENT before it announces the sleep, system_wake announces that it *)
(* is over before it posts the event.  A thread that decided to wait on    *)
(* what it read of sleeping finds the system awake only while that post is *)
(* still to come, or while the next sleep is about to be announced.        *)
NoWakeLost ==
  \A t \in Waiters :
    pc[t] = "wake" /\ sleeping = 0 =>
      pc["work"] = "refresh" \/ \E u \in Movers : pc[u] = "mark"

(* A thread that waits for WAKE_EVENT goes on once the system is awake,    *)
(* whatever else happened meanwhile.                                       *)
WaitersResume ==
  \A t \in Waiters :
    pc[t] = "wake" /\ sleeping = 0 ~> pc[t] # "wake" \/ sleeping = 1

(* heart_thread is never left waiting for a link while the system is awake,*)
(* in spite of every connect_switch that clears and posts the events.      *)
HeartGoesOn == pc["heart"] = "link" ~> pc["heart"] # "link" \/ sleeping = 1
=============================================================================
