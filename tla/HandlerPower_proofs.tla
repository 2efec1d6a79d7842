------------------------- MODULE HandlerPower_proofs -------------------------
(***************************************************************************)
(* What sleeping, waking and switching the link keep to, for any number of *)
(* calls, presses and switches.                                            *)
(*                                                                         *)
(* The invariant says, for each point a procedure can have reached, what   *)
(* it has made of the rails and the events so far (Sleepers, WakeInv,      *)
(* SwitchInv); as long as no two of them have overlapped, only calls of    *)
(* system_sleep are ever under way together (Apart), so that each finds    *)
(* what it left.                                                           *)
(***************************************************************************)
EXTENDS HandlerPower, TLAPS

LEMMA Constants == MaxSleeps \in Nat /\ MaxPresses \in Nat /\ MaxSwitches \in Nat
  BY PowerAssumption

USE Constants

Loaded  == pc["main"] # "load"
Alight  == power["display"] /\ power["handler"]
Cutting(t) == pc[t] \in {"cut", "dark"}

(* Only the workqueue wakes the system, and it never puts it to sleep.     *)
Roles == \A t \in Movers : /\ InWake(t) => t = "work"
                           /\ InSleep(t) => t # "work"

(* Procedures that have not overlapped.                                    *)
Apart == \A t, u \in Movers : t # u /\ Busy(t) /\ Busy(u) => InSleep(t) /\ InSleep(u)

Asleep ==
  (\A t \in Movers : ~InWake(t) /\ ~InSwitch(t)) =>
     /\ sleeping = 0 => Alight /\ (Loaded => Lit(connect))
     /\ sleeping = 1 => /\ ~wakeEvent
                        /\ Loaded /\ (\A t \in Movers : ~Cutting(t)) => Dark
     /\ Loaded => linkEvents = {connect} /\ ~power[Other(connect)]

Sleepers ==
  \A t \in Movers :
    /\ pc[t] = "mark" => ~wakeEvent
    /\ Cutting(t) => sleeping = 1
    /\ pc[t] = "dark" => ~power[connect]

WakeInv ==
  InWake("work") =>
    /\ sleeping = IF pc["work"] = "refresh" THEN 0 ELSE 1
    /\ Alight
    /\ pc["work"] = "init" => connect = "rf24"
    /\ Loaded => /\ linkEvents = {connect} /\ ~power[Other(connect)]
                 /\ pc["work"] # "init" => power[connect]

SwitchInv ==
  \A t \in Movers : InSwitch(t) =>
    /\ sleeping = 0 /\ Alight
    /\ pc[t] \in {"off", "on", "post"} => target[t] = connect /\ linkEvents \subseteq {connect}
    /\ pc[t] \in {"on", "post", "save"} => ~power[Other(connect)]
    /\ pc[t] \in {"post", "save"} => power[connect]
    /\ pc[t] = "save" => linkEvents = {connect}

Orderly == clash \/ (Apart /\ Asleep /\ Sleepers /\ WakeInv /\ SwitchInv)

(* However they overlap: what has been changed is still to be saved, what  *)
(* has been cleared is still to be posted.                                 *)
Settling ==
  /\ Loaded => saved = connect \/ \E t \in Movers : InSwitch(t)
  /\ linkEvents # {} \/ \E t \in Movers : pc[t] \in {"off", "on", "post"}

PowerInv == TypeOK /\ Roles /\ Orderly /\ Settling

-----------------------------------------------------------------------------
LEMMA Names ==
  /\ Other("can") = "rf24" /\ Other("rf24") = "can"
  /\ Rails = {"can", "rf24", "display", "handler"}
  BY DEF Other, Links, Rails

USE DEF Busy, InSleep, InWake, InSwitch, SleepSteps, WakeSteps, SwitchSteps, Resting,
        Movers, Waiters

LEMMA InitHolds == Init => PowerInv
<1> SUFFICES ASSUME Init PROVE PowerInv
  OBVIOUS
<1>1. TypeOK
  <2>1. /\ pc \in [Movers \cup Waiters -> SleepSteps \cup WakeSteps \cup SwitchSteps \cup Resting]
        /\ target \in [Movers -> Links]
    BY DEF Init, Links
  <2>2. power \in [Rails -> BOOLEAN]
    BY DEF Init
  <2>3. connect \in Links /\ saved \in Links /\ linkEvents \subseteq Links
    BY DEF Init, Links
  <2>4. sleeping \in 0 .. 1 /\ waking \in 0 .. 1
    BY DEF Init
  <2>5. sleeps \in 0 .. MaxSleeps /\ presses \in 0 .. MaxPresses /\ switches \in 0 .. MaxSwitches
    BY DEF Init
  <2>6. wakeEvent \in BOOLEAN /\ linkWork \in BOOLEAN /\ sleepWork \in BOOLEAN /\ clash \in BOOLEAN
    BY DEF Init
  <2> QED
    BY <2>1, <2>2, <2>3, <2>4, <2>5, <2>6 DEF TypeOK
<1>2. Roles /\ Settling
  BY DEF Init, Roles, Settling, Loaded
<1>3. Apart /\ Sleepers /\ WakeInv /\ SwitchInv
  BY DEF Init, Apart, Sleepers, WakeInv, SwitchInv, Cutting
<1>4. Asleep
  BY Names DEF Init, Asleep, Alight, Loaded, Rails
<1> QED
  BY <1>1, <1>2, <1>3, <1>4 DEF PowerInv, Orderly

(* A step of t that starts or ends nothing of another.                     *)
LEMMA SleepKeeps ==
  ASSUME PowerInv, NEW t \in {"main", "shell"}, Sleep(t) PROVE PowerInv'
<1> USE DEF PowerInv
<1> DEFINE here == pc[t]
<1>1. /\ pc[t] \in SleepSteps /\ UNCHANGED <<connect, linkEvents, waking, saved, sleepWork, linkWork,
                        target, sleeps, presses, switches, clash>>
      /\ \E next \in SleepSteps \cup {"check", "out"} : pc' = [pc EXCEPT ![t] = next]
  BY DEF Sleep, SleepClear, SleepMark, SleepCut, SleepDark, At, Back
<1>2. /\ pc' \in [Movers \cup Waiters -> SleepSteps \cup WakeSteps \cup SwitchSteps \cup Resting]
      /\ \A u \in Movers : u # t => pc'[u] = pc[u]
      /\ pc'[t] \in SleepSteps \cup {"check", "out"}
  BY <1>1 DEF TypeOK
<1>3. TypeOK'
  <2>1. power' \in [Rails -> BOOLEAN]
    BY DEF TypeOK, Sleep, SleepClear, SleepMark, SleepCut, SleepDark
  <2>2. /\ wakeEvent' = wakeEvent \/ wakeEvent' = FALSE
        /\ sleeping' = sleeping \/ sleeping' = 1
    BY DEF Sleep, SleepClear, SleepMark, SleepCut, SleepDark
  <2>3. sleeping' \in 0 .. 1
    BY <2>2 DEF TypeOK
  <2>4. wakeEvent' \in BOOLEAN
    BY <2>2 DEF TypeOK
  <2> QED
    BY <1>1, <1>2, <2>1, <2>3, <2>4 DEF TypeOK
<1>4. Roles'
  BY <1>1, <1>2 DEF Roles
<1>5. Settling'
  BY <1>1, <1>2 DEF Settling, Loaded
<1>6. ASSUME ~clash PROVE (Apart /\ Asleep /\ Sleepers /\ WakeInv /\ SwitchInv)'
  <2>1. /\ Apart /\ Asleep /\ Sleepers /\ WakeInv /\ SwitchInv
        /\ \A u \in Movers : ~InWake(u) /\ ~InSwitch(u)
    BY <1>1, <1>6 DEF Orderly, Apart
  <2>2. \A u \in Movers : ~InWake(u)' /\ ~InSwitch(u)'
    BY <1>2, <2>1
  <2>3. WakeInv' /\ SwitchInv' /\ Apart'
    <3>1. \A u \in Movers : pc'[u] \in Resting \/ pc'[u] \in SleepSteps
      BY <1>2, <2>2
    <3> QED
      BY <2>2, <3>1 DEF Apart, WakeInv, SwitchInv
  <2>4. Loaded' = Loaded
    BY <1>1, <1>2 DEF Loaded
  <2>5. /\ power \in [Rails -> BOOLEAN] /\ connect \in Links /\ connect' = connect
        /\ linkEvents' = linkEvents /\ sleeping \in 0 .. 1
        /\ connect \in Rails /\ Other(connect) \in Rails /\ Other(connect) # connect
    BY <1>1, Names DEF TypeOK, Links
  <2>6. /\ sleeping = 0 => Alight /\ (Loaded => Lit(connect))
        /\ sleeping = 1 => ~wakeEvent
        /\ sleeping = 1 /\ Loaded /\ (\A u \in Movers : ~Cutting(u)) => Dark
        /\ Loaded => linkEvents = {connect} /\ ~power[Other(connect)]
    BY <2>1 DEF Asleep
  <2>7. CASE SleepClear(t) \/ SleepMark(t)
    <3>1. UNCHANGED power
      BY <2>7 DEF SleepClear, SleepMark
    <3>2. Alight' = Alight /\ Lit(connect)' = Lit(connect) /\ Dark' = Dark
      BY <2>5, <3>1 DEF Alight, Lit, Dark
    <3>3. CASE SleepClear(t)
      <4>1. pc[t] = "clear" /\ pc'[t] = "mark" /\ ~wakeEvent' /\ sleeping' = sleeping
        BY <1>2, <3>3 DEF SleepClear, At, TypeOK
      <4>2. \A u \in Movers : Cutting(u)' = Cutting(u)
        BY <1>2, <4>1 DEF Cutting
      <4>3. Sleepers'
        BY <1>2, <2>1, <2>5, <3>1, <4>1 DEF Sleepers, Cutting
      <4>4. Asleep'
        BY <2>4, <2>5, <2>6, <3>1, <3>2, <4>1, <4>2 DEF Asleep
      <4> QED
        BY <2>3, <4>3, <4>4
    <3>4. CASE SleepMark(t)
      <4>1. pc[t] = "mark" /\ pc'[t] = "cut" /\ wakeEvent' = wakeEvent /\ sleeping' = 1 /\ ~wakeEvent
        BY <1>2, <2>1, <3>4 DEF SleepMark, At, TypeOK, Sleepers
      <4>2. Sleepers'
        BY <1>2, <2>1, <2>5, <3>1, <4>1 DEF Sleepers, Cutting
      <4>3. Asleep'
        BY <2>4, <2>5, <2>6, <3>1, <4>1 DEF Asleep, Cutting
      <4> QED
        BY <2>3, <4>2, <4>3
    <3> QED
      BY <2>7, <3>3, <3>4
  <2>8. CASE SleepCut(t)
    <3>1. /\ pc[t] = "cut" /\ pc'[t] = "dark" /\ UNCHANGED <<sleeping, wakeEvent>>
          /\ ~power'[connect] /\ \A r \in Rails : r # connect => power'[r] = power[r]
      BY <1>2, <2>5, <2>8 DEF SleepCut, At, TypeOK
    <3>2. sleeping = 1
      BY <2>1, <3>1 DEF Sleepers, Cutting
    <3>3. Sleepers'
      BY <1>2, <2>1, <2>5, <3>1, <3>2 DEF Sleepers, Cutting
    <3>4. Asleep'
      BY <2>4, <2>5, <2>6, <3>1, <3>2 DEF Asleep, Cutting
    <3> QED
      BY <2>3, <3>3, <3>4
  <2>9. CASE SleepDark(t)
    <3>1. /\ pc[t] = "dark" /\ pc'[t] \in {"check", "out"} /\ UNCHANGED <<sleeping, wakeEvent>>
          /\ ~power'["display"] /\ ~power'["handler"]
          /\ \A r \in Rails : r \notin {"display", "handler"} => power'[r] = power[r]
      BY <1>2, <2>5, <2>9, Names DEF SleepDark, At, TypeOK, Back
    <3>2. sleeping = 1 /\ ~power[connect]
      BY <2>1, <3>1 DEF Sleepers, Cutting
    <3>3. connect \notin {"display", "handler"} /\ Other(connect) \notin {"display", "handler"}
      BY <2>5, Names DEF Links
    <3>4. Sleepers'
      BY <1>2, <2>1, <2>5, <3>1, <3>2, <3>3 DEF Sleepers, Cutting
    <3>5. Loaded => \A r \in Rails : ~power'[r]
      BY <2>5, <2>6, <3>1, <3>2, <3>3, Names DEF Links
    <3>6. Asleep'
      BY <2>4, <2>5, <2>6, <3>1, <3>2, <3>3, <3>5 DEF Asleep, Dark
    <3> QED
      BY <2>3, <3>4, <3>6
  <2> QED
    BY <2>7, <2>8, <2>9 DEF Sleep
<1> QED
  BY <1>1, <1>3, <1>4, <1>5, <1>6 DEF Orderly

LEMMA SwitchKeeps ==
  ASSUME PowerInv, NEW t \in Movers, Switch(t) PROVE PowerInv'
<1> USE DEF PowerInv
<1>1. /\ pc[t] \in SwitchSteps
      /\ UNCHANGED <<connect, sleeping, wakeEvent, waking, sleepWork, linkWork, sleeps, presses,
                     switches, clash>>
  BY DEF Switch, SwitchRead, SwitchOff, SwitchOn, SwitchPost, SwitchSave, At
<1>2. /\ pc' \in [Movers \cup Waiters -> SleepSteps \cup WakeSteps \cup SwitchSteps \cup Resting]
      /\ \A u \in Movers : u # t => pc'[u] = pc[u] \/ (pc[u] = "link" /\ pc'[u] = "check")
      /\ pc'[t] \in SwitchSteps \cup {"check", "out"}
  <2>1. CASE SwitchPost(t)
    <3>1. pc' = [u \in DOMAIN pc |-> IF u = t THEN "save"
                                     ELSE IF pc[u] = "link" THEN "check" ELSE pc[u]]
      BY <2>1 DEF SwitchPost
    <3> QED
      BY <3>1 DEF TypeOK
  <2>2. CASE ~SwitchPost(t)
    <3>1. \E next \in SwitchSteps \cup {"check", "out"} : pc' = [pc EXCEPT ![t] = next]
      BY <2>2 DEF Switch, SwitchRead, SwitchOff, SwitchOn, SwitchSave, At, Back
    <3> QED
      BY <3>1 DEF TypeOK
  <2> QED
    BY <2>1, <2>2
<1>3. connect \in Links /\ target[t] \in Links /\ target \in [Movers -> Links] /\ saved \in Links
  BY DEF TypeOK
<1>4. /\ power' \in [Rails -> BOOLEAN]
      /\ target' \in [Movers -> Links] /\ linkEvents' \subseteq Links /\ saved' \in Links
  <2>1. power' \in [Rails -> BOOLEAN]
    BY DEF TypeOK, Switch, SwitchRead, SwitchOff, SwitchOn, SwitchPost, SwitchSave
  <2>2. target' \in [Movers -> Links]
    BY <1>3 DEF Switch, SwitchRead, SwitchOff, SwitchOn, SwitchPost, SwitchSave, Branch, Links
  <2>3. linkEvents' \subseteq Links /\ saved' \in Links
    BY <1>3 DEF TypeOK, Switch, SwitchRead, SwitchOff, SwitchOn, SwitchPost, SwitchSave, Branch
  <2> QED
    BY <2>1, <2>2, <2>3
<1>5. TypeOK'
  BY <1>1, <1>2, <1>4 DEF TypeOK
<1>6. Roles'
  BY <1>1, <1>2 DEF Roles
<1>7. Settling'
  <2>1. CASE SwitchRead(t)
    BY <1>2, <2>1 DEF SwitchRead, At, TypeOK, Settling
  <2>2. CASE SwitchOff(t) \/ SwitchOn(t)
    BY <1>2, <2>2 DEF SwitchOff, SwitchOn, At, TypeOK, Settling
  <2>3. CASE SwitchPost(t)
    BY <1>2, <2>3 DEF SwitchPost, TypeOK, Settling
  <2>4. CASE SwitchSave(t)
    BY <1>2, <2>4 DEF SwitchSave, At, TypeOK, Settling, Back
  <2> QED
    BY <2>1, <2>2, <2>3, <2>4 DEF Switch
<1>8. ASSUME ~clash PROVE (Apart /\ Asleep /\ Sleepers /\ WakeInv /\ SwitchInv)'
  <2>1. Apart /\ Asleep /\ Sleepers /\ WakeInv /\ SwitchInv
    BY <1>8 DEF Orderly
  (* No other procedure is under way.                                      *)
  <2>2. \A u \in Movers : u # t => pc[u] \in Resting /\ pc'[u] \in Resting
    BY <1>1, <1>2, <2>1 DEF Apart
  <2>3. Apart' /\ Sleepers' /\ WakeInv'
    BY <1>1, <1>2, <2>2 DEF Apart, Sleepers, WakeInv, Roles, Cutting
  <2>4. Loaded => Loaded'
    BY <1>1, <1>2 DEF Loaded
  <2>5. /\ power \in [Rails -> BOOLEAN] /\ connect \in Rails /\ Other(connect) \in Rails
        /\ Other(connect) # connect /\ connect \notin {"display", "handler"}
        /\ Other(connect) \notin {"display", "handler"}
        /\ Rails = {connect, Other(connect), "display", "handler"}
    BY <1>3, Names DEF TypeOK, Links
  <2>6. /\ sleeping = 0 /\ Alight
        /\ pc[t] \in {"off", "on", "post"} => target[t] = connect /\ linkEvents \subseteq {connect}
        /\ pc[t] \in {"on", "post", "save"} => ~power[Other(connect)]
        /\ pc[t] \in {"post", "save"} => power[connect]
        /\ pc[t] = "save" => linkEvents = {connect}
    BY <1>1, <2>1 DEF SwitchInv
  <2>7. CASE SwitchSave(t)
    <3>1. /\ pc[t] = "save" /\ pc'[t] \in {"check", "out"} /\ UNCHANGED <<linkEvents, power>>
      BY <1>2, <2>7 DEF SwitchSave, At, TypeOK, Back
    <3>2. SwitchInv'
      BY <2>2, <3>1 DEF SwitchInv
    <3>3. Asleep'
      <4>1. \A r \in Rails : power[r] = (r # Other(connect))
        <5> SUFFICES ASSUME NEW r \in Rails
                     PROVE  power[r] <=> (r # Other(connect))
          BY <2>5
        <5> QED
          BY <2>5, <2>6, <3>1 DEF Alight
      <4>2. (Alight /\ Lit(connect))'
        BY <1>1, <2>6, <3>1, <4>1 DEF Alight, Lit
      <4> QED
        BY <1>1, <2>5, <2>6, <3>1, <4>2 DEF Asleep
    <3> QED
      BY <2>3, <3>2, <3>3
  <2>8. CASE ~SwitchSave(t)
    <3>1. pc'[t] \in {"off", "on", "post", "save"}
      BY <1>2, <2>8 DEF Switch, SwitchRead, SwitchOff, SwitchOn, SwitchPost, At, TypeOK
    <3>2. Asleep'
      BY <3>1 DEF Asleep
    <3>3. /\ Alight'
          /\ pc'[t] \in {"off", "on", "post"} => target'[t] = connect /\ linkEvents' \subseteq {connect}
          /\ pc'[t] \in {"on", "post", "save"} => ~power'[Other(connect)]
          /\ pc'[t] \in {"post", "save"} => power'[connect]
          /\ pc'[t] = "save" => linkEvents' = {connect}
      <4>1. CASE SwitchRead(t)
        <5>1. /\ pc'[t] = "off" /\ target'[t] = connect /\ power' = power
              /\ linkEvents' = linkEvents \ {Other(connect)}
          BY <1>2, <1>3, <4>1 DEF SwitchRead, At, TypeOK, Branch
        <5>2. linkEvents' \subseteq {connect}
          BY <1>3, <5>1, Names DEF TypeOK, Links
        <5> QED
          BY <2>6, <5>1, <5>2 DEF Alight
      <4>2. CASE SwitchOff(t)
        <5>1. /\ pc[t] = "off" /\ pc'[t] = "on" /\ UNCHANGED <<target, linkEvents>>
              /\ power' = [power EXCEPT ![Other(target[t])] = FALSE]
          BY <1>2, <4>2 DEF SwitchOff, At, TypeOK
        <5> QED
          BY <2>5, <2>6, <5>1 DEF Alight
      <4>3. CASE SwitchOn(t)
        <5>1. /\ pc[t] = "on" /\ pc'[t] = "post" /\ UNCHANGED <<target, linkEvents>>
              /\ power' = [power EXCEPT ![target[t]] = TRUE]
          BY <1>2, <4>3 DEF SwitchOn, At, TypeOK
        <5> QED
          BY <2>5, <2>6, <5>1 DEF Alight
      <4>4. CASE SwitchPost(t)
        <5>1. /\ pc[t] = "post" /\ pc'[t] = "save" /\ UNCHANGED power
              /\ linkEvents' = linkEvents \cup {target[t]}
          BY <4>4 DEF SwitchPost, TypeOK
        <5> QED
          BY <2>6, <5>1 DEF Alight
      <4> QED
        BY <2>8, <4>1, <4>2, <4>3, <4>4 DEF Switch
    <3>4. SwitchInv'
      BY <1>1, <2>2, <2>6, <3>3 DEF SwitchInv
    <3> QED
      BY <2>3, <3>2, <3>4
  <2> QED
    BY <2>7, <2>8
<1> QED
  BY <1>1, <1>5, <1>6, <1>7, <1>8 DEF Orderly

(* What only asks for a procedure, or only moves a thread that waits; a    *)
(* request that the workqueue drops.                                       *)
Dropped ==
  /\ sleepWork' = FALSE \/ sleepWork' = sleepWork
  /\ linkWork' = FALSE \/ linkWork' = linkWork
  /\ UNCHANGED <<connect, sleeping, wakeEvent, linkEvents, waking, power, saved, pc, target,
                 sleeps, presses, switches, clash>>

LEMMA AsksKeep ==
  ASSUME PowerInv,
         \/ gpio_irq \/ linksw_irq \/ Heart \/ MainPause \/ AwaitWake("main")
         \/ (\E next \in {"due", "pause"} : At("main", "check", next)) /\ Still
         \/ Dropped \/ UNCHANGED vars
  PROVE  PowerInv'
<1> USE DEF PowerInv
<1>1. /\ UNCHANGED <<connect, sleeping, wakeEvent, linkEvents, waking, power, saved, target,
                     sleeps, clash>>
      /\ sleepWork' \in BOOLEAN /\ linkWork' \in BOOLEAN
      /\ presses' \in 0 .. MaxPresses /\ switches' \in 0 .. MaxSwitches
  <2>1. UNCHANGED <<connect, sleeping, wakeEvent, linkEvents, waking, power, saved, target,
                    sleeps, clash>>
    BY DEF gpio_irq, linksw_irq, Heart, HeartLink, HeartCheck, MainPause, AwaitWake, Still, Dropped, vars
  <2>2. /\ sleepWork' = sleepWork \/ sleepWork' = TRUE \/ sleepWork' = FALSE
        /\ linkWork' = linkWork \/ linkWork' = TRUE \/ linkWork' = FALSE
    BY DEF gpio_irq, linksw_irq, Heart, HeartLink, HeartCheck, MainPause, AwaitWake, Still, Dropped, vars
  <2>3. /\ presses' = presses \/ (presses < MaxPresses /\ presses' = presses + 1)
        /\ switches' = switches \/ (switches < MaxSwitches /\ switches' = switches + 1)
    BY DEF gpio_irq, linksw_irq, Heart, HeartLink, HeartCheck, MainPause, AwaitWake, Still, Dropped, vars
  <2>4. presses' \in 0 .. MaxPresses /\ switches' \in 0 .. MaxSwitches
    BY <2>3 DEF TypeOK
  <2>5. sleepWork' \in BOOLEAN /\ linkWork' \in BOOLEAN
    BY <2>2 DEF TypeOK
  <2> QED
    BY <2>1, <2>4, <2>5
<1>2. /\ pc' \in [Movers \cup Waiters -> SleepSteps \cup WakeSteps \cup SwitchSteps \cup Resting]
      /\ \A u \in Movers : pc'[u] = pc[u] \/ (pc[u] \in Resting /\ pc'[u] \in Resting)
      /\ pc'["main"] = "load" <=> pc["main"] = "load"
  <2>1. \/ pc' = pc
        \/ \E next \in Resting \ {"load"} : pc' = [pc EXCEPT !["heart"] = next]
        \/ /\ pc["main"] \in Resting \ {"load"}
           /\ \E next \in Resting \ {"load"} : pc' = [pc EXCEPT !["main"] = next]
    BY DEF gpio_irq, linksw_irq, Heart, HeartLink, HeartCheck, MainPause, AwaitWake, Again, At, Dropped, vars
  <2> QED
    BY <2>1 DEF TypeOK
<1>3. TypeOK'
  BY <1>1, <1>2 DEF TypeOK
<1>4. Roles' /\ Settling'
  BY <1>1, <1>2 DEF Roles, Settling, Loaded
<1>5. ASSUME ~clash PROVE (Apart /\ Asleep /\ Sleepers /\ WakeInv /\ SwitchInv)'
  <2>1. Apart /\ Asleep /\ Sleepers /\ WakeInv /\ SwitchInv
    BY <1>5 DEF Orderly
  <2>2. /\ \A u \in Movers : /\ Busy(u)' = Busy(u) /\ InSleep(u)' = InSleep(u) /\ InWake(u)' = InWake(u)
                             /\ InSwitch(u)' = InSwitch(u) /\ Cutting(u)' = Cutting(u)
                             /\ Busy(u) => pc'[u] = pc[u]
        /\ Loaded' = Loaded
    BY <1>2 DEF Cutting, Loaded
  <2>3. (Apart /\ Sleepers /\ WakeInv /\ SwitchInv)'
    BY <1>1, <1>2, <2>1, <2>2 DEF Apart, Sleepers, WakeInv, SwitchInv, Alight
  <2>4. Asleep'
    BY <1>1, <2>1, <2>2 DEF Asleep, Alight, Lit, Dark
  <2> QED
    BY <2>3, <2>4
<1> QED
  BY <1>1, <1>3, <1>4, <1>5 DEF Orderly

(* A call of system_sleep.                                                 *)
LEMMA StartSleepKeeps ==
  ASSUME PowerInv, NEW t \in {"main", "shell"}, pc[t] \in {"check", "out"}, sleeping = 0,
         pc' = [pc EXCEPT ![t] = "clear"], StartSleep(t)
  PROVE  PowerInv'
<1> USE DEF PowerInv
<1>1. /\ UNCHANGED <<connect, sleeping, wakeEvent, linkEvents, waking, power, saved, sleepWork,
                     linkWork, target, presses, switches>>
      /\ clash' = (clash \/ \E u \in Movers : InWake(u) \/ InSwitch(u))
      /\ sleeps < MaxSleeps /\ sleeps' = sleeps + 1
  BY DEF StartSleep
<1>2. /\ pc' \in [Movers \cup Waiters -> SleepSteps \cup WakeSteps \cup SwitchSteps \cup Resting]
      /\ \A u \in Movers : u # t => pc'[u] = pc[u]
      /\ pc'[t] = "clear" /\ Loaded' = Loaded
  BY DEF TypeOK, Loaded
<1>3. TypeOK'
  <2>1. sleeps' \in 0 .. MaxSleeps
    BY <1>1 DEF TypeOK
  <2>2. clash' \in BOOLEAN
    BY <1>1 DEF TypeOK
  <2> QED
    BY <1>1, <1>2, <2>1, <2>2 DEF TypeOK
<1>4. Roles' /\ Settling'
  BY <1>1, <1>2 DEF Roles, Settling, Loaded
<1>5. ASSUME ~clash' PROVE (Apart /\ Asleep /\ Sleepers /\ WakeInv /\ SwitchInv)'
  <2>1. /\ Apart /\ Asleep /\ Sleepers /\ WakeInv /\ SwitchInv
        /\ \A u \in Movers : ~InWake(u) /\ ~InSwitch(u)
    BY <1>1, <1>5 DEF Orderly
  <2>2. \A u \in Movers : pc'[u] \in SleepSteps \cup Resting
    BY <1>2, <2>1
  <2>3. (Apart /\ Sleepers /\ WakeInv /\ SwitchInv)'
    BY <1>1, <1>2, <2>1, <2>2 DEF Apart, Sleepers, WakeInv, SwitchInv, Cutting
  <2>4. Asleep'
    BY <1>1, <1>2, <2>1 DEF Asleep, Alight, Lit, Dark
  <2> QED
    BY <2>3, <2>4
<1> QED
  BY <1>3, <1>4, <1>5 DEF Orderly

(* connect_type is assigned and connect_switch called for it; for the key, *)
(* its first step is taken at once.                                        *)
LEMMA StartSwitchKeeps ==
  ASSUME PowerInv, NEW t \in Movers, NEW here \in {"assigned", "off"},
         pc[t] \in Resting, pc' = [pc EXCEPT ![t] = here],
         connect' \in Links, clash' = (clash \/ Overlap),
         IF here = "off" THEN Branch(t, connect') ELSE UNCHANGED <<target, linkEvents>>,
         linkWork' \in BOOLEAN, switches' \in 0 .. MaxSwitches,
         UNCHANGED <<sleeping, wakeEvent, waking, power, saved, sleepWork, sleeps, presses>>
  PROVE  PowerInv'
<1> USE DEF PowerInv
<1>1. /\ pc' \in [Movers \cup Waiters -> SleepSteps \cup WakeSteps \cup SwitchSteps \cup Resting]
      /\ \A u \in Movers : u # t => pc'[u] = pc[u]
      /\ pc'[t] = here /\ (Loaded => Loaded')
  BY DEF TypeOK, Loaded
<1>2. /\ target' \in [Movers -> Links] /\ linkEvents' \subseteq Links
      /\ here = "off" => /\ target'[t] = connect'
                         /\ linkEvents' = linkEvents \ {Other(connect')}
                         /\ linkEvents' \subseteq {connect'}
  <2>1. target \in [Movers -> Links] /\ linkEvents \subseteq Links
    BY DEF TypeOK
  <2>2. CASE here = "off"
    <3>1. target' = [target EXCEPT ![t] = connect'] /\ linkEvents' = linkEvents \ {Other(connect')}
      BY <2>2 DEF Branch
    <3>2. linkEvents' \subseteq {connect'}
      BY <2>1, <3>1, Names DEF Links
    <3> QED
      BY <2>1, <3>1, <3>2
  <2>3. CASE here = "assigned"
    BY <2>1, <2>3
  <2> QED
    BY <2>2, <2>3
<1>3. TypeOK'
  <2>1. clash' \in BOOLEAN
    BY DEF TypeOK
  <2> QED
    BY <1>1, <1>2, <2>1 DEF TypeOK
<1>4. Roles' /\ Settling'
  BY <1>1, <1>2 DEF Roles, Settling
<1>5. ASSUME ~clash' PROVE (Apart /\ Asleep /\ Sleepers /\ WakeInv /\ SwitchInv)'
  <2>1. /\ Apart /\ Asleep /\ Sleepers /\ WakeInv /\ SwitchInv
        /\ sleeping # 1 /\ \A u \in Movers : ~Busy(u)
    BY <1>5 DEF Orderly, Overlap
  <2>2. \A u \in Movers : u # t => pc'[u] \in Resting
    BY <1>1, <2>1
  <2>3. sleeping = 0 /\ Alight
    BY <2>1 DEF Asleep, TypeOK
  <2>4. (Apart /\ Sleepers /\ WakeInv)'
    BY <1>1, <2>2 DEF Apart, Sleepers, WakeInv, Cutting
  <2>5. SwitchInv'
    BY <1>1, <1>2, <2>2, <2>3 DEF SwitchInv, Alight
  <2>6. Asleep'
    BY <1>1 DEF Asleep
  <2> QED
    BY <2>4, <2>5, <2>6
<1> QED
  BY <1>3, <1>4, <1>5 DEF Orderly

LEMMA SwitchStarts ==
  ASSUME PowerInv, MainLoad \/ linksw_work_handler \/ \E l \in Links : cmd_link(l)
  PROVE  PowerInv'
<1>0. /\ saved \in Links /\ connect \in Links /\ linkWork \in BOOLEAN
      /\ switches \in 0 .. MaxSwitches /\ Other(connect) \in Links
  BY Names DEF PowerInv, TypeOK, Links
<1>1. CASE MainLoad
  <2>1. pc["main"] = "load" /\ pc' = [pc EXCEPT !["main"] = "assigned"]
    BY <1>1 DEF MainLoad, At
  <2> QED
    BY <1>0, <1>1, <2>1, StartSwitchKeeps DEF MainLoad
<1>2. ASSUME NEW l \in Links, cmd_link(l) PROVE PowerInv'
  <2>1. /\ pc["shell"] = "out" /\ pc' = [pc EXCEPT !["shell"] = "assigned"]
        /\ switches' \in 0 .. MaxSwitches
    BY <1>0, <1>2 DEF cmd_link, At
  <2> QED
    BY <1>0, <1>2, <2>1, StartSwitchKeeps DEF cmd_link
<1>3. CASE linksw_work_handler
  <2>1. CASE connect' = Other(connect) /\ pc' = [pc EXCEPT !["work"] = "off"]
    BY <1>0, <1>3, <2>1, StartSwitchKeeps, Names DEF linksw_work_handler, Links
  <2>2. CASE UNCHANGED <<connect, target, linkEvents, pc, clash>>
    BY <1>3, <2>2, AsksKeep DEF linksw_work_handler, Dropped
  <2> QED
    BY <1>3, <2>1, <2>2 DEF linksw_work_handler
<1> QED
  BY <1>1, <1>2, <1>3

(* system_wake.                                                            *)
LEMMA WakeStarts == ASSUME PowerInv, sleep_work_handler PROVE PowerInv'
<1> USE DEF PowerInv
<1>1. CASE UNCHANGED <<waking, power, pc, clash>>
  BY <1>1, AsksKeep DEF sleep_work_handler, Dropped
<1>2. CASE /\ sleeping = 1 /\ waking' = 1
           /\ power' = [power EXCEPT !["handler"] = TRUE, !["display"] = TRUE,
                                     !["can"] = (@ \/ connect = "can")]
           /\ pc' = [pc EXCEPT !["work"] = IF connect = "can" THEN "warm" ELSE "init"]
           /\ clash' = (clash \/ \E u \in Movers : Busy(u))
  <2>1. /\ pc["work"] = "out" /\ sleepWork' = FALSE
        /\ UNCHANGED <<connect, sleeping, wakeEvent, linkEvents, saved, linkWork, target, sleeps,
                       presses, switches>>
    BY DEF sleep_work_handler
  <2>2. /\ pc' \in [Movers \cup Waiters -> SleepSteps \cup WakeSteps \cup SwitchSteps \cup Resting]
        /\ \A u \in Movers : u # "work" => pc'[u] = pc[u]
        /\ pc'["work"] = IF connect = "can" THEN "warm" ELSE "init"
        /\ Loaded' = Loaded /\ connect \in Links
    BY <1>2 DEF TypeOK, Loaded
  <2>3. power \in [Rails -> BOOLEAN] /\ power' \in [Rails -> BOOLEAN]
    BY <1>2 DEF TypeOK
  <2>4. TypeOK'
    <3>1. clash' \in BOOLEAN /\ sleepWork' \in BOOLEAN
      BY <1>2, <2>1 DEF TypeOK
    <3> QED
      BY <1>2, <2>1, <2>2, <2>3, <3>1 DEF TypeOK
  <2>5. Roles' /\ Settling'
    BY <2>1, <2>2 DEF Roles, Settling
  <2>6. ASSUME ~clash' PROVE (Apart /\ Asleep /\ Sleepers /\ WakeInv /\ SwitchInv)'
    <3>1. /\ Apart /\ Asleep /\ Sleepers /\ WakeInv /\ SwitchInv
          /\ \A u \in Movers : ~Busy(u)
      BY <1>2, <2>6 DEF Orderly
    <3>2. \A u \in Movers : u # "work" => pc'[u] \in Resting
      BY <2>2, <3>1
    <3>3. (Apart /\ Sleepers /\ SwitchInv)'
      BY <2>2, <3>2 DEF Apart, Sleepers, SwitchInv, Cutting
    <3>4. WakeInv'
      <4>1. Alight'
        BY <1>2, <2>3, Names DEF Alight
      <4>2. connect = "can" => power'[connect]
        BY <1>2, <2>3, Names
      <4>3. Loaded => linkEvents = {connect} /\ ~power[Other(connect)]
        BY <3>1 DEF Asleep
      <4>4. Loaded => ~power'[Other(connect)]
        BY <1>2, <2>2, <2>3, <4>3, Names DEF Links
      <4> QED
        BY <1>2, <2>1, <2>2, <4>1, <4>2, <4>3, <4>4 DEF WakeInv, Links
    <3>5. Asleep'
      BY <2>2 DEF Asleep
    <3> QED
      BY <3>3, <3>4, <3>5
  <2> QED
    BY <2>4, <2>5, <2>6 DEF Orderly
<1> QED
  BY <1>1, <1>2 DEF sleep_work_handler

LEMMA WakeKeeps == ASSUME PowerInv, Wake PROVE PowerInv'
<1> USE DEF PowerInv
<1>1. /\ pc["work"] \in WakeSteps
      /\ UNCHANGED <<connect, linkEvents, saved, sleepWork, linkWork, target, sleeps, presses,
                     switches, clash>>
  BY DEF Wake, WakeRadio, WakeReinit, WakeAwake, WakeDone, At
<1>2. /\ pc' \in [Movers \cup Waiters -> SleepSteps \cup WakeSteps \cup SwitchSteps \cup Resting]
      /\ \A u \in Movers : u # "work" => pc'[u] = pc[u] \/ (pc[u] = "wake" /\ pc'[u] \in {"check", "link"})
      /\ pc'["work"] \in WakeSteps \cup {"out"} /\ Loaded' = Loaded
  <2>1. CASE WakeDone
    <3>1. pc' = [t \in DOMAIN pc |-> IF t = "work" THEN "out"
                                     ELSE IF pc[t] = "wake" THEN Again(t) ELSE pc[t]]
      BY <2>1 DEF WakeDone
    <3> QED
      BY <3>1 DEF TypeOK, Again, Loaded
  <2>2. CASE ~WakeDone
    <3>1. \E next \in WakeSteps : pc' = [pc EXCEPT !["work"] = next]
      BY <2>2 DEF Wake, WakeRadio, WakeReinit, WakeAwake, At
    <3> QED
      BY <3>1 DEF TypeOK, Loaded
  <2> QED
    BY <2>1, <2>2
<1>3. /\ power \in [Rails -> BOOLEAN] /\ power' \in [Rails -> BOOLEAN] /\ connect \in Links
  BY DEF TypeOK, Wake, WakeRadio, WakeReinit, WakeAwake, WakeDone
<1>4. TypeOK'
  <2>1. /\ wakeEvent' = wakeEvent \/ wakeEvent' = TRUE
        /\ sleeping' = sleeping \/ sleeping' = 0
        /\ waking' = waking \/ waking' = 0
    BY DEF Wake, WakeRadio, WakeReinit, WakeAwake, WakeDone
  <2>2. wakeEvent' \in BOOLEAN
    BY <2>1 DEF TypeOK
  <2>3. sleeping' \in 0 .. 1 /\ waking' \in 0 .. 1
    BY <2>1 DEF TypeOK
  <2> QED
    BY <1>1, <1>2, <1>3, <2>2, <2>3 DEF TypeOK
<1>5. Roles' /\ Settling'
  BY <1>1, <1>2 DEF Roles, Settling
<1>6. ASSUME ~clash PROVE (Apart /\ Asleep /\ Sleepers /\ WakeInv /\ SwitchInv)'
  <2>1. Apart /\ Asleep /\ Sleepers /\ WakeInv /\ SwitchInv
    BY <1>6 DEF Orderly
  <2>2. \A u \in Movers : u # "work" => pc[u] \in Resting /\ pc'[u] \in Resting
    BY <1>1, <1>2, <2>1 DEF Apart
  <2>3. (Apart /\ Sleepers /\ SwitchInv)'
    BY <1>2, <2>2 DEF Apart, Sleepers, SwitchInv, Cutting
  <2>4. /\ sleeping = IF pc["work"] = "refresh" THEN 0 ELSE 1
        /\ Alight
        /\ pc["work"] = "init" => connect = "rf24"
        /\ Loaded => /\ linkEvents = {connect} /\ ~power[Other(connect)]
                     /\ pc["work"] # "init" => power[connect]
    BY <1>1, <2>1 DEF WakeInv
  <2>5. CASE WakeRadio
    <3>1. /\ pc["work"] = "init" /\ pc'["work"] = "warm" /\ sleeping' = sleeping
          /\ power' = [power EXCEPT !["rf24"] = TRUE]
      BY <1>2, <2>5 DEF WakeRadio, At, TypeOK
    <3>2. Alight' /\ power'[connect] /\ power'[Other(connect)] = power[Other(connect)]
      BY <1>3, <2>4, <3>1, Names DEF Alight
    <3>3. WakeInv' /\ Asleep'
      BY <1>1, <1>2, <2>4, <3>1, <3>2 DEF WakeInv, Asleep
    <3> QED
      BY <2>3, <3>3
  <2>6. CASE WakeReinit \/ WakeAwake
    <3>1. /\ pc["work"] \in {"warm", "reinit"} /\ power' = power
          /\ pc'["work"] = IF pc["work"] = "warm" THEN "reinit" ELSE "refresh"
          /\ sleeping' = IF pc["work"] = "warm" THEN sleeping ELSE 0
      BY <1>2, <2>6 DEF WakeReinit, WakeAwake, At, TypeOK
    <3>2. WakeInv' /\ Asleep'
      BY <1>1, <1>2, <2>4, <3>1 DEF WakeInv, Asleep, Alight
    <3> QED
      BY <2>3, <3>2
  <2>7. CASE WakeDone
    <3>1. pc["work"] = "refresh" /\ pc'["work"] = "out" /\ UNCHANGED <<sleeping, power>>
      BY <2>7 DEF WakeDone, TypeOK
    <3>2. WakeInv'
      BY <3>1 DEF WakeInv
    <3>3. Loaded => \A r \in Rails : power[r] = (r # Other(connect))
      <4> SUFFICES ASSUME Loaded, NEW r \in Rails PROVE power[r] <=> (r # Other(connect))
        BY <1>3
      <4> QED
        BY <1>3, <2>4, <3>1, Names DEF Alight, Links
    <3>4. Asleep'
      BY <1>1, <1>2, <2>4, <3>1, <3>3 DEF Asleep, Alight, Lit
    <3> QED
      BY <2>3, <3>2, <3>4
  <2> QED
    BY <2>5, <2>6, <2>7 DEF Wake
<1> QED
  BY <1>1, <1>4, <1>5, <1>6 DEF Orderly

LEMMA NextKeeps == ASSUME PowerInv, [Next]_vars PROVE PowerInv'
<1>1. CASE Keys \/ Heart \/ MainPause \/ AwaitWake("main") \/ UNCHANGED vars
  BY <1>1, AsksKeep DEF Keys
<1>2. CASE sleep_work_handler \/ Wake
  BY <1>2, WakeStarts, WakeKeeps
<1>3. CASE MainLoad \/ linksw_work_handler \/ \E l \in Links : cmd_link(l)
  BY <1>3, SwitchStarts
<1>4. CASE Sleep("main") \/ Sleep("shell")
  BY <1>4, SleepKeeps
<1>5. CASE Switch("main") \/ Switch("shell") \/ Switch("work")
  BY <1>5, SwitchKeeps
<1>6. CASE cmd_sleep
  BY <1>6, StartSleepKeeps DEF cmd_sleep, At
<1>7. CASE MainCheck
  <2>1. CASE sleeping = 0 /\ At("main", "check", "clear") /\ StartSleep("main")
    BY <2>1, StartSleepKeeps DEF At
  <2>2. CASE (\E next \in {"due", "pause"} : At("main", "check", next)) /\ Still
    BY <2>2, AsksKeep
  <2> QED
    BY <1>7, <2>1, <2>2 DEF MainCheck
<1> QED
  BY <1>1, <1>2, <1>3, <1>4, <1>5, <1>6, <1>7 DEF Next, Work, Shell, Main

(* The invariant, which the theorems below only read off.                  *)
THEOREM PowerInvariant == Spec => []PowerInv
<1> QED
  BY InitHolds, NextKeeps, PTL DEF Spec

(* The fields of global_params, the rails and the threads are of their     *)
(* kind.                                                                   *)
THEOREM TypeCorrect == Spec => []TypeOK
<1>1. PowerInv => TypeOK
  BY DEF PowerInv
<1> QED
  BY <1>1, PowerInvariant, PTL

(* As long as no two of system_sleep, system_wake and connect_switch have  *)
(* overlapped, though calls of system_sleep may overlap each other: with   *)
(* none of them under way, the sleeping system is dark and cannot be woken *)
(* by a stale event, and the waking one powers exactly the link in use.    *)
THEOREM PowerFollowsState == Spec => []OrderlyPower
<1>1. ASSUME PowerInv PROVE OrderlyPower
  <2> SUFFICES ASSUME Settled, ~clash
               PROVE  IF sleeping = 1 THEN Dark /\ ~wakeEvent
                                      ELSE Lit(connect) /\ linkEvents = {connect}
    BY DEF OrderlyPower
  <2>1. Asleep /\ Loaded /\ sleeping \in 0 .. 1 /\ \A t \in Movers : pc[t] \in Resting
    BY <1>1 DEF PowerInv, Orderly, TypeOK, Settled, Loaded
  <2> QED
    BY <2>1 DEF Asleep, Cutting
<1> QED
  BY <1>1, PowerInvariant, PTL

(* However connect_switch overlaps itself and the other procedures, the    *)
(* link in use ends up saved and some link's event posted.                 *)
THEOREM SwitchesSettle == Spec => []SwitchSettles
<1>1. PowerInv => SwitchSettles
  BY DEF PowerInv, Settling, SwitchSettles, Settled, Loaded
<1> QED
  BY <1>1, PowerInvariant, PTL

-----------------------------------------------------------------------------
(* The wake-ups.  A thread that has seen the system asleep, and has not    *)
(* yet waited or waits, has its event posted, or about to be posted, or a  *)
(* sleep about to be announced; and nobody waits for an event that is      *)
(* posted.                                                                 *)
WakeTold ==
  \A t \in Waiters :
    /\ pc[t] \in {"due", "wake"} /\ sleeping = 0 =>
         wakeEvent \/ pc["work"] = "refresh" \/ \E u \in Movers : pc[u] = "mark"
    /\ pc[t] = "wake" => ~wakeEvent

(* A step of t that neither sees the sleep nor ends a sleep's or a         *)
(* wake-up's announcement.                                                 *)
LEMMA ElsewhereTold ==
  ASSUME TypeOK, WakeTold, NEW t \in Movers \cup Waiters, NEW next,
         pc' = [pc EXCEPT ![t] = next],
         pc[t] \notin {"refresh", "mark"}, next \notin {"due", "wake"},
         sleeping' = sleeping, wakeEvent' = wakeEvent
  PROVE  WakeTold'
<1>1. \A u \in Movers \cup Waiters : pc'[u] = IF u = t THEN next ELSE pc[u]
  BY DEF TypeOK
<1>2. pc["work"] = "refresh" => pc'["work"] = "refresh"
  BY <1>1
<1>3. \A u \in Movers : pc[u] = "mark" => pc'[u] = "mark"
  BY <1>1
<1> QED
  BY <1>1, <1>2, <1>3 DEF WakeTold

LEMMA SleepTold ==
  ASSUME TypeOK, WakeTold, NEW t \in {"main", "shell"}, Sleep(t)
  PROVE  WakeTold'
<1>1. CASE SleepClear(t)
  <2>1. pc'[t] = "mark" /\ ~wakeEvent'
    BY <1>1 DEF SleepClear, At, TypeOK
  <2> QED
    BY <2>1 DEF WakeTold
<1>2. CASE SleepMark(t)
  <2>1. sleeping' = 1 /\ wakeEvent' = wakeEvent
    BY <1>2 DEF SleepMark
  <2>2. \A u \in Waiters : pc'[u] = "wake" => pc[u] = "wake"
    BY <1>2 DEF SleepMark, At, TypeOK
  <2> QED
    BY <2>1, <2>2 DEF WakeTold
<1>3. CASE SleepCut(t) \/ SleepDark(t)
  <2>1. PICK next \in {"dark", Back(t)} : pc' = [pc EXCEPT ![t] = next]
    BY <1>3 DEF SleepCut, SleepDark, At
  <2>2. /\ pc[t] \notin {"refresh", "mark"} /\ next \notin {"due", "wake"}
        /\ sleeping' = sleeping /\ wakeEvent' = wakeEvent
    BY <1>3, <2>1 DEF SleepCut, SleepDark, At, Back
  <2> QED
    BY <2>1, <2>2, ElsewhereTold
<1> QED
  BY <1>1, <1>2, <1>3 DEF Sleep

LEMMA SwitchTold ==
  ASSUME TypeOK, WakeTold, NEW t \in Movers, Switch(t)
  PROVE  WakeTold'
<1>1. CASE SwitchPost(t)
  <2>1. \A u \in Movers \cup Waiters :
          /\ pc'[u] \in {"due", "wake", "refresh", "mark"} => pc'[u] = pc[u]
          /\ pc[u] \in {"due", "wake", "refresh", "mark"} => pc'[u] = pc[u]
    BY <1>1 DEF SwitchPost, TypeOK
  <2>2. sleeping' = sleeping /\ wakeEvent' = wakeEvent
    BY <1>1 DEF SwitchPost
  <2> QED
    BY <2>1, <2>2 DEF WakeTold
<1>2. CASE SwitchRead(t) \/ SwitchOff(t) \/ SwitchOn(t) \/ SwitchSave(t)
  <2>1. PICK next \in {"off", "on", "post", Back(t)} : pc' = [pc EXCEPT ![t] = next]
    BY <1>2 DEF SwitchRead, SwitchOff, SwitchOn, SwitchSave, At
  <2>2. /\ pc[t] \notin {"refresh", "mark"} /\ next \notin {"due", "wake"}
        /\ sleeping' = sleeping /\ wakeEvent' = wakeEvent
    BY <1>2, <2>1 DEF SwitchRead, SwitchOff, SwitchOn, SwitchSave, At, Back
  <2> QED
    BY <2>1, <2>2, ElsewhereTold
<1> QED
  BY <1>1, <1>2 DEF Switch

LEMMA WakingTold ==
  ASSUME TypeOK, WakeTold, sleep_work_handler \/ Wake
  PROVE  WakeTold'
<1>1. CASE sleep_work_handler
  <2>1. sleeping' = sleeping /\ wakeEvent' = wakeEvent
    BY <1>1 DEF sleep_work_handler
  <2>2. pc' = pc \/ \E next \in {"warm", "init"} : pc' = [pc EXCEPT !["work"] = next]
    BY <1>1 DEF sleep_work_handler
  <2>3. pc["work"] = "out"
    BY <1>1 DEF sleep_work_handler
  <2>4. CASE pc' = pc
    BY <2>1, <2>4 DEF WakeTold
  <2> QED
    BY <2>1, <2>2, <2>3, <2>4, ElsewhereTold
<1>2. CASE WakeRadio \/ WakeReinit
  <2>1. PICK next \in {"warm", "reinit"} : pc' = [pc EXCEPT !["work"] = next]
    BY <1>2 DEF WakeRadio, WakeReinit, At
  <2>2. pc["work"] \notin {"refresh", "mark"} /\ sleeping' = sleeping /\ wakeEvent' = wakeEvent
    BY <1>2 DEF WakeRadio, WakeReinit, At
  <2> QED
    BY <2>1, <2>2, ElsewhereTold
<1>3. CASE WakeAwake
  <2>1. pc'["work"] = "refresh" /\ wakeEvent' = wakeEvent
    BY <1>3 DEF WakeAwake, At, TypeOK
  <2>2. \A u \in Waiters : pc'[u] = pc[u]
    BY <1>3 DEF WakeAwake, At, TypeOK
  <2> QED
    BY <2>1, <2>2 DEF WakeTold
<1>4. CASE WakeDone
  <2>1. wakeEvent' = TRUE
    BY <1>4 DEF WakeDone
  <2>2. \A u \in Waiters : pc'[u] # "wake"
    BY <1>4 DEF WakeDone, TypeOK, Again
  <2> QED
    BY <2>1, <2>2 DEF WakeTold
<1> QED
  BY <1>1, <1>2, <1>3, <1>4 DEF Wake

(* The shell, the keys and the threads that wait.                          *)
LEMMA CallersTold ==
  ASSUME TypeOK, WakeTold,
         \/ cmd_sleep \/ (\E l \in Links : cmd_link(l)) \/ Keys \/ linksw_work_handler
         \/ MainLoad \/ MainCheck \/ MainPause
         \/ HeartLink \/ HeartCheck \/ (\E t \in Waiters : AwaitWake(t))
  PROVE  WakeTold'
<1>1. CASE cmd_sleep \/ (\E l \in Links : cmd_link(l)) \/ MainLoad
  <2>1. PICK t \in {"main", "shell"}, next \in {"clear", "assigned"} :
               pc[t] \in {"out", "load"} /\ pc' = [pc EXCEPT ![t] = next]
    BY <1>1 DEF cmd_sleep, cmd_link, MainLoad, At
  <2>2. sleeping' = sleeping /\ wakeEvent' = wakeEvent
    BY <1>1 DEF cmd_sleep, cmd_link, MainLoad, StartSleep
  <2> QED
    BY <2>1, <2>2, ElsewhereTold
<1>2. CASE Keys
  BY <1>2 DEF Keys, gpio_irq, linksw_irq, WakeTold
<1>3. CASE linksw_work_handler
  <2>1. /\ sleeping' = sleeping /\ wakeEvent' = wakeEvent /\ pc["work"] = "out"
        /\ pc' = pc \/ pc' = [pc EXCEPT !["work"] = "off"]
    BY <1>3 DEF linksw_work_handler
  <2>2. CASE pc' = pc
    BY <2>1, <2>2 DEF WakeTold
  <2> QED
    BY <2>1, <2>2, ElsewhereTold
<1>4. CASE MainPause \/ HeartLink
  <2>1. PICK t \in Waiters : pc[t] \in {"pause", "link"} /\ pc' = [pc EXCEPT ![t] = "check"]
    BY <1>4 DEF MainPause, HeartLink, At
  <2>2. sleeping' = sleeping /\ wakeEvent' = wakeEvent
    BY <1>4 DEF MainPause, HeartLink, Still
  <2>3. t \in Movers \cup Waiters /\ pc[t] \notin {"refresh", "mark"}
    BY <2>1
  <2>4. "check" \notin {"due", "wake"}
    OBVIOUS
  <2> HIDE DEF Movers, Waiters
  <2> QED
    BY <2>1, <2>2, <2>3, <2>4, ElsewhereTold
<1>5. CASE MainCheck \/ HeartCheck
  <2>1. PICK t \in Waiters, next \in {"due", "clear", "pause", "link"} :
               /\ pc[t] = "check" /\ pc' = [pc EXCEPT ![t] = next]
               /\ next = "due" => sleeping = 1
    BY <1>5 DEF MainCheck, HeartCheck, At
  <2>2. sleeping' = sleeping /\ wakeEvent' = wakeEvent
    BY <1>5 DEF MainCheck, HeartCheck, StartSleep, Still
  <2>3. CASE next = "due"
    <3>1. \A u \in Waiters : pc'[u] = "wake" => pc[u] = "wake"
      BY <2>1, <2>3 DEF TypeOK
    <3> QED
      BY <2>1, <2>2, <2>3, <3>1 DEF WakeTold
  <2> QED
    BY <2>1, <2>2, <2>3, ElsewhereTold
<1>6. ASSUME NEW t \in Waiters, AwaitWake(t) PROVE WakeTold'
  <2>1. sleeping' = sleeping /\ wakeEvent' = wakeEvent
    BY <1>6 DEF AwaitWake, Still
  <2>2. CASE wakeEvent
    <3>1. pc' = [pc EXCEPT ![t] = Again(t)] /\ pc[t] = "due" /\ Again(t) \in {"link", "check"}
      BY <1>6, <2>2 DEF AwaitWake, At, Again
    <3> QED
      BY <2>1, <3>1, ElsewhereTold
  <2>3. CASE ~wakeEvent
    <3>1. pc[t] = "due" /\ \A u \in Movers \cup Waiters : pc'[u] = IF u = t THEN "wake" ELSE pc[u]
      BY <1>6, <2>3 DEF AwaitWake, At, TypeOK
    <3>2. pc["work"] = "refresh" => pc'["work"] = "refresh"
      BY <3>1
    <3>3. \A u \in Movers : pc[u] = "mark" => pc'[u] = "mark"
      BY <3>1
    <3> QED
      BY <2>1, <2>3, <3>1, <3>2, <3>3 DEF WakeTold
  <2> QED
    BY <2>2, <2>3
<1> QED
  BY <1>1, <1>2, <1>3, <1>4, <1>5, <1>6

LEMMA NextTold == TypeOK /\ WakeTold /\ [Next]_vars => WakeTold'
<1> SUFFICES ASSUME TypeOK, WakeTold, [Next]_vars PROVE WakeTold'
  OBVIOUS
<1>1. CASE \/ cmd_sleep \/ (\E l \in Links : cmd_link(l)) \/ Keys \/ linksw_work_handler
           \/ MainLoad \/ MainCheck \/ MainPause
           \/ HeartLink \/ HeartCheck \/ (\E t \in Waiters : AwaitWake(t))
  BY <1>1, CallersTold
<1>2. CASE sleep_work_handler \/ Wake
  BY <1>2, WakingTold
<1>3. CASE Sleep("main") \/ Sleep("shell")
  BY <1>3, SleepTold
<1>4. CASE Switch("main") \/ Switch("shell") \/ Switch("work")
  BY <1>4, SwitchTold
<1>5. CASE UNCHANGED vars
  BY <1>5 DEF vars, WakeTold
<1> QED
  BY <1>1, <1>2, <1>3, <1>4, <1>5 DEF Next, Work, Shell, Main, Heart

(* No order of sleeping, waking and looking at the two loses a wake-up:    *)
(* whoever waits while the system is awake is about to be woken, or the    *)
(* next sleep is about to begin, for any number of sleeps and presses.     *)
THEOREM WakeUpsKept == Spec => []NoWakeLost
<1>1. Init => WakeTold
  BY DEF Init, WakeTold
<1>2. WakeTold => NoWakeLost
  BY DEF WakeTold, NoWakeLost
<1> QED
  BY <1>1, <1>2, NextTold, TypeCorrect, PTL DEF Spec
=============================================================================
