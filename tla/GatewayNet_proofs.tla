-------------------------- MODULE GatewayNet_proofs --------------------------
(***************************************************************************)
(* What the gateway's configuration keeps to, for any number of commands,  *)
(* power cuts and changes of the carrier.                                  *)
(*                                                                         *)
(* The invariant follows a command from its first assignment to its        *)
(* report: in between, gw_params holds its value or a later one (InHand),  *)
(* the key it changed is still to be saved or is saved (Agree), and the    *)
(* report is the last thing to do (Plans).                                 *)
(***************************************************************************)
EXTENDS GatewayNet, SequenceTheorems, TLAPS

LEMMA Constants == MaxChanges \in Nat /\ MaxCuts \in Nat /\ MaxFlaps \in Nat
  BY NetAssumption

USE Constants

(* The steps t has still to do.                                            *)
Left(t) == ToSet(op[t])

(* The value x of key k is that of command v, or of a later one, or the    *)
(* mixture found while a later one is being written.                       *)
Reached(x, k, v) == x \in v .. MaxChanges \/ (k = "host_ip" /\ x = Torn)

(* The report comes last, the host's address is written first.             *)
Ordered(s) == \A i \in 1 .. Len(s) : /\ s[i] = "reply" => i = Len(s)
                                     /\ s[i] = "host" => i = 1

Plans ==
  \A t \in Editors :
    /\ Ordered(op[t])
    /\ op[t] # <<>> => main \in {"wait", "ready"}
    /\ "host" \in Left(t) =>
         /\ t = "cfg" /\ change[t][1] = "host_ip"
         /\ "host_ip" \in Left(t) /\ "host_port" \in Left(t)
         /\ acked["host_ip"] <= change[t][2]

(* Which key an editor may change.                                         *)
Domains ==
  /\ \A t \in Editors : change[t][1] # "host_port"
  /\ change["shell"][1] # "host_ip"
  /\ acked["host_port"] = 0

Numbers ==
  /\ \A k \in Keys : acked[k] <= changes
  /\ \A t \in Editors : change[t][2] <= changes
  /\ \A k \in Keys : ram[k] <= changes \/ (k = "host_ip" /\ ram[k] = Torn)
  /\ \A k \in Keys : \/ stored[k] <= changes \/ stored[k] = Absent
                     \/ (k = "host_ip" /\ stored[k] = Torn)

(* A command under way.                                                    *)
InHand ==
  \A t \in Editors : op[t] # <<>> =>
    /\ Reached(ram[change[t][1]], change[t][1], change[t][2])
    /\ \/ change[t][1] \in Left(t) \/ wiped
       \/ Reached(stored[change[t][1]], change[t][1], change[t][2])

(* What was reported is still in gw_params.                                *)
AckedHeld ==
  main # "load" => \A k \in Keys : acked[k] > 0 => Reached(ram[k], k, acked[k])

AckedStored ==
  wiped \/ \A k \in Keys : acked[k] > 0 => Reached(stored[k], k, acked[k])

(* What differs is still to be saved, or to be applied.                    *)
Agree ==
  /\ main = "load" => ~wiped
  /\ (main # "load" /\ ~wiped) =>
        \A k \in Keys : \/ stored[k] = ram[k] \/ stored[k] = Absent
                        \/ \E t \in Editors : k \in Left(t)
  /\ main \in {"net", "wait", "ready"} =>
        (radio = ram["rf24_addr"] \/ \E t \in Editors : "apply" \in Left(t))

NetInv == /\ TypeOK /\ Plans /\ Domains /\ Numbers /\ InHand
          /\ AckedHeld /\ AckedStored /\ Agree

-----------------------------------------------------------------------------
(* Sequences of steps.                                                     *)

LEMMA KeyNames ==
  /\ Keys = {"ip_addr", "data_port", "use_dhcp", "host_ip", "host_port", "rf24_addr"}
  /\ NetKeys \in Seq(Steps)
  BY DEF Keys, NetKeys, ToSet, Steps

(* Which plans there are.                                                  *)
LEMMA PlanSteps ==
  ASSUME NEW s \in {NetKeys \o <<"reply">>, <<"host">> \o NetKeys \o <<"reply">>,
                    <<"rf24_addr", "apply", "reply">>, <<"apply", "rf24_addr", "reply">>}
  PROVE  /\ s \in Seq(Steps) /\ s # <<>> /\ Ordered(s)
         /\ "host" \in ToSet(s) => s = <<"host">> \o NetKeys \o <<"reply">>
<1>1. Steps = {"ip_addr", "data_port", "use_dhcp", "host_ip", "host_port", "rf24_addr",
               "host", "apply", "reply"}
  BY KeyNames DEF Steps
<1>2. CASE s = NetKeys \o <<"reply">>
  <2>1. /\ s \in Seq(Steps) /\ Len(s) = 6
        /\ s[1] = "ip_addr" /\ s[2] = "data_port" /\ s[3] = "use_dhcp"
        /\ s[4] = "host_ip" /\ s[5] = "host_port" /\ s[6] = "reply"
    BY <1>1, <1>2 DEF NetKeys
  <2>2. \A i \in 1 .. 6 : i = 1 \/ i = 2 \/ i = 3 \/ i = 4 \/ i = 5 \/ i = 6
    OBVIOUS
  <2>3. ToSet(s) = {s[i] : i \in 1 .. 6}
    BY <2>1 DEF ToSet
  <2> QED
    BY <2>1, <2>2, <2>3 DEF Ordered
<1>3. CASE s = <<"host">> \o NetKeys \o <<"reply">>
  <2>1. /\ s \in Seq(Steps) /\ Len(s) = 7
        /\ s[1] = "host" /\ s[2] = "ip_addr" /\ s[3] = "data_port" /\ s[4] = "use_dhcp"
        /\ s[5] = "host_ip" /\ s[6] = "host_port" /\ s[7] = "reply"
    BY <1>1, <1>3 DEF NetKeys
  <2>2. \A i \in 1 .. 7 : i = 1 \/ i = 2 \/ i = 3 \/ i = 4 \/ i = 5 \/ i = 6 \/ i = 7
    OBVIOUS
  <2> QED
    BY <1>3, <2>1, <2>2 DEF Ordered
<1>5. CASE s = <<"rf24_addr", "apply", "reply">>
  BY <1>1, <1>5 DEF Ordered, ToSet
<1>6. CASE s = <<"apply", "rf24_addr", "reply">>
  BY <1>1, <1>6 DEF Ordered, ToSet
<1> QED
  BY <1>2, <1>3, <1>5, <1>6

LEMMA NetPlans ==
  /\ \A k \in Keys \ {"rf24_addr"} : /\ k \in ToSet(NetKeys \o <<"reply">>)
                                     /\ k \in ToSet(<<"host">> \o NetKeys \o <<"reply">>)
  /\ {"rf24_addr", "apply"} \subseteq ToSet(<<"rf24_addr", "apply", "reply">>)
  /\ {"rf24_addr", "apply"} \subseteq ToSet(<<"apply", "rf24_addr", "reply">>)
  BY KeyNames DEF ToSet, NetKeys

(* What is left after a step is done.                                      *)
LEMMA SetOf ==
  ASSUME NEW S, NEW s \in Seq(S)
  PROVE  ToSet(s) = {s[i] : i \in 1 .. Len(s)}
<1>1. DOMAIN s = 1 .. Len(s)
  OBVIOUS
<1> QED
  BY <1>1 DEF ToSet

LEMMA TailSteps ==
  ASSUME NEW s \in Seq(Steps), s # <<>>, Ordered(s)
  PROVE  /\ Tail(s) \in Seq(Steps) /\ Head(s) \in Steps
         /\ Ordered(Tail(s)) /\ "host" \notin ToSet(Tail(s))
         /\ ToSet(s) \subseteq {Head(s)} \cup ToSet(Tail(s))
         /\ ToSet(Tail(s)) \subseteq ToSet(s)
         /\ Head(s) \in ToSet(s)
         /\ Head(s) = "reply" => Tail(s) = <<>> /\ ToSet(s) = {"reply"}
<1>1. /\ Tail(s) \in Seq(Steps) /\ Len(s) \in Nat /\ Len(s) > 0
      /\ Len(Tail(s)) = Len(s) - 1 /\ \A i \in 1 .. Len(Tail(s)) : Tail(s)[i] = s[i + 1]
  BY HeadTailProperties, EmptySeq
<1>2. /\ ToSet(s) = {s[i] : i \in 1 .. Len(s)}
      /\ ToSet(Tail(s)) = {Tail(s)[i] : i \in 1 .. Len(Tail(s))}
      /\ Head(s) = s[1] /\ Head(s) \in Steps
  <2>1. ToSet(s) = {s[i] : i \in 1 .. Len(s)}
    BY SetOf
  <2>2. ToSet(Tail(s)) = {Tail(s)[i] : i \in 1 .. Len(Tail(s))}
    BY <1>1, SetOf
  <2>3. Head(s) = s[1] /\ Head(s) \in Steps
    BY HeadTailProperties
  <2> QED
    BY <2>1, <2>2, <2>3
<1>3. \A i \in 1 .. Len(s) : i = 1 \/ (i - 1 \in 1 .. Len(Tail(s)) /\ Tail(s)[i - 1] = s[i])
  BY <1>1
<1>4. /\ ToSet(s) \subseteq {Head(s)} \cup ToSet(Tail(s)) /\ ToSet(Tail(s)) \subseteq ToSet(s)
      /\ Head(s) \in ToSet(s)
  <2> DEFINE t == Tail(s)
  <2> HIDE DEF t
  <2>1. \A i \in 1 .. Len(t) : i + 1 \in 1 .. Len(s) /\ t[i] = s[i + 1]
    BY <1>1 DEF t
  <2>2. 1 \in 1 .. Len(s)
    BY <1>1
  <2> QED
    BY <1>2, <1>3, <2>1, <2>2 DEF t
<1>5. Ordered(Tail(s)) /\ "host" \notin ToSet(Tail(s))
  <2> DEFINE t == Tail(s)
  <2> HIDE DEF t
  <2>1. \A i \in 1 .. Len(t) : i + 1 \in 1 .. Len(s) /\ t[i] = s[i + 1]
    BY <1>1 DEF t
  <2>2. Len(t) \in Nat /\ Len(t) = Len(s) - 1 /\ Len(s) \in Nat
    BY <1>1 DEF t
  <2>3. \A j \in 1 .. Len(s) : (s[j] = "reply" => j = Len(s)) /\ (s[j] = "host" => j = 1)
    BY DEF Ordered
  <2>4. \A i \in 1 .. Len(t) : t[i] # "host" /\ (t[i] = "reply" => i = Len(t))
    <3> TAKE i \in 1 .. Len(t)
    <3>1. /\ i + 1 \in 1 .. Len(s) /\ t[i] = s[i + 1] /\ i + 1 # 1 /\ i \in Nat
          /\ i + 1 = Len(s) => i = Len(t)
      BY <2>1, <2>2
    <3> QED
      BY <2>3, <3>1
  <2> QED
    BY <1>2, <2>4 DEF Ordered, t
<1>6. ASSUME Head(s) = "reply" PROVE Len(s) = 1
  <2>1. 1 \in 1 .. Len(s) /\ s[1] = "reply"
    BY <1>1, <1>2, <1>6
  <2> QED
    BY <2>1 DEF Ordered
<1>7. ASSUME Head(s) = "reply" PROVE Tail(s) = <<>> /\ ToSet(s) = {"reply"}
  BY <1>1, <1>2, <1>6, <1>7, EmptySeq
<1> QED
  BY <1>1, <1>2, <1>4, <1>5, <1>7

LEMMA NothingLeft == ToSet(<<>>) = {}
  BY DEF ToSet

-----------------------------------------------------------------------------
(* The steps.                                                              *)

LEMMA Values ==
  /\ Absent \notin Changes /\ Torn \notin Changes /\ None \notin Changes
  /\ Absent # Torn /\ Absent \in Int /\ Torn \in Int /\ None \in Int
  /\ Changes \subseteq Nat /\ \A x \in Changes : x <= MaxChanges
  /\ Changes \cup {Torn} \subseteq Int /\ Changes \cup {Absent, Torn} \subseteq Int
  BY DEF Absent, Torn, None, Changes

LEMMA InitHolds == Init => NetInv
<1> SUFFICES ASSUME Init PROVE NetInv
  OBVIOUS
<1>1. TypeOK
  <2>1. 0 \in Changes /\ changes \in Changes /\ cuts \in 0 .. MaxCuts /\ flaps \in 0 .. MaxFlaps
    BY DEF Init, Changes
  <2>2. ram \in [Keys -> Changes \cup {Torn}] /\ stored \in [Keys -> Changes \cup {Absent, Torn}]
    BY <2>1 DEF Init
  <2>3. op \in [Editors -> Seq(Steps)] /\ acked \in [Keys -> Changes]
    BY <2>1 DEF Init
  <2>4. change \in [Editors -> Keys \X Changes]
    BY <2>1, KeyNames DEF Init
  <2>5. dest \in (Changes \cup {Torn, None}) \X (Changes \cup {None})
    BY DEF Init
  <2>6. events \in Seq(BOOLEAN) /\ sem \in 0 .. 1
    BY DEF Init
  <2> QED
    BY <2>1, <2>2, <2>3, <2>4, <2>5, <2>6 DEF Init, TypeOK
<1>2. \A t \in Editors : op[t] = <<>> /\ Left(t) = {}
  BY NothingLeft DEF Init, Left
<1>3. Plans /\ InHand
  BY <1>2 DEF Plans, InHand, Ordered
<1>4. Domains /\ Numbers
  BY KeyNames, Values DEF Init, Domains, Numbers, Editors
<1>5. AckedHeld /\ AckedStored /\ Agree
  BY DEF Init, AckedHeld, AckedStored, Agree
<1> QED
  BY <1>1, <1>3, <1>4, <1>5 DEF NetInv

LEMMA CommandKeeps ==
  ASSUME NetInv, NEW t \in Editors, NEW k \in Keys, NEW steps, NEW x, Command(t, k, steps),
         steps \in {NetKeys \o <<"reply">>, <<"host">> \o NetKeys \o <<"reply">>,
                    <<"rf24_addr", "apply", "reply">>, <<"apply", "rf24_addr", "reply">>},
         k \in ToSet(steps), k # "host_port", t = "shell" => k # "host_ip",
         k = "rf24_addr" => "apply" \in ToSet(steps),
         "host" \in ToSet(steps) => t = "cfg" /\ k = "host_ip",
         ram' = [ram EXCEPT ![k] = x], x = changes' \/ (k = "host_ip" /\ x = Torn),
         bad' \subseteq Changes
  PROVE  NetInv'
<1> USE DEF NetInv
<1>1. /\ changes' = changes + 1 /\ changes' \in Changes /\ changes \in Nat
      /\ steps \in Seq(Steps) /\ Ordered(steps) /\ steps # <<>>
      /\ \A y \in Int : y <= changes => y <= changes'
  <2>1. changes \in Nat /\ changes < MaxChanges /\ changes' = changes + 1
    BY DEF Command, TypeOK, Changes
  <2>2. changes' \in Changes /\ \A y \in Int : y <= changes => y <= changes'
    BY <2>1 DEF Changes
  <2> QED
    BY <2>1, <2>2, PlanSteps
<1>2. /\ op' = [op EXCEPT ![t] = steps] /\ op[t] = <<>> /\ op \in [Editors -> Seq(Steps)]
      /\ Left(t) = {} /\ Left(t)' = ToSet(steps)
      /\ \A u \in Editors : u # t => op'[u] = op[u] /\ Left(u)' = Left(u)
  BY NothingLeft DEF Command, TypeOK, Left
<1>3. /\ change' = [change EXCEPT ![t] = <<k, changes'>>]
      /\ change \in [Editors -> Keys \X Changes] /\ change'[t][1] = k /\ change'[t][2] = changes'
      /\ \A u \in Editors : u # t => change'[u] = change[u]
  BY DEF Command, TypeOK
<1>4. /\ ram \in [Keys -> Changes \cup {Torn}] /\ x \in Changes \cup {Torn} /\ ram'[k] = x
      /\ \A j \in Keys : j # k => ram'[j] = ram[j]
  BY <1>1 DEF TypeOK
<1>5. UNCHANGED <<stored, wiped, main, network, radio, dataSock, acked, dest, cuts, flaps>>
  BY DEF Command
<1>6. TypeOK'
  <2>1. ram' \in [Keys -> Changes \cup {Torn}]
    BY <1>4
  <2>2. op' \in [Editors -> Seq(Steps)]
    BY <1>1, <1>2
  <2>3. change' \in [Editors -> Keys \X Changes]
    BY <1>1, <1>3
  <2> QED
    BY <1>1, <1>5, <2>1, <2>2, <2>3 DEF TypeOK, network
<1>7. acked \in [Keys -> Changes] /\ \A j \in Keys : acked[j] <= changes /\ acked[j] \in Nat
  BY Values DEF TypeOK, Numbers
<1>8. \A u \in Editors : change[u][2] \in Nat /\ change[u][2] <= changes /\ change[u][1] \in Keys
  BY Values DEF TypeOK, Numbers
<1>10. Plans'
  <2> SUFFICES ASSUME NEW u \in Editors
               PROVE  /\ Ordered(op'[u])
                      /\ op'[u] # <<>> => main' \in {"wait", "ready"}
                      /\ "host" \in Left(u)' =>
                           /\ u = "cfg" /\ change'[u][1] = "host_ip"
                           /\ "host_ip" \in Left(u)' /\ "host_port" \in Left(u)'
                           /\ acked'["host_ip"] <= change'[u][2]
    BY DEF Plans
  <2>1. CASE u # t
    BY <1>2, <1>3, <1>5, <2>1 DEF Plans
  <2>2. CASE u = t
    <3>1. Ordered(op'[u]) /\ main' \in {"wait", "ready"}
      BY <1>1, <1>2, <1>5, <2>2 DEF Command
    <3>2. ASSUME "host" \in Left(u)' 
          PROVE  "host_ip" \in Left(u)' /\ "host_port" \in Left(u)'
      <4>1. steps = <<"host">> \o NetKeys \o <<"reply">>
        BY <1>2, <2>2, <3>2, PlanSteps
      <4> QED
        BY <1>2, <2>2, <4>1, NetPlans, KeyNames
    <3>3. "host_ip" \in Keys
      BY KeyNames
    <3> QED
      BY <1>1, <1>2, <1>3, <1>5, <1>7, <2>2, <3>1, <3>2, <3>3
  <2> QED
    BY <2>1, <2>2
<1>11. Domains'
  <2>1. \A u \in Editors : change'[u][1] # "host_port"
    BY <1>3 DEF Domains
  <2>2. change'["shell"][1] # "host_ip"
    BY <1>3 DEF Domains, Editors
  <2> QED
    BY <1>5, <2>1, <2>2 DEF Domains
<1>12. Numbers'
  <2>1. \A u \in Editors : change'[u][2] <= changes'
    BY <1>1, <1>3, <1>8
  <2>2. \A j \in Keys : acked'[j] <= changes'
    BY <1>1, <1>5, <1>7
  <2>3. \A j \in Keys : ram'[j] <= changes' \/ (j = "host_ip" /\ ram'[j] = Torn)
    <3>1. \A j \in Keys : ram[j] \in Int
      BY <1>4, Values
    <3>2. \A j \in Keys : ram[j] <= changes => ram[j] <= changes'
      BY <1>1, <3>1
    <3>3. changes' <= changes'
      BY <1>1
    <3> QED
      BY <1>4, <3>2, <3>3 DEF Numbers
  <2>4. \A j \in Keys : \/ stored'[j] <= changes' \/ stored'[j] = Absent
                        \/ (j = "host_ip" /\ stored'[j] = Torn)
    <3>1. \A j \in Keys : stored[j] \in Int
      BY Values DEF TypeOK
    <3>2. \A j \in Keys : stored[j] <= changes => stored[j] <= changes'
      BY <1>1, <3>1
    <3> QED
      BY <1>5, <3>2 DEF Numbers
  <2> QED
    BY <2>1, <2>2, <2>3, <2>4 DEF Numbers
(* The value in hand of any key only grows.                                *)
<1>13. \A j \in Keys, v \in Nat : Reached(ram[j], j, v) /\ v <= changes => Reached(ram'[j], j, v)
  BY <1>1, <1>4, Values DEF Reached, Changes
<1>14. InHand'
  <2> SUFFICES ASSUME NEW u \in Editors, op'[u] # <<>>
               PROVE  /\ Reached(ram'[change'[u][1]], change'[u][1], change'[u][2])
                      /\ \/ change'[u][1] \in Left(u)' \/ wiped'
                         \/ Reached(stored'[change'[u][1]], change'[u][1], change'[u][2])
    BY DEF InHand
  <2>1. CASE u # t
    BY <1>2, <1>3, <1>5, <1>8, <1>13, <2>1 DEF InHand
  <2>2. CASE u = t
    <3>1. Reached(ram'[k], k, changes')
      BY <1>1, <1>4, Values DEF Reached, Changes
    <3> QED
      BY <1>2, <1>3, <2>2, <3>1
  <2> QED
    BY <2>1, <2>2
<1>15. AckedHeld' /\ AckedStored'
  BY <1>5, <1>7, <1>13 DEF AckedHeld, AckedStored
<1>16. Agree'
  <2>1. \A u \in Editors : Left(u) \subseteq Left(u)'
    BY <1>2
  <2>2. k \in Left(t)' /\ (k = "rf24_addr" => "apply" \in Left(t)')
    BY <1>2
  <2> QED
    BY <1>4, <1>5, <2>1, <2>2, KeyNames DEF Agree
<1> QED
  BY <1>6, <1>10, <1>11, <1>12, <1>14, <1>15, <1>16 DEF NetInv

LEMMA CommandsKeep ==
  ASSUME NetInv,
         SetIp \/ ShellIp \/ ShellPort \/ SetHost \/ \E t \in Editors : SetRf24(t)
  PROVE  NetInv'
<1>1. /\ changes' = changes + 1 => changes' \in Int
      /\ bad \subseteq Changes /\ changes \in Nat
  BY Values DEF NetInv, TypeOK
<1> DEFINE net == NetKeys \o <<"reply">>
<1>2. /\ "ip_addr" \in ToSet(net) /\ "data_port" \in ToSet(net) /\ "host" \notin ToSet(net)
      /\ "host_ip" \in ToSet(<<"host">> \o NetKeys \o <<"reply">>)
      /\ net # <<"host">> \o NetKeys \o <<"reply">>
  <2>1. net # <<"host">> \o NetKeys \o <<"reply">>
    BY DEF NetKeys
  <2> QED
    BY <2>1, PlanSteps, NetPlans, KeyNames
<1> HIDE DEF net
<1>3. CASE SetIp
  BY <1>1, <1>2, <1>3, CommandKeeps, KeyNames DEF SetIp, Editors, net
<1>4. CASE ShellIp
  <2>1. changes' \in Changes
    BY <1>1, <1>4 DEF ShellIp, Command, Changes
  <2> QED
    BY <1>1, <1>2, <1>4, <2>1, CommandKeeps, KeyNames DEF ShellIp, Editors, net
<1>5. CASE ShellPort
  BY <1>1, <1>2, <1>5, CommandKeeps, KeyNames DEF ShellPort, Editors, net
<1>6. CASE SetHost
  BY <1>1, <1>2, <1>6, CommandKeeps, KeyNames DEF SetHost, Editors, net
<1>7. ASSUME NEW t \in Editors, SetRf24(t) PROVE NetInv'
  <2> DEFINE steps == IF t = "cfg" THEN <<"rf24_addr", "apply", "reply">>
                                   ELSE <<"apply", "rf24_addr", "reply">>
  <2>1. /\ steps \in {<<"rf24_addr", "apply", "reply">>, <<"apply", "rf24_addr", "reply">>}
        /\ {"rf24_addr", "apply"} \subseteq ToSet(steps)
    BY NetPlans
  <2>2. "host" \notin ToSet(steps)
    <3>1. steps # <<"host">> \o NetKeys \o <<"reply">>
      BY DEF NetKeys
    <3> QED
      BY <2>1, <3>1, PlanSteps
  <2>3. Command(t, "rf24_addr", steps) /\ ram' = [ram EXCEPT !["rf24_addr"] = changes'] /\ bad' = bad
    BY <1>7 DEF SetRf24
  <2> HIDE DEF steps
  <2> QED
    BY <1>1, <2>1, <2>2, <2>3, CommandKeeps, KeyNames
<1> QED
  BY <1>3, <1>4, <1>5, <1>6, <1>7

LEMMA StepDone ==
  ASSUME NetInv, NEW t \in Editors, NEW s, Does(t, s)
  PROVE  /\ op' \in [Editors -> Seq(Steps)] /\ Ordered(op'[t]) /\ op[t] # <<>>
         /\ "host" \notin Left(t)' /\ s \in Left(t) /\ s \in Steps
         /\ Left(t) \subseteq {s} \cup Left(t)' /\ Left(t)' \subseteq Left(t)
         /\ s = "reply" => op'[t] = <<>> /\ Left(t) = {"reply"}
         /\ \A u \in Editors : u # t => op'[u] = op[u] /\ Left(u)' = Left(u)
         /\ main \in {"wait", "ready"}
<1>1. op \in [Editors -> Seq(Steps)] /\ op[t] # <<>> /\ s = Head(op[t])
  BY DEF NetInv, TypeOK, Does
<1>2. op' = [op EXCEPT ![t] = Tail(op[t])]
  BY DEF Does
<1>3. op'[t] = Tail(op[t]) /\ \A u \in Editors : u # t => op'[u] = op[u]
  BY <1>1, <1>2
<1>4. Ordered(op[t]) /\ main \in {"wait", "ready"}
  BY <1>1 DEF NetInv, Plans
<1> QED
  BY <1>1, <1>2, <1>3, <1>4, TailSteps DEF Left

LEMMA StepPlans ==
  ASSUME NetInv, NEW t \in Editors, NEW s, Does(t, s), UNCHANGED <<change, acked, main>>
  PROVE  Plans' /\ Domains'
<1>1. Domains'
  BY DEF NetInv, Domains
<1>2. ASSUME NEW u \in Editors
      PROVE  /\ Ordered(op'[u])
             /\ op'[u] # <<>> => main \in {"wait", "ready"}
             /\ "host" \in Left(u)' =>
                  /\ u = "cfg" /\ change[u][1] = "host_ip"
                  /\ "host_ip" \in Left(u)' /\ "host_port" \in Left(u)'
                  /\ acked["host_ip"] <= change[u][2]
  <2>1. CASE u = t
    BY <2>1, StepDone
  <2>2. CASE u # t
    <3>1. op'[u] = op[u] /\ Left(u)' = Left(u)
      BY <2>2, StepDone
    <3> QED
      BY <3>1 DEF NetInv, Plans
  <2> QED
    BY <2>1, <2>2
<1> QED
  BY <1>1, <1>2 DEF Plans

LEMMA HostWrittenKeeps ==
  ASSUME NetInv, NEW t \in Editors, HostWritten(t) PROVE NetInv'
<1> USE DEF NetInv
<1> DEFINE v == change[t][2]
<1>1. /\ Does(t, "host")
      /\ ram' = [ram EXCEPT !["host_ip"] = v, !["host_port"] = v]
      /\ UNCHANGED <<stored, wiped, bad, main, network, radio, dataSock, change, acked, changes,
                     dest, cuts, flaps>>
  BY DEF HostWritten
<1>2. /\ t = "cfg" /\ change[t][1] = "host_ip" /\ acked["host_ip"] <= v
      /\ "host_ip" \in Left(t)' /\ "host_port" \in Left(t)' 
  BY <1>1, StepDone DEF Plans
<1>3. v \in Changes /\ v \in Nat /\ v <= changes /\ v <= MaxChanges
  BY Values DEF TypeOK, Numbers
<1>4. /\ ram'["host_ip"] = v /\ ram'["host_port"] = v
      /\ \A k \in Keys : k \notin {"host_ip", "host_port"} => ram'[k] = ram[k]
      /\ ram' \in [Keys -> Changes \cup {Torn}]
  <2>1. ram \in [Keys -> Changes \cup {Torn}] /\ {"host_ip", "host_port"} \subseteq Keys
    BY KeyNames DEF TypeOK
  <2>2. v \in Changes /\ ram' = [ram EXCEPT !["host_ip"] = v, !["host_port"] = v]
    BY <1>1, <1>3
  <2> HIDE DEF v
  <2> QED
    BY <2>1, <2>2
<1> HIDE DEF v
<1>5. TypeOK'
  <2>1. op' \in [Editors -> Seq(Steps)]
    BY <1>1, StepDone
  <2>2. UNCHANGED <<stored, wiped, bad, main, network, radio, dataSock, change, acked, changes,
                    dest, cuts, flaps>>
    BY <1>1
  <2>3. TypeOK
    OBVIOUS
  <2> QED
    BY <1>4, <2>1, <2>2, <2>3, SMTT(20) DEF TypeOK, network
<1>6. Plans' /\ Domains'
  BY <1>1, StepPlans
<1>7. Numbers'
  BY <1>1, <1>3, <1>4 DEF Numbers
<1>8. InHand'
  <2> SUFFICES ASSUME NEW u \in Editors, op'[u] # <<>>
               PROVE  /\ Reached(ram'[change'[u][1]], change'[u][1], change'[u][2])
                      /\ \/ change'[u][1] \in Left(u)' \/ wiped'
                         \/ Reached(stored'[change'[u][1]], change'[u][1], change'[u][2])
    BY DEF InHand
  <2>1. op[u] # <<>> /\ change[u][1] \in Keys
    BY StepDone, <1>1 DEF TypeOK
  <2>2. /\ Reached(ram[change[u][1]], change[u][1], change[u][2])
        /\ \/ change[u][1] \in Left(u) \/ wiped
           \/ Reached(stored[change[u][1]], change[u][1], change[u][2])
    BY <2>1 DEF InHand
  <2>3. CASE u = t
    <3>1. change[u][1] # "host" /\ change[u][1] \in Left(u) => change[u][1] \in Left(u)'
      BY <1>1, <2>3, StepDone
    <3>2. Reached(v, "host_ip", v)
      BY <1>3 DEF Reached
    <3> QED
      BY <1>1, <1>2, <1>4, <2>2, <2>3, <3>1, <3>2 DEF v
  <2>4. CASE u # t
    <3>1. u = "shell" /\ change[u][1] \notin {"host_ip", "host_port"}
      BY <1>2, <2>4 DEF Editors, Domains
    <3> QED
      BY <1>1, <1>4, <2>1, <2>2, <2>4, <3>1, StepDone
  <2> QED
    BY <2>3, <2>4
<1>9. AckedHeld' /\ AckedStored'
  BY <1>1, <1>2, <1>3, <1>4 DEF AckedHeld, AckedStored, Domains, Reached
<1>10. Agree'
  <2>1. /\ main' = main /\ wiped' = wiped /\ stored' = stored /\ radio' = radio
        /\ ram'["rf24_addr"] = ram["rf24_addr"]
    BY <1>1, <1>4, KeyNames DEF network
  <2>2. /\ \A k \in Keys : \A u \in Editors : k \in Left(u) => k \in Left(u)'
        /\ \A u \in Editors : "apply" \in Left(u) => "apply" \in Left(u)'
    BY <1>1, StepDone, KeyNames
  <2> QED
    BY <1>2, <1>4, <2>1, <2>2 DEF Agree
<1> QED
  BY <1>5, <1>6, <1>7, <1>8, <1>9, <1>10

LEMMA SaveKeyKeeps ==
  ASSUME NetInv, NEW t \in Editors, NEW k \in Keys, SaveKey(t, k) PROVE NetInv'
<1> USE DEF NetInv
<1>1. /\ Does(t, k)
      /\ UNCHANGED <<ram, wiped, bad, main, network, radio, dataSock, change, acked, changes,
                     dest, cuts, flaps>>
      /\ stored' = [stored EXCEPT ![k] = ram[k]] \/ (wiped /\ stored' = stored)
  BY DEF SaveKey
<1>2. /\ ~wiped => stored'[k] = ram[k]
      /\ stored'[k] = ram[k] \/ stored'[k] = stored[k]
      /\ \A j \in Keys : j # k => stored'[j] = stored[j]
      /\ stored' \in [Keys -> Changes \cup {Absent, Torn}]
  <2>1. /\ stored \in [Keys -> Changes \cup {Absent, Torn}]
        /\ ram[k] \in Changes \cup {Absent, Torn}
    BY DEF TypeOK
  <2>2. CASE stored' = [stored EXCEPT ![k] = ram[k]]
    BY <2>1, <2>2
  <2>3. CASE wiped /\ stored' = stored
    BY <2>1, <2>3
  <2> QED
    BY <1>1, <2>2, <2>3
<1>3. k # "reply" /\ k # "host" /\ k # "apply"
  BY KeyNames
<1>4. main # "load"
  BY <1>1, StepDone
<1>5. TypeOK'
  BY <1>1, <1>2, StepDone, SMTT(20) DEF TypeOK, network
<1>6. Plans' /\ Domains'
  BY <1>1, StepPlans
<1>7. Numbers'
  BY <1>1, <1>2 DEF Numbers
<1>8. InHand'
  <2> SUFFICES ASSUME NEW u \in Editors, op'[u] # <<>>
               PROVE  /\ Reached(ram'[change'[u][1]], change'[u][1], change'[u][2])
                      /\ \/ change'[u][1] \in Left(u)' \/ wiped'
                         \/ Reached(stored'[change'[u][1]], change'[u][1], change'[u][2])
    BY DEF InHand
  <2>1. op[u] # <<>> /\ change[u][1] \in Keys
    BY StepDone, <1>1 DEF TypeOK
  <2>2. /\ Reached(ram[change[u][1]], change[u][1], change[u][2])
        /\ \/ change[u][1] \in Left(u) \/ wiped
           \/ Reached(stored[change[u][1]], change[u][1], change[u][2])
    BY <2>1 DEF InHand
  <2>3. CASE u = t
    <3>1. \/ change[u][1] = k
          \/ change[u][1] \in Left(u) => change[u][1] \in Left(u)'
      BY <1>1, <2>3, StepDone
    <3> QED
      BY <1>1, <1>2, <2>1, <2>2, <2>3, <3>1
  <2>4. CASE u # t
    BY <1>1, <1>2, <2>1, <2>2, <2>4, StepDone
  <2> QED
    BY <2>3, <2>4
<1>9. AckedHeld' /\ AckedStored'
  BY <1>1, <1>2, <1>4 DEF AckedHeld, AckedStored
<1>10. Agree'
  BY <1>1, <1>2, <1>3, StepDone DEF Agree
<1> QED
  BY <1>5, <1>6, <1>7, <1>8, <1>9, <1>10

LEMMA ApplyRf24Keeps ==
  ASSUME NetInv, NEW t \in Editors, ApplyRf24(t) PROVE NetInv'
<1> USE DEF NetInv
<1>1. /\ Does(t, "apply") /\ radio' = ram["rf24_addr"]
      /\ UNCHANGED <<config, main, network, dataSock, change, acked, changes, dest, cuts, flaps>>
  BY DEF ApplyRf24
<1>2. ram["rf24_addr"] \in Changes
  BY KeyNames DEF TypeOK, Numbers, Torn, Changes
<1>3. TypeOK'
  BY <1>1, <1>2, StepDone DEF TypeOK, network, config
<1>4. Plans' /\ Domains' /\ Numbers'
  BY <1>1, StepPlans DEF Numbers, config
<1>5. InHand'
  <2> SUFFICES ASSUME NEW u \in Editors, op'[u] # <<>>
               PROVE  /\ Reached(ram'[change'[u][1]], change'[u][1], change'[u][2])
                      /\ \/ change'[u][1] \in Left(u)' \/ wiped'
                         \/ Reached(stored'[change'[u][1]], change'[u][1], change'[u][2])
    BY DEF InHand
  <2>1. op[u] # <<>> /\ change[u][1] \in Keys
    BY StepDone, <1>1 DEF TypeOK
  <2>2. /\ Reached(ram[change[u][1]], change[u][1], change[u][2])
        /\ \/ change[u][1] \in Left(u) \/ wiped
           \/ Reached(stored[change[u][1]], change[u][1], change[u][2])
    BY <2>1 DEF InHand
  <2>3. change[u][1] \in Left(u) => change[u][1] \in Left(u)'
    BY <1>1, <2>1, StepDone, KeyNames
  <2> QED
    BY <1>1, <2>2, <2>3 DEF config
<1>6. AckedHeld' /\ AckedStored'
  BY <1>1 DEF AckedHeld, AckedStored, config
<1>9. Agree'
  <2>1. \A k \in Keys, u \in Editors : k \in Left(u) => k \in Left(u)'
    BY <1>1, StepDone, KeyNames
  <2> QED
    BY <1>1, <2>1 DEF Agree, config
<1> QED
  BY <1>3, <1>4, <1>5, <1>6, <1>9

LEMMA ReportDoneKeeps ==
  ASSUME NetInv, NEW t \in Editors, ReportDone(t) PROVE NetInv'
<1> USE DEF NetInv
<1> DEFINE k == change[t][1]
           v == change[t][2]
<1>1. /\ Does(t, "reply")
      /\ acked' = IF v > acked[k] THEN [acked EXCEPT ![k] = v] ELSE acked
      /\ UNCHANGED <<config, main, network, radio, dataSock, change, changes, dest, cuts, flaps>>
  BY DEF ReportDone
<1>2. k \in Keys /\ v \in Changes /\ v <= changes /\ k # "host_port"
  BY DEF TypeOK, Numbers, Domains
<1>3. /\ op[t] # <<>> /\ k \notin Left(t) /\ main # "load"
  BY <1>1, <1>2, StepDone, KeyNames
<1>4. /\ Reached(ram[k], k, v)
      /\ wiped \/ Reached(stored[k], k, v)
  BY <1>3 DEF InHand
<1> HIDE DEF v, k
<1>5. /\ acked' \in [Keys -> Changes]
      /\ acked'[k] = v \/ acked'[k] = acked[k]
      /\ \A j \in Keys : j # k => acked'[j] = acked[j]
  BY <1>1, <1>2 DEF TypeOK
<1>6. TypeOK'
  BY <1>1, <1>5, StepDone DEF TypeOK, network, config
<1>7. Plans'
  <2> SUFFICES ASSUME NEW u \in Editors
               PROVE  /\ Ordered(op'[u])
                      /\ op'[u] # <<>> => main' \in {"wait", "ready"}
                      /\ "host" \in Left(u)' =>
                           /\ u = "cfg" /\ change'[u][1] = "host_ip"
                           /\ "host_ip" \in Left(u)' /\ "host_port" \in Left(u)'
                           /\ acked'["host_ip"] <= change'[u][2]
    BY DEF Plans
  <2>1. CASE u = t
    BY <1>1, <2>1, StepDone
  <2>2. CASE u # t
    <3>1. op'[u] = op[u] /\ Left(u)' = Left(u) /\ main' = main /\ change' = change
      BY <1>1, <2>2, StepDone
    <3>2. ASSUME u = "cfg" PROVE acked'["host_ip"] = acked["host_ip"]
      BY <1>5, <2>2, <3>2, KeyNames DEF Domains, Editors, k
    <3> QED
      BY <3>1, <3>2 DEF Plans
  <2> QED
    BY <2>1, <2>2
<1>8. Domains' /\ Numbers'
  BY <1>1, <1>2, <1>5, KeyNames DEF Domains, Numbers, config
<1>9. InHand'
  BY <1>1, StepDone DEF InHand, config
<1>10. AckedHeld' /\ AckedStored'
  BY <1>1, <1>4, <1>5 DEF AckedHeld, AckedStored, config
<1>11. Agree'
  <2>1. \A j \in Keys \cup {"apply"}, u \in Editors : j \in Left(u) => j \in Left(u)'
    BY <1>1, StepDone, KeyNames
  <2>2. UNCHANGED <<config, main, radio>> /\ Agree
    BY <1>1
  <2>3. "rf24_addr" \in Keys
    BY KeyNames
  <2> QED
    BY <2>1, <2>2, <2>3 DEF Agree, config
<1> QED
  BY <1>6, <1>7, <1>8, <1>9, <1>10, <1>11

LEMMA LoadKeeps == ASSUME NetInv, gw_config_load PROVE NetInv'
<1> USE DEF NetInv
<1>1. /\ main = "load" /\ main' = "rf24"
      /\ ram' = [k \in Keys |-> IF stored[k] = Absent THEN 0 ELSE stored[k]]
      /\ UNCHANGED <<stored, wiped, bad, network, radio, dataSock, command, dest, cuts, flaps>>
  BY DEF gw_config_load
<1>2. \A t \in Editors : op[t] = <<>> /\ op'[t] = <<>> /\ Left(t) = {} /\ Left(t)' = {}
  BY <1>1, NothingLeft DEF Plans, Left, command
<1>3. ~wiped
  BY <1>1 DEF Agree
<1>4. stored \in [Keys -> Changes \cup {Absent, Torn}] /\ 0 \in Changes /\ changes \in Nat
  BY Values DEF TypeOK, Changes
<1>5. \A k \in Keys : ram'[k] = IF stored[k] = Absent THEN 0 ELSE stored[k]
  BY <1>1
<1>6. TypeOK'
  <2>1. ram' \in [Keys -> Changes \cup {Torn}]
    BY <1>1, <1>4
  <2> QED
    BY <1>1, <2>1 DEF TypeOK, network, command
<1>7. Plans' /\ Domains' /\ InHand'
  BY <1>1, <1>2 DEF Plans, Domains, InHand, Ordered, command
<1>8. Numbers'
  <2>1. \A k \in Keys : ram'[k] <= changes \/ (k = "host_ip" /\ ram'[k] = Torn)
    BY <1>4, <1>5 DEF Numbers
  <2> QED
    BY <1>1, <2>1 DEF Numbers, command
<1>9. AckedHeld' /\ AckedStored'
  <2>1. \A k \in Keys : Reached(stored[k], k, acked[k]) => stored[k] # Absent
    BY DEF TypeOK, Reached, Absent, Torn, Changes
  <2>2. \A k \in Keys : acked[k] > 0 => Reached(stored[k], k, acked[k])
    BY <1>3 DEF AckedStored
  <2> QED
    BY <1>1, <1>5, <2>1, <2>2 DEF AckedHeld, AckedStored, command
<1>10. Agree'
  BY <1>1, <1>5 DEF Agree
<1> QED
  BY <1>6, <1>7, <1>8, <1>9, <1>10

LEMMA RadioInitKeeps == ASSUME NetInv, gw_rf24_init PROVE NetInv'
<1> USE DEF NetInv
<1>1. /\ main = "rf24" /\ main' = "net" /\ radio' = ram["rf24_addr"]
      /\ UNCHANGED <<config, network, dataSock, command, dest, cuts, flaps>>
  BY DEF gw_rf24_init
<1>2. \A t \in Editors : op[t] = <<>> /\ op'[t] = <<>> /\ Left(t) = {} /\ Left(t)' = {}
  BY <1>1, NothingLeft DEF Plans, Left, command
<1>3. ram["rf24_addr"] \in Changes
  BY KeyNames DEF TypeOK, Numbers, Torn, Changes
<1>4. TypeOK'
  BY <1>1, <1>3 DEF TypeOK, config, network, command
<1>5. Plans' /\ Domains' /\ InHand' /\ Numbers'
  BY <1>1, <1>2 DEF Plans, Domains, InHand, Numbers, Ordered, command, config
<1>6. AckedHeld' /\ AckedStored' /\ Agree'
  BY <1>1, <1>2 DEF AckedHeld, AckedStored, Agree, command, config
<1> QED
  BY <1>4, <1>5, <1>6

(* main's last steps, the cable and the forwarding leave the configuration *)
(* and the commands alone.                                                 *)
LEMMA ElsewhereKeeps ==
  ASSUME NetInv,
         net_init \/ MainReady \/ Flap \/ net_if_event_handler \/ BindDataPort \/ gw_udp_send
  PROVE  NetInv'
<1> USE DEF NetInv
<1>1. /\ UNCHANGED <<config, radio, command, cuts>>
      /\ main' = main \/ (main \in {"net", "wait"} /\ main' \in {"wait", "ready"})
  BY DEF net_init, MainReady, Flap, net_if_event_handler, BindDataPort, gw_udp_send
<1>2. TypeOK'
  <2> USE DEF TypeOK, config, command
  <2>1. \A b \in BOOLEAN : Append(events, b) \in Seq(BOOLEAN)
    OBVIOUS
  <2>2. CASE net_init
    <3>1. events' \in Seq(BOOLEAN)
      BY <2>1, <2>2 DEF net_init
    <3>2. ram["ip_addr"] # Torn
      BY KeyNames DEF Numbers, Torn, Changes
    <3>3. live' \in Changes \cup {None} /\ adminUp' \in BOOLEAN
      BY <2>2, <3>2, KeyNames DEF net_init
    <3> QED
      BY <1>1, <2>2, <3>1, <3>3 DEF net_init
  <2>3. CASE MainReady
    BY <1>1, <2>3 DEF MainReady
  <2>4. CASE Flap
    <3>1. carrier' \in BOOLEAN
      BY <2>4 DEF Flap
    <3>2. events' \in Seq(BOOLEAN)
      BY <2>1, <2>4, <3>1 DEF Flap
    <3>3. flaps' \in 0 .. MaxFlaps
      BY <2>4 DEF Flap
    <3> QED
      BY <1>1, <2>4, <3>1, <3>2, <3>3 DEF Flap
  <2>5. CASE net_if_event_handler
    <3>1. Head(events) \in BOOLEAN /\ Tail(events) \in Seq(BOOLEAN)
      BY <2>5, HeadTailProperties DEF net_if_event_handler
    <3>2. /\ sem' = 1 \/ sem' = sem
          /\ events' = Tail(events) /\ link' = Head(events)
          /\ UNCHANGED <<main, adminUp, live, carrier, dataSock, dest, flaps>>
      BY <2>5 DEF net_if_event_handler
    <3>3. sem' \in 0 .. 1
      BY <3>2
    <3> QED
      BY <1>1, <3>1, <3>2, <3>3
  <2>6. CASE BindDataPort
    <3>1. ram["data_port"] \in Changes
      BY KeyNames DEF Numbers, Torn, Changes
    <3> QED
      BY <1>1, <2>6, <3>1 DEF BindDataPort, network
  <2>7. CASE gw_udp_send
    <3>1. ram["host_port"] \in Changes
      BY KeyNames DEF Numbers, Torn, Changes
    <3>2. ram["host_ip"] \in Changes \cup {Torn, None}
      BY KeyNames
    <3>3. dest' \in (Changes \cup {Torn, None}) \X (Changes \cup {None})
      BY <2>7, <3>1, <3>2 DEF gw_udp_send
    <3> QED
      BY <1>1, <2>7, <3>3 DEF gw_udp_send, network
  <2> QED
    BY <2>2, <2>3, <2>4, <2>5, <2>6, <2>7
<1>3. \A t \in Editors : op'[t] = op[t] /\ Left(t)' = Left(t)
  BY <1>1 DEF Left, command
<1>4. Plans' /\ Domains' /\ InHand' /\ Numbers'
  BY <1>1, <1>3 DEF Plans, Domains, InHand, Numbers, command, config
<1>5. AckedHeld' /\ AckedStored' /\ Agree'
  BY <1>1, <1>3 DEF AckedHeld, AckedStored, Agree, command, config
<1> QED
  BY <1>2, <1>4, <1>5

LEMMA ResetKeeps == ASSUME NetInv, Reset PROVE NetInv'
<1> USE DEF NetInv
<1>1. /\ main = "ready" /\ changes < MaxChanges
      /\ stored' = [k \in Keys |-> Absent] /\ wiped' = TRUE /\ changes' = changes + 1
      /\ UNCHANGED <<ram, bad, main, network, radio, dataSock, op, change, acked, dest, cuts, flaps>>
  BY DEF Reset
<1>2. /\ changes \in Nat /\ changes' \in Changes
      /\ \A y \in Int : y <= changes => y <= changes'
  <2>1. changes \in Nat
    BY DEF TypeOK, Changes
  <2> QED
    BY <1>1, <2>1 DEF Changes
<1>3. TypeOK'
  BY <1>1, <1>2 DEF TypeOK, network
<1>4. \A t \in Editors : op'[t] = op[t] /\ Left(t)' = Left(t)
  BY <1>1 DEF Left
<1>5. Plans' /\ Domains' /\ InHand'
  BY <1>1, <1>4 DEF Plans, Domains, InHand
<1>6. Numbers'
  <2>1. \A k \in Keys : acked[k] \in Int /\ ram[k] \in Int
    BY Values DEF TypeOK
  <2>2. \A t \in Editors : change[t][2] \in Int
    BY Values DEF TypeOK
  <2> QED
    BY <1>1, <1>2, <2>1, <2>2 DEF Numbers
<1>7. AckedHeld' /\ AckedStored' /\ Agree'
  BY <1>1, <1>4 DEF AckedHeld, AckedStored, Agree
<1> QED
  BY <1>3, <1>5, <1>6, <1>7

LEMMA PowerCutKeeps == ASSUME NetInv, PowerCut PROVE NetInv'
<1> USE DEF NetInv
<1>1. /\ cuts < MaxCuts /\ cuts' = cuts + 1
      /\ acked' = IF wiped THEN [k \in Keys |-> 0] ELSE acked
      /\ UNCHANGED <<stored, bad, carrier, change, changes, flaps>>
      /\ ram' = [k \in Keys |-> 0] /\ wiped' = FALSE
      /\ main' = "load" /\ adminUp' = FALSE /\ live' = None
      /\ events' = <<>> /\ link' = FALSE /\ sem' = 0
      /\ radio' = None /\ dataSock' = None
      /\ op' = [t \in Editors |-> <<>>]
      /\ dest' = <<None, None>>
  BY DEF PowerCut, PoweredUp
<1>2. 0 \in Changes /\ changes \in Nat
  BY DEF TypeOK, Changes
<1>3. acked' \in [Keys -> Changes] /\ \A k \in Keys : acked'[k] = 0 \/ (~wiped /\ acked'[k] = acked[k])
  BY <1>1, <1>2 DEF TypeOK
<1>4. TypeOK'
  <2>1. op' \in [Editors -> Seq(Steps)] /\ events' \in Seq(BOOLEAN)
    BY <1>1
  <2>2. ram' \in [Keys -> Changes \cup {Torn}]
    BY <1>1, <1>2
  <2>3. cuts' \in 0 .. MaxCuts /\ sem' \in 0 .. 1
    BY <1>1 DEF TypeOK
  <2>4. dest' \in (Changes \cup {Torn, None}) \X (Changes \cup {None})
    BY <1>1
  <2> QED
    BY <1>1, <1>3, <2>1, <2>2, <2>3, <2>4 DEF TypeOK
<1>5. \A t \in Editors : op'[t] = <<>> /\ Left(t)' = {}
  BY <1>1, NothingLeft DEF Left
<1>6. Plans' /\ InHand'
  BY <1>5 DEF Plans, InHand, Ordered
<1>7. Domains'
  BY <1>1, <1>3, KeyNames DEF Domains
<1>8. Numbers'
  BY <1>1, <1>2, <1>3 DEF Numbers
<1>9. AckedHeld' /\ AckedStored' /\ Agree'
  BY <1>1, <1>3 DEF AckedHeld, AckedStored, Agree
<1> QED
  BY <1>4, <1>6, <1>7, <1>8, <1>9

LEMMA NextKeeps == ASSUME NetInv, [Next]_vars PROVE NetInv'
<1>1. CASE gw_config_load \/ gw_rf24_init
  BY <1>1, LoadKeeps, RadioInitKeeps
<1>2. CASE net_init \/ MainReady \/ Flap \/ net_if_event_handler \/ BindDataPort \/ gw_udp_send
  BY <1>2, ElsewhereKeeps
<1>3. CASE SetIp \/ ShellIp \/ ShellPort \/ SetHost \/ \E t \in Editors : SetRf24(t)
  BY <1>3, CommandsKeep
<1>4. CASE Reset \/ PowerCut
  BY <1>4, ResetKeeps, PowerCutKeeps
<1>5. CASE \E t \in Editors : Working(t)
  BY <1>5, HostWrittenKeeps, ApplyRf24Keeps, ReportDoneKeeps, SaveKeyKeeps DEF Working
<1>6. CASE UNCHANGED vars
  <2> USE <1>6 DEF vars, config, network, command
  <2>1. TypeOK' /\ Domains' /\ Numbers'
    BY DEF NetInv, TypeOK, Domains, Numbers
  <2>2. \A t \in Editors : op'[t] = op[t] /\ Left(t)' = Left(t)
    BY DEF Left
  <2>3. Plans' /\ InHand' /\ AckedHeld' /\ AckedStored' /\ Agree'
    BY <2>2 DEF NetInv, Plans, InHand, AckedHeld, AckedStored, Agree
  <2> QED
    BY <2>1, <2>3 DEF NetInv
<1> QED
  BY <1>1, <1>2, <1>3, <1>4, <1>5, <1>6 DEF Next, Main

(* The invariant, which the theorems below only read off: every command is *)
(* followed from its first assignment to its report.                       *)
THEOREM NetInvariant == Spec => []NetInv
<1> QED
  BY InitHolds, NextKeeps, PTL DEF Spec

(* Every field, every settings record and every waiting step is of its     *)
(* kind; only host_ip is ever found half rewritten.                        *)
THEOREM TypeCorrect == Spec => []TypeOK
<1>1. NetInv => TypeOK
  BY DEF NetInv
<1> QED
  BY <1>1, NetInvariant, PTL

(* What a command reported as done survives a power cut: whatever the      *)
(* number of commands and cuts, and however the saves of the configuration *)
(* thread and of the shell interleave key by key (persist.c).              *)
THEOREM ReportedSurvives == Spec => []AckedDurable
<1>1. NetInv => AckedDurable
  BY DEF NetInv, AckedStored, AckedDurable, Reached
<1> QED
  BY <1>1, NetInvariant, PTL

(* Once no command is under way, gw_params, the settings and the radio     *)
(* hold the same values.                                                   *)
THEOREM RestAgrees == Spec => []SettledAgrees
<1>1. ASSUME NetInv PROVE SettledAgrees
  <2> SUFFICES ASSUME main = "ready", ~wiped, \A t \in Editors : op[t] = <<>>
               PROVE  /\ radio = ram["rf24_addr"]
                      /\ \A k \in Keys : stored[k] \in {ram[k], Absent}
    BY DEF SettledAgrees
  <2>1. \A t \in Editors : Left(t) = {}
    BY NothingLeft DEF Left
  <2> QED
    BY <1>1, <2>1 DEF NetInv, Agree
<1> QED
  BY <1>1, NetInvariant, PTL

-----------------------------------------------------------------------------
(* The link.  An interface that is up has told of the cable as it is: in   *)
(* the last of the pending events, or already in gw_net_link_up.  Before   *)
(* main has brought it up, there is neither an event nor a link.           *)
EventsTell ==
  /\ main \in {"load", "rf24", "net"} => ~adminUp
  /\ ~adminUp => events = <<>> /\ ~link
  /\ adminUp /\ events = <<>> => link = carrier
  /\ adminUp /\ events # <<>> => events[Len(events)] = carrier

LEMMA LastAppended ==
  ASSUME NEW s \in Seq(BOOLEAN), NEW b \in BOOLEAN
  PROVE  Append(s, b) # <<>> /\ Append(s, b)[Len(Append(s, b))] = b
  BY AppendProperties

LEMMA LastStays ==
  ASSUME NEW s \in Seq(BOOLEAN), s # <<>>
  PROVE  /\ Tail(s) = <<>> => Head(s) = s[Len(s)]
         /\ Tail(s) # <<>> => Tail(s)[Len(Tail(s))] = s[Len(s)]
<1>1. /\ Len(s) \in Nat \ {0} /\ Head(s) = s[1]
      /\ Tail(s) \in Seq(BOOLEAN) /\ Len(Tail(s)) = Len(s) - 1
  OBVIOUS
<1>4. \A i \in 1 .. Len(s) - 1 : Tail(s)[i] = s[i + 1]
  BY <1>1, HeadTailProperties
<1>2. CASE Tail(s) = <<>>
  <2>1. Len(<<>>) = 0
    OBVIOUS
  <2>2. Len(Tail(s)) = 0
    BY <1>2, <2>1, Zenon
  <2>3. Len(s) \in Nat /\ Len(s) - 1 = 0
    BY <1>1, <2>2, Zenon
  <2>4. Len(s) = 1
    BY <2>3
  <2> QED
    BY <1>1, <1>2, <2>4
<1>3. CASE Tail(s) # <<>>
  <2>1. Len(s) - 1 \in 1 .. Len(s) - 1
    BY <1>1, <1>3
  <2> QED
    BY <1>1, <1>4, <2>1
<1> QED
  BY <1>2, <1>3

LEMMA EventsTold == TypeOK /\ EventsTell /\ [Next]_vars => EventsTell'
<1> SUFFICES ASSUME TypeOK, EventsTell, [Next]_vars PROVE EventsTell'
  OBVIOUS
<1>0. events \in Seq(BOOLEAN) /\ carrier \in BOOLEAN /\ link \in BOOLEAN
  BY DEF TypeOK
<1>1. CASE /\ UNCHANGED <<adminUp, carrier, events, link>>
           /\ main' = main \/ main' \notin {"load", "rf24", "net"} \/ main \in {"load", "rf24"}
  BY <1>1 DEF EventsTell
<1>2. CASE gw_config_load \/ gw_rf24_init \/ MainReady
  BY <1>1, <1>2 DEF gw_config_load, gw_rf24_init, MainReady, network
<1>3. CASE net_init
  <2>1. events = <<>> /\ ~adminUp /\ ~link
    BY <1>3 DEF net_init, EventsTell
  <2>2. main' = "wait" /\ UNCHANGED <<carrier, link>>
    BY <1>3 DEF net_init
  <2>3. CASE UNCHANGED <<adminUp, live, events>>
    BY <2>1, <2>2, <2>3 DEF EventsTell
  <2>4. CASE adminUp' = TRUE /\ events' = IF carrier THEN Append(events, TRUE) ELSE events
    <3>1. CASE carrier
      BY <1>0, <2>2, <2>4, <3>1, LastAppended DEF EventsTell
    <3>2. CASE ~carrier
      BY <1>0, <2>1, <2>2, <2>4, <3>2 DEF EventsTell
    <3> QED
      BY <3>1, <3>2
  <2> QED
    BY <1>3, <2>3, <2>4 DEF net_init
<1>4. CASE Flap
  <2>1. /\ carrier' \in BOOLEAN /\ main' = main /\ adminUp' = adminUp /\ link' = link
        /\ events' = IF adminUp THEN Append(events, carrier') ELSE events
    BY <1>0, <1>4 DEF Flap
  <2>2. CASE adminUp
    BY <1>0, <2>1, <2>2, LastAppended DEF EventsTell
  <2>3. CASE ~adminUp
    BY <2>1, <2>3 DEF EventsTell
  <2> QED
    BY <2>2, <2>3
<1>5. CASE net_if_event_handler
  <2>1. /\ events # <<>> /\ events' = Tail(events) /\ link' = Head(events)
        /\ UNCHANGED <<main, adminUp, carrier>>
    BY <1>5 DEF net_if_event_handler
  <2>2. adminUp /\ events[Len(events)] = carrier
    BY <2>1 DEF EventsTell
  <2> QED
    BY <1>0, <2>1, <2>2, LastStays DEF EventsTell
<1>6. CASE BindDataPort \/ gw_udp_send
  BY <1>1, <1>6 DEF BindDataPort, gw_udp_send, network
<1>7. CASE SetIp \/ ShellIp \/ ShellPort \/ SetHost \/ \E t \in Editors : SetRf24(t)
  BY <1>1, <1>7 DEF SetIp, ShellIp, ShellPort, SetHost, SetRf24, Command, network
<1>8. CASE Reset
  BY <1>1, <1>8 DEF Reset, network
<1>9. CASE PowerCut
  BY <1>9 DEF PowerCut, PoweredUp, EventsTell
<1>10. CASE \E t \in Editors : Working(t)
  <2>1. PICK t \in Editors : Working(t)
    BY <1>10
  <2>2. UNCHANGED <<main, network>>
    BY <2>1 DEF Working, HostWritten, ApplyRf24, ReportDone, SaveKey
  <2> QED
    BY <1>1, <2>2 DEF network
<1>11. CASE UNCHANGED vars
  BY <1>1, <1>11 DEF vars, network
<1> QED
  BY <1>2, <1>3, <1>4, <1>5, <1>6, <1>7, <1>8, <1>9, <1>10, <1>11 DEF Next, Main

(* gw_net_link_up can be wrong only while an event is pending, whatever    *)
(* the cable does before, while and after the interface is brought up, and *)
(* however often the power fails.                                          *)
THEOREM LinkIsKnown == Spec => []LinkKnown
<1>1. Init => EventsTell
  BY DEF Init, EventsTell
<1>2. EventsTell => LinkKnown
  BY DEF EventsTell, LinkKnown
<1> QED
  BY <1>1, <1>2, EventsTold, TypeCorrect, PTL DEF Spec
=============================================================================
