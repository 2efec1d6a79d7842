----------------------------- MODULE GatewayNet -----------------------------
(***************************************************************************)
(* applications/gateway: the configuration of the gateway (config.c,       *)
(* persist.c), the commands that change it (udp.c on the configuration     *)
(* port, net_shell.c and rf24_shell.c on the console), the boot order of   *)
(* main.c and the link events, and the forwarding of radio frames.         *)
(*                                                                         *)
(* Configurations are numbered by the command that made them, 0 being the  *)
(* defaults.  gw_params has no lock: the configuration thread and the      *)
(* shell change it and save it key by key, each key being read when its    *)
(* turn comes.  The power may fail between any two steps; a record of the  *)
(* settings is written whole or not at all.                                *)
(***************************************************************************)
EXTENDS Naturals, Sequences, SequencesExt

CONSTANTS
  MaxChanges,  \* bound: commands that change the configuration
  MaxCuts,     \* bound: power cuts
  MaxFlaps     \* bound: changes of the carrier

ASSUME NetAssumption == {MaxChanges, MaxCuts, MaxFlaps} \subseteq Nat

VARIABLES
  ram,      \* gw_params: number of the command each field comes from
  stored,   \* the settings, Absent where a key was never saved
  wiped,    \* the settings partition was erased under the running system
  bad,      \* commands that gave an address inet_pton does not parse
  main, adminUp, live,  \* where main is; the interface and its address
  carrier, events, link,  \* the cable, pending link events, gw_net_link_up
  sem,      \* net_link_sem
  radio,    \* the address the radio is configured with
  dataSock, \* the data port's thread: its port, or where it stands
  op,       \* per thread: the steps of its command still to do
  change,   \* per thread: the key and number of the command it executes
  acked,    \* history, per key: the last command reported as done
  dest,     \* where the last radio frame was forwarded to
  changes, cuts, flaps

config  == <<ram, stored, wiped, bad>>
network == <<adminUp, live, carrier, events, link, sem>>
command == <<op, change, acked, changes>>
vars == <<config, main, network, radio, dataSock, command, dest, cuts, flaps>>

NetKeys == <<"ip_addr", "data_port", "use_dhcp", "host_ip", "host_port">>
Keys    == ToSet(NetKeys) \cup {"rf24_addr"}
Changes == 0 .. MaxChanges
Absent  == MaxChanges + 1
Torn    == MaxChanges + 2   \* a string being rewritten
None    == MaxChanges + 3
Editors == {"cfg", "shell"}

Steps == Keys \cup {"host", "apply", "reply"}

TypeOK ==
  /\ ram \in [Keys -> Changes \cup {Torn}]
  /\ stored \in [Keys -> Changes \cup {Absent, Torn}]
  /\ wiped \in BOOLEAN /\ bad \subseteq Changes
  /\ main \in {"load", "rf24", "net", "wait", "ready"}
  /\ adminUp \in BOOLEAN /\ live \in Changes \cup {None}
  /\ carrier \in BOOLEAN /\ events \in Seq(BOOLEAN) /\ link \in BOOLEAN
  /\ sem \in 0 .. 1
  /\ radio \in Changes \cup {None}
  /\ dataSock \in Changes \cup {None}
  /\ op \in [Editors -> Seq(Steps)] /\ change \in [Editors -> Keys \X Changes]
  /\ acked \in [Keys -> Changes]
  /\ dest \in (Changes \cup {Torn, None}) \X (Changes \cup {None})
  /\ changes \in Changes /\ cuts \in 0 .. MaxCuts /\ flaps \in 0 .. MaxFlaps

(* Everything but the settings, the cable and what has been promised is    *)
(* lost with the power.                                                    *)
PoweredUp ==
  /\ ram' = [k \in Keys |-> 0] /\ wiped' = FALSE
  /\ main' = "load" /\ adminUp' = FALSE /\ live' = None
  /\ events' = <<>> /\ link' = FALSE /\ sem' = 0
  /\ radio' = None /\ dataSock' = None
  /\ op' = [t \in Editors |-> <<>>]
  /\ dest' = <<None, None>>

Init ==
  /\ ram = [k \in Keys |-> 0] /\ stored = [k \in Keys |-> Absent]
  /\ wiped = FALSE /\ bad = {}
  /\ main = "load" /\ adminUp = FALSE /\ live = None
  /\ carrier \in BOOLEAN /\ events = <<>> /\ link = FALSE /\ sem = 0
  /\ radio = None /\ dataSock = None
  /\ op = [t \in Editors |-> <<>>] /\ change = [t \in Editors |-> <<"ip_addr", 0>>]
  /\ acked = [k \in Keys |-> 0]
  /\ dest = <<None, None>>
  /\ changes = 0 /\ cuts = 0 /\ flaps = 0

-----------------------------------------------------------------------------
(* main.  It runs at the highest priority until it first waits, in         *)
(* gw_rf24_init: no other thread moves before the settings are loaded.     *)

(* The defaults, then gw_config_load: settings_load hands every stored     *)
(* record to gw_persist_set.                                               *)
gw_config_load ==
  /\ main = "load" /\ main' = "rf24"
  /\ ram' = [k \in Keys |-> IF stored[k] = Absent THEN 0 ELSE stored[k]]
  /\ UNCHANGED <<stored, wiped, bad, network, radio, dataSock, command, dest, cuts, flaps>>

gw_rf24_init ==
  /\ main = "rf24" /\ main' = "net"
  /\ radio' = ram["rf24_addr"]
  /\ UNCHANGED <<config, network, dataSock, command, dest, cuts, flaps>>

Parses(v) == v # Torn /\ v \notin bad

(* net_init, with a static address: it gives up on one that does not       *)
(* parse, and main goes on without a network.  Bringing the interface up   *)
(* with a carrier raises NET_EVENT_IF_UP.                                  *)
net_init ==
  /\ main = "net" /\ main' = "wait"
  /\ IF Parses(ram["ip_addr"])
     THEN /\ adminUp' = TRUE /\ live' = ram["ip_addr"]
          /\ events' = IF carrier THEN Append(events, TRUE) ELSE events
     ELSE UNCHANGED <<adminUp, live, events>>
  /\ UNCHANGED <<config, carrier, link, sem, radio, dataSock, command, dest, cuts, flaps>>

(* The interface is up already, the event wakes main, or five seconds pass.*)
MainReady ==
  /\ main = "wait" /\ main' = "ready"
  /\ \/ adminUp /\ carrier /\ UNCHANGED sem
     \/ sem = 1 /\ sem' = 0
     \/ sem = 0 /\ ~(adminUp /\ carrier) /\ UNCHANGED sem
  /\ UNCHANGED <<config, adminUp, live, carrier, events, link, radio, dataSock, command,
                 dest, cuts, flaps>>

(* The cable is plugged in or pulled; an interface that is up says so.     *)
Flap ==
  /\ flaps < MaxFlaps /\ flaps' = flaps + 1
  /\ carrier' = ~carrier
  /\ events' = IF adminUp THEN Append(events, carrier') ELSE events
  /\ UNCHANGED <<config, main, adminUp, live, link, sem, radio, dataSock, command, dest, cuts>>

(* Mutant: NET_EVENT_IF_DOWN is not looked at.                             *)
EventUpOnly ==
  /\ events # <<>> /\ events' = Tail(events)
  /\ link' = (link \/ Head(events))
  /\ sem' = IF Head(events) THEN 1 ELSE sem
  /\ UNCHANGED <<config, main, adminUp, live, carrier, radio, dataSock, command, dest, cuts, flaps>>

net_if_event_handler ==
  /\ events # <<>> /\ events' = Tail(events)
  /\ link' = Head(events)
  /\ sem' = IF Head(events) THEN 1 ELSE sem
  /\ UNCHANGED <<config, main, adminUp, live, carrier, radio, dataSock, command, dest, cuts, flaps>>

(* udp_data_rx_thread opens its port once: the port of a later command     *)
(* waits for the next boot.                                                *)
BindDataPort ==
  /\ main \notin {"load", "rf24"} /\ dataSock = None
  /\ dataSock' = ram["data_port"]
  /\ UNCHANGED <<config, main, network, radio, command, dest, cuts, flaps>>

(* gw_udp_send, for a radio frame: host_ip is parsed as it stands.         *)
gw_udp_send ==
  /\ main \in {"wait", "ready"} /\ dataSock # None /\ link
  /\ \/ Parses(ram["host_ip"])
     \/ ram["host_ip"] = Torn   \* half of one address and half of another
  /\ dest' = <<ram["host_ip"], ram["host_port"]>>
  /\ UNCHANGED <<config, main, network, radio, dataSock, command, cuts, flaps>>

-----------------------------------------------------------------------------
(* The commands.                                                           *)

Command(t, k, steps) ==
  /\ main \in {"wait", "ready"} /\ op[t] = <<>> /\ changes < MaxChanges
  /\ changes' = changes + 1
  /\ change' = [change EXCEPT ![t] = <<k, changes'>>]
  /\ op' = [op EXCEPT ![t] = steps]
  /\ UNCHANGED <<stored, wiped, main, network, radio, dataSock, acked, dest, cuts, flaps>>

(* Mutant: the reply goes out before the address is saved.                 *)
SetIpReplyFirst ==
  /\ Command("cfg", "ip_addr", <<"reply">> \o NetKeys)
  /\ ram' = [ram EXCEPT !["ip_addr"] = changes'] /\ UNCHANGED bad

(* UDP_CMD_SET_IP, for an address ip_is_valid accepts.                     *)
SetIp ==
  /\ Command("cfg", "ip_addr", NetKeys \o <<"reply">>)
  /\ ram' = [ram EXCEPT !["ip_addr"] = changes'] /\ UNCHANGED bad

(* gw ip: any string that is short enough.                                 *)
ShellIp ==
  /\ Command("shell", "ip_addr", NetKeys \o <<"reply">>)
  /\ ram' = [ram EXCEPT !["ip_addr"] = changes']
  /\ bad' \in {bad, bad \cup {changes'}}

ShellPort ==
  /\ Command("shell", "data_port", NetKeys \o <<"reply">>)
  /\ ram' = [ram EXCEPT !["data_port"] = changes'] /\ UNCHANGED bad

(* UDP_CMD_SET_HOST: inet_ntop writes into host_ip itself.                 *)
SetHost ==
  /\ Command("cfg", "host_ip", <<"host">> \o NetKeys \o <<"reply">>)
  /\ ram' = [ram EXCEPT !["host_ip"] = Torn] /\ UNCHANGED bad

(* UDP_CMD_SET_RF24 saves the address and then applies it; rf24 addr of    *)
(* the shell does it in the other order.                                   *)
SetRf24(t) ==
  /\ Command(t, "rf24_addr", IF t = "cfg" THEN <<"rf24_addr", "apply", "reply">>
                                          ELSE <<"apply", "rf24_addr", "reply">>)
  /\ ram' = [ram EXCEPT !["rf24_addr"] = changes'] /\ UNCHANGED bad

Does(t, s) == op[t] # <<>> /\ Head(op[t]) = s /\ op' = [op EXCEPT ![t] = Tail(@)]

HostWritten(t) ==
  /\ Does(t, "host")
  /\ ram' = [ram EXCEPT !["host_ip"] = change[t][2], !["host_port"] = change[t][2]]
  /\ UNCHANGED <<stored, wiped, bad, main, network, radio, dataSock, change, acked, changes,
                 dest, cuts, flaps>>

(* settings_save_one.  On an erased partition the backend goes on writing  *)
(* where it stood, and the next boot may not find the record.              *)
SaveKey(t, k) ==
  /\ Does(t, k)
  /\ \/ stored' = [stored EXCEPT ![k] = ram[k]]
     \/ wiped /\ UNCHANGED stored
  /\ UNCHANGED <<ram, wiped, bad, main, network, radio, dataSock, change, acked, changes,
                 dest, cuts, flaps>>

(* Mutant: the radio gets the address the command came with.               *)
ApplyOwn(t) ==
  /\ Does(t, "apply")
  /\ radio' = change[t][2]
  /\ UNCHANGED <<config, main, network, dataSock, change, acked, changes, dest, cuts, flaps>>

(* gw_rf24_set_config: the radio gets the address gw_params holds now.     *)
ApplyRf24(t) ==
  /\ Does(t, "apply")
  /\ radio' = ram["rf24_addr"]
  /\ UNCHANGED <<config, main, network, dataSock, change, acked, changes, dest, cuts, flaps>>

(* The reply or the line on the console.                                   *)
ReportDone(t) ==
  /\ Does(t, "reply")
  /\ LET k == change[t][1]
     IN acked' = IF change[t][2] > acked[k] THEN [acked EXCEPT ![k] = change[t][2]] ELSE acked
  /\ UNCHANGED <<config, main, network, radio, dataSock, change, changes, dest, cuts, flaps>>

(* gw reset erases the settings; gw_params keeps its values.               *)
Reset ==
  /\ main = "ready" /\ op["shell"] = <<>> /\ changes < MaxChanges
  /\ stored' = [k \in Keys |-> Absent] /\ wiped' = TRUE
  /\ changes' = changes + 1
  /\ UNCHANGED <<ram, bad, main, network, radio, dataSock, op, change, acked, dest, cuts, flaps>>

PowerCut ==
  /\ cuts < MaxCuts /\ cuts' = cuts + 1
  /\ PoweredUp
  /\ acked' = IF wiped THEN [k \in Keys |-> 0] ELSE acked
  /\ UNCHANGED <<stored, bad, carrier, change, changes, flaps>>

Main == gw_config_load \/ gw_rf24_init \/ net_init \/ MainReady

Working(t) == \/ HostWritten(t) \/ ApplyRf24(t) \/ ReportDone(t)
              \/ \E k \in Keys : SaveKey(t, k)

Next ==
  \/ Main \/ Flap \/ net_if_event_handler \/ BindDataPort \/ gw_udp_send
  \/ SetIp \/ ShellIp \/ ShellPort \/ SetHost \/ Reset \/ PowerCut
  \/ \E t \in Editors : SetRf24(t) \/ Working(t)

Spec == Init /\ [][Next]_vars

(* main, the event thread and the two editors run.                         *)
FairSpec ==
  /\ Spec /\ WF_vars(Main) /\ WF_vars(net_if_event_handler)
  /\ \A t \in Editors : WF_vars(Working(t))

-----------------------------------------------------------------------------
(* What was reported as done is not undone by a power cut, however the two *)
(* editors and their key-by-key saves interleave: the settings hold that   *)
(* command's value, or a later one's (persist.c:105), or the mixture that  *)
(* a save finds while host_ip is being rewritten for a later one.  gw      *)
(* reset ends what was promised.                                           *)
AckedDurable ==
  ~wiped => \A k \in Keys : acked[k] > 0 =>
                \/ stored[k] \in acked[k] .. MaxChanges
                \/ k = "host_ip" /\ stored[k] = Torn

(* With no command under way, gw_params, the settings and the radio agree. *)
SettledAgrees ==
  (main = "ready" /\ ~wiped /\ \A t \in Editors : op[t] = <<>>) =>
    /\ radio = ram["rf24_addr"]
    /\ \A k \in Keys : stored[k] \in {ram[k], Absent}

(* While no event is pending, gw_net_link_up says what the cable is        *)
(* (main.c:48), whether the cable was plugged in before the interface was  *)
(* brought up, since then, or pulled and plugged in again: gw_udp_send     *)
(* drops no frame for a flag nobody will correct.                          *)
LinkKnown == (adminUp /\ events = <<>>) => link = carrier

(* gw_net_link_up follows the cable (main.c:48): once the carrier has      *)
(* stopped changing, it says what the interface is.                        *)
LinkFollows == <>[](adminUp => link = carrier)
=============================================================================
