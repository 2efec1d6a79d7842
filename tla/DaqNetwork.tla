------------------------------ MODULE DaqNetwork ------------------------------
(***************************************************************************)
(* applications/data_collect: how the board comes to serve its network.    *)
(* main runs the SYS_INITs one after the other and then has the kernel set *)
(* up the static threads: dc_net_thread (net.c) gives the interface its    *)
(* address, tcp_poll (tcp.c) waits for that, and the configuration port    *)
(* (libs/udp_fw_upgrade) starts its receiver when the link comes up.  The  *)
(* link may come up or fail at any moment; its events are handled at once, *)
(* by a cooperative thread.                                                *)
(***************************************************************************)
EXTENDS Naturals

CONSTANT MaxTroubles   \* bound: link failures, calls that fail, restarts
ASSUME NetworkAssumption == MaxTroubles \in Nat

VARIABLES lan, troubles
netVars == <<lan, troubles>>

Modes == {"static", "dhcp"}
Hosts == {"subnet", "beyond"}   \* where a command comes from

Board == [
  boot     : {"early", "loaded", "checked", "done", "running"},  \* how far main has come
  carrier  : BOOLEAN,                       \* the interface is oper up
  mode     : Modes, stored : Modes,         \* HOLDING_NET_MODE, and in flash
  dhcp     : {"off", "asking", "bound"},    \* the DHCP client
  address  : BOOLEAN,                       \* the interface has one
  linkSem  : BOOLEAN, addrSem : BOOLEAN,    \* net_link_sem, net_addr_sem
  net      : {"none", "start", "link", "address", "end"},  \* dc_net_thread
  asks     : BOOLEAN,                       \* its local dhcp
  ready    : BOOLEAN,                       \* dc_net_ready_event
  started  : BOOLEAN,                       \* udp_fw_started
  waits    : BOOLEAN,                       \* if_up_cb is registered
  rx       : BOOLEAN,                       \* udp_fw_rx_thread was started
  command  : Hosts \cup {"none"},           \* what it executes
  answer   : {"none", "unicast", "broadcast"},             \* its last reply
  serv     : {"none", "start", "wait", "listening", "failed"},  \* tcp_poll
  ftp      : {"none", "start", "listening", "failed"},          \* ftp_poll
  failed   : BOOLEAN,                       \* history: a call failed since the start
  early    : BOOLEAN]                       \* history: the link came up before the threads ran

NetworkTypeOK == lan \in Board /\ troubles \in 0 .. MaxTroubles

(* The registers are 0, the static mode, until the settings are loaded.    *)
Reset(stored) ==
  [boot |-> "early", carrier |-> FALSE, mode |-> "static", stored |-> stored, dhcp |-> "off",
   address |-> FALSE, linkSem |-> FALSE, addrSem |-> FALSE, net |-> "none", asks |-> FALSE,
   ready |-> FALSE, started |-> FALSE, waits |-> FALSE, rx |-> FALSE, command |-> "none",
   answer |-> "none", serv |-> "none", ftp |-> "none", failed |-> FALSE, early |-> FALSE]

NetworkInit == troubles = 0 /\ \E m \in Modes : lan = Reset(m)

Trouble == troubles < MaxTroubles /\ troubles' = troubles + 1
Becomes(board) == lan' = board /\ UNCHANGED troubles
Fails(board)   == Trouble /\ lan' = [board EXCEPT !.failed = TRUE]

-----------------------------------------------------------------------------
(* udp_fw_start.  k_thread_start does nothing for a thread that the kernel *)
(* has not set up yet, and setting it up does not start it.                *)
StartPort(board) ==
  IF board.started THEN Becomes(board)
  ELSE \/ Becomes([board EXCEPT !.started = TRUE, !.rx = board.boot = "running"])
       \/ Fails(board)   \* socket, bind: tried again at the next event

(* modbus_init, priority 11.                                               *)
LoadSettings == lan.boot = "early" /\ Becomes([lan EXCEPT !.boot = "loaded", !.mode = lan.stored])

(* udp_fw_init, priority 90: it looks at the link and then registers.      *)
CheckLink ==
  /\ lan.boot = "loaded"
  /\ IF lan.carrier THEN StartPort([lan EXCEPT !.boot = "done"])
                    ELSE Becomes([lan EXCEPT !.boot = "checked"])

(* Mutant: the callback is not registered.                                 *)
RegisterForgets == lan.boot = "checked" /\ Becomes([lan EXCEPT !.boot = "done"])

Register == lan.boot = "checked" /\ Becomes([lan EXCEPT !.boot = "done", !.waits = TRUE])

RunThreads ==
  /\ lan.boot = "done"
  /\ Becomes([lan EXCEPT !.boot = "running", !.net = "start", !.serv = "start", !.ftp = "start"])

Booting == LoadSettings \/ CheckLink \/ Register \/ RunThreads

(* NET_EVENT_IF_UP: net_if_event_handler, and if_up_handler once it waits. *)
CarrierUp ==
  /\ ~lan.carrier
  /\ LET up == [lan EXCEPT !.carrier = TRUE, !.linkSem = TRUE,
                           !.early = @ \/ lan.boot # "running",
                           !.dhcp = IF lan.mode = "dhcp" /\ @ = "off" THEN "asking" ELSE @]
     IN IF lan.waits THEN StartPort(up) ELSE Becomes(up)

CarrierDown == lan.carrier /\ Trouble /\ lan' = [lan EXCEPT !.carrier = FALSE]

(* NET_EVENT_IPV4_ADDR_ADD: net_ipv4_event_handler.                        *)
Addressed(board) == [board EXCEPT !.address = TRUE, !.addrSem = TRUE]

Lease ==
  lan.dhcp = "asking" /\ lan.carrier /\ Becomes([Addressed(lan) EXCEPT !.dhcp = "bound"])

-----------------------------------------------------------------------------
(* dc_net_thread                                                           *)

Finish(board) == [board EXCEPT !.net = "end", !.ready = TRUE]
AfterLink(board) == IF board.asks THEN [board EXCEPT !.net = "address"] ELSE Finish(board)
UseLink(board) == IF board.carrier THEN AfterLink(board) ELSE [board EXCEPT !.net = "link"]

SetupNetwork ==
  /\ lan.net = "start"
  /\ IF lan.mode = "dhcp" THEN Becomes(UseLink([lan EXCEPT !.asks = TRUE]))
     ELSE Becomes(UseLink(Addressed(lan))) \/ Fails(Finish(lan))

(* The semaphore, or five seconds.                                         *)
WaitLink == lan.net = "link" /\ Becomes(AfterLink([lan EXCEPT !.linkSem = FALSE]))

(* Mutant: it waits for the address as long as it takes.                   *)
AwaitLease ==
  lan.net = "address" /\ lan.addrSem /\ Becomes(Finish([lan EXCEPT !.addrSem = FALSE]))

(* The semaphore, or ten seconds.                                          *)
WaitAddress == lan.net = "address" /\ Becomes(Finish([lan EXCEPT !.addrSem = FALSE]))

NetThread == SetupNetwork \/ WaitLink \/ WaitAddress

(* tcp_poll until it serves; a failure ends the thread.                    *)
StartServer ==
  \/ /\ lan.serv = "start"   \* init_modbus_server
     /\ Becomes([lan EXCEPT !.serv = "wait"]) \/ Fails([lan EXCEPT !.serv = "failed"])
  \/ /\ lan.serv = "wait" /\ lan.ready   \* dc_net_wait_ready, then socket, bind and listen
     /\ Becomes([lan EXCEPT !.serv = "listening"]) \/ Fails([lan EXCEPT !.serv = "failed"])

(* ftp_poll does not wait for the network.                                 *)
StartFtp ==
  /\ lan.ftp = "start"
  /\ Becomes([lan EXCEPT !.ftp = "listening"]) \/ Fails([lan EXCEPT !.ftp = "failed"])

-----------------------------------------------------------------------------
(* udp_fw_rx_thread                                                        *)

(* is_same_subnet, asked once for the command and again for its reply.     *)
SameSubnet(host) == ~lan.address \/ host = "subnet"

(* No command of this board is allowed to come from beyond.                *)
TakeCommand(host) ==
  /\ lan.rx /\ lan.carrier /\ lan.command = "none" /\ SameSubnet(host)
  /\ Becomes([lan EXCEPT !.command = host, !.answer = "none"])

(* Any command; SET_NET_MODE changes the mode.                             *)
AnswerCommand ==
  /\ lan.command # "none"
  /\ \E m \in Modes :
       Becomes([lan EXCEPT !.command = "none", !.mode = m, !.stored = m,
                           !.answer = IF SameSubnet(lan.command) THEN "unicast" ELSE "broadcast"])

RestartBoard == Trouble /\ lan' = Reset(lan.stored)

NetworkNext ==
  \/ Booting \/ NetThread \/ StartServer \/ StartFtp \/ AnswerCommand \/ \E h \in Hosts : TakeCommand(h)
  \/ CarrierUp \/ CarrierDown \/ Lease \/ RestartBoard

-----------------------------------------------------------------------------
(* Whenever the link is up that came up only after main had started the    *)
(* threads, the configuration port receives, unless a call failed          *)
(* (udp_fw_upgrade.c:390-457): udp_fw_start is reached once, and after the *)
(* kernel has set up the receiver.                                         *)
PortReceives == lan.boot = "running" /\ lan.carrier /\ ~lan.early /\ ~lan.failed => lan.rx

(* Where the link comes up only after main has started the threads and     *)
(* then stays up, and no call fails, the servers start and stay: the       *)
(* configuration port receives, Modbus TCP and FTP listen, whether or not  *)
(* a DHCP server ever answers (net.c:157-187, tcp.c:110-136, ftpd.c:44-62, *)
(* udp_fw_upgrade.c:390-457).                                              *)
ServersStart ==
  <>[](lan.carrier /\ ~lan.early)
    => <>[](lan.failed \/ (lan.rx /\ lan.serv = "listening" /\ lan.ftp = "listening"))
=============================================================================
