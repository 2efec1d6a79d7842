------------------------------ MODULE DataCollect ------------------------------
(***************************************************************************)
(* The data_collect board: the recorder, the control of the outputs and    *)
(* the FTP server share the registers, the work queue and the file system. *)
(* A behaviour has the recorder and one kind of clients: the Modbus        *)
(* masters, the channels that set parameters, or FTP clients; or it is     *)
(* that of the network, from the start of the board until it is served.    *)
(***************************************************************************)
EXTENDS DaqControl, FtpServer, DaqNetwork

CONSTANT BusySamples   \* bound: samples taken beside masters or FTP clients;
                       \* beside masters each counts as one of MaxRequests
ASSUME BusyAssumption == BusySamples \in Nat

VARIABLE clients

boardVars == <<recVars, ctlVars, ftpVars>>
vars == <<boardVars, netVars, clients>>

TypeOK == RecorderTypeOK /\ ControlTypeOK /\ FtpTypeOK /\ NetworkTypeOK

(* The history is already enabled where nobody will do it.                 *)
Init ==
  /\ clients \in {"masters", "settings", "ftp", "network"}
  /\ ControlInit(clients # "masters") /\ RecorderInit /\ FtpInit
  /\ NetworkInit /\ (clients # "network" => lan = Reset("static"))

Sampling ==
  /\ Preempted
  /\ \/ clients = "settings" /\ (Tick \/ \E p \in Samplers : Sample(p))
     \/ /\ clients \in {"masters", "ftp"} /\ sampled < BusySamples
        /\ clients = "masters" => requests + sampled < MaxRequests
        /\ \E p \in Samplers : Sample(p)

(* A step of one part, with some kinds of clients, beside the others.      *)
Recorder(A)       == clients # "network" /\ A /\ UNCHANGED <<ctlVars, ftpVars, netVars, clients>>
Control(kinds, A) == clients \in kinds /\ A /\ UNCHANGED <<ftpVars, netVars, clients>>
Ftp(A)            == clients = "ftp" /\ A /\ UNCHANGED <<ctlVars, netVars, clients>>
Network(A)        == clients = "network" /\ A /\ UNCHANGED <<boardVars, clients>>

Next ==
  \/ Recorder(Record \/ Sampling)
  \/ Control({"masters", "settings"}, Common)
  \/ Control({"masters"}, Masters /\ requests' + sampled <= MaxRequests)
  \/ Control({"settings"}, Settings /\ requests' <= MaxSettings)
  \/ Ftp(Preempted /\ FtpNext)
  \/ Network(NetworkNext)

(* The threads and the work queue run; clients and faults need not.        *)
Fairness ==
  /\ WF_vars(Recorder(Record))
  /\ WF_vars(Control({"masters"}, WorkQueue))
  /\ WF_vars(Control({"masters"}, HeartThread))
  /\ WF_vars(Network(Booting \/ NetThread \/ StartServer \/ StartFtp))

Spec == Init /\ [][Next]_vars /\ Fairness
=============================================================================
