-------------------------- MODULE DataCollect_proofs --------------------------
(***************************************************************************)
(* The board of DataCollect, for any size of its files and queues, any     *)
(* number of sessions, clients and commands:                               *)
(*   - who may change files (OwnersInv);                                   *)
(*   - what the TCP master is answered (ExchangeInv);                      *)
(*   - what becomes of a record (RecordsInv);                              *)
(*   - the types of the whole, which those three, the transfers of the FTP *)
(*     server (JobInv) and the network (NetworkTypeOK) give together.      *)
(***************************************************************************)
EXTENDS DataCollect, FiniteSetTheorems, SequenceTheorems, WellFoundedInduction, TLAPS

(***************************************************************************)
(* Who may change files                                                    *)
(***************************************************************************)

(* A session of the right type that may change files only with the         *)
(* password.                                                               *)
Honest ==
  {s \in [fd : BOOLEAN, state : {"user", "passwd", "ok"}, anonymous : BOOLEAN,
          dir : {"none", "root", "other"}, port : BOOLEAN, pasv : BOOLEAN,
          offset : 0 .. 1, proved : BOOLEAN] :
     s.state = "ok" /\ ~s.anonymous => s.proved}

OwnersInv == sess \in [Slots -> Honest]

-----------------------------------------------------------------------------
(* Changing one session, be it one of Slots or not.                        *)
LEMMA OneSession ==
  ASSUME OwnersInv, NEW i, NEW s, i \in Slots => s \in Honest
  PROVE  [sess EXCEPT ![i] = s] \in [Slots -> Honest]
  BY DEF OwnersInv

LEMMA FreeHonest == Free \in Honest
  BY DEF Free, Honest

(* The data connection, the listing's directory and the offset of a        *)
(* transfer have no part in it.                                            *)
LEMMA UnpluggedHonest == \A s \in Honest : Unplugged(s) \in Honest
  BY DEF Honest, Unplugged

LEMMA PortHonest == \A s \in Honest, on \in BOOLEAN : [s EXCEPT !.port = on] \in Honest
  BY DEF Honest

LEMMA PasvHonest == \A s \in Honest, on \in BOOLEAN : [s EXCEPT !.pasv = on] \in Honest
  BY DEF Honest

LEMMA OffsetHonest == \A s \in Honest, n \in 0 .. 1 : [s EXCEPT !.offset = n] \in Honest
  BY DEF Honest

LEMMA ResetHonest == \A s \in Honest : [s EXCEPT !.offset = 0] \in Honest
  BY DEF Honest

LEMMA DirHonest ==
  \A s \in Honest, d \in {"none", "root", "other"} : [s EXCEPT !.dir = d] \in Honest
  BY DEF Honest

LEMMA AnonymousHonest ==
  \A s \in Honest, d \in {"none", "root", "other"} :
    [s EXCEPT !.anonymous = TRUE, !.state = "ok", !.proved = FALSE, !.dir = d] \in Honest
  BY DEF Honest

LEMMA AskedHonest ==
  \A s \in Honest : [s EXCEPT !.anonymous = FALSE, !.state = "passwd", !.proved = FALSE] \in Honest
  BY DEF Honest

(* The commands of a client: each changes its own session.                 *)
LEMMA AcceptKeeps == OwnersInv /\ Accept => OwnersInv'
<1> SUFFICES ASSUME OwnersInv, Accept PROVE OwnersInv'
  OBVIOUS
<1>1. CASE sess' = sess
  BY <1>1 DEF OwnersInv
<1>2. ASSUME NEW i, sess' = [sess EXCEPT ![i].fd = TRUE, ![i].port = FALSE, ![i].pasv = FALSE]
      PROVE  OwnersInv'
  <2> DEFINE s == [sess[i] EXCEPT !.fd = TRUE, !.port = FALSE, !.pasv = FALSE]
  <2>1. i \in Slots => s \in Honest
    BY DEF OwnersInv, Honest
  <2>2. sess' = [sess EXCEPT ![i] = s]
    BY <1>2 DEF OwnersInv
  <2> QED
    BY <2>1, <2>2, OneSession DEF OwnersInv
<1> QED
  BY <1>1, <1>2 DEF Accept

LEMMA UserKeeps == ASSUME OwnersInv, NEW i \in Slots, User(i) PROVE OwnersInv'
<1>1. PICK name \in {"anonymous", "admin", "unknown"}, state_ \in {"user", "ok"} :
        sess' = CASE name = "anonymous" ->
                      [sess EXCEPT ![i].anonymous = TRUE, ![i].state = "ok", ![i].proved = FALSE,
                                   ![i].dir = IF state_ = "ok" THEN "root" ELSE @]
                 [] name = "admin" ->
                      [sess EXCEPT ![i].anonymous = FALSE, ![i].state = "passwd", ![i].proved = FALSE]
                 [] OTHER -> sess
  BY DEF User
<1>2. CASE name = "anonymous"
  <2> DEFINE d == IF state_ = "ok" THEN "root" ELSE sess[i].dir
             s == [sess[i] EXCEPT !.anonymous = TRUE, !.state = "ok", !.proved = FALSE, !.dir = d]
  <2>1. d \in {"none", "root", "other"}
    BY DEF OwnersInv, Honest
  <2>2. sess' = [sess EXCEPT ![i] = s]
    <3>1. CASE state_ = "ok"
      <4>1. sess' = [sess EXCEPT ![i].anonymous = TRUE, ![i].state = "ok", ![i].proved = FALSE,
                                 ![i].dir = "root"]
        BY <1>1, <1>2, <3>1
      <4> QED
        BY <3>1, <4>1 DEF OwnersInv
    <3>2. CASE state_ = "user"
      <4>1. sess' = [sess EXCEPT ![i].anonymous = TRUE, ![i].state = "ok", ![i].proved = FALSE,
                                 ![i].dir = @]
        BY <1>1, <1>2, <3>2
      <4> QED
        BY <3>2, <4>1 DEF OwnersInv
    <3> QED
      BY <3>1, <3>2
  <2>3. sess[i] \in Honest
    BY DEF OwnersInv
  <2> HIDE DEF d
  <2>4. s \in Honest
    BY <2>1, <2>3, AnonymousHonest
  <2> QED
    BY <2>2, <2>4, OneSession DEF OwnersInv
<1>3. CASE name = "admin"
  <2> DEFINE s == [sess[i] EXCEPT !.anonymous = FALSE, !.state = "passwd", !.proved = FALSE]
  <2>1. sess[i] \in Honest
    BY DEF OwnersInv
  <2>2. s \in Honest
    BY <2>1, AskedHonest
  <2>3. sess' = [sess EXCEPT ![i] = s]
    BY <1>1, <1>3 DEF OwnersInv
  <2> QED
    BY <2>2, <2>3, OneSession DEF OwnersInv
<1>4. CASE name = "unknown"
  BY <1>1, <1>4 DEF OwnersInv
<1> QED
  BY <1>2, <1>3, <1>4

LEMMA PassKeeps == ASSUME OwnersInv, NEW i \in Slots, Pass(i) PROVE OwnersInv'
<1>1. ASSUME NEW right \in BOOLEAN, right \/ sess[i].anonymous,
             sess' = [sess EXCEPT ![i].state = "ok", ![i].dir = "root", ![i].proved = right]
      PROVE  OwnersInv'
  <2> DEFINE s == [sess[i] EXCEPT !.state = "ok", !.dir = "root", !.proved = right]
  <2>1. s \in Honest
    BY <1>1 DEF OwnersInv, Honest
  <2>2. sess' = [sess EXCEPT ![i] = s]
    BY <1>1 DEF OwnersInv
  <2> QED
    BY <2>1, <2>2, OneSession DEF OwnersInv
<1>2. CASE sess' = [sess EXCEPT ![i].dir = "root"]
  BY <1>2 DEF OwnersInv, Honest
<1>3. CASE sess' = sess
  BY <1>3 DEF OwnersInv
<1> QED
  BY <1>1, <1>2, <1>3 DEF Pass

LEMMA CommandKeeps ==
  ASSUME OwnersInv, NEW i \in Slots,
         Close(i) \/ Port(i) \/ Pasv(i) \/ Cwd(i) \/ Rest(i)
  PROVE  OwnersInv'
<1>1. sess[i] \in Honest
  BY DEF OwnersInv
<1>2. CASE Close(i)
  BY <1>2, FreeHonest, OneSession DEF Close, Released, OwnersInv
<1>3. CASE Port(i)
  <2> DEFINE closed == IF sess[i].port THEN Unplugged(sess[i]) ELSE sess[i]
  <2>1. closed \in Honest
    BY <1>1, UnpluggedHonest
  <2>2. closed \in Honest /\ Unplugged(closed) \in Honest /\ [closed EXCEPT !.port = TRUE] \in Honest
    BY <2>1, UnpluggedHonest, PortHonest
  <2>3. \/ sess' = [sess EXCEPT ![i] = [closed EXCEPT !.port = TRUE]]
        \/ sess' = [sess EXCEPT ![i] = closed]
        \/ sess' = [sess EXCEPT ![i] = Unplugged(closed)]
    BY <1>3 DEF Port
  <2> QED
    BY <2>2, <2>3, OneSession DEF OwnersInv
<1>4. CASE Pasv(i)
  <2>1. PICK on \in BOOLEAN : sess' = [sess EXCEPT ![i].pasv = on]
    BY <1>4 DEF Pasv
  <2>2. [sess[i] EXCEPT !.pasv = on] \in Honest
    BY <1>1, PasvHonest
  <2>3. sess' = [sess EXCEPT ![i] = [sess[i] EXCEPT !.pasv = on]]
    BY <2>1 DEF OwnersInv
  <2> QED
    BY <2>2, <2>3, OneSession DEF OwnersInv
<1>5. CASE Cwd(i)
  <2>1. PICK d \in {"root", "other"} : sess' = [sess EXCEPT ![i].dir = d]
    BY <1>5 DEF Cwd
  <2>2. [sess[i] EXCEPT !.dir = d] \in Honest
    BY <1>1, DirHonest
  <2>3. sess' = [sess EXCEPT ![i] = [sess[i] EXCEPT !.dir = d]]
    BY <2>1 DEF OwnersInv
  <2> QED
    BY <2>2, <2>3, OneSession DEF OwnersInv
<1>6. CASE Rest(i)
  <2>1. PICK n \in 0 .. 1 : sess' = [sess EXCEPT ![i].offset = n]
    BY <1>6 DEF Rest
  <2>2. [sess[i] EXCEPT !.offset = n] \in Honest
    BY <1>1, OffsetHonest
  <2>3. sess' = [sess EXCEPT ![i] = [sess[i] EXCEPT !.offset = n]]
    BY <2>1 DEF OwnersInv
  <2> QED
    BY <2>2, <2>3, OneSession DEF OwnersInv
<1> QED
  BY <1>2, <1>3, <1>4, <1>5, <1>6

LEMMA TransferKeeps ==
  ASSUME OwnersInv, NEW i \in Slots, NEW kind, Transfer(i, kind) PROVE OwnersInv'
<1> DEFINE s == IF kind = "STOR" THEN [sess[i] EXCEPT !.offset = 0] ELSE sess[i]
<1>. sess[i] \in Honest
  BY DEF OwnersInv
<1>1. s \in Honest
  BY ResetHonest
<1>2. sess' = [sess EXCEPT ![i] = s]
  BY DEF Transfer
<1> QED
  BY <1>1, <1>2, OneSession DEF OwnersInv

(* The transfers: only the sockets and the offset of the session change.   *)
LEMMA JobKeeps == OwnersInv /\ Job => OwnersInv'
<1> SUFFICES ASSUME OwnersInv, Job PROVE OwnersInv'
  OBVIOUS
<1> DEFINE i == job.slot
<1>1. ASSUME NEW s, i \in Slots => s \in Honest, sess' = [sess EXCEPT ![i] = s]
      PROVE  OwnersInv'
  BY <1>1, OneSession DEF OwnersInv
<1>2. i \in Slots => sess[i] \in Honest
  BY DEF OwnersInv
<1>3. CASE sess' = sess
  BY <1>3 DEF OwnersInv
<1>4. CASE DataConnection
  <2>1. PICK on \in BOOLEAN : sess' = [sess EXCEPT ![i].port = on]
    BY <1>4 DEF DataConnection
  <2>2. sess' = [sess EXCEPT ![i] = [sess[i] EXCEPT !.port = on]]
    BY <2>1 DEF OwnersInv
  <2> QED
    BY <1>1, <1>2, <2>2, PortHonest
<1>5. ASSUME sess' = [sess EXCEPT ![i].offset = 0] PROVE OwnersInv'
  <2>1. sess' = [sess EXCEPT ![i] = [sess[i] EXCEPT !.offset = 0]]
    BY <1>5 DEF OwnersInv
  <2>2. i \in Slots => [sess[i] EXCEPT !.offset = 0] \in Honest
    BY <1>2, ResetHonest
  <2> QED
    BY <1>1, <2>1, <2>2
<1>6. ASSUME sess' = [sess EXCEPT ![i] = Unplugged(@)] PROVE OwnersInv'
  <2>1. sess' = [sess EXCEPT ![i] = Unplugged(sess[i])]
    BY <1>6 DEF OwnersInv
  <2> QED
    BY <1>1, <1>2, <2>1, UnpluggedHonest
<1>7. ASSUME sess' = [sess EXCEPT ![i] = [Unplugged(@) EXCEPT !.offset = 0]] PROVE OwnersInv'
  <2>1. sess' = [sess EXCEPT ![i] = [Unplugged(sess[i]) EXCEPT !.offset = 0]]
    BY <1>7 DEF OwnersInv
  <2>2. i \in Slots => [Unplugged(sess[i]) EXCEPT !.offset = 0] \in Honest
    BY <1>2, UnpluggedHonest, ResetHonest
  <2> QED
    BY <1>1, <2>1, <2>2
<1>8. CASE NoConnection
  BY <1>8, <1>3, <1>5 DEF NoConnection, Forgotten
<1>9. CASE List
  BY <1>9, <1>3, <1>6 DEF List
<1>10. CASE Retr
  BY <1>10, <1>3, <1>5 DEF Retr, Forgotten
<1>11. CASE SendBlock
  BY <1>11, <1>3, <1>7 DEF SendBlock
<1>12. CASE Stor
  BY <1>12, <1>3 DEF Stor
<1>13. CASE StoreBlock
  BY <1>13, <1>3, <1>6 DEF StoreBlock
<1> QED
  BY <1>4, <1>8, <1>9, <1>10, <1>11, <1>12, <1>13 DEF Job

LEMMA FtpKeeps == OwnersInv /\ FtpNext => OwnersInv'
<1> SUFFICES ASSUME OwnersInv, FtpNext PROVE OwnersInv'
  OBVIOUS
<1>1. ASSUME NEW i \in Slots, Delete(i) \/ Query(i) \/ Size(i) \/ MakeDirectory(i)
      PROVE  OwnersInv'
  BY <1>1 DEF Delete, Query, Size, MakeDirectory, OwnersInv
<1> QED
  BY <1>1, AcceptKeeps, JobKeeps, UserKeeps, PassKeeps, CommandKeeps, TransferKeeps DEF FtpNext

LEMMA OwnersAtFirst == Init => OwnersInv
  BY FreeHonest DEF Init, FtpInit, OwnersInv

LEMMA OwnersStep == OwnersInv /\ [Next]_vars => OwnersInv'
<1> SUFFICES ASSUME OwnersInv, [Next]_vars PROVE OwnersInv'
  OBVIOUS
<1>1. CASE sess' = sess
  BY <1>1 DEF OwnersInv
<1>2. CASE FtpNext
  BY <1>2, FtpKeeps
<1> QED
  BY <1>1, <1>2 DEF Next, Recorder, Control, Ftp, Network, vars, boardVars, ftpVars

(* A session that may store or delete files has given the password         *)
(* (ftpd.c:18-34, ftp_handler.c:15-71, ftp_cmds.c:1051-1079).              *)
THEOREM OwnersAlwaysProved == Spec => []OwnersProved
<1>1. OwnersInv => OwnersProved
  BY DEF OwnersInv, Honest, OwnersProved, MayChange
<1> QED
  BY <1>1, OwnersAtFirst, OwnersStep, PTL DEF Spec

-----------------------------------------------------------------------------
(***************************************************************************)
(* The exchange with the TCP master                                        *)
(***************************************************************************)

(* What the raw server, the work queue and the TCP thread hold of a        *)
(* request: at most one of the first two has it, and it is the one the     *)
(* thread waits for.                                                       *)
Asked == [id : 0 .. MaxRequests, kind : Kinds \cup {"none"}]
Messages == [id : 0 .. MaxRequests, what : {"none", "request", "answer", "failure"}]

ExchangeInv ==
  /\ requests \in 0 .. MaxRequests /\ received \in BOOLEAN /\ stage \in {"select", "wait"}
  /\ {raw, exec} \subseteq Asked /\ {tmp, reply} \subseteq Messages
  /\ ~late /\ stage = "select" =>
       /\ raw = None /\ exec = None /\ ~received
       /\ reply.id = tmp.id /\ reply.what # "request"
  /\ ~late /\ stage = "wait" =>
       /\ raw = None \/ exec = None
       /\ raw # None => raw.id = tmp.id /\ ~received
       /\ exec # None => exec.id = tmp.id /\ ~received
       /\ received => tmp.what = "answer"

exchange == <<requests, received, stage, raw, exec, tmp, reply, late>>

LEMMA RequestTypes ==
  /\ None \in Asked
  /\ \A r \in Asked : [id |-> r.id, what |-> "answer"] \in Messages
  /\ \A m \in Messages : [m EXCEPT !.what = "failure"] \in Messages /\ [m EXCEPT !.what = "failure"].what = "failure"
  /\ \A n \in 0 .. MaxRequests, k \in Kinds :
       [id |-> n, kind |-> k] \in Asked /\ [id |-> n, what |-> "request"] \in Messages
  /\ \A n \in 0 .. MaxRequests :
       [id |-> n, what |-> "request"] \in Messages /\ [id |-> n, what |-> "none"] \in Messages
  BY ControlAssumption DEF None, Asked, Messages

LEMMA ExchangeStutters == ExchangeInv /\ UNCHANGED exchange => ExchangeInv'
  BY DEF ExchangeInv, exchange, None

(* A step that only counts.                                                *)
LEMMA CountedStutters ==
  ASSUME ExchangeInv, UNCHANGED <<received, stage, raw, exec, tmp, reply, late>>,
         requests < MaxRequests, requests' = requests + 1
  PROVE  ExchangeInv'
<1>1. requests' \in 0 .. MaxRequests
  BY ControlAssumption DEF ExchangeInv
<1> QED
  BY <1>1 DEF ExchangeInv

(* The work queue executes what the raw server has, answers at once or     *)
(* saves first.                                                            *)
LEMMA WorkQueueKeeps == ExchangeInv /\ WorkQueue => ExchangeInv'
<1> SUFFICES ASSUME ExchangeInv, WorkQueue PROVE ExchangeInv'
  OBVIOUS
<1>1. CASE ExecuteRtu
  BY <1>1, ExchangeStutters DEF ExecuteRtu, exchange
<1>2. CASE ExecuteRaw
  <2>0. /\ raw # None /\ raw' = None
        /\ UNCHANGED <<stage, reply, late, requests>>
    BY <1>2 DEF ExecuteRaw
  <2>1. CASE raw.kind = "SAVE"
    <3>1. exec' = raw /\ UNCHANGED <<tmp, received>>
      BY <1>2, <2>1 DEF ExecuteRaw
    <3> QED
      BY <2>0, <3>1, RequestTypes DEF ExchangeInv
  <2>2. CASE raw.kind = "foreign"
    <3>1. UNCHANGED <<exec, tmp, received>>
      BY <1>2, <2>2 DEF ExecuteRaw
    <3> QED
      BY <2>0, <3>1, RequestTypes DEF ExchangeInv
  <2>3. CASE raw.kind \notin {"SAVE", "foreign"}
    <3>1. Answered(raw) /\ UNCHANGED exec
      BY <1>2, <2>3 DEF ExecuteRaw
    <3>2. tmp' = [id |-> raw.id, what |-> "answer"] /\ received' = TRUE
      BY <3>1 DEF Answered
    <3> QED
      BY <2>0, <3>1, <3>2, RequestTypes DEF ExchangeInv
  <2> QED
    BY <2>1, <2>2, <2>3
<1>3. CASE SaveAll
  <2>0. UNCHANGED <<raw, stage, reply, late, requests>>
    BY <1>3 DEF SaveAll
  <2>1. CASE UNCHANGED <<exec, tmp, received>>
    BY <2>0, <2>1, ExchangeStutters DEF exchange
  <2>2. CASE exec = None /\ exec' = None /\ UNCHANGED <<tmp, received>>
    BY <2>0, <2>2, ExchangeStutters DEF exchange
  <2>3. CASE exec # None /\ exec' = None /\ Answered(exec)
    <3>1. tmp' = [id |-> exec.id, what |-> "answer"] /\ received' = TRUE
      BY <2>3 DEF Answered
    <3> QED
      BY <2>0, <2>3, <3>1, RequestTypes DEF ExchangeInv
  <2> QED
    BY <1>3, <2>1, <2>2, <2>3 DEF SaveAll
<1> QED
  BY <1>1, <1>2, <1>3 DEF WorkQueue

(* The TCP thread passes a request on, then takes the semaphore or gives   *)
(* up after a second.                                                      *)
LEMMA TcpKeeps ==
  ASSUME ExchangeInv, Tcp \/ \E kind \in Kinds : Request(kind) PROVE ExchangeInv'
<1>1. CASE Connect \/ ConnIdle \/ PeerCloses \/ PeerResets \/ ReadReset
  BY <1>1, ExchangeStutters
     DEF Connect, ConnIdle, PeerCloses, PeerResets, ReadReset, notTcp, exchange
<1>2. CASE Reply
  <2>1. /\ stage = "wait" /\ received /\ received' = FALSE /\ stage' = "select" /\ reply' = tmp
        /\ UNCHANGED <<tmp, raw, exec, late, requests>>
    BY <1>2 DEF Reply, notTcp
  <2> QED
    BY <2>1 DEF ExchangeInv
<1>3. CASE Expired
  <2>1. /\ stage = "wait" /\ ~received /\ stage' = "select"
        /\ tmp' = [tmp EXCEPT !.what = "failure"] /\ reply' = tmp'
        /\ late' = (late \/ raw # None \/ exec # None)
        /\ UNCHANGED <<received, raw, exec, requests>>
    BY <1>3 DEF Expired, notTcp
  <2>2. tmp' \in Messages /\ tmp'.what = "failure"
    BY <2>1, RequestTypes DEF ExchangeInv
  <2> QED
    BY <2>1, <2>2 DEF ExchangeInv
<1>4. ASSUME NEW kind \in Kinds, Request(kind) PROVE ExchangeInv'
  <2>1. /\ stage = "select" /\ requests' = requests + 1 /\ stage' = "wait"
        /\ tmp' = [id |-> requests', what |-> "request"] /\ raw' = [id |-> requests', kind |-> kind]
        /\ UNCHANGED <<exec, received, reply, late>>
    BY <1>4 DEF Request, notTcp
  <2>2. /\ requests' \in 0 .. MaxRequests
        /\ {raw', exec'} \subseteq Asked
        /\ tmp' \in Messages
    <3>1. requests' \in 0 .. MaxRequests
      BY <1>4, ControlAssumption DEF Request, ExchangeInv
    <3> QED
      BY <2>1, <3>1, RequestTypes DEF ExchangeInv
  <2>3. (exec = None /\ ~received) \/ late
    BY <2>1 DEF ExchangeInv
  <2>4. received \in BOOLEAN /\ raw'.id = tmp'.id
    BY <2>1 DEF ExchangeInv
  <2> QED
    BY <2>1, <2>2, <2>3, <2>4 DEF ExchangeInv
<1>5. CASE RequestLost
  <2>1. /\ stage = "select" /\ stage' = "select" /\ requests' = requests + 1
        /\ tmp' = [id |-> requests', what |-> "request"]
        /\ reply' = [id |-> requests', what |-> "none"]
        /\ UNCHANGED <<exec, received, raw, late>>
    BY <1>5 DEF RequestLost, notTcp
  <2>2. requests' \in 0 .. MaxRequests
    BY <1>5, ControlAssumption DEF RequestLost, ExchangeInv
  <2>3. /\ tmp' \in Messages /\ reply' \in Messages
        /\ reply'.id = tmp'.id /\ reply'.what # "request"
    BY <2>1, <2>2, RequestTypes
  <2> QED
    BY <2>1, <2>2, <2>3 DEF ExchangeInv
<1> QED
  BY <1>1, <1>2, <1>3, <1>4, <1>5 DEF Tcp

LEMMA CommonKeepsExchange == ExchangeInv /\ Common => ExchangeInv'
<1> SUFFICES ASSUME ExchangeInv, Common PROVE ExchangeInv'
  OBVIOUS
<1>1. CASE SaveKey
  BY <1>1, ExchangeStutters DEF SaveKey, adu, exchange
<1>2. ASSUME NEW c \in Channels, Configure(c) PROVE ExchangeInv'
  BY <1>2, ExchangeStutters DEF Configure, SaveSet, EnableHistory, adu, exchange
<1> QED
  BY <1>1, <1>2 DEF Common

LEMMA SetKeepsExchange ==
  ASSUME ExchangeInv, NEW c, NEW value, NEW todo, Set(c, value, todo) PROVE ExchangeInv'
  BY CountedStutters DEF Set, adu

LEMMA MastersKeepExchange == ExchangeInv /\ Masters => ExchangeInv'
<1> SUFFICES ASSUME ExchangeInv, Masters PROVE ExchangeInv'
  OBVIOUS
<1>1. CASE Link
  BY <1>1, ExchangeStutters DEF Link, LinkFails, LinkDrop, LinkUp, notDrop, adu, exchange
<1>2. CASE HeartThread
  BY <1>2, ExchangeStutters DEF HeartThread, HeartBeat, HeartTimeout, HeartDrop, notDrop, adu, exchange
<1>3. ASSUME NEW c \in Channels, SetHeart(c) PROVE ExchangeInv'
  BY <1>3, SetKeepsExchange DEF SetHeart
<1>4. ASSUME NEW kind \in Kinds, ServeRtu(kind) PROVE ExchangeInv'
  BY <1>4, CountedStutters DEF ServeRtu
<1> QED
  BY <1>1, <1>2, <1>3, <1>4, WorkQueueKeeps, TcpKeeps DEF Masters

LEMMA SettingsKeepExchange == ExchangeInv /\ Settings => ExchangeInv'
<1> SUFFICES ASSUME ExchangeInv, Settings PROVE ExchangeInv'
  OBVIOUS
<1>1. CASE Restart
  <2>1. /\ raw' = None /\ exec' = None /\ stage' = "select" /\ received' = FALSE
        /\ tmp' = [id |-> 0, what |-> "none"] /\ reply' = tmp' /\ UNCHANGED requests
    BY <1>1 DEF Restart, Booted
  <2>2. requests \in 0 .. MaxRequests /\ 0 \in 0 .. MaxRequests
    BY ControlAssumption DEF ExchangeInv
  <2>3. raw' \in Asked
    BY <2>1, ControlAssumption DEF None, Asked
  <2>4. tmp' \in Messages /\ tmp'.what # "request"
    BY <2>1, ControlAssumption DEF Messages
  <2> QED
    BY <2>1, <2>2, <2>3, <2>4 DEF ExchangeInv
<1>2. CASE SetClock
  BY <1>2, CountedStutters DEF SetClock, adu
<1>3. ASSUME NEW c \in Channels, SetOther(c) \/ SetSample(c) PROVE ExchangeInv'
  BY <1>3, SetKeepsExchange DEF SetOther, SetSample
<1> QED
  BY <1>1, <1>2, <1>3 DEF Settings

LEMMA ExchangeAtFirst == Init => ExchangeInv
<1> SUFFICES ASSUME Init PROVE ExchangeInv
  OBVIOUS
<1>1. /\ raw = None /\ exec = None /\ stage = "select" /\ received = FALSE
      /\ tmp = [id |-> 0, what |-> "none"] /\ reply = tmp /\ requests = 0
  BY DEF Init, ControlInit
<1>2. raw \in Asked /\ exec \in Asked /\ requests \in 0 .. MaxRequests
  BY <1>1, RequestTypes, ControlAssumption
<1>3. tmp \in Messages /\ tmp.what # "request"
  BY <1>1, ControlAssumption DEF Messages
<1> QED
  BY <1>1, <1>2, <1>3 DEF ExchangeInv

LEMMA ExchangeStep == ExchangeInv /\ [Next]_vars => ExchangeInv'
<1> SUFFICES ASSUME ExchangeInv, [Next]_vars PROVE ExchangeInv'
  OBVIOUS
<1>1. CASE UNCHANGED ctlVars
  BY <1>1, ExchangeStutters DEF ctlVars, exchange
<1>2. CASE Common \/ Masters \/ Settings
  BY <1>2, CommonKeepsExchange, MastersKeepExchange, SettingsKeepExchange
<1> QED
  BY <1>1, <1>2 DEF Next, Recorder, Control, Ftp, Network, vars, boardVars

(* As long as no answer came after its second, the TCP master gets the     *)
(* answer to its last request or the failure that stands for it            *)
(* (tcp.c:240-261).                                                        *)
THEOREM RepliesAlwaysMatch == Spec => []RepliesMatch
<1>1. ExchangeInv => RepliesMatch
  BY DEF ExchangeInv, RepliesMatch
<1> QED
  BY <1>1, ExchangeAtFirst, ExchangeStep, PTL DEF Spec

-----------------------------------------------------------------------------
(***************************************************************************)
(* The records: sequences and numbers                                      *)
(***************************************************************************)

LEMMA RecorderConstants ==
  /\ FileSize \in Nat /\ FileSize > 0 /\ MaxFiles \in Nat /\ MaxFiles > 0
  /\ SyncEvery \in Nat /\ SyncEvery > 0 /\ QueueSize \in Nat /\ QueueSize > 0
  /\ MaxClock \in Nat /\ MaxClock > 0 /\ MaxSamples \in Nat
  BY RecorderAssumption

LEMMA SamePrefix == ASSUME NEW S, NEW s \in Seq(S) PROVE IsPrefix(s, s)
  BY DEF IsPrefix

LEMMA AppendPrefix ==
  ASSUME NEW S, NEW s \in Seq(S), NEW x \in S PROVE IsPrefix(s, Append(s, x))
<1>1. Len(Append(s, x)) = Len(s) + 1 /\ \A i \in 1 .. Len(s) : Append(s, x)[i] = s[i]
  OBVIOUS
<1>2. SubSeq(s, 1, Len(s)) = SubSeq(Append(s, x), 1, Len(s))
  BY <1>1
<1> QED
  BY <1>1, <1>2 DEF IsPrefix

LEMMA CutPrefix ==
  ASSUME NEW S, NEW s \in Seq(S), NEW k \in 0 .. Len(s)
  PROVE  SubSeq(s, 1, k) \in Seq(S) /\ Len(SubSeq(s, 1, k)) = k /\ IsPrefix(SubSeq(s, 1, k), s)
<1>1. SubSeq(s, 1, k) \in Seq(S) /\ Len(SubSeq(s, 1, k)) = k
  OBVIOUS
<1>2. SubSeq(SubSeq(s, 1, k), 1, k) = SubSeq(s, 1, k)
  OBVIOUS
<1> QED
  BY <1>1, <1>2 DEF IsPrefix

LEMMA LeastNumber ==
  ASSUME NEW S, S \subseteq Nat, S # {}
  PROVE  \E x \in S : \A y \in S : x <= y
<1> DEFINE R == OpToRel(<, Nat)
<1>1. \E x \in S : \A y \in S : <<y, x>> \notin R
  BY NatLessThanWellFounded, WFMin
<1>2. \A x, y \in Nat : y < x => <<y, x>> \in R
  BY DEF OpToRel
<1> HIDE DEF R
<1>3. PICK x \in S : \A y \in S : <<y, x>> \notin R
  BY <1>1
<1>4. ASSUME NEW y \in S PROVE x <= y
  <2>1. x \in Nat /\ y \in Nat /\ ~(y < x)
    BY <1>2, <1>3
  <2> QED
    BY <2>1
<1> QED
  BY <1>4

LEMMA GreatestNumber ==
  ASSUME NEW n \in Nat, NEW S, S \subseteq 1 .. n, S # {}
  PROVE  \E x \in S : \A y \in S : y <= x
<1> DEFINE T == {n - x : x \in S}
<1>1. \A x \in S : x \in Nat /\ n - x \in Nat /\ n - x \in T
  OBVIOUS
<1>2. T \subseteq Nat /\ T # {}
  BY <1>1
<1>3. \A t \in T : \E x \in S : t = n - x
  OBVIOUS
<1> HIDE DEF T
<1>4. PICK t \in T : \A u \in T : t <= u
  BY <1>2, LeastNumber
<1>5. PICK x \in S : t = n - x
  BY <1>3
<1>6. ASSUME NEW y \in S PROVE y <= x
  <2>1. x \in Nat /\ y \in Nat /\ n - x <= n - y
    BY <1>1, <1>4, <1>5
  <2> QED
    BY <2>1
<1> QED
  BY <1>6

-----------------------------------------------------------------------------
(* Samples that were queued and are not yet in a file.                     *)
Pending == Len(fifo) + (IF wq \in {"record", "append"} THEN 1 ELSE 0)

QueueInv ==
  /\ regs \in Registers /\ clock \in Seconds /\ setBack \in BOOLEAN
  /\ sampled \in 0 .. MaxSamples /\ data \in [Samplers -> 0 .. MaxSamples]
  /\ fifo \in Seq(Samplers) /\ Len(fifo) <= QueueSize
  /\ wq \in {"idle", "history", "record", "append", "save", "saving"}
  /\ cur \in Samplers /\ enable \in BOOLEAN /\ lock \in {"none", "wq", "leaked"}
  /\ \A i \in 1 .. Len(fifo) : data[fifo[i]] > 0
  /\ wq \in {"record", "append"} => data[cur] > 0
  /\ Pending <= sampled

(* The file written is where the work queue left it, also while a client   *)
(* removes files; the work queue that writes holds h_lock.                 *)
FilesInv ==
  /\ files \in [DOMAIN files -> Seq(1 .. MaxSamples)]
  /\ DOMAIN files \subseteq Seconds /\ Cardinality(DOMAIN files) <= MaxFiles
  /\ \A f \in DOMAIN files : Len(files[f]) + Pending <= sampled
  /\ fd \in Seconds \cup {NoFile} /\ gone \in BOOLEAN /\ removed \subseteq Seconds
  /\ pos \in Nat /\ offset \in Nat /\ synced \in Nat
  /\ pos + Pending <= sampled /\ offset + Pending <= sampled /\ synced + Pending <= sampled
  /\ wq = "append" => fd # NoFile /\ lock # "none"
  /\ fd # NoFile /\ ~gone =>
       /\ fd \in DOMAIN files /\ synced <= Len(files[fd])
       /\ pos <= Len(files[fd]) /\ (setBack \/ pos = Len(files[fd]))

(* RecordsKept of one step.                                                *)
Kept ==
  ~setBack' =>
    \A f \in DOMAIN files :
      \/ f \in DOMAIN files' /\ IsPrefix(files[f], files'[f])
      \/ /\ f \in DOMAIN files' /\ f = fd /\ fd' = NoFile
         /\ IsPrefix(files'[f], files[f]) /\ Len(files'[f]) >= synced
      \/ f \notin DOMAIN files' /\ (f \in removed' \/ (f = Oldest /\ Count >= MaxFiles))

LEMMA PendingNat == QueueInv => Pending \in Nat
  BY DEF QueueInv, Pending

LEMMA RecorderTypes == QueueInv /\ FilesInv => RecorderTypeOK
<1> SUFFICES ASSUME QueueInv, FilesInv PROVE RecorderTypeOK
  OBVIOUS
<1>1. Pending \in Nat
  BY PendingNat
<1>2. {pos, offset, synced} \subseteq 0 .. FileSize + MaxSamples
  <2>1. sampled \in 0 .. MaxSamples
    BY DEF QueueInv
  <2>2. \A n \in Nat : n + Pending <= sampled => n \in 0 .. FileSize + MaxSamples
    BY <1>1, <2>1, RecorderConstants
  <2> QED
    BY <2>2 DEF FilesInv
<1>3. /\ regs \in Registers /\ clock \in Seconds /\ setBack \in BOOLEAN
      /\ sampled \in 0 .. MaxSamples /\ data \in [Samplers -> 0 .. MaxSamples]
      /\ fifo \in Seq(Samplers) /\ Len(fifo) <= QueueSize
      /\ wq \in {"idle", "history", "record", "append", "save", "saving"}
      /\ cur \in Samplers /\ enable \in BOOLEAN /\ lock \in {"none", "wq", "leaked"}
  BY DEF QueueInv
<1>4. /\ DOMAIN files \subseteq Seconds /\ Cardinality(DOMAIN files) <= MaxFiles
      /\ \A f \in DOMAIN files : files[f] \in Seq(1 .. MaxSamples)
      /\ fd \in Seconds \cup {NoFile} /\ gone \in BOOLEAN /\ removed \subseteq Seconds
  <2>1. \A f \in DOMAIN files : files[f] \in Seq(1 .. MaxSamples)
    BY DEF FilesInv
  <2> QED
    BY <2>1 DEF FilesInv
<1> QED
  BY <1>2, <1>3, <1>4, Zenon DEF RecorderTypeOK

-----------------------------------------------------------------------------
(* Steps that leave the files alone.                                       *)
LEMMA SameFilesKept == ASSUME QueueInv, FilesInv, files' = files PROVE Kept
<1>1. ASSUME NEW f \in DOMAIN files PROVE IsPrefix(files[f], files[f])
  BY SamePrefix DEF FilesInv
<1> QED
  BY <1>1 DEF Kept

LEMMA Room ==
  \A l, p, q, m, n \in Nat :
    l + p <= m /\ ((n = m /\ q <= p) \/ (n = m + 1 /\ q <= p + 1)) => l + q <= n
  OBVIOUS

LEMMA FilesLeft ==
  ASSUME QueueInv, FilesInv, QueueInv', UNCHANGED fileVars, setBack => setBack',
         \/ sampled' = sampled /\ Pending' <= Pending
         \/ sampled' = sampled + 1 /\ Pending' <= Pending + 1,
         wq' = "append" => fd # NoFile /\ lock' # "none"
  PROVE  FilesInv' /\ Kept
<1>1. Pending \in Nat /\ Pending' \in Nat /\ sampled \in Nat /\ sampled' \in Nat
  BY DEF QueueInv, Pending
<1>2. Kept
  BY SameFilesKept DEF fileVars
<1>3. \A l \in Nat : l + Pending <= sampled => l + Pending' <= sampled'
  BY <1>1, Room
<1>4. /\ \A f \in DOMAIN files : Len(files[f]) + Pending' <= sampled'
      /\ pos + Pending' <= sampled' /\ offset + Pending' <= sampled' /\ synced + Pending' <= sampled'
  <2>1. \A f \in DOMAIN files : Len(files[f]) \in Nat
    BY DEF FilesInv
  <2> QED
    BY <1>3, <2>1 DEF FilesInv
<1>5. UNCHANGED <<files, fd, pos, offset, gone, synced, removed>>
  BY DEF fileVars
<1>6. fd # NoFile /\ ~gone => setBack' \/ pos = Len(files[fd])
  BY DEF FilesInv, QueueInv
<1>7. FilesInv'
  BY <1>4, <1>5, <1>6 DEF FilesInv
<1> QED
  BY <1>2, <1>7

LEMMA SampleKeeps == ASSUME QueueInv, FilesInv, NEW p \in Samplers, Sample(p) PROVE QueueInv' /\ FilesInv' /\ Kept
<1>1. sampled' = sampled + 1 /\ sampled < MaxSamples /\ data' = [data EXCEPT ![p] = sampled']
      /\ UNCHANGED <<regs, clock, setBack, wq, cur, enable, lock, fileVars>>
  BY DEF Sample
<1>2. fifo' \in Seq(Samplers) /\ Len(fifo') <= QueueSize /\ Len(fifo') <= Len(fifo) + 1
      /\ \A i \in 1 .. Len(fifo') : fifo'[i] = p \/ (i \in 1 .. Len(fifo) /\ fifo'[i] = fifo[i])
  BY RecorderConstants DEF Sample, QueueInv
<1>3. data' \in [Samplers -> 0 .. MaxSamples] /\ sampled' \in 0 .. MaxSamples
      /\ \A q \in Samplers : data'[q] = data[q] \/ data'[q] > 0
  BY <1>1, RecorderConstants DEF QueueInv
<1>4. \A i \in 1 .. Len(fifo') : data'[fifo'[i]] > 0
  <2>1. data'[p] > 0
    BY <1>1, RecorderConstants DEF QueueInv
  <2>2. \A i \in 1 .. Len(fifo) : fifo[i] \in Samplers /\ data[fifo[i]] > 0
    BY DEF QueueInv
  <2> QED
    BY <1>2, <1>3, <2>1, <2>2
<1>5. Pending' <= Pending + 1 /\ Pending' \in Nat
  BY <1>1, <1>2 DEF Pending, QueueInv
<1>6. Pending \in Nat /\ Pending <= sampled /\ sampled \in Nat
  BY PendingNat DEF QueueInv
<1>7. wq \in {"record", "append"} => data'[cur] > 0
  BY <1>3 DEF QueueInv
<1>8. Pending' <= sampled'
  BY <1>1, <1>5, <1>6
<1>9. QueueInv'
  BY <1>1, <1>2, <1>3, <1>4, <1>7, <1>8 DEF QueueInv
<1>10. sampled' = sampled + 1 /\ Pending' <= Pending + 1
  BY <1>1, <1>5
<1>11. wq' = "append" => fd # NoFile /\ lock' # "none"
  BY <1>1 DEF FilesInv
<1>12. UNCHANGED <<fileVars, setBack>>
  BY <1>1
<1> QED
  BY <1>9, <1>10, <1>11, <1>12, FilesLeft

LEMMA ClockKeeps ==
  ASSUME QueueInv, FilesInv, Tick \/ \E t \in Seconds : SetTime(t)
  PROVE  QueueInv' /\ FilesInv' /\ Kept
<1>1. /\ clock' \in Seconds /\ setBack' \in BOOLEAN /\ (setBack => setBack')
      /\ UNCHANGED <<regs, sampled, data, fifo, wq, cur, enable, lock, fileVars>>
  <2>1. CASE Tick
    BY <2>1, RecorderConstants DEF Tick, Seconds, QueueInv
  <2>2. ASSUME NEW t \in Seconds, SetTime(t) PROVE <1>1!:
    BY <2>2 DEF SetTime, QueueInv
  <2> QED
    BY <2>1, <2>2
<1>2. QueueInv' /\ Pending' = Pending
  BY <1>1 DEF QueueInv, Pending
<1>3. Pending \in Nat
  BY PendingNat
<1>4. Pending' <= Pending
  BY <1>2, <1>3
<1> QED
  BY <1>1, <1>2, <1>4, FilesLeft DEF FilesInv

(* The steps of the work queue between two files.                          *)
LEMMA TakeKeeps == QueueInv /\ FilesInv /\ Take => QueueInv' /\ FilesInv' /\ Kept
<1> SUFFICES ASSUME QueueInv, FilesInv, Take PROVE QueueInv' /\ FilesInv' /\ Kept
  OBVIOUS
<1>1. /\ wq \in {"idle", "history"}
      /\ UNCHANGED <<regs, clock, setBack, sampled, data, enable, lock, fileVars>>
  BY DEF Take
<1>2. CASE fifo = <<>>
  <2>1. wq' = "idle" /\ UNCHANGED <<cur, fifo>>
    BY <1>2 DEF Take
  <2>2. QueueInv' /\ Pending' <= Pending
    BY <1>1, <2>1 DEF QueueInv, Pending
  <2> QED
    BY <1>1, <2>1, <2>2, FilesLeft
<1>3. CASE fifo # <<>>
  <2>1. wq' = "record" /\ cur' = Head(fifo) /\ fifo' = Tail(fifo)
    BY <1>3 DEF Take
  <2>2. /\ fifo' \in Seq(Samplers) /\ Len(fifo') = Len(fifo) - 1 /\ cur' = fifo[1]
        /\ \A i \in 1 .. Len(fifo') : i + 1 \in 1 .. Len(fifo) /\ fifo'[i] = fifo[i + 1]
        /\ 1 \in 1 .. Len(fifo)
    BY <1>3, <2>1 DEF QueueInv
  <2>3. cur' \in Samplers /\ data'[cur'] > 0 /\ \A i \in 1 .. Len(fifo') : data'[fifo'[i]] > 0
    <3>1. \A i \in 1 .. Len(fifo) : fifo[i] \in Samplers /\ data'[fifo[i]] > 0
      BY <1>1 DEF QueueInv
    <3> QED
      BY <2>2, <3>1
  <2>4. Pending' <= Pending /\ Pending' <= sampled' /\ Len(fifo') <= QueueSize
    BY <1>1, <2>1, <2>2, RecorderConstants DEF Pending, QueueInv
  <2>5. QueueInv'
    BY <1>1, <2>1, <2>2, <2>3, <2>4 DEF QueueInv
  <2> QED
    BY <1>1, <2>1, <2>4, <2>5, FilesLeft
<1> QED
  BY <1>2, <1>3

LEMMA PassedOver ==
  ASSUME QueueInv, FilesInv, RecordRefused \/ UseFile \/ AppendFails
  PROVE  QueueInv' /\ FilesInv' /\ Kept
<1>1. /\ UNCHANGED <<regs, clock, setBack, sampled, data, fifo, cur, enable, fileVars>>
      /\ wq \in {"record", "append"} /\ wq' \in {"history", "append"}
      /\ lock' \in {"none", "wq", "leaked"}
      /\ wq' = "append" => fd # NoFile /\ lock' # "none"
  BY DEF RecordRefused, UseFile, AppendFails, Unlocked, QueueInv
<1>2. QueueInv' /\ Pending' <= Pending
  BY <1>1 DEF QueueInv, Pending
<1> QED
  BY <1>1, <1>2, FilesLeft

LEMMA RoomIsMade ==
  ASSUME QueueInv, FilesInv
  PROVE  /\ MadeRoom \subseteq DOMAIN files /\ IsFiniteSet(MadeRoom)
         /\ Cardinality(MadeRoom) < MaxFiles
         /\ \A f \in DOMAIN files : f \notin MadeRoom => f = Oldest /\ Count >= MaxFiles
<1>1. IsFiniteSet(DOMAIN files) /\ Count \in Nat /\ Count <= MaxFiles
  <2>1. IsFiniteSet(Seconds)
    BY FS_Interval, RecorderConstants DEF Seconds
  <2>2. IsFiniteSet(DOMAIN files)
    BY <2>1, FS_Subset DEF FilesInv
  <2> QED
    BY <2>2, FS_CardinalityType DEF FilesInv, Count
<1>2. CASE Count >= MaxFiles
  <2>1. MadeRoom = DOMAIN files \ {Oldest}
    BY <1>2 DEF MadeRoom
  <2>2. DOMAIN files # {}
    BY <1>1, <1>2, FS_EmptySet, RecorderConstants DEF Count
  <2>3. \E f \in DOMAIN files : \A g \in DOMAIN files : f <= g
    <3>1. DOMAIN files \subseteq Nat
      BY DEF FilesInv, Seconds
    <3> QED
      BY <2>2, <3>1, LeastNumber
  <2>4. Oldest \in DOMAIN files
    BY <2>3 DEF Oldest
  <2>5. IsFiniteSet(MadeRoom) /\ Cardinality(MadeRoom) = Count - 1
    BY <1>1, <2>1, <2>4, FS_RemoveElement DEF Count
  <2> QED
    BY <1>1, <1>2, <2>1, <2>5, RecorderConstants
<1>3. CASE ~(Count >= MaxFiles)
  <2>1. MadeRoom = DOMAIN files
    BY <1>3 DEF MadeRoom
  <2> QED
    BY <1>1, <1>3, <2>1, RecorderConstants DEF Count
<1> QED
  BY <1>2, <1>3

LEMMA LatestIsThere == ASSUME FilesInv, Count \in 1 .. MaxFiles PROVE Latest \in DOMAIN files
<1>1. DOMAIN files # {}
  BY FS_EmptySet, RecorderConstants DEF Count
<1>2. \E f \in DOMAIN files : \A g \in DOMAIN files : g <= f
  BY <1>1, GreatestNumber, RecorderConstants DEF FilesInv, Seconds
<1> QED
  BY <1>2 DEF Latest

(* The steps that open, write and remove files.                            *)
LEMMA OpenKeepsQueue ==
  ASSUME QueueInv, OpenFile \/ OpenFails \/ AppendRecord
  PROVE  QueueInv' /\ Pending' <= Pending /\ UNCHANGED <<sampled, setBack, data, cur>>
<1>1. /\ UNCHANGED <<regs, clock, setBack, sampled, data, fifo, cur, enable>>
      /\ wq \in {"record", "append"} /\ wq' \in {"history", "append"}
      /\ lock' \in {"none", "wq", "leaked"}
  BY DEF OpenFile, OpenFails, AppendRecord, Unlocked, QueueInv
<1>2. QueueInv' /\ Pending' <= Pending
  BY <1>1 DEF QueueInv, Pending
<1> QED
  BY <1>1, <1>2

LEMMA OpenExistingKeeps ==
  ASSUME QueueInv, FilesInv, OpenFile, ~Full, Count \in 1 .. MaxFiles
  PROVE  FilesInv' /\ Kept
<1>1. /\ wq = "record" /\ wq' = "append" /\ lock' # "none" /\ OpenExisting /\ gone' = FALSE
      /\ synced' = Len(files'[fd']) /\ UNCHANGED <<fifo, sampled, removed>>
  BY DEF OpenFile, QueueInv
<1>2. /\ fd' = Latest /\ files' = files /\ pos' = Len(files[Latest]) /\ offset' = pos' /\ synced' = pos'
  BY <1>1 DEF OpenExisting
<1>3. Latest \in DOMAIN files
  BY LatestIsThere
<1>4. Pending' = Pending
  BY <1>1 DEF Pending
<1>5. Len(files[Latest]) \in Nat /\ Len(files[Latest]) + Pending <= sampled /\ Latest \in Seconds /\ Latest # NoFile
  BY <1>3 DEF FilesInv, Seconds, NoFile
<1>6. FilesInv'
  <2>1. /\ \A f \in DOMAIN files' : Len(files'[f]) + Pending' <= sampled'
        /\ pos' + Pending' <= sampled' /\ offset' + Pending' <= sampled' /\ synced' + Pending' <= sampled'
    BY <1>1, <1>2, <1>4, <1>5 DEF FilesInv
  <2>2. /\ files' \in [DOMAIN files' -> Seq(1 .. MaxSamples)]
        /\ DOMAIN files' \subseteq Seconds /\ Cardinality(DOMAIN files') <= MaxFiles
    BY <1>2 DEF FilesInv
  <2>3. /\ fd' \in Seconds /\ gone' \in BOOLEAN /\ removed' \subseteq Seconds
        /\ pos' \in Nat /\ offset' \in Nat /\ synced' \in Nat
    BY <1>1, <1>2, <1>5 DEF FilesInv
  <2>4. fd' \in DOMAIN files' /\ synced' <= Len(files'[fd']) /\ pos' <= Len(files'[fd']) /\ pos' = Len(files'[fd'])
    BY <1>2, <1>3, <1>5
  <2>5. wq' = "append" => fd' # NoFile /\ lock' # "none"
    BY <1>1, <1>2, <1>5
  <2> QED
    BY <2>1, <2>2, <2>3, <2>4, <2>5 DEF FilesInv
<1> QED
  BY <1>2, <1>6, SameFilesKept

LEMMA CreateFileKeeps ==
  ASSUME QueueInv, FilesInv, OpenFile, ~(~Full /\ Count \in 1 .. MaxFiles)
  PROVE  FilesInv' /\ Kept
<1>1. /\ wq = "record" /\ wq' = "append" /\ lock' # "none" /\ CreateFile /\ gone' = FALSE
      /\ synced' = Len(files'[fd']) /\ UNCHANGED <<fifo, sampled, removed, setBack>>
  BY DEF OpenFile, QueueInv
<1>2. /\ ~setBack => clock \notin DOMAIN files
      /\ files' = [f \in MadeRoom \cup {clock} |-> IF f \in MadeRoom THEN files[f] ELSE <<>>]
      /\ fd' = clock /\ pos' = 0 /\ offset' = 0
  BY <1>1 DEF CreateFile
<1>3. /\ MadeRoom \subseteq DOMAIN files /\ IsFiniteSet(MadeRoom) /\ Cardinality(MadeRoom) < MaxFiles
      /\ \A f \in DOMAIN files : f \notin MadeRoom => f = Oldest /\ Count >= MaxFiles
  BY RoomIsMade
<1>4. Pending' = Pending /\ Pending \in Nat /\ Pending <= sampled
  <2>1. Pending' = Pending
    BY <1>1 DEF Pending
  <2> QED
    BY <2>1, PendingNat DEF QueueInv
<1>5. clock \in Seconds /\ clock # NoFile
  BY DEF QueueInv, Seconds, NoFile
<1>6. DOMAIN files' = MadeRoom \cup {clock}
  BY <1>2
<1>7. Cardinality(DOMAIN files') <= MaxFiles
  <2>1. Cardinality(MadeRoom) \in Nat
    BY <1>3, FS_CardinalityType
  <2>2. Cardinality(MadeRoom \cup {clock}) =
          IF clock \in MadeRoom THEN Cardinality(MadeRoom) ELSE Cardinality(MadeRoom) + 1
    BY <1>3, FS_AddElement
  <2> QED
    BY <1>3, <1>6, <2>1, <2>2, RecorderConstants
<1>8. \A f \in DOMAIN files' :
        files'[f] \in Seq(1 .. MaxSamples) /\ Len(files'[f]) \in Nat /\ Len(files'[f]) + Pending <= sampled
  <2>1. ASSUME NEW f \in MadeRoom PROVE <1>8!(f)
    BY <1>2, <1>3, <2>1 DEF FilesInv
  <2>2. ASSUME clock \notin MadeRoom PROVE <1>8!(clock)
    <3>1. files'[clock] = <<>>
      BY <1>2, <2>2
    <3> QED
      BY <1>4, <3>1 DEF QueueInv
  <2> QED
    BY <1>6, <2>1, <2>2
<1>9. files' \in [DOMAIN files' -> Seq(1 .. MaxSamples)] /\ DOMAIN files' \subseteq Seconds
  <2>1. files' = [f \in DOMAIN files' |-> files'[f]]
    BY <1>2
  <2> QED
    BY <1>3, <1>5, <1>6, <1>8, <2>1 DEF FilesInv
<1>10. fd' \in DOMAIN files' /\ (setBack \/ pos' = Len(files'[fd'])) /\ pos' <= Len(files'[fd'])
  <2>1. setBack \/ files'[clock] = <<>>
    BY <1>2, <1>3
  <2> QED
    BY <1>2, <1>6, <1>8, <2>1 DEF QueueInv
<1>11. pos' + Pending <= sampled /\ offset' + Pending <= sampled /\ synced' + Pending <= sampled
       /\ pos' \in Nat /\ offset' \in Nat /\ synced' \in Nat
  <2>1. 0 + Pending <= sampled
    BY <1>4
  <2>2. Len(files'[fd']) \in Nat /\ Len(files'[fd']) + Pending <= sampled
    BY <1>8, <1>10
  <2> QED
    BY <1>1, <1>2, <2>1, <2>2
<1>12. FilesInv'
  <2>1. /\ \A f \in DOMAIN files' : Len(files'[f]) + Pending' <= sampled'
        /\ pos' + Pending' <= sampled' /\ offset' + Pending' <= sampled' /\ synced' + Pending' <= sampled'
    BY <1>1, <1>4, <1>8, <1>11
  <2>2. synced' <= Len(files'[fd'])
    BY <1>1, <1>8, <1>10
  <2> QED
    BY <1>1, <1>2, <1>5, <1>7, <1>9, <1>10, <1>11, <2>1, <2>2 DEF FilesInv
<1>13. Kept
  <2>1. ASSUME ~setBack', NEW f \in MadeRoom PROVE f \in DOMAIN files' /\ IsPrefix(files[f], files'[f])
    <3>1. files'[f] = files[f] /\ files[f] \in Seq(1 .. MaxSamples)
      BY <1>2, <1>3, <2>1 DEF FilesInv
    <3> QED
      BY <1>6, <3>1, SamePrefix
  <2>2. ASSUME ~setBack', NEW f \in DOMAIN files, f \notin MadeRoom
        PROVE  f \notin DOMAIN files' /\ f = Oldest /\ Count >= MaxFiles
    BY <1>1, <1>2, <1>3, <1>6, <2>2
  <2> QED
    BY <1>3, <2>1, <2>2 DEF Kept
<1> QED
  BY <1>12, <1>13

LEMMA OpenFileKeeps == QueueInv /\ FilesInv /\ OpenFile => QueueInv' /\ FilesInv' /\ Kept
  BY OpenKeepsQueue, OpenExistingKeeps, CreateFileKeeps

LEMMA OpenFailsKeeps == QueueInv /\ FilesInv /\ OpenFails => QueueInv' /\ FilesInv' /\ Kept
<1> SUFFICES ASSUME QueueInv, FilesInv, OpenFails PROVE QueueInv' /\ FilesInv' /\ Kept
  OBVIOUS
<1> DEFINE existing == ~Full /\ Count \in 1 .. MaxFiles
<1>1. /\ wq' = "history" /\ fd' = NoFile /\ gone' = FALSE
      /\ offset' = IF existing THEN Len(files[Latest]) ELSE 0
      /\ files' = IF existing THEN files ELSE [f \in MadeRoom |-> files[f]]
      /\ UNCHANGED <<sampled, pos, synced, removed>>
  BY DEF OpenFails
<1> HIDE DEF existing
<1>2. QueueInv' /\ Pending' <= Pending /\ UNCHANGED <<sampled, setBack>>
  BY OpenKeepsQueue
<1>3. Pending \in Nat /\ Pending' \in Nat /\ sampled \in Nat /\ Pending <= sampled
  BY <1>2 DEF QueueInv, Pending
<1>4. \A l \in Nat : l + Pending <= sampled => l + Pending' <= sampled'
  BY <1>2, <1>3, Room
<1>5. /\ MadeRoom \subseteq DOMAIN files /\ Cardinality(MadeRoom) < MaxFiles /\ IsFiniteSet(MadeRoom)
      /\ \A f \in DOMAIN files : f \notin MadeRoom => f = Oldest /\ Count >= MaxFiles
  BY RoomIsMade
<1>6. /\ DOMAIN files' \subseteq DOMAIN files /\ Cardinality(DOMAIN files') <= MaxFiles
      /\ files' = [f \in DOMAIN files' |-> files[f]]
      /\ \A f \in DOMAIN files : f \notin DOMAIN files' => f = Oldest /\ Count >= MaxFiles
  <2>1. CASE existing
    BY <1>1, <2>1 DEF FilesInv
  <2>2. CASE ~existing
    <3>1. files' = [f \in MadeRoom |-> files[f]]
      BY <1>1, <2>2
    <3>2. DOMAIN files' = MadeRoom
      BY <3>1
    <3>3. Cardinality(MadeRoom) \in Nat
      BY <1>5, FS_CardinalityType
    <3>4. Cardinality(DOMAIN files') <= MaxFiles
      BY <1>5, <3>2, <3>3, RecorderConstants
    <3> QED
      BY <1>5, <3>1, <3>2, <3>4
  <2> QED
    BY <2>1, <2>2
<1>7. \A f \in DOMAIN files' :
        files'[f] = files[f] /\ files[f] \in Seq(1 .. MaxSamples) /\ Len(files[f]) \in Nat
  BY <1>6 DEF FilesInv
<1>8. offset' \in Nat /\ offset' + Pending <= sampled
  <2>1. CASE existing
    <3>1. Latest \in DOMAIN files
      BY <2>1, LatestIsThere DEF existing
    <3> QED
      BY <1>1, <2>1, <3>1 DEF FilesInv
  <2>2. CASE ~existing
    <3>1. 0 + Pending <= sampled
      BY <1>3
    <3> QED
      BY <1>1, <2>2, <3>1
  <2> QED
    BY <2>1, <2>2
<1>9. FilesInv'
  <2>1. \A f \in DOMAIN files' : Len(files'[f]) + Pending' <= sampled'
    BY <1>4, <1>6, <1>7 DEF FilesInv
  <2>2. pos' + Pending' <= sampled' /\ offset' + Pending' <= sampled' /\ synced' + Pending' <= sampled'
    BY <1>1, <1>4, <1>8 DEF FilesInv
  <2>3. files' \in [DOMAIN files' -> Seq(1 .. MaxSamples)]
    BY <1>6, <1>7
  <2> QED
    BY <1>1, <1>6, <1>8, <2>1, <2>2, <2>3 DEF FilesInv
<1>10. Kept
  <2>1. \A f \in DOMAIN files' : IsPrefix(files[f], files'[f])
    BY <1>7, SamePrefix
  <2> QED
    BY <1>6, <2>1 DEF Kept
<1> QED
  BY <1>2, <1>9, <1>10

(* A record goes behind those of the file, or over one of them after the   *)
(* clock was set back.                                                     *)
LEMMA WrittenGrows ==
  ASSUME NEW records \in Seq(1 .. MaxSamples), data[cur] \in 1 .. MaxSamples,
         pos \in Nat, pos <= Len(records)
  PROVE  /\ Written(records) \in Seq(1 .. MaxSamples)
         /\ Len(Written(records)) >= pos + 1 /\ Len(Written(records)) >= Len(records)
         /\ Len(Written(records)) <= Len(records) + 1
         /\ pos = Len(records) => /\ Len(Written(records)) = pos + 1
                                 /\ IsPrefix(records, Written(records))
         /\ pos # Len(records) => Len(Written(records)) = Len(records)
<1>1. CASE pos = Len(records)
  <2>1. Written(records) = Append(records, data[cur])
    BY <1>1 DEF Written
  <2>2. IsPrefix(records, Append(records, data[cur]))
    BY AppendPrefix
  <2> QED
    BY <1>1, <2>1, <2>2
<1>2. CASE pos # Len(records)
  <2>1. Written(records) = [records EXCEPT ![pos + 1] = data[cur]]
    BY <1>2 DEF Written
  <2>2. pos + 1 \in 1 .. Len(records)
    BY <1>2
  <2>3. Written(records) \in Seq(1 .. MaxSamples) /\ Len(Written(records)) = Len(records)
    BY <2>1, <2>2, ExceptSeq
  <2> QED
    BY <1>2, <2>3
<1> QED
  BY <1>1, <1>2

LEMMA AppendKeeps == QueueInv /\ FilesInv /\ AppendRecord => QueueInv' /\ FilesInv' /\ Kept
<1> SUFFICES ASSUME QueueInv, FilesInv, AppendRecord PROVE QueueInv' /\ FilesInv' /\ Kept
  OBVIOUS
<1>1. /\ wq = "append" /\ wq' = "history" /\ pos' = pos + 1 /\ offset' = offset + 1
      /\ files' = IF gone THEN files ELSE [files EXCEPT ![fd] = Written(@)]
      /\ UNCHANGED <<sampled, setBack, fifo, fd, gone, removed>>
      /\ (synced' = Len(files'[fd]) /\ ~gone) \/ synced' = synced
  BY DEF AppendRecord
<1>2. QueueInv'
  BY OpenKeepsQueue
<1>3. Len(fifo) \in Nat /\ sampled \in Nat /\ fd # NoFile /\ data[cur] \in 1 .. MaxSamples
  BY <1>1, RecorderConstants DEF QueueInv, FilesInv
<1>4. \A l \in Nat : l + Pending <= sampled => l + 1 + Pending' <= sampled' /\ l + Pending' <= sampled'
  BY <1>1, <1>3 DEF Pending
<1>5. CASE gone
  <2>1. files' = files /\ synced' = synced
    BY <1>1, <1>5
  <2>2. \A f \in DOMAIN files' : Len(files'[f]) + Pending' <= sampled'
    BY <1>4, <2>1 DEF FilesInv
  <2>3. pos' + Pending' <= sampled' /\ offset' + Pending' <= sampled' /\ synced' + Pending' <= sampled'
    BY <1>1, <1>4, <2>1 DEF FilesInv
  <2>4. FilesInv'
    BY <1>1, <1>5, <2>1, <2>2, <2>3 DEF FilesInv
  <2> QED
    BY <1>2, <2>1, <2>4, SameFilesKept
<1>6. CASE ~gone
  <2> DEFINE records == files[fd]
  <2>1. /\ fd \in DOMAIN files /\ records \in Seq(1 .. MaxSamples) /\ pos \in Nat /\ pos <= Len(records)
        /\ setBack \/ pos = Len(records)
    BY <1>3, <1>6 DEF FilesInv
  <2>2. /\ Written(records) \in Seq(1 .. MaxSamples)
        /\ Len(Written(records)) >= pos + 1 /\ Len(Written(records)) >= Len(records)
        /\ Len(Written(records)) <= Len(records) + 1
        /\ pos = Len(records) => /\ Len(Written(records)) = pos + 1
                                /\ IsPrefix(records, Written(records))
    BY <1>3, <2>1, WrittenGrows
  <2>3. files' = [files EXCEPT ![fd] = Written(records)]
    BY <1>1, <1>6
  <2>4. /\ DOMAIN files' = DOMAIN files /\ files'[fd] = Written(records)
        /\ \A f \in DOMAIN files : f # fd => files'[f] = files[f]
        /\ files' \in [DOMAIN files' -> Seq(1 .. MaxSamples)]
    BY <2>1, <2>2, <2>3 DEF FilesInv
  <2>5. \A f \in DOMAIN files' : Len(files'[f]) + Pending' <= sampled'
    <3>1. Len(records) \in Nat /\ Len(Written(records)) \in Nat
      BY <2>1, <2>2
    <3>2. Len(Written(records)) = Len(records) \/ Len(Written(records)) = Len(records) + 1
      BY <2>2, <3>1
    <3>3. Len(records) + Pending <= sampled
      BY <2>1 DEF FilesInv
    <3>4. Len(Written(records)) + Pending' <= sampled'
      BY <1>4, <3>1, <3>2, <3>3
    <3>5. \A f \in DOMAIN files : Len(files[f]) \in Nat /\ Len(files[f]) + Pending <= sampled
      BY DEF FilesInv
    <3> QED
      BY <1>4, <2>4, <3>4, <3>5
  <2>6. synced' \in Nat /\ synced' <= Len(files'[fd]) /\ synced' + Pending' <= sampled'
    <3>1. CASE synced' = Len(files'[fd])
      BY <2>1, <2>2, <2>4, <2>5, <3>1
    <3>2. CASE synced' = synced
      <4>1. synced <= Len(records) /\ synced \in Nat /\ synced + Pending <= sampled
        BY <1>3, <1>6 DEF FilesInv
      <4>2. synced' + Pending' <= sampled'
        BY <1>4, <3>2, <4>1
      <4> QED
        BY <2>1, <2>2, <2>4, <3>2, <4>1, <4>2
    <3> QED
      BY <1>1, <3>1, <3>2
  <2>7. pos' + Pending' <= sampled' /\ offset' + Pending' <= sampled'
    BY <1>1, <1>4 DEF FilesInv
  <2>8. pos' <= Len(files'[fd]) /\ (setBack \/ pos' = Len(files'[fd]))
    BY <1>1, <2>1, <2>2, <2>4
  <2>9. FilesInv'
    BY <1>1, <2>1, <2>4, <2>5, <2>6, <2>7, <2>8 DEF FilesInv
  <2>10. Kept
    <3>1. ASSUME ~setBack', NEW f \in DOMAIN files PROVE f \in DOMAIN files' /\ IsPrefix(files[f], files'[f])
      <4>1. CASE f = fd
        BY <1>1, <2>1, <2>2, <2>4, <3>1, <4>1
      <4>2. CASE f # fd
        <5>1. files[f] \in Seq(1 .. MaxSamples) /\ files'[f] = files[f]
          BY <2>4, <4>2 DEF FilesInv
        <5> QED
          BY <2>4, <5>1, SamePrefix
      <4> QED
        BY <4>1, <4>2
    <3> QED
      BY <3>1 DEF Kept
  <2> QED
    BY <1>2, <2>9, <2>10
<1> QED
  BY <1>5, <1>6

(* What the parts beside the recorder do to it: registers, saving settings *)
(* in the work queue, switching the history on and off.                    *)
LEMMA RegistersKeep ==
  ASSUME QueueInv, FilesInv, regs' \in Registers, enable' \in BOOLEAN,
         wq' = wq \/ {wq, wq'} \subseteq {"idle", "save", "saving"},
         UNCHANGED <<clock, setBack, sampled, data, fifo, cur, lock, files, pos, offset, synced, removed>>,
         UNCHANGED <<fd, gone>> \/ (fd' = NoFile /\ gone' = FALSE /\ wq # "append")
  PROVE  QueueInv' /\ FilesInv' /\ Kept
<1>1. wq' \in {"record", "append"} <=> wq \in {"record", "append"}
  OBVIOUS
<1>2. QueueInv' /\ Pending' = Pending
  <2>1. Pending' = Pending
    BY <1>1 DEF Pending
  <2>2. wq' \in {"idle", "history", "record", "append", "save", "saving"}
    BY DEF QueueInv
  <2>3. Pending' <= sampled'
    BY <2>1 DEF QueueInv
  <2> QED
    BY <1>1, <2>1, <2>2, <2>3 DEF QueueInv
<1>3. /\ \A f \in DOMAIN files' : Len(files'[f]) + Pending' <= sampled'
      /\ pos' + Pending' <= sampled' /\ offset' + Pending' <= sampled' /\ synced' + Pending' <= sampled'
  BY <1>2 DEF FilesInv
<1>4. CASE UNCHANGED <<fd, gone>>
  BY <1>3, <1>4, SameFilesKept, <1>2 DEF FilesInv
<1>5. CASE fd' = NoFile /\ gone' = FALSE /\ wq # "append"
  BY <1>3, <1>5, SameFilesKept, <1>2 DEF FilesInv
<1> QED
  BY <1>4, <1>5

LEMMA RemoveKeeps ==
  ASSUME QueueInv, FilesInv, NEW f \in Seconds, RemoveFile(f),
         UNCHANGED <<regs, clock, setBack, sampled, data, fifo, wq, cur, enable, lock>>
  PROVE  QueueInv' /\ FilesInv' /\ Kept
<1>1. /\ f \in DOMAIN files /\ files' = [g \in DOMAIN files \ {f} |-> files[g]]
      /\ gone' = (gone \/ f = fd) /\ removed' = removed \cup {f}
      /\ UNCHANGED <<fd, pos, offset, synced>>
  BY DEF RemoveFile
<1>2. QueueInv' /\ Pending' = Pending
  BY DEF QueueInv, Pending
<1>3. /\ DOMAIN files' = DOMAIN files \ {f}
      /\ \A g \in DOMAIN files' : files'[g] = files[g] /\ files[g] \in Seq(1 .. MaxSamples)
      /\ files' \in [DOMAIN files' -> Seq(1 .. MaxSamples)]
  BY <1>1 DEF FilesInv
<1>4. Cardinality(DOMAIN files') <= MaxFiles
  <2>1. IsFiniteSet(Seconds)
    BY FS_Interval, RecorderConstants DEF Seconds
  <2>2. IsFiniteSet(DOMAIN files)
    BY <2>1, FS_Subset DEF FilesInv
  <2>3. Cardinality(DOMAIN files') <= Cardinality(DOMAIN files)
    BY <1>3, <2>2, FS_Subset
  <2>4. Cardinality(DOMAIN files') \in Nat /\ Cardinality(DOMAIN files) \in Nat
    BY <1>3, <2>2, FS_Subset, FS_CardinalityType
  <2> QED
    BY <2>3, <2>4, RecorderConstants DEF FilesInv
<1>5. /\ \A g \in DOMAIN files' : Len(files'[g]) + Pending' <= sampled'
      /\ pos' + Pending' <= sampled' /\ offset' + Pending' <= sampled' /\ synced' + Pending' <= sampled'
  BY <1>1, <1>2, <1>3 DEF FilesInv
<1>6. FilesInv'
  BY <1>1, <1>3, <1>4, <1>5 DEF FilesInv
<1>7. Kept
  <2>1. \A g \in DOMAIN files' : IsPrefix(files[g], files'[g])
    BY <1>3, SamePrefix
  <2> QED
    BY <1>1, <1>3, <2>1 DEF Kept
<1> QED
  BY <1>2, <1>6, <1>7

LEMMA RestartKeeps ==
  ASSUME QueueInv, FilesInv, RecorderRestart, regs' \in Registers
  PROVE  QueueInv' /\ FilesInv' /\ Kept
<1>1. /\ data' = [p \in Samplers |-> 0] /\ fifo' = <<>> /\ wq' = "idle" /\ cur' \in Samplers
      /\ enable' = regs'.HIS_SAVE /\ lock' = "none"
      /\ fd' = NoFile /\ pos' = 0 /\ offset' = 0 /\ gone' = FALSE /\ synced' = 0
      /\ UNCHANGED <<clock, setBack, sampled, removed>>
  BY DEF RecorderRestart
<1>2. enable' \in BOOLEAN
  BY <1>1 DEF Registers
<1>3. fifo' \in Seq(Samplers) /\ Len(fifo') = 0 /\ Pending' = 0
  BY <1>1 DEF Pending
<1>4. data' \in [Samplers -> 0 .. MaxSamples]
  BY <1>1, RecorderConstants
<1>5. QueueInv'
  BY <1>1, <1>2, <1>3, <1>4, RecorderConstants DEF QueueInv
<1>6. \A n \in Nat : n <= sampled => n + Pending' <= sampled'
  BY <1>1, <1>3 DEF QueueInv
<1>7. \A f \in DOMAIN files : files[f] \in Seq(1 .. MaxSamples) /\ Len(files[f]) \in Nat /\ Len(files[f]) <= sampled
  BY DEF FilesInv, QueueInv, Pending
<1>8. 0 <= sampled
  BY DEF QueueInv
<1>9. CASE files' = files
  <2>1. \A f \in DOMAIN files' : Len(files'[f]) + Pending' <= sampled'
    BY <1>6, <1>7, <1>9
  <2>2. pos' + Pending' <= sampled' /\ offset' + Pending' <= sampled' /\ synced' + Pending' <= sampled'
    BY <1>1, <1>6, <1>8
  <2>3. FilesInv'
    BY <1>1, <1>9, <2>1, <2>2 DEF FilesInv
  <2> QED
    BY <1>5, <1>9, <2>3, SameFilesKept
<1>10. CASE fd # NoFile /\ ~gone
  <2>0. fd \in DOMAIN files /\ synced \in Nat /\ synced <= Len(files[fd])
    BY <1>10 DEF FilesInv
  <2>1. PICK kept \in synced .. Len(files[fd]) : files' = [files EXCEPT ![fd] = SubSeq(files[fd], 1, kept)]
    BY <1>10 DEF RecorderRestart
  <2>2. /\ SubSeq(files[fd], 1, kept) \in Seq(1 .. MaxSamples)
        /\ Len(SubSeq(files[fd], 1, kept)) = kept /\ IsPrefix(SubSeq(files[fd], 1, kept), files[fd])
        /\ kept \in Nat /\ kept >= synced /\ kept <= Len(files[fd])
    <3>1. files[fd] \in Seq(1 .. MaxSamples) /\ kept \in 0 .. Len(files[fd])
      BY <1>7, <2>0
    <3>2. /\ SubSeq(files[fd], 1, kept) \in Seq(1 .. MaxSamples)
          /\ Len(SubSeq(files[fd], 1, kept)) = kept /\ IsPrefix(SubSeq(files[fd], 1, kept), files[fd])
      BY <3>1, CutPrefix
    <3>3. kept \in Nat /\ kept >= synced /\ kept <= Len(files[fd])
      BY <1>7, <2>0
    <3> QED
      BY <3>2, <3>3
  <2>3. /\ DOMAIN files' = DOMAIN files /\ files'[fd] = SubSeq(files[fd], 1, kept)
        /\ \A f \in DOMAIN files : f # fd => files'[f] = files[f]
        /\ files' \in [DOMAIN files' -> Seq(1 .. MaxSamples)]
    BY <2>0, <2>1, <2>2 DEF FilesInv
  <2>4. \A f \in DOMAIN files' : Len(files'[f]) + Pending' <= sampled'
    <3>1. kept <= sampled
      BY <1>1, <1>7, <2>0, <2>2 DEF QueueInv
    <3> QED
      BY <1>6, <1>7, <2>2, <2>3, <3>1
  <2>5. pos' + Pending' <= sampled' /\ offset' + Pending' <= sampled' /\ synced' + Pending' <= sampled'
    BY <1>1, <1>6, <1>8
  <2>6. FilesInv'
    BY <1>1, <2>3, <2>4, <2>5 DEF FilesInv
  <2>7. Kept
    <3>1. ASSUME NEW f \in DOMAIN files, f # fd PROVE f \in DOMAIN files' /\ IsPrefix(files[f], files'[f])
      <4>1. files'[f] = files[f] /\ files[f] \in Seq(1 .. MaxSamples)
        BY <1>7, <2>3, <3>1
      <4> QED
        BY <2>3, <4>1, SamePrefix
    <3>2. fd \in DOMAIN files' /\ fd' = NoFile /\ IsPrefix(files'[fd], files[fd]) /\ Len(files'[fd]) >= synced
      BY <1>1, <2>0, <2>2, <2>3
    <3> QED
      BY <3>1, <3>2 DEF Kept
  <2> QED
    BY <1>5, <2>6, <2>7
<1> QED
  BY <1>9, <1>10 DEF RecorderRestart

-----------------------------------------------------------------------------
(* The rest of the control: settings_save has written none, one or both    *)
(* keys.                                                                   *)
Savings == [by : Channels \cup {"none", "wq"}, left : {Keys, <<"HEART_EN">>, <<>>}]

SettingsInv ==
  /\ pins \in 0 .. 1 /\ saved \in [HIS_SAVE : BOOLEAN, HEART_EN : BOOLEAN]
  /\ chan \in [Channels -> Todo]
  /\ saving \in Savings
  /\ rtu \in Kinds \cup {"none"} /\ conn \in {"none", "open", "reset"}
  /\ idle \in BOOLEAN /\ beat \in BOOLEAN /\ late \in BOOLEAN
  /\ link \in {"up", "dropping", "down"} /\ heart \in {"wait", "drop"}

settingsVars == <<pins, saved, chan, saving, rtu, conn, idle, beat, late, link, heart>>

LEMMA SettingsStutter == SettingsInv /\ UNCHANGED settingsVars => SettingsInv'
  BY DEF SettingsInv, settingsVars

LEMMA RegisterTypes ==
  /\ \A r \in Registers, d \in 0 .. 1 : [r EXCEPT !.DO = d] \in Registers
  /\ \A r \in Registers, b \in BOOLEAN :
       [r EXCEPT !.HIS_SAVE = b] \in Registers /\ [r EXCEPT !.HEART_EN = b] \in Registers
  BY DEF Registers

LEMMA KeysInOrder ==
  /\ Keys # <<>> /\ Head(Keys) = "HIS_SAVE" /\ Tail(Keys) = <<"HEART_EN">>
  /\ Head(<<"HEART_EN">>) = "HEART_EN" /\ Tail(<<"HEART_EN">>) = <<>>
  BY DEF Keys

LEMMA SaveKeyKeeps == ASSUME QueueInv, SettingsInv, SaveKey PROVE SettingsInv'
<1>1. /\ saving.left # <<>> /\ saving' = [saving EXCEPT !.left = Tail(saving.left)]
      /\ saved' = [saved EXCEPT ![Head(saving.left)] = regs[Head(saving.left)]]
      /\ UNCHANGED <<pins, chan, rtu, conn, idle, beat, late, link, heart>>
  BY DEF SaveKey, adu
<1>2. saving.left \in {Keys, <<"HEART_EN">>} /\ saving.by \in Channels \cup {"none", "wq"}
  BY <1>1 DEF SettingsInv, Savings
<1>3. Tail(saving.left) \in {Keys, <<"HEART_EN">>, <<>>} /\ Head(saving.left) \in {"HIS_SAVE", "HEART_EN"}
  BY <1>2, KeysInOrder
<1>4. saving' \in Savings
  BY <1>1, <1>3 DEF SettingsInv, Savings
<1>5. regs.HIS_SAVE \in BOOLEAN /\ regs.HEART_EN \in BOOLEAN
  BY DEF QueueInv, Registers
<1>6. saved' \in [HIS_SAVE : BOOLEAN, HEART_EN : BOOLEAN]
  <2>1. CASE Head(saving.left) = "HIS_SAVE"
    <3>1. saved' = [saved EXCEPT !.HIS_SAVE = regs.HIS_SAVE]
      BY <1>1, <2>1
    <3> QED
      BY <1>5, <3>1 DEF SettingsInv
  <2>2. CASE Head(saving.left) = "HEART_EN"
    <3>1. saved' = [saved EXCEPT !.HEART_EN = regs.HEART_EN]
      BY <1>1, <2>2
    <3> QED
      BY <1>5, <3>1 DEF SettingsInv
  <2> QED
    BY <1>3, <2>1, <2>2
<1> QED
  BY <1>1, <1>4, <1>6 DEF SettingsInv

LEMMA StartSavingTyped ==
  ASSUME NEW who \in Channels \cup {"none", "wq"}, StartSaving(who) \/ saving' = Unbusy
  PROVE  saving' \in Savings
  BY DEF StartSaving, Unbusy, Savings

(* What a step of the control does to the recorder.                        *)
LEMMA EffectKeeps ==
  ASSUME QueueInv, FilesInv, pins \in 0 .. 1, NEW kind, Effect(kind), wq = "idle", wq' \in {"idle", "save"}
  PROVE  QueueInv' /\ FilesInv' /\ Kept /\ pins' \in 0 .. 1
<1>1. UNCHANGED <<clock, setBack, sampled, data, fifo, cur, lock>>
  BY DEF Effect
<1>2. regs' \in Registers /\ pins' \in 0 .. 1
  <2>0. regs \in Registers
    BY DEF QueueInv
  <2>1. CASE kind = "DO1"
    <3>1. regs' = [regs EXCEPT !.DO = 1] /\ pins' = 1
      BY <2>1 DEF Effect
    <3> QED
      BY <2>0, <3>1 DEF Registers
  <2>2. CASE kind = "DO0"
    <3>1. regs' = [regs EXCEPT !.DO = 0] /\ pins' = 0
      BY <2>2 DEF Effect
    <3> QED
      BY <2>0, <3>1 DEF Registers
  <2>3. CASE kind = "HIS1"
    <3>1. regs' = [regs EXCEPT !.HIS_SAVE = TRUE] /\ pins' = pins
      BY <2>3 DEF Effect
    <3> QED
      BY <2>0, <3>1, RegisterTypes
  <2>4. CASE kind = "HIS0"
    <3>1. regs' = [regs EXCEPT !.HIS_SAVE = FALSE] /\ pins' = pins
      BY <2>4 DEF Effect
    <3> QED
      BY <2>0, <3>1, RegisterTypes
  <2>5. CASE kind \notin {"DO0", "DO1", "HIS0", "HIS1"}
    <3>1. regs' = regs /\ pins' = pins
      BY <2>5 DEF Effect
    <3> QED
      BY <2>0, <3>1
  <2> QED
    BY <2>1, <2>2, <2>3, <2>4, <2>5
<1>3. /\ enable' \in BOOLEAN /\ UNCHANGED <<files, pos, offset, synced, removed>>
      /\ UNCHANGED <<fd, gone>> \/ (fd' = NoFile /\ gone' = FALSE /\ wq # "append")
  <2>1. CASE kind \in {"HIS0", "HIS1"}
    <3>1. EnableWrite(kind = "HIS1")
      BY <2>1 DEF Effect
    <3> QED
      BY <3>1 DEF EnableWrite
  <2>2. CASE kind \notin {"HIS0", "HIS1"}
    <3>1. UNCHANGED <<enable, fileVars>>
      BY <2>2 DEF Effect
    <3> QED
      BY <3>1 DEF fileVars, QueueInv
  <2> QED
    BY <2>1, <2>2
<1> QED
  BY <1>1, <1>2, <1>3, RegistersKeep

LEMMA WorkQueueKeepsRecords ==
  ASSUME QueueInv, FilesInv, SettingsInv, WorkQueue
  PROVE  QueueInv' /\ FilesInv' /\ Kept /\ SettingsInv'
<1>0. pins \in 0 .. 1
  BY DEF SettingsInv
<1>1. CASE ExecuteRtu
  <2>1. /\ wq = "idle" /\ rtu' = "none" /\ Effect(rtu) /\ wq' \in {"idle", "save"}
        /\ UNCHANGED <<saved, chan, saving, conn, idle, late, link, heart, beat>>
    BY <1>1 DEF ExecuteRtu
  <2>2. QueueInv' /\ FilesInv' /\ Kept /\ pins' \in 0 .. 1
    BY <1>0, <2>1, EffectKeeps
  <2> QED
    BY <2>1, <2>2 DEF SettingsInv
<1>2. CASE ExecuteRaw
  <2>1. /\ wq = "idle" /\ Effect(raw.kind)
        /\ UNCHANGED <<saved, chan, saving, rtu, conn, idle, late, link, heart, beat>>
    BY <1>2 DEF ExecuteRaw
  <2>2. wq' \in {"idle", "save"}
    <3>1. CASE raw.kind = "SAVE"
      BY <1>2, <3>1 DEF ExecuteRaw
    <3>2. CASE raw.kind = "foreign"
      BY <1>2, <3>2 DEF ExecuteRaw
    <3>3. CASE raw.kind \notin {"SAVE", "foreign"}
      BY <1>2, <3>3 DEF ExecuteRaw
    <3> QED
      BY <3>1, <3>2, <3>3
  <2>3. QueueInv' /\ FilesInv' /\ Kept /\ pins' \in 0 .. 1
    BY <1>0, <2>1, <2>2, EffectKeeps
  <2> QED
    BY <2>1, <2>3 DEF SettingsInv
<1>3. CASE SaveAll
  <2>1. /\ UNCHANGED <<regs, clock, setBack, sampled, data, fifo, cur, enable, lock, fileVars>>
        /\ UNCHANGED <<pins, saved, chan, rtu, conn, idle, link, heart, beat, late>>
        /\ {wq, wq'} \subseteq {"idle", "save", "saving"}
        /\ StartSaving("wq") \/ saving' = Unbusy
    BY <1>3 DEF SaveAll
  <2>2. QueueInv' /\ FilesInv' /\ Kept
    <3>1. regs' \in Registers /\ enable' \in BOOLEAN
      BY <2>1 DEF QueueInv
    <3>2. UNCHANGED <<files, fd, pos, offset, gone, synced, removed>>
      BY <2>1 DEF fileVars
    <3> QED
      BY <2>1, <3>1, <3>2, RegistersKeep
  <2> QED
    BY <2>1, <2>2, StartSavingTyped DEF SettingsInv
<1> QED
  BY <1>1, <1>2, <1>3 DEF WorkQueue

LEMMA SwitchKeeps ==
  ASSUME QueueInv, FilesInv, SettingsInv, Link \/ HeartThread
  PROVE  QueueInv' /\ FilesInv' /\ Kept /\ SettingsInv'
<1>1. /\ UNCHANGED <<clock, setBack, sampled, data, fifo, wq, cur, enable, lock, fileVars>>
      /\ UNCHANGED <<saved, chan, saving, rtu, conn, idle, late>>
  BY DEF Link, LinkFails, LinkDrop, LinkUp, HeartThread, HeartBeat, HeartTimeout, HeartDrop, notDrop, adu
<1>2. regs' = regs \/ regs' = [regs EXCEPT !.DO = 0]
  BY DEF Link, LinkFails, LinkDrop, LinkUp, HeartThread, HeartBeat, HeartTimeout, HeartDrop, notDrop
<1>3. regs' \in Registers /\ enable' \in BOOLEAN
  BY <1>1, <1>2 DEF QueueInv, Registers
<1>4. QueueInv' /\ FilesInv' /\ Kept
  BY <1>1, <1>3, RegistersKeep DEF fileVars
<1>5. /\ pins' = pins \/ pins' = 0
      /\ link' = link \/ link' \in {"up", "dropping", "down"}
      /\ heart' = heart \/ heart' \in {"wait", "drop"}
      /\ beat' = beat \/ beat' = FALSE
  BY DEF Link, LinkFails, LinkDrop, LinkUp, HeartThread, HeartBeat, HeartTimeout, HeartDrop, notDrop
<1>6. /\ pins' \in 0 .. 1 /\ link' \in {"up", "dropping", "down"} /\ heart' \in {"wait", "drop"}
      /\ beat' \in BOOLEAN
  <2>1. pins' \in 0 .. 1
    BY <1>5 DEF SettingsInv
  <2>2. link' \in {"up", "dropping", "down"}
    BY <1>5 DEF SettingsInv
  <2>3. heart' \in {"wait", "drop"}
    BY <1>5 DEF SettingsInv
  <2>4. beat' \in BOOLEAN
    BY <1>5 DEF SettingsInv
  <2> QED
    BY <2>1, <2>2, <2>3, <2>4
<1> QED
  BY <1>1, <1>4, <1>6 DEF SettingsInv

LEMMA QueueStutters ==
  QueueInv /\ FilesInv /\ UNCHANGED recVars => QueueInv' /\ FilesInv' /\ Kept
<1> SUFFICES ASSUME QueueInv, FilesInv, UNCHANGED recVars PROVE QueueInv' /\ FilesInv' /\ Kept
  OBVIOUS
<1>1. regs' \in Registers /\ enable' \in BOOLEAN
  BY DEF recVars, QueueInv
<1> QED
  BY <1>1, RegistersKeep DEF recVars

LEMMA TcpKeepsRecords ==
  ASSUME QueueInv, FilesInv, SettingsInv,
         Tcp \/ \E kind \in Kinds : Request(kind) \/ ServeRtu(kind)
  PROVE  QueueInv' /\ FilesInv' /\ Kept /\ SettingsInv'
<1>1. ASSUME NEW kind \in Kinds, ServeRtu(kind) PROVE UNCHANGED recVars /\ SettingsInv'
  BY <1>1 DEF ServeRtu, SettingsInv
<1>2. ASSUME NEW kind \in Kinds, Request(kind) PROVE UNCHANGED recVars /\ SettingsInv'
  BY <1>2 DEF Request, SettingsInv, notTcp
<1>3. CASE Tcp
  <2>1. UNCHANGED notTcp
    BY <1>3 DEF Tcp, Connect, ConnIdle, PeerCloses, PeerResets, ReadReset, RequestLost, Reply, Expired, notTcp
  <2>2. /\ conn' = conn \/ conn' \in {"none", "open", "reset"}
        /\ idle' = idle \/ idle' \in BOOLEAN
        /\ beat' = beat \/ beat' = TRUE
        /\ late' = late \/ late' = (late \/ raw # None \/ exec # None)
    BY <1>3 DEF Tcp, Connect, ConnIdle, PeerCloses, PeerResets, ReadReset, RequestLost, Reply, Expired
  <2>3. conn' \in {"none", "open", "reset"} /\ idle' \in BOOLEAN /\ beat' \in BOOLEAN /\ late' \in BOOLEAN
    <3>1. conn' \in {"none", "open", "reset"}
      BY <2>2 DEF SettingsInv
    <3>2. idle' \in BOOLEAN /\ beat' \in BOOLEAN
      BY <2>2 DEF SettingsInv
    <3>3. late' \in BOOLEAN
      BY <2>2 DEF SettingsInv
    <3> QED
      BY <3>1, <3>2, <3>3
  <2> QED
    BY <2>1, <2>3, QueueStutters DEF notTcp, SettingsInv
<1> QED
  BY <1>1, <1>2, <1>3, QueueStutters

LEMMA CommonKeepsRecords ==
  ASSUME QueueInv, FilesInv, SettingsInv, Common
  PROVE  QueueInv' /\ FilesInv' /\ Kept /\ SettingsInv'
<1>1. CASE SaveKey
  BY <1>1, SaveKeyKeeps, QueueStutters DEF SaveKey
<1>2. ASSUME NEW c \in Channels, SaveSet(c) PROVE QueueInv' /\ FilesInv' /\ Kept /\ SettingsInv'
  <2>1. /\ UNCHANGED recVars /\ UNCHANGED <<pins, saved, rtu, conn, idle, beat, late, link, heart>>
        /\ chan' = chan \/ chan' = [chan EXCEPT ![c] = "none"]
        /\ StartSaving(c) \/ saving' = Unbusy
    BY <1>2 DEF SaveSet, adu
  <2>2. chan' \in [Channels -> Todo]
    BY <2>1 DEF SettingsInv, Todo
  <2> QED
    BY <2>1, <2>2, QueueStutters, StartSavingTyped DEF SettingsInv
<1>3. ASSUME NEW c \in Channels, EnableHistory(c) PROVE QueueInv' /\ FilesInv' /\ Kept /\ SettingsInv'
  <2>1. /\ UNCHANGED <<regs, clock, setBack, sampled, data, fifo, wq, cur, lock>>
        /\ UNCHANGED <<pins, saved, saving, rtu, conn, idle, beat, late, link, heart>>
        /\ lock = "none" /\ chan' = [chan EXCEPT ![c] = "save"] /\ EnableWrite(chan[c] = "his_on")
    BY <1>3 DEF EnableHistory, adu
  <2>2. /\ enable' \in BOOLEAN /\ UNCHANGED <<files, pos, offset, synced, removed>>
        /\ UNCHANGED <<fd, gone>> \/ (fd' = NoFile /\ gone' = FALSE)
    BY <2>1 DEF EnableWrite
  <2>3. wq # "append"
    BY <2>1 DEF FilesInv
  <2>4. regs' \in Registers
    BY <2>1 DEF QueueInv
  <2>5. chan' \in [Channels -> Todo]
    BY <2>1 DEF SettingsInv, Todo
  <2>6. QueueInv' /\ FilesInv' /\ Kept
    BY <2>1, <2>2, <2>3, <2>4, RegistersKeep
  <2> QED
    BY <2>1, <2>5, <2>6 DEF SettingsInv
<1> QED
  BY <1>1, <1>2, <1>3 DEF Common, Configure

LEMMA SetKeeps ==
  ASSUME QueueInv, FilesInv, SettingsInv, NEW c \in Channels, NEW value \in Registers,
         NEW todo \in Todo, Set(c, value, todo)
  PROVE  QueueInv' /\ FilesInv' /\ Kept /\ SettingsInv'
<1>1. /\ regs' = value /\ chan' = [chan EXCEPT ![c] = todo]
      /\ UNCHANGED <<clock, setBack, sampled, data, fifo, wq, cur, enable, lock, fileVars>>
      /\ UNCHANGED <<pins, saved, saving, rtu, conn, idle, beat, late, link, heart>>
  BY DEF Set, adu
<1>2. chan' \in [Channels -> Todo]
  BY <1>1 DEF SettingsInv
<1>3. regs' \in Registers /\ enable' \in BOOLEAN
  BY <1>1 DEF QueueInv
<1>4. QueueInv' /\ FilesInv' /\ Kept
  BY <1>1, <1>3, RegistersKeep DEF fileVars
<1> QED
  BY <1>1, <1>2, <1>4 DEF SettingsInv

LEMMA MastersKeepRecords ==
  ASSUME QueueInv, FilesInv, SettingsInv, Masters
  PROVE  QueueInv' /\ FilesInv' /\ Kept /\ SettingsInv'
<1>1. ASSUME NEW c \in Channels, SetHeart(c) PROVE QueueInv' /\ FilesInv' /\ Kept /\ SettingsInv'
  <2>1. PICK on \in BOOLEAN : Set(c, [regs EXCEPT !.HEART_EN = on], "save")
    BY <1>1 DEF SetHeart
  <2>2. [regs EXCEPT !.HEART_EN = on] \in Registers /\ "save" \in Todo
    BY DEF QueueInv, Registers, Todo
  <2> QED
    BY <2>1, <2>2, SetKeeps
<1> QED
  BY <1>1, WorkQueueKeepsRecords, SwitchKeeps, TcpKeepsRecords DEF Masters

LEMMA SettingsKeepRecords ==
  ASSUME QueueInv, FilesInv, SettingsInv, Settings
  PROVE  QueueInv' /\ FilesInv' /\ Kept /\ SettingsInv'
<1>1. CASE Restart
  <2>1. /\ pins' = 0 /\ regs' = [DO |-> 0, HIS_SAVE |-> saved.HIS_SAVE, HEART_EN |-> saved.HEART_EN]
        /\ chan' = [c \in Channels |-> "none"] /\ saving' = Unbusy
        /\ rtu' = "none" /\ conn' = "none" /\ idle' = FALSE
        /\ link' = "up" /\ heart' = "wait" /\ beat' = FALSE /\ late' = FALSE
        /\ RecorderRestart /\ saved' = saved
    BY <1>1 DEF Restart, Booted
  <2>2. regs' \in Registers
    BY <2>1 DEF SettingsInv, Registers
  <2>3. chan' \in [Channels -> Todo]
    BY <2>1 DEF Todo
  <2>4. saving' \in Savings
    BY <2>1 DEF Unbusy, Savings
  <2>5. SettingsInv'
    <3>1. pins' \in 0 .. 1 /\ saved' \in [HIS_SAVE : BOOLEAN, HEART_EN : BOOLEAN]
      BY <2>1 DEF SettingsInv
    <3>2. rtu' \in Kinds \cup {"none"} /\ conn' \in {"none", "open", "reset"}
      BY <2>1
    <3>3. idle' \in BOOLEAN /\ beat' \in BOOLEAN /\ late' \in BOOLEAN
      BY <2>1
    <3>4. link' \in {"up", "dropping", "down"} /\ heart' \in {"wait", "drop"}
      BY <2>1
    <3> QED
      BY <2>3, <2>4, <3>1, <3>2, <3>3, <3>4 DEF SettingsInv
  <2> QED
    BY <2>1, <2>2, <2>5, RestartKeeps
<1>2. CASE SetClock
  BY <1>2, ClockKeeps DEF SetClock, SettingsInv, adu
<1>3. ASSUME NEW c \in Channels, SetOther(c) \/ SetSample(c)
      PROVE  QueueInv' /\ FilesInv' /\ Kept /\ SettingsInv'
  <2>1. CASE SetOther(c)
    <3>1. regs \in Registers /\ "save" \in Todo
      BY DEF QueueInv, Todo
    <3> QED
      BY <2>1, <3>1, SetKeeps DEF SetOther
  <2>2. CASE SetSample(c)
    <3>1. PICK on \in BOOLEAN :
            Set(c, [regs EXCEPT !.HIS_SAVE = on], IF on THEN "his_on" ELSE "his_off")
      BY <2>2 DEF SetSample
    <3>2. /\ [regs EXCEPT !.HIS_SAVE = on] \in Registers
          /\ (IF on THEN "his_on" ELSE "his_off") \in Todo
      BY DEF QueueInv, Registers, Todo
    <3> QED
      BY <3>1, <3>2, SetKeeps
  <2> QED
    BY <1>3, <2>1, <2>2
<1> QED
  BY <1>1, <1>2, <1>3 DEF Settings

-----------------------------------------------------------------------------
LEMMA RecorderKeeps ==
  ASSUME QueueInv, FilesInv, Record \/ Sampling
  PROVE  QueueInv' /\ FilesInv' /\ Kept
<1>1. CASE Record
  BY <1>1, TakeKeeps, PassedOver, OpenFileKeeps, OpenFailsKeeps, AppendKeeps DEF Record
<1>2. CASE Sampling
  BY <1>2, ClockKeeps, SampleKeeps DEF Sampling
<1> QED
  BY <1>1, <1>2

LEMMA FtpKeepsRecords ==
  ASSUME QueueInv, FilesInv, FtpNext PROVE QueueInv' /\ FilesInv' /\ Kept
<1>1. CASE UNCHANGED recVars
  BY <1>1, QueueStutters
<1>2. ASSUME NEW i \in Slots, Delete(i) PROVE QueueInv' /\ FilesInv' /\ Kept
  <2>1. \/ UNCHANGED recVars
        \/ /\ \E f \in Seconds : RemoveFile(f)
           /\ UNCHANGED <<regs, clock, setBack, sampled, data, fifo, wq, cur, enable, lock>>
    BY <1>2 DEF Delete
  <2> QED
    BY <1>1, <2>1, RemoveKeeps
<1>3. CASE Accept \/ Job
  BY <1>1, <1>3 DEF Accept, Job, DataConnection, NoConnection, List, Retr, SendBlock, Stor, StoreBlock
<1>4. ASSUME NEW i \in Slots,
             \/ Close(i) \/ User(i) \/ Pass(i) \/ Port(i) \/ Pasv(i) \/ Cwd(i) \/ Rest(i)
             \/ Query(i) \/ Size(i) \/ MakeDirectory(i)
      PROVE  UNCHANGED recVars
  BY <1>4 DEF Close, User, Pass, Port, Pasv, Cwd, Rest, Query, Size, MakeDirectory, Answer
<1>5. ASSUME NEW i \in Slots, NEW kind, Transfer(i, kind) PROVE UNCHANGED recVars
  BY <1>5 DEF Transfer
<1> QED
  BY <1>1, <1>2, <1>3, <1>4, <1>5 DEF FtpNext

RecordsInv == QueueInv /\ FilesInv /\ SettingsInv

LEMMA RecordsStep == RecordsInv /\ [Next]_vars => RecordsInv' /\ Kept
<1> SUFFICES ASSUME QueueInv, FilesInv, SettingsInv, [Next]_vars
             PROVE  QueueInv' /\ FilesInv' /\ Kept /\ SettingsInv'
  BY DEF RecordsInv
<1>1. CASE UNCHANGED <<recVars, ctlVars>>
  BY <1>1, QueueStutters, SettingsStutter DEF ctlVars, settingsVars
<1>2. CASE (Record \/ Sampling) /\ UNCHANGED ctlVars
  BY <1>2, RecorderKeeps, SettingsStutter DEF ctlVars, settingsVars
<1>3. CASE Common \/ Masters \/ Settings
  BY <1>3, CommonKeepsRecords, MastersKeepRecords, SettingsKeepRecords
<1>4. CASE FtpNext /\ UNCHANGED ctlVars
  BY <1>4, FtpKeepsRecords, SettingsStutter DEF ctlVars, settingsVars
<1> QED
  BY <1>1, <1>2, <1>3, <1>4 DEF Next, Recorder, Control, Ftp, Network, vars, boardVars

LEMMA RecordsAtFirst == Init => RecordsInv
<1> SUFFICES ASSUME Init PROVE QueueInv /\ FilesInv /\ SettingsInv
  BY DEF RecordsInv
<1>1. /\ pins = 0 /\ saved = [HIS_SAVE |-> clients # "masters", HEART_EN |-> FALSE]
      /\ regs = [DO |-> 0, HIS_SAVE |-> clients # "masters", HEART_EN |-> FALSE]
      /\ chan = [c \in Channels |-> "none"] /\ saving = Unbusy
      /\ rtu = "none" /\ conn = "none" /\ idle = FALSE
      /\ link = "up" /\ heart = "wait" /\ beat = FALSE /\ late = FALSE /\ RecorderInit
  BY DEF Init, ControlInit
<1>2. SettingsInv
  <2>1. saving \in Savings
    BY <1>1 DEF Unbusy, Savings
  <2>2. chan \in [Channels -> Todo]
    BY <1>1 DEF Todo
  <2>3. saved \in [HIS_SAVE : BOOLEAN, HEART_EN : BOOLEAN]
    BY <1>1
  <2>4. pins \in 0 .. 1 /\ rtu \in Kinds \cup {"none"} /\ conn \in {"none", "open", "reset"}
    BY <1>1
  <2>5. idle \in BOOLEAN /\ beat \in BOOLEAN /\ late \in BOOLEAN
    BY <1>1
  <2>6. link \in {"up", "dropping", "down"} /\ heart \in {"wait", "drop"}
    BY <1>1
  <2> QED
    BY <2>1, <2>2, <2>3, <2>4, <2>5, <2>6 DEF SettingsInv
<1>3. QueueInv
  <2>1. /\ clock = 1 /\ setBack = FALSE /\ sampled = 0 /\ data = [p \in Samplers |-> 0]
        /\ fifo = <<>> /\ wq = "idle" /\ cur \in Samplers /\ enable = regs.HIS_SAVE /\ lock = "none"
    BY <1>1 DEF RecorderInit
  <2>2. regs \in Registers /\ enable \in BOOLEAN
    BY <1>1, <2>1 DEF Registers
  <2>3. clock \in Seconds /\ data \in [Samplers -> 0 .. MaxSamples] /\ sampled \in 0 .. MaxSamples
    BY <2>1, RecorderConstants DEF Seconds
  <2>4. fifo \in Seq(Samplers) /\ Len(fifo) = 0 /\ Pending = 0
    BY <2>1 DEF Pending
  <2>5. Len(fifo) <= QueueSize /\ Pending <= sampled /\ \A i \in 1 .. Len(fifo) : data[fifo[i]] > 0
    BY <2>1, <2>4, RecorderConstants
  <2> QED
    BY <2>1, <2>2, <2>3, <2>4, <2>5 DEF QueueInv
<1>4. DOMAIN files = {} /\ files = NoFiles
  BY <1>1 DEF RecorderInit, NoFiles
<1>5. Cardinality(DOMAIN files) = 0
  BY <1>4, FS_EmptySet
<1>6. FilesInv
  <2>1. /\ sampled = 0 /\ fifo = <<>> /\ wq = "idle" /\ fd = NoFile /\ pos = 0 /\ offset = 0
        /\ gone = FALSE /\ synced = 0 /\ removed = {}
    BY <1>1 DEF RecorderInit
  <2>2. Pending = 0
    BY <2>1 DEF Pending
  <2>3. files \in [DOMAIN files -> Seq(1 .. MaxSamples)]
    BY <1>4 DEF NoFiles
  <2>4. pos + Pending <= sampled /\ offset + Pending <= sampled /\ synced + Pending <= sampled
    BY <2>1, <2>2
  <2>5. Cardinality(DOMAIN files) <= MaxFiles
    BY <1>5, RecorderConstants
  <2> QED
    BY <1>4, <2>1, <2>3, <2>4, <2>5 DEF FilesInv
<1> QED
  BY <1>2, <1>3, <1>6

(* What is in a data file stays there: only the oldest of MAX_FILE_NUM     *)
(* files, a file a client removes and what was not yet synced at a power   *)
(* cut may go, if the clock is not set back (history.c:101-129).           *)
THEOREM RecordsStay == Spec => RecordsKept
<1>1. RecordsInv /\ [Next]_vars => [Kept]_recVars
  BY RecordsStep
<1>2. RecordsKept <=> [][Kept]_recVars
  BY PTL DEF RecordsKept, Kept
<1> QED
  BY <1>1, <1>2, RecordsStep, RecordsAtFirst, PTL DEF Spec

-----------------------------------------------------------------------------
(***************************************************************************)
(* The types                                                               *)
(***************************************************************************)

Jobs == [kind : {"none", "LIST", "RETR", "STOR", "sending", "storing"}, slot : Slots,
         path : Paths, waits : BOOLEAN, left : 0 .. 2]

(* What is still to be stored has room behind what is.                     *)
JobInv ==
  /\ job \in Jobs /\ upload \in Seq({"chunk"}) /\ Len(upload) <= 2
  /\ job.kind = "storing" => Len(upload) + job.left <= 2
  /\ answer \in {"none", "done", "refused", "aborted", "nothing"}
  /\ users \in 0 .. MaxUsers /\ orders \in 0 .. MaxOrders

Served == {i \in Slots : sess[i].fd}

LEMMA FtpConstants ==
  /\ MaxSessions \in Nat /\ MaxSessions > 0 /\ MaxUsers \in Nat /\ MaxOrders \in Nat
  BY FtpAssumption

LEMMA IdleJob == Idle \in Jobs /\ Idle.kind = "none"
<1>1. 1 \in Slots
  BY FtpConstants DEF Slots
<1> QED
  BY <1>1 DEF Idle, Jobs, Paths

LEMMA JobTypes ==
  \A j \in Jobs, n \in 0 .. 2, k \in {"sending", "storing"} :
    /\ [j EXCEPT !.kind = k, !.left = n] \in Jobs
    /\ [j EXCEPT !.kind = k, !.left = n].kind = k
    /\ [j EXCEPT !.kind = k, !.left = n].left = n
  BY DEF Jobs

LEMMA EmptyUpload == <<>> \in Seq({"chunk"}) /\ Len(<<>>) = 0
  OBVIOUS

LEMMA OrderCounts ==
  ASSUME JobInv, NEW i, NEW state, Order(i, state)
  PROVE  orders' \in 0 .. MaxOrders /\ users' \in 0 .. MaxUsers /\ job = Idle
  BY FtpConstants DEF JobInv, Order

LEMMA AnswersKeepJob ==
  ASSUME JobInv, NEW a \in {"done", "refused", "nothing"}, Answer(a),
         orders' \in 0 .. MaxOrders, users' \in 0 .. MaxUsers
  PROVE  JobInv'
  BY DEF JobInv, Answer

LEMMA CommandsKeepJob ==
  ASSUME JobInv, NEW i \in Slots,
         \/ User(i) \/ Pass(i) \/ Port(i) \/ Pasv(i) \/ Cwd(i) \/ Rest(i)
         \/ Query(i) \/ Size(i) \/ MakeDirectory(i)
  PROVE  JobInv'
<1>1. /\ \E state : Order(i, state)
      /\ \E a \in {"done", "refused", "nothing"} : Answer(a)
  <2>1. CASE User(i)
    BY <2>1 DEF User
  <2>2. CASE Pass(i)
    BY <2>2 DEF Pass
  <2>3. CASE Port(i)
    BY <2>3 DEF Port
  <2>4. CASE Pasv(i) \/ Cwd(i)
    BY <2>4 DEF Pasv, Cwd
  <2>5. CASE Rest(i)
    BY <2>5 DEF Rest
  <2>6. CASE Query(i) \/ Size(i) \/ MakeDirectory(i)
    BY <2>6 DEF Query, Size, MakeDirectory
  <2> QED
    BY <2>1, <2>2, <2>3, <2>4, <2>5, <2>6
<1> QED
  BY <1>1, OrderCounts, AnswersKeepJob

LEMMA DeleteKeepsJob == ASSUME JobInv, NEW i \in Slots, Delete(i) PROVE JobInv'
<1>1. /\ Order(i, "ok") /\ job' = job
      /\ answer' \in {"done", "refused", "nothing"} /\ (upload' = upload \/ upload' = <<>>)
  BY DEF Delete
<1>2. orders' \in 0 .. MaxOrders /\ users' \in 0 .. MaxUsers /\ job.kind # "storing"
  BY <1>1, OrderCounts, IdleJob
<1>3. upload' \in Seq({"chunk"}) /\ Len(upload') <= 2
  <2>1. CASE upload' = upload
    BY <2>1 DEF JobInv
  <2>2. CASE upload' = <<>>
    BY <2>2, EmptyUpload
  <2> QED
    BY <1>1, <2>1, <2>2
<1> QED
  BY <1>1, <1>2, <1>3 DEF JobInv

LEMMA TransferKeepsJob ==
  ASSUME JobInv, OwnersInv, NEW i \in Slots, NEW kind \in {"LIST", "RETR", "STOR"}, Transfer(i, kind)
  PROVE  JobInv'
<1> DEFINE s == IF kind = "STOR" THEN [sess[i] EXCEPT !.offset = 0] ELSE sess[i]
<1>1. Order(i, "ok") /\ upload' = upload
  BY DEF Transfer
<1>2. orders' \in 0 .. MaxOrders /\ users' \in 0 .. MaxUsers
  BY <1>1, OrderCounts
<1>3. s.pasv \in BOOLEAN
  BY DEF OwnersInv, Honest
<1>4. CASE answer' = "refused" /\ job' = job
  BY <1>1, <1>2, <1>4 DEF JobInv
<1>5. ASSUME NEW path \in Paths, answer' = answer,
             job' = [kind |-> kind, slot |-> i, path |-> path, waits |-> s.pasv, left |-> 0]
      PROVE  JobInv'
  <2>1. job' \in Jobs /\ job'.kind # "storing"
    BY <1>3, <1>5 DEF Jobs
  <2> QED
    BY <1>1, <1>2, <1>5, <2>1 DEF JobInv
<1> QED
  BY <1>4, <1>5 DEF Transfer

LEMMA JobStepKeepsJob == ASSUME JobInv, OwnersInv, Job PROVE JobInv'
<1>0. users' = users /\ orders' = orders
  BY DEF Job, DataConnection, NoConnection, List, Retr, SendBlock, Stor, StoreBlock
<1>1. ASSUME NEW a \in {"done", "refused", "aborted", "nothing"}, Over(a), upload' = upload PROVE JobInv'
  BY <1>0, <1>1, IdleJob DEF JobInv, Over
<1>2. CASE DataConnection
  <2>1. job' = [job EXCEPT !.waits = FALSE] /\ UNCHANGED <<upload, answer>>
    BY <1>2 DEF DataConnection
  <2>2. job' \in Jobs /\ job'.kind = job.kind /\ job'.left = job.left
    BY <2>1 DEF JobInv, Jobs
  <2> QED
    BY <1>0, <2>1, <2>2 DEF JobInv
<1>3. CASE NoConnection \/ List
  BY <1>1, <1>3 DEF NoConnection, List
<1>4. CASE Retr
  <2>1. CASE job' = [job EXCEPT !.kind = "sending", !.left = 2 - Session.offset] /\ answer' = answer
    <3>1. Session.offset \in 0 .. 1
      BY DEF Session, JobInv, Jobs, OwnersInv, Honest
    <3>2. 2 - Session.offset \in 0 .. 2
      BY <3>1
    <3>3. job' \in Jobs /\ job'.kind = "sending"
      BY <2>1, <3>2, JobTypes DEF JobInv
    <3> QED
      BY <1>0, <1>4, <2>1, <3>3 DEF JobInv, Retr
  <2> QED
    BY <1>1, <1>4, <2>1 DEF Retr
<1>5. CASE SendBlock
  <2>1. CASE job.left > 0 /\ job' = [job EXCEPT !.left = @ - 1] /\ answer' = answer
    <3>1. job' \in Jobs /\ job'.kind # "storing" /\ upload' = upload
      BY <1>5, <2>1 DEF JobInv, Jobs, SendBlock
    <3> QED
      BY <1>0, <2>1, <3>1 DEF JobInv
  <2> QED
    BY <1>1, <1>5, <2>1 DEF SendBlock
<1>6. CASE Stor
  <2>1. CASE upload' = <<>> /\ answer' = answer /\ job' = [job EXCEPT !.kind = "storing", !.left = 2]
    <3>0. job \in Jobs /\ 2 \in 0 .. 2 /\ "storing" \in {"sending", "storing"}
      BY DEF JobInv
    <3>1. job' \in Jobs /\ job'.left = 2
      BY <2>1, <3>0, JobTypes, Zenon
    <3>2. upload' = <<>> /\ answer' = answer
      BY <2>1
    <3>3. upload' \in Seq({"chunk"}) /\ Len(upload') = 0
      BY <3>2, EmptyUpload
    <3> QED
      BY <1>0, <3>1, <3>2, <3>3 DEF JobInv
  <2> QED
    BY <1>1, <1>6, <2>1 DEF Stor
<1>7. CASE StoreBlock
  <2>1. CASE job.left > 0 /\ job' = [job EXCEPT !.left = @ - 1] /\ upload' = Append(upload, "chunk") /\ answer' = answer
    <3>1. /\ job.kind = "storing" /\ job.left \in 0 .. 2 /\ job' \in Jobs /\ job'.left = job.left - 1
      BY <1>7, <2>1 DEF JobInv, Jobs, StoreBlock
    <3>2. upload' \in Seq({"chunk"}) /\ Len(upload') = Len(upload) + 1 /\ Len(upload) \in Nat
      BY <2>1 DEF JobInv
    <3>3. Len(upload') + job'.left <= 2 /\ Len(upload') <= 2
      BY <2>1, <3>1, <3>2 DEF JobInv
    <3> QED
      BY <1>0, <2>1, <3>1, <3>2, <3>3 DEF JobInv
  <2> QED
    BY <1>1, <1>7, <2>1 DEF StoreBlock
<1> QED
  BY <1>2, <1>3, <1>4, <1>5, <1>6, <1>7 DEF Job

LEMMA FtpKeepsJob == ASSUME JobInv, OwnersInv, FtpNext PROVE JobInv'
<1>1. CASE Accept
  <2>1. users' = users + 1 /\ users < MaxUsers /\ UNCHANGED <<job, upload, answer, orders>>
    BY <1>1 DEF Accept
  <2>2. users' \in 0 .. MaxUsers
    BY <2>1, FtpConstants DEF JobInv
  <2> QED
    BY <2>1, <2>2 DEF JobInv
<1>2. ASSUME NEW i \in Slots, Close(i) PROVE JobInv'
  BY <1>2 DEF Close, JobInv
<1> QED
  BY <1>1, <1>2, CommandsKeepJob, DeleteKeepsJob, TransferKeepsJob, JobStepKeepsJob DEF FtpNext

-----------------------------------------------------------------------------
(* Nobody but Accept takes an entry, and Accept only where one is left.    *)
NoneJoins == \A j \in Slots : sess'[j].fd => sess[j].fd

LEMMA SameSessions == sess' = sess => NoneJoins
  BY DEF NoneJoins

LEMMA OneLeaves ==
  ASSUME OwnersInv, NEW i, NEW s, sess' = [sess EXCEPT ![i] = s], i \in Slots => (s.fd => sess[i].fd)
  PROVE  NoneJoins
  BY DEF OwnersInv, NoneJoins

LEMMA CommandsServe ==
  ASSUME OwnersInv, NEW i \in Slots,
         \/ Close(i) \/ User(i) \/ Pass(i) \/ Port(i) \/ Pasv(i) \/ Cwd(i) \/ Rest(i) \/ Delete(i)
         \/ Query(i) \/ Size(i) \/ MakeDirectory(i) \/ \E kind : Transfer(i, kind)
  PROVE  NoneJoins
<1>0. sess \in [Slots -> Honest]
  BY DEF OwnersInv
<1>1. CASE sess' = sess
  BY <1>1, SameSessions
<1>2. CASE Close(i)
  BY <1>2, OneLeaves DEF Close
<1>3. ASSUME NEW a, NEW b, NEW c, NEW d,
             \/ sess' = [sess EXCEPT ![i].anonymous = a, ![i].state = b, ![i].proved = c, ![i].dir = d]
             \/ sess' = [sess EXCEPT ![i].anonymous = a, ![i].state = b, ![i].proved = c]
             \/ sess' = [sess EXCEPT ![i].state = b, ![i].dir = d, ![i].proved = c]
             \/ sess' = [sess EXCEPT ![i].pasv = a] \/ sess' = [sess EXCEPT ![i].dir = d]
             \/ sess' = [sess EXCEPT ![i].offset = a]
      PROVE  NoneJoins
  BY <1>0, <1>3 DEF Honest, NoneJoins
<1>4. CASE User(i)
  <2>1. PICK name, state_ :
          sess' = CASE name = "anonymous" ->
                        [sess EXCEPT ![i].anonymous = TRUE, ![i].state = "ok", ![i].proved = FALSE,
                                     ![i].dir = IF state_ = "ok" THEN "root" ELSE @]
                   [] name = "admin" ->
                        [sess EXCEPT ![i].anonymous = FALSE, ![i].state = "passwd", ![i].proved = FALSE]
                   [] OTHER -> sess
    BY <1>4 DEF User
  <2>2. CASE name = "anonymous"
    <3>1. sess' = [sess EXCEPT ![i].anonymous = TRUE, ![i].state = "ok", ![i].proved = FALSE,
                               ![i].dir = IF state_ = "ok" THEN "root" ELSE sess[i].dir]
      BY <2>1, <2>2, <1>0 DEF Honest
    <3> QED
      BY <1>3, <3>1
  <2>3. CASE name = "admin"
    BY <1>3, <2>1, <2>3
  <2>4. CASE name \notin {"anonymous", "admin"}
    BY <1>1, <2>1, <2>4
  <2> QED
    BY <2>2, <2>3, <2>4
<1>5. CASE Pass(i)
  <2>1. \/ sess' = sess \/ sess' = [sess EXCEPT ![i].dir = "root"]
        \/ \E right \in BOOLEAN :
             sess' = [sess EXCEPT ![i].state = "ok", ![i].dir = "root", ![i].proved = right]
    BY <1>5 DEF Pass
  <2>2. ASSUME NEW right, sess' = [sess EXCEPT ![i].state = "ok", ![i].dir = "root", ![i].proved = right]
        PROVE  NoneJoins
    BY <1>3, <2>2
  <2>3. ASSUME sess' = [sess EXCEPT ![i].dir = "root"] PROVE NoneJoins
    BY <1>3, <2>3
  <2> QED
    BY <1>1, <2>1, <2>2, <2>3
<1>6. CASE Port(i)
  <2> DEFINE closed == IF sess[i].port THEN Unplugged(sess[i]) ELSE sess[i]
  <2>1. \A s \in Honest : Unplugged(s) \in Honest /\ Unplugged(s).fd = s.fd
    BY DEF Honest, Unplugged
  <2>2. \A s \in Honest : [s EXCEPT !.port = TRUE].fd = s.fd
    BY DEF Honest
  <2>3. sess[i] \in Honest /\ closed \in Honest /\ closed.fd = sess[i].fd
    BY <1>0, <2>1
  <2> HIDE DEF closed
  <2>4. \/ sess' = [sess EXCEPT ![i] = [closed EXCEPT !.port = TRUE]]
        \/ sess' = [sess EXCEPT ![i] = closed]
        \/ sess' = [sess EXCEPT ![i] = Unplugged(closed)]
    BY <1>6 DEF Port, closed
  <2> QED
    BY <2>1, <2>2, <2>3, <2>4, OneLeaves
<1>7. CASE Pasv(i) \/ Cwd(i) \/ Rest(i)
  BY <1>3, <1>7 DEF Pasv, Cwd, Rest
<1>8. CASE Delete(i) \/ Query(i) \/ Size(i) \/ MakeDirectory(i)
  BY <1>1, <1>8 DEF Delete, Query, Size, MakeDirectory
<1>9. ASSUME NEW kind, Transfer(i, kind) PROVE NoneJoins
  <2> DEFINE s == IF kind = "STOR" THEN [sess[i] EXCEPT !.offset = 0] ELSE sess[i]
  <2>1. sess' = [sess EXCEPT ![i] = s]
    BY <1>9 DEF Transfer
  <2>2. s.fd = sess[i].fd
    BY <1>0 DEF Honest
  <2> QED
    BY <2>1, <2>2, OneLeaves
<1> QED
  BY <1>2, <1>4, <1>5, <1>6, <1>7, <1>8, <1>9

LEMMA JobServes == ASSUME OwnersInv, Job PROVE NoneJoins
<1> DEFINE i == job.slot
<1>0. sess \in [Slots -> Honest]
  BY DEF OwnersInv
<1>1. CASE sess' = sess
  BY <1>1, SameSessions
<1>2. ASSUME NEW a, \/ sess' = [sess EXCEPT ![i].offset = a] \/ sess' = [sess EXCEPT ![i].port = a]
                    \/ sess' = [sess EXCEPT ![i] = Unplugged(@)]
                    \/ sess' = [sess EXCEPT ![i] = [Unplugged(@) EXCEPT !.offset = 0]]
      PROVE  NoneJoins
  <2>1. CASE i \notin Slots
    BY <1>0, <1>2, <2>1 DEF NoneJoins
  <2>2. CASE i \in Slots
    <3>1. /\ [sess[i] EXCEPT !.offset = a].fd = sess[i].fd /\ [sess[i] EXCEPT !.port = a].fd = sess[i].fd
          /\ Unplugged(sess[i]).fd = sess[i].fd
          /\ [Unplugged(sess[i]) EXCEPT !.offset = 0].fd = sess[i].fd
      BY <1>0, <2>2 DEF Honest, Unplugged
    <3>2. ASSUME NEW s, s.fd = sess[i].fd, sess' = [sess EXCEPT ![i] = s] PROVE NoneJoins
      BY <3>2, OneLeaves
    <3>3. \/ sess' = [sess EXCEPT ![i] = [sess[i] EXCEPT !.offset = a]]
          \/ sess' = [sess EXCEPT ![i] = [sess[i] EXCEPT !.port = a]]
          \/ sess' = [sess EXCEPT ![i] = Unplugged(sess[i])]
          \/ sess' = [sess EXCEPT ![i] = [Unplugged(sess[i]) EXCEPT !.offset = 0]]
      BY <1>2, <2>2, <1>0
    <3> QED
      BY <3>1, <3>2, <3>3
  <2> QED
    BY <2>1, <2>2
<1>3. CASE DataConnection
  BY <1>2, <1>3 DEF DataConnection
<1>4. CASE NoConnection
  BY <1>1, <1>2, <1>4 DEF NoConnection, Forgotten
<1>5. CASE List
  BY <1>1, <1>2, <1>5 DEF List
<1>6. CASE Retr
  BY <1>1, <1>2, <1>6 DEF Retr, Forgotten
<1>7. CASE SendBlock
  BY <1>1, <1>2, <1>7 DEF SendBlock
<1>8. CASE Stor \/ StoreBlock
  BY <1>1, <1>2, <1>8 DEF Stor, StoreBlock
<1> QED
  BY <1>3, <1>4, <1>5, <1>6, <1>7, <1>8 DEF Job

LEMMA ServedFinite ==
  /\ IsFiniteSet(Served) /\ Cardinality(Served) \in Nat
  /\ IsFiniteSet(Served') /\ Cardinality(Served') \in Nat
<1>1. IsFiniteSet(Slots)
  BY FS_Interval, FtpConstants DEF Slots
<1>2. Served \subseteq Slots /\ Served' \subseteq Slots
  BY DEF Served
<1> QED
  BY <1>1, <1>2, FS_Subset, FS_CardinalityType

LEMMA AcceptServes ==
  ASSUME OwnersInv, Cardinality(Served) <= MaxSessions, Accept
  PROVE  Cardinality(Served') <= MaxSessions
<1>1. CASE sess' = sess
  <2>1. Served' = Served
    BY <1>1 DEF Served
  <2> QED
    BY <2>1
<1>2. ASSUME ~(Cardinality(Served) >= MaxSessions),
             NEW i, sess' = [sess EXCEPT ![i].fd = TRUE, ![i].port = FALSE, ![i].pasv = FALSE]
      PROVE  Cardinality(Served') <= MaxSessions
  <2>1. Served' \subseteq Served \cup {i}
    BY <1>2 DEF Served, OwnersInv
  <2>2. IsFiniteSet(Served \cup {i}) /\ Cardinality(Served \cup {i}) = 
          IF i \in Served THEN Cardinality(Served) ELSE Cardinality(Served) + 1
    BY ServedFinite, FS_AddElement
  <2>3. Cardinality(Served') <= Cardinality(Served \cup {i})
    BY <2>1, <2>2, FS_Subset
  <2> QED
    BY <1>2, <2>2, <2>3, ServedFinite, FtpConstants
<1> QED
  BY <1>1, <1>2 DEF Accept, Served

LEMMA FtpServes ==
  ASSUME OwnersInv, Cardinality(Served) <= MaxSessions, FtpNext
  PROVE  Cardinality(Served') <= MaxSessions
<1>1. CASE NoneJoins
  <2>1. Served' \subseteq Served
    BY <1>1 DEF NoneJoins, Served
  <2>2. Cardinality(Served') <= Cardinality(Served)
    BY <2>1, ServedFinite, FS_Subset
  <2> QED
    BY <2>2, ServedFinite, FtpConstants
<1> QED
  BY <1>1, AcceptServes, JobServes, CommandsServe DEF FtpNext

-----------------------------------------------------------------------------
(* The network: every step goes from one board to another.                 *)
LEMMA BecomesTyped ==
  ASSUME NetworkTypeOK, NEW board \in Board, Becomes(board) \/ Fails(board) PROVE NetworkTypeOK'
<1>1. [board EXCEPT !.failed = TRUE] \in Board
  BY DEF Board
<1>2. CASE Becomes(board)
  BY <1>2 DEF Becomes, NetworkTypeOK
<1>3. CASE Fails(board)
  <2>1. troubles' \in 0 .. MaxTroubles
    BY <1>3, NetworkAssumption DEF Fails, Trouble, NetworkTypeOK
  <2> QED
    BY <1>1, <1>3, <2>1 DEF Fails, NetworkTypeOK
<1> QED
  BY <1>2, <1>3

LEMMA PortTypes ==
  ASSUME NetworkTypeOK, NEW board \in Board, StartPort(board) PROVE NetworkTypeOK'
<1> DEFINE on == board.boot = "running"
<1>1. on \in BOOLEAN
  OBVIOUS
<1> HIDE DEF on
<1>2. [board EXCEPT !.started = TRUE, !.rx = on] \in Board
  BY <1>1 DEF Board
<1>3. \/ Becomes(board) \/ Fails(board)
      \/ Becomes([board EXCEPT !.started = TRUE, !.rx = on])
  BY DEF StartPort, on
<1> QED
  BY <1>2, <1>3, BecomesTyped

LEMMA ResetTypes == \A m \in Modes : Reset(m) \in Board
  BY DEF Reset, Board, Modes

LEMMA BootTypes == NetworkTypeOK /\ Booting => NetworkTypeOK'
<1> SUFFICES ASSUME NetworkTypeOK, Booting PROVE NetworkTypeOK'
  OBVIOUS
<1>0. lan \in Board
  BY DEF NetworkTypeOK
<1>1. CASE LoadSettings
  <2>1. [lan EXCEPT !.boot = "loaded", !.mode = lan.stored] \in Board
    BY <1>0 DEF Board
  <2> QED
    BY <1>1, <2>1, BecomesTyped DEF LoadSettings
<1>2. CASE CheckLink
  <2>1. [lan EXCEPT !.boot = "done"] \in Board /\ [lan EXCEPT !.boot = "checked"] \in Board
    BY <1>0 DEF Board
  <2> QED
    BY <1>2, <2>1, BecomesTyped, PortTypes DEF CheckLink
<1>3. CASE Register
  <2>1. [lan EXCEPT !.boot = "done", !.waits = TRUE] \in Board
    BY <1>0 DEF Board
  <2> QED
    BY <1>3, <2>1, BecomesTyped DEF Register
<1>4. CASE RunThreads
  <2>1. [lan EXCEPT !.boot = "running", !.net = "start"] \in Board
    BY <1>0 DEF Board
  <2>2. ASSUME NEW b \in Board PROVE [b EXCEPT !.serv = "start"] \in Board
    BY <2>2 DEF Board
  <2>3. ASSUME NEW b \in Board PROVE [b EXCEPT !.ftp = "start"] \in Board
    BY <2>3 DEF Board
  <2>4. [lan EXCEPT !.boot = "running", !.net = "start", !.serv = "start", !.ftp = "start"]
          = [[[lan EXCEPT !.boot = "running", !.net = "start"] EXCEPT !.serv = "start"]
               EXCEPT !.ftp = "start"]
    OBVIOUS
  <2>5. [lan EXCEPT !.boot = "running", !.net = "start", !.serv = "start", !.ftp = "start"] \in Board
    BY <2>1, <2>2, <2>3, <2>4, Zenon
  <2> QED
    BY <1>4, <2>5, BecomesTyped DEF RunThreads
<1> QED
  BY <1>1, <1>2, <1>3, <1>4 DEF Booting

LEMMA LinkTypes == NetworkTypeOK /\ (CarrierUp \/ CarrierDown \/ Lease) => NetworkTypeOK'
<1> SUFFICES ASSUME NetworkTypeOK, CarrierUp \/ CarrierDown \/ Lease PROVE NetworkTypeOK'
  OBVIOUS
<1>0. lan \in Board
  BY DEF NetworkTypeOK
<1>1. CASE CarrierUp
  <2> DEFINE early == lan.early \/ lan.boot # "running"
             asked == IF lan.mode = "dhcp" /\ lan.dhcp = "off" THEN "asking" ELSE lan.dhcp
             up == [lan EXCEPT !.carrier = TRUE, !.linkSem = TRUE, !.early = early, !.dhcp = asked]
  <2>1. early \in BOOLEAN /\ asked \in {"off", "asking", "bound"}
    BY <1>0 DEF Board
  <2>2. StartPort(up) \/ Becomes(up)
    BY <1>1 DEF CarrierUp
  <2> HIDE DEF early, asked
  <2>3. up \in Board
    BY <1>0, <2>1 DEF Board
  <2> HIDE DEF up
  <2> QED
    BY <2>2, <2>3, BecomesTyped, PortTypes
<1>2. CASE CarrierDown
  <2>1. [lan EXCEPT !.carrier = FALSE] \in Board
    BY <1>0 DEF Board
  <2> QED
    BY <1>2, <2>1, NetworkAssumption DEF CarrierDown, Trouble, NetworkTypeOK
<1>3. CASE Lease
  <2>1. [Addressed(lan) EXCEPT !.dhcp = "bound"] \in Board
    BY <1>0 DEF Board, Addressed
  <2> QED
    BY <1>3, <2>1, BecomesTyped DEF Lease
<1> QED
  BY <1>1, <1>2, <1>3

(* dc_net_thread takes a board to a board.                                 *)
LEMMA StageTypes ==
  \A board \in Board :
    /\ Finish(board) \in Board /\ AfterLink(board) \in Board /\ UseLink(board) \in Board
    /\ Addressed(board) \in Board /\ [board EXCEPT !.asks = TRUE] \in Board
    /\ [board EXCEPT !.linkSem = FALSE] \in Board /\ [board EXCEPT !.addrSem = FALSE] \in Board
<1> SUFFICES ASSUME NEW board \in Board
             PROVE  /\ Finish(board) \in Board /\ AfterLink(board) \in Board /\ UseLink(board) \in Board
                    /\ Addressed(board) \in Board /\ [board EXCEPT !.asks = TRUE] \in Board
                    /\ [board EXCEPT !.linkSem = FALSE] \in Board
                    /\ [board EXCEPT !.addrSem = FALSE] \in Board
  OBVIOUS
<1>1. Finish(board) \in Board
  BY DEF Finish, Board
<1>2. AfterLink(board) \in Board
  <2>1. [board EXCEPT !.net = "address"] \in Board
    BY DEF Board
  <2> QED
    BY <1>1, <2>1 DEF AfterLink
<1>3. UseLink(board) \in Board
  <2>1. [board EXCEPT !.net = "link"] \in Board
    BY DEF Board
  <2> QED
    BY <1>2, <2>1 DEF UseLink
<1>4. Addressed(board) \in Board
  BY DEF Addressed, Board
<1>5. /\ [board EXCEPT !.asks = TRUE] \in Board
      /\ [board EXCEPT !.linkSem = FALSE] \in Board /\ [board EXCEPT !.addrSem = FALSE] \in Board
  BY DEF Board
<1> QED
  BY <1>1, <1>2, <1>3, <1>4, <1>5

LEMMA ThreadTypes == NetworkTypeOK /\ NetThread => NetworkTypeOK'
<1> SUFFICES ASSUME NetworkTypeOK, NetThread PROVE NetworkTypeOK'
  OBVIOUS
<1>0. lan \in Board
  BY DEF NetworkTypeOK
<1>1. CASE SetupNetwork
  BY <1>0, <1>1, StageTypes, BecomesTyped DEF SetupNetwork
<1>2. CASE WaitLink
  BY <1>0, <1>2, StageTypes, BecomesTyped DEF WaitLink
<1>3. CASE WaitAddress
  BY <1>0, <1>3, StageTypes, BecomesTyped DEF WaitAddress
<1> QED
  BY <1>1, <1>2, <1>3 DEF NetThread

LEMMA ServiceTypes ==
  ASSUME NetworkTypeOK,
         StartServer \/ StartFtp \/ AnswerCommand \/ (\E h \in Hosts : TakeCommand(h)) \/ RestartBoard
  PROVE  NetworkTypeOK'
<1>0. lan \in Board
  BY DEF NetworkTypeOK
<1>1. ASSUME NEW s \in {"wait", "listening", "failed"}
      PROVE  [lan EXCEPT !.serv = s] \in Board
  BY <1>0 DEF Board
<1>2. ASSUME NEW s \in {"listening", "failed"} PROVE [lan EXCEPT !.ftp = s] \in Board
  BY <1>0 DEF Board
<1>3. CASE StartServer
  BY <1>1, <1>3, BecomesTyped DEF StartServer
<1>4. CASE StartFtp
  BY <1>2, <1>4, BecomesTyped DEF StartFtp
<1>5. CASE AnswerCommand
  <2> DEFINE reply_ == IF SameSubnet(lan.command) THEN "unicast" ELSE "broadcast"
  <2>1. PICK m \in Modes :
          Becomes([lan EXCEPT !.command = "none", !.mode = m, !.stored = m, !.answer = reply_])
    BY <1>5 DEF AnswerCommand
  <2>2. reply_ \in {"unicast", "broadcast"}
    OBVIOUS
  <2> HIDE DEF reply_
  <2>3. [lan EXCEPT !.command = "none", !.mode = m, !.stored = m, !.answer = reply_] \in Board
    BY <1>0, <2>2 DEF Board
  <2> QED
    BY <2>1, <2>3, BecomesTyped
<1>6. ASSUME NEW h \in Hosts, TakeCommand(h) PROVE NetworkTypeOK'
  <2>1. [lan EXCEPT !.command = h, !.answer = "none"] \in Board
    BY <1>0 DEF Board
  <2> QED
    BY <1>6, <2>1, BecomesTyped DEF TakeCommand
<1>7. CASE RestartBoard
  <2>1. Reset(lan.stored) \in Board
    BY <1>0, ResetTypes DEF Board
  <2> QED
    BY <1>7, <2>1, NetworkAssumption DEF RestartBoard, Trouble, NetworkTypeOK
<1> QED
  BY <1>3, <1>4, <1>5, <1>6, <1>7

LEMMA NetworkTypes == NetworkTypeOK /\ NetworkNext => NetworkTypeOK'
  BY BootTypes, LinkTypes, ThreadTypes, ServiceTypes DEF NetworkNext

-----------------------------------------------------------------------------
(* The whole: what a step of one part leaves alone keeps its type.         *)
LEMMA ControlTypes == SettingsInv /\ ExchangeInv => ControlTypeOK
<1> SUFFICES ASSUME SettingsInv, ExchangeInv PROVE ControlTypeOK
  OBVIOUS
<1>1. saving.by \in Channels \cup {"none", "wq"}
  BY DEF SettingsInv, Savings
<1>2. {idle, received, beat, late} \subseteq BOOLEAN
  BY DEF SettingsInv, ExchangeInv
<1>3. {raw, exec} \subseteq [id : 0 .. MaxRequests, kind : Kinds \cup {"none"}]
  BY DEF ExchangeInv, Asked
<1>4. {tmp, reply} \subseteq [id : 0 .. MaxRequests, what : {"none", "request", "answer", "failure"}]
  BY DEF ExchangeInv, Messages
<1>5. /\ pins \in 0 .. 1 /\ saved \in [HIS_SAVE : BOOLEAN, HEART_EN : BOOLEAN]
      /\ chan \in [Channels -> Todo] /\ rtu \in Kinds \cup {"none"}
      /\ conn \in {"none", "open", "reset"}
      /\ link \in {"up", "dropping", "down"} /\ heart \in {"wait", "drop"}
  BY DEF SettingsInv
<1>6. stage \in {"select", "wait"}
  BY DEF ExchangeInv
<1> QED
  BY <1>1, <1>2, <1>3, <1>4, <1>5, <1>6 DEF ControlTypeOK

FtpInv == OwnersInv /\ JobInv /\ Cardinality(Served) <= MaxSessions

LEMMA FtpTypes == FtpInv => FtpTypeOK
<1> SUFFICES ASSUME FtpInv PROVE FtpTypeOK
  OBVIOUS
<1>1. Honest \subseteq [fd : BOOLEAN, state : {"user", "passwd", "ok"}, anonymous : BOOLEAN,
                        dir : {"none", "root", "other"}, port : BOOLEAN, pasv : BOOLEAN,
                        offset : 0 .. 1, proved : BOOLEAN]
  BY DEF Honest
<1>2. sess \in [Slots -> [fd : BOOLEAN, state : {"user", "passwd", "ok"}, anonymous : BOOLEAN,
                          dir : {"none", "root", "other"}, port : BOOLEAN, pasv : BOOLEAN,
                          offset : 0 .. 1, proved : BOOLEAN]]
  BY <1>1 DEF FtpInv, OwnersInv
<1>3. Cardinality({i \in Slots : sess[i].fd}) <= MaxSessions
  BY DEF FtpInv, Served
<1>4. job \in [kind : {"none", "LIST", "RETR", "STOR", "sending", "storing"}, slot : Slots,
               path : Paths, waits : BOOLEAN, left : 0 .. 2]
  BY DEF FtpInv, JobInv, Jobs
<1>5. /\ upload \in Seq({"chunk"}) /\ Len(upload) <= 2
      /\ answer \in {"none", "done", "refused", "aborted", "nothing"}
      /\ users \in 0 .. MaxUsers /\ orders \in 0 .. MaxOrders
  BY DEF FtpInv, JobInv
<1> QED
  BY <1>2, <1>3, <1>4, <1>5 DEF FtpTypeOK

LEMMA FtpAtFirst == Init => FtpInv
<1> SUFFICES ASSUME Init PROVE FtpInv
  OBVIOUS
<1>1. /\ sess = [i \in Slots |-> Free] /\ job = Idle /\ upload = <<>> /\ answer = "none"
      /\ users = 0 /\ orders = 0
  BY DEF Init, FtpInit
<1>2. Served = {}
  BY <1>1 DEF Served, Free
<1>3. Cardinality(Served) <= MaxSessions
  BY <1>2, FS_EmptySet, FtpConstants
<1>4. JobInv
  BY <1>1, IdleJob, EmptyUpload, FtpConstants DEF JobInv
<1> QED
  BY <1>3, <1>4, OwnersAtFirst DEF FtpInv

LEMMA FtpStep == FtpInv /\ [Next]_vars => FtpInv'
<1> SUFFICES ASSUME FtpInv, [Next]_vars PROVE FtpInv'
  OBVIOUS
<1>1. CASE UNCHANGED ftpVars
  <2>1. Served' = Served /\ JobInv'
    BY <1>1 DEF FtpInv, JobInv, Served, ftpVars
  <2> QED
    BY <2>1, OwnersStep DEF FtpInv
<1>2. CASE FtpNext
  BY <1>2, OwnersStep, FtpKeepsJob, FtpServes DEF FtpInv
<1> QED
  BY <1>1, <1>2 DEF Next, Recorder, Control, Ftp, Network, vars, boardVars

LEMMA NetworkAtFirst == Init => NetworkTypeOK
<1> SUFFICES ASSUME Init PROVE NetworkTypeOK
  OBVIOUS
<1>1. troubles = 0 /\ \E m \in Modes : lan = Reset(m)
  BY DEF Init, NetworkInit
<1> QED
  BY <1>1, ResetTypes, NetworkAssumption DEF NetworkTypeOK

LEMMA NetworkStep == NetworkTypeOK /\ [Next]_vars => NetworkTypeOK'
<1> SUFFICES ASSUME NetworkTypeOK, [Next]_vars PROVE NetworkTypeOK'
  OBVIOUS
<1>1. CASE UNCHANGED netVars
  BY <1>1 DEF NetworkTypeOK, netVars
<1>2. CASE NetworkNext
  BY <1>2, NetworkTypes
<1> QED
  BY <1>1, <1>2 DEF Next, Recorder, Control, Ftp, Network, vars

(* Every variable of the board keeps its type: no queue holds more than    *)
(* its size and no more than MAX_FILE_NUM files exist (history.c:29-129),  *)
(* no session more than the limit is served (ftpd.c:18-34), an upload      *)
(* never exceeds what its client sends.                                    *)
THEOREM TypeCorrect == Spec => []TypeOK
<1> DEFINE IInv == RecordsInv /\ ExchangeInv /\ FtpInv /\ NetworkTypeOK
<1>1. Init => IInv
  BY RecordsAtFirst, ExchangeAtFirst, FtpAtFirst, NetworkAtFirst
<1>2. IInv /\ [Next]_vars => IInv'
  BY RecordsStep, ExchangeStep, FtpStep, NetworkStep
<1>3. IInv => TypeOK
  BY RecorderTypes, ControlTypes, FtpTypes DEF RecordsInv, TypeOK
<1> QED
  BY <1>1, <1>2, <1>3, PTL DEF Spec

-----------------------------------------------------------------------------
(* The outputs.                                                            *)
LEMMA OutputsStutter ==
  ASSUME OutputsKnown, UNCHANGED <<pins, heart, link>>, regs'.DO = regs.DO
  PROVE  OutputsKnown'
  BY DEF OutputsKnown

LEMMA EffectOutputs ==
  ASSUME OutputsKnown, regs \in Registers, NEW kind, Effect(kind), UNCHANGED <<heart, link>>
  PROVE  OutputsKnown'
<1>1. CASE kind = "DO1"
  <2>1. regs' = [regs EXCEPT !.DO = 1]
    BY <1>1 DEF Effect
  <2>2. regs'.DO = 1
    BY <2>1 DEF Registers
  <2> QED
    BY <2>2 DEF OutputsKnown
<1>2. CASE kind = "DO0"
  <2>1. pins' = 0
    BY <1>2 DEF Effect
  <2> QED
    BY <2>1 DEF OutputsKnown
<1>3. CASE kind \notin {"DO0", "DO1"}
  <2>1. /\ pins' = pins
        /\ \/ regs' = regs \/ regs' = [regs EXCEPT !.HIS_SAVE = TRUE]
           \/ regs' = [regs EXCEPT !.HIS_SAVE = FALSE]
    BY <1>3 DEF Effect
  <2>2. regs'.DO = regs.DO
    BY <2>1 DEF Registers
  <2> QED
    BY <2>1, <2>2, OutputsStutter
<1> QED
  BY <1>1, <1>2, <1>3

LEMMA HeartOutputs ==
  ASSUME OutputsKnown, regs \in Registers, HeartThread \/ Link
  PROVE  OutputsKnown'
<1>1. CASE HeartBeat
  BY <1>1, OutputsStutter DEF HeartBeat
<1>2. CASE HeartTimeout
  BY <1>2 DEF HeartTimeout, OutputsKnown
<1>3. CASE HeartDrop \/ LinkDrop
  BY <1>3 DEF HeartDrop, LinkDrop, OutputsKnown
<1>4. CASE LinkFails
  BY <1>4 DEF LinkFails, OutputsKnown
<1>5. CASE LinkUp
  BY <1>5 DEF LinkUp, OutputsKnown
<1> QED
  BY <1>1, <1>2, <1>3, <1>4, <1>5 DEF HeartThread, Link

LEMMA SetOutputs ==
  ASSUME OutputsKnown, NEW c, NEW value, NEW todo, Set(c, value, todo), value.DO = regs.DO
  PROVE  OutputsKnown'
  BY OutputsStutter DEF Set

(* The registers are not the recorder's to write, nor the FTP server's.    *)
LEMMA RecorderRegisters == Record \/ Sampling => regs' = regs
<1>1. ASSUME Record PROVE regs' = regs
  BY <1>1 DEF Record, Take, RecordRefused, OpenFile, OpenFails, UseFile, AppendRecord, AppendFails
<1>2. ASSUME Sampling PROVE regs' = regs
  BY <1>2 DEF Sampling, Tick, Sample
<1> QED
  BY <1>1, <1>2

LEMMA FtpRegisters == FtpNext => regs' = regs
<1> SUFFICES ASSUME FtpNext PROVE regs' = regs
  OBVIOUS
<1>1. CASE Accept \/ Job
  BY <1>1 DEF Accept, Job, DataConnection, NoConnection, List, Retr, SendBlock, Stor, StoreBlock, recVars
<1>2. ASSUME NEW i \in Slots,
             \/ Close(i) \/ User(i) \/ Pass(i) \/ Port(i) \/ Pasv(i) \/ Cwd(i) \/ Rest(i)
             \/ Query(i) \/ Size(i) \/ MakeDirectory(i)
      PROVE  regs' = regs
  BY <1>2 DEF Close, User, Pass, Port, Pasv, Cwd, Rest, Query, Size, MakeDirectory, Answer, recVars
<1>3. ASSUME NEW i \in Slots, Delete(i) PROVE regs' = regs
  BY <1>3 DEF Delete, recVars
<1>4. ASSUME NEW i \in Slots, NEW kind, Transfer(i, kind) PROVE regs' = regs
  BY <1>4 DEF Transfer, recVars
<1> QED
  BY <1>1, <1>2, <1>3, <1>4 DEF FtpNext

LEMMA OutputsStep == ASSUME OutputsKnown, regs \in Registers, [Next]_vars PROVE OutputsKnown'
<1>1. CASE UNCHANGED <<pins, heart, link, regs>>
  BY <1>1, OutputsStutter
<1>2. CASE Recorder(Record \/ Sampling)
  <2>1. UNCHANGED ctlVars /\ UNCHANGED regs
    BY <1>2, RecorderRegisters DEF Recorder
  <2> QED
    BY <1>1, <2>1 DEF ctlVars
<1>3. CASE Common
  BY <1>1, <1>3 DEF Common, SaveKey, Configure, SaveSet, EnableHistory, recVars
<1>4. CASE WorkQueue
  <2>1. CASE ExecuteRtu
    BY <2>1, EffectOutputs DEF ExecuteRtu
  <2>2. CASE ExecuteRaw
    BY <2>2, EffectOutputs DEF ExecuteRaw
  <2>3. CASE SaveAll
    BY <1>1, <2>3 DEF SaveAll
  <2> QED
    BY <1>4, <2>1, <2>2, <2>3 DEF WorkQueue
<1>5. CASE Tcp
  <2>1. UNCHANGED notTcp
    BY <1>5 DEF Tcp, Connect, ConnIdle, PeerCloses, PeerResets, ReadReset, RequestLost, Reply, Expired
  <2> QED
    BY <1>1, <2>1 DEF notTcp, recVars
<1>6. CASE Link \/ HeartThread
  BY <1>6, HeartOutputs
<1>7. ASSUME NEW c \in Channels, SetHeart(c) \/ SetOther(c) \/ SetSample(c) PROVE OutputsKnown'
  <2>1. \A on \in BOOLEAN : /\ [regs EXCEPT !.HEART_EN = on].DO = regs.DO
                             /\ [regs EXCEPT !.HIS_SAVE = on].DO = regs.DO
    BY DEF Registers
  <2>2. CASE SetHeart(c)
    BY <2>1, <2>2, SetOutputs DEF SetHeart
  <2>3. CASE SetOther(c)
    BY <2>3, SetOutputs DEF SetOther
  <2>4. CASE SetSample(c)
    BY <2>1, <2>4, SetOutputs DEF SetSample
  <2> QED
    BY <1>7, <2>2, <2>3, <2>4
<1>8. ASSUME NEW kind \in Kinds, ServeRtu(kind) \/ Request(kind) PROVE OutputsKnown'
  BY <1>1, <1>8 DEF ServeRtu, Request, notTcp, recVars
<1>9. CASE Restart
  BY <1>9 DEF Restart, Booted, OutputsKnown
<1>10. CASE SetClock
  BY <1>1, <1>10 DEF SetClock, SetTime
<1>11. CASE UNCHANGED ctlVars /\ UNCHANGED regs
  BY <1>1, <1>11 DEF ctlVars
<1>12. CASE Ftp(Preempted /\ FtpNext)
  BY <1>11, <1>12, FtpRegisters DEF Ftp
<1>13. CASE Network(NetworkNext) \/ UNCHANGED vars
  BY <1>11, <1>13 DEF Network, vars, boardVars, recVars
<1>14. CASE Masters
  BY <1>4, <1>5, <1>6, <1>7, <1>8, <1>14 DEF Masters
<1>15. CASE Settings
  BY <1>7, <1>9, <1>10, <1>15 DEF Settings
<1> QED
  BY <1>2, <1>3, <1>12, <1>13, <1>14, <1>15 DEF Next, Control

(* The outputs that are on are those the register names, but for the one   *)
(* step between clearing the register and clearing the outputs: whatever   *)
(* the masters, the heartbeat, the link and a restart do to the two.       *)
THEOREM OutputsAreKnown == Spec => []OutputsKnown
<1>1. Init => OutputsKnown
  BY DEF Init, ControlInit, OutputsKnown
<1>2. OutputsKnown /\ TypeOK /\ [Next]_vars => OutputsKnown'
  BY OutputsStep DEF TypeOK, RecorderTypeOK
<1> QED
  BY <1>1, <1>2, TypeCorrect, PTL DEF Spec

-----------------------------------------------------------------------------
(* The configuration port: as long as the link has not come up before the  *)
(* threads ran, it comes up to a port that waits for it.                   *)
PortWaits(b) ==
  ~b.early =>
    /\ b.boot # "running" => ~b.carrier /\ ~b.started
    /\ b.boot \in {"done", "running"} => b.waits
    /\ b.started => b.rx
    /\ b.boot = "running" /\ b.carrier /\ ~b.failed => b.started

PortSame(a, b) ==
  /\ b.boot = a.boot /\ b.carrier = a.carrier /\ b.early = a.early /\ b.waits = a.waits
  /\ b.started = a.started /\ b.rx = a.rx
  /\ a.failed => b.failed

LEMMA PortUntouched ==
  ASSUME NEW a, NEW b, PortWaits(a), PortSame(a, b) PROVE PortWaits(b)
  BY DEF PortWaits, PortSame

(* A call that fails is noted, which excuses the port.                     *)
LEMMA PortFails ==
  ASSUME NEW a \in Board, NEW b \in Board, PortWaits(a), PortSame(a, b), Fails(b) \/ Becomes(b)
  PROVE  PortWaits(lan')
<1>1. PortSame(b, [b EXCEPT !.failed = TRUE])
  BY DEF PortSame, Board
<1>2. lan' = b \/ lan' = [b EXCEPT !.failed = TRUE]
  BY DEF Fails, Becomes
<1>3. PortWaits(b)
  BY PortUntouched
<1>4. PortWaits([b EXCEPT !.failed = TRUE])
  BY <1>1, <1>3, PortUntouched
<1> QED
  BY <1>2, <1>3, <1>4

LEMMA PortBoots ==
  ASSUME lan \in Board, PortWaits(lan), Booting PROVE PortWaits(lan')
<1>1. CASE LoadSettings
  <2>1. lan' = [lan EXCEPT !.boot = "loaded", !.mode = lan.stored] /\ lan.boot = "early"
    BY <1>1 DEF LoadSettings, Becomes
  <2>2. /\ lan'.boot = "loaded" /\ lan'.carrier = lan.carrier /\ lan'.early = lan.early
        /\ lan'.started = lan.started
    BY <2>1 DEF Board
  <2> QED
    BY <2>1, <2>2 DEF PortWaits
<1>2. CASE CheckLink
  <2>1. CASE lan.carrier
    <3> DEFINE b == [lan EXCEPT !.boot = "done"]
    <3>1. lan.early /\ StartPort(b)
      BY <1>2, <2>1 DEF CheckLink, PortWaits
    <3>2. b \in Board /\ b.early
      BY <3>1 DEF Board
    <3> HIDE DEF b
    <3>3. \/ lan' = b \/ lan' = [b EXCEPT !.failed = TRUE]
          \/ lan' = [b EXCEPT !.started = TRUE, !.rx = (b.boot = "running")]
      BY <3>1 DEF StartPort, Becomes, Fails
    <3>4. /\ [b EXCEPT !.failed = TRUE].early
          /\ [b EXCEPT !.started = TRUE, !.rx = (b.boot = "running")].early
      BY <3>2 DEF Board
    <3>5. lan'.early
      BY <3>2, <3>3, <3>4
    <3> QED
      BY <3>5 DEF PortWaits
  <2>2. CASE ~lan.carrier
    <3>1. lan' = [lan EXCEPT !.boot = "checked"] /\ lan.boot = "loaded"
      BY <1>2, <2>2 DEF CheckLink, Becomes
    <3>2. /\ lan'.boot = "checked" /\ lan'.carrier = lan.carrier /\ lan'.early = lan.early
          /\ lan'.started = lan.started
      BY <3>1 DEF Board
    <3> QED
      BY <3>1, <3>2 DEF PortWaits
  <2> QED
    BY <2>1, <2>2
<1>3. CASE Register
  <2>1. lan' = [lan EXCEPT !.boot = "done", !.waits = TRUE] /\ lan.boot = "checked"
    BY <1>3 DEF Register, Becomes
  <2>2. /\ lan'.boot = "done" /\ lan'.waits /\ lan'.carrier = lan.carrier
        /\ lan'.early = lan.early /\ lan'.started = lan.started
    BY <2>1 DEF Board
  <2> QED
    BY <2>1, <2>2 DEF PortWaits
<1>4. CASE RunThreads
  <2>1. /\ lan.boot = "done"
        /\ lan' = [lan EXCEPT !.boot = "running", !.net = "start", !.serv = "start", !.ftp = "start"]
    BY <1>4 DEF RunThreads, Becomes
  <2>2. /\ lan'.boot = "running" /\ lan'.waits = lan.waits /\ lan'.carrier = lan.carrier
        /\ lan'.early = lan.early /\ lan'.started = lan.started
    BY <2>1 DEF Board
  <2> QED
    BY <2>1, <2>2 DEF PortWaits
<1> QED
  BY <1>1, <1>2, <1>3, <1>4 DEF Booting

(* The link comes up: early, or to a port that waits.                      *)
LEMMA PortLinks ==
  ASSUME lan \in Board, PortWaits(lan), CarrierUp PROVE PortWaits(lan')
<1> DEFINE soon == lan.early \/ lan.boot # "running"
           up == [lan EXCEPT !.carrier = TRUE, !.linkSem = TRUE, !.early = soon,
                             !.dhcp = IF lan.mode = "dhcp" /\ @ = "off" THEN "asking" ELSE @]
<1>1. IF lan.waits THEN StartPort(up) ELSE Becomes(up)
  BY DEF CarrierUp
<1>2. soon \in BOOLEAN
  BY DEF Board
<1>3. up \in Board
  <2> DEFINE asks == IF lan.mode = "dhcp" /\ lan.dhcp = "off" THEN "asking" ELSE lan.dhcp
  <2>1. asks \in {"off", "asking", "bound"}
    BY DEF Board
  <2>2. up = [lan EXCEPT !.carrier = TRUE, !.linkSem = TRUE, !.early = soon, !.dhcp = asks]
    OBVIOUS
  <2> HIDE DEF soon, asks, up
  <2> QED
    BY <1>2, <2>1, <2>2 DEF Board
<1>4. /\ up.early = soon /\ up.boot = lan.boot /\ up.waits = lan.waits
      /\ up.started = lan.started /\ up.rx = lan.rx
  BY DEF Board
<1> HIDE DEF up
<1>5. \/ lan' = up \/ lan' = [up EXCEPT !.failed = TRUE]
      \/ lan' = [up EXCEPT !.started = TRUE, !.rx = (up.boot = "running")]
  BY <1>1 DEF StartPort, Becomes, Fails
<1>6. lan'.early = soon
  <2>1. /\ [up EXCEPT !.failed = TRUE].early = up.early
        /\ [up EXCEPT !.started = TRUE, !.rx = (up.boot = "running")].early = up.early
    BY <1>3 DEF Board
  <2> QED
    BY <1>4, <1>5, <2>1
<1>7. CASE soon
  BY <1>6, <1>7 DEF PortWaits
<1>8. CASE ~soon
  <2>1. up.boot = "running" /\ up.waits /\ (up.started => up.rx) /\ StartPort(up)
    BY <1>1, <1>4, <1>8 DEF PortWaits
  <2>2. CASE up.started
    <3>1. lan' = up
      BY <2>1, <2>2 DEF StartPort, Becomes
    <3> QED
      BY <2>1, <2>2, <3>1 DEF PortWaits
  <2>3. CASE lan' = [up EXCEPT !.started = TRUE, !.rx = (up.boot = "running")]
    <3>1. lan'.started /\ lan'.rx /\ lan'.boot = "running" /\ lan'.waits
      BY <1>3, <2>1, <2>3 DEF Board
    <3> QED
      BY <3>1 DEF PortWaits
  <2>4. CASE lan' = [up EXCEPT !.failed = TRUE]
    <3>1. /\ lan'.failed /\ lan'.started = up.started /\ lan'.rx = up.rx
          /\ lan'.boot = "running" /\ lan'.waits
      BY <1>3, <2>1, <2>4 DEF Board
    <3> QED
      BY <2>1, <3>1 DEF PortWaits
  <2> QED
    BY <2>1, <2>2, <2>3, <2>4 DEF StartPort, Becomes, Fails
<1> QED
  BY <1>7, <1>8

LEMMA PortStages ==
  ASSUME NEW b \in Board
  PROVE  /\ PortSame(b, Addressed(b)) /\ PortSame(b, Finish(b))
         /\ PortSame(b, AfterLink(b)) /\ PortSame(b, UseLink(b))
<1>1. PortSame(b, [b EXCEPT !.address = TRUE, !.addrSem = TRUE])
  BY DEF PortSame, Board
<1>2. PortSame(b, [b EXCEPT !.net = "end", !.ready = TRUE])
  BY DEF PortSame, Board
<1>3. PortSame(b, [b EXCEPT !.net = "address"]) /\ PortSame(b, [b EXCEPT !.net = "link"])
  BY DEF PortSame, Board
<1> QED
  BY <1>1, <1>2, <1>3 DEF Addressed, Finish, AfterLink, UseLink

(* What else the threads, the link and the hosts do.                       *)
LEMMA PortThreads ==
  ASSUME lan \in Board, PortWaits(lan), NetThread \/ StartServer \/ StartFtp PROVE PortWaits(lan')
<1>1. CASE SetupNetwork
  <2> DEFINE asks == [lan EXCEPT !.asks = TRUE]
  <2>0. asks \in Board
    BY StageTypes
  <2>1. asks \in Board /\ PortSame(lan, asks)
    BY <2>0 DEF PortSame, Board
  <2>2. PortWaits(asks)
    BY <2>1, PortUntouched
  <2> HIDE DEF asks
  <2>3. CASE Becomes(UseLink(asks))
    <3>1. UseLink(asks) \in Board /\ PortSame(asks, UseLink(asks))
      BY <2>1, StageTypes, PortStages
    <3> QED
      BY <2>1, <2>2, <2>3, <3>1, PortFails
  <2>4. CASE Becomes(UseLink(Addressed(lan)))
    <3>1. PortWaits(Addressed(lan)) /\ Addressed(lan) \in Board
      BY StageTypes, PortStages, PortUntouched
    <3>2. /\ UseLink(Addressed(lan)) \in Board
          /\ PortSame(Addressed(lan), UseLink(Addressed(lan)))
      BY <3>1, StageTypes, PortStages
    <3> QED
      BY <2>4, <3>1, <3>2, PortFails
  <2>5. CASE Fails(Finish(lan))
    <3>1. Finish(lan) \in Board /\ PortSame(lan, Finish(lan))
      BY StageTypes, PortStages
    <3> QED
      BY <2>5, <3>1, PortFails
  <2> QED
    BY <1>1, <2>3, <2>4, <2>5 DEF SetupNetwork, asks
<1>2. CASE WaitLink
  <2> DEFINE taken == [lan EXCEPT !.linkSem = FALSE]
  <2>0. taken \in Board
    BY StageTypes
  <2>1. taken \in Board /\ PortSame(lan, taken)
    BY <2>0 DEF PortSame, Board
  <2>2. PortWaits(taken)
    BY <2>1, PortUntouched
  <2>3. Becomes(AfterLink(taken))
    BY <1>2 DEF WaitLink
  <2> HIDE DEF taken
  <2>4. AfterLink(taken) \in Board /\ PortSame(taken, AfterLink(taken))
    BY <2>1, StageTypes, PortStages
  <2> QED
    BY <2>1, <2>2, <2>3, <2>4, PortFails
<1>3. CASE WaitAddress
  <2> DEFINE taken == [lan EXCEPT !.addrSem = FALSE]
  <2>0. taken \in Board
    BY StageTypes
  <2>1. taken \in Board /\ PortSame(lan, taken)
    BY <2>0 DEF PortSame, Board
  <2>2. PortWaits(taken)
    BY <2>1, PortUntouched
  <2>3. Becomes(Finish(taken))
    BY <1>3 DEF WaitAddress
  <2> HIDE DEF taken
  <2>4. Finish(taken) \in Board /\ PortSame(taken, Finish(taken))
    BY <2>1, StageTypes, PortStages
  <2> QED
    BY <2>1, <2>2, <2>3, <2>4, PortFails
<1>4. CASE StartServer
  <2>1. PICK s \in {"wait", "listening", "failed"} :
          Becomes([lan EXCEPT !.serv = s]) \/ Fails([lan EXCEPT !.serv = s])
    BY <1>4 DEF StartServer
  <2>2. [lan EXCEPT !.serv = s] \in Board
    BY DEF Board
  <2>3. PortSame(lan, [lan EXCEPT !.serv = s])
    BY DEF PortSame, Board
  <2> QED
    BY <2>1, <2>2, <2>3, PortFails
<1>5. CASE StartFtp
  <2>1. PICK s \in {"listening", "failed"} :
          Becomes([lan EXCEPT !.ftp = s]) \/ Fails([lan EXCEPT !.ftp = s])
    BY <1>5 DEF StartFtp
  <2>2. [lan EXCEPT !.ftp = s] \in Board
    BY DEF Board
  <2>3. PortSame(lan, [lan EXCEPT !.ftp = s])
    BY DEF PortSame, Board
  <2> QED
    BY <2>1, <2>2, <2>3, PortFails
<1> QED
  BY <1>1, <1>2, <1>3, <1>4, <1>5 DEF NetThread

LEMMA PortHosts ==
  ASSUME lan \in Board, PortWaits(lan),
         CarrierDown \/ Lease \/ AnswerCommand \/ RestartBoard \/ \E h \in Hosts : TakeCommand(h)
  PROVE  PortWaits(lan')
<1>1. CASE CarrierDown
  <2>1. lan' = [lan EXCEPT !.carrier = FALSE]
    BY <1>1 DEF CarrierDown
  <2>2. /\ lan'.boot = lan.boot /\ ~lan'.carrier /\ lan'.early = lan.early
        /\ lan'.waits = lan.waits /\ lan'.started = lan.started /\ lan'.rx = lan.rx
    BY <2>1 DEF Board
  <2> QED
    BY <2>2 DEF PortWaits
<1>2. CASE Lease
  <2>1. lan' = [Addressed(lan) EXCEPT !.dhcp = "bound"]
    BY <1>2 DEF Lease, Becomes
  <2>2. Addressed(lan) \in Board /\ PortSame(lan, Addressed(lan))
    BY StageTypes, PortStages
  <2>3. PortSame(Addressed(lan), lan')
    BY <2>1, <2>2 DEF PortSame, Board
  <2>4. PortWaits(Addressed(lan))
    BY <2>2, PortUntouched
  <2> QED
    BY <2>3, <2>4, PortUntouched
<1>3. CASE AnswerCommand
  <2>1. PICK m \in Modes, told \in {"unicast", "broadcast"} :
          lan' = [lan EXCEPT !.command = "none", !.mode = m, !.stored = m, !.answer = told]
    BY <1>3 DEF AnswerCommand, Becomes
  <2>2. PortSame(lan, lan')
    BY <2>1 DEF PortSame, Board
  <2> QED
    BY <2>2, PortUntouched
<1>4. ASSUME NEW h \in Hosts, TakeCommand(h) PROVE PortWaits(lan')
  <2>1. lan' = [lan EXCEPT !.command = h, !.answer = "none"]
    BY <1>4 DEF TakeCommand, Becomes
  <2>2. PortSame(lan, lan')
    BY <2>1 DEF PortSame, Board
  <2> QED
    BY <2>2, PortUntouched
<1>5. CASE RestartBoard
  <2>1. lan'.boot = "early" /\ ~lan'.carrier /\ ~lan'.started /\ ~lan'.rx
    BY <1>5 DEF RestartBoard, Reset
  <2> QED
    BY <2>1 DEF PortWaits
<1> QED
  BY <1>1, <1>2, <1>3, <1>4, <1>5

LEMMA PortNext == ASSUME NetworkTypeOK, PortWaits(lan), [Next]_vars PROVE PortWaits(lan)'
<1>1. lan \in Board
  BY DEF NetworkTypeOK
<1>2. CASE UNCHANGED netVars
  BY <1>2 DEF netVars, PortWaits
<1>3. CASE NetworkNext
  BY <1>1, <1>3, PortBoots, PortLinks, PortThreads, PortHosts DEF NetworkNext
<1> QED
  BY <1>2, <1>3 DEF Next, Recorder, Control, Ftp, Network, vars

(* Whatever the order in which main boots, the link comes and goes and     *)
(* commands arrive: unless the link was up before the threads ran, or a    *)
(* call failed, an interface that is up has a receiver on its              *)
(* configuration port (udp_fw_upgrade.c:390-457).                          *)
THEOREM PortAlwaysReceives == Spec => []PortReceives
<1>1. Init => PortWaits(lan)
  BY DEF Init, NetworkInit, Reset, PortWaits
<1>2. PortWaits(lan) /\ TypeOK /\ [Next]_vars => PortWaits(lan)'
  BY PortNext DEF TypeOK
<1>3. PortWaits(lan) => PortReceives
  BY DEF PortWaits, PortReceives
<1> QED
  BY <1>1, <1>2, <1>3, TypeCorrect, PTL DEF Spec
=============================================================================
