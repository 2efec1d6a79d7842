------------------------------- MODULE FtpServer -------------------------------
(***************************************************************************)
(* applications/data_collect/src/ftp_server: one thread that serves up to  *)
(* MaxSessions clients with select, one command at a time, on the file     *)
(* system the recorder writes.                                             *)
(*                                                                         *)
(* Clients send absolute paths, so that the current directory matters to   *)
(* the listings only; directories, but for the root, are not kept: whether *)
(* one can be made or entered is left open.  Control connections end in an *)
(* orderly way.                                                            *)
(***************************************************************************)
EXTENDS DaqRecorder

CONSTANTS
  MaxSessions,  \* sessions beyond which a client is refused
  MaxUsers,     \* bound: clients that connect
  MaxOrders     \* bound: commands of the clients

ASSUME FtpAssumption == {MaxSessions, MaxUsers, MaxOrders} \subseteq Nat \ {0}

VARIABLES
  sess,     \* ftp_sessions
  job,      \* the command the thread is in the middle of
  upload,   \* the file that is not the recorder's
  answer,   \* the last final reply
  users, orders

ftpVars == <<sess, job, upload, answer, users, orders>>

Slots == 1 .. MaxSessions + 1   \* MAX_CLIENTS
Free == [fd |-> FALSE, state |-> "user", anonymous |-> FALSE, dir |-> "none", port |-> FALSE,
         pasv |-> FALSE, offset |-> 0, proved |-> FALSE]
Idle == [kind |-> "none", slot |-> 1, path |-> "none", waits |-> FALSE, left |-> 0]

(* What a path leads to: a file of the recorder, the other file, no file,  *)
(* or no result of ftp_normalize_path, being too far above the root.       *)
Paths == {"data", "upload", "none", "bad"}

FtpTypeOK ==
  /\ sess \in [Slots -> [fd : BOOLEAN, state : {"user", "passwd", "ok"}, anonymous : BOOLEAN,
                         dir : {"none", "root", "other"}, port : BOOLEAN, pasv : BOOLEAN,
                         offset : 0 .. 1, proved : BOOLEAN]]
  /\ Cardinality({i \in Slots : sess[i].fd}) <= MaxSessions
  /\ job \in [kind : {"none", "LIST", "RETR", "STOR", "sending", "storing"}, slot : Slots,
              path : Paths, waits : BOOLEAN, left : 0 .. 2]
  /\ upload \in Seq({"chunk"}) /\ Len(upload) <= 2
  /\ answer \in {"none", "done", "refused", "aborted", "nothing"}
  /\ users \in 0 .. MaxUsers /\ orders \in 0 .. MaxOrders

FtpInit ==
  /\ sess = [i \in Slots |-> Free] /\ job = Idle /\ upload = <<>> /\ answer = "none"
  /\ users = 0 /\ orders = 0

-----------------------------------------------------------------------------
(* ftp_poll                                                                *)

Accept ==
  /\ job = Idle /\ users < MaxUsers /\ users' = users + 1
  /\ IF Cardinality({i \in Slots : sess[i].fd}) >= MaxSessions
     THEN UNCHANGED sess   \* told so and closed
     ELSE LET i == CHOOSE i \in Slots : ~sess[i].fd /\ \A j \in Slots : j < i => sess[j].fd
          IN sess' = [sess EXCEPT ![i].fd = TRUE, ![i].port = FALSE, ![i].pasv = FALSE]
  /\ UNCHANGED <<recVars, job, upload, answer, orders>>

(* Mutant: only the descriptors are reset.                                 *)
ReleasedSockets(s) == [s EXCEPT !.fd = FALSE, !.port = FALSE, !.pasv = FALSE, !.proved = FALSE]

(* ftp_session_release                                                     *)
Released(s) == Free

(* The client closes, or select fails and the session is an old one.       *)
Close(i) ==
  /\ job = Idle /\ sess[i].fd /\ sess' = [sess EXCEPT ![i] = Released(sess[i])]
  /\ UNCHANGED <<recVars, job, upload, answer, users, orders>>

(* ftp_proccess in one of its states; the reply does not end the session.  *)
Order(i, state) ==
  /\ job = Idle /\ sess[i].fd /\ sess[i].state = state
  /\ orders < MaxOrders /\ orders' = orders + 1 /\ UNCHANGED users

Answer(a) == answer' = a /\ UNCHANGED <<recVars, job, upload>>

(* USER before and after the login (login_cmd_fn).                         *)
User(i) ==
  \E name \in {"anonymous", "admin", "unknown"} : \E state \in {"user", "ok"} :
    /\ Order(i, state) /\ Answer(IF name = "unknown" THEN "refused" ELSE "done")
    /\ sess' = CASE name = "anonymous" ->
                      [sess EXCEPT ![i].anonymous = TRUE, ![i].state = "ok", ![i].proved = FALSE,
                                   ![i].dir = IF state = "ok" THEN "root" ELSE @]
                 [] name = "admin" ->
                      [sess EXCEPT ![i].anonymous = FALSE, ![i].state = "passwd", ![i].proved = FALSE]
                 [] OTHER -> sess

Pass(i) ==
  \/ \E right \in BOOLEAN :
       /\ Order(i, "passwd") /\ Answer(IF right \/ sess[i].anonymous THEN "done" ELSE "refused")
       /\ sess' = IF right \/ sess[i].anonymous
                  THEN [sess EXCEPT ![i].state = "ok", ![i].dir = "root", ![i].proved = right]
                  ELSE sess
  \/ Order(i, "ok") /\ Answer("done") /\ sess' = [sess EXCEPT ![i].dir = "root"]   \* pass_cmd_fn

-----------------------------------------------------------------------------
(* Commands.                                                               *)

Unplugged(s) == [s EXCEPT !.port = FALSE, !.pasv = FALSE]   \* both sockets of the data connection

(* The connection of an earlier command is closed, with a passive socket   *)
(* only if there is one; then the parameter or the connection may fail.    *)
Port(i) ==
  LET closed == IF sess[i].port THEN Unplugged(sess[i]) ELSE sess[i]
  IN \/ /\ Order(i, "ok") /\ Answer("done")
        /\ sess' = [sess EXCEPT ![i] = [closed EXCEPT !.port = TRUE]]
     \/ /\ Order(i, "ok") /\ Answer("refused") /\ sess' = [sess EXCEPT ![i] = closed]
     \/ /\ Order(i, "ok") /\ Answer("refused") /\ sess' = [sess EXCEPT ![i] = Unplugged(closed)]

(* A socket the session still has is forgotten, never closed.  The new one *)
(* stays when it cannot be bound or listened on.                           *)
Pasv(i) ==
  /\ Order(i, "ok")
  /\ \E on \in BOOLEAN :
       /\ \/ on /\ Answer("done")
          \/ Answer("refused")
       /\ sess' = [sess EXCEPT ![i].pasv = on]

Cwd(i) ==
  /\ Order(i, "ok")
  /\ \E dir \in {"root", "other"}, a \in {"done", "refused", "nothing"} :
       /\ dir = "root" => a = "done"
       /\ Answer(a) /\ sess' = [sess EXCEPT ![i].dir = dir]

Rest(i) ==
  /\ Order(i, "ok")
  /\ \E offset1 \in 0 .. 1 :
       Answer(IF offset1 = 0 THEN "refused" ELSE "done") /\ sess' = [sess EXCEPT ![i].offset = offset1]

(* PWD, TYPE, SYST, QUIT, which closes nothing, and unknown ones.          *)
Query(i) ==
  /\ Order(i, "ok") /\ UNCHANGED sess /\ \E a \in {"done", "refused"} : Answer(a)

Size(i) ==
  /\ Order(i, "ok") /\ UNCHANGED sess
  /\ \E path \in Paths, a \in {"done", "refused"} :
       /\ path = "none" => a = "refused"
       /\ Answer(IF path = "bad" THEN "nothing" ELSE a)

(* DELE and RMD (which unlinks as well): a file of either kind, or none.   *)
MayChange(i) == ~sess[i].anonymous

MakeDirectory(i) ==
  /\ Order(i, "ok") /\ UNCHANGED sess
  /\ \E a \in {"done", "refused", "nothing"} : (MayChange(i) \/ a = "refused") /\ Answer(a)

Delete(i) ==
  /\ Order(i, "ok") /\ UNCHANGED <<sess, job>>
  /\ \/ ~MayChange(i) /\ answer' = "refused" /\ UNCHANGED <<recVars, upload>>
     \/ MayChange(i) /\ answer' \in {"refused", "nothing"} /\ UNCHANGED <<recVars, upload>>
     \/ /\ MayChange(i) /\ answer' = "done" /\ UNCHANGED upload
        /\ \E f \in Seconds : RemoveFile(f)
        /\ UNCHANGED <<regs, clock, setBack, sampled, data, fifo, wq, cur, enable, lock>>
     \/ MayChange(i) /\ answer' = "done" /\ upload' = <<>> /\ UNCHANGED recVars

(* LIST, NLST, RETR, STOR: the thread waits for the client of a passive    *)
(* socket, and serves nobody meanwhile.  Clients do not store over a file  *)
(* of the recorder.                                                        *)
Transfer(i, kind) ==
  /\ Order(i, "ok") /\ UNCHANGED <<recVars, upload>>
  /\ LET s == IF kind = "STOR" THEN [sess[i] EXCEPT !.offset = 0] ELSE sess[i]
     IN IF kind = "STOR" /\ ~MayChange(i)
        THEN answer' = "refused" /\ UNCHANGED job /\ sess' = [sess EXCEPT ![i] = s]
        ELSE /\ \E path \in IF kind = "STOR" THEN Paths \ {"data"} ELSE Paths :
                  job' = [kind |-> kind, slot |-> i, path |-> path, waits |-> s.pasv, left |-> 0]
             /\ sess' = [sess EXCEPT ![i] = s] /\ UNCHANGED answer

Session == sess[job.slot]
Over(a) == answer' = a /\ job' = Idle

(* pasv_accept; a connection that PORT made is forgotten.                  *)
DataConnection ==
  /\ job.waits /\ job' = [job EXCEPT !.waits = FALSE]
  /\ \E accepted \in BOOLEAN : sess' = [sess EXCEPT ![job.slot].port = accepted]
  /\ UNCHANGED <<recVars, upload, answer, users, orders>>

Ready(kind) == job.kind = kind /\ ~job.waits
Forgotten(kind) == IF kind = "RETR" THEN [sess EXCEPT ![job.slot].offset = 0] ELSE sess

NoConnection ==
  \E kind \in {"LIST", "RETR", "STOR"} :
    /\ Ready(kind) /\ ~Session.port /\ Over("refused") /\ sess' = Forgotten(kind)
    /\ UNCHANGED <<recVars, upload, users, orders>>

List ==
  /\ Ready("LIST") /\ Session.port
  /\ IF Session.dir = "root"
     THEN Over("done") /\ sess' = [sess EXCEPT ![job.slot] = Unplugged(@)]
     ELSE Over("refused") /\ UNCHANGED sess
  /\ UNCHANGED <<recVars, upload, users, orders>>

(* There is such a file, and it is not empty.                              *)
Present(path) ==
  CASE path = "data"   -> \E f \in DOMAIN files : files[f] # <<>>
    [] path = "upload" -> upload # <<>>
    [] OTHER           -> FALSE

(* Without one the sockets stay open.  A path that cannot be normalised    *)
(* is not answered, and the offset of REST stays for the next RETR.        *)
Retr ==
  /\ Ready("RETR") /\ Session.port /\ UNCHANGED <<recVars, upload, users, orders>>
  /\ \/ job.path = "bad" /\ Over("nothing") /\ UNCHANGED sess
     \/ job.path # "bad" /\ ~Present(job.path) /\ Over("refused") /\ sess' = Forgotten("RETR")
     \/ /\ Present(job.path) /\ UNCHANGED <<sess, answer>>
        /\ job' = [job EXCEPT !.kind = "sending", !.left = 2 - Session.offset]

(* A block of the file; its end; a connection that breaks.                 *)
SendBlock ==
  /\ job.kind = "sending" /\ UNCHANGED <<recVars, upload, users, orders>>
  /\ \/ job.left > 0 /\ job' = [job EXCEPT !.left = @ - 1] /\ UNCHANGED <<sess, answer>>
     \/ /\ Over(IF job.left = 0 THEN "done" ELSE "aborted")
        /\ sess' = [sess EXCEPT ![job.slot] = [Unplugged(@) EXCEPT !.offset = 0]]

(* The file is emptied when it is opened.                                  *)
Stor ==
  /\ Ready("STOR") /\ Session.port /\ UNCHANGED <<recVars, sess, users, orders>>
  /\ \/ job.path = "bad" /\ Over("nothing") /\ UNCHANGED upload
     \/ job.path = "none" /\ Over("refused") /\ UNCHANGED upload
     \/ /\ job.path = "upload" /\ upload' = <<>> /\ UNCHANGED answer
        /\ job' = [job EXCEPT !.kind = "storing", !.left = 2]

(* stor_cmd_receive: data; the end of it, or three seconds without; or a   *)
(* broken connection.                                                      *)
StoreBlock ==
  /\ job.kind = "storing" /\ UNCHANGED <<recVars, users, orders>>
  /\ \/ /\ job.left > 0 /\ job' = [job EXCEPT !.left = @ - 1] /\ upload' = Append(upload, "chunk")
        /\ UNCHANGED <<sess, answer>>
     \/ /\ \E a \in {"done", "aborted"} : Over(a)
        /\ UNCHANGED upload /\ sess' = [sess EXCEPT ![job.slot] = Unplugged(@)]

-----------------------------------------------------------------------------
Job == DataConnection \/ NoConnection \/ List \/ Retr \/ SendBlock \/ Stor \/ StoreBlock

FtpNext ==
  \/ Accept \/ Job
  \/ \E i \in Slots :
       \/ Close(i) \/ User(i) \/ Pass(i) \/ Port(i) \/ Pasv(i) \/ Cwd(i) \/ Rest(i) \/ Delete(i)
       \/ Query(i) \/ Size(i) \/ MakeDirectory(i)
       \/ \E kind \in {"LIST", "RETR", "STOR"} : Transfer(i, kind)

-----------------------------------------------------------------------------
(* A session that may store or delete files is one whose client has given  *)
(* the password after the last user name, whichever commands it sent and   *)
(* whoever used its entry of ftp_sessions before (ftpd.c:18-34,            *)
(* ftp_handler.c:15-71, ftp_cmds.c:1051-1079).                             *)
OwnersProved == \A i \in Slots : sess[i].state = "ok" /\ MayChange(i) => sess[i].proved
=============================================================================
