------------------------------- MODULE RfLink -------------------------------
(***************************************************************************)
(* The radio link between mod_handler and the gateway, in a build with     *)
(* CONFIG_NRF24L01P_CRYPT: the counters of nrf24_crypt.c, the senders with *)
(* their retries and the receive threads (rf24.c of both applications) and *)
(* the ping of rf24_shell.c.                                               *)
(*                                                                         *)
(* One nrf24_send under rf24_tx_mutex is one step whose outcome is the     *)
(* radio's: heard and acknowledged, heard with the acknowledgement lost,   *)
(* or lost (a collision of both ends is a loss on both sides).  What the   *)
(* driver does in between is Nrf24Driver.  A sender seals its frame before *)
(* it takes the mutex, and tx_counter++ is a load and a store.  Opening a  *)
(* frame takes no lock either: a key may be set between the check of the   *)
(* window and the store of the counter.                                    *)
(*                                                                         *)
(* A frame carries the low byte of its counter: Mod is 256 and Window 32.  *)
(***************************************************************************)
EXTENDS Naturals, Sequences, SequencesExt, FiniteSets

CONSTANTS
  Addrs,        \* radio addresses; the key is derived from the address
  Mod, Window,  \* range of the counter byte, RX_WINDOW
  Retries,      \* RF24_TX_RETRIES
  Depth,        \* frames rf24_rx_msgq holds
  Callers,      \* bound: the application and shell threads that send
  Start,        \* bound: the counters an established link may have reached
  MaxFrames,    \* bound: frames an end seals
  MaxResets     \* bound: configurations, restarts and power cycles

ASSUME LinkAssumption ==
  /\ Addrs # {} /\ {Mod, Window, Depth} \subseteq Nat \ {0} /\ Window < Mod
  /\ {Retries, MaxFrames, MaxResets} \subseteq Nat /\ Start \subseteq Nat
  /\ Callers \subseteq {"gateway", "handler"} \X {"app", "shell"}

VARIABLES
  addr, key,      \* per end: radio address, the address of the derived key
  tx,             \* per end: tx_counter
  rx,             \* per end: rx_initialized and rx_counter
  on,             \* per end: the radio listens
  queue,          \* per end: rf24_rx_msgq
  hand,           \* per end: the frame nrf24_crypt_open is at work on, if any
  pc, frame, tries,  \* per thread: the send it is in, its frame, its attempts
  waitSeq, echoes,   \* per end: ping_wait_seq, rf24_ping_msgq
  resets,
  sealed, opened, last, session  \* history per end: frames sealed, opened since
                 \* the last reset, the frame opened last; times tx_counter jumped

ends    == <<addr, key, tx, rx, on>>
threads == <<pc, frame, tries>>
pings   == <<waitSeq, echoes>>
history == <<sealed, opened, last, session>>
vars    == <<ends, queue, hand, threads, pings, resets, history>>

Ends    == {"gateway", "handler"}
Peer(e) == CHOOSE p \in Ends : p # e
Threads == Ends \X {"app", "shell", "rx"}
None    == 0
Ids     == 1 .. MaxFrames

Frame == [id : Ids, ctr : Nat, key : Addrs, session : Nat,
          kind : {"data", "ping", "echo"}, seq : Nat]

(* A frame that has passed the window, the counter inferred for it and the *)
(* key it was taken with.                                                  *)
Passed == [frame : Frame, ctr : Nat, key : Addrs]

TypeOK ==
  /\ addr \in [Ends -> Addrs] /\ key \in [Ends -> Addrs]
  /\ tx \in [Ends -> Nat]
  /\ rx \in [Ends -> [init : BOOLEAN, ctr : Nat]]
  /\ on \in [Ends -> BOOLEAN]
  /\ \A e \in Ends : /\ queue[e] \in Seq(Frame) /\ Len(queue[e]) <= Depth
                     /\ hand[e] \in Seq(Passed) /\ Len(hand[e]) <= 1
  /\ pc \in [Threads -> {"idle", "loaded", "sealed", "await"}]
  /\ \A t \in Threads : pc[t] \in {"loaded", "sealed"} => frame[t] \in Frame
  /\ tries \in [Threads -> 0 .. Retries]
  /\ waitSeq \in [Ends -> Nat] /\ echoes \in [Ends -> Seq(Nat)]
  /\ sealed \in [Ends -> SUBSET Ids] /\ resets \in 0 .. MaxResets
  /\ opened \in [Ends -> Seq(Ids)] /\ session \in [Ends -> Nat]

(* Both ends run with one address; they have just booted, or have been     *)
(* exchanging frames and have both counted to some s.                      *)
Init ==
  /\ \E a \in Addrs : addr = [e \in Ends |-> a] /\ key = addr
  /\ \E s \in Start :
       /\ tx = [e \in Ends |-> s]
       /\ rx = [e \in Ends |-> [init |-> s > 0, ctr |-> IF s = 0 THEN 0 ELSE s - 1]]
       /\ last = [e \in Ends |-> [ctr |-> rx[e].ctr, session |-> 0, key |-> key[e]]]
  /\ on = [e \in Ends |-> TRUE]
  /\ queue = [e \in Ends |-> <<>>] /\ hand = [e \in Ends |-> <<>>]
  /\ pc = [t \in Threads |-> "idle"]
  /\ frame = [t \in Threads |-> None] /\ tries = [t \in Threads |-> 0]
  /\ waitSeq = [e \in Ends |-> None] /\ echoes = [e \in Ends |-> <<>>]
  /\ resets = 0 /\ session = [e \in Ends |-> 0]
  /\ sealed = [e \in Ends |-> {}] /\ opened = [e \in Ends |-> <<>>]

-----------------------------------------------------------------------------
(* gw_rf24_send / rf24_data_send.                                          *)

(* The caller enters with a payload that fits; nrf24_crypt_seal loads the  *)
(* counter.                                                                *)
BeginSend(t, kind, seq) ==
  LET e == t[1]
      f == [id |-> Cardinality(sealed[e]) + 1, ctr |-> tx[e], key |-> key[e],
            session |-> session[e], kind |-> kind, seq |-> seq]
  IN /\ pc[t] = "idle" /\ Cardinality(sealed[e]) < MaxFrames
     /\ pc' = [pc EXCEPT ![t] = "loaded"]
     /\ frame' = [frame EXCEPT ![t] = f]
     /\ sealed' = [sealed EXCEPT ![e] = @ \cup {f.id}]
     /\ UNCHANGED <<tries, opened, last, session, resets>>

(* ... and stores it, one more, and encrypts the frame.  A store that was  *)
(* overtaken by a reset takes the counter back to where it was before.     *)
StoreCounter(t) ==
  /\ pc[t] = "loaded"
  /\ tx' = [tx EXCEPT ![t[1]] = frame[t].ctr + 1]
  /\ pc' = [pc EXCEPT ![t] = "sealed"]
  /\ session' = [session EXCEPT ![t[1]] = IF @ = frame[t].session THEN @ ELSE @ + 1]
  /\ UNCHANGED <<addr, key, rx, on, queue, hand, frame, tries, pings, resets>>
  /\ UNCHANGED <<sealed, opened, last>>

Heard(e) == on[e] /\ on[Peer(e)] /\ addr[e] = addr[Peer(e)]

(* Mutant: the queue takes one frame more than it holds.                   *)
DeliverOneMore(e, f) ==
  IF Len(queue[e]) <= Depth THEN queue' = [queue EXCEPT ![e] = Append(@, f)]
                            ELSE UNCHANGED queue

(* The peer's driver posts the frame without waiting: a full queue loses   *)
(* it, acknowledged as it is.                                              *)
Deliver(e, f) ==
  IF Len(queue[e]) < Depth THEN queue' = [queue EXCEPT ![e] = Append(@, f)]
                           ELSE UNCHANGED queue

(* The shell waits for the echo of a ping that was acknowledged and gives  *)
(* one up that was not; every other thread is done.                        *)
AfterSend(t, acked) ==
  LET ping == frame[t].kind = "ping"
  IN /\ pc' = [pc EXCEPT ![t] = IF ping /\ acked THEN "await" ELSE "idle"]
     /\ frame' = [frame EXCEPT ![t] = None] /\ tries' = [tries EXCEPT ![t] = 0]
     /\ waitSeq' = IF ping /\ ~acked THEN [waitSeq EXCEPT ![t[1]] = None] ELSE waitSeq

(* One pass of the retry loop.                                             *)
Acked(t) ==
  /\ pc[t] = "sealed" /\ Heard(t[1])
  /\ Deliver(Peer(t[1]), frame[t])
  /\ AfterSend(t, TRUE)
  /\ UNCHANGED <<ends, hand, echoes, resets, history>>

NotAcked(t) ==
  /\ pc[t] = "sealed"
  /\ \/ Heard(t[1]) /\ Deliver(Peer(t[1]), frame[t])
     \/ UNCHANGED queue
  /\ IF tries[t] < Retries
     THEN tries' = [tries EXCEPT ![t] = @ + 1] /\ UNCHANGED <<pc, frame, waitSeq>>
     ELSE AfterSend(t, FALSE)
  /\ UNCHANGED <<ends, hand, echoes, resets, history>>

-----------------------------------------------------------------------------
(* nrf24_crypt_open: the counter a frame is taken to have, from its low    *)
(* byte and the counter of the frame opened before it.                     *)
Diff(e, f) == ((f.ctr % Mod) + Mod - (rx[e].ctr % Mod)) % Mod

(* Mutant: a repeated frame is in the window.                              *)
InWindowFromZero(e, f) == rx[e].init => Diff(e, f) \in 0 .. Window

(* Mutant: the wrap of the byte is not carried.                            *)
FullCounterNoCarry(e, f) ==
  LET low  == f.ctr % Mod
      high == rx[e].ctr - (rx[e].ctr % Mod)
  IN IF rx[e].init THEN high + low ELSE low

InWindow(e, f) == rx[e].init => Diff(e, f) \in 1 .. Window

FullCounter(e, f) ==
  LET low  == f.ctr % Mod
      high == rx[e].ctr - (rx[e].ctr % Mod)
  IN IF ~rx[e].init THEN low
     ELSE IF low < rx[e].ctr % Mod THEN high + Mod + low ELSE high + low

Waits(e) == pc[<<e, "rx">>] = "idle" /\ hand[e] = <<>> /\ queue[e] # <<>>

(* rf24_rx_thread takes a frame that the window refuses: nothing happens.  *)
Refuse(e) ==
  /\ Waits(e) /\ ~InWindow(e, Head(queue[e]))
  /\ queue' = [queue EXCEPT ![e] = Tail(@)]
  /\ UNCHANGED <<ends, hand, threads, pings, resets, history>>

(* It takes one that passes.                                               *)
Pass(e) ==
  LET f == Head(queue[e])
  IN /\ Waits(e) /\ InWindow(e, f)
     /\ queue' = [queue EXCEPT ![e] = Tail(@)]
     /\ hand' = [hand EXCEPT ![e] = <<[frame |-> f, ctr |-> FullCounter(e, f), key |-> key[e]]>>]
     /\ UNCHANGED <<ends, threads, pings, resets, history>>

(* The frame is decrypted and its counter stored, also over a key that was *)
(* set in the meantime.                                                    *)
Opening(e) ==
  LET h == Head(hand[e])
  IN /\ hand[e] # <<>> /\ hand' = [hand EXCEPT ![e] = <<>>]
     /\ rx' = [rx EXCEPT ![e] = [init |-> TRUE, ctr |-> h.ctr]]
     /\ opened' = [opened EXCEPT ![e] = Append(@, h.frame.id)]
     /\ last' = [last EXCEPT ![e] = [ctr |-> h.frame.ctr, session |-> h.frame.session,
                                     key |-> h.frame.key]]
     /\ UNCHANGED <<addr, key, tx, on, queue, resets, session>>

(* Decrypted with another counter or key, a frame is noise, whose frame id *)
(* is none the receive threads act on.  Over a key that is being set it is *)
(* decrypted with the one or the other.                                    *)
Clear(h, k) == h.ctr = h.frame.ctr /\ k = h.frame.key

(* It opens a frame: data goes to the UDP port or the scanner parser, an   *)
(* echo to the ping that waits for it, noise nowhere.                      *)
Open(e) ==
  /\ Opening(e)
  /\ \E k \in {Head(hand[e]).key, key[e]} :
       LET h == Head(hand[e])
           mine == h.frame.kind = "echo" /\ Clear(h, k) /\ waitSeq[e] = h.frame.seq
       IN /\ ~(h.frame.kind = "ping" /\ Clear(h, k))
          /\ echoes' = IF mine /\ Len(echoes[e]) < 2
                       THEN [echoes EXCEPT ![e] = Append(@, h.frame.seq)] ELSE echoes
  /\ UNCHANGED <<threads, waitSeq, sealed>>

(* It opens a ping and answers it itself: no frame is taken meanwhile.     *)
OpenPing(e) ==
  LET h == Head(hand[e])
      t == <<e, "rx">>
      g == [id |-> Cardinality(sealed[e]) + 1, ctr |-> tx[e], key |-> key[e],
            session |-> session[e], kind |-> "echo", seq |-> h.frame.seq]
  IN /\ Opening(e) /\ h.frame.kind = "ping" /\ \E k \in {h.key, key[e]} : Clear(h, k)
     /\ Cardinality(sealed[e]) < MaxFrames
     /\ pc' = [pc EXCEPT ![t] = "loaded"]
     /\ frame' = [frame EXCEPT ![t] = g]
     /\ sealed' = [sealed EXCEPT ![e] = @ \cup {g.id}]
     /\ UNCHANGED <<tries, pings>>

-----------------------------------------------------------------------------
(* The scanner data or key states of the application.                      *)
SendData(e) ==
  /\ <<e, "app">> \in Callers
  /\ BeginSend(<<e, "app">>, "data", None)
  /\ UNCHANGED <<ends, queue, hand, pings>>

(* cmd_rf24_ping: seq is the next tx_seq; echoes of an earlier command     *)
(* have been thrown away.                                                  *)
Ping(e) ==
  LET seq == Cardinality(sealed[e]) + 1
  IN /\ <<e, "shell">> \in Callers
     /\ BeginSend(<<e, "shell">>, "ping", seq)
     /\ waitSeq' = [waitSeq EXCEPT ![e] = seq]
     /\ echoes' = [echoes EXCEPT ![e] = <<>>]
     /\ UNCHANGED <<ends, queue, hand>>

(* The wait for the echo is over, with an echo or without one.             *)
PingOver(e) ==
  /\ pc[<<e, "shell">>] = "await"
  /\ echoes' = [echoes EXCEPT ![e] = IF @ = <<>> THEN @ ELSE Tail(@)]
  /\ waitSeq' = [waitSeq EXCEPT ![e] = None]
  /\ pc' = [pc EXCEPT ![<<e, "shell">>] = "idle"]
  /\ UNCHANGED <<ends, queue, hand, frame, tries, resets, history>>

-----------------------------------------------------------------------------
(* nrf24_crypt_set_key: the key of an address, both counters forgotten.    *)
SetKey(e, a) ==
  /\ key' = [key EXCEPT ![e] = a]
  /\ tx' = [tx EXCEPT ![e] = 0]
  /\ rx' = [rx EXCEPT ![e].init = FALSE]
  /\ opened' = [opened EXCEPT ![e] = <<>>]
  /\ session' = [session EXCEPT ![e] = @ + 1]

Count == resets < MaxResets /\ resets' = resets + 1

(* gw_rf24_set_config, from the shell, the configuration port or main.     *)
SetConfig(a) ==
  /\ Count /\ SetKey("gateway", a)
  /\ addr' = [addr EXCEPT !["gateway"] = a]
  /\ UNCHANGED <<on, queue, hand, threads, pings, sealed, last>>

(* cmd_rf24_addr of mod_handler: the radio gets the address, the cipher    *)
(* keeps its key.                                                          *)
SetAddr(a) ==
  /\ Count /\ addr' = [addr EXCEPT !["handler"] = a]
  /\ UNCHANGED <<key, tx, rx, on, queue, hand, threads, pings, history>>

(* rf24_deinit and rf24_init of mod_handler, on a switch of the link.      *)
RadioOff ==
  /\ resets < MaxResets /\ on["handler"] /\ on' = [on EXCEPT !["handler"] = FALSE]
  /\ UNCHANGED <<addr, key, tx, rx, queue, hand, threads, pings, resets, history>>

RadioOn ==
  /\ Count /\ ~on["handler"] /\ on' = [on EXCEPT !["handler"] = TRUE]
  /\ SetKey("handler", addr["handler"])
  /\ UNCHANGED <<addr, queue, hand, threads, pings, sealed, last>>

(* The gateway loses its power and boots with the address it has stored.   *)
Restart ==
  LET mine == {t \in Threads : t[1] = "gateway"}
  IN /\ Count /\ SetKey("gateway", addr["gateway"])
     /\ queue' = [queue EXCEPT !["gateway"] = <<>>] /\ hand' = [hand EXCEPT !["gateway"] = <<>>]
     /\ pc' = [t \in Threads |-> IF t \in mine THEN "idle" ELSE pc[t]]
     /\ frame' = [t \in Threads |-> IF t \in mine THEN None ELSE frame[t]]
     /\ tries' = [t \in Threads |-> IF t \in mine THEN 0 ELSE tries[t]]
     /\ waitSeq' = [waitSeq EXCEPT !["gateway"] = None]
     /\ echoes' = [echoes EXCEPT !["gateway"] = <<>>]
     /\ UNCHANGED <<addr, on, sealed, last>>

Sending(t) == StoreCounter(t) \/ Acked(t) \/ NotAcked(t)

Next ==
  \/ \E t \in Threads : Sending(t)
  \/ \E e \in Ends : \/ SendData(e) \/ Ping(e) \/ PingOver(e)
                     \/ Refuse(e) \/ Pass(e) \/ Open(e) \/ OpenPing(e)
  \/ \E a \in Addrs : SetConfig(a) \/ SetAddr(a)
  \/ RadioOff \/ RadioOn \/ Restart

Spec == Init /\ [][Next]_vars

-----------------------------------------------------------------------------
(* The link to the gateway implements FrameChannel: retries after a lost   *)
(* acknowledgement put a frame on the air again, and no copy of the frames *)
(* opened last is opened a second time, whatever the two ends reset in     *)
(* between.  How many these are is what the byte leaves room for: so many  *)
(* windows that they do not come to a full turn, 7 with 256 and 32.        *)
ToGateway == INSTANCE FrameChannel
               WITH Frames <- Ids, Memory <- (Mod - 1) \div Window,
                    sealed <- sealed["handler"], opened <- opened["gateway"]

OpensOnce == ToGateway!Spec

(* nrf24_crypt.c:191: the counter inferred from one byte is the sender's.  *)
(* A receiver whose counter is the true one of the frame it opened last    *)
(* infers the true one of the next frame it opens from that sender, past   *)
(* lost and refused frames and the wrap of the byte.                       *)
InStep(e) == rx[e].init /\ rx[e].ctr = last[e].ctr

KeepsStep ==
  [][\A e \in Ends :
       (InStep(e) /\ last'[e] # last[e] /\ last'[e].session = last[e].session)
         => InStep(e)']_vars
=============================================================================
