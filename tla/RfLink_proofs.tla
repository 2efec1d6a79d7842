---------------------------- MODULE RfLink_proofs ----------------------------
(***************************************************************************)
(* What the counters of the radio link keep to, for any range of the       *)
(* counter byte, any window, queue, number of retries, frames and resets.  *)
(*                                                                         *)
(* One byte of a counter is on the air, so the receiver infers the right   *)
(* one only from a frame that is not too far from the last (Infer), and a  *)
(* frame can be opened again only once the receiver has counted all the    *)
(* way round (FarApart).                                                   *)
(***************************************************************************)
EXTENDS RfLink, Integers, FiniteSetTheorems, SequenceTheorems, TLAPS

LEMMA Constants ==
  /\ Mod \in Nat /\ Mod > 0 /\ Window \in Nat /\ Window > 0 /\ Window < Mod
  /\ Depth \in Nat /\ Depth > 0
  /\ Retries \in Nat /\ MaxFrames \in Nat /\ MaxResets \in Nat /\ Start \subseteq Nat
  BY LinkAssumption

USE Constants

-----------------------------------------------------------------------------
(* Arithmetic.                                                             *)

(* A natural number and its low byte.                                      *)
LEMMA Divide ==
  ASSUME NEW m \in Nat \ {0}, NEW a \in Nat
  PROVE  \E q \in Nat : \E l \in 0 .. m - 1 : a = m * q + l /\ a % m = l
<1>1. a \div m \in Int /\ a \div m >= 0
  OBVIOUS
<1>2. a % m \in 0 .. m - 1
  OBVIOUS
<1>3. a = m * (a \div m) + (a % m)
  OBVIOUS
<1> DEFINE q == a \div m  l == a % m
<1>4. q \in Nat /\ l \in 0 .. m - 1 /\ a = m * q + l
  BY <1>1, <1>2, <1>3
<1>5. a % m = l
  OBVIOUS
<1> HIDE DEF q, l
<1> QED
  BY <1>4, <1>5

LEMMA LowPart ==
  ASSUME NEW m \in Nat \ {0}, NEW q \in Int, NEW l \in 0 .. m - 1
  PROVE  (m * q + l) % m = l
  OBVIOUS

(* Products over a difference of less than one, of one, and of more.       *)
LEMMA Multiples ==
  ASSUME NEW m \in Nat \ {0}, NEW p \in Int, NEW q \in Int
  PROVE  /\ m * p - m * q < m => p <= q
         /\ m * p - m * q > 0 => p > q
         /\ m * p - m * q > 0 - m => p >= q
         /\ p = q + 1 => m * p = m * q + m
<1>1. m * p - m * q = m * (p - q)
  OBVIOUS
<1>2. p - q >= 1 => m * (p - q) >= m
  OBVIOUS
<1>3. p - q <= 0 => m * (p - q) <= 0
  OBVIOUS
<1>4. p - q <= 0 - 1 => m * (p - q) <= 0 - m
  OBVIOUS
<1>5. p = q + 1 => m * (p - q) = m
  OBVIOUS
<1> HIDE <1>1
<1> DEFINE x == m * p  y == m * q  z == m * (p - q)
<1>6. x \in Int /\ y \in Int /\ z \in Int /\ x - y = z
  BY <1>1
<1>8. p - q >= 1 => z >= m
  BY <1>2
<1>9. p - q <= 0 => z <= 0
  BY <1>3
<1>10. p - q <= 0 - 1 => z <= 0 - m
  BY <1>4
<1>11. p = q + 1 => z = m
  BY <1>5
<1> HIDE DEF x, y, z
<1>12. /\ x - y < m => p <= q
       /\ x - y > 0 => p > q
       /\ x - y > 0 - m => p >= q
       /\ p = q + 1 => x = y + m
  BY <1>6, <1>8, <1>9, <1>10, <1>11
<1> QED
  BY <1>12 DEF x, y

(* The counter inferred from the low byte of counter c by a receiver that  *)
(* has counted to r.                                                       *)
Distance(r, c) == ((c % Mod) + Mod - (r % Mod)) % Mod
Inferred(r, c) ==
  IF c % Mod < r % Mod THEN (r - (r % Mod)) + Mod + (c % Mod) ELSE (r - (r % Mod)) + (c % Mod)

LEMMA LowByte ==
  \A a \in Nat : \E q \in Nat : \E l \in 0 .. Mod - 1 : a = Mod * q + l /\ a % Mod = l
<1> TAKE a \in Nat
<1>1. Mod \in Nat \ {0}
  OBVIOUS
<1> QED
  BY <1>1, Divide, Zenon

(* It is ahead by the distance, which is less than Mod.                    *)
LEMMA InferredAhead ==
  ASSUME NEW r \in Nat, NEW c \in Nat
  PROVE  /\ Distance(r, c) \in 0 .. Mod - 1
         /\ Inferred(r, c) = r + Distance(r, c)
         /\ Inferred(r, c) \in Nat /\ Inferred(r, c) % Mod = c % Mod
<1>1. PICK p \in Nat : \E a \in 0 .. Mod - 1 : c = Mod * p + a /\ c % Mod = a
  BY LowByte, Zenon
<1>2. PICK a \in 0 .. Mod - 1 : c = Mod * p + a /\ c % Mod = a
  BY <1>1
<1>3. PICK q \in Nat : \E b \in 0 .. Mod - 1 : r = Mod * q + b /\ r % Mod = b
  BY LowByte, Zenon
<1>4. PICK b \in 0 .. Mod - 1 : r = Mod * q + b /\ r % Mod = b
  BY <1>3
<1>5. Mod * (q + 1) = Mod * q + Mod
  BY Multiples
<1>6. CASE a < b
  <2>1. Distance(r, c) = Mod + a - b
    <3>1. (Mod * 0 + (a + Mod - b)) % Mod = a + Mod - b
      BY <1>6, LowPart
    <3>2. Mod * 0 + (a + Mod - b) = a + Mod - b
      OBVIOUS
    <3> QED
      BY <3>1, <3>2, <1>2, <1>4 DEF Distance
  <2>2. Inferred(r, c) = Mod * (q + 1) + a
    BY <1>2, <1>4, <1>5, <1>6 DEF Inferred
  <2>3. Inferred(r, c) % Mod = a
    BY <2>2, LowPart
  <2> QED
    BY <1>2, <1>4, <1>5, <1>6, <2>1, <2>2, <2>3
<1>7. CASE a >= b
  <2>1. Distance(r, c) = a - b
    <3>1. (Mod * 1 + (a - b)) % Mod = a - b
      BY <1>7, LowPart
    <3>2. Mod * 1 + (a - b) = a + Mod - b
      OBVIOUS
    <3> QED
      BY <3>1, <3>2, <1>2, <1>4 DEF Distance
  <2>2. Inferred(r, c) = Mod * q + a
    BY <1>2, <1>4, <1>7 DEF Inferred
  <2>3. Inferred(r, c) % Mod = a
    BY <2>2, LowPart
  <2> QED
    BY <1>2, <1>4, <1>7, <2>1, <2>2, <2>3
<1> QED
  BY <1>6, <1>7

(* Counters of one low byte that differ are at least Mod apart.            *)
LEMMA SameByte ==
  ASSUME NEW r \in Nat, NEW c \in Nat, r % Mod = c % Mod, r < c
  PROVE  c - r >= Mod
<1>1. PICK p \in Nat : \E a \in 0 .. Mod - 1 : c = Mod * p + a /\ c % Mod = a
  BY LowByte, Zenon
<1>2. PICK a \in 0 .. Mod - 1 : c = Mod * p + a /\ c % Mod = a
  BY <1>1
<1>3. PICK q \in Nat : \E b \in 0 .. Mod - 1 : r = Mod * q + b /\ r % Mod = b
  BY LowByte, Zenon
<1>4. r = Mod * q + a
  BY <1>2, <1>3
<1>5. Mod * p - Mod * q < Mod => p <= q
  BY Multiples
<1>6. Mod * p - Mod * q > 0 => p > q
  BY Multiples
<1> QED
  BY <1>2, <1>4, <1>5, <1>6

(* A frame less than Mod ahead of the receiver, or less than Mod - Window  *)
(* behind it, is refused or taken for what it is.                          *)
LEMMA Infer ==
  ASSUME NEW r \in Nat, NEW c \in Nat, Distance(r, c) \in 1 .. Window,
         c - r < Mod, r - c < Mod - Window
  PROVE  Inferred(r, c) = c
<1> DEFINE i == Inferred(r, c)
<1>1. i \in r + 1 .. r + Window /\ i % Mod = c % Mod /\ i \in Nat
  <2>1. i = r + Distance(r, c) /\ i \in Nat /\ i % Mod = c % Mod
    BY InferredAhead
  <2> HIDE DEF i
  <2> QED
    BY <2>1
<1> HIDE DEF i
<1>2. ASSUME i < c PROVE FALSE
  <2>1. c - i >= Mod
    BY <1>1, <1>2, SameByte
  <2> QED
    BY <1>1, <2>1
<1>3. ASSUME c < i PROVE FALSE
  <2>1. i - c >= Mod
    BY <1>1, <1>3, SameByte
  <2> QED
    BY <1>1, <2>1
<1> QED
  BY <1>1, <1>2, <1>3 DEF i

-----------------------------------------------------------------------------
(* Ends, threads, types.                                                   *)

LEMMA PeerOf == \A e \in Ends : Peer(e) \in Ends /\ Peer(e) # e /\ Peer(Peer(e)) = e
<1> TAKE e \in Ends
<1>1. \A d \in Ends : \E p \in Ends : p # d
  BY DEF Ends
<1>2. \A d \in Ends : Peer(d) \in Ends /\ Peer(d) # d
  BY <1>1 DEF Peer
<1> QED
  BY <1>2 DEF Ends

LEMMA ThreadEnd ==
  /\ \A t \in Threads : t[1] \in Ends
  /\ \A e \in Ends : \A k \in {"app", "shell", "rx"} : <<e, k>> \in Threads /\ <<e, k>>[1] = e
  BY DEF Threads

Moving == {"loaded", "sealed"}

Typed ==
  /\ addr \in [Ends -> Addrs] /\ key \in [Ends -> Addrs] /\ tx \in [Ends -> Nat]
  /\ rx \in [Ends -> [init : BOOLEAN, ctr : Nat]] /\ on \in [Ends -> BOOLEAN]
  /\ queue \in [Ends -> Seq(Frame)] /\ \A e \in Ends : Len(queue[e]) <= Depth
  /\ hand \in [Ends -> Seq(Passed)] /\ \A e \in Ends : Len(hand[e]) <= 1
  /\ pc \in [Threads -> {"idle", "loaded", "sealed", "await"}]
  /\ frame \in [Threads -> Frame \cup {None}]
  /\ \A t \in Threads : pc[t] \in Moving => frame[t] \in Frame
  /\ tries \in [Threads -> 0 .. Retries]
  /\ waitSeq \in [Ends -> Nat] /\ echoes \in [Ends -> Seq(Nat)]
  /\ sealed \in [Ends -> SUBSET Ids] /\ resets \in 0 .. MaxResets
  /\ opened \in [Ends -> Seq(Ids)] /\ session \in [Ends -> Nat]
  /\ last \in [Ends -> [ctr : Nat, session : Nat, key : Addrs]]

(* Frames are numbered in the order they are sealed.                       *)
Number(e) == Cardinality(sealed[e])
Numbered  == \A e \in Ends : Number(e) \in 0 .. MaxFrames /\ sealed[e] = 1 .. Number(e)

LEMMA NextId ==
  ASSUME NEW S, NEW n \in Nat, S = 1 .. n
  PROVE  Cardinality(S) = n /\ S \cup {n + 1} = 1 .. n + 1 /\ Cardinality(S \cup {n + 1}) = n + 1
<1>1. S \cup {n + 1} = 1 .. n + 1
  OBVIOUS
<1>2. Cardinality(1 .. n) = n /\ Cardinality(1 .. n + 1) = n + 1
  BY FS_Interval
<1> QED
  BY <1>1, <1>2

(* The frame a thread seals is of the type of frames.                      *)
LEMMA NewFrame ==
  ASSUME Typed, Numbered, NEW e \in Ends, Number(e) < MaxFrames,
         NEW k \in {"data", "ping", "echo"}, NEW n \in Nat
  PROVE  [id |-> Number(e) + 1, ctr |-> tx[e], key |-> key[e], session |-> session[e],
          kind |-> k, seq |-> n] \in Frame
<1>1. Number(e) + 1 \in Ids
  BY DEF Numbered, Ids
<1> QED
  BY <1>1 DEF Typed, Frame

LEMMA InferredCounter ==
  ASSUME Typed, NEW e \in Ends, NEW f \in Frame, InWindow(e, f)
  PROVE  /\ FullCounter(e, f) \in Nat /\ FullCounter(e, f) % Mod = f.ctr % Mod
         /\ rx[e].init => FullCounter(e, f) \in rx[e].ctr + 1 .. rx[e].ctr + Window
         /\ rx[e].init /\ f.ctr - rx[e].ctr < Mod /\ rx[e].ctr - f.ctr < Mod - Window
              => FullCounter(e, f) = f.ctr
<1>1. rx[e].ctr \in Nat /\ f.ctr \in Nat
  BY DEF Typed, Frame
<1>2. CASE rx[e].init
  <2>1. FullCounter(e, f) = Inferred(rx[e].ctr, f.ctr)
    BY <1>2 DEF FullCounter, Inferred
  <2>2. Distance(rx[e].ctr, f.ctr) \in 1 .. Window
    BY <1>2 DEF InWindow, Diff, Distance
  <2> DEFINE r == rx[e].ctr  c == f.ctr
  <2>3. r \in Nat /\ c \in Nat /\ Distance(r, c) \in 1 .. Window
    BY <1>1, <2>2
  <2>4. FullCounter(e, f) = Inferred(r, c)
    BY <2>1
  <2> HIDE DEF r, c
  <2>5. /\ Inferred(r, c) = r + Distance(r, c)
        /\ Inferred(r, c) \in Nat /\ Inferred(r, c) % Mod = c % Mod
    BY <2>3, InferredAhead
  <2>6. c - r < Mod /\ r - c < Mod - Window => Inferred(r, c) = c
    BY <2>3, Infer
  <2>7. /\ FullCounter(e, f) \in Nat /\ FullCounter(e, f) % Mod = c % Mod
        /\ FullCounter(e, f) \in r + 1 .. r + Window
        /\ c - r < Mod /\ r - c < Mod - Window => FullCounter(e, f) = c
    BY <2>3, <2>4, <2>5, <2>6
  <2> QED
    BY <2>7 DEF r, c
<1>3. CASE ~rx[e].init
  <2>1. FullCounter(e, f) = f.ctr % Mod
    BY <1>3 DEF FullCounter
  <2>2. PICK q \in Nat : \E l \in 0 .. Mod - 1 : f.ctr = Mod * q + l /\ f.ctr % Mod = l
    BY <1>1, LowByte, Zenon
  <2>3. PICK l \in 0 .. Mod - 1 : f.ctr % Mod = l
    BY <2>2
  <2>4. (Mod * 0 + l) % Mod = l /\ Mod * 0 + l = l
    BY LowPart
  <2> QED
    BY <1>3, <2>1, <2>3, <2>4
<1> QED
  BY <1>2, <1>3

-----------------------------------------------------------------------------
(* Types.                                                                  *)

LEMMA InitTyped == Init => Typed /\ Numbered
<1> SUFFICES ASSUME Init PROVE Typed /\ Numbered
  OBVIOUS
<1>1. \A e \in Ends : sealed[e] = 1 .. 0 /\ Number(e) = 0
  BY FS_EmptySet DEF Init, Number
<1>2. last \in [Ends -> [ctr : Nat, session : Nat, key : Addrs]]
  BY DEF Init
<1>3. Numbered
  BY <1>1 DEF Numbered
<1>4. /\ addr \in [Ends -> Addrs] /\ key \in [Ends -> Addrs] /\ tx \in [Ends -> Nat]
      /\ rx \in [Ends -> [init : BOOLEAN, ctr : Nat]] /\ on \in [Ends -> BOOLEAN]
  BY DEF Init
<1>5. /\ queue \in [Ends -> Seq(Frame)] /\ \A e \in Ends : Len(queue[e]) <= Depth
      /\ hand \in [Ends -> Seq(Passed)] /\ \A e \in Ends : Len(hand[e]) <= 1
      /\ waitSeq \in [Ends -> Nat] /\ echoes \in [Ends -> Seq(Nat)]
      /\ opened \in [Ends -> Seq(Ids)] /\ session \in [Ends -> Nat]
  BY DEF Init, None
<1>6. /\ pc \in [Threads -> {"idle", "loaded", "sealed", "await"}]
      /\ frame \in [Threads -> Frame \cup {None}]
      /\ \A t \in Threads : pc[t] \in Moving => frame[t] \in Frame
      /\ tries \in [Threads -> 0 .. Retries]
      /\ sealed \in [Ends -> SUBSET Ids] /\ resets \in 0 .. MaxResets
  BY DEF Init, Moving
<1> QED
  BY <1>2, <1>3, <1>4, <1>5, <1>6 DEF Typed

LEMMA BeginTyped ==
  ASSUME Typed, Numbered, NEW t \in Threads, NEW k \in {"data", "ping", "echo"}, NEW n \in Nat,
         BeginSend(t, k, n)
  PROVE  /\ pc' \in [Threads -> {"idle", "loaded", "sealed", "await"}]
         /\ frame' \in [Threads -> Frame \cup {None}]
         /\ \A u \in Threads : pc'[u] \in Moving => frame'[u] \in Frame
         /\ sealed' \in [Ends -> SUBSET Ids]
         /\ UNCHANGED <<tries, opened, last, session, resets>>
<1> DEFINE f == [id |-> Number(t[1]) + 1, ctr |-> tx[t[1]], key |-> key[t[1]],
                 session |-> session[t[1]], kind |-> k, seq |-> n]
<1>1. t[1] \in Ends /\ Number(t[1]) < MaxFrames
  BY ThreadEnd DEF BeginSend, Number
<1>2. f \in Frame
  BY <1>1, NewFrame
<1>3. /\ pc' = [pc EXCEPT ![t] = "loaded"] /\ frame' = [frame EXCEPT ![t] = f]
      /\ sealed' = [sealed EXCEPT ![t[1]] = @ \cup {f.id}]
      /\ UNCHANGED <<tries, opened, last, session, resets>>
  BY DEF BeginSend, Number
<1> HIDE DEF f
<1>4. f.id \in Ids
  BY <1>2 DEF Frame
<1> QED
  BY <1>1, <1>2, <1>3, <1>4 DEF Typed, Moving

(* Numbering, when an end seals a frame.                                   *)
LEMMA SealNumbers ==
  ASSUME Typed, Numbered, NEW e \in Ends, Number(e) < MaxFrames,
         sealed' = [sealed EXCEPT ![e] = @ \cup {Number(e) + 1}]
  PROVE  /\ Numbered' /\ Number(e)' = Number(e) + 1
         /\ \A d \in Ends : d # e => sealed'[d] = sealed[d]
<1>1. sealed'[e] = sealed[e] \cup {Number(e) + 1} /\ \A d \in Ends : d # e => sealed'[d] = sealed[d]
  BY DEF Typed
<1> DEFINE n == Number(e)
<1>2. n \in Nat /\ n + 1 \in 0 .. MaxFrames /\ sealed[e] = 1 .. n
  BY DEF Numbered
<1> HIDE DEF n
<1>3. sealed[e] \cup {n + 1} = 1 .. n + 1 /\ Cardinality(sealed[e] \cup {n + 1}) = n + 1
  BY <1>2, NextId
<1>4. sealed'[e] = 1 .. n + 1 /\ Cardinality(sealed'[e]) = n + 1
  BY <1>1, <1>3 DEF n
<1>5. \A d \in Ends : Cardinality(sealed'[d]) \in 0 .. MaxFrames
                       /\ sealed'[d] = 1 .. Cardinality(sealed'[d])
  <2> TAKE d \in Ends
  <2>1. CASE d = e
    BY <2>1, <1>2, <1>4
  <2>2. CASE d # e
    BY <2>2, <1>1 DEF Numbered, Number
  <2> QED
    BY <2>1, <2>2
<1> QED
  BY <1>1, <1>4, <1>5 DEF Numbered, Number, n

LEMMA DeliverTyped ==
  ASSUME Typed, NEW e \in Ends, NEW f \in Frame, Deliver(e, f)
  PROVE  queue' \in [Ends -> Seq(Frame)] /\ \A d \in Ends : Len(queue'[d]) <= Depth
<1>1. CASE Len(queue[e]) < Depth
  <2>1. queue' = [queue EXCEPT ![e] = Append(queue[e], f)]
    BY <1>1 DEF Deliver
  <2>2. queue \in [Ends -> Seq(Frame)] /\ \A d \in Ends : Len(queue[d]) <= Depth
    BY DEF Typed
  <2>3. Append(queue[e], f) \in Seq(Frame) /\ Len(Append(queue[e], f)) = Len(queue[e]) + 1
    BY <2>2
  <2> QED
    BY <1>1, <2>1, <2>2, <2>3
<1>2. CASE ~(Len(queue[e]) < Depth)
  BY <1>2 DEF Deliver, Typed
<1> QED
  BY <1>1, <1>2

LEMMA AfterTyped ==
  ASSUME Typed, NEW t \in Threads, NEW acked \in BOOLEAN, AfterSend(t, acked)
  PROVE  /\ pc' \in [Threads -> {"idle", "loaded", "sealed", "await"}]
         /\ frame' \in [Threads -> Frame \cup {None}]
         /\ \A u \in Threads : pc'[u] \in Moving => frame'[u] \in Frame
         /\ tries' \in [Threads -> 0 .. Retries]
         /\ waitSeq' \in [Ends -> Nat]
<1>1. waitSeq' \in [Ends -> Nat]
  BY DEF Typed, AfterSend, None
<1>2. pc' \in [Threads -> {"idle", "loaded", "sealed", "await"}]
  <2>1. \E l \in {"idle", "await"} : pc' = [pc EXCEPT ![t] = l]
    BY Zenon DEF AfterSend
  <2> QED
    BY <2>1 DEF Typed
<1>3. frame' \in [Threads -> Frame \cup {None}]
  BY DEF Typed, AfterSend
<1>4. \A u \in Threads : pc'[u] \in Moving => pc[u] \in Moving /\ frame'[u] = frame[u]
  BY DEF Typed, AfterSend, Moving
<1>5. tries' \in [Threads -> 0 .. Retries]
  BY DEF Typed, AfterSend
<1> QED
  BY <1>1, <1>2, <1>3, <1>4, <1>5 DEF Typed

LEMMA TailTyped ==
  ASSUME Typed, NEW e \in Ends, queue[e] # <<>>, queue' = [queue EXCEPT ![e] = Tail(@)]
  PROVE  queue' \in [Ends -> Seq(Frame)] /\ \A d \in Ends : Len(queue'[d]) <= Depth
<1>1. queue \in [Ends -> Seq(Frame)] /\ \A d \in Ends : Len(queue[d]) <= Depth
  BY DEF Typed
<1>2. Tail(queue[e]) \in Seq(Frame) /\ Len(Tail(queue[e])) = Len(queue[e]) - 1
  BY <1>1
<1> QED
  BY <1>1, <1>2

LEMMA PassTyped ==
  ASSUME Typed, NEW e \in Ends, Pass(e)
  PROVE  /\ queue' \in [Ends -> Seq(Frame)] /\ \A d \in Ends : Len(queue'[d]) <= Depth
         /\ hand' \in [Ends -> Seq(Passed)] /\ \A d \in Ends : Len(hand'[d]) <= 1
<1> DEFINE f == Head(queue[e])  h == [frame |-> f, ctr |-> FullCounter(e, f), key |-> key[e]]
<1>1. /\ queue[e] # <<>> /\ InWindow(e, f) /\ queue' = [queue EXCEPT ![e] = Tail(@)]
      /\ hand' = [hand EXCEPT ![e] = <<h>>]
  BY DEF Pass, Waits
<1>2. f \in Frame
  BY <1>1 DEF Typed
<1>3. FullCounter(e, f) \in Nat
  BY <1>1, <1>2, InferredCounter
<1>4. h \in Passed
  BY <1>2, <1>3 DEF Typed, Passed
<1> HIDE DEF h, f
<1>5. <<h>> \in Seq(Passed) /\ Len(<<h>>) = 1
  BY <1>4
<1>6. hand \in [Ends -> Seq(Passed)] /\ \A d \in Ends : Len(hand[d]) <= 1
  BY DEF Typed
<1>7. hand' \in [Ends -> Seq(Passed)] /\ \A d \in Ends : Len(hand'[d]) <= 1
  BY <1>1, <1>5, <1>6
<1> QED
  BY <1>1, <1>7, TailTyped

LEMMA OpeningTyped ==
  ASSUME Typed, NEW e \in Ends, Opening(e)
  PROVE  /\ Head(hand[e]) \in Passed /\ Head(hand[e]).frame \in Frame
         /\ hand' \in [Ends -> Seq(Passed)] /\ \A d \in Ends : Len(hand'[d]) <= 1
         /\ rx' \in [Ends -> [init : BOOLEAN, ctr : Nat]]
         /\ opened' \in [Ends -> Seq(Ids)]
         /\ last' \in [Ends -> [ctr : Nat, session : Nat, key : Addrs]]
<1> DEFINE h == Head(hand[e])  f == h.frame
<1>1. h \in Passed
  BY DEF Typed, Opening
<1>2. f \in Frame /\ h.ctr \in Nat
  BY <1>1 DEF Passed
<1>3. /\ rx' = [rx EXCEPT ![e] = [init |-> TRUE, ctr |-> h.ctr]]
      /\ opened' = [opened EXCEPT ![e] = Append(@, f.id)]
      /\ last' = [last EXCEPT ![e] = [ctr |-> f.ctr, session |-> f.session, key |-> f.key]]
      /\ hand' = [hand EXCEPT ![e] = <<>>]
  BY DEF Opening
<1>4. hand' \in [Ends -> Seq(Passed)] /\ \A d \in Ends : Len(hand'[d]) <= 1
  BY <1>3 DEF Typed
<1> HIDE DEF f, h
<1>5. f.ctr \in Nat /\ f.session \in Nat /\ f.key \in Addrs /\ f.id \in Ids
  BY <1>2 DEF Frame
<1>6. rx' \in [Ends -> [init : BOOLEAN, ctr : Nat]]
  BY <1>2, <1>3 DEF Typed
<1>7. opened' \in [Ends -> Seq(Ids)]
  BY <1>3, <1>5 DEF Typed
<1>8. last' \in [Ends -> [ctr : Nat, session : Nat, key : Addrs]]
  BY <1>3, <1>5 DEF Typed
<1> QED
  BY <1>1, <1>2, <1>4, <1>6, <1>7, <1>8 DEF f, h

LEMMA SetKeyTyped ==
  ASSUME Typed, NEW e \in Ends, NEW a \in Addrs, SetKey(e, a)
  PROVE  /\ key' \in [Ends -> Addrs] /\ tx' \in [Ends -> Nat]
         /\ rx' \in [Ends -> [init : BOOLEAN, ctr : Nat]]
         /\ opened' \in [Ends -> Seq(Ids)] /\ session' \in [Ends -> Nat]
<1>1. /\ key' = [key EXCEPT ![e] = a] /\ tx' = [tx EXCEPT ![e] = 0]
      /\ rx' = [rx EXCEPT ![e].init = FALSE] /\ opened' = [opened EXCEPT ![e] = <<>>]
      /\ session' = [session EXCEPT ![e] = @ + 1]
  BY DEF SetKey
<1>2. /\ key \in [Ends -> Addrs] /\ tx \in [Ends -> Nat] /\ session \in [Ends -> Nat]
      /\ rx \in [Ends -> [init : BOOLEAN, ctr : Nat]] /\ opened \in [Ends -> Seq(Ids)]
  BY DEF Typed
<1>3. rx' \in [Ends -> [init : BOOLEAN, ctr : Nat]]
  <2>1. [rx[e] EXCEPT !.init = FALSE] \in [init : BOOLEAN, ctr : Nat]
    BY <1>2
  <2>2. rx' = [rx EXCEPT ![e] = [rx[e] EXCEPT !.init = FALSE]]
    BY <1>1
  <2> QED
    BY <1>2, <2>1, <2>2
<1>4. key' \in [Ends -> Addrs] /\ tx' \in [Ends -> Nat] /\ session' \in [Ends -> Nat]
  BY <1>1, <1>2
<1>5. opened' \in [Ends -> Seq(Ids)]
  BY <1>1, <1>2
<1> QED
  BY <1>3, <1>4, <1>5

LEMMA TypedKeeps == ASSUME Typed, Numbered, [Next]_vars PROVE Typed'
<1>1. ASSUME NEW t \in Threads, StoreCounter(t) PROVE Typed'
  <2>1. t[1] \in Ends /\ frame[t].ctr \in Nat /\ t \in Threads
    BY <1>1, ThreadEnd DEF StoreCounter, Typed, Moving, Frame
  <2>2. tx' \in [Ends -> Nat] /\ session' \in [Ends -> Nat]
    <3>1. tx' = [tx EXCEPT ![t[1]] = frame[t].ctr + 1]
      BY <1>1 DEF StoreCounter
    <3>2. \E n \in {session[t[1]], session[t[1]] + 1} : session' = [session EXCEPT ![t[1]] = n]
      BY <1>1, Zenon DEF StoreCounter
    <3>3. tx' \in [Ends -> Nat]
      <4> DEFINE n == frame[t].ctr + 1
      <4>1. n \in Nat /\ tx \in [Ends -> Nat] /\ tx' = [tx EXCEPT ![t[1]] = n]
        BY <2>1, <3>1 DEF Typed
      <4> HIDE DEF n
      <4> QED
        BY <2>1, <4>1
    <3>4. session' \in [Ends -> Nat]
      BY <2>1, <3>2 DEF Typed
    <3> QED
      BY <3>3, <3>4
  <2>3. /\ pc' \in [Threads -> {"idle", "loaded", "sealed", "await"}]
        /\ \A u \in Threads : pc'[u] \in Moving => frame[u] \in Frame
    BY <1>1 DEF StoreCounter, Typed, Moving
  <2> QED
    BY <1>1, <2>2, <2>3 DEF StoreCounter, Typed, pings
<1>2. ASSUME NEW t \in Threads, Acked(t) PROVE Typed'
  <2>1. Peer(t[1]) \in Ends /\ frame[t] \in Frame
    BY <1>2, ThreadEnd, PeerOf DEF Acked, Typed, Moving
  <2>2. /\ Deliver(Peer(t[1]), frame[t]) /\ AfterSend(t, TRUE)
        /\ UNCHANGED <<ends, hand, echoes, resets, history>>
    BY <1>2 DEF Acked
  <2> QED
    BY <2>1, <2>2, DeliverTyped, AfterTyped DEF Typed, ends, history
<1>3. ASSUME NEW t \in Threads, NotAcked(t) PROVE Typed'
  <2>1. Peer(t[1]) \in Ends /\ frame[t] \in Frame
    BY <1>3, ThreadEnd, PeerOf DEF NotAcked, Typed, Moving
  <2>2. queue' \in [Ends -> Seq(Frame)] /\ \A d \in Ends : Len(queue'[d]) <= Depth
    BY <1>3, <2>1, DeliverTyped DEF NotAcked, Typed
  <2>3. UNCHANGED <<ends, hand, echoes, resets, history>>
    BY <1>3 DEF NotAcked
  <2>4. CASE tries[t] < Retries
    <3>1. tries' \in [Threads -> 0 .. Retries] /\ UNCHANGED <<pc, frame, waitSeq>>
      <4>1. tries' = [tries EXCEPT ![t] = @ + 1] /\ UNCHANGED <<pc, frame, waitSeq>>
        BY <1>3, <2>4 DEF NotAcked
      <4>2. tries[t] + 1 \in 0 .. Retries /\ tries \in [Threads -> 0 .. Retries]
        BY <2>4 DEF Typed
      <4> QED
        BY <4>1, <4>2
    <3> QED
      BY <2>2, <2>3, <3>1 DEF Typed, ends, history
  <2>5. CASE ~(tries[t] < Retries)
    <3>1. AfterSend(t, FALSE)
      BY <1>3, <2>5 DEF NotAcked
    <3> QED
      BY <2>2, <2>3, <3>1, AfterTyped DEF Typed, ends, history
  <2> QED
    BY <2>4, <2>5
<1>4. ASSUME NEW e \in Ends, SendData(e) PROVE Typed'
  <2>1. BeginSend(<<e, "app">>, "data", None) /\ UNCHANGED <<ends, queue, hand, pings>>
    BY <1>4 DEF SendData
  <2>2. <<e, "app">> \in Threads /\ None \in Nat
    BY ThreadEnd DEF None
  <2> QED
    BY <2>1, <2>2, BeginTyped DEF Typed, ends, pings
<1>5. ASSUME NEW e \in Ends, Ping(e) PROVE Typed'
  <2> DEFINE seq == Number(e) + 1
  <2>1. /\ BeginSend(<<e, "shell">>, "ping", seq)
        /\ waitSeq' = [waitSeq EXCEPT ![e] = seq] /\ echoes' = [echoes EXCEPT ![e] = <<>>]
        /\ UNCHANGED <<ends, queue, hand>>
    BY <1>5 DEF Ping, Number
  <2>2. <<e, "shell">> \in Threads /\ seq \in Nat
    <3>1. <<e, "shell">> \in Threads
      BY ThreadEnd
    <3>2. seq \in Nat
      BY DEF Numbered
    <3> QED
      BY <3>1, <3>2
  <2> HIDE DEF seq
  <2>3. waitSeq' \in [Ends -> Nat] /\ echoes' \in [Ends -> Seq(Nat)]
    BY <2>1, <2>2 DEF Typed
  <2> QED
    BY <2>1, <2>2, <2>3, BeginTyped DEF Typed, ends
<1>6. ASSUME NEW e \in Ends, PingOver(e) PROVE Typed'
  <2>1. waitSeq' \in [Ends -> Nat]
    BY <1>6 DEF PingOver, Typed, None
  <2>2. echoes' \in [Ends -> Seq(Nat)]
    BY <1>6 DEF PingOver, Typed
  <2>3. /\ pc' \in [Threads -> {"idle", "loaded", "sealed", "await"}]
        /\ \A u \in Threads : pc'[u] \in Moving => frame[u] \in Frame
    BY <1>6 DEF PingOver, Typed, Moving
  <2> QED
    BY <1>6, <2>1, <2>2, <2>3 DEF PingOver, Typed, ends, history
<1>7. ASSUME NEW e \in Ends, Refuse(e) PROVE Typed'
  BY <1>7, TailTyped DEF Refuse, Waits, Typed, ends, threads, pings, history
<1>8. ASSUME NEW e \in Ends, Open(e) PROVE Typed'
  <2>1. Opening(e) /\ UNCHANGED <<threads, waitSeq, sealed>>
    BY <1>8 DEF Open
  <2>2. echoes' \in [Ends -> Seq(Nat)]
    <3> DEFINE n == Head(hand[e]).frame.seq
    <3>1. n \in Nat
      BY <2>1, OpeningTyped DEF Frame
    <3>2. echoes' = [echoes EXCEPT ![e] = Append(@, n)] \/ echoes' = echoes
      <4>1. \E c \in BOOLEAN : echoes' = IF c THEN [echoes EXCEPT ![e] = Append(@, n)] ELSE echoes
        BY <1>8, Zenon DEF Open
      <4> QED
        BY <4>1
    <3> HIDE DEF n
    <3>3. Append(echoes[e], n) \in Seq(Nat) /\ echoes \in [Ends -> Seq(Nat)]
      BY <3>1 DEF Typed
    <3> QED
      BY <3>2, <3>3
  <2>3. UNCHANGED <<addr, key, tx, on, queue, resets, session>>
    BY <2>1 DEF Opening
  <2> QED
    BY <2>1, <2>2, <2>3, OpeningTyped DEF Typed, threads
<1>9. ASSUME NEW e \in Ends, OpenPing(e) PROVE Typed'
  <2> DEFINE n == Head(hand[e]).frame.seq
             g == [id |-> Number(e) + 1, ctr |-> tx[e], key |-> key[e],
                   session |-> session[e], kind |-> "echo", seq |-> n]
             t == <<e, "rx">>
  <2>1. /\ Opening(e) /\ Number(e) < MaxFrames /\ pc' = [pc EXCEPT ![t] = "loaded"]
        /\ frame' = [frame EXCEPT ![t] = g] /\ sealed' = [sealed EXCEPT ![e] = @ \cup {g.id}]
        /\ UNCHANGED <<tries, pings>>
    BY <1>9 DEF OpenPing, Number
  <2>2. n \in Nat /\ t \in Threads
    BY <2>1, OpeningTyped, ThreadEnd DEF Frame
  <2>3. g \in Frame
    BY <2>1, <2>2, NewFrame
  <2>4. UNCHANGED <<addr, key, tx, on, queue, resets, session>>
    BY <2>1 DEF Opening
  <2> HIDE DEF n, g, t
  <2>5. sealed' \in [Ends -> SUBSET Ids]
    BY <2>1, <2>3 DEF Typed, Frame
  <2>6. /\ pc' \in [Threads -> {"idle", "loaded", "sealed", "await"}]
        /\ frame' \in [Threads -> Frame \cup {None}]
        /\ \A u \in Threads : pc'[u] \in Moving => frame'[u] \in Frame
    BY <2>1, <2>2, <2>3 DEF Typed, Moving
  <2> QED
    BY <2>1, <2>4, <2>5, <2>6, OpeningTyped DEF Typed, pings
<1>10. ASSUME NEW a \in Addrs, SetConfig(a) PROVE Typed'
  <2>1. "gateway" \in Ends /\ SetKey("gateway", a) /\ resets' \in 0 .. MaxResets
    BY <1>10 DEF SetConfig, Count, Ends, Typed
  <2>2. addr' \in [Ends -> Addrs] /\ UNCHANGED <<on, queue, hand, threads, pings, sealed, last>>
    BY <1>10 DEF SetConfig, Typed
  <2> QED
    BY <2>1, <2>2, SetKeyTyped DEF Typed, threads, pings
<1>11. ASSUME NEW a \in Addrs, SetAddr(a) PROVE Typed'
  <2>1. addr' \in [Ends -> Addrs] /\ resets' \in 0 .. MaxResets
    <3>1. addr' \in [Ends -> Addrs]
      BY <1>11 DEF SetAddr, Typed
    <3>2. resets' \in 0 .. MaxResets
      BY <1>11 DEF SetAddr, Count, Typed
    <3> QED
      BY <3>1, <3>2
  <2> QED
    BY <1>11, <2>1 DEF SetAddr, Typed, threads, pings, history
<1>12. CASE RadioOff
  <2>1. on' \in [Ends -> BOOLEAN]
    BY <1>12 DEF RadioOff, Typed
  <2> QED
    BY <1>12, <2>1 DEF RadioOff, Typed, threads, pings, history
<1>13. CASE RadioOn
  <2>1. "handler" \in Ends /\ addr["handler"] \in Addrs
    BY DEF Ends, Typed
  <2>2. SetKey("handler", addr["handler"]) /\ resets' \in 0 .. MaxResets
    BY <1>13 DEF RadioOn, Count, Typed
  <2>3. on' \in [Ends -> BOOLEAN] /\ UNCHANGED <<addr, queue, hand, threads, pings, sealed, last>>
    BY <1>13 DEF RadioOn, Typed
  <2> QED
    BY <2>1, <2>2, <2>3, SetKeyTyped DEF Typed, threads, pings
<1>14. CASE Restart
  <2>1. "gateway" \in Ends /\ addr["gateway"] \in Addrs
    BY DEF Ends, Typed
  <2>2. SetKey("gateway", addr["gateway"]) /\ resets' \in 0 .. MaxResets
    BY <1>14 DEF Restart, Count, Typed
  <2>3. /\ queue' \in [Ends -> Seq(Frame)] /\ \A d \in Ends : Len(queue'[d]) <= Depth
        /\ hand' \in [Ends -> Seq(Passed)] /\ \A d \in Ends : Len(hand'[d]) <= 1
    BY <1>14, <2>1 DEF Restart, Typed
  <2>4. waitSeq' \in [Ends -> Nat] /\ echoes' \in [Ends -> Seq(Nat)]
    <3>1. waitSeq' \in [Ends -> Nat]
      BY <1>14 DEF Restart, Typed, None
    <3>2. echoes' = [echoes EXCEPT !["gateway"] = <<>>] /\ <<>> \in Seq(Nat)
      BY <1>14 DEF Restart
    <3>3. echoes' \in [Ends -> Seq(Nat)]
      BY <3>2 DEF Typed
    <3> QED
      BY <3>1, <3>3
  <2>5. UNCHANGED <<addr, on, sealed, last>>
    BY <1>14 DEF Restart
  <2>6. /\ pc' \in [Threads -> {"idle", "loaded", "sealed", "await"}]
        /\ frame' \in [Threads -> Frame \cup {None}]
        /\ \A u \in Threads : pc'[u] \in Moving => frame'[u] \in Frame
        /\ tries' \in [Threads -> 0 .. Retries]
    BY <1>14 DEF Restart, Typed, Moving
  <2> QED
    BY <2>1, <2>2, <2>3, <2>4, <2>5, <2>6, SetKeyTyped DEF Typed
<1>15. ASSUME NEW e \in Ends, Pass(e) PROVE Typed'
  <2>1. UNCHANGED <<ends, threads, pings, resets, history>>
    BY <1>15 DEF Pass
  <2> QED
    BY <1>15, <2>1, PassTyped DEF Typed, ends, threads, pings, history
<1>16. CASE UNCHANGED vars
  BY <1>16 DEF vars, ends, threads, pings, history, Typed
<1> QED
  BY <1>1, <1>2, <1>3, <1>4, <1>5, <1>6, <1>7, <1>8, <1>9, <1>10, <1>11, <1>12, <1>13, <1>14, <1>15,
     <1>16
     DEF Next, Sending

-----------------------------------------------------------------------------
(* What a step is to each end as a sender and as a receiver.  The frames   *)
(* of an end that are on their way: in the hands of its threads, in its    *)
(* peer's queue, or at work in its peer's nrf24_crypt_open.                *)
OnAir(e, f) ==
  \/ \E t \in Threads : t[1] = e /\ pc[t] \in Moving /\ f = frame[t]
  \/ \E i \in 1 .. Len(queue[Peer(e)]) : f = queue[Peer(e)][i]
  \/ \E i \in 1 .. Len(hand[Peer(e)]) : f = hand[Peer(e)][i].frame

Aired(e) == {f \in Frame : OnAir(e, f)}

Quiet(e) == UNCHANGED <<tx[e], session[e], sealed[e]>> /\ Aired(e)' \subseteq Aired(e)

Seals(e) ==
  \E f \in Frame :
    /\ f.id = Number(e) + 1 /\ f.ctr = tx[e] /\ f.session = session[e]
    /\ sealed'[e] = sealed[e] \cup {f.id} /\ Number(e)' = f.id
    /\ UNCHANGED <<tx[e], session[e]>> /\ Aired(e)' \subseteq Aired(e) \cup {f}

Stores(e) ==
  \E f \in Aired(e) :
    /\ tx'[e] = f.ctr + 1
    /\ session'[e] = IF session[e] = f.session THEN session[e] ELSE session[e] + 1
    /\ UNCHANGED <<sealed[e]>> /\ Aired(e)' \subseteq Aired(e)

StartsAgain(e) ==
  /\ tx'[e] = 0 /\ session'[e] = session[e] + 1
  /\ UNCHANGED <<sealed[e]>> /\ Aired(e)' \subseteq Aired(e)

SenderStep(e) == Quiet(e) \/ Seals(e) \/ Stores(e) \/ StartsAgain(e)

Idles(e) == UNCHANGED <<rx[e], opened[e], last[e]>>

(* The counter n of a frame f that has passed is the one inferred for it,  *)
(* unless the counters have been forgotten since.                          *)
Fits(e, f, n) ==
  /\ n \in Nat /\ n % Mod = f.ctr % Mod
  /\ rx[e].init => InWindow(e, f) /\ n = FullCounter(e, f)

InHand == \A e \in Ends : \A i \in 1 .. Len(hand[e]) : Fits(e, hand[e][i].frame, hand[e][i].ctr)

Opens(e) ==
  \E f \in Aired(Peer(e)) : \E n \in Nat :
    /\ Fits(e, f, n)
    /\ rx'[e] = [init |-> TRUE, ctr |-> n]
    /\ opened'[e] = Append(opened[e], f.id)
    /\ last'[e] = [ctr |-> f.ctr, session |-> f.session, key |-> f.key]

Forgets(e) == ~rx'[e].init /\ opened'[e] = <<>> /\ UNCHANGED <<last[e]>>

ReceiverStep(e) == Idles(e) \/ Opens(e) \/ Forgets(e)

(* No frame comes to the threads, or to the peer, unless it is on its way  *)
(* already.                                                                *)
HeldKept(e) ==
  \A t \in Threads : t[1] = e /\ pc'[t] \in Moving => pc[t] \in Moving /\ frame'[t] = frame[t]
QueuedKept(e) ==
  /\ \A i \in 1 .. Len(queue'[Peer(e)]) : OnAir(e, queue'[Peer(e)][i])
  /\ \A i \in 1 .. Len(hand'[Peer(e)]) : OnAir(e, hand'[Peer(e)][i].frame)

LEMMA AirKept ==
  ASSUME NEW e \in Ends, HeldKept(e), QueuedKept(e)
  PROVE  Aired(e)' \subseteq Aired(e)
<1> SUFFICES ASSUME NEW f \in Frame, OnAir(e, f)' PROVE OnAir(e, f)
  BY DEF Aired
<1>1. CASE \E t \in Threads : t[1] = e /\ pc'[t] \in Moving /\ f = frame'[t]
  BY <1>1 DEF OnAir, HeldKept
<1>2. CASE \E i \in 1 .. Len(queue'[Peer(e)]) : f = queue'[Peer(e)][i]
  BY <1>2 DEF QueuedKept
<1>3. CASE \E i \in 1 .. Len(hand'[Peer(e)]) : f = hand'[Peer(e)][i].frame
  BY <1>3 DEF QueuedKept
<1> QED
  BY <1>1, <1>2, <1>3 DEF OnAir

LEMMA SameQueue == ASSUME UNCHANGED <<queue, hand>>, NEW e \in Ends PROVE QueuedKept(e)
  BY DEF QueuedKept, OnAir

LEMMA SameHand ==
  ASSUME InHand, UNCHANGED hand, \A e \in Ends : rx'[e] = rx[e] \/ ~rx'[e].init
  PROVE  InHand'
<1> SUFFICES ASSUME NEW e \in Ends, NEW i \in 1 .. Len(hand[e])
             PROVE  Fits(e, hand[e][i].frame, hand[e][i].ctr)'
  BY DEF InHand
<1>1. Fits(e, hand[e][i].frame, hand[e][i].ctr)
  BY DEF InHand
<1> QED
  BY <1>1 DEF Fits, InWindow, FullCounter, Diff

(* What is left of a queue, while the hands keep what they hold or take    *)
(* the first frame.                                                        *)
LEMMA TailAir ==
  ASSUME Typed, NEW d \in Ends, queue[d] # <<>>, queue' = [queue EXCEPT ![d] = Tail(@)],
         NEW e \in Ends,
         UNCHANGED hand \/ \E h : h.frame = Head(queue[d]) /\ hand' = [hand EXCEPT ![d] = <<h>>]
  PROVE  QueuedKept(e)
<1>1. CASE Peer(e) = d
  <2>1. queue'[d] = Tail(queue[d]) /\ queue[d] \in Seq(Frame)
    BY DEF Typed
  <2>2. \A i \in 1 .. Len(Tail(queue[d])) : i + 1 \in 1 .. Len(queue[d])
                                            /\ Tail(queue[d])[i] = queue[d][i + 1]
    BY <2>1
  <2>3. \A i \in 1 .. Len(queue'[d]) : OnAir(e, queue'[d][i])
    BY <1>1, <2>1, <2>2 DEF OnAir
  <2>4. ASSUME NEW i \in 1 .. Len(hand'[d]) PROVE OnAir(e, hand'[d][i].frame)
    <3>1. CASE UNCHANGED hand
      BY <1>1, <2>4, <3>1 DEF OnAir
    <3>2. ASSUME NEW h, h.frame = Head(queue[d]), hand' = [hand EXCEPT ![d] = <<h>>]
          PROVE  OnAir(e, hand'[d][i].frame)
      <4>1. hand'[d] = <<h>>
        BY <3>2 DEF Typed
      <4>2. i = 1 /\ hand'[d][i] = h
        BY <2>4, <4>1
      <4>3. 1 \in 1 .. Len(queue[d]) /\ Head(queue[d]) = queue[d][1]
        BY <2>1
      <4> QED
        BY <1>1, <3>2, <4>2, <4>3 DEF OnAir
    <3> QED
      BY <3>1, <3>2
  <2> QED
    BY <1>1, <2>3, <2>4 DEF QueuedKept
<1>2. CASE Peer(e) # d
  <2>1. queue'[Peer(e)] = queue[Peer(e)] /\ hand'[Peer(e)] = hand[Peer(e)]
    BY <1>2, PeerOf DEF Typed
  <2> QED
    BY <2>1 DEF QueuedKept, OnAir
<1> QED
  BY <1>1, <1>2

LEMMA DeliverAir ==
  ASSUME Typed, NEW t \in Threads, pc[t] \in Moving, Deliver(Peer(t[1]), frame[t]), UNCHANGED hand,
         NEW e \in Ends
  PROVE  QueuedKept(e)
<1> DEFINE d == Peer(t[1])
<1>1. d \in Ends /\ t[1] \in Ends
  BY ThreadEnd, PeerOf
<1>2. CASE UNCHANGED queue
  BY <1>2, SameQueue
<1>3. CASE queue' = [queue EXCEPT ![d] = Append(queue[d], frame[t])] /\ e = t[1]
  <2>1. queue'[d] = Append(queue[d], frame[t]) /\ queue[d] \in Seq(Frame) /\ frame[t] \in Frame
    BY <1>1, <1>3 DEF Typed
  <2>2. \A i \in 1 .. Len(queue'[d]) : \/ i \in 1 .. Len(queue[d]) /\ queue'[d][i] = queue[d][i]
                                       \/ queue'[d][i] = frame[t]
    BY <2>1
  <2> QED
    BY <1>3, <2>2 DEF QueuedKept, OnAir
<1>4. CASE queue' = [queue EXCEPT ![d] = Append(queue[d], frame[t])] /\ e # t[1]
  <2>1. Peer(e) # d
    BY <1>1, <1>4, PeerOf
  <2>2. queue'[Peer(e)] = queue[Peer(e)]
    BY <1>1, <1>4, <2>1, PeerOf DEF Typed
  <2> QED
    BY <2>2 DEF QueuedKept, OnAir
<1> QED
  BY <1>2, <1>3, <1>4 DEF Deliver

LEMMA AfterHeld ==
  ASSUME Typed, NEW t \in Threads, NEW acked \in BOOLEAN, AfterSend(t, acked), NEW e \in Ends
  PROVE  HeldKept(e)
  BY DEF Typed, AfterSend, HeldKept, Moving

(* A thread t of end e starts to send frame g.                             *)
LEMMA SealSteps ==
  ASSUME Typed, Numbered, NEW e \in Ends, NEW t \in Threads, t[1] = e,
         Number(e) < MaxFrames, NEW g \in Frame,
         g.id = Number(e) + 1, g.ctr = tx[e], g.session = session[e],
         pc' = [pc EXCEPT ![t] = "loaded"], frame' = [frame EXCEPT ![t] = g],
         sealed' = [sealed EXCEPT ![e] = @ \cup {g.id}],
         UNCHANGED <<tx, session>>, \A d \in Ends : QueuedKept(d)
  PROVE  Numbered' /\ \A d \in Ends : SenderStep(d)
<1>1. /\ Numbered' /\ Number(e)' = Number(e) + 1
      /\ \A d \in Ends : d # e => sealed'[d] = sealed[d]
  BY SealNumbers
<1>2. sealed'[e] = sealed[e] \cup {g.id}
  BY DEF Typed
<1>3. \A u \in Threads : u # t => pc'[u] = pc[u] /\ frame'[u] = frame[u]
  BY DEF Typed
<1>4. frame'[t] = g
  BY DEF Typed
<1>5. Aired(e)' \subseteq Aired(e) \cup {g}
  <2> SUFFICES ASSUME NEW f \in Frame, OnAir(e, f)' PROVE OnAir(e, f) \/ f = g
    BY DEF Aired
  <2>1. CASE \E u \in Threads : u[1] = e /\ pc'[u] \in Moving /\ f = frame'[u]
    BY <1>3, <1>4, <2>1 DEF OnAir
  <2>2. CASE \E i \in 1 .. Len(queue'[Peer(e)]) : f = queue'[Peer(e)][i]
    BY <2>2 DEF QueuedKept
  <2>3. CASE \E i \in 1 .. Len(hand'[Peer(e)]) : f = hand'[Peer(e)][i].frame
    BY <2>3 DEF QueuedKept
  <2> QED
    BY <2>1, <2>2, <2>3 DEF OnAir
<1>6. Seals(e)
  BY <1>1, <1>2, <1>5 DEF Seals
<1>7. ASSUME NEW d \in Ends, d # e PROVE Quiet(d)
  <2>1. HeldKept(d)
    BY <1>3, <1>7 DEF HeldKept
  <2> QED
    BY <1>1, <1>7, <2>1, AirKept DEF Quiet
<1> QED
  BY <1>1, <1>6, <1>7 DEF SenderStep

LEMMA QuietSteps ==
  ASSUME UNCHANGED <<tx, session, sealed>>, NEW e \in Ends, HeldKept(e), QueuedKept(e)
  PROVE  SenderStep(e)
  BY AirKept DEF SenderStep, Quiet

LEMMA IdleSteps == ASSUME UNCHANGED <<rx, opened, last>>, NEW e \in Ends PROVE ReceiverStep(e)
  BY DEF ReceiverStep, Idles

LEMMA SetKeySteps ==
  ASSUME Typed, NEW e \in Ends, NEW a \in Addrs, SetKey(e, a), UNCHANGED <<sealed, last>>,
         NEW d \in Ends, HeldKept(d), QueuedKept(d)
  PROVE  SenderStep(d) /\ ReceiverStep(d)
<1>1. Aired(d)' \subseteq Aired(d)
  BY AirKept
<1>2. CASE d = e
  <2>1. tx'[e] = 0 /\ session'[e] = session[e] + 1
    BY DEF SetKey, Typed
  <2>2. ~rx'[e].init /\ opened'[e] = <<>>
    BY DEF SetKey, Typed
  <2> QED
    BY <1>1, <1>2, <2>1, <2>2 DEF SenderStep, StartsAgain, ReceiverStep, Forgets
<1>3. CASE d # e
  <2>1. UNCHANGED <<tx[d], session[d], rx[d], opened[d]>>
    BY <1>3 DEF SetKey, Typed
  <2> QED
    BY <1>1, <2>1 DEF SenderStep, Quiet, ReceiverStep, Idles
<1> QED
  BY <1>2, <1>3

Steps == Numbered' /\ InHand' /\ \A e \in Ends : SenderStep(e) /\ ReceiverStep(e)

LEMMA SameNumbers == Numbered /\ UNCHANGED sealed => Numbered'
  BY DEF Numbered, Number

LEMMA SameRx == InHand /\ UNCHANGED <<hand, rx>> => InHand'
  BY SameHand

LEMMA SetKeyHand ==
  ASSUME Typed, InHand, NEW e \in Ends, NEW a \in Addrs, SetKey(e, a),
         \A d \in Ends : hand'[d] = hand[d] \/ hand'[d] = <<>>
  PROVE  InHand'
<1> SUFFICES ASSUME NEW d \in Ends, NEW i \in 1 .. Len(hand'[d])
             PROVE  Fits(d, hand[d][i].frame, hand[d][i].ctr)'
  BY DEF InHand
<1>1. hand'[d] = hand[d] /\ i \in 1 .. Len(hand[d])
  OBVIOUS
<1>2. Fits(d, hand[d][i].frame, hand[d][i].ctr)
  BY <1>1 DEF InHand
<1>3. rx'[d] = rx[d] \/ ~rx'[d].init
  BY DEF SetKey, Typed
<1> QED
  BY <1>1, <1>2, <1>3 DEF Fits, InWindow, FullCounter, Diff

(* A receiver opens the frame that has passed.                             *)
LEMMA OpeningSteps ==
  ASSUME Typed, InHand, NEW e \in Ends, Opening(e)
  PROVE  InHand' /\ \A d \in Ends : QueuedKept(d) /\ ReceiverStep(d)
<1> DEFINE h == Head(hand[e])  f == h.frame
<1>1. /\ hand[e] # <<>> /\ hand' = [hand EXCEPT ![e] = <<>>] /\ UNCHANGED queue
      /\ rx' = [rx EXCEPT ![e] = [init |-> TRUE, ctr |-> h.ctr]]
      /\ opened' = [opened EXCEPT ![e] = Append(@, f.id)]
      /\ last' = [last EXCEPT ![e] = [ctr |-> f.ctr, session |-> f.session, key |-> f.key]]
  BY DEF Opening
<1>2. hand'[e] = <<>> /\ \A d \in Ends : d # e => hand'[d] = hand[d] /\ rx'[d] = rx[d]
  BY <1>1 DEF Typed
<1>3. InHand'
  <2> SUFFICES ASSUME NEW d \in Ends, NEW i \in 1 .. Len(hand'[d])
               PROVE  Fits(d, hand[d][i].frame, hand[d][i].ctr)'
    BY DEF InHand
  <2>1. d # e
    BY <1>2
  <2>2. Fits(d, hand[d][i].frame, hand[d][i].ctr) /\ hand'[d] = hand[d] /\ rx'[d] = rx[d]
    BY <1>2, <2>1 DEF InHand
  <2> QED
    BY <2>2 DEF Fits, InWindow, FullCounter, Diff
<1>4. ASSUME NEW d \in Ends PROVE QueuedKept(d)
  <2>1. hand'[Peer(d)] = <<>> \/ hand'[Peer(d)] = hand[Peer(d)]
    BY <1>2, PeerOf
  <2> QED
    BY <1>1, <2>1 DEF QueuedKept, OnAir
<1>5. hand[e] \in Seq(Passed) /\ Len(hand[e]) > 0 /\ h = hand[e][1] /\ 1 \in 1 .. Len(hand[e])
  <2>1. hand[e] \in Seq(Passed)
    BY DEF Typed
  <2> QED
    BY <1>1, <2>1
<1>6. f \in Frame /\ h.ctr \in Nat
  BY OpeningTyped DEF Passed
<1>7. f \in Aired(Peer(e))
  BY <1>5, <1>6, PeerOf DEF Aired, OnAir
<1>8. Fits(e, f, h.ctr)
  BY <1>5 DEF InHand
<1> HIDE DEF f, h
<1>9. ASSUME NEW d \in Ends PROVE ReceiverStep(d)
  <2>1. CASE d = e
    <3>1. /\ rx'[e] = [init |-> TRUE, ctr |-> h.ctr]
          /\ opened'[e] = Append(opened[e], f.id)
          /\ last'[e] = [ctr |-> f.ctr, session |-> f.session, key |-> f.key]
      BY <1>1 DEF Typed
    <3> QED
      BY <1>6, <1>7, <1>8, <2>1, <3>1 DEF ReceiverStep, Opens
  <2>2. CASE d # e
    <3>1. UNCHANGED <<rx[d], opened[d], last[d]>>
      BY <1>1, <2>2 DEF Typed
    <3> QED
      BY <3>1 DEF ReceiverStep, Idles
  <2> QED
    BY <2>1, <2>2
<1> QED
  BY <1>3, <1>4, <1>9

(* The frame that is taken has the counter inferred for it.                *)
LEMMA PassHand == ASSUME Typed, InHand, NEW e \in Ends, Pass(e) PROVE InHand'
<1> DEFINE f == Head(queue[e])  n == FullCounter(e, f)
<1>1. /\ queue[e] # <<>> /\ InWindow(e, f) /\ UNCHANGED rx
      /\ hand' = [hand EXCEPT ![e] = <<[frame |-> f, ctr |-> n, key |-> key[e]]>>]
  BY DEF Pass, Waits, ends
<1>2. f \in Frame
  BY <1>1 DEF Typed
<1>3. n \in Nat /\ n % Mod = f.ctr % Mod
  BY <1>1, <1>2, InferredCounter
<1>4. Fits(e, f, n)
  BY <1>1, <1>3 DEF Fits
<1> SUFFICES ASSUME NEW d \in Ends, NEW i \in 1 .. Len(hand'[d])
             PROVE  Fits(d, hand[d][i].frame, hand[d][i].ctr)'
  BY DEF InHand
<1> HIDE DEF f, n
<1>5. CASE d = e
  <2> DEFINE h == [frame |-> f, ctr |-> n, key |-> key[e]]
  <2>1. hand'[d] = <<h>>
    BY <1>1, <1>5 DEF Typed
  <2>2. h.frame = f /\ h.ctr = n
    OBVIOUS
  <2> HIDE DEF h
  <2>3. hand'[d][i].frame = f /\ hand'[d][i].ctr = n
    BY <2>1, <2>2
  <2> QED
    BY <1>1, <1>4, <1>5, <2>3 DEF Fits, InWindow, FullCounter, Diff
<1>6. CASE d # e
  <2>1. hand'[d] = hand[d]
    BY <1>1, <1>6 DEF Typed
  <2>2. Fits(d, hand[d][i].frame, hand[d][i].ctr)
    BY <2>1 DEF InHand
  <2> QED
    BY <1>1, <2>1, <2>2 DEF Fits, InWindow, FullCounter, Diff
<1> QED
  BY <1>5, <1>6

LEMMA EveryStep == ASSUME Typed, Numbered, InHand, [Next]_vars PROVE Steps
<1>1. ASSUME NEW t \in Threads, StoreCounter(t) PROVE Steps
  <2> DEFINE f == frame[t]  e == t[1]
  <2>1. e \in Ends /\ f \in Aired(e)
    BY <1>1, ThreadEnd DEF StoreCounter, Typed, Moving, Aired, OnAir
  <2>2. /\ tx' = [tx EXCEPT ![e] = f.ctr + 1] /\ UNCHANGED <<queue, hand>>
        /\ session' = [session EXCEPT ![e] = IF @ = f.session THEN @ ELSE @ + 1]
        /\ UNCHANGED <<rx, frame, sealed, opened, last>>
    BY <1>1 DEF StoreCounter
  <2>3. \A d \in Ends : HeldKept(d)
    BY <1>1 DEF StoreCounter, HeldKept, Typed, Moving
  <2>4. \A d \in Ends : Aired(d)' \subseteq Aired(d)
    BY <2>2, <2>3, SameQueue, AirKept
  <2> HIDE DEF f, e
  <2>5. Stores(e)
    BY <2>1, <2>2, <2>4 DEF Stores, Typed
  <2>6. \A d \in Ends : d # e => Quiet(d)
    BY <2>2, <2>4 DEF Quiet, Typed
  <2> QED
    BY <2>2, <2>5, <2>6, IdleSteps, SameNumbers, SameRx DEF Steps, SenderStep
<1>2. ASSUME NEW t \in Threads, Acked(t) PROVE Steps
  <2>1. /\ pc[t] \in Moving /\ Deliver(Peer(t[1]), frame[t]) /\ AfterSend(t, TRUE)
        /\ UNCHANGED <<hand, tx, rx, session, sealed, opened, last>>
    BY <1>2 DEF Acked, Moving, ends, history
  <2>2. \A d \in Ends : HeldKept(d) /\ QueuedKept(d)
    BY <2>1, AfterHeld, DeliverAir
  <2> QED
    BY <2>1, <2>2, QuietSteps, IdleSteps, SameNumbers, SameRx DEF Steps
<1>3. ASSUME NEW t \in Threads, NotAcked(t) PROVE Steps
  <2>1. pc[t] \in Moving /\ UNCHANGED <<hand, tx, rx, session, sealed, opened, last>>
    BY <1>3 DEF NotAcked, Moving, ends, history
  <2>2. \A d \in Ends : QueuedKept(d)
    BY <1>3, <2>1, DeliverAir, SameQueue DEF NotAcked
  <2>3. \A d \in Ends : HeldKept(d)
    BY <1>3, AfterHeld DEF NotAcked, HeldKept
  <2> QED
    BY <2>1, <2>2, <2>3, QuietSteps, IdleSteps, SameNumbers, SameRx DEF Steps
<1>4. ASSUME NEW t \in Threads, NEW k \in {"data", "ping", "echo"}, NEW n \in Nat,
             BeginSend(t, k, n), UNCHANGED <<ends, queue, hand>>
      PROVE  Steps
  <2> DEFINE e == t[1]
             g == [id |-> Number(e) + 1, ctr |-> tx[e], key |-> key[e],
                   session |-> session[e], kind |-> k, seq |-> n]
  <2>1. e \in Ends /\ Number(e) < MaxFrames
    BY <1>4, ThreadEnd DEF BeginSend, Number
  <2>2. g \in Frame
    BY <1>4, <2>1, NewFrame
  <2>3. /\ g.id = Number(e) + 1 /\ g.ctr = tx[e] /\ g.session = session[e]
        /\ pc' = [pc EXCEPT ![t] = "loaded"] /\ frame' = [frame EXCEPT ![t] = g]
        /\ sealed' = [sealed EXCEPT ![e] = @ \cup {g.id}]
        /\ UNCHANGED <<hand, tx, rx, session, opened, last>>
    BY <1>4 DEF BeginSend, Number, ends
  <2>4. \A d \in Ends : QueuedKept(d)
    BY <1>4, SameQueue
  <2> HIDE DEF e, g
  <2>5. t[1] = e
    BY DEF e
  <2> QED
    BY <2>1, <2>2, <2>3, <2>4, <2>5, SealSteps, IdleSteps, SameRx DEF Steps
<1>5. ASSUME NEW e \in Ends, SendData(e) PROVE Steps
  BY <1>4, <1>5, ThreadEnd DEF SendData, None
<1>6. ASSUME NEW e \in Ends, Ping(e) PROVE Steps
  <2>1. Number(e) + 1 \in Nat
    BY DEF Numbered
  <2> QED
    BY <1>4, <1>6, <2>1, ThreadEnd DEF Ping, Number
<1>7. ASSUME NEW e \in Ends, PingOver(e) PROVE Steps
  <2>1. \A d \in Ends : HeldKept(d)
    BY <1>7 DEF PingOver, HeldKept, Typed, Moving
  <2>2. UNCHANGED <<queue, hand, tx, rx, session, sealed, opened, last>>
    BY <1>7 DEF PingOver, ends, history
  <2> QED
    BY <2>1, <2>2, SameQueue, QuietSteps, IdleSteps, SameNumbers, SameRx DEF Steps
<1>8. ASSUME NEW e \in Ends, Refuse(e) PROVE Steps
  <2>1. UNCHANGED <<hand, pc, frame, tx, rx, session, sealed, opened, last>>
    BY <1>8 DEF Refuse, ends, threads, history
  <2>2. \A d \in Ends : HeldKept(d)
    BY <2>1 DEF HeldKept
  <2>3. \A d \in Ends : QueuedKept(d)
    BY <1>8, TailAir DEF Refuse, Waits
  <2> QED
    BY <2>1, <2>2, <2>3, QuietSteps, IdleSteps, SameNumbers, SameRx DEF Steps
<1>9. ASSUME NEW e \in Ends, Open(e) PROVE Steps
  <2>1. Opening(e) /\ UNCHANGED <<pc, frame, tx, session, sealed>>
    BY <1>9 DEF Open, Opening, threads
  <2>2. \A d \in Ends : HeldKept(d)
    BY <2>1 DEF HeldKept
  <2> QED
    BY <2>1, <2>2, OpeningSteps, QuietSteps, SameNumbers DEF Steps
<1>10. ASSUME NEW e \in Ends, OpenPing(e) PROVE Steps
  <2> DEFINE n == Head(hand[e]).frame.seq
             g == [id |-> Number(e) + 1, ctr |-> tx[e], key |-> key[e],
                   session |-> session[e], kind |-> "echo", seq |-> n]
             t == <<e, "rx">>
  <2>1. /\ Opening(e) /\ Number(e) < MaxFrames /\ pc' = [pc EXCEPT ![t] = "loaded"]
        /\ frame' = [frame EXCEPT ![t] = g] /\ sealed' = [sealed EXCEPT ![e] = @ \cup {g.id}]
    BY <1>10 DEF OpenPing, Number
  <2>2. n \in Nat /\ t \in Threads /\ t[1] = e
    BY <2>1, OpeningTyped, ThreadEnd DEF Frame
  <2>3. g \in Frame /\ g.id = Number(e) + 1 /\ g.ctr = tx[e] /\ g.session = session[e]
    BY <2>1, <2>2, NewFrame
  <2>4. UNCHANGED <<tx, session>>
    BY <2>1 DEF Opening
  <2>5. InHand' /\ \A d \in Ends : QueuedKept(d) /\ ReceiverStep(d)
    BY <2>1, OpeningSteps
  <2> HIDE DEF g, t
  <2> QED
    BY <2>1, <2>2, <2>3, <2>4, <2>5, SealSteps DEF Steps
<1>11. ASSUME NEW a \in Addrs, SetConfig(a) PROVE Steps
  <2>1. SetKey("gateway", a) /\ UNCHANGED <<queue, hand, pc, frame, sealed, last>>
    BY <1>11 DEF SetConfig, threads
  <2>2. \A d \in Ends : HeldKept(d) /\ QueuedKept(d)
    BY <2>1, SameQueue DEF HeldKept
  <2> QED
    BY <2>1, <2>2, SetKeySteps, SetKeyHand, SameNumbers DEF Steps, Ends
<1>12. ASSUME NEW a \in Addrs, SetAddr(a) PROVE Steps
  <2>1. UNCHANGED <<queue, hand, pc, frame, tx, rx, session, sealed, opened, last>>
    BY <1>12 DEF SetAddr, threads, history
  <2>2. \A d \in Ends : HeldKept(d)
    BY <2>1 DEF HeldKept
  <2> QED
    BY <2>1, <2>2, SameQueue, QuietSteps, IdleSteps, SameNumbers, SameRx DEF Steps
<1>13. CASE RadioOff
  <2>1. UNCHANGED <<queue, hand, pc, frame, tx, rx, session, sealed, opened, last>>
    BY <1>13 DEF RadioOff, threads, history
  <2>2. \A d \in Ends : HeldKept(d)
    BY <2>1 DEF HeldKept
  <2> QED
    BY <2>1, <2>2, SameQueue, QuietSteps, IdleSteps, SameNumbers, SameRx DEF Steps
<1>14. CASE RadioOn
  <2>1. SetKey("handler", addr["handler"]) /\ UNCHANGED <<queue, hand, pc, frame, sealed, last>>
    BY <1>14 DEF RadioOn, threads
  <2>2. addr["handler"] \in Addrs /\ "handler" \in Ends
    BY DEF Typed, Ends
  <2>3. \A d \in Ends : HeldKept(d) /\ QueuedKept(d)
    BY <2>1, SameQueue DEF HeldKept
  <2> QED
    BY <2>1, <2>2, <2>3, SetKeySteps, SetKeyHand, SameNumbers DEF Steps
<1>15. CASE Restart
  <2>1. SetKey("gateway", addr["gateway"]) /\ UNCHANGED <<sealed, last>>
    BY <1>15 DEF Restart
  <2>2. addr["gateway"] \in Addrs /\ "gateway" \in Ends
    BY DEF Typed, Ends
  <2>3. ASSUME NEW d \in Ends PROVE HeldKept(d)
    BY <1>15 DEF Restart, HeldKept, Moving, Typed
  <2>4. /\ queue'["gateway"] = <<>> /\ queue'["handler"] = queue["handler"]
        /\ hand'["gateway"] = <<>> /\ hand'["handler"] = hand["handler"]
    BY <1>15 DEF Restart, Typed, Ends
  <2>5. InHand'
    BY <2>1, <2>2, <2>4, SetKeyHand DEF Ends
  <2>6. ASSUME NEW d \in Ends PROVE QueuedKept(d)
    <3>1. CASE Peer(d) = "gateway"
      BY <2>4, <3>1 DEF QueuedKept
    <3>2. CASE Peer(d) = "handler"
      BY <2>4, <3>2 DEF QueuedKept, OnAir
    <3> QED
      BY <3>1, <3>2, PeerOf DEF Ends
  <2> QED
    BY <2>1, <2>2, <2>3, <2>5, <2>6, SetKeySteps, SameNumbers DEF Steps
<1>16. ASSUME NEW e \in Ends, Pass(e) PROVE Steps
  <2>1. UNCHANGED <<pc, frame, tx, rx, session, sealed, opened, last>>
    BY <1>16 DEF Pass, ends, threads, history
  <2>2. \A d \in Ends : HeldKept(d)
    BY <2>1 DEF HeldKept
  <2>3. \A d \in Ends : QueuedKept(d)
    <3> DEFINE f == Head(queue[e])  h == [frame |-> f, ctr |-> FullCounter(e, f), key |-> key[e]]
    <3>1. /\ queue[e] # <<>> /\ queue' = [queue EXCEPT ![e] = Tail(@)]
          /\ hand' = [hand EXCEPT ![e] = <<h>>] /\ h.frame = f
      BY <1>16 DEF Pass, Waits
    <3> HIDE DEF h
    <3> QED
      BY <3>1, TailAir
  <2> QED
    BY <1>16, <2>1, <2>2, <2>3, PassHand, QuietSteps, IdleSteps, SameNumbers DEF Steps
<1>17. CASE UNCHANGED vars
  <2>1. UNCHANGED <<queue, hand, pc, frame, tx, rx, session, sealed, opened, last>>
    BY <1>17 DEF vars, ends, threads, history
  <2>2. \A d \in Ends : HeldKept(d)
    BY <2>1 DEF HeldKept
  <2> QED
    BY <2>1, <2>2, SameQueue, QuietSteps, IdleSteps, SameNumbers, SameRx DEF Steps
<1> QED
  BY <1>1, <1>2, <1>3, <1>5, <1>6, <1>7, <1>8, <1>9, <1>10, <1>11, <1>12, <1>13, <1>14, <1>15,
     <1>16, <1>17 DEF Next, Sending

-----------------------------------------------------------------------------
(* The invariant.  Between two jumps of its counter a sender counts up     *)
(* from some b, by at most one per frame it seals.                         *)
InSession(e, b) ==
  /\ \A f \in Aired(e) : /\ f.id <= Number(e) /\ f.session <= session[e]
                         /\ b[f.session] <= f.ctr /\ f.ctr < b[f.session] + f.id
  /\ b[session[e]] <= tx[e] /\ tx[e] <= b[session[e]] + Number(e)
  /\ LET l == last[Peer(e)]
     IN l.session <= session[e] /\ b[l.session] <= l.ctr + 1 /\ l.ctr <= b[l.session] + Number(e)

Sessions == \A e \in Ends : \E b \in [Nat -> Nat] : InSession(e, b)

LEMMA InitSessions == Init => Sessions
<1> SUFFICES ASSUME Init, NEW e \in Ends PROVE \E b \in [Nat -> Nat] : InSession(e, b)
  BY DEF Sessions
<1>1. PICK s \in Start : tx = [d \in Ends |-> s]
        /\ rx = [d \in Ends |-> [init |-> s > 0, ctr |-> IF s = 0 THEN 0 ELSE s - 1]]
        /\ last = [d \in Ends |-> [ctr |-> rx[d].ctr, session |-> 0, key |-> key[d]]]
  BY DEF Init
<1>2. PICK b \in [Nat -> Nat] : b = [n \in Nat |-> s]
  OBVIOUS
<1>3. Aired(e) = {}
  BY PeerOf DEF Init, Aired, OnAir, Moving
<1>4. Number(e) = 0 /\ session[e] = 0 /\ tx[e] = s /\ b[0] = s /\ s \in Nat
  BY <1>1, <1>2, FS_EmptySet DEF Init, Number
<1>5. last[Peer(e)].session = 0 /\ last[Peer(e)].ctr = (IF s = 0 THEN 0 ELSE s - 1)
  BY <1>1, PeerOf
<1> QED
  BY <1>3, <1>4, <1>5 DEF InSession

LEMMA SessionsKeep == ASSUME Typed, Numbered, Sessions, Steps, Typed' PROVE Sessions'
<1> SUFFICES ASSUME NEW e \in Ends PROVE \E b \in [Nat -> Nat] : InSession(e, b)'
  BY DEF Sessions
<1> DEFINE p == Peer(e)  n == Number(e)  l == last'[p]
<1>1. PICK b \in [Nat -> Nat] : InSession(e, b)
  BY DEF Sessions
<1>2. p \in Ends /\ Peer(p) = e /\ session[e] \in Nat /\ tx[e] \in Nat /\ n \in Nat
  <2>1. n \in Nat
    BY DEF Numbered
  <2>2. session[e] \in Nat /\ tx[e] \in Nat
    BY DEF Typed
  <2> QED
    BY <2>1, <2>2, PeerOf
<1>3. \A f \in Frame : f.id \in Nat /\ f.ctr \in Nat /\ f.session \in Nat
  BY DEF Frame, Ids
<1>4. Aired(e) \subseteq Frame /\ Aired(e)' \subseteq Frame
  BY DEF Aired
<1>5. l.session \in Nat /\ l.ctr \in Nat
  BY <1>2 DEF Typed
<1>6. l.session <= session[e] /\ b[l.session] <= l.ctr + 1 /\ l.ctr <= b[l.session] + n
  <2>1. CASE UNCHANGED <<last[p]>>
    BY <1>1, <2>1 DEF InSession
  <2>2. CASE Opens(p)
    <3>1. PICK f \in Aired(e) : l = [ctr |-> f.ctr, session |-> f.session, key |-> f.key]
      BY <1>2, <2>2 DEF Opens
    <3>2. l.ctr = f.ctr /\ l.session = f.session /\ f \in Frame
      BY <1>4, <3>1
    <3>3. /\ f.id <= n /\ f.session <= session[e]
          /\ b[f.session] <= f.ctr /\ f.ctr < b[f.session] + f.id
      BY <1>1, <3>1 DEF InSession
    <3> QED
      BY <1>2, <1>3, <3>2, <3>3
  <2> QED
    BY <1>2, <2>1, <2>2 DEF Steps, ReceiverStep, Idles, Forgets
<1>7. CASE Quiet(e)
  <2>1. n' = n
    BY <1>7 DEF Quiet, Number
  <2> QED
    BY <1>1, <1>6, <1>7, <2>1 DEF Quiet, InSession
<1>8. CASE Seals(e)
  <2>1. PICK g \in Frame :
          /\ g.id = n + 1 /\ g.ctr = tx[e] /\ g.session = session[e] /\ n' = g.id
          /\ UNCHANGED <<tx[e], session[e]>> /\ Aired(e)' \subseteq Aired(e) \cup {g}
    BY <1>8 DEF Seals
  <2>2. ASSUME NEW f \in Aired(e)'
        PROVE  /\ f.id <= n' /\ f.session <= session[e]
               /\ b[f.session] <= f.ctr /\ f.ctr < b[f.session] + f.id
    <3>1. CASE f \in Aired(e)
      BY <1>1, <1>2, <1>3, <1>4, <2>1, <3>1 DEF InSession
    <3>2. CASE f = g
      BY <1>1, <1>2, <2>1, <3>2 DEF InSession
    <3> QED
      BY <2>1, <3>1, <3>2
  <2>3. tx[e] <= b[session[e]] + n' /\ l.ctr <= b[l.session] + n'
    BY <1>1, <1>2, <1>5, <1>6, <2>1 DEF InSession
  <2> QED
    BY <1>1, <1>6, <2>1, <2>2, <2>3 DEF InSession
<1>9. CASE Stores(e)
  <2>1. PICK g \in Aired(e) :
          /\ tx'[e] = g.ctr + 1
          /\ session'[e] = IF session[e] = g.session THEN session[e] ELSE session[e] + 1
          /\ UNCHANGED <<sealed[e]>> /\ Aired(e)' \subseteq Aired(e)
    BY <1>9 DEF Stores
  <2>2. n' = n
    BY <2>1 DEF Number
  <2>3. /\ g.id <= n /\ g.session <= session[e] /\ g \in Frame
        /\ b[g.session] <= g.ctr /\ g.ctr < b[g.session] + g.id
    BY <1>1, <1>4 DEF InSession
  <2>4. CASE session[e] = g.session
    <3>1. b[session[e]] <= tx'[e] /\ tx'[e] <= b[session[e]] + n
      BY <1>2, <1>3, <2>1, <2>3, <2>4
    <3>2. session'[e] = session[e]
      BY <2>1, <2>4
    <3> QED
      BY <1>1, <1>6, <2>1, <2>2, <3>1, <3>2 DEF InSession
  <2>5. CASE session[e] # g.session
    <3>1. session'[e] = session[e] + 1 /\ tx'[e] \in Nat
      BY <1>3, <2>1, <2>3, <2>5
    <3>2. PICK c \in [Nat -> Nat] : c = [b EXCEPT ![session[e] + 1] = tx'[e]]
      BY <1>2, <3>1
    <3>3. c[session[e] + 1] = tx'[e] /\ \A k \in Nat : k <= session[e] => c[k] = b[k]
      BY <1>2, <3>2
    <3>4. ASSUME NEW f \in Aired(e)'
          PROVE  /\ f.id <= n /\ f.session <= session[e] + 1
                 /\ c[f.session] <= f.ctr /\ f.ctr < c[f.session] + f.id
      <4>1. /\ f.id <= n /\ f.session <= session[e] /\ f \in Frame
            /\ b[f.session] <= f.ctr /\ f.ctr < b[f.session] + f.id
        BY <1>1, <1>4, <2>1 DEF InSession
      <4> QED
        BY <1>2, <1>3, <3>3, <4>1
    <3>5. l.session <= session[e] + 1 /\ c[l.session] <= l.ctr + 1 /\ l.ctr <= c[l.session] + n
      BY <1>2, <1>5, <1>6, <3>3
    <3>6. InSession(e, c)'
      BY <1>2, <2>2, <3>1, <3>3, <3>4, <3>5 DEF InSession
    <3> QED
      BY <3>6
  <2> QED
    BY <2>4, <2>5
<1>10. CASE StartsAgain(e)
  <2>1. n' = n
    BY <1>10 DEF StartsAgain, Number
  <2>2. PICK c \in [Nat -> Nat] : c = [b EXCEPT ![session[e] + 1] = 0]
    BY <1>2
  <2>3. c[session[e] + 1] = 0 /\ \A k \in Nat : k <= session[e] => c[k] = b[k]
    BY <1>2, <2>2
  <2>4. ASSUME NEW f \in Aired(e)'
        PROVE  /\ f.id <= n /\ f.session <= session[e] + 1
               /\ c[f.session] <= f.ctr /\ f.ctr < c[f.session] + f.id
    <3>1. /\ f.id <= n /\ f.session <= session[e] /\ f \in Frame
          /\ b[f.session] <= f.ctr /\ f.ctr < b[f.session] + f.id
      BY <1>1, <1>4, <1>10 DEF InSession, StartsAgain
    <3> QED
      BY <1>2, <1>3, <2>3, <3>1
  <2>5. l.session <= session[e] + 1 /\ c[l.session] <= l.ctr + 1 /\ l.ctr <= c[l.session] + n
    BY <1>2, <1>5, <1>6, <2>3
  <2>6. tx'[e] = 0 /\ session'[e] = session[e] + 1
    BY <1>10 DEF StartsAgain
  <2>7. InSession(e, c)'
    BY <1>2, <2>1, <2>3, <2>4, <2>5, <2>6 DEF InSession
  <2> QED
    BY <2>7
<1> QED
  BY <1>7, <1>8, <1>9, <1>10 DEF Steps, SenderStep

(* The counters c of the frames of an end tell its frames apart; a         *)
(* receiver goes through the values at of its counter, which have the low  *)
(* bytes of the frames it opened and grow by a window at most.             *)
Carries(e, c) == \A f \in Aired(e) : f.id \in sealed[e] /\ f.ctr = c[f.id]

Follows(e, c, at) ==
  LET n == Len(opened[e])
  IN /\ n > 0 => rx[e].init /\ at[n] = rx[e].ctr
     /\ \A i \in 1 .. n : /\ opened[e][i] \in sealed[Peer(e)]
                          /\ at[i] % Mod = c[opened[e][i]] % Mod
     /\ \A i, j \in 1 .. n : i < j => at[i] < at[j] /\ at[j] - at[i] <= Window * (j - i)

Openings ==
  \A e \in Ends : \E c \in [Ids -> Nat] : \E at \in [Nat -> Nat] :
    Carries(Peer(e), c) /\ Follows(e, c, at)

LEMMA InitOpenings == Init => Openings
<1> SUFFICES ASSUME Init, NEW e \in Ends
             PROVE  \E c \in [Ids -> Nat] : \E at \in [Nat -> Nat] :
                      Carries(Peer(e), c) /\ Follows(e, c, at)
  BY DEF Openings
<1>1. PICK c \in [Ids -> Nat] : c = [i \in Ids |-> 0]
  OBVIOUS
<1>2. PICK at \in [Nat -> Nat] : at = [i \in Nat |-> 0]
  OBVIOUS
<1>3. Aired(Peer(e)) = {}
  BY PeerOf DEF Init, Aired, OnAir, Moving
<1>4. Len(opened[e]) = 0
  BY DEF Init
<1>5. Carries(Peer(e), c) /\ Follows(e, c, at)
  BY <1>3, <1>4 DEF Carries, Follows
<1> QED
  BY <1>5

(* The frames of p on their way after a step are counted by some c.        *)
LEMMA CarriesKeeps ==
  ASSUME Typed, Numbered, NEW p \in Ends, SenderStep(p), NEW c \in [Ids -> Nat], Carries(p, c)
  PROVE  \E d \in [Ids -> Nat] : /\ Carries(p, d)' /\ sealed[p] \subseteq sealed'[p]
                                 /\ \A i \in sealed[p] : d[i] = c[i]
<1>1. CASE Quiet(p) \/ Stores(p) \/ StartsAgain(p)
  BY <1>1 DEF Quiet, Stores, StartsAgain, Carries
<1>2. CASE Seals(p)
  <2>1. PICK g \in Frame :
          /\ g.id = Number(p) + 1 /\ sealed'[p] = sealed[p] \cup {g.id}
          /\ Aired(p)' \subseteq Aired(p) \cup {g}
    BY <1>2 DEF Seals
  <2>2. g.id \in Ids /\ g.ctr \in Nat
    BY DEF Frame
  <2>3. PICK d \in [Ids -> Nat] : d = [c EXCEPT ![g.id] = g.ctr]
    BY <2>2
  <2>4. g.id \notin sealed[p] /\ sealed[p] \subseteq Ids
    BY <2>1 DEF Numbered, Typed
  <2>5. d[g.id] = g.ctr /\ \A i \in sealed[p] : d[i] = c[i]
    BY <2>2, <2>3, <2>4
  <2>6. Carries(p, d)'
    BY <2>1, <2>5 DEF Carries
  <2> QED
    BY <2>1, <2>5, <2>6
<1> QED
  BY <1>1, <1>2 DEF SenderStep

(* Between two openings of a sequence that goes on by one.                 *)
LEMMA Apart ==
  ASSUME NEW n \in Nat, NEW i \in 1 .. n, NEW x \in Nat, NEW y \in Nat, NEW z \in Nat,
         i < n => x < y /\ y - x <= Window * (n - i), i = n => x = y,
         y < z, z - y <= Window
  PROVE  x < z /\ z - x <= Window * (n + 1 - i)
<1>1. Window * (n + 1 - i) = Window * (n - i) + Window
  OBVIOUS
<1>2. i = n => Window * (n - i) = 0
  OBVIOUS
<1> DEFINE u == Window * (n - i)  v == Window * (n + 1 - i)
<1>3. u \in Int /\ v = u + Window /\ (i = n => u = 0) /\ (i < n => y - x <= u)
  BY <1>1, <1>2
<1> HIDE DEF u, v
<1>4. x < z /\ z - x <= v
  BY <1>3
<1> QED
  BY <1>4 DEF v

LEMMA OpeningsKeep == ASSUME Typed, Numbered, Openings, Steps, Typed' PROVE Openings'
<1> SUFFICES ASSUME NEW e \in Ends
             PROVE  \E c \in [Ids -> Nat] : \E at \in [Nat -> Nat] :
                      Carries(Peer(e), c)' /\ Follows(e, c, at)'
  BY DEF Openings
<1> DEFINE p == Peer(e)  n == Len(opened[e])
<1>1. PICK c \in [Ids -> Nat] : \E at \in [Nat -> Nat] : Carries(p, c) /\ Follows(e, c, at)
  BY DEF Openings
<1>2. PICK at \in [Nat -> Nat] : Carries(p, c) /\ Follows(e, c, at)
  BY <1>1
<1>3. p \in Ends /\ n \in Nat /\ opened[e] \in Seq(Ids)
  <2>1. opened[e] \in Seq(Ids)
    BY DEF Typed
  <2> QED
    BY <2>1, PeerOf
<1>4. PICK d \in [Ids -> Nat] : /\ Carries(p, d)' /\ sealed[p] \subseteq sealed'[p]
                               /\ \A i \in sealed[p] : d[i] = c[i]
  BY <1>2, <1>3, CarriesKeeps DEF Steps
<1>5. \A i \in 1 .. n : opened[e][i] \in sealed'[p] /\ at[i] % Mod = d[opened[e][i]] % Mod
  BY <1>2, <1>4 DEF Follows
<1>6. CASE Idles(e)
  <2>1. Follows(e, d, at)'
    BY <1>2, <1>5, <1>6 DEF Idles, Follows
  <2> QED
    BY <1>4, <2>1
<1>7. CASE Forgets(e)
  <2>1. Len(opened'[e]) = 0
    BY <1>7 DEF Forgets
  <2>2. Follows(e, d, at)'
    BY <2>1 DEF Follows
  <2> QED
    BY <1>4, <2>2
<1>8. CASE Opens(e)
  <2>1. PICK f \in Aired(p), z \in Nat :
          /\ Fits(e, f, z) /\ rx'[e] = [init |-> TRUE, ctr |-> z]
          /\ opened'[e] = Append(opened[e], f.id)
    BY <1>8 DEF Opens
  <2>2. f \in Frame /\ f.id \in sealed[p] /\ f.ctr = c[f.id] /\ f.id \in Ids
    BY <1>2 DEF Aired, Carries, Frame
  <2>3. /\ z \in Nat /\ z % Mod = f.ctr % Mod
        /\ rx[e].init => z \in rx[e].ctr + 1 .. rx[e].ctr + Window
    BY <2>1, <2>2, InferredCounter DEF Fits
  <2>4. rx'[e].init /\ rx'[e].ctr = z
    BY <2>1
  <2> HIDE DEF n
  <2>5. PICK ta \in [Nat -> Nat] : ta = [at EXCEPT ![n + 1] = z]
    BY <1>3, <2>3
  <2>6. ta[n + 1] = z /\ \A i \in 1 .. n : ta[i] = at[i]
    BY <1>3, <2>3, <2>5
  <2>7. /\ Len(opened'[e]) = n + 1 /\ opened'[e][n + 1] = f.id
        /\ \A i \in 1 .. n : opened'[e][i] = opened[e][i]
    <3> DEFINE q == opened[e]
    <3>1. q \in Seq(Ids) /\ opened'[e] = Append(q, f.id) /\ f.id \in Ids /\ n = Len(q)
      BY <1>3, <2>1, <2>2 DEF n
    <3> HIDE DEF q
    <3>2. /\ Len(Append(q, f.id)) = n + 1 /\ Append(q, f.id)[n + 1] = f.id
          /\ \A i \in 1 .. n : Append(q, f.id)[i] = q[i]
      BY <3>1
    <3> QED
      BY <3>1, <3>2 DEF q
  <2>8. ASSUME NEW i \in 1 .. n + 1
        PROVE  opened'[e][i] \in sealed'[p] /\ ta[i] % Mod = d[opened'[e][i]] % Mod
    <3>1. CASE i \in 1 .. n
      BY <1>5, <2>6, <2>7, <3>1
    <3>2. CASE i = n + 1
      BY <1>4, <2>2, <2>3, <2>6, <2>7, <3>2
    <3>3. i \in 1 .. n \/ i = n + 1
      BY <1>3
    <3> QED
      BY <3>1, <3>2, <3>3
  <2>9. ASSUME NEW i \in 1 .. n + 1, NEW j \in 1 .. n + 1, i < j
        PROVE  ta[i] < ta[j] /\ ta[j] - ta[i] <= Window * (j - i)
    <3>1. CASE j \in 1 .. n
      <4>1. i \in 1 .. n
        BY <1>3, <2>9, <3>1
      <4> QED
        BY <1>2, <2>6, <2>9, <3>1, <4>1 DEF Follows, n
    <3>2. CASE j = n + 1
      <4> DEFINE x == at[i]  y == at[n]
      <4>1. i \in 1 .. n /\ n \in 1 .. n
        BY <1>3, <2>9, <3>2
      <4>2. rx[e].init /\ y = rx[e].ctr
        BY <1>2, <1>3, <4>1 DEF Follows, n
      <4>3. i < n => x < y /\ y - x <= Window * (n - i)
        BY <1>2, <1>3, <4>1 DEF Follows, n
      <4>4. x \in Nat /\ y \in Nat /\ y < z /\ z - y <= Window /\ (i = n => x = y)
        <5>1. x \in Nat /\ y \in Nat
          <6>1. i \in Nat
            BY <1>3, <4>1
          <6>2. at \in [Nat -> Nat]
            BY <1>2
          <6> QED
            BY <1>3, <6>1, <6>2
        <5>3. i = n => x = y
          OBVIOUS
        <5> HIDE DEF x, y
        <5>2. z \in y + 1 .. y + Window
          BY <2>3, <4>2
        <5> QED
          BY <2>3, <5>1, <5>2, <5>3
      <4>5. ta[i] = x /\ ta[j] = z
        BY <2>6, <3>2, <4>1
      <4> HIDE DEF x, y
      <4>6. x < z /\ z - x <= Window * (n + 1 - i)
        BY <1>3, <2>3, <4>1, <4>3, <4>4, Apart
      <4>7. n + 1 - i = j - i
        BY <1>3, <3>2
      <4>8. z - x <= Window * (j - i)
        BY <4>6, <4>7
      <4> QED
        BY <4>5, <4>6, <4>8
    <3> QED
      BY <1>3, <3>1, <3>2
  <2>10. Follows(e, d, ta)'
    BY <1>3, <2>4, <2>6, <2>7, <2>8, <2>9 DEF Follows
  <2> QED
    BY <1>4, <2>10
<1> QED
  BY <1>6, <1>7, <1>8 DEF Steps, ReceiverStep

-----------------------------------------------------------------------------
(* The theorems.                                                           *)

LinkInv == Typed /\ Numbered /\ InHand /\ Sessions /\ Openings

(* The invariant of the link, for any threads that send and any resets.    *)
THEOREM LinkInvariant == Spec => []LinkInv
<1>1. Init => LinkInv
  <2>1. Init => InHand
    BY DEF Init, InHand
  <2> QED
    BY <2>1, InitTyped, InitSessions, InitOpenings DEF LinkInv
<1>2. LinkInv /\ [Next]_vars => LinkInv'
  BY TypedKeeps, EveryStep, SessionsKeep, OpeningsKeep DEF LinkInv, Steps
<1> QED
  BY <1>1, <1>2, PTL DEF Spec

(* Type correctness: queues hold at most what rf24_rx_msgq holds, retries  *)
(* end (rf24.c:93-118).                                                    *)
THEOREM TypeCorrect == Spec => []TypeOK
<1>1. LinkInv => TypeOK
  BY DEF LinkInv, Typed, TypeOK, Moving
<1> QED
  BY <1>1, LinkInvariant, PTL

(* A frame opened twice between two resets (nrf24_crypt.c:142-160) is so   *)
(* far apart that the windows in between come to a full turn of the        *)
(* counter byte: the seven frames opened before are never opened again     *)
(* with the window and the byte of the code.                               *)
FarApart ==
  \A e \in Ends : \A i, j \in 1 .. Len(opened[e]) :
    i < j /\ opened[e][i] = opened[e][j] => Window * (j - i) >= Mod

THEOREM CopiesFarApart == Spec => []FarApart
<1>1. LinkInv => FarApart
  <2> SUFFICES ASSUME LinkInv, NEW e \in Ends, NEW i \in 1 .. Len(opened[e]),
                      NEW j \in 1 .. Len(opened[e]), i < j, opened[e][i] = opened[e][j]
               PROVE  Window * (j - i) >= Mod
    BY DEF FarApart
  <2>1. PICK c \in [Ids -> Nat] : \E at \in [Nat -> Nat] : Follows(e, c, at)
    BY DEF LinkInv, Openings
  <2>2. PICK at \in [Nat -> Nat] : Follows(e, c, at)
    BY <2>1
  <2>3. at[i] < at[j] /\ at[j] - at[i] <= Window * (j - i) /\ at[i] % Mod = at[j] % Mod
    BY <2>2 DEF Follows
  <2>4. Len(opened[e]) \in Nat
    BY DEF LinkInv, Typed
  <2>5. i \in Nat /\ j \in Nat
    BY <2>4
  <2>6. at[i] \in Nat /\ at[j] \in Nat
    BY <2>2, <2>5
  <2>7. at[j] - at[i] >= Mod
    BY <2>3, <2>6, SameByte
  <2> DEFINE x == Window * (j - i)
  <2>8. x \in Int /\ at[j] - at[i] <= x
    BY <2>3, <2>5
  <2> HIDE DEF x
  <2>9. x >= Mod
    BY <2>6, <2>7, <2>8
  <2> QED
    BY <2>9 DEF x
<1> QED
  BY <1>1, LinkInvariant, PTL

(* The inferred counter is the sender's (nrf24_crypt.c:191) past any loss  *)
(* of fewer than Mod frames and any frame overtaken by fewer than          *)
(* Mod - Window.                                                           *)
StaysNear(e) == last'[e].ctr - last[e].ctr \in (Window - Mod) + 1 .. Mod - 1

StepPastLosses ==
  [][\A e \in Ends : InStep(e) /\ last'[e] # last[e] /\ StaysNear(e) => InStep(e)']_vars

LEMMA StepKept ==
  ASSUME Typed, Numbered, Steps, NEW e \in Ends, InStep(e), last'[e] # last[e], StaysNear(e)
  PROVE  InStep(e)'
<1>1. PICK f \in Aired(Peer(e)), n \in Nat :
        /\ Fits(e, f, n) /\ rx'[e] = [init |-> TRUE, ctr |-> n]
        /\ last'[e] = [ctr |-> f.ctr, session |-> f.session, key |-> f.key]
  BY DEF Steps, ReceiverStep, Idles, Forgets, Opens
<1>2. f \in Frame /\ f.ctr \in Nat /\ rx[e].init /\ rx[e].ctr = last[e].ctr /\ rx[e].ctr \in Nat
  BY DEF Aired, Frame, InStep, Typed
<1>3. f.ctr - rx[e].ctr < Mod /\ rx[e].ctr - f.ctr < Mod - Window
  BY <1>1, <1>2 DEF StaysNear
<1>4. n = f.ctr
  BY <1>1, <1>2, <1>3, InferredCounter DEF Fits
<1> QED
  BY <1>1, <1>4 DEF InStep

THEOREM InferredIsTrue == Spec => StepPastLosses
<1>1. LinkInv /\ [Next]_vars =>
        [\A e \in Ends : InStep(e) /\ last'[e] # last[e] /\ StaysNear(e) => InStep(e)']_vars
  BY EveryStep, StepKept DEF LinkInv
<1> QED
  BY <1>1, LinkInvariant, PTL DEF Spec, StepPastLosses

(* Fewer frames than that within one count of the sender are always near.  *)
THEOREM KeepsStepWhenNear == MaxFrames < Mod - Window => (Spec => KeepsStep)
<1> SUFFICES ASSUME MaxFrames < Mod - Window PROVE Spec => KeepsStep
  OBVIOUS
<1>1. LinkInv /\ [Next]_vars =>
        [\A e \in Ends :
           (InStep(e) /\ last'[e] # last[e] /\ last'[e].session = last[e].session) => InStep(e)']_vars
  <2> SUFFICES ASSUME LinkInv, [Next]_vars, NEW e \in Ends, InStep(e), last'[e] # last[e],
                      last'[e].session = last[e].session
               PROVE  InStep(e)'
    OBVIOUS
  <2> DEFINE p == Peer(e)  n == Number(p)  l == last[e]
  <2>1. Steps
    BY EveryStep DEF LinkInv
  <2>2. p \in Ends /\ Peer(p) = e
    BY PeerOf
  <2>3. PICK b \in [Nat -> Nat] : InSession(p, b)
    BY <2>2 DEF LinkInv, Sessions
  <2>4. PICK f \in Aired(p) : last'[e] = [ctr |-> f.ctr, session |-> f.session, key |-> f.key]
    BY <2>1 DEF Steps, ReceiverStep, Idles, Forgets, Opens
  <2>5. /\ f.id <= n /\ b[f.session] <= f.ctr /\ f.ctr < b[f.session] + f.id
        /\ b[l.session] <= l.ctr + 1 /\ l.ctr <= b[l.session] + n
    BY <2>2, <2>3 DEF InSession
  <2>6. f.session = l.session /\ last'[e].ctr = f.ctr
    BY <2>4
  <2>7. f.id \in Nat /\ f.ctr \in Nat /\ f.session \in Nat
    BY DEF Aired, Frame, Ids
  <2>8. l.ctr \in Nat
    BY DEF LinkInv, Typed
  <2>9. n \in Nat /\ n <= MaxFrames
    BY <2>2 DEF LinkInv, Numbered
  <2>10. b[f.session] \in Nat
    BY <2>3, <2>7
  <2> HIDE DEF n, l
  <2>11. f.ctr - l.ctr \in (Window - Mod) + 1 .. Mod - 1
    BY <2>5, <2>6, <2>7, <2>8, <2>9, <2>10
  <2>12. StaysNear(e)
    BY <2>6, <2>11 DEF StaysNear, l
  <2> QED
    BY <2>1, <2>12, StepKept DEF LinkInv
<1> QED
  BY <1>1, LinkInvariant, PTL DEF Spec, KeepsStep

LEMMA WindowsInATurn == (Mod - 1) \div Window \in Int
  OBVIOUS

(* So many windows do not come to a turn of the byte.                      *)
LEMMA WithinATurn ==
  ASSUME NEW d \in Nat, d <= (Mod - 1) \div Window
  PROVE  Window * d < Mod
<1>1. PICK q \in Nat, l \in 0 .. Window - 1 : Mod - 1 = Window * q + l /\ (Mod - 1) % Window = l
  BY Divide
<1>2. (Mod - 1) \div Window = q
  BY <1>1
<1>3. Window * d <= Window * q
  BY <1>2
<1> DEFINE x == Window * d  y == Window * q
<1>4. x \in Int /\ y \in Int /\ x <= y /\ Mod - 1 = y + l
  BY <1>1, <1>3
<1> HIDE DEF x, y
<1>5. x < Mod
  BY <1>1, <1>4
<1> QED
  BY <1>5 DEF x

(* No step seals at one end of a direction and opens at the other.         *)
LEMMA OneAtATime ==
  ASSUME Typed, [Next]_vars
  PROVE  UNCHANGED <<sealed["handler"]>> \/ UNCHANGED <<opened["gateway"]>>
<1>1. ASSUME NEW e \in Ends, OpenPing(e)
      PROVE  UNCHANGED <<sealed["handler"]>> \/ UNCHANGED <<opened["gateway"]>>
  BY <1>1 DEF OpenPing, Opening, Typed, Ends
<1>2. ASSUME NEW t \in Threads, Sending(t) PROVE UNCHANGED sealed
  BY <1>2 DEF Sending, StoreCounter, Acked, NotAcked, history
<1>3. ASSUME NEW e \in Ends, SendData(e) \/ Ping(e) PROVE UNCHANGED opened
  BY <1>3 DEF SendData, Ping, BeginSend
<1>4. ASSUME NEW e \in Ends, PingOver(e) \/ Refuse(e) \/ Pass(e) \/ Open(e)
      PROVE  UNCHANGED sealed
  BY <1>4 DEF PingOver, Refuse, Pass, Open, history
<1>5. ASSUME NEW a \in Addrs, SetConfig(a) \/ SetAddr(a) PROVE UNCHANGED sealed
  BY <1>5 DEF SetConfig, SetAddr, history
<1>6. RadioOff \/ RadioOn \/ Restart \/ UNCHANGED vars => UNCHANGED sealed
  BY DEF RadioOff, RadioOn, Restart, vars, history
<1> QED
  BY <1>1, <1>2, <1>3, <1>4, <1>5, <1>6 DEF Next

(* Refinement: the link to the gateway promises what FrameChannel promises *)
(* (nrf24_crypt.c:142-160), for any number of frames, retries and resets:  *)
(* the frames opened last, as many as the byte leaves room for, are never  *)
(* opened again.                                                           *)
THEOREM LinkOpensOnce == Spec => OpensOnce
<1>1. Init => ToGateway!Init
  BY DEF Init, ToGateway!Init, Ends
<1>2. LinkInv /\ LinkInv' /\ FarApart' /\ [Next]_vars
        => [ToGateway!Next]_<<sealed["handler"], opened["gateway"]>>
  <2> SUFFICES ASSUME LinkInv, LinkInv', FarApart', [Next]_vars
               PROVE  [ToGateway!Next]_<<sealed["handler"], opened["gateway"]>>
    OBVIOUS
  <2> DEFINE S == sealed["handler"]  o == opened["gateway"]
  <2>1. Steps /\ (UNCHANGED S \/ UNCHANGED o)
    BY EveryStep, OneAtATime DEF LinkInv
  <2>2. "handler" \in Ends /\ "gateway" \in Ends /\ Peer("gateway") = "handler"
    BY PeerOf DEF Ends
  <2>3. CASE UNCHANGED o
    <3>1. CASE Seals("handler")
      <4>1. PICK f \in Frame : f.id = Number("handler") + 1 /\ S' = S \cup {f.id}
        BY <3>1 DEF Seals
      <4>2. f.id \in Ids \ S
        BY <2>2, <4>1 DEF Frame, LinkInv, Numbered
      <4>3. ToGateway!Seal
        BY <2>3, <4>1, <4>2 DEF ToGateway!Seal
      <4> QED
        BY <4>3 DEF ToGateway!Next
    <3>2. CASE UNCHANGED S
      BY <2>3, <3>2
    <3> QED
      BY <2>1, <2>2, <3>1, <3>2 DEF Steps, SenderStep, Quiet, Stores, StartsAgain
  <2>4. CASE UNCHANGED S
    <3>1. CASE Opens("gateway")
      <4>1. PICK f \in Frame : o' = Append(o, f.id) /\ f.id \in Ids
        BY <2>2, <3>1 DEF Opens, Aired, Frame
      <4>2. o \in Seq(Ids) /\ o' \in Seq(Ids)
        BY <2>2 DEF LinkInv, Typed
      <4> DEFINE n == Len(o)
      <4>3. n \in Nat /\ Len(o') = n + 1 /\ o'[n + 1] = f.id /\ \A i \in 1 .. n : o'[i] = o[i]
        BY <4>1, <4>2
      <4>4. f.id \in S
        <5>1. \A i \in 1 .. Len(o') : o'[i] \in S'
          BY <2>2 DEF LinkInv, Openings, Follows
        <5> QED
          BY <2>4, <4>3, <5>1
      <4>5. ASSUME NEW i \in 1 .. n, n - i < (Mod - 1) \div Window, o[i] = f.id
            PROVE  FALSE
        <5>1. /\ i \in 1 .. Len(o') /\ n + 1 \in 1 .. Len(o') /\ i < n + 1
              /\ o'[i] = o'[n + 1]
          <6>1. n \in Nat /\ i \in Nat /\ 1 <= i /\ i <= n /\ Len(o') = n + 1
            BY <4>3
          <6>2. o'[i] = f.id /\ o'[n + 1] = f.id
            BY <4>3, <4>5
          <6> HIDE DEF n
          <6> QED
            BY <6>1, <6>2
        <5>2. Window * (n + 1 - i) >= Mod
          BY <2>2, <5>1 DEF FarApart
        <5>3. n + 1 - i \in Nat /\ n + 1 - i <= (Mod - 1) \div Window
          <6>1. (Mod - 1) \div Window \in Int
            BY WindowsInATurn
          <6> DEFINE m == (Mod - 1) \div Window
          <6> HIDE DEF m
          <6>2. n + 1 - i \in Nat /\ n + 1 - i <= m
            BY <4>3, <4>5, <6>1 DEF m
          <6> QED
            BY <6>2 DEF m
        <5> DEFINE d == n + 1 - i
        <5>4. Window * d < Mod
          BY <5>3, WithinATurn
        <5> DEFINE x == Window * d
        <5>5. x \in Int /\ x >= Mod /\ x < Mod
          BY <5>2, <5>3, <5>4
        <5> HIDE DEF x
        <5> QED
          BY <5>5
      <4>6. f.id \notin ToGateway!Recent
        BY <4>5 DEF ToGateway!Recent
      <4>7. ToGateway!Open
        BY <2>4, <4>1, <4>4, <4>6 DEF ToGateway!Open
      <4> QED
        BY <4>7 DEF ToGateway!Next
    <3>2. CASE Forgets("gateway")
      <4>1. ToGateway!Reset
        BY <2>4, <3>2 DEF Forgets, ToGateway!Reset
      <4> QED
        BY <4>1 DEF ToGateway!Next
    <3>3. CASE Idles("gateway")
      BY <2>4, <3>3 DEF Idles
    <3> QED
      BY <2>1, <2>2, <3>1, <3>2, <3>3 DEF Steps, ReceiverStep
  <2> QED
    BY <2>1, <2>3, <2>4
<1> QED
  BY <1>1, <1>2, LinkInvariant, CopiesFarApart, PTL DEF Spec, OpensOnce, ToGateway!Spec
=============================================================================
