--------------------------- MODULE TcpRelayProofs ---------------------------
(***************************************************************************)
(* Proofs about TcpRelay for every value of its constants.                 *)
(*                                                                         *)
(* The inductive invariant IInv is a predicate of a session record, so     *)
(* each method of the class has one lemma (it preserves IInv), and the     *)
(* step of an action follows the composition of methods in its handler.    *)
(***************************************************************************)
EXTENDS TcpRelay, SequenceTheorems, TLAPS

-----------------------------------------------------------------------------
(* What the operators of ByteQueue preserve and how many bytes they leave. *)

(* Every prefix of a queue ends at a natural offset, later ones further out,  *)
(* and a queue holds no byte exactly when it is empty.                        *)
LEMMA Offsets ==
  ASSUME NEW q, IsByteQueue(q)
  PROVE  /\ Len(q) \in Nat
         /\ \A k \in 0 .. Len(q) : EndOf(q, k) \in Nat
         /\ \A k \in 1 .. Len(q) : EndOf(q, k) > 0 /\ SizeOf(q, k) \in Nat \ {0}
         /\ \A j, k \in 0 .. Len(q) : j < k => EndOf(q, j) < EndOf(q, k)
         /\ Bytes(q) \in Nat
         /\ q = <<>> <=> Len(q) = 0
         /\ Bytes(q) = 0 <=> q = <<>>
<1>1. Len(q) \in Nat /\ q \in Seq(Nat \ {0})
  BY DEF IsByteQueue
<1>2. \A k \in 1 .. Len(q) : q[k] \in Nat \ {0}
  BY <1>1
<1>3. \A k \in 0 .. Len(q) : EndOf(q, k) \in Nat
  BY <1>1, <1>2 DEF EndOf
<1>4. \A k \in 1 .. Len(q) : EndOf(q, k) > 0
  BY <1>1, <1>2 DEF EndOf
<1>5. \A j, k \in 0 .. Len(q) : j < k => EndOf(q, j) < EndOf(q, k)
  BY <1>1, <1>2 DEF EndOf, IsByteQueue
<1>6. \A k \in 1 .. Len(q) : SizeOf(q, k) \in Nat \ {0}
  <2> TAKE k \in 1 .. Len(q)
  <2>1. k - 1 \in 0 .. Len(q) /\ k \in 0 .. Len(q) /\ k - 1 < k
    BY <1>1
  <2> QED BY <2>1, <1>3, <1>5 DEF SizeOf
<1>7. q = <<>> <=> Len(q) = 0
  BY <1>1
<1>8. Bytes(q) \in Nat /\ (Bytes(q) = 0 <=> Len(q) = 0)
  BY <1>1, <1>3, <1>4 DEF Bytes, EndOf
<1> QED BY <1>1, <1>3, <1>4, <1>5, <1>6, <1>7, <1>8

(* Every buffer ends within the bytes of its queue. *)
LEMMA OffsetsBounded ==
  ASSUME NEW q, IsByteQueue(q)
  PROVE  \A i \in 1 .. Len(q) : q[i] \in Nat \ {0} /\ q[i] <= Bytes(q)
<1>1. Len(q) \in Nat /\ q \in Seq(Nat \ {0})
  BY DEF IsByteQueue
<1> TAKE i \in 1 .. Len(q)
<1>2. q[i] \in Nat \ {0} /\ q[Len(q)] \in Nat \ {0} /\ Bytes(q) = q[Len(q)]
  BY <1>1 DEF Bytes, EndOf
<1>3. i < Len(q) => q[i] < q[Len(q)]
  BY <1>1 DEF IsByteQueue
<1> QED BY <1>1, <1>2, <1>3

(* The empty deque. *)
LEMMA EmptyQueue == IsByteQueue(<<>>) /\ Bytes(<<>>) = 0
BY DEF IsByteQueue, Bytes, EndOf

(* push_back adds the bytes of the buffer it queues. *)
LEMMA PushQueue ==
  ASSUME NEW q, IsByteQueue(q), NEW n \in Nat \ {0}
  PROVE  /\ IsByteQueue(Push(q, n))
         /\ Bytes(Push(q, n)) = Bytes(q) + n
         /\ Push(q, n) # <<>>
<1>1. Len(q) \in Nat /\ q \in Seq(Nat \ {0}) /\ Bytes(q) \in Nat
  BY Offsets DEF IsByteQueue
<1> DEFINE p == Push(q, n)
<1>2. /\ p \in Seq(Nat \ {0}) /\ Len(p) = Len(q) + 1
      /\ p[Len(q) + 1] = Bytes(q) + n
      /\ \A i \in 1 .. Len(q) : p[i] = q[i]
  BY <1>1 DEF Push
<1>3. \A i \in 1 .. Len(q) : q[i] \in Nat /\ q[i] <= Bytes(q)
  BY OffsetsBounded
<1> HIDE DEF p
<1>4. \A i, j \in 1 .. Len(p) : i < j => p[i] < p[j]
  <2> SUFFICES ASSUME NEW i \in 1 .. Len(q) + 1, NEW j \in 1 .. Len(q) + 1, i < j
               PROVE  p[i] < p[j]
    BY <1>2
  <2>1. i \in 1 .. Len(q) /\ p[i] = q[i]
    <3> DEFINE l == Len(q)
    <3> HIDE DEF l
    <3>1. l \in Nat /\ i \in 1 .. l + 1 /\ j \in 1 .. l + 1
      BY <1>1 DEF l
    <3>2. i \in 1 .. l
      BY <3>1
    <3> QED BY <3>2, <1>2 DEF l
  <2>2. CASE j = Len(q) + 1
    <3>1. p[j] = Bytes(q) + n /\ q[i] \in Nat /\ q[i] <= Bytes(q)
      BY <2>1, <2>2, <1>2, <1>3
    <3> QED BY <3>1, <2>1, <1>1
  <2>3. CASE j \in 1 .. Len(q)
    BY <2>1, <2>3, <1>2, Zenon DEF IsByteQueue
  <2> QED BY <2>2, <2>3, <1>1
<1>5. Bytes(p) = Bytes(q) + n
  <2>1. Bytes(p) = p[Len(q) + 1]
    BY <1>1, <1>2 DEF Bytes, EndOf
  <2> QED BY <2>1, <1>2
<1>6. p # <<>>
  BY <1>1, <1>2
<1>7. IsByteQueue(p)
  BY <1>2, <1>4 DEF IsByteQueue
<1> QED BY <1>5, <1>6, <1>7 DEF p

(* pop_front, k times, removes the bytes of the first k buffers. *)
LEMMA DropQueue ==
  ASSUME NEW q, IsByteQueue(q), NEW k \in 0 .. Len(q)
  PROVE  /\ IsByteQueue(Drop(q, k))
         /\ Len(Drop(q, k)) = Len(q) - k
         /\ Bytes(Drop(q, k)) = Bytes(q) - EndOf(q, k)
<1>1. Len(q) \in Nat /\ q \in Seq(Nat \ {0}) /\ Bytes(q) \in Nat
  BY Offsets DEF IsByteQueue
<1> DEFINE d == Drop(q, k)
           m == Len(q) - k
<1>2. m \in Nat /\ EndOf(q, k) \in Nat
  BY <1>1, Offsets
<1>3. \A i \in 1 .. m : q[i + k] - EndOf(q, k) \in Nat \ {0}
  <2> TAKE i \in 1 .. m
  <2>1. i + k \in 0 .. Len(q) /\ k < i + k /\ q[i + k] = EndOf(q, i + k)
    BY <1>1, <1>2 DEF EndOf
  <2> HIDE DEF m
  <2> QED BY <2>1, <1>1, Offsets
<1>4. d \in [1 .. m -> Nat \ {0}]
  BY <1>3, Zenon DEF Drop
<1>5. d \in Seq(Nat \ {0}) /\ Len(d) = m
  <2> HIDE DEF d, m
  <2> QED BY <1>2, <1>4, SeqDef
<1>6. \A i \in 1 .. m : d[i] = q[i + k] - EndOf(q, k)
  BY DEF Drop
<1>7. \A i, j \in 1 .. m : i < j => d[i] < d[j]
  <2> TAKE i, j \in 1 .. m
  <2> HAVE i < j
  <2>1. i + k \in 1 .. Len(q) /\ j + k \in 1 .. Len(q) /\ i + k < j + k
    BY <1>1, <1>2
  <2>2. q[i + k] < q[j + k] /\ q[i + k] \in Nat /\ q[j + k] \in Nat
    BY <2>1, <1>1 DEF IsByteQueue
  <2> HIDE DEF d, m
  <2> QED BY <2>2, <1>2, <1>6
<1>8. Bytes(d) = Bytes(q) - EndOf(q, k)
  <2>1. CASE m = 0
    BY <2>1, <1>1, <1>2, <1>5 DEF Bytes, EndOf
  <2>2. CASE m > 0
    <3>1. d[m] = q[Len(q)] - EndOf(q, k)
      BY <2>2, <1>1, <1>2, <1>6
    <3> HIDE DEF d
    <3> QED BY <3>1, <2>2, <1>1, <1>2, <1>5 DEF Bytes, EndOf
  <2> QED BY <2>1, <2>2, <1>2
<1> HIDE DEF d, m
<1>9. IsByteQueue(d)
  BY <1>5, <1>7 DEF IsByteQueue
<1> QED BY <1>5, <1>8, <1>9 DEF d, m

(* Queueing a batch behind a queue keeps it a queue. *)
LEMMA ConcatQueue ==
  ASSUME NEW q, IsByteQueue(q), NEW r, IsByteQueue(r)
  PROVE  IsByteQueue(Concat(q, r)) /\ Len(Concat(q, r)) = Len(q) + Len(r)
<1>1. /\ Len(q) \in Nat /\ q \in Seq(Nat \ {0}) /\ Bytes(q) \in Nat
      /\ Len(r) \in Nat /\ r \in Seq(Nat \ {0})
  BY Offsets DEF IsByteQueue
<1> DEFINE c == Concat(q, r)
           m == Len(q) + Len(r)
<1>2. \A i \in 1 .. Len(q) : q[i] \in Nat \ {0} /\ q[i] <= Bytes(q)
  BY OffsetsBounded
<1>3. \A i \in 1 .. Len(r) : r[i] \in Nat \ {0}
  BY <1>1
<1>4. \A i \in 1 .. m : /\ i <= Len(q) => c[i] = q[i]
                        /\ i > Len(q) => c[i] = Bytes(q) + r[i - Len(q)]
  BY <1>1 DEF Concat
<1>5. c \in [1 .. m -> Nat \ {0}]
  <2> SUFFICES \A i \in 1 .. m : c[i] \in Nat \ {0}
    BY DEF Concat
  <2> TAKE i \in 1 .. m
  <2> HIDE DEF c
  <2>1. CASE i <= Len(q)
    BY <2>1, <1>1, <1>2, <1>4
  <2>2. CASE i > Len(q)
    <3>1. r[i - Len(q)] \in Nat \ {0}
      BY <2>2, <1>1, <1>3
    <3> QED BY <3>1, <2>2, <1>1, <1>4
  <2> QED BY <2>1, <2>2, <1>1
<1>6. c \in Seq(Nat \ {0}) /\ Len(c) = m
  <2>1. m \in Nat
    BY <1>1
  <2> HIDE DEF c, m
  <2> QED BY <2>1, <1>5, SeqDef
<1>7. \A i, j \in 1 .. m : i < j => c[i] < c[j]
  <2> TAKE i, j \in 1 .. m
  <2> HAVE i < j
  <2> HIDE DEF c
  <2>1. CASE j <= Len(q)
    BY <2>1, <1>1, <1>4 DEF IsByteQueue
  <2>2. CASE i <= Len(q) /\ j > Len(q)
    <3>1. r[j - Len(q)] \in Nat \ {0}
      BY <2>2, <1>1, <1>3
    <3>2. /\ c[i] = q[i] /\ q[i] \in Nat /\ q[i] <= Bytes(q)
          /\ c[j] = Bytes(q) + r[j - Len(q)]
      BY <2>2, <1>1, <1>2, <1>4
    <3> DEFINE a == r[j - Len(q)]
               b == Bytes(q)
               e == q[i]
    <3>3. a \in Nat \ {0} /\ b \in Nat /\ e \in Nat /\ e <= b
      BY <3>1, <3>2, <1>1
    <3>4. c[i] = e /\ c[j] = b + a
      BY <3>2
    <3> HIDE DEF a, b, e
    <3>5. e < b + a
      BY <3>3
    <3> QED BY <3>4, <3>5
  <2>3. CASE i > Len(q)
    <3>1. /\ i - Len(q) \in 1 .. Len(r) /\ j - Len(q) \in 1 .. Len(r)
          /\ i - Len(q) < j - Len(q)
      BY <2>3, <1>1
    <3>2. r[i - Len(q)] < r[j - Len(q)]
      BY <3>1, Zenon DEF IsByteQueue
    <3>3. r[i - Len(q)] \in Nat /\ r[j - Len(q)] \in Nat
      BY <3>1, <1>3
    <3>4. c[i] = Bytes(q) + r[i - Len(q)] /\ c[j] = Bytes(q) + r[j - Len(q)]
      BY <2>3, <1>1, <1>4
    <3> DEFINE a == r[i - Len(q)]
               b == r[j - Len(q)]
               e == Bytes(q)
    <3>5. /\ a \in Nat /\ b \in Nat /\ e \in Nat /\ a < b
          /\ c[i] = e + a /\ c[j] = e + b
      BY <3>2, <3>3, <3>4, <1>1
    <3> HIDE DEF a, b, e
    <3>6. e + a < e + b
      BY <3>5
    <3> QED BY <3>5, <3>6
  <2> QED BY <2>1, <2>2, <2>3, <1>1
<1> HIDE DEF c, m
<1>8. IsByteQueue(c)
  BY <1>6, <1>7 DEF IsByteQueue
<1> QED BY <1>6, <1>8 DEF c, m

(* k times pop_front leaves the sizes of the buffers behind them. *)
LEMMA DropSizes ==
  ASSUME NEW q, IsByteQueue(q), NEW k \in 0 .. Len(q)
  PROVE  \A i \in 1 .. Len(Drop(q, k)) :
           i + k \in 1 .. Len(q) /\ SizeOf(Drop(q, k), i) = SizeOf(q, i + k)
<1>1. /\ Len(q) \in Nat /\ Len(Drop(q, k)) = Len(q) - k
      /\ \A j \in 0 .. Len(q) : EndOf(q, j) \in Nat
  BY Offsets, DropQueue
<1> TAKE i \in 1 .. Len(Drop(q, k))
<1>2. i \in 1 .. Len(q) - k /\ i + k \in 1 .. Len(q) /\ (i + k) - 1 = (i - 1) + k
  BY <1>1
<1>3. \A j \in 1 .. Len(q) - k : Drop(q, k)[j] = q[j + k] - EndOf(q, k)
  BY DEF Drop
<1>4. EndOf(Drop(q, k), i) = EndOf(q, i + k) - EndOf(q, k)
  BY <1>2, <1>3 DEF EndOf
<1>5. EndOf(Drop(q, k), i - 1) = EndOf(q, (i - 1) + k) - EndOf(q, k)
  <2>1. CASE i = 1
    BY <2>1, <1>1 DEF EndOf
  <2>2. CASE i # 1
    <3>1. i - 1 \in 1 .. Len(q) - k /\ i - 1 # 0 /\ (i - 1) + k # 0
      BY <2>2, <1>1, <1>2
    <3> QED BY <3>1, <1>3 DEF EndOf
  <2> QED BY <2>1, <2>2
<1>6. i + k \in 0 .. Len(q) /\ (i - 1) + k \in 0 .. Len(q)
  BY <1>1, <1>2
<1> QED BY <1>1, <1>2, <1>4, <1>5, <1>6 DEF SizeOf

(* Queueing r behind q keeps the sizes of both. *)
LEMMA ConcatSizes ==
  ASSUME NEW q, IsByteQueue(q), NEW r, IsByteQueue(r)
  PROVE  \A i \in 1 .. Len(Concat(q, r)) :
           \/ i \in 1 .. Len(q) /\ SizeOf(Concat(q, r), i) = SizeOf(q, i)
           \/ /\ i - Len(q) \in 1 .. Len(r)
              /\ SizeOf(Concat(q, r), i) = SizeOf(r, i - Len(q))
<1> DEFINE n == Len(q)
           c == Concat(q, r)
<1> SUFFICES ASSUME NEW i \in 1 .. Len(c)
             PROVE  \/ i \in 1 .. n /\ SizeOf(c, i) = SizeOf(q, i)
                    \/ i - n \in 1 .. Len(r) /\ SizeOf(c, i) = SizeOf(r, i - n)
  OBVIOUS
<1>0. /\ n \in Nat /\ \A j \in 0 .. n : EndOf(q, j) \in Nat
      /\ Len(r) \in Nat /\ \A j \in 0 .. Len(r) : EndOf(r, j) \in Nat
  BY Offsets
<1>1. EndOf(q, n) \in Nat /\ Len(c) = n + Len(r)
  <2>1. EndOf(q, n) \in Nat
    BY <1>0
  <2>2. Len(c) = n + Len(r)
    BY ConcatQueue
  <2> QED BY <2>1, <2>2
<1>2. \A j \in 1 .. n + Len(r) :
        c[j] = IF j <= n THEN q[j] ELSE EndOf(q, n) + r[j - n]
  BY DEF Concat, Bytes
<1> HIDE DEF c
<1>3. \A j \in 0 .. n : EndOf(c, j) = EndOf(q, j)
  BY <1>0, <1>1, <1>2 DEF EndOf
<1>4. \A j \in 0 .. Len(r) : EndOf(c, n + j) = EndOf(q, n) + EndOf(r, j)
  <2> TAKE j \in 0 .. Len(r)
  <2>1. CASE j = 0
    BY <2>1, <1>0, <1>1, <1>3 DEF EndOf
  <2>2. CASE j # 0
    <3>1. n + j \in 1 .. n + Len(r) /\ ~(n + j <= n) /\ (n + j) - n = j /\ n + j # 0
      BY <2>2, <1>0, <1>1
    <3> QED BY <2>2, <3>1, <1>2 DEF EndOf
  <2> QED BY <2>1, <2>2
<1>5. CASE i <= n
  <2>1. i \in 1 .. n /\ i \in 0 .. n /\ i - 1 \in 0 .. n
    BY <1>0, <1>1, <1>5
  <2> QED BY <2>1, <1>3 DEF SizeOf
<1>6. CASE ~(i <= n)
  <2>1. /\ i - n \in 1 .. Len(r) /\ i - n \in 0 .. Len(r) /\ (i - n) - 1 \in 0 .. Len(r)
        /\ n + (i - n) = i /\ n + ((i - n) - 1) = i - 1
    BY <1>0, <1>1, <1>6
  <2>2. /\ EndOf(c, i) = EndOf(q, n) + EndOf(r, i - n)
        /\ EndOf(c, i - 1) = EndOf(q, n) + EndOf(r, (i - n) - 1)
    BY <2>1, <1>4
  <2>3. SizeOf(c, i) = SizeOf(r, i - n)
    <3>1. EndOf(r, i - n) \in Nat /\ EndOf(r, (i - n) - 1) \in Nat
      BY <1>0, <2>1
    <3> QED BY <1>1, <2>2, <3>1 DEF SizeOf
  <2> QED BY <2>1, <2>3
<1> QED BY <1>5, <1>6

-----------------------------------------------------------------------------
(* The inductive invariant. *)

Typed(x) ==
  /\ x \in Session
  /\ IsByteQueue(x.pending_lwip_)
  /\ IsByteQueue(x.pending_client_)

\* The counter agrees with the queue, a write has a buffer to write, and
\* nothing precedes the salt.
ClientQueueInv(x) ==
  /\ x.client_queue_bytes_ = Bytes(x.pending_client_)
  /\ x.write # "none" => x.pending_client_ # <<>>
  /\ ~x.sent_response_salt_ => x.pending_client_ = <<>>

\* On an open socket whatever is queued is being written.
WritingInv(x) ==
  ~x.closing_ /\ x.pending_client_ # <<>> => x.write # "none"

\* The window is split between the PCB and deferred_tcp_recved_, and it is
\* withheld only while the backlog is above the low-water mark.
WindowInv(x) ==
  /\ x.deferred_tcp_recved_ <= TcpWnd
  /\ x.pcb # "null" => x.rcv_wnd + x.deferred_tcp_recved_ <= TcpWnd
  /\ ~x.closing_ /\ x.pcb # "null" =>
       x.rcv_wnd + x.deferred_tcp_recved_ = TcpWnd
  /\ ~x.closing_ /\ x.pcb # "null" /\ x.deferred_tcp_recved_ > 0 =>
       x.client_queue_bytes_ >= ClientQueueLowWater

\* What the backlog exceeds the high-water mark by is paid for in withheld
\* window.
BacklogInv(x) ==
  x.client_queue_bytes_ <= ClientQueueHighWater + SaltSize
                             + (Overhead + 1) * x.deferred_tcp_recved_

\* Until connect_ip has run there is no PCB and nothing came from the target.
UnconnectedInv(x) ==
  /\ x.resolving => x.got_target_
  /\ ~x.got_target_ \/ x.resolving =>
       /\ x.pcb = "null"
       /\ x.deferred_tcp_recved_ = 0
       /\ x.pending_client_ = <<>>

OwnerInv(x) == x.pcb # "null" => x.active_self_

\* All parts but WritingInv, which flush_to_client restores.
BaseInv(x) ==
  /\ Typed(x) /\ x.inflight <= TcpSndBuf
  /\ ClientQueueInv(x) /\ WindowInv(x) /\ BacklogInv(x)
  /\ UnconnectedInv(x) /\ OwnerInv(x)

IInv(x) == BaseInv(x) /\ WritingInv(x)

\* x and y agree on the queues towards the client and on what precedes them.
SameQueues(x, y) ==
  /\ y.pending_lwip_ = x.pending_lwip_
  /\ y.pending_client_ = x.pending_client_
  /\ y.client_queue_bytes_ = x.client_queue_bytes_
  /\ y.deferred_tcp_recved_ = x.deferred_tcp_recved_
  /\ y.write = x.write
  /\ y.sent_response_salt_ = x.sent_response_salt_
  /\ y.got_target_ = x.got_target_
  /\ y.resolving = x.resolving

\* x and y have the same PCB, attached and owned alike; the target may have
\* acknowledged data, and the PCB may have changed its state.
SamePcb(x, y) ==
  /\ y.pcb = "null" <=> x.pcb = "null"
  /\ y.inflight = x.inflight \/ y.inflight < x.inflight
  /\ y.rcv_wnd = x.rcv_wnd
  /\ y.active_self_ = x.active_self_
  /\ y.closing_ = x.closing_

-----------------------------------------------------------------------------
(* Flags and counters outside the invariant may change freely. *)
LEMMA Frame ==
  ASSUME NEW x, NEW y \in Session, IInv(x), SameQueues(x, y), SamePcb(x, y)
  PROVE  IInv(y)
<1>0. x.inflight \in Nat /\ y.inflight \in Nat
  BY DEF IInv, BaseInv, Typed, Session
<1>1. Typed(y) /\ y.inflight <= TcpSndBuf
  BY <1>0, LwipSizes DEF IInv, BaseInv, Typed, SameQueues, SamePcb
<1>2. ClientQueueInv(y) /\ WritingInv(y) /\ WindowInv(y) /\ BacklogInv(y)
  BY DEF IInv, BaseInv, ClientQueueInv, WritingInv, WindowInv, BacklogInv,
         SameQueues, SamePcb
<1>3. UnconnectedInv(y) /\ OwnerInv(y)
  BY DEF IInv, BaseInv, UnconnectedInv, OwnerInv, SameQueues, SamePcb
<1> QED BY <1>1, <1>2, <1>3 DEF IInv, BaseInv

(* So may the PCB be dropped, and the session closed. *)
LEMMA Detached ==
  ASSUME NEW x, NEW y \in Session, IInv(x), SameQueues(x, y),
         y.pcb = "null", y.inflight = 0, x.closing_ => y.closing_
  PROVE  IInv(y)
<1>1. Typed(y) /\ y.inflight <= TcpSndBuf
  BY LwipSizes DEF IInv, BaseInv, Typed, SameQueues
<1>2. ClientQueueInv(y) /\ WritingInv(y)
  BY DEF IInv, BaseInv, ClientQueueInv, WritingInv, SameQueues
<1>3. WindowInv(y) /\ BacklogInv(y)
  BY DEF IInv, BaseInv, WindowInv, BacklogInv, SameQueues
<1>4. UnconnectedInv(y) /\ OwnerInv(y)
  BY DEF IInv, BaseInv, UnconnectedInv, OwnerInv, SameQueues
<1> QED BY <1>1, <1>2, <1>3, <1>4 DEF IInv, BaseInv

(* close() keeps the invariant: it forgets the PCB and the self reference.  *)
LEMMA CloseInv == ASSUME NEW x, IInv(x) PROVE IInv(close(x))
<1> SUFFICES ASSUME ~x.closing_ PROVE IInv(close(x))
  BY DEF close
<1> DEFINE y == close(x)
<1>1. x \in Session
  BY DEF IInv, BaseInv, Typed
<1>2. y = [x EXCEPT !.closing_ = TRUE, !.pcb = "null", !.inflight = 0,
                    !.rcv_wnd = 0, !.active_self_ = FALSE]
  BY <1>1 DEF close, release_active_self, DropPcb, Session
<1> HIDE DEF y
<1>3. y \in Session /\ SameQueues(x, y)
  BY Zenon, <1>1, <1>2 DEF Session, PcbStates, SameQueues
<1>4. y.pcb = "null" /\ y.inflight = 0
  BY <1>1, <1>2 DEF Session
<1> QED BY <1>3, <1>4, Detached DEF y

(* read_encrypted_stream and Touch change nothing the invariant speaks of.  *)
LEMMA ReadInv ==
  ASSUME NEW x, IInv(x)
  PROVE  IInv(read_encrypted_stream(x)) /\ IInv(Touch(x))
<1>1. x \in Session
  BY DEF IInv, BaseInv, Typed
<1>2. IInv([x EXCEPT !.reads = @ + 1])
  <2> DEFINE y == [x EXCEPT !.reads = @ + 1]
  <2>1. x.reads + 1 \in Nat
    BY <1>1 DEF Session
  <2>2. y \in Session /\ SameQueues(x, y) /\ SamePcb(x, y)
    BY Zenon, <1>1, <2>1 DEF Session, SameQueues, SamePcb
  <2> HIDE DEF y
  <2>3. IInv(y)
    BY <2>2, Frame
  <2> QED BY <2>3 DEF y
<1>3. IInv([x EXCEPT !.used_after_free = TRUE])
  <2> DEFINE y == [x EXCEPT !.used_after_free = TRUE]
  <2>2. y \in Session /\ SameQueues(x, y) /\ SamePcb(x, y)
    BY Zenon, <1>1 DEF Session, SameQueues, SamePcb
  <2> HIDE DEF y
  <2>3. IInv(y)
    BY <2>2, Frame
  <2> QED BY <2>3 DEF y
<1> QED BY <1>2, <1>3 DEF read_encrypted_stream, Touch

(* connect_ip starts from a session that never had a PCB, and leaves one     *)
(* with a fresh PCB that offers the whole window, or a closed session.       *)
LEMMA ConnectInv ==
  ASSUME NEW x, IInv(x), x.got_target_, ~x.resolving, x.pcb = "null",
         x.deferred_tcp_recved_ = 0, x.pending_client_ = <<>>,
         NEW y \in connect_ip(x)
  PROVE  IInv(y)
<1>1. x \in Session
  BY DEF IInv, BaseInv, Typed
<1> DEFINE d == DropPcb(x)
           f == [x EXCEPT !.pcb = "CLOSED", !.inflight = 0, !.rcv_wnd = TcpWnd,
                          !.active_self_ = TRUE]
           g == [f EXCEPT !.pcb = "SYN_SENT"]
<1>2. y = close(d) \/ y = close(f) \/ y = g
  BY DEF connect_ip
<1>3. IInv(d)
  <2>1. d \in Session
    BY ZenonT(40), <1>1 DEF DropPcb, Session, PcbStates
  <2>2. SameQueues(x, d)
    BY Zenon, <1>1 DEF DropPcb, Session, SameQueues
  <2>3. d.pcb = "null" /\ d.inflight = 0 /\ d.closing_ = x.closing_
    BY <1>1 DEF DropPcb, Session
  <2> HIDE DEF d
  <2> QED BY <2>1, <2>2, <2>3, Detached
<1>4. ASSUME NEW z \in {f, g} PROVE IInv(z)
  <2>0. PICK p \in {"CLOSED", "SYN_SENT"} :
          z = [x EXCEPT !.pcb = p, !.inflight = 0, !.rcv_wnd = TcpWnd,
                        !.active_self_ = TRUE]
    BY Zenon, <1>1 DEF Session
  <2>1. /\ z \in Session /\ SameQueues(x, z)
        /\ z.pcb # "null" /\ z.inflight = 0 /\ z.rcv_wnd = TcpWnd
        /\ z.active_self_ /\ z.closing_ = x.closing_
    BY ZenonT(40), <2>0, <1>1, LwipSizes DEF Session, PcbStates, SameQueues
  <2> HIDE DEF f, g
  <2>2. Typed(z) /\ z.inflight <= TcpSndBuf
    BY <2>1, LwipSizes DEF IInv, BaseInv, Typed, SameQueues
  <2>3. ClientQueueInv(z) /\ WritingInv(z) /\ BacklogInv(z)
    BY <2>1 DEF IInv, BaseInv, ClientQueueInv, WritingInv, BacklogInv, SameQueues
  <2>4. WindowInv(z) /\ UnconnectedInv(z) /\ OwnerInv(z)
    BY <2>1, LwipSizes
       DEF WindowInv, UnconnectedInv, OwnerInv, SameQueues
  <2> QED BY <2>2, <2>3, <2>4 DEF IInv, BaseInv
<1> HIDE DEF d, f, g
<1> QED BY <1>2, <1>3, <1>4, CloseInv

(* The first k packets of the loop fit into the send buffer.                 *)
LEMMA WroteInv ==
  ASSUME NEW x, IInv(x), NEW k \in 0 .. Len(x.pending_lwip_),
         \A j \in 0 .. k - 1 : HasRoom(x, j)
  PROVE  IInv(Wrote(x, k))
<1> DEFINE q == x.pending_lwip_
           y == Wrote(x, k)
<1>1. x \in Session /\ IsByteQueue(q) /\ x.inflight \in Nat
  BY DEF IInv, BaseInv, Typed, Session
<1>2. EndOf(q, k) \in Nat /\ IsByteQueue(Drop(q, k)) /\ Len(q) \in Nat
  <2> HIDE DEF q
  <2> QED BY <1>1, Offsets, DropQueue, Zenon DEF q
<1>3. x.inflight + EndOf(q, k) \in Nat
  BY <1>1, <1>2
<1>4. x.inflight + EndOf(q, k) <= TcpSndBuf
  <2>1. CASE k = 0
    BY <2>1, <1>1, LwipSizes DEF IInv, BaseInv, EndOf
  <2>2. CASE k > 0
    <3>1. k - 1 \in 0 .. k - 1 /\ k - 1 \in 0 .. Len(q) /\ k - 1 + 1 = k
      BY <2>2, <1>2
    <3>2. TcpSndBuf - x.inflight - EndOf(q, k - 1) >= SizeOf(q, k)
      BY <3>1 DEF HasRoom
    <3>3. EndOf(q, k - 1) \in Nat
      <4> HIDE DEF q
      <4> QED BY <3>1, <1>1, Offsets
    <3> QED BY <3>2, <3>3, <1>1, <1>2, LwipSizes DEF SizeOf
  <2> QED BY <2>1, <2>2, <1>2
<1>5. Drop(q, k) \in Seq(Nat \ {0})
  BY <1>2 DEF IsByteQueue
<1>6. /\ y \in Session
      /\ y.pending_lwip_ = Drop(q, k) /\ y.inflight = x.inflight + EndOf(q, k)
  <2> DEFINE r == Drop(q, k)
             m == x.inflight + EndOf(q, k)
  <2>1. y = [x EXCEPT !.pending_lwip_ = r, !.inflight = m]
    BY <1>1 DEF Wrote, Session
  <2>2. r \in Seq(Nat \ {0}) /\ m \in Nat
    BY <1>3, <1>5
  <2> HIDE DEF r, m, y
  <2>3. y \in Session /\ y.pending_lwip_ = r /\ y.inflight = m
    BY Zenon, <2>1, <2>2, <1>1 DEF Session
  <2> QED BY <2>3 DEF r, m
<1>7. /\ y.pending_client_ = x.pending_client_
      /\ y.client_queue_bytes_ = x.client_queue_bytes_
      /\ y.deferred_tcp_recved_ = x.deferred_tcp_recved_
      /\ y.write = x.write /\ y.sent_response_salt_ = x.sent_response_salt_
      /\ y.got_target_ = x.got_target_ /\ y.resolving = x.resolving
      /\ y.pcb = x.pcb /\ y.rcv_wnd = x.rcv_wnd
      /\ y.active_self_ = x.active_self_ /\ y.closing_ = x.closing_
  BY <1>1 DEF Wrote, Session
<1> HIDE DEF y, q
<1>8. Typed(y) /\ y.inflight <= TcpSndBuf
  BY <1>2, <1>4, <1>6, <1>7 DEF IInv, BaseInv, Typed
<1>9. ClientQueueInv(y) /\ WritingInv(y) /\ WindowInv(y) /\ BacklogInv(y)
  BY <1>7 DEF IInv, BaseInv, ClientQueueInv, WritingInv, WindowInv, BacklogInv
<1>10. UnconnectedInv(y) /\ OwnerInv(y)
  BY <1>7 DEF IInv, BaseInv, UnconnectedInv, OwnerInv
<1> QED BY <1>8, <1>9, <1>10 DEF IInv, BaseInv, y

(* How flush_to_lwip ends: with nothing to do, refused by lwIP, with all    *)
(* written, or waiting for an acknowledgement or for memory.                *)
LEMMA FlushOutcomes ==
  ASSUME NEW x, IInv(x), NEW y \in flush_to_lwip(x)
  PROVE  LET n == Len(x.pending_lwip_)
         IN \/ y = x /\ (x.pcb = "null" \/ n = 0)
            \/ y = close(x) /\ x.pcb # "null"
            \/ /\ x.pcb # "null"
               /\ \E k \in 0 .. n :
                    /\ \A j \in 0 .. k - 1 : HasRoom(x, j)
                    /\ \/ k = n /\ y = Wrote(x, k)
                       \/ /\ k < n
                          /\ y = Paused(x, k)
                          /\ ~HasRoom(x, k) \/ Wrote(x, k).inflight > 0 \/ AllocFails
<1> DEFINE n == Len(x.pending_lwip_)
           reached == { k \in 0 .. (IF Writable(x) THEN n ELSE 0) :
                          \A j \in 0 .. k - 1 : HasRoom(x, j) }
           waits(k) == \/ ~HasRoom(x, k)
                       \/ Wrote(x, k).inflight > 0
                       \/ AllocFails /\ Writable(x)
<1>1. n \in Nat
  BY Offsets DEF IInv, BaseInv, Typed
<1>2. CASE x.pcb = "null" \/ n = 0
  BY <1>2 DEF flush_to_lwip
<1>3. CASE ~(x.pcb = "null" \/ n = 0)
  <2>1. \A k \in reached : k \in 0 .. n /\ \A j \in 0 .. k - 1 : HasRoom(x, j)
    BY <1>1
  <2>2. y \in { Wrote(x, k) : k \in reached \cap {n} }
               \cup { Paused(x, k) :
                        k \in { i \in reached \ {n} : waits(i) } }
               \cup (IF HasRoom(x, 0) /\ ~Writable(x) THEN {close(x)} ELSE {})
    BY <1>3, Zenon DEF flush_to_lwip
  <2>3. \A k \in 0 .. n : k # n => k < n
    BY <1>1
  <2>4. \A k : waits(k) => ~HasRoom(x, k) \/ Wrote(x, k).inflight > 0 \/ AllocFails
    BY Zenon
  <2> HIDE DEF reached, waits
  <2>5. \/ y = close(x)
        \/ \E k \in reached :
             \/ k = n /\ y = Wrote(x, k)
             \/ /\ k # n /\ waits(k)
                /\ y = Paused(x, k)
    BY Zenon, <2>2
  <2>6. CASE y = close(x)
    BY <1>3, <2>6
  <2>7. CASE \E k \in reached :
               \/ k = n /\ y = Wrote(x, k)
               \/ /\ k # n /\ waits(k)
                  /\ y = Paused(x, k)
    BY Zenon, <1>3, <2>1, <2>3, <2>4, <2>7
  <2> QED BY <2>5, <2>6, <2>7
<1> QED BY <1>2, <1>3

(* flush_to_lwip: some prefix is written, and the session may pause or close. *)
LEMMA FlushToLwipInv ==
  ASSUME NEW x, IInv(x), NEW y \in flush_to_lwip(x)
  PROVE  IInv(y)
<1> DEFINE n == Len(x.pending_lwip_)
<1>1. n \in Nat
  BY Offsets DEF IInv, BaseInv, Typed
<1>2. ASSUME NEW k \in 0 .. n, \A j \in 0 .. k - 1 : HasRoom(x, j)
      PROVE  /\ IInv(Wrote(x, k))
             /\ IInv(Paused(x, k))
  <2> DEFINE w == Wrote(x, k)
             b == HasRoom(x, k) /\ w.inflight = 0
             p == [w EXCEPT !.client_read_paused_ = TRUE, !.starved = b]
  <2>1. IInv(w)
    BY <1>2, WroteInv
  <2>2. w \in Session
    BY <2>1 DEF IInv, BaseInv, Typed
  <2>a. Paused(x, k) = p
    BY DEF Paused
  <2>b. b \in BOOLEAN
    BY Zenon
  <2> HIDE DEF w, b
  <2>3. p \in Session /\ SameQueues(w, p) /\ SamePcb(w, p)
    BY Zenon, <2>2, <2>b DEF Session, SameQueues, SamePcb
  <2> HIDE DEF p
  <2>4. IInv(p)
    BY <2>1, <2>3, Frame
  <2> QED BY <2>1, <2>4, <2>a DEF w
<1>3. \/ y = x
      \/ y = close(x)
      \/ \E k \in 0 .. n :
           /\ \A j \in 0 .. k - 1 : HasRoom(x, j)
           /\ \/ y = Wrote(x, k)
              \/ y = Paused(x, k)
  BY Zenon, FlushOutcomes
<1> QED BY Zenon, <1>2, <1>3, CloseInv

(* flush_to_client restores WritingInv. *)
LEMMA FlushToClientInv ==
  ASSUME NEW x, BaseInv(x) PROVE IInv(flush_to_client(x))
<1>1. x \in Session
  BY DEF BaseInv, Typed
<1>2. CASE x.write # "none" \/ x.pending_client_ = <<>>
  BY <1>2 DEF flush_to_client, IInv, WritingInv
<1>3. CASE x.write = "none" /\ x.pending_client_ # <<>>
  <2> DEFINE y == [x EXCEPT !.write = "pending"]
  <2>1. flush_to_client(x) = y
    BY <1>3 DEF flush_to_client
  <2>2. /\ y \in Session /\ SamePcb(x, y) /\ y.inflight = x.inflight
        /\ y.write = "pending"
        /\ y.pending_lwip_ = x.pending_lwip_
        /\ y.pending_client_ = x.pending_client_
        /\ y.client_queue_bytes_ = x.client_queue_bytes_
        /\ y.deferred_tcp_recved_ = x.deferred_tcp_recved_
        /\ y.sent_response_salt_ = x.sent_response_salt_
        /\ y.got_target_ = x.got_target_ /\ y.resolving = x.resolving
    BY Zenon, <1>1 DEF Session, SamePcb
  <2> HIDE DEF y
  <2>3. Typed(y) /\ y.inflight <= TcpSndBuf
    BY <2>2 DEF BaseInv, Typed, SamePcb
  <2>4. ClientQueueInv(y) /\ WritingInv(y) /\ WindowInv(y) /\ BacklogInv(y)
    BY <1>3, <2>2 DEF BaseInv, ClientQueueInv, WritingInv, WindowInv, BacklogInv,
                      SamePcb
  <2>5. UnconnectedInv(y) /\ OwnerInv(y)
    BY <2>2 DEF BaseInv, UnconnectedInv, OwnerInv, SamePcb
  <2> QED BY <2>1, <2>3, <2>4, <2>5 DEF IInv, BaseInv
<1> QED BY <1>2, <1>3

(* An operation of the session has completed: only its counter changes.     *)
LEMMA CompletedInv ==
  ASSUME NEW x, IInv(x), x.reads > 0, NEW b \in BOOLEAN
  PROVE  IInv([x EXCEPT !.reads = @ - 1, !.salted = b])
<1> DEFINE y == [x EXCEPT !.reads = @ - 1, !.salted = b]
<1>1. x \in Session /\ x.reads \in Nat
  BY DEF IInv, BaseInv, Typed, Session
<1>2. x.reads - 1 \in Nat
  BY <1>1
<1>3. y \in Session /\ SameQueues(x, y) /\ SamePcb(x, y)
  BY Zenon, <1>1, <1>2 DEF Session, SameQueues, SamePcb
<1> HIDE DEF y
<1>4. IInv(y)
  BY <1>3, Frame
<1> QED BY <1>4 DEF y

\* A read of the client's socket that has completed leaves the rest as it was.
LEMMA ReadCompletedInv ==
  ASSUME NEW x, IInv(x), x.reads > 0
  PROVE  IInv([x EXCEPT !.reads = @ - 1])
<1>1. x \in Session
  BY DEF IInv, BaseInv, Typed
<1>2. x.salted \in BOOLEAN
     /\ [x EXCEPT !.reads = @ - 1] = [x EXCEPT !.reads = @ - 1, !.salted = x.salted]
  BY Zenon, <1>1 DEF Session
<1> QED BY Zenon, <1>2, CompletedInv

(* handle_client_eof shuts an open PCB down and drops any other.            *)
LEMMA ClientEofInv == ASSUME NEW x, IInv(x) PROVE IInv(handle_client_eof(x))
<1>1. x \in Session
  BY DEF IInv, BaseInv, Typed
<1> DEFINE y == [x EXCEPT !.client_eof_ = TRUE]
           f == [y EXCEPT !.pcb = "FIN_WAIT"]
           d == release_active_self(DropPcb(y))
<1>2. y \in Session /\ SameQueues(x, y) /\ SamePcb(x, y) /\ y.pcb = x.pcb
  BY Zenon, <1>1 DEF Session, SameQueues, SamePcb
<1> HIDE DEF y
<1>3. IInv(y)
  BY <1>2, Frame
<1>4. y.pcb = "ESTABLISHED" => IInv(f)
  <2>1. f \in Session /\ SameQueues(y, f)
    BY Zenon, <1>2 DEF Session, SameQueues, PcbStates
  <2>2. y.pcb = "ESTABLISHED" => SamePcb(y, f)
    BY <1>2 DEF Session, SamePcb
  <2> HIDE DEF f
  <2> QED BY <1>3, <2>1, <2>2, Frame
<1>5. IInv(d)
  <2>1. d \in Session /\ SameQueues(y, d)
    BY Zenon, <1>2 DEF Session, SameQueues, PcbStates, release_active_self, DropPcb
  <2>2. d.pcb = "null" /\ d.inflight = 0 /\ d.closing_ = y.closing_
    BY <1>2 DEF Session, release_active_self, DropPcb
  <2> HIDE DEF d
  <2> QED BY <1>3, <2>1, <2>2, Detached
<1> HIDE DEF f, d
<1>6. \E z \in {y, d} \cup (IF y.pcb = "ESTABLISHED" THEN {f} ELSE {}) :
        handle_client_eof(x) \in {z, close(z)}
  BY Zenon DEF handle_client_eof, y, f, d
<1> QED BY <1>3, <1>4, <1>5, <1>6, CloseInv

(* handle_remote_fin drops the PCB, and closes a client that is done too.    *)
LEMMA RemoteFinInv == ASSUME NEW x, IInv(x) PROVE IInv(handle_remote_fin(x))
<1>1. x \in Session
  BY DEF IInv, BaseInv, Typed
<1> DEFINE d == release_active_self(DropPcb([x EXCEPT !.remote_eof_ = TRUE]))
<1>2. d \in Session /\ SameQueues(x, d)
  BY Zenon, <1>1 DEF Session, SameQueues, PcbStates, release_active_self, DropPcb
<1>3. d.pcb = "null" /\ d.inflight = 0 /\ d.closing_ = x.closing_
  BY <1>1 DEF Session, release_active_self, DropPcb
<1>4. handle_remote_fin(x) \in {Touch(d), close(Touch(d))}
  BY DEF handle_remote_fin
<1> HIDE DEF d
<1>5. IInv(d)
  BY <1>2, <1>3, Detached
<1> QED BY <1>4, <1>5, ReadInv, CloseInv

(* maybe_resume_client_read flushes, then reads.                            *)
LEMMA ResumeInv ==
  ASSUME NEW x, IInv(x), NEW y \in maybe_resume_client_read(x)
  PROVE  IInv(y)
<1>1. x \in Session
  BY DEF IInv, BaseInv, Typed
<1> DEFINE u == [x EXCEPT !.client_read_paused_ = FALSE]
<1>2. u \in Session /\ SameQueues(x, u) /\ SamePcb(x, u)
  BY Zenon, <1>1 DEF Session, SameQueues, SamePcb
<1>3. y = x \/ \E z \in flush_to_lwip(u) : y = read_encrypted_stream(Touch(z))
  BY Zenon DEF maybe_resume_client_read
<1> HIDE DEF u
<1>4. IInv(u)
  BY <1>2, Frame
<1> QED BY <1>3, <1>4, FlushToLwipInv, ReadInv

(* Payload is queued behind pending_lwip_.                                  *)
LEMMA QueuedUploadInv ==
  ASSUME NEW x, IInv(x), NEW p, IsByteQueue(p)
  PROVE  IInv([x EXCEPT !.pending_lwip_ = Concat(@, p)])
<1> DEFINE q == Concat(x.pending_lwip_, p)
           y == [x EXCEPT !.pending_lwip_ = q]
<1>1. x \in Session /\ IsByteQueue(x.pending_lwip_)
  BY DEF IInv, BaseInv, Typed
<1>2. IsByteQueue(q)
  BY <1>1, ConcatQueue
<1> HIDE DEF q
<1>3. q \in Seq(Nat \ {0})
  BY <1>2 DEF IsByteQueue
<1>4. /\ y \in Session /\ y.pending_lwip_ = q
      /\ y.pending_client_ = x.pending_client_
      /\ y.client_queue_bytes_ = x.client_queue_bytes_
      /\ y.deferred_tcp_recved_ = x.deferred_tcp_recved_
      /\ y.write = x.write /\ y.sent_response_salt_ = x.sent_response_salt_
      /\ y.got_target_ = x.got_target_ /\ y.resolving = x.resolving
      /\ y.pcb = x.pcb /\ y.rcv_wnd = x.rcv_wnd /\ y.inflight = x.inflight
      /\ y.active_self_ = x.active_self_ /\ y.closing_ = x.closing_
  BY Zenon, <1>1, <1>3 DEF Session
<1> HIDE DEF y
<1>5. Typed(y) /\ y.inflight <= TcpSndBuf
  BY <1>2, <1>4 DEF IInv, BaseInv, Typed
<1>6. ClientQueueInv(y) /\ WritingInv(y) /\ WindowInv(y) /\ BacklogInv(y)
  BY <1>4 DEF IInv, BaseInv, ClientQueueInv, WritingInv, WindowInv, BacklogInv
<1>7. UnconnectedInv(y) /\ OwnerInv(y)
  BY <1>4 DEF IInv, BaseInv, UnconnectedInv, OwnerInv
<1>8. IInv(y)
  BY <1>5, <1>6, <1>7 DEF IInv, BaseInv
<1> QED BY <1>8 DEF y, q

(* Before the target is connected, learning it or resolving it is free.     *)
LEMMA TargetInv ==
  ASSUME NEW x, IInv(x), ~x.got_target_ \/ x.resolving,
         NEW b \in BOOLEAN
  PROVE  LET y == [x EXCEPT !.got_target_ = TRUE, !.resolving = b]
         IN /\ IInv(y) /\ y.got_target_ /\ y.resolving = b /\ y.pcb = "null"
            /\ y.deferred_tcp_recved_ = 0 /\ y.pending_client_ = <<>>
<1> DEFINE y == [x EXCEPT !.got_target_ = TRUE, !.resolving = b]
<1>1. x \in Session
  BY DEF IInv, BaseInv, Typed
<1>2. x.pcb = "null" /\ x.deferred_tcp_recved_ = 0 /\ x.pending_client_ = <<>>
  BY DEF IInv, BaseInv, UnconnectedInv
<1>3. /\ y \in Session /\ y.pending_lwip_ = x.pending_lwip_
      /\ y.pending_client_ = x.pending_client_
      /\ y.client_queue_bytes_ = x.client_queue_bytes_
      /\ y.deferred_tcp_recved_ = x.deferred_tcp_recved_
      /\ y.write = x.write /\ y.sent_response_salt_ = x.sent_response_salt_
      /\ y.got_target_ /\ y.resolving = b
      /\ y.pcb = x.pcb /\ y.rcv_wnd = x.rcv_wnd /\ y.inflight = x.inflight
      /\ y.active_self_ = x.active_self_ /\ y.closing_ = x.closing_
  BY Zenon, <1>1 DEF Session
<1> HIDE DEF y
<1>4. Typed(y) /\ y.inflight <= TcpSndBuf
  BY <1>3 DEF IInv, BaseInv, Typed
<1>5. ClientQueueInv(y) /\ WritingInv(y) /\ WindowInv(y) /\ BacklogInv(y)
  BY <1>3 DEF IInv, BaseInv, ClientQueueInv, WritingInv, WindowInv, BacklogInv
<1>6. UnconnectedInv(y) /\ OwnerInv(y)
  BY <1>2, <1>3 DEF UnconnectedInv, OwnerInv
<1> QED BY <1>2, <1>3, <1>4, <1>5, <1>6 DEF IInv, BaseInv, y

(* The target becomes known: a name is looked up, an address connected.     *)
LEMMA LearnedInv ==
  ASSUME NEW y, IInv(y), ~y.got_target_, NEW kind,
         NEW w \in connect_target([y EXCEPT !.got_target_ = TRUE], kind)
  PROVE  IInv(w)
<1> DEFINE g == [y EXCEPT !.got_target_ = TRUE]
           n == [g EXCEPT !.resolving = TRUE]
           m == [g EXCEPT !.resolving = TRUE, !.by_name = TRUE]
<1>1. y \in Session /\ ~y.resolving
  BY DEF IInv, BaseInv, Typed, UnconnectedInv
<1>2. /\ g = [y EXCEPT !.got_target_ = TRUE, !.resolving = FALSE]
      /\ n = [y EXCEPT !.got_target_ = TRUE, !.resolving = TRUE]
  BY Zenon, <1>1 DEF Session
<1>3. w = m \/ w \in connect_ip(g)
  BY Zenon DEF connect_target
<1>4. n \in Session /\ m \in Session /\ SameQueues(n, m) /\ SamePcb(n, m)
  BY Zenon, <1>1 DEF Session, SameQueues, SamePcb
<1> HIDE DEF g, n, m
<1>5. /\ IInv(g) /\ g.got_target_ /\ ~g.resolving /\ g.pcb = "null"
      /\ g.deferred_tcp_recved_ = 0 /\ g.pending_client_ = <<>> /\ IInv(n)
  BY Zenon, <1>1, <1>2, TargetInv
<1> QED BY <1>3, <1>4, <1>5, ConnectInv, Frame

(* The decrypt loop: perhaps a close, perhaps a connection, then payload.   *)
LEMMA ChunksInv ==
  ASSUME NEW x, IInv(x), NEW refused \in BOOLEAN, NEW kind, NEW payload,
         IsByteQueue(payload), x.got_target_ => kind = "none",
         NEW z \in process_decrypted_chunks(x, refused, kind, payload)
  PROVE  IInv(z)
<1> DEFINE b == kind \notin {"none", "domain"}
           v == [x EXCEPT !.revived = b]
           y == IF refused THEN close(v) ELSE x
           g == [y EXCEPT !.got_target_ = TRUE]
           t == IF kind = "none" THEN {y} ELSE connect_target(g, kind)
<1>1. PICK w \in t : z = [w EXCEPT !.pending_lwip_ = Concat(@, payload)]
  BY Zenon DEF process_decrypted_chunks
<1>2. IInv(y) /\ y.got_target_ = x.got_target_ /\ y \in Session
  <2>a. x \in Session /\ b \in BOOLEAN
    BY DEF IInv, BaseInv, Typed
  <2> HIDE DEF b
  <2>b. v \in Session /\ SameQueues(x, v) /\ SamePcb(x, v) /\ v.got_target_ = x.got_target_
    BY Zenon, <2>a DEF Session, SameQueues, SamePcb
  <2> HIDE DEF v
  <2>c. IInv(v)
    BY <2>b, Frame
  <2>1. close(v).got_target_ = x.got_target_
    BY <2>b DEF close, release_active_self, DropPcb, Session
  <2>2. IInv(y) /\ y.got_target_ = x.got_target_
    BY <2>1, <2>c, CloseInv
  <2> QED BY <2>2 DEF IInv, BaseInv, Typed
<1> HIDE DEF y
<1>3. IInv(w)
  <2>1. CASE kind = "none"
    BY <1>2, <2>1
  <2>2. CASE kind # "none"
    BY <1>2, <2>2, LearnedInv
  <2> QED BY <2>1, <2>2
<1> QED BY <1>1, <1>3, QueuedUploadInv

-----------------------------------------------------------------------------
(* The direction towards the client. *)

\* y differs from x only in the queue towards the client and the salt flag.
SameButQueue(x, y) ==
  /\ y.pending_lwip_ = x.pending_lwip_ /\ y.write = x.write
  /\ y.deferred_tcp_recved_ = x.deferred_tcp_recved_
  /\ y.got_target_ = x.got_target_ /\ y.resolving = x.resolving
  /\ y.pcb = x.pcb /\ y.rcv_wnd = x.rcv_wnd /\ y.inflight = x.inflight
  /\ y.active_self_ = x.active_self_ /\ y.closing_ = x.closing_

\* The counter agrees with a well-formed queue.
Counted(x) ==
  /\ x \in Session /\ IsByteQueue(x.pending_client_)
  /\ x.client_queue_bytes_ = Bytes(x.pending_client_)

(* A buffer is counted and queued.                                          *)
LEMMA QueueCounts ==
  ASSUME NEW x, Counted(x), NEW n \in Nat \ {0}
  PROVE  LET y == Queue(x, n)
         IN /\ Counted(y) /\ SameButQueue(x, y)
            /\ y.client_queue_bytes_ = x.client_queue_bytes_ + n
            /\ y.pending_client_ # <<>>
            /\ y.sent_response_salt_ = x.sent_response_salt_
<1> DEFINE q == Push(x.pending_client_, n)
           m == x.client_queue_bytes_ + n
           y == Queue(x, n)
<1>1. x \in Session /\ x.client_queue_bytes_ \in Nat
  BY DEF Counted, Session
<1>2. IsByteQueue(q) /\ Bytes(q) = m /\ q # <<>> /\ m \in Nat
  BY <1>1, PushQueue DEF Counted
<1>3. y = [x EXCEPT !.client_queue_bytes_ = m, !.pending_client_ = q]
  BY DEF Queue
<1> HIDE DEF q, m, y
<1>4. q \in Seq(Nat \ {0})
  BY <1>2 DEF IsByteQueue
<1>5. /\ y \in Session /\ y.client_queue_bytes_ = m /\ y.pending_client_ = q
      /\ y.sent_response_salt_ = x.sent_response_salt_
  BY Zenon, <1>1, <1>2, <1>3, <1>4 DEF Session
<1>6. SameButQueue(x, y)
  BY <1>1, <1>3 DEF Session, SameButQueue
<1> QED BY <1>2, <1>5, <1>6 DEF Counted, y, m

(* The salt is the first buffer of all.                                     *)
LEMMA SaltCounts ==
  ASSUME NEW x, Counted(x), ~x.sent_response_salt_ => x.pending_client_ = <<>>
  PROVE  LET y == QueueSalt(x)
         IN /\ Counted(y) /\ SameButQueue(x, y) /\ y.sent_response_salt_
            /\ x.pending_client_ # <<>> => y.pending_client_ # <<>>
            /\ \/ y.client_queue_bytes_ = x.client_queue_bytes_
               \/ x.client_queue_bytes_ = 0 /\ y.client_queue_bytes_ = SaltSize
<1>1. CASE x.sent_response_salt_
  BY <1>1 DEF QueueSalt, SameButQueue
<1>2. CASE ~x.sent_response_salt_
  <2> DEFINE z == Queue(x, SaltSize)
             y == [z EXCEPT !.sent_response_salt_ = TRUE]
  <2>1. QueueSalt(x) = y
    BY <1>2 DEF QueueSalt
  <2>2. x.client_queue_bytes_ = 0
    BY <1>2, EmptyQueue DEF Counted
  <2>3. /\ Counted(z) /\ SameButQueue(x, z)
        /\ z.client_queue_bytes_ = 0 + SaltSize
        /\ z.pending_client_ # <<>>
    BY <2>2, ChunkSizes, QueueCounts
  <2> HIDE DEF z
  <2>4. /\ y \in Session /\ SameButQueue(z, y) /\ y.sent_response_salt_
        /\ y.client_queue_bytes_ = z.client_queue_bytes_
        /\ y.pending_client_ = z.pending_client_
    BY Zenon, <2>3 DEF Counted, Session, SameButQueue
  <2> HIDE DEF y
  <2>5. Counted(y) /\ SameButQueue(x, y)
    BY Zenon, <2>3, <2>4 DEF Counted, SameButQueue
  <2>6. y.client_queue_bytes_ = SaltSize
    BY <2>3, <2>4, ChunkSizes
  <2> QED BY <2>1, <2>2, <2>3, <2>4, <2>5, <2>6
<1> QED BY <1>1, <1>2

(* What n bytes add to the backlog is paid for by n bytes of window.        *)
LEMMA OverheadPaid ==
  ASSUME NEW n \in Nat \ {0}, NEW d \in Nat
  PROVE  /\ (Overhead + 1) * (d + n) >= (Overhead + 1) * d + n + Overhead
         /\ (Overhead + 1) * d \in Nat /\ (Overhead + 1) * (d + n) \in Nat
<1>1. Overhead \in Nat
  BY ChunkSizes
<1>2. (Overhead + 1) * (d + n) = (Overhead + 1) * d + Overhead * n + n
  BY <1>1, SMT
<1>3. Overhead * n >= Overhead
  <2>1. n - 1 \in Nat
    OBVIOUS
  <2>2. \A k \in Nat : Overhead * k \in Nat
    BY <1>1
  <2>3. Overhead * (n - 1) \in Nat
    BY <2>1, <2>2
  <2>4. Overhead * n = Overhead * (n - 1) + Overhead
    BY <1>1
  <2> QED BY <1>1, <2>3, <2>4
<1>4. (Overhead + 1) * d \in Nat /\ Overhead * n \in Nat
  BY <1>1
<1> QED BY <1>1, <1>2, <1>3, <1>4

(* lwIP has handed n bytes over: on_recv queues them, or closes.            *)
LEMMA OnRecvInv ==
  ASSUME NEW x, IInv(x), x.pcb # "null", NEW n \in 1 .. TcpWnd, n <= x.rcv_wnd
  PROVE  LET r == [x EXCEPT !.rcv_wnd = @ - n]
         IN /\ IInv(close(QueueSalt(r)))
            /\ IInv(Received(enqueue_client_payload(r, n), n))
<1> DEFINE r == [x EXCEPT !.rcv_wnd = @ - n]
           v == QueueSalt(r)
           w == Queue(v, n + Overhead)
<1>1. /\ x \in Session /\ x.rcv_wnd \in Nat /\ x.deferred_tcp_recved_ \in Nat
      /\ x.client_queue_bytes_ \in Nat /\ n \in Nat \ {0}
      /\ x.got_target_ /\ ~x.resolving /\ x.active_self_
  BY LwipSizes DEF IInv, BaseInv, Typed, Session, UnconnectedInv, OwnerInv
<1>2. /\ r \in Session /\ SameQueues(x, r)
      /\ r.rcv_wnd = x.rcv_wnd - n /\ r.pcb = x.pcb /\ r.inflight = x.inflight
      /\ r.active_self_ /\ r.closing_ = x.closing_
  <2>1. x.rcv_wnd - n \in Nat
    BY <1>1
  <2> QED BY Zenon, <1>1, <2>1 DEF Session, SameQueues
<1>3. Counted(r) /\ (~r.sent_response_salt_ => r.pending_client_ = <<>>)
  BY <1>2 DEF IInv, BaseInv, Typed, ClientQueueInv, Counted, SameQueues
<1> HIDE DEF r
<1>4. /\ Counted(v) /\ SameButQueue(r, v) /\ v.sent_response_salt_
      /\ r.pending_client_ # <<>> => v.pending_client_ # <<>>
      /\ \/ v.client_queue_bytes_ = r.client_queue_bytes_
         \/ r.client_queue_bytes_ = 0 /\ v.client_queue_bytes_ = SaltSize
  BY <1>3, SaltCounts
<1> HIDE DEF v
<1>5. /\ v.deferred_tcp_recved_ = x.deferred_tcp_recved_
      /\ v.rcv_wnd = x.rcv_wnd - n /\ v.pcb = x.pcb
      /\ v.pending_lwip_ = x.pending_lwip_ /\ v.write = x.write
      /\ v.got_target_ /\ ~v.resolving /\ v.active_self_
      /\ v.closing_ = x.closing_ /\ v.inflight = x.inflight
  BY <1>1, <1>2, <1>4 DEF SameButQueue, SameQueues
<1>6. /\ \/ v.client_queue_bytes_ = x.client_queue_bytes_
         \/ x.client_queue_bytes_ = 0 /\ v.client_queue_bytes_ = SaltSize
      /\ v.client_queue_bytes_ >= x.client_queue_bytes_
      /\ v.client_queue_bytes_ \in Nat
  BY <1>1, <1>2, <1>4, ChunkSizes DEF SameQueues
<1>7. v.client_queue_bytes_ <= ClientQueueHighWater + SaltSize
                                 + (Overhead + 1) * x.deferred_tcp_recved_
  <2> DEFINE o == (Overhead + 1) * x.deferred_tcp_recved_
  <2>1. o \in Nat /\ x.client_queue_bytes_ <= ClientQueueHighWater + SaltSize + o
    BY Zenon, <1>1, OverheadPaid DEF IInv, BaseInv, BacklogInv
  <2> HIDE DEF o
  <2>2. v.client_queue_bytes_ <= ClientQueueHighWater + SaltSize + o
    BY <1>1, <1>6, <2>1, WaterMarks, ChunkSizes
  <2> QED BY <2>2 DEF o
<1>8. IInv(close(v))
  <2> DEFINE c == [v EXCEPT !.closing_ = TRUE]
  <2>1. v \in Session
    BY <1>4 DEF Counted
  <2>2. /\ c \in Session /\ SameQueues(v, c) /\ c.closing_
        /\ c.pcb = v.pcb /\ c.inflight = v.inflight /\ c.rcv_wnd = v.rcv_wnd
        /\ c.active_self_ = v.active_self_
    BY Zenon, <2>1 DEF Session, SameQueues
  <2>3. close(v) = c \/ close(v) = release_active_self(DropPcb(c))
    BY Zenon, <2>1 DEF close, Session
  <2> HIDE DEF c
  <2>4. IInv(c)
    <3>1. Typed(c) /\ c.inflight <= TcpSndBuf
      BY <1>4, <1>5, <2>2 DEF IInv, BaseInv, Typed, Counted, SameQueues
    <3>2. ClientQueueInv(c) /\ WritingInv(c)
      BY <1>2, <1>4, <1>5, <2>2
         DEF IInv, BaseInv, ClientQueueInv, WritingInv, Counted, SameQueues
    <3>3. WindowInv(c)
      BY <1>1, <1>5, <2>2, LwipSizes DEF IInv, BaseInv, WindowInv, SameQueues
    <3>4. BacklogInv(c)
      BY <1>5, <1>7, <2>2 DEF BacklogInv, SameQueues
    <3>5. UnconnectedInv(c) /\ OwnerInv(c)
      BY <1>5, <2>2 DEF UnconnectedInv, OwnerInv, SameQueues
    <3> QED BY <3>1, <3>2, <3>3, <3>4, <3>5 DEF IInv, BaseInv
  <2>5. IInv(release_active_self(DropPcb(c)))
    <3> DEFINE d == release_active_self(DropPcb(c))
    <3>1. d \in Session /\ SameQueues(c, d)
      BY Zenon, <2>2 DEF Session, SameQueues, PcbStates, release_active_self, DropPcb
    <3>2. d.pcb = "null" /\ d.inflight = 0 /\ d.closing_ = c.closing_
      BY Zenon, <2>2 DEF Session, release_active_self, DropPcb
    <3> HIDE DEF d
    <3>3. IInv(d)
      BY <2>4, <3>1, <3>2, Detached
    <3> QED BY <3>3 DEF d
  <2> QED BY <2>3, <2>4, <2>5
<1>9. /\ Counted(w) /\ SameButQueue(v, w) /\ w.sent_response_salt_
      /\ w.client_queue_bytes_ = v.client_queue_bytes_ + (n + Overhead)
      /\ w.pending_client_ # <<>>
  <2>1. n + Overhead \in Nat \ {0}
    BY <1>1, ChunkSizes
  <2> QED BY <1>4, <2>1, QueueCounts
<1>10. Received(enqueue_client_payload(r, n), n) = flush_to_client(Received(w, n))
  <2>1. enqueue_client_payload(r, n) = flush_to_client(w)
    BY DEF enqueue_client_payload, v
  <2> HIDE DEF w
  <2>2. w \in Session
    BY <1>9 DEF Counted
  <2>3. Received(flush_to_client(w), n) = flush_to_client(Received(w, n))
    BY Zenon, <2>2 DEF Received, flush_to_client, Session
  <2> QED BY <2>1, <2>3
<1> HIDE DEF w
<1>11. BaseInv(Received(w, n))
  <2> DEFINE y == Received(w, n)
  <2>1. w \in Session /\ w.client_queue_bytes_ \in Nat
    BY <1>9 DEF Counted, Session
  <2>2. /\ w.deferred_tcp_recved_ = x.deferred_tcp_recved_
        /\ w.rcv_wnd = x.rcv_wnd - n /\ w.pcb = x.pcb
        /\ w.pending_lwip_ = x.pending_lwip_ /\ w.write = x.write
        /\ w.got_target_ /\ ~w.resolving /\ w.active_self_
        /\ w.closing_ = x.closing_ /\ w.inflight = x.inflight
    BY <1>5, <1>9 DEF SameButQueue
  <2>3. /\ y \in Session
        /\ y.pending_lwip_ = w.pending_lwip_
        /\ y.pending_client_ = w.pending_client_
        /\ y.client_queue_bytes_ = w.client_queue_bytes_
        /\ y.write = w.write /\ y.sent_response_salt_ = w.sent_response_salt_
        /\ y.got_target_ = w.got_target_ /\ y.resolving = w.resolving
        /\ y.pcb = w.pcb /\ y.inflight = w.inflight
        /\ y.active_self_ = w.active_self_ /\ y.closing_ = w.closing_
    <3>1. w.deferred_tcp_recved_ + n \in Nat /\ w.rcv_wnd + n \in Nat
      BY <1>1, <2>2
    <3> QED BY Zenon, <2>1, <3>1 DEF Received, Session
  <2>4. \/ /\ y.client_queue_bytes_ > ClientQueueHighWater
           /\ y.deferred_tcp_recved_ = x.deferred_tcp_recved_ + n
           /\ y.rcv_wnd = x.rcv_wnd - n
        \/ /\ y.client_queue_bytes_ <= ClientQueueHighWater
           /\ y.deferred_tcp_recved_ = x.deferred_tcp_recved_
           /\ y.rcv_wnd = x.rcv_wnd
    BY SMTT(30), <1>1, <2>1, <2>2, WaterMarks DEF Received, Session
  <2> HIDE DEF y
  <2>5. Typed(y) /\ y.inflight <= TcpSndBuf
    BY <1>9, <2>2, <2>3 DEF IInv, BaseInv, Typed, Counted
  <2>6. ClientQueueInv(y)
    BY Zenon, <1>9, <2>3 DEF ClientQueueInv, Counted
  <2>7. y.client_queue_bytes_ >= x.client_queue_bytes_
    BY <1>1, <1>6, <1>9, <2>3, ChunkSizes
  <2>8. WindowInv(y)
    <3>1. y.rcv_wnd + y.deferred_tcp_recved_ = x.rcv_wnd + x.deferred_tcp_recved_
      BY <1>1, <2>4
    <3>2. y.deferred_tcp_recved_ <= TcpWnd
      BY <1>1, <2>4, LwipSizes DEF IInv, BaseInv, WindowInv
    <3>3. ~y.closing_ /\ y.deferred_tcp_recved_ > 0 =>
            y.client_queue_bytes_ >= ClientQueueLowWater
      BY <1>1, <2>1, <2>2, <2>3, <2>4, <2>7, WaterMarks
         DEF IInv, BaseInv, WindowInv
    <3> QED BY <2>2, <2>3, <3>1, <3>2, <3>3 DEF IInv, BaseInv, WindowInv
  <2>9. BacklogInv(y)
    <3> DEFINE o == (Overhead + 1) * x.deferred_tcp_recved_
               p == (Overhead + 1) * (x.deferred_tcp_recved_ + n)
    <3>1. o \in Nat /\ p \in Nat /\ p >= o + n + Overhead
      BY Zenon, <1>1, OverheadPaid
    <3>2. v.client_queue_bytes_ <= ClientQueueHighWater + SaltSize + o
      BY <1>7
    <3>3. CASE y.client_queue_bytes_ > ClientQueueHighWater
      <4>1. (Overhead + 1) * y.deferred_tcp_recved_ = p
        BY <3>3, <2>4, <2>1, <2>3, WaterMarks
      <4> HIDE DEF o, p
      <4> QED BY SMTT(30), <1>1, <1>6, <1>9, <2>3, <3>1, <3>2, <4>1, WaterMarks, ChunkSizes
              DEF BacklogInv
    <3>4. CASE y.client_queue_bytes_ <= ClientQueueHighWater
      <4>1. (Overhead + 1) * y.deferred_tcp_recved_ = o
        BY <3>4, <2>4, <2>1, <2>3, WaterMarks
      <4> HIDE DEF o, p
      <4> QED BY <2>1, <2>3, <3>1, <3>4, <4>1, WaterMarks, ChunkSizes
              DEF BacklogInv
    <3> QED BY <2>4, <3>3, <3>4
  <2>10. UnconnectedInv(y) /\ OwnerInv(y)
    BY <2>2, <2>3 DEF UnconnectedInv, OwnerInv
  <2> QED BY <2>5, <2>6, <2>8, <2>9, <2>10 DEF BaseInv, y
<1> QED BY <1>8, <1>10, <1>11, FlushToClientInv DEF r, v

(* The write handler pops a buffer and returns the window when it may.      *)
LEMMA WriteDoneInv ==
  ASSUME NEW x, IInv(x), x.write # "none"
  PROVE  IInv(flush_to_client(ReturnWindow(PoppedFront(x))))
<1> DEFINE q == x.pending_client_
           m == x.client_queue_bytes_ - SizeOf(q, 1)
           p == PoppedFront(x)
           y == ReturnWindow(p)
<1>1. /\ x \in Session /\ x.client_queue_bytes_ \in Nat /\ x.rcv_wnd \in Nat
      /\ x.deferred_tcp_recved_ \in Nat /\ IsByteQueue(q)
      /\ x.client_queue_bytes_ = Bytes(q) /\ q # <<>>
  BY DEF IInv, BaseInv, Typed, Session, ClientQueueInv
<1>2. Len(q) \in Nat /\ Len(q) > 0
  <2> HIDE DEF q
  <2> QED BY <1>1, Offsets
<1>3. IsByteQueue(Drop(q, 1)) /\ Bytes(Drop(q, 1)) = m /\ m \in Nat /\ m < Bytes(q)
  <2> HIDE DEF q
  <2>1. 1 \in 0 .. Len(q) /\ 1 \in 1 .. Len(q)
    BY <1>2
  <2>2. SizeOf(q, 1) = EndOf(q, 1) /\ SizeOf(q, 1) \in Nat \ {0}
    BY <1>1, <2>1, Offsets DEF SizeOf, EndOf
  <2>3. /\ IsByteQueue(Drop(q, 1)) /\ Bytes(Drop(q, 1)) = Bytes(q) - EndOf(q, 1)
    BY <1>1, <2>1, DropQueue
  <2>4. Bytes(Drop(q, 1)) \in Nat
    BY <2>3, Offsets
  <2> QED BY <1>1, <2>2, <2>3, <2>4
<1>4. Drop(q, 1) \in Seq(Nat \ {0})
  BY <1>3 DEF IsByteQueue
<1>5. /\ p \in Session /\ p.write = "none"
      /\ p.client_queue_bytes_ = m /\ p.pending_client_ = Drop(q, 1)
      /\ p.pending_lwip_ = x.pending_lwip_
      /\ p.deferred_tcp_recved_ = x.deferred_tcp_recved_
      /\ p.sent_response_salt_ = x.sent_response_salt_
      /\ p.got_target_ = x.got_target_ /\ p.resolving = x.resolving
      /\ p.pcb = x.pcb /\ p.rcv_wnd = x.rcv_wnd /\ p.inflight = x.inflight
      /\ p.active_self_ = x.active_self_ /\ p.closing_ = x.closing_
  <2> DEFINE d == Drop(q, 1)
  <2>1. p = [x EXCEPT !.write = "none", !.client_queue_bytes_ = m,
                      !.pending_client_ = d]
    BY <1>1 DEF PoppedFront, Session
  <2>2. d \in Seq(Nat \ {0}) /\ m \in Nat
    BY <1>3, <1>4
  <2> HIDE DEF d, m, p
  <2>3. p \in Session /\ p.client_queue_bytes_ = m /\ p.pending_client_ = d
    BY Zenon, <1>1, <2>1, <2>2 DEF Session
  <2>4. /\ p.write = "none" /\ p.pending_lwip_ = x.pending_lwip_
        /\ p.deferred_tcp_recved_ = x.deferred_tcp_recved_
        /\ p.sent_response_salt_ = x.sent_response_salt_
        /\ p.got_target_ = x.got_target_ /\ p.resolving = x.resolving
        /\ p.pcb = x.pcb /\ p.rcv_wnd = x.rcv_wnd /\ p.inflight = x.inflight
        /\ p.active_self_ = x.active_self_ /\ p.closing_ = x.closing_
    BY <1>1, <2>1 DEF Session
  <2> QED BY <2>3, <2>4 DEF d
<1> HIDE DEF m, p
<1>6. /\ y \in Session
      /\ y.write = "none" /\ y.pending_lwip_ = p.pending_lwip_
      /\ y.client_queue_bytes_ = m /\ y.pending_client_ = Drop(q, 1)
      /\ y.sent_response_salt_ = p.sent_response_salt_
      /\ y.got_target_ = p.got_target_ /\ y.resolving = p.resolving
      /\ y.pcb = p.pcb /\ y.inflight = p.inflight
      /\ y.active_self_ = p.active_self_ /\ y.closing_ = p.closing_
  <2>1. p.rcv_wnd + p.deferred_tcp_recved_ \in Nat
    BY <1>1, <1>5
  <2> DEFINE r == p.rcv_wnd + p.deferred_tcp_recved_
  <2>2. \/ y = p
        \/ y = [p EXCEPT !.rcv_wnd = r, !.deferred_tcp_recved_ = 0]
    BY <1>5 DEF ReturnWindow, Session
  <2>3. p \in Session /\ r \in Nat
    BY <1>5, <2>1
  <2> HIDE DEF y, r
  <2>4. y \in Session
    <3>1. [p EXCEPT !.rcv_wnd = r, !.deferred_tcp_recved_ = 0] \in Session
      BY Zenon, <2>3 DEF Session
    <3> QED BY <2>2, <2>3, <3>1
  <2> QED BY ZenonT(40), <1>5, <2>2, <2>4 DEF Session
<1>7. \/ /\ y.pcb # "null" /\ m < ClientQueueLowWater
         /\ y.rcv_wnd = x.rcv_wnd + x.deferred_tcp_recved_
         /\ y.deferred_tcp_recved_ = 0
      \/ /\ ~(y.pcb # "null" /\ m < ClientQueueLowWater)
         /\ y.rcv_wnd = x.rcv_wnd
         /\ y.deferred_tcp_recved_ = x.deferred_tcp_recved_
  BY <1>5 DEF ReturnWindow, Session
<1> HIDE DEF y
<1>8. Typed(y) /\ y.inflight <= TcpSndBuf
  BY <1>3, <1>5, <1>6 DEF IInv, BaseInv, Typed
<1>9. ClientQueueInv(y)
  <2>1. y.sent_response_salt_
    BY <1>1, <1>5, <1>6 DEF IInv, BaseInv, ClientQueueInv
  <2> QED BY <1>3, <1>6, <2>1 DEF ClientQueueInv
<1>10. WindowInv(y)
  BY <1>1, <1>3, <1>5, <1>6, <1>7, LwipSizes, WaterMarks
     DEF IInv, BaseInv, WindowInv
<1>11. BacklogInv(y)
  <2>1. CASE y.deferred_tcp_recved_ = x.deferred_tcp_recved_
    <3> DEFINE o == (Overhead + 1) * x.deferred_tcp_recved_
    <3>1. o \in Nat
      BY <1>1, ChunkSizes
    <3>2. x.client_queue_bytes_ <= ClientQueueHighWater + SaltSize + o
      BY DEF IInv, BaseInv, BacklogInv
    <3>3. (Overhead + 1) * y.deferred_tcp_recved_ = o
      BY <2>1
    <3> HIDE DEF o
    <3> QED BY <1>1, <1>3, <1>6, <3>1, <3>2, <3>3, WaterMarks, ChunkSizes
            DEF BacklogInv
  <2>2. CASE m < ClientQueueLowWater /\ y.deferred_tcp_recved_ = 0
    <3>1. (Overhead + 1) * y.deferred_tcp_recved_ = 0
      BY <2>2, ChunkSizes
    <3>2. m <= ClientQueueHighWater + SaltSize + 0
      BY <1>3, <2>2, WaterMarks, ChunkSizes
    <3> QED BY <1>6, <3>1, <3>2 DEF BacklogInv
  <2> QED BY <1>7, <2>1, <2>2
<1>12. UnconnectedInv(y) /\ OwnerInv(y)
  <2>1. x.got_target_ /\ ~x.resolving
    BY <1>1 DEF IInv, BaseInv, UnconnectedInv
  <2>2. OwnerInv(x)
    BY DEF IInv, BaseInv
  <2> QED BY <1>5, <1>6, <2>1, <2>2 DEF UnconnectedInv, OwnerInv
<1>13. BaseInv(y)
  BY <1>8, <1>9, <1>10, <1>11, <1>12 DEF BaseInv
<1> QED BY <1>13, FlushToClientInv DEF y, p

-----------------------------------------------------------------------------
(* A new session satisfies the invariant. *)
LEMMA InitInv == Init => IInv(s)
<1> SUFFICES ASSUME s = NewSession PROVE IInv(s)
  BY DEF Init
<1>1. NewSession \in Session
  BY DEF NewSession, Session, PcbStates
<1>2. Typed(s) /\ s.inflight <= TcpSndBuf
  BY <1>1, EmptyQueue, LwipSizes DEF Typed, NewSession
<1>3. ClientQueueInv(s) /\ WritingInv(s) /\ WindowInv(s)
  BY EmptyQueue, LwipSizes DEF NewSession, ClientQueueInv, WritingInv, WindowInv
<1>4. BacklogInv(s)
  BY WaterMarks, ChunkSizes DEF NewSession, BacklogInv
<1>5. UnconnectedInv(s) /\ OwnerInv(s)
  BY DEF NewSession, UnconnectedInv, OwnerInv
<1> QED BY <1>2, <1>3, <1>4, <1>5 DEF IInv, BaseInv

(* Every handler preserves it. *)
LEMMA StepInv == IInv(s) /\ [Next]_vars => IInv(s')
<1> SUFFICES ASSUME IInv(s), [Next]_vars PROVE IInv(s')
  OBVIOUS
<1>0. s \in Session
  BY DEF IInv, BaseInv, Typed
<1>1. CASE ReadSaltDone
  BY Zenon, <1>1, CompletedInv, ReadInv DEF ReadSaltDone
<1>2. CASE ReadSaltFailed
  BY Zenon, <1>2, CompletedInv, CloseInv DEF ReadSaltFailed
<1>3. CASE ReadDone
  <2>1. PICK refused \in {FALSE, BadTargets}, kind \in TargetKinds \cup {"none"},
             payload \in Payloads, throws \in BOOLEAN :
          /\ s.reads > 0
          /\ s.got_target_ => ~refused /\ kind = "none"
          /\ \E x \in process_decrypted_chunks([s EXCEPT !.reads = @ - 1],
                                                refused, kind, payload) :
               \/ throws /\ s' = close(x)
               \/ ~throws /\ \E y \in flush_to_lwip(x) :
                                s' = read_encrypted_stream(y)
    BY Zenon, <1>3 DEF ReadDone
  <2> DEFINE r == [s EXCEPT !.reads = @ - 1]
  <2>2. IInv(r)
    BY <2>1, ReadCompletedInv
  <2>3. r.got_target_ = s.got_target_
    BY <1>0 DEF Session
  <2>4. IsByteQueue(payload) /\ refused \in BOOLEAN
    BY Zenon, Inputs DEF Payloads
  <2>5. PICK x \in process_decrypted_chunks(r, refused, kind, payload) :
          \/ s' = close(x)
          \/ \E y \in flush_to_lwip(x) : s' = read_encrypted_stream(y)
    BY <2>1
  <2> HIDE DEF r
  <2>6. IInv(x)
    BY <2>1, <2>2, <2>3, <2>4, ChunksInv
  <2> QED BY <2>5, <2>6, CloseInv, FlushToLwipInv, ReadInv
<1>4. CASE ReadEof
  BY <1>4, ReadCompletedInv, ClientEofInv DEF ReadEof
<1>5. CASE ReadFailed
  BY <1>5, ReadCompletedInv, CloseInv DEF ReadFailed
<1>6. CASE ClientAccepts
  <2> DEFINE y == [s EXCEPT !.write = "done"]
  <2>1. s' = y /\ s.write = "pending"
    BY <1>6 DEF ClientAccepts
  <2>2. /\ y \in Session /\ SamePcb(s, y) /\ y.inflight = s.inflight
        /\ y.write = "done"
        /\ y.pending_lwip_ = s.pending_lwip_
        /\ y.pending_client_ = s.pending_client_
        /\ y.client_queue_bytes_ = s.client_queue_bytes_
        /\ y.deferred_tcp_recved_ = s.deferred_tcp_recved_
        /\ y.sent_response_salt_ = s.sent_response_salt_
        /\ y.got_target_ = s.got_target_ /\ y.resolving = s.resolving
    BY Zenon, <1>0 DEF Session, SamePcb
  <2> HIDE DEF y
  <2>3. Typed(y) /\ y.inflight <= TcpSndBuf
    BY <2>2 DEF IInv, BaseInv, Typed
  <2>4. ClientQueueInv(y) /\ WritingInv(y)
    BY <2>1, <2>2 DEF IInv, BaseInv, ClientQueueInv, WritingInv
  <2>5. WindowInv(y) /\ BacklogInv(y)
    BY <2>2 DEF IInv, BaseInv, WindowInv, BacklogInv, SamePcb
  <2>6. UnconnectedInv(y) /\ OwnerInv(y)
    BY <2>2 DEF IInv, BaseInv, UnconnectedInv, OwnerInv, SamePcb
  <2> QED BY <2>1, <2>3, <2>4, <2>5, <2>6 DEF IInv, BaseInv
<1>7. CASE WriteDone
  BY <1>7, WriteDoneInv DEF WriteDone
<1>8. CASE WriteFailed
  <2> DEFINE y == close([s EXCEPT !.write = "none"])
  <2>1. s' = y
    BY <1>8 DEF WriteFailed
  <2>2. /\ y \in Session /\ y.closing_
        /\ y.write = "none"
        /\ y.pending_lwip_ = s.pending_lwip_
        /\ y.pending_client_ = s.pending_client_
        /\ y.client_queue_bytes_ = s.client_queue_bytes_
        /\ y.deferred_tcp_recved_ = s.deferred_tcp_recved_
        /\ y.sent_response_salt_ = s.sent_response_salt_
        /\ y.got_target_ = s.got_target_ /\ y.resolving = s.resolving
    BY Zenon, <1>0 DEF Session, PcbStates, close, release_active_self, DropPcb
  <2>3. \/ y.pcb = "null" /\ y.inflight = 0
        \/ SamePcb(s, y) /\ y.inflight = s.inflight
    BY <1>0 DEF Session, SamePcb, close, release_active_self, DropPcb
  <2> HIDE DEF y
  <2>4. Typed(y) /\ y.inflight <= TcpSndBuf
    BY <2>2, <2>3, LwipSizes DEF IInv, BaseInv, Typed
  <2>5. ClientQueueInv(y) /\ WritingInv(y)
    BY <2>2 DEF IInv, BaseInv, ClientQueueInv, WritingInv
  <2>6. WindowInv(y) /\ BacklogInv(y)
    BY Zenon, <2>2, <2>3 DEF IInv, BaseInv, WindowInv, BacklogInv, SamePcb
  <2>7. UnconnectedInv(y) /\ OwnerInv(y)
    BY Zenon, <2>2, <2>3 DEF IInv, BaseInv, UnconnectedInv, OwnerInv, SamePcb
  <2> QED BY <2>1, <2>4, <2>5, <2>6, <2>7 DEF IInv, BaseInv
<1>9. CASE ResolveDone
  <2> DEFINE x == [s EXCEPT !.resolving = FALSE]
  <2>1. s.resolving /\ s' \in {close(x)} \cup connect_ip(x)
    BY <1>9 DEF ResolveDone
  <2>2. x = [s EXCEPT !.got_target_ = TRUE, !.resolving = FALSE]
    BY Zenon, <1>0, <2>1 DEF IInv, BaseInv, UnconnectedInv, Session
  <2> HIDE DEF x
  <2>3. /\ IInv(x) /\ x.got_target_ /\ ~x.resolving /\ x.pcb = "null"
        /\ x.deferred_tcp_recved_ = 0 /\ x.pending_client_ = <<>>
    BY Zenon, <2>1, <2>2, TargetInv
  <2> QED BY <2>1, <2>3, CloseInv, ConnectInv
<1>10. CASE on_connected
  <2> DEFINE y == [s EXCEPT !.pcb = "ESTABLISHED"]
  <2>1. s.pcb = "SYN_SENT" /\ s' \in flush_to_lwip(y)
    BY <1>10 DEF on_connected
  <2>2. y \in Session /\ SameQueues(s, y) /\ SamePcb(s, y)
    BY Zenon, <1>0, <2>1 DEF Session, PcbStates, SameQueues, SamePcb
  <2> HIDE DEF y
  <2> QED BY <2>1, <2>2, Frame, FlushToLwipInv
<1>11. CASE on_recv
  <2>1. PICK n \in 1 .. TcpWnd :
          /\ s.pcb # "null" /\ n <= s.rcv_wnd
          /\ \/ s' = close(QueueSalt([s EXCEPT !.rcv_wnd = @ - n]))
             \/ s' = Received(enqueue_client_payload(
                                [s EXCEPT !.rcv_wnd = @ - n], n), n)
    BY <1>11 DEF on_recv
  <2> QED BY <2>1, OnRecvInv
<1>12. CASE on_recv_fin
  BY <1>12, RemoteFinInv DEF on_recv_fin
<1>13. CASE on_sent
  <2>1. PICK n \in 1 .. TcpSndBuf :
          /\ n <= s.inflight
          /\ s' \in maybe_resume_client_read([s EXCEPT !.inflight = @ - n])
    BY <1>13 DEF on_sent
  <2> DEFINE y == [s EXCEPT !.inflight = @ - n]
  <2>2. s.inflight \in Nat /\ s.inflight - n \in Nat /\ s.inflight - n < s.inflight
    BY <1>0, <2>1, LwipSizes DEF Session
  <2>3. y \in Session /\ SameQueues(s, y) /\ SamePcb(s, y)
    BY Zenon, <1>0, <2>2 DEF Session, SameQueues, SamePcb
  <2>4. s' \in maybe_resume_client_read(y)
    BY <2>1
  <2> HIDE DEF y
  <2> QED BY <2>3, <2>4, Frame, ResumeInv
<1>14. CASE on_err
  <2> DEFINE y == close_client_only(DropPcb(s))
  <2>1. s' = y
    BY <1>14 DEF on_err
  <2>2. y \in Session /\ SameQueues(s, y)
    BY Zenon, <1>0 DEF Session, SameQueues, PcbStates, close_client_only,
                release_active_self, DropPcb
  <2>3. y.pcb = "null" /\ y.inflight = 0 /\ y.closing_
    BY <1>0 DEF Session, close_client_only, release_active_self, DropPcb
  <2> HIDE DEF y
  <2> QED BY <2>1, <2>2, <2>3, Detached
<1>15. CASE Destroyed \/ UNCHANGED vars
  BY <1>15 DEF Destroyed, vars
<1> QED BY <1>1, <1>2, <1>3, <1>4, <1>5, <1>6, <1>7, <1>8, <1>9, <1>10, <1>11,
           <1>12, <1>13, <1>14, <1>15 DEF Next

\* The inductive invariant of the specification.
Inv == IInv(s)

(* Inv holds in every reachable state.                                      *)
THEOREM Invariance == Spec => []Inv
<1>1. Init => Inv
  BY InitInv DEF Inv
<1>2. Inv /\ [Next]_vars => Inv'
  BY StepInv DEF Inv
<1> QED BY <1>1, <1>2, PTL DEF Spec

(* Every field keeps its type and both queues stay well formed, whatever    *)
(* the handlers do and however large the buffers are.                       *)
THEOREM TypeCorrect == Spec => []TypeOK
<1>1. Inv => TypeOK
  BY DEF Inv, IInv, BaseInv, Typed, TypeOK
<1> QED BY <1>1, Invariance, PTL

(* client_queue_bytes_ is the number of bytes in pending_client_.           *)
THEOREM Accounting == Spec => []ClientQueueAccounted
<1>1. Inv => ClientQueueAccounted
  BY DEF Inv, IInv, BaseInv, ClientQueueInv, ClientQueueAccounted
<1> QED BY <1>1, Invariance, PTL

(* tcp_recved is called once for every byte of window, no more and no less. *)
THEOREM WindowConservation == Spec => []WindowConserved
<1>1. Inv => WindowConserved
  BY DEF Inv, IInv, BaseInv, WindowInv, WindowConserved
<1> QED BY <1>1, Invariance, PTL

(* A withheld window always has an outstanding write to return it.          *)
THEOREM WindowReturn == Spec => []WithheldWindowIsReturned
<1>1. Inv => WithheldWindowIsReturned
  <2> SUFFICES ASSUME Inv, ~s.closing_, s.pcb # "null",
                      s.deferred_tcp_recved_ > 0
               PROVE  /\ s.client_queue_bytes_ >= ClientQueueLowWater
                      /\ s.write # "none"
    BY DEF WithheldWindowIsReturned
  <2>1. s.client_queue_bytes_ >= ClientQueueLowWater
    BY DEF Inv, IInv, BaseInv, WindowInv
  <2>2. s.pending_client_ # <<>>
    <3>1. s.client_queue_bytes_ # 0
      BY <2>1, WaterMarks
    <3> QED BY <3>1, EmptyQueue DEF Inv, IInv, BaseInv, ClientQueueInv
  <2> QED BY <2>1, <2>2 DEF Inv, IInv, WritingInv
<1> QED BY <1>1, Invariance, PTL

(* The backlog of one session is bounded by the constants.                  *)
THEOREM BacklogBound == Spec => []ClientBacklogBounded
<1>1. Inv => ClientBacklogBounded
  <2> SUFFICES ASSUME Inv PROVE ClientBacklogBounded
    OBVIOUS
  <2> DEFINE d == s.deferred_tcp_recved_
  <2>1. d \in Nat /\ d <= TcpWnd /\ s.client_queue_bytes_ \in Nat
    BY DEF Inv, IInv, BaseInv, Typed, Session, WindowInv
  <2>2. /\ (Overhead + 1) * d <= (Overhead + 1) * TcpWnd
        /\ (Overhead + 1) * d \in Nat /\ (Overhead + 1) * TcpWnd \in Nat
    BY <2>1, LwipSizes, ChunkSizes
  <2>3. s.client_queue_bytes_ <= ClientQueueHighWater + SaltSize + (Overhead + 1) * d
    BY DEF Inv, IInv, BaseInv, BacklogInv
  <2> QED BY <2>1, <2>2, <2>3, WaterMarks, ChunkSizes DEF ClientBacklogBounded
<1> QED BY <1>1, Invariance, PTL

(* A PCB whose tcp_arg is the session keeps the session alive.              *)
THEOREM PcbOwner == Spec => []PcbKeepsSessionAlive
<1>1. Inv => PcbKeepsSessionAlive
  BY DEF Inv, IInv, BaseInv, OwnerInv, PcbKeepsSessionAlive
<1> QED BY <1>1, Invariance, PTL

-----------------------------------------------------------------------------
(* Reading the client, and the upload. *)

\* A target given by name is looked up after it is known, and until there is a
\* connection nothing pauses; a session closed before that reads no more.  For
\* a target given by address, one read at most is outstanding, none while the
\* client is paused, and it finds nothing queued before a PCB.
ReadingInv(x) ==
  /\ x.by_name => x.got_target_
  /\ x.resolving => x.by_name
  /\ x.closing_ /\ ~x.got_target_ => x.reads = 0
  /\ ~x.got_target_ \/ x.resolving => ~x.client_read_paused_
  /\ ~x.by_name =>
       /\ x.reads <= 1
       /\ x.client_read_paused_ => x.reads = 0
       /\ x.reads > 0 /\ x.pcb # "null" => x.pending_lwip_ = <<>>

\* Every packet fits into an empty send buffer.
SmallPackets(q) == \A k \in 1 .. Len(q) : SizeOf(q, k) <= MaxPayload

\* A closed session is connected only if it was revived, and a client paused
\* with nothing in flight is starved.
ClosedInv(x) == x.closing_ /\ ~x.revived => x.pcb = "null"

PausedInv(x) ==
  x.client_read_paused_ /\ x.pcb # "null" /\ ~x.starved => x.inflight > 0

UInv(x) ==
  /\ ReadingInv(x) /\ SmallPackets(x.pending_lwip_)
  /\ ClosedInv(x)
  /\ PausedInv(x)

\* y is x, perhaps without its PCB, perhaps closed.
Carries(x, y) ==
  /\ y.reads = x.reads /\ y.pending_lwip_ = x.pending_lwip_
  /\ y.client_read_paused_ = x.client_read_paused_
  /\ y.by_name = x.by_name /\ y.got_target_ = x.got_target_
  /\ y.revived = x.revived /\ y.starved = x.starved
  /\ y.resolving = x.resolving
  /\ y.pcb = "null" \/ (x.pcb # "null" /\ y.inflight = x.inflight)
  /\ \/ y.closing_ = x.closing_
     \/ y.closing_ /\ y.pcb = "null" /\ (x.got_target_ \/ x.reads = 0)

(* What the upload needs survives the loss of the PCB and of the client.    *)
LEMMA UploadFrame == ASSUME NEW x, NEW y, UInv(x), Carries(x, y) PROVE UInv(y)
<1>1. ReadingInv(y)
  BY DEF UInv, ReadingInv, Carries
<1>2. SmallPackets(y.pending_lwip_)
  BY DEF UInv, Carries
<1>3. ClosedInv(y) /\ PausedInv(y)
  BY DEF UInv, ClosedInv, PausedInv, Carries
<1> QED BY <1>1, <1>2, <1>3 DEF UInv

(* close() after the target is known, or in the handler of the last read.   *)
LEMMA CloseUpload ==
  ASSUME NEW x \in Session, UInv(x), x.got_target_ \/ x.reads = 0
  PROVE  UInv(close(x)) /\ close(x).closing_ /\ close(x).reads = x.reads
<1> DEFINE y == close(x)
<1>1. /\ y.reads = x.reads /\ y.pending_lwip_ = x.pending_lwip_
      /\ y.client_read_paused_ = x.client_read_paused_
      /\ y.by_name = x.by_name /\ y.got_target_ = x.got_target_
      /\ y.revived = x.revived /\ y.starved = x.starved
      /\ y.resolving = x.resolving /\ y.closing_
  BY Zenon DEF close, release_active_self, DropPcb, Session
<1>2. y.pcb = "null" \/ (y.pcb = x.pcb /\ y.inflight = x.inflight /\ x.closing_)
  BY Zenon DEF close, release_active_self, DropPcb, Session
<1> HIDE DEF y
<1>3. Carries(x, y)
  BY <1>1, <1>2, Zenon DEF Carries
<1> QED BY <1>1, <1>3, UploadFrame DEF y

(* read_encrypted_stream, where a read for a target given by address finds
   none outstanding and nothing queued before a PCB.                        *)
LEMMA ReadUpload ==
  ASSUME NEW x \in Session, UInv(x),
         ~x.by_name /\ ~x.closing_ /\ ~x.client_read_paused_ =>
           x.reads = 0 /\ (x.pcb = "null" \/ x.pending_lwip_ = <<>>)
  PROVE  UInv(read_encrypted_stream(x))
<1> DEFINE y == [x EXCEPT !.reads = @ + 1]
<1>1. CASE x.closing_ \/ x.client_read_paused_
  BY <1>1 DEF read_encrypted_stream
<1>2. CASE ~(x.closing_ \/ x.client_read_paused_)
  <2>1. /\ y.reads = x.reads + 1 /\ y.pending_lwip_ = x.pending_lwip_
        /\ y.client_read_paused_ = x.client_read_paused_
        /\ y.by_name = x.by_name /\ y.got_target_ = x.got_target_
        /\ y.revived = x.revived /\ y.starved = x.starved
        /\ y.resolving = x.resolving /\ y.closing_ = x.closing_
        /\ y.pcb = x.pcb /\ y.inflight = x.inflight
    BY DEF Session
  <2>2. x.reads \in Nat /\ read_encrypted_stream(x) = y
    BY <1>2 DEF Session, read_encrypted_stream
  <2> HIDE DEF y
  <2>3. ReadingInv(y)
    BY <1>2, <2>1, <2>2 DEF UInv, ReadingInv
  <2>4. /\ SmallPackets(y.pending_lwip_)
        /\ ClosedInv(y)
        /\ PausedInv(y)
    BY <2>1 DEF UInv, ClosedInv, PausedInv
  <2> QED BY <2>2, <2>3, <2>4 DEF UInv
<1> QED BY <1>1, <1>2

(* connect_ip in the handler of the only read, or after a lookup.           *)
LEMMA ConnectUpload ==
  ASSUME NEW x \in Session, UInv(x), x.got_target_, ~x.client_read_paused_,
         ~x.by_name => x.reads = 0, x.closing_ => x.revived,
         NEW y \in connect_ip(x)
  PROVE  UInv(y) /\ y.reads = x.reads /\ y.by_name = x.by_name /\ y.got_target_
<1> DEFINE Connected(p, m, w, o) ==
             [x EXCEPT !.pcb = p, !.inflight = m, !.rcv_wnd = w, !.active_self_ = o]
           d == Connected("null", 0, 0, x.active_self_)
           f == Connected("CLOSED", 0, TcpWnd, TRUE)
           g == Connected("SYN_SENT", 0, TcpWnd, TRUE)
           Good(z) == /\ UInv(z) /\ z \in Session /\ z.reads = x.reads
                      /\ z.by_name = x.by_name /\ z.got_target_
<1>1. y = close(d) \/ y = close(f) \/ y = g
  <2>1. DropPcb(x) = d
    BY Zenon DEF DropPcb, Session
  <2>2. [f EXCEPT !.pcb = "SYN_SENT"] = g
    BY Zenon DEF Session
  <2> QED BY Zenon, <2>1, <2>2 DEF connect_ip
<1>2. ASSUME NEW p \in PcbStates, NEW m \in Nat, NEW w \in Nat, NEW o \in BOOLEAN
      PROVE  Good(Connected(p, m, w, o))
  <2> DEFINE z == Connected(p, m, w, o)
  <2>1. z \in Session
    BY Zenon DEF Session
  <2>2. /\ z.reads = x.reads /\ z.pending_lwip_ = x.pending_lwip_
        /\ z.client_read_paused_ = x.client_read_paused_
        /\ z.by_name = x.by_name /\ z.got_target_ = x.got_target_
        /\ z.revived = x.revived /\ z.starved = x.starved
        /\ z.resolving = x.resolving /\ z.closing_ = x.closing_
    BY Zenon DEF Session
  <2> HIDE DEF z
  <2>3. ReadingInv(z)
    BY <2>2 DEF UInv, ReadingInv
  <2>4. /\ SmallPackets(z.pending_lwip_)
        /\ ClosedInv(z)
        /\ PausedInv(z)
    BY <2>2 DEF UInv, ClosedInv, PausedInv
  <2>5. Good(z)
    BY <2>1, <2>2, <2>3, <2>4 DEF UInv
  <2> QED BY <2>5 DEF z
<1>3. TcpWnd \in Nat /\ x.active_self_ \in BOOLEAN
  BY LwipSizes DEF Session
<1>4. ASSUME NEW z \in {d, f, g}
      PROVE  Good(z)
  <2> HIDE DEF Connected, Good
  <2>1. {"null", "CLOSED", "SYN_SENT"} \subseteq PcbStates /\ 0 \in Nat
    BY DEF PcbStates
  <2> QED BY Zenon, <1>2, <1>3, <2>1
<1> HIDE DEF d, f, g
<1>5. ASSUME NEW z \in Session, UInv(z), z.got_target_
      PROVE  /\ UInv(close(z)) /\ close(z).reads = z.reads
             /\ close(z).by_name = z.by_name /\ close(z).got_target_
  <2>1. UInv(close(z)) /\ close(z).reads = z.reads
    BY <1>5, CloseUpload
  <2>2. close(z).by_name = z.by_name /\ close(z).got_target_ = z.got_target_
    BY Zenon DEF close, release_active_self, DropPcb, Session
  <2> QED BY <1>5, <2>1, <2>2
<1> QED BY <1>1, <1>4, <1>5

(* flush_to_lwip leaves nothing queued on an open PCB unless the client is  *)
(* paused, and it pauses only with bytes in flight (or without memory).     *)
LEMMA FlushUpload ==
  ASSUME NEW x, IInv(x), UInv(x),
         ~x.by_name => x.reads = 0 \/ x.pcb = "null" \/ x.pending_lwip_ = <<>>,
         NEW y \in flush_to_lwip(x)
  PROVE  /\ UInv(y) /\ y.reads = x.reads /\ y.by_name = x.by_name
         /\ \/ y.closing_ \/ y.client_read_paused_
            \/ y.pcb = "null" \/ y.pending_lwip_ = <<>>
<1> DEFINE q == x.pending_lwip_
           n == Len(q)
<1>1. /\ x \in Session /\ IsByteQueue(q) /\ q \in Seq(Nat \ {0})
      /\ x.inflight \in Nat /\ x.inflight <= TcpSndBuf
  BY DEF IInv, BaseInv, Typed, Session
<1>2. n \in Nat /\ (n = 0 => q = <<>>)
  BY <1>1
<1>3. x.pcb # "null" => x.got_target_ /\ ~x.resolving
  BY DEF IInv, BaseInv, UnconnectedInv
<1>4. CASE y = x /\ (x.pcb = "null" \/ n = 0)
  BY <1>2, <1>4
<1>5. CASE y = close(x) /\ x.pcb # "null"
  <2>1. close(x).by_name = x.by_name
    BY Zenon, <1>1 DEF close, release_active_self, DropPcb, Session
  <2> QED BY <1>1, <1>3, <1>5, <2>1, CloseUpload
<1>6. ASSUME x.pcb # "null", NEW k \in 0 .. n,
             \/ k = n /\ y = Wrote(x, k)
             \/ /\ k < n
                /\ y = Paused(x, k)
                /\ ~HasRoom(x, k) \/ Wrote(x, k).inflight > 0 \/ AllocFails
      PROVE  /\ UInv(y) /\ y.reads = x.reads /\ y.by_name = x.by_name
             /\ y.client_read_paused_ \/ y.pending_lwip_ = <<>>
  <2> DEFINE r == Drop(q, k)
             e == EndOf(q, k)
             b == IF k = n THEN x.client_read_paused_ ELSE TRUE
             c == IF k = n THEN x.starved
                  ELSE HasRoom(x, k) /\ x.inflight + e = 0
  <2>1. e \in Nat /\ Len(r) = n - k /\ r \in Seq(Nat \ {0})
    <3> HIDE DEF q
    <3> QED BY <1>1, Offsets, DropQueue DEF IsByteQueue
  <2>2. y = [x EXCEPT !.pending_lwip_ = r, !.inflight = x.inflight + e,
                      !.client_read_paused_ = b, !.starved = c]
    <3>1. CASE k = n /\ y = Wrote(x, k)
      <4>1. b = x.client_read_paused_ /\ c = x.starved
        BY <3>1
      <4> HIDE DEF b, c
      <4> QED BY Zenon, <1>1, <3>1, <4>1 DEF Wrote, Session
    <3>2. CASE k < n /\ y = Paused(x, k)
      <4>1. b = TRUE
        BY <1>2, <3>2
      <4>2. c = (HasRoom(x, k) /\ Wrote(x, k).inflight = 0)
        <5>1. k # n
          BY <1>2, <3>2
        <5>2. Wrote(x, k).inflight = x.inflight + e
          BY <1>1 DEF Wrote, Session
        <5> QED BY Zenon, <5>1, <5>2
      <4> HIDE DEF b, c
      <4>3. y = [Wrote(x, k) EXCEPT !.client_read_paused_ = b, !.starved = c]
        BY Zenon, <3>2, <4>1, <4>2 DEF Paused
      <4> QED BY Zenon, <1>1, <4>3 DEF Wrote, Session
    <3> QED BY <1>6, <3>1, <3>2
  <2>3. Wrote(x, k).inflight = x.inflight + e
    BY <1>1 DEF Wrote, Session
  <2> HIDE DEF r, e, b, c
  <2>4. /\ y.reads = x.reads /\ y.pending_lwip_ = r /\ y.inflight = x.inflight + e
        /\ y.client_read_paused_ = b
        /\ y.by_name = x.by_name /\ y.got_target_ = x.got_target_
        /\ y.revived = x.revived /\ y.starved = c
        /\ y.resolving = x.resolving /\ y.closing_ = x.closing_ /\ y.pcb = x.pcb
    BY Zenon, <1>1, <2>2 DEF Session
  <2>5. k = n => r = <<>>
    BY <1>2, <2>1
  <2>6. SmallPackets(r)
    <3> SUFFICES ASSUME NEW i \in 1 .. Len(r) PROVE SizeOf(r, i) <= MaxPayload
      BY DEF SmallPackets
    <3>1. i + k \in 1 .. n /\ i \in 1 .. n - k
      BY <1>2, <2>1
    <3>2. SizeOf(r, i) = SizeOf(q, i + k)
      <4> HIDE DEF q
      <4> QED BY <1>1, <3>1, DropSizes DEF r, n
    <3> QED BY <3>1, <3>2 DEF UInv, SmallPackets
  <2>7. ReadingInv(y)
    <3>1. x.reads > 0 => x.by_name \/ q = <<>>
      BY <1>6, <1>1 DEF Session
    <3>2. q = <<>> => k = n /\ k = 0
      BY <1>2
    <3>3. x.reads \in Nat /\ b \in BOOLEAN
      BY <1>1, Zenon DEF Session, b
    <3>4. k = n => b = x.client_read_paused_
      BY DEF b
    <3>5. /\ y.by_name => y.got_target_
          /\ y.resolving => y.by_name
          /\ y.closing_ /\ ~y.got_target_ => y.reads = 0
          /\ ~y.got_target_ \/ y.resolving => ~y.client_read_paused_
      BY <1>3, <1>6, <2>4 DEF UInv, ReadingInv
    <3>6. ~y.by_name =>
            /\ y.reads <= 1
            /\ y.client_read_paused_ => y.reads = 0
            /\ y.reads > 0 /\ y.pcb # "null" => y.pending_lwip_ = <<>>
      BY <2>4, <2>5, <3>1, <3>2, <3>3, <3>4 DEF UInv, ReadingInv
    <3> QED BY <3>5, <3>6 DEF ReadingInv
  <2>8. PausedInv(y)
    <3> SUFFICES ASSUME b, ~c PROVE x.inflight + e > 0
      BY <2>4 DEF PausedInv
    <3>1. CASE k = n
      BY <1>1, <1>6, <2>1, <3>1 DEF UInv, PausedInv, b, c
    <3>2. CASE k < n
      <4>a. k # n
        BY <1>2, <3>2
      <4>b. ~HasRoom(x, k) \/ x.inflight + e # 0
        BY Zenon, <4>a DEF c
      <4> SUFFICES ASSUME ~HasRoom(x, k) PROVE x.inflight + e > 0
        BY <1>1, <2>1, <4>b
      <4>1. SizeOf(q, k + 1) <= MaxPayload
        BY <1>2, <3>2 DEF UInv, SmallPackets
      <4>2. SizeOf(q, k + 1) \in Nat
        <5>1. k + 1 \in 1 .. n
          BY <1>2, <3>2
        <5> HIDE DEF q
        <5> QED BY <1>1, <5>1, Offsets DEF n
      <4>3. \/ TcpSndBuf - x.inflight - e < SizeOf(q, k + 1)
            \/ TcpSndBuf - x.inflight - e < LwipSndLowWater
        BY <1>1, <2>1, <4>2, LwipSizes DEF HasRoom, e
      <4> DEFINE z == SizeOf(q, k + 1)
      <4>4. /\ z \in Nat /\ z <= MaxPayload /\ x.inflight \in Nat /\ e \in Nat
            /\ TcpSndBuf - x.inflight - e < z
                 \/ TcpSndBuf - x.inflight - e < LwipSndLowWater
        BY Zenon, <1>1, <2>1, <4>1, <4>2, <4>3
      <4> HIDE DEF z
      <4>5. /\ TcpSndBuf \in Nat /\ LwipSndLowWater \in Nat /\ MaxPayload \in Nat
            /\ LwipSndLowWater <= TcpSndBuf /\ MaxPayload <= TcpSndBuf
        BY LwipSizes, ChunkSizes
      <4> QED BY <4>4, <4>5
    <3> QED BY <1>2, <3>1, <3>2
  <2>9. ClosedInv(y)
    BY <2>4 DEF UInv, ClosedInv
  <2>10. y.client_read_paused_ \/ y.pending_lwip_ = <<>>
    BY <1>2, <2>4, <2>5 DEF b
  <2> QED BY <2>4, <2>6, <2>7, <2>8, <2>9, <2>10 DEF UInv
<1>7. \/ y = x /\ (x.pcb = "null" \/ n = 0)
      \/ y = close(x) /\ x.pcb # "null"
      \/ x.pcb # "null"
         /\ \E k \in 0 .. n :
              \/ k = n /\ y = Wrote(x, k)
              \/ /\ k < n
                 /\ y = Paused(x, k)
                 /\ ~HasRoom(x, k) \/ Wrote(x, k).inflight > 0 \/ AllocFails
  BY Zenon, FlushOutcomes
<1>8. CASE x.pcb # "null"
         /\ \E k \in 0 .. n :
              \/ k = n /\ y = Wrote(x, k)
              \/ /\ k < n
                 /\ y = Paused(x, k)
                 /\ ~HasRoom(x, k) \/ Wrote(x, k).inflight > 0 \/ AllocFails
  BY Zenon, <1>6, <1>8
<1> QED BY <1>4, <1>5, <1>7, <1>8

(* Touch marks a session, and changes nothing the upload depends on.        *)
LEMMA TouchUpload ==
  ASSUME NEW x \in Session, UInv(x)
  PROVE  /\ UInv(Touch(x)) /\ Touch(x) \in Session
         /\ Touch(x).reads = x.reads /\ Touch(x).by_name = x.by_name
         /\ Touch(x).closing_ = x.closing_ /\ Touch(x).pcb = x.pcb
         /\ Touch(x).client_read_paused_ = x.client_read_paused_
         /\ Touch(x).pending_lwip_ = x.pending_lwip_
         /\ Touch(x).got_target_ = x.got_target_
<1> DEFINE y == [x EXCEPT !.used_after_free = TRUE]
<1>1. /\ y \in Session /\ y.reads = x.reads /\ y.by_name = x.by_name
      /\ y.closing_ = x.closing_ /\ y.pcb = x.pcb /\ y.inflight = x.inflight
      /\ y.client_read_paused_ = x.client_read_paused_
      /\ y.pending_lwip_ = x.pending_lwip_
      /\ y.revived = x.revived /\ y.starved = x.starved
      /\ y.got_target_ = x.got_target_ /\ y.resolving = x.resolving
  BY Zenon DEF Session
<1>2. Touch(x) = x \/ Touch(x) = y
  BY DEF Touch
<1> HIDE DEF y
<1>3. UInv(y)
  BY <1>1, UploadFrame DEF Carries
<1> QED BY <1>1, <1>2, <1>3

(* maybe_resume_client_read after an acknowledgement: the client stays      *)
(* paused only while the send buffer is short of its low-water mark.        *)
LEMMA ResumeUpload ==
  ASSUME NEW x, IInv(x), ReadingInv(x), SmallPackets(x.pending_lwip_),
         ClosedInv(x), NEW y \in maybe_resume_client_read(x)
  PROVE  UInv(y)
<1>1. x \in Session /\ x.inflight \in Nat
  BY DEF IInv, BaseInv, Typed, Session
<1> DEFINE u == [x EXCEPT !.client_read_paused_ = FALSE]
<1>2. CASE ~x.client_read_paused_ \/ x.pcb = "null"
             \/ TcpSndBuf - x.inflight < LwipSndLowWater
  <2>1. y = x
    BY <1>2 DEF maybe_resume_client_read
  <2>2. PausedInv(x)
    BY <1>1, <1>2, LwipSizes DEF PausedInv
  <2> QED BY <2>1, <2>2 DEF UInv
<1>3. CASE ~(~x.client_read_paused_ \/ x.pcb = "null"
               \/ TcpSndBuf - x.inflight < LwipSndLowWater)
  <2>1. PICK z \in flush_to_lwip(u) : y = read_encrypted_stream(Touch(z))
    BY Zenon, <1>3 DEF maybe_resume_client_read
  <2>2. u \in Session /\ SameQueues(x, u) /\ SamePcb(x, u)
    BY Zenon, <1>1 DEF Session, SameQueues, SamePcb
  <2>3. /\ u.reads = x.reads /\ u.by_name = x.by_name /\ u.closing_ = x.closing_
        /\ u.pcb = x.pcb /\ ~u.client_read_paused_
        /\ u.pending_lwip_ = x.pending_lwip_
        /\ u.revived = x.revived /\ u.starved = x.starved
        /\ u.got_target_ = x.got_target_ /\ u.resolving = x.resolving
    BY <1>1 DEF Session
  <2> HIDE DEF u
  <2>4. IInv(u)
    BY <2>2, Frame
  <2>5. ~u.by_name => u.reads = 0
    BY <1>3, <2>3 DEF ReadingInv
  <2>6. UInv(u)
    <3>1. ReadingInv(u)
      BY <2>3, <2>5 DEF ReadingInv
    <3> QED BY <2>3, <3>1 DEF UInv, ClosedInv, PausedInv
  <2>7. IInv(z)
    BY <2>4, FlushToLwipInv
  <2>8. z \in Session
    BY <2>7 DEF IInv, BaseInv, Typed
  <2>9. /\ UInv(z) /\ z.reads = u.reads /\ z.by_name = u.by_name
        /\ \/ z.closing_ \/ z.client_read_paused_
           \/ z.pcb = "null" \/ z.pending_lwip_ = <<>>
    BY <2>4, <2>5, <2>6, FlushUpload
  <2> QED BY <2>1, <2>5, <2>8, <2>9, TouchUpload, ReadUpload
<1> QED BY <1>2, <1>3

(* Payload is queued while no read is outstanding.                          *)
LEMMA QueuedUpload ==
  ASSUME NEW x, IInv(x), UInv(x), ~x.by_name => x.reads = 0,
         NEW p, IsByteQueue(p), SmallPackets(p)
  PROVE  LET y == [x EXCEPT !.pending_lwip_ = Concat(@, p)]
         IN /\ UInv(y) /\ y.reads = x.reads /\ y.by_name = x.by_name
            /\ y.got_target_ = x.got_target_
<1> DEFINE a == x.pending_lwip_
           q == Concat(a, p)
           y == [x EXCEPT !.pending_lwip_ = Concat(@, p)]
<1>1. x \in Session /\ IsByteQueue(a) /\ x.reads \in Nat
  BY DEF IInv, BaseInv, Typed, Session
<1>2. /\ y.pending_lwip_ = q /\ y.reads = x.reads /\ y.inflight = x.inflight
      /\ y.client_read_paused_ = x.client_read_paused_
      /\ y.by_name = x.by_name /\ y.got_target_ = x.got_target_
      /\ y.revived = x.revived /\ y.starved = x.starved
      /\ y.resolving = x.resolving /\ y.closing_ = x.closing_ /\ y.pcb = x.pcb
  BY Zenon, <1>1 DEF Session
<1> HIDE DEF y
<1>3. SmallPackets(q)
  <2> SUFFICES ASSUME NEW i \in 1 .. Len(q) PROVE SizeOf(q, i) <= MaxPayload
    BY DEF SmallPackets
  <2>1. SmallPackets(a)
    BY DEF UInv
  <2> HIDE DEF a
  <2>2. \/ i \in 1 .. Len(a) /\ SizeOf(q, i) = SizeOf(a, i)
        \/ i - Len(a) \in 1 .. Len(p) /\ SizeOf(q, i) = SizeOf(p, i - Len(a))
    BY <1>1, ConcatSizes
  <2> HIDE DEF q
  <2> QED BY <2>1, <2>2 DEF SmallPackets
<1>4. ReadingInv(y)
  <2>1. ReadingInv(x)
    BY Zenon DEF UInv
  <2> HIDE DEF a, q
  <2> QED BY <1>1, <1>2, <2>1 DEF ReadingInv
<1>5. ClosedInv(y) /\ PausedInv(y)
  BY <1>2 DEF UInv, ClosedInv, PausedInv
<1>6. UInv(y)
  BY <1>2, <1>3, <1>4, <1>5 DEF UInv
<1> QED BY <1>2, <1>6 DEF y

(* The handler of a read begins: for a target given by address it was the   *)
(* only one, and nothing is queued before a PCB.                            *)
LEMMA CompletedUpload ==
  ASSUME NEW x \in Session, UInv(x), x.reads > 0, NEW b \in BOOLEAN
  PROVE  LET y == [x EXCEPT !.reads = @ - 1, !.salted = b]
         IN /\ UInv(y) /\ y \in Session /\ y.got_target_ = x.got_target_
            /\ ~y.by_name => y.reads = 0 /\ (y.pcb = "null" \/ y.pending_lwip_ = <<>>)
            /\ y.got_target_ \/ (y.reads = 0 /\ ~y.closing_)
<1> DEFINE y == [x EXCEPT !.reads = @ - 1, !.salted = b]
<1>1. x.reads \in Nat /\ x.reads - 1 \in Nat
  BY DEF Session
<1>2. /\ y \in Session
      /\ y.pending_lwip_ = x.pending_lwip_ /\ y.reads = x.reads - 1
      /\ y.inflight = x.inflight
      /\ y.client_read_paused_ = x.client_read_paused_
      /\ y.by_name = x.by_name /\ y.got_target_ = x.got_target_
      /\ y.revived = x.revived /\ y.starved = x.starved
      /\ y.resolving = x.resolving /\ y.closing_ = x.closing_ /\ y.pcb = x.pcb
  BY Zenon, <1>1 DEF Session
<1> HIDE DEF y
<1>a. ReadingInv(x)
  BY Zenon DEF UInv
<1>3. ReadingInv(y)
  BY <1>1, <1>2, <1>a DEF ReadingInv
<1>4. /\ SmallPackets(y.pending_lwip_)
      /\ ClosedInv(y)
      /\ PausedInv(y)
  BY <1>2 DEF UInv, ClosedInv, PausedInv
<1>5. /\ ~y.by_name => y.reads = 0 /\ (y.pcb = "null" \/ y.pending_lwip_ = <<>>)
      /\ y.got_target_ \/ (y.reads = 0 /\ ~y.closing_)
  BY <1>1, <1>2, <1>a DEF ReadingInv
<1>6. UInv(y)
  BY <1>3, <1>4 DEF UInv
<1> QED BY <1>2, <1>5, <1>6 DEF y

(* The decrypt loop in the handler of a read.  Only a refused address       *)
(* closes the session before the target is known.                           *)
LEMMA ChunksUpload ==
  ASSUME NEW x, IInv(x), UInv(x), ~x.by_name => x.reads = 0,
         x.got_target_ \/ (x.reads = 0 /\ ~x.closing_),
         NEW refused \in {FALSE, BadTargets}, NEW kind, NEW payload,
         IsByteQueue(payload), SmallPackets(payload),
         x.got_target_ => ~refused /\ kind = "none",
         NEW z \in process_decrypted_chunks(x, refused, kind, payload)
  PROVE  UInv(z) /\ (~z.by_name => z.reads = 0) /\ (z.got_target_ \/ z.reads = 0)
<1> DEFINE b == kind \notin {"none", "domain"}
           v == [x EXCEPT !.revived = b]
           y == IF refused THEN close(v) ELSE x
           g == [y EXCEPT !.got_target_ = TRUE]
           m == [g EXCEPT !.resolving = TRUE, !.by_name = TRUE]
           t == IF kind = "none" THEN {y} ELSE connect_target(g, kind)
<1>1. PICK w \in t : z = [w EXCEPT !.pending_lwip_ = Concat(@, payload)]
  BY Zenon DEF process_decrypted_chunks
<1>2. /\ refused \in BOOLEAN /\ x \in Session /\ b \in BOOLEAN
      /\ refused => ~x.got_target_ /\ x.reads = 0 /\ ~x.closing_
  <2>1. x \in Session
    BY DEF IInv, BaseInv, Typed
  <2>2. refused \in BOOLEAN
    BY Zenon, Inputs
  <2> QED BY <2>1, <2>2
<1> HIDE DEF b
<1>a. /\ v \in Session /\ SameQueues(x, v) /\ SamePcb(x, v)
      /\ v.reads = x.reads /\ v.by_name = x.by_name /\ v.revived = b
      /\ v.starved = x.starved /\ v.inflight = x.inflight
      /\ v.client_read_paused_ = x.client_read_paused_
      /\ v.pending_lwip_ = x.pending_lwip_ /\ v.pcb = x.pcb
      /\ v.got_target_ = x.got_target_ /\ v.resolving = x.resolving
      /\ v.closing_ = x.closing_
  BY Zenon, <1>2 DEF Session, SameQueues, SamePcb
<1> HIDE DEF v
<1>b. IInv(v)
  BY <1>a, Frame
<1>c. refused => UInv(v)
  <2>1. ReadingInv(v)
    BY <1>a DEF UInv, ReadingInv
  <2> QED BY <1>2, <1>a, <2>1 DEF UInv, ClosedInv, PausedInv
<1>3. IInv(y) /\ y \in Session
  <2>1. IInv(y)
    BY <1>b, CloseInv
  <2> QED BY <2>1 DEF IInv, BaseInv, Typed
<1>4. /\ UInv(y) /\ y.reads = x.reads /\ y.by_name = x.by_name
      /\ y.got_target_ = x.got_target_
      /\ y.closing_ => x.closing_ \/ y.revived = b
      /\ y.client_read_paused_ = x.client_read_paused_
  <2>1. /\ close(v).by_name = x.by_name /\ close(v).got_target_ = x.got_target_
        /\ close(v).client_read_paused_ = x.client_read_paused_
        /\ close(v).revived = b
    BY Zenon, <1>a DEF close, release_active_self, DropPcb, Session
  <2>2. refused => UInv(close(v)) /\ close(v).reads = x.reads
    BY <1>2, <1>a, <1>c, CloseUpload
  <2> QED BY <2>1, <2>2
<1> HIDE DEF y
<1>5. /\ IInv(w) /\ UInv(w) /\ (~w.by_name => w.reads = 0)
      /\ w.got_target_ \/ w.reads = 0
  <2>1. CASE kind = "none"
    BY <1>3, <1>4, <2>1
  <2>2. CASE kind # "none"
    <3>1. /\ ~x.got_target_ /\ x.reads = 0 /\ ~x.closing_
          /\ ~y.got_target_ /\ y.reads = 0 /\ (y.closing_ => y.revived = b)
      BY <1>2, <1>4, <2>2
    <3>2. ~y.resolving /\ ~y.by_name /\ ~y.client_read_paused_
      BY <1>3, <1>4, <3>1
         DEF IInv, BaseInv, UnconnectedInv, UInv, ReadingInv
    <3>4. /\ g \in Session /\ g.got_target_ /\ g.reads = y.reads
          /\ g.by_name = y.by_name /\ g.closing_ = y.closing_
          /\ g.client_read_paused_ = y.client_read_paused_
          /\ g.pending_lwip_ = y.pending_lwip_ /\ g.pcb = y.pcb
          /\ g.revived = y.revived /\ g.starved = y.starved
          /\ g.inflight = y.inflight /\ g.resolving = y.resolving
      BY Zenon, <1>3 DEF Session
    <3>5. /\ m.revived = y.revived /\ m.starved = y.starved
          /\ m.reads = y.reads /\ m.by_name /\ m.got_target_ /\ m.resolving
          /\ m.client_read_paused_ = y.client_read_paused_
          /\ m.pending_lwip_ = y.pending_lwip_ /\ m.pcb = y.pcb
          /\ m.inflight = y.inflight /\ m.closing_ = y.closing_
      BY Zenon, <1>3 DEF Session
    <3>6. (w \in connect_ip(g) /\ b) \/ w = m
      BY <2>2 DEF connect_target, b
    <3>7. IInv(w)
      BY <1>3, <2>2, <3>1, LearnedInv
    <3> HIDE DEF g, m
    <3>8. UInv(g)
      <4>1. ReadingInv(g)
        BY <1>4, <3>1, <3>2, <3>4, Zenon DEF UInv, ReadingInv
      <4> QED BY <1>4, <3>4, <4>1 DEF UInv, ClosedInv, PausedInv
    <3>9. UInv(m)
      <4>1. ReadingInv(m)
        BY <3>1, <3>2, <3>5 DEF ReadingInv
      <4> QED BY <1>4, <3>5, <4>1 DEF UInv, ClosedInv, PausedInv
    <3>10. CASE w \in connect_ip(g) /\ b
      BY <3>1, <3>2, <3>4, <3>7, <3>8, <3>10, ConnectUpload
    <3>11. CASE w = m
      BY <3>5, <3>7, <3>9, <3>11
    <3> QED BY <3>6, <3>10, <3>11
  <2> QED BY <2>1, <2>2
<1> HIDE DEF t
<1> QED BY <1>1, <1>5, QueuedUpload

(* handle_client_eof keeps the PCB, shut for sending, or drops it.          *)
LEMMA ClientEofUpload ==
  ASSUME NEW x \in Session, UInv(x), x.got_target_ \/ x.reads = 0
  PROVE  UInv(handle_client_eof(x))
<1> DEFINE y == [x EXCEPT !.client_eof_ = TRUE]
           f == [y EXCEPT !.pcb = "FIN_WAIT"]
           d == release_active_self(DropPcb(y))
           Good(z) == /\ z \in Session /\ UInv(z)
                      /\ z.got_target_ \/ z.reads = 0
<1>1. /\ y \in Session /\ y.reads = x.reads /\ y.by_name = x.by_name
      /\ y.closing_ = x.closing_ /\ y.pcb = x.pcb /\ y.inflight = x.inflight
      /\ y.client_read_paused_ = x.client_read_paused_
      /\ y.pending_lwip_ = x.pending_lwip_
      /\ y.revived = x.revived /\ y.starved = x.starved
      /\ y.got_target_ = x.got_target_ /\ y.resolving = x.resolving
  BY Zenon DEF Session
<1>2. /\ f \in Session /\ f.reads = x.reads /\ f.by_name = x.by_name
      /\ f.closing_ = x.closing_ /\ f.inflight = x.inflight
      /\ f.client_read_paused_ = x.client_read_paused_
      /\ f.pending_lwip_ = x.pending_lwip_
      /\ f.revived = x.revived /\ f.starved = x.starved
      /\ f.got_target_ = x.got_target_ /\ f.resolving = x.resolving
  BY Zenon DEF Session, PcbStates
<1>3. /\ d \in Session /\ d.reads = x.reads /\ d.by_name = x.by_name
      /\ d.closing_ = x.closing_ /\ d.pcb = "null"
      /\ d.client_read_paused_ = x.client_read_paused_
      /\ d.pending_lwip_ = x.pending_lwip_
      /\ d.revived = x.revived /\ d.starved = x.starved
      /\ d.got_target_ = x.got_target_ /\ d.resolving = x.resolving
  BY Zenon DEF Session, PcbStates, release_active_self, DropPcb
<1>4. \E z \in {y, d} \cup (IF y.pcb = "ESTABLISHED" THEN {f} ELSE {}) :
        handle_client_eof(x) \in {z, close(z)}
  BY Zenon DEF handle_client_eof
<1> HIDE DEF y, f, d
<1>5. Good(y) /\ Good(d)
  <2>1. Carries(x, y) /\ Carries(x, d)
    BY <1>1, <1>3 DEF Carries
  <2> QED BY <1>1, <1>3, <2>1, UploadFrame
<1>6. x.pcb = "ESTABLISHED" => Good(f)
  <2>1. x.pcb = "ESTABLISHED" => Carries(x, f)
    BY <1>2 DEF Carries
  <2> QED BY <1>2, <2>1, UploadFrame
<1>7. \A z : Good(z) => UInv(z) /\ UInv(close(z))
  BY CloseUpload
<1> HIDE DEF Good
<1> QED BY <1>1, <1>4, <1>5, <1>6, <1>7

(* handle_remote_fin drops the PCB.                                         *)
LEMMA RemoteFinUpload ==
  ASSUME NEW x \in Session, UInv(x), x.got_target_
  PROVE  UInv(handle_remote_fin(x))
<1> DEFINE d == release_active_self(DropPcb([x EXCEPT !.remote_eof_ = TRUE]))
<1>1. /\ d \in Session /\ d.reads = x.reads /\ d.by_name = x.by_name
      /\ d.closing_ = x.closing_ /\ d.pcb = "null"
      /\ d.client_read_paused_ = x.client_read_paused_
      /\ d.pending_lwip_ = x.pending_lwip_
      /\ d.revived = x.revived /\ d.starved = x.starved
      /\ d.got_target_ = x.got_target_ /\ d.resolving = x.resolving
  BY Zenon DEF Session, PcbStates, release_active_self, DropPcb
<1>2. handle_remote_fin(x) \in {Touch(d), close(Touch(d))}
  BY DEF handle_remote_fin
<1> HIDE DEF d
<1>3. UInv(d)
  BY <1>1, UploadFrame, Zenon DEF Carries
<1> QED BY <1>1, <1>2, <1>3, TouchUpload, CloseUpload, Zenon

(* The session starts with one read, and nothing else.                      *)
LEMMA InitUpload == Init => UInv(s)
BY EmptyQueue DEF Init, NewSession, UInv, ReadingInv, SmallPackets, ClosedInv,
                  PausedInv

(* Every handler keeps what the upload depends on.                          *)
LEMMA StepUpload == IInv(s) /\ UInv(s) /\ [Next]_vars => UInv(s')
<1> SUFFICES ASSUME IInv(s), UInv(s), [Next]_vars PROVE UInv(s')
  OBVIOUS
<1>0. s \in Session /\ s.salted \in BOOLEAN
  BY DEF IInv, BaseInv, Typed, Session
<1>a. s.pcb # "null" \/ s.write # "none" => s.got_target_
  BY DEF IInv, BaseInv, UnconnectedInv, ClientQueueInv
<1> DEFINE r == [s EXCEPT !.reads = @ - 1]
           Begun(y) == /\ UInv(y) /\ y \in Session
                       /\ ~y.by_name => /\ y.reads = 0
                                        /\ y.pcb = "null" \/ y.pending_lwip_ = <<>>
                       /\ y.got_target_ \/ (y.reads = 0 /\ ~y.closing_)
<1>b. ASSUME s.reads > 0, NEW b \in BOOLEAN
      PROVE  Begun([s EXCEPT !.reads = @ - 1, !.salted = b])
  BY <1>0, <1>b, CompletedUpload, Zenon
<1>c. s.reads > 0 => Begun(r)
  <2>1. r = [s EXCEPT !.reads = @ - 1, !.salted = s.salted]
    BY Zenon, <1>0 DEF Session
  <2> HIDE DEF r, Begun
  <2> QED BY Zenon, <1>0, <1>b, <2>1
<1>1. CASE ReadSaltDone
  <2> DEFINE y == [s EXCEPT !.reads = @ - 1, !.salted = TRUE]
  <2>1. s.reads > 0 /\ s' = read_encrypted_stream(y)
    BY <1>1 DEF ReadSaltDone
  <2>2. Begun(y)
    <3> HIDE DEF Begun
    <3> QED BY <1>b, <2>1, Zenon
  <2> HIDE DEF y
  <2> QED BY <2>1, <2>2, ReadUpload
<1>2. CASE ReadSaltFailed
  <2> DEFINE y == [s EXCEPT !.reads = @ - 1, !.salted = TRUE]
  <2>1. s.reads > 0 /\ s' = close(y)
    BY <1>2 DEF ReadSaltFailed
  <2>2. Begun(y)
    <3> HIDE DEF Begun
    <3> QED BY <1>b, <2>1, Zenon
  <2> HIDE DEF y
  <2> QED BY <2>1, <2>2, CloseUpload
<1>3. CASE ReadDone
  <2>1. PICK refused \in {FALSE, BadTargets}, kind \in TargetKinds \cup {"none"},
             payload \in Payloads, throws \in BOOLEAN :
          /\ s.reads > 0
          /\ s.got_target_ => ~refused /\ kind = "none"
          /\ \E x \in process_decrypted_chunks(r, refused, kind, payload) :
               \/ throws /\ s' = close(x)
               \/ ~throws /\ \E y \in flush_to_lwip(x) :
                                s' = read_encrypted_stream(y)
    BY Zenon, <1>3 DEF ReadDone
  <2>2. IInv(r) /\ Begun(r)
    BY <1>c, <2>1, ReadCompletedInv
  <2>3. r.got_target_ = s.got_target_
    BY <1>0 DEF Session
  <2>4. IsByteQueue(payload) /\ SmallPackets(payload) /\ refused \in BOOLEAN
    BY Zenon, Inputs DEF Payloads, SmallPackets
  <2>5. PICK x \in process_decrypted_chunks(r, refused, kind, payload) :
          \/ s' = close(x)
          \/ \E y \in flush_to_lwip(x) : s' = read_encrypted_stream(y)
    BY <2>1
  <2> HIDE DEF r
  <2>6. IInv(x)
    BY <2>1, <2>2, <2>3, <2>4, ChunksInv
  <2>7. UInv(x) /\ (~x.by_name => x.reads = 0) /\ (x.got_target_ \/ x.reads = 0)
    BY <2>1, <2>2, <2>3, <2>4, ChunksUpload, Zenon
  <2>8. x \in Session
    BY <2>6, Zenon DEF IInv, BaseInv, Typed
  <2>9. CASE s' = close(x)
    BY <2>7, <2>8, <2>9, CloseUpload
  <2>10. ASSUME NEW y \in flush_to_lwip(x), s' = read_encrypted_stream(y)
         PROVE  UInv(s')
    <3>1. IInv(y)
      BY <2>6, FlushToLwipInv
    <3>2. y \in Session
      BY <3>1 DEF IInv, BaseInv, Typed
    <3>3. /\ UInv(y) /\ y.reads = x.reads /\ y.by_name = x.by_name
          /\ \/ y.closing_ \/ y.client_read_paused_
             \/ y.pcb = "null" \/ y.pending_lwip_ = <<>>
      BY <2>6, <2>7, FlushUpload
    <3> QED BY <2>7, <2>10, <3>2, <3>3, ReadUpload
  <2> QED BY <2>5, <2>9, <2>10
<1>4. CASE ReadEof
  <2>1. s.reads > 0 /\ s' = handle_client_eof(r)
    BY <1>4 DEF ReadEof
  <2> HIDE DEF r
  <2> QED BY <1>c, <2>1, ClientEofUpload
<1>5. CASE ReadFailed
  <2>1. s.reads > 0 /\ s' = close(r)
    BY <1>5 DEF ReadFailed
  <2> HIDE DEF r
  <2> QED BY <1>c, <2>1, CloseUpload
<1>6. CASE ClientAccepts
  <2> DEFINE y == [s EXCEPT !.write = "done"]
  <2>1. s' = y
    BY <1>6 DEF ClientAccepts
  <2>2. Carries(s, y)
    BY <1>0 DEF Session, Carries
  <2> QED BY <2>1, <2>2, UploadFrame
<1>7. CASE WriteDone
  <2> DEFINE y == flush_to_client(ReturnWindow(PoppedFront(s)))
  <2>1. s' = y
    BY <1>7 DEF WriteDone
  <2>2. Carries(s, y)
    BY <1>0 DEF Session, Carries, flush_to_client, ReturnWindow, PoppedFront
  <2> HIDE DEF y
  <2> QED BY <2>1, <2>2, UploadFrame
<1>8. CASE WriteFailed
  <2> DEFINE y == [s EXCEPT !.write = "none"]
  <2>1. s' = close(y) /\ s.got_target_
    BY <1>8, <1>a DEF WriteFailed
  <2>2. y \in Session /\ Carries(s, y) /\ y.got_target_ = s.got_target_
    BY Zenon, <1>0 DEF Session, Carries
  <2> HIDE DEF y
  <2> QED BY <2>1, <2>2, UploadFrame, CloseUpload, Zenon
<1>9. CASE ResolveDone
  <2> DEFINE x == [s EXCEPT !.resolving = FALSE]
  <2>1. s.resolving /\ (s' = close(x) \/ (~s.closing_ /\ s' \in connect_ip(x)))
    BY Zenon, <1>9 DEF ResolveDone
  <2>2. /\ x \in Session /\ x.reads = s.reads /\ x.by_name = s.by_name
        /\ x.closing_ = s.closing_ /\ x.pcb = s.pcb /\ x.inflight = s.inflight
        /\ x.client_read_paused_ = s.client_read_paused_
        /\ x.pending_lwip_ = s.pending_lwip_
        /\ x.got_target_ = s.got_target_ /\ ~x.resolving
        /\ x.revived = s.revived /\ x.starved = s.starved
    BY Zenon, <1>0 DEF Session
  <2> HIDE DEF x
  <2>3. s.got_target_ /\ s.by_name /\ ~s.client_read_paused_
    BY <2>1 DEF UInv, ReadingInv
  <2>4. UInv(x)
    <3>1. ReadingInv(x)
      BY <2>2, <2>3 DEF UInv, ReadingInv
    <3> QED BY <2>2, <3>1 DEF UInv, ClosedInv, PausedInv
  <2> QED BY <2>1, <2>2, <2>3, <2>4, CloseUpload, ConnectUpload, Zenon
<1>10. CASE on_connected
  <2> DEFINE y == [s EXCEPT !.pcb = "ESTABLISHED"]
  <2>1. s.pcb = "SYN_SENT" /\ s' \in flush_to_lwip(y)
    BY <1>10 DEF on_connected
  <2>2. y \in Session /\ SameQueues(s, y) /\ SamePcb(s, y)
    BY Zenon, <1>0, <2>1 DEF Session, PcbStates, SameQueues, SamePcb
  <2>3. Carries(s, y) /\ y.by_name = s.by_name /\ y.reads = s.reads
    BY <1>0, <2>1 DEF Session, Carries
  <2> HIDE DEF y
  <2>4. IInv(y) /\ UInv(y)
    BY <2>2, <2>3, Frame, UploadFrame
  <2>5. ~y.by_name => y.reads = 0 \/ y.pcb = "null" \/ y.pending_lwip_ = <<>>
    BY <2>2, <2>4 DEF UInv, ReadingInv, Session
  <2> QED BY <2>1, <2>4, <2>5, FlushUpload
<1>11. CASE on_recv
  <2>1. PICK n \in 1 .. TcpWnd :
          /\ s.pcb # "null" /\ n <= s.rcv_wnd
          /\ \/ s' = close(QueueSalt([s EXCEPT !.rcv_wnd = @ - n]))
             \/ s' = Received(enqueue_client_payload(
                                [s EXCEPT !.rcv_wnd = @ - n], n), n)
    BY <1>11 DEF on_recv
  <2> DEFINE v == QueueSalt([s EXCEPT !.rcv_wnd = @ - n])
             y == Received(enqueue_client_payload([s EXCEPT !.rcv_wnd = @ - n], n), n)
  <2>2. Carries(s, close(v))
    BY <1>0, <1>a, <2>1, Zenon DEF Session, Carries, QueueSalt, Queue, close,
                            release_active_self, DropPcb
  <2>3. Carries(s, y)
    <3> DEFINE F == {"reads", "pending_lwip_", "client_read_paused_", "by_name",
                     "got_target_", "resolving", "pcb", "inflight", "closing_",
                     "revived", "starved"}
               Kept(z) == \A f \in F : f \in DOMAIN z /\ z[f] = s[f]
               a == [s EXCEPT !.rcv_wnd = @ - n]
               w == Queue(QueueSalt(a), n + Overhead)
    <3>1. Kept(a)
      BY <1>0 DEF Session
    <3> HIDE DEF a
    <3>2. ASSUME NEW z, Kept(z)
          PROVE  /\ \A m : Kept(Queue(z, m))
                 /\ Kept([z EXCEPT !.sent_response_salt_ = TRUE])
                 /\ Kept(flush_to_client(z)) /\ Kept(Received(z, n))
      BY <3>2 DEF Queue, flush_to_client, Received
    <3> HIDE DEF Kept
    <3>3. Kept(w)
      BY <3>1, <3>2, Zenon DEF QueueSalt
    <3>4. y = Received(flush_to_client(w), n)
      BY DEF enqueue_client_payload, a
    <3> HIDE DEF w, y
    <3>5. Kept(y)
      BY <3>2, <3>3, <3>4, Zenon
    <3> QED BY <3>5 DEF Kept, Carries
  <2> HIDE DEF v, y
  <2> QED BY <2>1, <2>2, <2>3, UploadFrame DEF v, y
<1>12. CASE on_recv_fin
  <2>1. s' = handle_remote_fin(s) /\ s.got_target_
    BY <1>12, <1>a DEF on_recv_fin
  <2> QED BY <1>0, <2>1, RemoteFinUpload
<1>13. CASE on_sent
  <2>1. PICK n \in 1 .. TcpSndBuf :
          /\ n <= s.inflight
          /\ s' \in maybe_resume_client_read([s EXCEPT !.inflight = @ - n])
    BY <1>13 DEF on_sent
  <2> DEFINE y == [s EXCEPT !.inflight = @ - n]
  <2>2. s.inflight \in Nat /\ s.inflight - n \in Nat /\ s.inflight - n < s.inflight
    BY <1>0, <2>1, LwipSizes DEF Session
  <2>3. y \in Session /\ SameQueues(s, y) /\ SamePcb(s, y)
    BY Zenon, <1>0, <2>2 DEF Session, SameQueues, SamePcb
  <2>4. /\ y.reads = s.reads /\ y.by_name = s.by_name
        /\ y.closing_ = s.closing_ /\ y.pcb = s.pcb
        /\ y.client_read_paused_ = s.client_read_paused_
        /\ y.pending_lwip_ = s.pending_lwip_
        /\ y.revived = s.revived /\ y.starved = s.starved
        /\ y.got_target_ = s.got_target_ /\ y.resolving = s.resolving
    BY Zenon, <1>0 DEF Session
  <2>5. s' \in maybe_resume_client_read(y)
    BY <2>1
  <2> HIDE DEF y
  <2>6. IInv(y)
    BY <2>3, Frame
  <2>7. ReadingInv(y)
    BY <2>4 DEF UInv, ReadingInv
  <2>8. SmallPackets(y.pending_lwip_) /\ ClosedInv(y)
    BY <2>4 DEF UInv, ClosedInv
  <2> QED BY <2>5, <2>6, <2>7, <2>8, ResumeUpload
<1>14. CASE on_err
  <2> DEFINE y == close_client_only(DropPcb(s))
  <2>1. s' = y /\ s.got_target_
    BY <1>14, <1>a DEF on_err
  <2>2. Carries(s, y)
    BY <1>0, <2>1, Zenon DEF Session, Carries, close_client_only, release_active_self,
                      DropPcb
  <2> HIDE DEF y
  <2> QED BY <2>1, <2>2, UploadFrame
<1>15. CASE Destroyed \/ UNCHANGED vars
  BY <1>15 DEF Destroyed, vars
<1> QED BY <1>1, <1>2, <1>3, <1>4, <1>5, <1>6, <1>7, <1>8, <1>9, <1>10, <1>11,
           <1>12, <1>13, <1>14, <1>15 DEF Next

\* The inductive invariant of the upload, next to the one above.
UploadInv == Inv /\ UInv(s)

(* Both hold in every reachable state.                                      *)
THEOREM UploadInvariance == Spec => []UploadInv
<1>1. Init => UploadInv
  BY InitInv, InitUpload DEF Inv, UploadInv
<1>2. UploadInv /\ [Next]_vars => UploadInv'
  BY StepInv, StepUpload DEF Inv, UploadInv
<1> QED BY <1>1, <1>2, PTL DEF Spec

(* The client's socket has at most one outstanding read, so read_buf_ is    *)
(* never filled by two: for every payload, pause and resume, when the       *)
(* target was given by address.                                             *)
THEOREM SingleRead == Spec => []OneReadAtATime
<1>1. UploadInv => OneReadAtATime
  BY DEF UploadInv, UInv, ReadingInv, OneReadAtATime
<1> QED BY <1>1, UploadInvariance, PTL

(* Whenever the client is read, everything it sent before is in lwIP's send *)
(* buffer.                                                                  *)
THEOREM UploadHandedOver == Spec => []UploadNeverBehindRead
<1>1. UploadInv => UploadNeverBehindRead
  BY DEF UploadInv, UInv, ReadingInv, UploadNeverBehindRead
<1> QED BY <1>1, UploadInvariance, PTL

(* A closed session has ended its connection to the target, except the one  *)
(* whose decrypt loop went on after a refused address.                      *)
THEOREM ClosedDetached == Spec => []ClosedSessionHasNoPcb
<1>1. UploadInv => ClosedSessionHasNoPcb
  BY DEF UploadInv, UInv, ClosedInv, ClosedSessionHasNoPcb
<1> QED BY <1>1, UploadInvariance, PTL

(* flush_to_lwip pauses a client with nothing in flight only when tcp_write *)
(* has no memory; after every other pause an acknowledgement is due to end  *)
(* it.                                                                      *)
THEOREM PauseEnds == Spec => []PausedAwaitsAck
<1>1. UploadInv => PausedAwaitsAck
  BY DEF UploadInv, UInv, PausedInv, PausedAwaitsAck
<1> QED BY <1>1, UploadInvariance, PTL
=============================================================================
