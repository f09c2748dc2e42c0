------------------------------ MODULE ByteQueue ------------------------------
(***************************************************************************)
(* A FIFO of byte buffers, the std::deque<PacketBuffer> members of         *)
(* TcpRelaySession (pending_lwip_ and pending_client_).                    *)
(*                                                                         *)
(* The contents of a buffer never matter to the relay's control flow, its  *)
(* size does, so a queue is the strictly increasing sequence of the        *)
(* offsets at which its buffers end: <<3, 5>> is a buffer of 3 bytes       *)
(* followed by one of 2.  The number of queued bytes is then the last      *)
(* offset, and no operator here needs a recursive sum.                     *)
(***************************************************************************)
EXTENDS Integers, Sequences

IsByteQueue(q) ==
  /\ q \in Seq(Nat \ {0})
  /\ \A i, j \in 1 .. Len(q) : i < j => q[i] < q[j]

\* The offset at which the first k buffers end: the bytes they hold.
EndOf(q, k) == IF k = 0 THEN 0 ELSE q[k]

Bytes(q) == EndOf(q, Len(q))

\* The size of the k-th buffer.
SizeOf(q, k) == EndOf(q, k) - EndOf(q, k - 1)

\* emplace_back/push_back of a buffer of n bytes.
Push(q, n) == Append(q, Bytes(q) + n)

\* The buffers of r queued, in order, behind those of q.
Concat(q, r) ==
  [i \in 1 .. Len(q) + Len(r) |->
     IF i <= Len(q) THEN q[i] ELSE Bytes(q) + r[i - Len(q)]]

\* k times pop_front.
Drop(q, k) == [i \in 1 .. Len(q) - k |-> q[i + k] - EndOf(q, k)]
=============================================================================
