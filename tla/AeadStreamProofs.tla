-------------------------- MODULE AeadStreamProofs --------------------------
(***************************************************************************)
(* Proofs about AeadStream for all sizes, reads and numbers of chunks.     *)
(***************************************************************************)
EXTENDS AeadStream, SequenceTheorems, TLAPS

-----------------------------------------------------------------------------
(* The bytes sent, as a queue of chunks. *)

(* Every prefix of a queue ends at a natural offset, later ones further out,  *)
(* and a queue holds no byte exactly when it is empty.                        *)
LEMMA Offsets ==
  ASSUME NEW q, IsByteQueue(q)
  PROVE  /\ Len(q) \in Nat
         /\ \A k \in 0 .. Len(q) : EndOf(q, k) \in Nat
         /\ \A k \in 1 .. Len(q) : EndOf(q, k) > 0 /\ SizeOf(q, k) \in Nat \ {0}
         /\ \A j, k \in 0 .. Len(q) : j < k => EndOf(q, j) < EndOf(q, k)
         /\ Bytes(q) \in Nat
         /\ q = <<>> <=> Len(q) = 0
         /\ Bytes(q) = 0 <=> q = <<>>
<1>1. Len(q) \in Nat /\ q \in Seq(Nat \ {0})
  BY DEF IsByteQueue
<1>2. \A k \in 1 .. Len(q) : q[k] \in Nat \ {0}
  BY <1>1
<1>3. \A k \in 0 .. Len(q) : EndOf(q, k) \in Nat
  BY <1>1, <1>2 DEF EndOf
<1>4. \A k \in 1 .. Len(q) : EndOf(q, k) > 0
  BY <1>1, <1>2 DEF EndOf
<1>5. \A j, k \in 0 .. Len(q) : j < k => EndOf(q, j) < EndOf(q, k)
  BY <1>1, <1>2 DEF EndOf, IsByteQueue
<1>6. \A k \in 1 .. Len(q) : SizeOf(q, k) \in Nat \ {0}
  <2> TAKE k \in 1 .. Len(q)
  <2>1. k - 1 \in 0 .. Len(q) /\ k \in 0 .. Len(q) /\ k - 1 < k
    BY <1>1
  <2> QED BY <2>1, <1>3, <1>5 DEF SizeOf
<1>7. q = <<>> <=> Len(q) = 0
  BY <1>1
<1>8. Bytes(q) \in Nat /\ (Bytes(q) = 0 <=> Len(q) = 0)
  BY <1>1, <1>3, <1>4 DEF Bytes, EndOf
<1> QED BY <1>1, <1>3, <1>4, <1>5, <1>6, <1>7, <1>8

(* Every buffer ends within the bytes of its queue. *)
LEMMA OffsetsBounded ==
  ASSUME NEW q, IsByteQueue(q)
  PROVE  \A i \in 1 .. Len(q) : q[i] \in Nat \ {0} /\ q[i] <= Bytes(q)
<1>1. Len(q) \in Nat /\ q \in Seq(Nat \ {0})
  BY DEF IsByteQueue
<1> TAKE i \in 1 .. Len(q)
<1>2. q[i] \in Nat \ {0} /\ q[Len(q)] \in Nat \ {0} /\ Bytes(q) = q[Len(q)]
  BY <1>1 DEF Bytes, EndOf
<1>3. i < Len(q) => q[i] < q[Len(q)]
  BY <1>1 DEF IsByteQueue
<1> QED BY <1>1, <1>2, <1>3

(* The empty deque. *)
LEMMA EmptyQueue == IsByteQueue(<<>>) /\ Bytes(<<>>) = 0
BY DEF IsByteQueue, Bytes, EndOf

(* push_back adds the bytes of the buffer it queues. *)
LEMMA PushQueue ==
  ASSUME NEW q, IsByteQueue(q), NEW n \in Nat \ {0}
  PROVE  /\ IsByteQueue(Push(q, n))
         /\ Bytes(Push(q, n)) = Bytes(q) + n
         /\ Push(q, n) # <<>>
<1>1. Len(q) \in Nat /\ q \in Seq(Nat \ {0}) /\ Bytes(q) \in Nat
  BY Offsets DEF IsByteQueue
<1> DEFINE p == Push(q, n)
<1>2. /\ p \in Seq(Nat \ {0}) /\ Len(p) = Len(q) + 1
      /\ p[Len(q) + 1] = Bytes(q) + n
      /\ \A i \in 1 .. Len(q) : p[i] = q[i]
  BY <1>1 DEF Push
<1>3. \A i \in 1 .. Len(q) : q[i] \in Nat /\ q[i] <= Bytes(q)
  BY OffsetsBounded
<1> HIDE DEF p
<1>4. \A i, j \in 1 .. Len(p) : i < j => p[i] < p[j]
  <2> SUFFICES ASSUME NEW i \in 1 .. Len(q) + 1, NEW j \in 1 .. Len(q) + 1, i < j
               PROVE  p[i] < p[j]
    BY <1>2
  <2>1. i \in 1 .. Len(q) /\ p[i] = q[i]
    <3> DEFINE l == Len(q)
    <3> HIDE DEF l
    <3>1. l \in Nat /\ i \in 1 .. l + 1 /\ j \in 1 .. l + 1
      BY <1>1 DEF l
    <3>2. i \in 1 .. l
      BY <3>1
    <3> QED BY <3>2, <1>2 DEF l
  <2>2. CASE j = Len(q) + 1
    <3>1. p[j] = Bytes(q) + n /\ q[i] \in Nat /\ q[i] <= Bytes(q)
      BY <2>1, <2>2, <1>2, <1>3
    <3> QED BY <3>1, <2>1, <1>1
  <2>3. CASE j \in 1 .. Len(q)
    BY <2>1, <2>3, <1>2 DEF IsByteQueue
  <2> QED BY <2>2, <2>3, <1>1
<1>5. Bytes(p) = Bytes(q) + n
  <2>1. Bytes(p) = p[Len(q) + 1]
    BY <1>1, <1>2 DEF Bytes, EndOf
  <2> QED BY <2>1, <1>2
<1>6. p # <<>>
  BY <1>1, <1>2
<1>7. IsByteQueue(p)
  BY <1>2, <1>4 DEF IsByteQueue
<1> QED BY <1>5, <1>6, <1>7 DEF p

-----------------------------------------------------------------------------
(* Nonces. *)

(* Both counters stay counters. *)
LEMMA NonceTypes ==
  ASSUME NEW nonce \in Nonces
  PROVE  increment_nonce(nonce) \in Nonces /\ Successor(nonce) \in Nonces
<1>1. \A x \in Digits : (x + 1) % Base \in Digits
  BY Bytewise DEF Digits
<1>2. \A i \in 1 .. NonceSize : nonce[i] \in Digits
  BY DEF Nonces
<1> QED BY <1>1, <1>2 DEF increment_nonce, Successor, Nonces

\* The nonce after m steps, as long as the first byte does not wrap.
Count(m) == [i \in 1 .. NonceSize |-> IF i = 1 THEN m ELSE 0]

(* One step of either counter below the wrap of the first byte. *)
LEMMA Step ==
  ASSUME NEW m \in Nat, m + 1 < Base
  PROVE  increment_nonce(Count(m)) = Count(m + 1) /\ Successor(Count(m)) = Count(m + 1)
<1>1. (m + 1) % Base = m + 1
  BY Bytewise
<1>2. \A i \in 1 .. NonceSize : i # 1 => 1 \in 1 .. i - 1
  BY Bytewise
<1>3. \A i \in 1 .. NonceSize :
        /\ Count(m)[i] = IF i = 1 THEN m ELSE 0
        /\ 1 \in 1 .. NonceSize /\ Count(m)[1] = m
  BY Bytewise DEF Count
<1>4. m + 1 # 0 /\ m # Base - 1
  BY Bytewise
<1>5. \A i \in 1 .. NonceSize : increment_nonce(Count(m))[i] = IF i = 1 THEN m + 1 ELSE 0
  BY <1>1, <1>2, <1>3, <1>4 DEF increment_nonce
<1>6. \A i \in 1 .. NonceSize : Successor(Count(m))[i] = IF i = 1 THEN m + 1 ELSE 0
  BY <1>1, <1>2, <1>3, <1>4 DEF Successor
<1> QED BY <1>5, <1>6 DEF increment_nonce, Successor, Count

(* Two steps, the nonces of a chunk. *)
LEMMA TwoSteps ==
  ASSUME NEW m \in Nat, m + 2 < Base
  PROVE  /\ increment_nonce(Count(m)) = Successor(Count(m))
         /\ increment_nonce(increment_nonce(Count(m))) = Count(m + 2)
         /\ AfterChunk(Count(m)) = Count(m + 2)
<1>1. m + 1 < Base /\ m + 1 \in Nat /\ (m + 1) + 1 < Base /\ (m + 1) + 1 = m + 2
  BY Bytewise
<1> QED BY <1>1, Step DEF AfterChunk

-----------------------------------------------------------------------------
(* The request stream and its reader. *)

StreamInv ==
  /\ IsByteQueue(sent) /\ seals \in Seq(Seals) /\ Len(seals) = Len(sent)
  /\ peer_nonce \in Nonces

ReaderInv ==
  /\ arrived \in 0 .. Bytes(sent) /\ view \in 0 .. arrived
  /\ opened \in 0 .. Len(sent) /\ recv_nonce_ \in Nonces
  /\ ReaderAtBoundary

(* Bytes that were not taken out yet begin the chunk after the last one opened,
   and no other chunk.                                                       *)
LEMMA NextChunk ==
  ASSUME StreamInv, ReaderInv, HasLen
  PROVE  opened < Len(sent) /\ ChunkAt(view) = {opened + 1}
<1>1. /\ Len(sent) \in Nat /\ Bytes(sent) \in Nat /\ Bytes(sent) = EndOf(sent, Len(sent))
      /\ \A k \in 0 .. Len(sent) : EndOf(sent, k) \in Nat
      /\ \A j, k \in 0 .. Len(sent) : j < k => EndOf(sent, j) < EndOf(sent, k)
  BY Offsets DEF StreamInv, Bytes
<1>2. view < Bytes(sent) /\ view = EndOf(sent, opened) /\ opened \in 0 .. Len(sent)
  BY <1>1, Parts DEF ReaderInv, ReaderAtBoundary, HasLen
<1>3. opened < Len(sent)
  BY <1>1, <1>2
<1>4. opened + 1 \in 1 .. Len(sent) /\ (opened + 1) - 1 = opened
  BY <1>1, <1>2, <1>3
<1>5. ASSUME NEW k \in 1 .. Len(sent), EndOf(sent, k - 1) = view
      PROVE  k = opened + 1
  <2>1. k - 1 \in 0 .. Len(sent)
    BY <1>1
  <2>2. ~(k - 1 < opened) /\ ~(opened < k - 1)
    BY <2>1, <1>1, <1>2, <1>5
  <2> QED BY <2>1, <2>2, <1>1, <1>2
<1> QED BY <1>2, <1>3, <1>4, <1>5 DEF ChunkAt

(* A chunk sealed by the client goes behind those that are there. *)
LEMMA SealsKeep ==
  ASSUME StreamInv, ReaderInv, NEW n \in Sizes, ClientSeals(n)
  PROVE  /\ StreamInv' /\ ReaderInv'
         /\ Len(sent') = Len(sent) + 1 /\ seals'[Len(sent')].nonce = peer_nonce
         /\ \A k \in 1 .. Len(sent) : seals'[k] = seals[k]
<1> DEFINE size == LenPart + n + TagSize
<1>1. size \in Nat \ {0}
  BY Parts
<1>2. PICK seal \in Seals :
        /\ seal.nonce = peer_nonce /\ sent' = Push(sent, size)
        /\ seals' = Append(seals, seal) /\ peer_nonce' = AfterChunk(peer_nonce)
        /\ UNCHANGED <<arrived, view, opened, recv_nonce_>>
  BY DEF ClientSeals, reader
<1> HIDE DEF size
<1>3. /\ IsByteQueue(sent') /\ Bytes(sent') = Bytes(sent) + size /\ Bytes(sent) \in Nat
  BY <1>1, <1>2, PushQueue, Offsets DEF StreamInv
<1>4. /\ Len(sent) \in Nat /\ Len(sent') = Len(sent) + 1
      /\ \A k \in 1 .. Len(sent) : sent'[k] = sent[k]
  BY <1>2 DEF StreamInv, IsByteQueue, Push
<1>5. /\ seals' \in Seq(Seals) /\ Len(seals') = Len(seals) + 1
      /\ seals'[Len(seals) + 1] = seal
      /\ \A k \in 1 .. Len(seals) : seals'[k] = seals[k]
  BY <1>2 DEF StreamInv
<1>6. peer_nonce' \in Nonces
  BY <1>2, NonceTypes DEF StreamInv, AfterChunk
<1>7. StreamInv'
  BY <1>3, <1>4, <1>5, <1>6 DEF StreamInv
<1>8. view' = EndOf(sent', opened') /\ opened' \in 0 .. Len(sent')
  BY <1>2, <1>4 DEF ReaderInv, ReaderAtBoundary, EndOf
<1>9. \A k \in 1 .. opened' : seals'[k].bad = "none"
  BY <1>2, <1>4, <1>5 DEF ReaderInv, ReaderAtBoundary, StreamInv
<1>10. arrived' \in 0 .. Bytes(sent') /\ view' \in 0 .. arrived' /\ recv_nonce_' \in Nonces
  BY <1>1, <1>2, <1>3 DEF ReaderInv
<1>11. ReaderInv'
  BY <1>8, <1>9, <1>10 DEF ReaderInv, ReaderAtBoundary
<1>12. seals'[Len(sent')].nonce = peer_nonce /\ \A k \in 1 .. Len(sent) : seals'[k] = seals[k]
  BY <1>2, <1>4, <1>5 DEF StreamInv
<1> QED BY <1>4, <1>7, <1>11, <1>12

(* A chunk is opened whole: the reader moves to its end. *)
LEMMA OpensKeep ==
  ASSUME StreamInv, ReaderInv, decrypt_tcp_chunk
  PROVE  StreamInv' /\ ReaderInv' /\ opened < Len(sent)
<1> DEFINE k == opened + 1
<1>1. opened < Len(sent) /\ ChunkAt(view) = {k}
  BY NextChunk DEF decrypt_tcp_chunk
<1>2. /\ Len(sent) \in Nat /\ k \in 1 .. Len(sent) /\ k - 1 = opened
      /\ EndOf(sent, k) \in Nat /\ EndOf(sent, opened) \in Nat
      /\ EndOf(sent, opened) < EndOf(sent, k)
  <2>1. /\ Len(sent) \in Nat /\ \A j \in 0 .. Len(sent) : EndOf(sent, j) \in Nat
        /\ \A j, l \in 0 .. Len(sent) : j < l => EndOf(sent, j) < EndOf(sent, l)
    BY Offsets DEF StreamInv
  <2>2. k \in 1 .. Len(sent) /\ k - 1 = opened /\ k \in 0 .. Len(sent)
        /\ opened \in 0 .. Len(sent) /\ opened < k
    BY <2>1, <1>1 DEF ReaderInv
  <2> QED BY <2>1, <2>2
<1> HIDE DEF k
<1>3. /\ arrived - view >= SizeOf(sent, k) /\ view' = view + SizeOf(sent, k)
      /\ seals[k].bad # "length" /\ seals[k].bad # "payload"
  BY <1>1 DEF decrypt_tcp_chunk, HasChunk, LenOpens, PayloadOpens
<1>4. opened' = k /\ UNCHANGED <<sent, seals, peer_nonce, arrived>>
  BY DEF decrypt_tcp_chunk, request, k
<1>5. recv_nonce_' \in Nonces
  BY NonceTypes DEF decrypt_tcp_chunk, ReaderInv
<1>6. view' = EndOf(sent, k) /\ view' \in 0 .. arrived
  <2>1. SizeOf(sent, k) = EndOf(sent, k) - EndOf(sent, opened)
    BY <1>2 DEF SizeOf
  <2>2. view = EndOf(sent, opened) /\ arrived \in Nat
    BY <1>2, Offsets DEF ReaderInv, ReaderAtBoundary, StreamInv
  <2> QED BY <1>2, <1>3, <2>1, <2>2
<1>7. seals[k].bad = "none"
  <2>1. seals[k] \in Seals
    BY <1>2 DEF StreamInv
  <2> QED BY <1>3, <2>1 DEF Seals
<1>8. \A j \in 1 .. k : seals[j].bad = "none"
  <2>1. \A j \in 1 .. k : j = k \/ j \in 1 .. opened
    BY <1>2
  <2> QED BY <1>7, <2>1 DEF ReaderInv, ReaderAtBoundary
<1>9. StreamInv'
  BY <1>4 DEF StreamInv
<1> QED BY <1>1, <1>2, <1>4, <1>5, <1>6, <1>8, <1>9 DEF ReaderInv, ReaderAtBoundary

\* The reply stream, and the flags.
ReplyInv ==
  send_nonce_ \in Nonces /\ expected \in Nonces /\ replies \in 0 .. MaxChunks

FlagInv == in_handler \in BOOLEAN /\ failed \in BOOLEAN /\ sent_salt_ \in BOOLEAN

Inv == StreamInv /\ ReaderInv /\ ReplyInv /\ FlagInv

(* The steps that open nothing and seal no request leave the stream and the
   place of the reader alone.                                               *)
LEMMA QuietKeeps ==
  ASSUME StreamInv, ReaderInv,
         \/ \E n \in 1 .. MaxRead : ReadDone(n)
         \/ decrypt_nullopt \/ decrypt_throws \/ client_salt
         \/ \E n \in Sizes : encrypt_tcp_chunk(n)
         \/ UNCHANGED vars
  PROVE  StreamInv' /\ ReaderInv'
<1>1. /\ UNCHANGED <<sent, seals, peer_nonce, view, opened, recv_nonce_>>
      /\ \/ UNCHANGED arrived
         \/ \E n \in 1 .. MaxRead : arrived' = arrived + n /\ arrived + n <= Bytes(sent)
  BY DEF ReadDone, decrypt_nullopt, decrypt_throws, client_salt, encrypt_tcp_chunk, vars,
    request, reader
<1>2. arrived' \in 0 .. Bytes(sent) /\ view \in 0 .. arrived'
  BY <1>1, Offsets, Parts DEF StreamInv, ReaderInv
<1>3. StreamInv'
  BY <1>1 DEF StreamInv
<1> QED BY <1>1, <1>2, <1>3 DEF ReaderInv, ReaderAtBoundary

(* The reply stream's members keep their types, and so do the flags. *)
LEMMA ReplyKeeps ==
  ASSUME ReplyInv, [Next]_vars
  PROVE  ReplyInv'
<1>1. ZeroNonce \in Nonces
  BY Bytewise DEF ZeroNonce, Nonces, Digits
<1>2. ASSUME NEW n \in Sizes, encrypt_tcp_chunk(n)
      PROVE  ReplyInv'
  <2>1. CASE n > MaxPayload
    BY <1>2, <2>1 DEF encrypt_tcp_chunk, ReplyInv
  <2>2. CASE ~(n > MaxPayload)
    <3>1. /\ send_nonce_' = increment_nonce(increment_nonce(send_nonce_))
          /\ expected' = Successor(Successor(expected))
          /\ replies < MaxChunks /\ replies' = replies + 1
      BY <1>2, <2>2 DEF encrypt_tcp_chunk, AfterChunk
    <3>2. replies' \in 0 .. MaxChunks
      BY <3>1, Parts DEF ReplyInv
    <3> QED BY <3>1, <3>2, NonceTypes DEF ReplyInv
  <2> QED BY <2>1, <2>2
<1>3. CASE client_salt
  BY <1>1, <1>3 DEF client_salt, ReplyInv
<1>4. CASE UNCHANGED <<send_nonce_, expected, replies>>
  BY <1>4 DEF ReplyInv
<1> QED
  BY <1>2, <1>3, <1>4 DEF Next, vars, reply, ClientSeals, ReadDone, decrypt_tcp_chunk,
    decrypt_nullopt, decrypt_throws

\* No step changes the type of the flags of the two ends.
LEMMA FlagsKeep ==
  ASSUME FlagInv, [Next]_vars
  PROVE  FlagInv'
<1>1. /\ in_handler' \in {in_handler, TRUE, FALSE} /\ failed' \in {failed, TRUE}
      /\ sent_salt_' \in {sent_salt_, TRUE}
  BY Zenon DEF Next, vars, request, reader, reply, ClientSeals, ReadDone, decrypt_tcp_chunk,
    decrypt_nullopt, decrypt_throws, client_salt, encrypt_tcp_chunk
<1> QED BY <1>1, Zenon DEF FlagInv

(* The initial states have the invariant and every step keeps it. *)
LEMMA InvHolds == Spec => []Inv
<1>1. Init => Inv
  <2> SUFFICES ASSUME Init PROVE Inv
    OBVIOUS
  <2>1. ZeroNonce \in Nonces
    BY Bytewise DEF ZeroNonce, Nonces, Digits
  <2>2. StreamInv /\ Bytes(sent) = 0
    BY <2>1, EmptyQueue DEF Init, StreamInv
  <2>3. ReaderInv
    BY <2>1, <2>2 DEF Init, ReaderInv, ReaderAtBoundary, EndOf
  <2>4. ReplyInv
    BY <2>1, Parts DEF Init, ReplyInv
  <2>5. FlagInv
    BY Zenon DEF Init, FlagInv
  <2> QED BY <2>2, <2>3, <2>4, <2>5 DEF Inv
<1>2. Inv /\ [Next]_vars => Inv'
  <2> SUFFICES ASSUME Inv, [Next]_vars PROVE Inv'
    OBVIOUS
  <2>1. StreamInv' /\ ReaderInv'
    BY SealsKeep, OpensKeep, QuietKeeps DEF Inv, Next
  <2> QED BY <2>1, ReplyKeeps, FlagsKeep DEF Inv
<1> QED BY <1>1, <1>2, PTL DEF Spec

(* Every variable has its type; what decrypt_tcp_chunk takes out of
   encrypted_in_ was put in.                                                *)
THEOREM TypeCorrect == Spec => []TypeOK
<1>1. Inv => TypeOK
  BY DEF Inv, StreamInv, ReaderInv, ReplyInv, FlagInv, TypeOK
<1> QED BY <1>1, InvHolds, PTL

(* However reads cut the stream, decrypt_tcp_chunk stands at the end of a chunk
   and has opened only good ones; no bound on chunks or nonces is needed.    *)
THEOREM Boundary == Spec => []ReaderAtBoundary
<1>1. Inv => ReaderAtBoundary
  BY DEF Inv, ReaderInv
<1> QED BY <1>1, InvHolds, PTL

-----------------------------------------------------------------------------
(* Streams on which the first byte of no nonce wraps. *)

NoWrap == 2 * MaxChunks < Base

\* The nonces count the chunks, on both ends; nothing is sealed before the salt.
CountInv ==
  /\ Len(sent) <= MaxChunks /\ peer_nonce = Count(2 * Len(sent))
  /\ \A k \in 1 .. Len(sent) : seals[k].nonce = Count(2 * (k - 1))
  /\ recv_nonce_ = Count(2 * opened)
  /\ send_nonce_ = Count(2 * replies) /\ expected = Count(2 * replies)
  /\ sent_salt_ \/ replies = 0

\* The reader stops for good at a bad chunk, and only there.
HonestInv == HonestStreamOpens /\ ~(failed /\ in_handler)

(* The nonces of a chunk that is not the last one of the longest stream. *)
LEMMA ChunkNonces ==
  ASSUME NoWrap, NEW n \in Nat, n < MaxChunks
  PROVE  /\ increment_nonce(Count(2 * n)) = Successor(Count(2 * n))
         /\ increment_nonce(increment_nonce(Count(2 * n))) = Count(2 * (n + 1))
         /\ AfterChunk(Count(2 * n)) = Count(2 * (n + 1))
<1>1. 2 * n \in Nat /\ 2 * n + 2 < Base /\ 2 * n + 2 = 2 * (n + 1)
  BY Bytewise, Parts DEF NoWrap
<1> QED BY <1>1, TwoSteps

(* A step moves each counter by one chunk. *)
LEMMA CountStep ==
  ASSUME NoWrap, Inv, CountInv, [Next]_vars
  PROVE  CountInv'
<1>0. Len(sent) \in Nat /\ opened \in 0 .. Len(sent) /\ replies \in 0 .. MaxChunks
  BY Offsets DEF Inv, StreamInv, ReaderInv, ReplyInv
<1>1. ASSUME NEW n \in Sizes, ClientSeals(n)
      PROVE  CountInv'
  <2>1. /\ Len(sent') = Len(sent) + 1 /\ seals'[Len(sent')].nonce = peer_nonce
        /\ \A k \in 1 .. Len(sent) : seals'[k] = seals[k]
    BY <1>1, SealsKeep DEF Inv
  <2>2. /\ Len(sent) < MaxChunks /\ peer_nonce' = AfterChunk(peer_nonce)
        /\ UNCHANGED <<recv_nonce_, opened, send_nonce_, expected, replies, sent_salt_>>
    BY <1>1 DEF ClientSeals, reader, reply
  <2>3. peer_nonce' = Count(2 * Len(sent'))
    BY <1>0, <2>1, <2>2, ChunkNonces DEF CountInv
  <2>4. \A k \in 1 .. Len(sent') : seals'[k].nonce = Count(2 * (k - 1))
    <3> TAKE k \in 1 .. Len(sent')
    <3>1. CASE k = Len(sent')
      <4>1. k - 1 = Len(sent)
        BY <3>1, <2>1, <1>0
      <4> QED BY <3>1, <4>1, <2>1 DEF CountInv
    <3>2. CASE k # Len(sent')
      <4>1. k \in 1 .. Len(sent)
        BY <3>2, <2>1, <1>0
      <4> QED BY <4>1, <2>1 DEF CountInv
    <3> QED BY <3>1, <3>2
  <2>5. Len(sent') <= MaxChunks
    BY <1>0, <2>1, <2>2, Parts
  <2> QED BY <2>2, <2>3, <2>4, <2>5 DEF CountInv
<1>2. CASE decrypt_tcp_chunk
  <2>1. /\ opened < Len(sent) /\ opened' = opened + 1
        /\ recv_nonce_' = increment_nonce(increment_nonce(recv_nonce_))
        /\ UNCHANGED <<sent, seals, peer_nonce, send_nonce_, expected, replies, sent_salt_>>
    BY <1>2, OpensKeep DEF Inv, decrypt_tcp_chunk, request, reply
  <2>2. opened \in Nat /\ opened < MaxChunks
    BY <1>0, <2>1, Parts DEF CountInv
  <2>3. recv_nonce_' = Count(2 * opened')
    BY <2>1, <2>2, ChunkNonces DEF CountInv
  <2> QED BY <2>1, <2>3 DEF CountInv
<1>3. ASSUME NEW n \in Sizes, encrypt_tcp_chunk(n)
      PROVE  CountInv'
  <2>1. /\ UNCHANGED <<sent, seals, peer_nonce, recv_nonce_, opened, sent_salt_>>
        /\ sent_salt_ /\ replies < MaxChunks
    BY <1>3 DEF encrypt_tcp_chunk, request, reader
  <2>2. CASE n > MaxPayload
    BY <1>3, <2>1, <2>2 DEF encrypt_tcp_chunk, CountInv
  <2>3. CASE ~(n > MaxPayload)
    <3>1. /\ send_nonce_' = increment_nonce(increment_nonce(send_nonce_))
          /\ expected' = AfterChunk(expected) /\ replies' = replies + 1
      BY <1>3, <2>3 DEF encrypt_tcp_chunk
    <3>2. send_nonce_' = Count(2 * replies') /\ expected' = Count(2 * replies')
      BY <1>0, <2>1, <3>1, ChunkNonces DEF CountInv
    <3> QED BY <2>1, <3>2 DEF CountInv
  <2> QED BY <2>2, <2>3
<1>4. CASE client_salt
  <2>1. ZeroNonce = Count(2 * 0)
    BY Bytewise DEF ZeroNonce, Count
  <2> QED BY <1>4, <2>1 DEF client_salt, request, reader, CountInv
<1>5. CASE UNCHANGED <<request, opened, recv_nonce_, reply>>
  BY <1>5 DEF request, reply, CountInv
<1> QED
  BY <1>1, <1>2, <1>3, <1>4, <1>5 DEF Next, vars, reader, ReadDone, decrypt_nullopt,
    decrypt_throws

(* A good chunk opens: its nonces are those the reader has counted to. *)
LEMMA HonestStep ==
  ASSUME NoWrap, Inv, CountInv, HonestInv, [Next]_vars
  PROVE  HonestInv'
<1>0. /\ Len(sent) \in Nat /\ opened \in 0 .. Len(sent)
      /\ seals \in Seq(Seals) /\ Len(seals) = Len(sent)
  BY Offsets DEF Inv, StreamInv, ReaderInv
<1>1. CASE decrypt_throws
  <2> DEFINE k == opened + 1
  <2>1. opened < Len(sent) /\ ChunkAt(view) = {k}
    BY <1>1, NextChunk DEF Inv, decrypt_throws
  <2>2. k \in 1 .. Len(sent) /\ k - 1 = opened /\ opened \in Nat /\ opened < MaxChunks
    BY <1>0, <2>1, Parts DEF CountInv
  <2>3. recv_nonce_ = seals[k].nonce
    BY <2>2 DEF CountInv
  <2>4. increment_nonce(recv_nonce_) = Successor(seals[k].nonce)
    BY <2>2, <2>3, ChunkNonces DEF CountInv
  <2> HIDE DEF k
  <2>5. seals[k].bad # "none"
    BY <1>1, <2>1, <2>3, <2>4 DEF decrypt_throws, LenOpens, PayloadOpens
  <2>6. failed' /\ ~in_handler' /\ UNCHANGED <<sent, seals, opened>>
    BY <1>1 DEF decrypt_throws, request
  <2> QED BY <2>1, <2>5, <2>6 DEF HonestInv, HonestStreamOpens, k
<1>2. ASSUME NEW n \in Sizes, ClientSeals(n)
      PROVE  HonestInv'
  <2>1. /\ Len(sent') = Len(sent) + 1
        /\ \A k \in 1 .. Len(sent) : seals'[k] = seals[k]
    BY <1>2, SealsKeep DEF Inv
  <2>2. UNCHANGED <<opened, failed, in_handler>>
    BY <1>2 DEF ClientSeals, reader
  <2>3. opened < Len(sent) => opened + 1 \in 1 .. Len(sent) /\ opened < Len(sent')
    BY <1>0, <2>1
  <2> QED BY <2>1, <2>2, <2>3 DEF HonestInv, HonestStreamOpens
<1>3. CASE decrypt_tcp_chunk \/ decrypt_nullopt \/ \E n \in 1 .. MaxRead : ReadDone(n)
  <2>1. ~failed /\ UNCHANGED failed
    BY <1>3 DEF decrypt_tcp_chunk, decrypt_nullopt, ReadDone, HonestInv
  <2> QED BY <2>1 DEF HonestInv, HonestStreamOpens
<1>4. CASE UNCHANGED <<request, reader>>
  BY <1>4 DEF request, reader, HonestInv, HonestStreamOpens
<1> QED BY <1>1, <1>2, <1>3, <1>4 DEF Next, vars, client_salt, encrypt_tcp_chunk

\* While no nonce wraps round, every count is the number of chunks behind it,
\* and a stream nobody alters opens.
LEMMA CountHolds ==
  ASSUME NoWrap
  PROVE  Spec => [](CountInv /\ HonestInv)
<1>1. Init => CountInv /\ HonestInv
  <2>1. ZeroNonce = Count(2 * 0)
    BY Bytewise DEF ZeroNonce, Count
  <2> QED BY <2>1, Parts DEF Init, CountInv, HonestInv, HonestStreamOpens
<1>2. Inv /\ CountInv /\ HonestInv /\ [Next]_vars => CountInv' /\ HonestInv'
  BY CountStep, HonestStep
<1> QED BY <1>1, <1>2, InvHolds, PTL DEF Spec

(* As long as the first byte of the nonce does not wrap, decrypt_tcp_chunk
   throws only at a bad chunk: no conforming client is turned away.  The run
   aead_carry shows that the condition cannot be dropped.                   *)
THEOREM Opens == ASSUME NoWrap PROVE Spec => []HonestStreamOpens
<1>1. HonestInv => HonestStreamOpens
  BY DEF HonestInv
<1> QED BY <1>1, CountHolds, PTL

(* Under the same condition encrypt_tcp_chunk seals with the nonces the client
   counts to, refused payloads included.                                    *)
THEOREM Replies == ASSUME NoWrap PROVE Spec => []RepliesInStep
<1>1. CountInv => RepliesInStep
  BY DEF CountInv, RepliesInStep
<1> QED BY <1>1, CountHolds, PTL
=============================================================================
