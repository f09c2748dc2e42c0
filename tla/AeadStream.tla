----------------------------- MODULE AeadStream -----------------------------
(***************************************************************************)
(* The two chunk streams of one Shadowsocks TCP connection: the client's   *)
(* request stream, reassembled from the socket's reads and opened by       *)
(* ShadowsocksAeadSession::decrypt_tcp_chunk, and the reply stream, sealed *)
(* by encrypt_tcp_chunk.  The other end is a conforming client.            *)
(*                                                                         *)
(* A chunk is two sealed parts, the length and the payload; a part is      *)
(* authentic to a reader that has its key and its nonce, so of the cipher  *)
(* only the nonces are kept.  A stream is the ByteQueue of its chunks.     *)
(***************************************************************************)
EXTENDS ByteQueue

CONSTANTS
  Base,        \* values of a byte: 256
  NonceSize,   \* bytes of a nonce: 12
  LenPart,     \* bytes of a sealed length: 2 + TagSize
  TagSize,     \* bytes of a tag
  MaxPayload,  \* 0x3fff
  Sizes,       \* payload sizes the two ends send; above MaxPayload too
  MaxRead,     \* size of read_buf_
  MaxChunks    \* bound: chunks of a stream

ASSUME Bytewise == Base \in Nat \ {0, 1} /\ NonceSize \in Nat \ {0}
ASSUME Parts ==
  /\ LenPart \in Nat \ {0} /\ TagSize \in Nat /\ MaxPayload \in Nat
  /\ Sizes \subseteq Nat /\ MaxRead \in Nat \ {0} /\ MaxChunks \in Nat

VARIABLES
  sent,         \* the request stream, as a queue of chunks
  seals,        \* of each request chunk, its first nonce and its bad part
  peer_nonce,   \* the client's next nonce for its requests
  arrived,      \* request bytes appended to encrypted_in_ so far
  view,         \* request bytes taken out of encrypted_in_ so far
  in_handler,   \* the read handler is in its loop
  opened,       \* chunks handed to process_decrypted_chunk
  recv_nonce_,
  failed,       \* decrypt_tcp_chunk has thrown
  sent_salt_,
  send_nonce_,
  replies,      \* reply chunks sealed
  expected      \* nonce the client opens the next reply chunk with

request == <<sent, seals, peer_nonce>>
reader == <<arrived, view, in_handler, opened, recv_nonce_, failed>>
reply == <<sent_salt_, send_nonce_, replies, expected>>
vars == <<request, reader, reply>>

-----------------------------------------------------------------------------
Digits == 0 .. Base - 1
Nonces == [1 .. NonceSize -> Digits]
ZeroNonce == [i \in 1 .. NonceSize |-> 0]
Seals == [nonce : Nonces, bad : {"none", "length", "payload"}]

\* The counter of the protocol: a little-endian number of NonceSize bytes.
Successor(nonce) ==
  [i \in 1 .. NonceSize |->
     IF \A j \in 1 .. i - 1 : nonce[j] = Base - 1
     THEN (nonce[i] + 1) % Base ELSE nonce[i]]

\* The loop goes on to the next byte when the int `next` is 0.
increment_nonce(nonce) ==
  [i \in 1 .. NonceSize |->
     IF \A j \in 1 .. i - 1 : nonce[j] + 1 = 0
     THEN (nonce[i] + 1) % Base ELSE nonce[i]]

\* What the client seals or opens a chunk with: its nonce and the next one.
AfterChunk(nonce) == Successor(Successor(nonce))

-----------------------------------------------------------------------------
(* The request stream. *)

\* The client seals a chunk of n bytes.  A part whose tag will not verify (the
\* client has another password, the stream was damaged) is bad.
ClientSeals(n) ==
  \E seal \in { x \in Seals : x.nonce = peer_nonce } :
    /\ Len(sent) < MaxChunks /\ n <= MaxPayload
    /\ sent' = Push(sent, LenPart + n + TagSize)
    /\ seals' = Append(seals, seal)
    /\ peer_nonce' = AfterChunk(peer_nonce)
    /\ UNCHANGED <<reader, reply>>

\* A read completes with the next n bytes; the handler enters its loop.
ReadDone(n) ==
  /\ ~in_handler /\ ~failed
  /\ arrived + n <= Bytes(sent)
  /\ arrived' = arrived + n
  /\ in_handler' = TRUE
  /\ UNCHANGED <<request, view, opened, recv_nonce_, failed, reply>>

\* The chunk whose first byte is the first one of encrypted_in_, if the
\* reader is at a chunk boundary; any other bytes authenticate as nothing.
ChunkAt(v) == { k \in 1 .. Len(sent) : EndOf(sent, k - 1) = v }

LenOpens ==
  \E k \in ChunkAt(view) :
    recv_nonce_ = seals[k].nonce /\ seals[k].bad # "length"
PayloadOpens ==
  \E k \in ChunkAt(view) :
    /\ increment_nonce(recv_nonce_) = Successor(seals[k].nonce)
    /\ seals[k].bad # "payload"

HasLen == arrived - view >= LenPart

\* Variant: the end of the chunk is taken to be there.
HasChunkEager == HasLen

\* The bytes `need` of the chunk, known once its length is open.
HasChunk == \E k \in ChunkAt(view) : arrived - view >= SizeOf(sent, k)

\* Variant: the tag of the payload is left in the stream.
chunkLeavesTag ==
  /\ in_handler /\ HasLen /\ LenOpens /\ HasChunk /\ PayloadOpens
  /\ \E k \in ChunkAt(view) : view' = view + SizeOf(sent, k) - TagSize
  /\ opened' = opened + 1
  /\ recv_nonce_' = increment_nonce(increment_nonce(recv_nonce_))
  /\ UNCHANGED <<request, arrived, in_handler, failed, reply>>

\* Variant: one chunk is opened per read, not all of them.
chunkOncePerRead ==
  /\ in_handler /\ HasLen /\ LenOpens /\ HasChunk /\ PayloadOpens
  /\ \E k \in ChunkAt(view) : view' = view + SizeOf(sent, k)
  /\ opened' = opened + 1
  /\ recv_nonce_' = increment_nonce(increment_nonce(recv_nonce_))
  /\ in_handler' = FALSE
  /\ UNCHANGED <<request, arrived, failed, reply>>

\* decrypt_tcp_chunk returns a chunk; the nonce moves on by both parts at once.
decrypt_tcp_chunk ==
  /\ in_handler /\ HasLen /\ LenOpens /\ HasChunk /\ PayloadOpens
  /\ \E k \in ChunkAt(view) : view' = view + SizeOf(sent, k)
  /\ opened' = opened + 1
  /\ recv_nonce_' = increment_nonce(increment_nonce(recv_nonce_))
  /\ UNCHANGED <<request, arrived, in_handler, failed, reply>>

\* Variant: the nonce of an open length is kept when the payload is missing.
partialCommits ==
  /\ in_handler
  /\ ~HasLen \/ (LenOpens /\ ~HasChunk)
  /\ in_handler' = FALSE
  /\ recv_nonce_' = IF HasLen THEN increment_nonce(recv_nonce_) ELSE recv_nonce_
  /\ UNCHANGED <<request, arrived, view, opened, failed, reply>>

\* decrypt_tcp_chunk returns nullopt: trial_nonce is dropped, the handler
\* keeps the rest of the bytes and reads on.
decrypt_nullopt ==
  /\ in_handler
  /\ ~HasLen \/ (LenOpens /\ ~HasChunk)
  /\ in_handler' = FALSE
  /\ UNCHANGED <<request, arrived, view, opened, recv_nonce_, failed, reply>>

\* A tag does not verify: decrypt_tcp_chunk throws and the session closes.
decrypt_throws ==
  /\ in_handler /\ HasLen
  /\ ~LenOpens \/ (HasChunk /\ ~PayloadOpens)
  /\ failed' = TRUE
  /\ in_handler' = FALSE
  /\ UNCHANGED <<request, arrived, view, opened, recv_nonce_, reply>>

-----------------------------------------------------------------------------
(* The reply stream. *)

client_salt ==
  /\ ~sent_salt_
  /\ send_nonce_' = ZeroNonce
  /\ sent_salt_' = TRUE
  /\ UNCHANGED <<request, reader, replies, expected>>

\* Variant: the size is checked after the length has been sealed.
encryptChecksLate(n) ==
  /\ sent_salt_ /\ replies < MaxChunks
  /\ IF n > MaxPayload
     THEN /\ send_nonce_' = increment_nonce(send_nonce_)
          /\ UNCHANGED <<replies, expected>>
     ELSE /\ send_nonce_' = increment_nonce(increment_nonce(send_nonce_))
          /\ replies' = replies + 1
          /\ expected' = AfterChunk(expected)
  /\ UNCHANGED <<request, reader, sent_salt_>>

\* A payload that is too large throws before anything is sealed.
encrypt_tcp_chunk(n) ==
  /\ sent_salt_ /\ replies < MaxChunks
  /\ IF n > MaxPayload
     THEN UNCHANGED <<send_nonce_, replies, expected>>
     ELSE /\ send_nonce_' = increment_nonce(increment_nonce(send_nonce_))
          /\ replies' = replies + 1
          /\ expected' = AfterChunk(expected)
  /\ UNCHANGED <<request, reader, sent_salt_>>

-----------------------------------------------------------------------------
\* set_client_salt has keyed the request stream.
Init ==
  /\ sent = <<>> /\ seals = <<>> /\ peer_nonce = ZeroNonce
  /\ arrived = 0 /\ view = 0 /\ in_handler = FALSE /\ opened = 0
  /\ recv_nonce_ = ZeroNonce /\ failed = FALSE
  /\ sent_salt_ = FALSE /\ send_nonce_ = ZeroNonce
  /\ replies = 0 /\ expected = ZeroNonce

Next ==
  \/ \E n \in Sizes : ClientSeals(n) \/ encrypt_tcp_chunk(n)
  \/ \E n \in 1 .. MaxRead : ReadDone(n)
  \/ decrypt_tcp_chunk \/ decrypt_nullopt \/ decrypt_throws
  \/ client_salt

Spec == Init /\ [][Next]_vars

\* The handler's loop runs to its end, and bytes of the client arrive.
FairSpec ==
  /\ Spec
  /\ WF_vars(decrypt_tcp_chunk \/ decrypt_nullopt \/ decrypt_throws)
  /\ WF_vars(\E n \in 1 .. MaxRead : ReadDone(n))

-----------------------------------------------------------------------------
\* Every variable has its type: what was read was sent, and the reader has
\* taken out of encrypted_in_ no more than was put in.
TypeOK ==
  /\ IsByteQueue(sent) /\ seals \in Seq(Seals)
  /\ Len(seals) = Len(sent) /\ peer_nonce \in Nonces
  /\ arrived \in 0 .. Bytes(sent) /\ view \in 0 .. arrived
  /\ opened \in 0 .. Len(sent)
  /\ recv_nonce_ \in Nonces /\ send_nonce_ \in Nonces /\ expected \in Nonces
  /\ in_handler \in BOOLEAN /\ failed \in BOOLEAN /\ sent_salt_ \in BOOLEAN
  /\ replies \in 0 .. MaxChunks

\* However the socket cuts the stream, the reader stands at the end of the
\* last chunk it opened, and it opens only chunks that authenticate.
ReaderAtBoundary ==
  /\ view = EndOf(sent, opened)
  /\ \A k \in 1 .. opened : seals[k].bad = "none"

\* A client that follows the protocol and knows the password is never turned
\* away: decrypt_tcp_chunk throws only at a bad chunk.
HonestStreamOpens ==
  failed => opened < Len(sent) /\ seals[opened + 1].bad # "none"

\* The client can open every reply: the session's nonce is the one it expects,
\* a refused payload included.
RepliesInStep == send_nonce_ = expected

\* Every good chunk is opened in the end, unless a bad one comes before it.
RequestsDelivered ==
  \A k \in 1 .. MaxChunks :
    (Len(sent) >= k /\ \A j \in 1 .. k : seals[j].bad = "none") ~> opened >= k
=============================================================================
