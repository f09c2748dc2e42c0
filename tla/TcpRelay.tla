------------------------------ MODULE TcpRelay ------------------------------
(***************************************************************************)
(* One TcpRelaySession (src/TcpRelaySession.cpp): the bridge between a     *)
(* Shadowsocks client's socket and an lwIP TCP PCB.                        *)
(*                                                                         *)
(* An instance runs all of a session's handlers on one Asio thread, so a   *)
(* handler (a completion of an Asio operation, or an lwIP callback reached *)
(* from the netif input or from the lwIP timers) is one atomic action; the *)
(* actions interleave in every order the two libraries allow.  The methods *)
(* of the class are operators from a session to the session they leave, or *)
(* to the set of the sessions they may leave, and keep the methods' names. *)
(***************************************************************************)
EXTENDS ByteQueue

CONSTANTS
  ClientQueueHighWater, ClientQueueLowWater, \* thresholds on client_queue_bytes_
  LwipSndLowWater,  \* smallest send buffer at which the client is read
  TcpSndBuf,        \* TCP_SND_BUF of lwipopts.h
  TcpWnd,           \* TCP_WND of lwipopts.h
  SaltSize,         \* bytes of the response salt
  Overhead,         \* bytes an AEAD chunk adds to its payload
  MaxPayload,       \* largest payload of an AEAD chunk (0x3fff)
  TargetKinds,      \* address types the client names: "ip", "domain"
  BadTargets,       \* the client may send an address that does not parse
  AllocFails,       \* tcp_write may run out of memory
  ChunksPerRead,    \* bound: chunks with payload in one read
  MaxPending        \* bound: packets in pending_lwip_

ASSUME WaterMarks ==
  /\ ClientQueueHighWater \in Nat
  /\ ClientQueueLowWater \in 1 .. ClientQueueHighWater
ASSUME LwipSizes ==
  /\ TcpSndBuf \in Nat
  /\ TcpWnd \in Nat
  /\ LwipSndLowWater \in 1 .. TcpSndBuf
ASSUME ChunkSizes ==
  /\ SaltSize \in Nat \ {0}
  /\ Overhead \in Nat
  /\ MaxPayload \in 1 .. TcpSndBuf
ASSUME Inputs ==
  /\ TargetKinds \subseteq {"ip", "domain"}
  /\ BadTargets \in BOOLEAN
  /\ AllocFails \in BOOLEAN
  /\ ChunksPerRead \in Nat
  /\ MaxPending \in Nat

VARIABLE s  \* the session, its PCB and its outstanding operations

vars == <<s>>

-----------------------------------------------------------------------------
(* State.  pcb is "null" when pcb_ is nullptr, else the state of the PCB   *)
(* pcb_ points to ("FIN_WAIT" once tcp_shutdown has queued our FIN).       *)
(* reads counts the outstanding reads of the socket; write is the          *)
(* outstanding async_write: "pending" until the kernel has taken all of    *)
(* its buffer, then "done" until its handler runs, so writing_client_ is   *)
(* write # "none".  The socket is closed exactly when closing_ holds, and  *)
(* its send side is shut exactly when remote_eof_ or closing_ holds.       *)

PcbStates == {"null", "CLOSED", "SYN_SENT", "ESTABLISHED", "FIN_WAIT"}

Session ==
  [ active_self_         : BOOLEAN,
    pcb                  : PcbStates,
    inflight             : Nat,      \* TCP_SND_BUF - tcp_sndbuf(pcb_)
    rcv_wnd              : Nat,      \* window the PCB still offers the target
    salted               : BOOLEAN,  \* read_salt has completed
    reads                : Nat,
    write                : {"none", "pending", "done"},
    resolving            : BOOLEAN,  \* async_resolve owes us a call
    by_name              : BOOLEAN,  \* the target was given as a domain
    pending_lwip_        : Seq(Nat \ {0}),
    pending_client_      : Seq(Nat \ {0}),
    client_queue_bytes_  : Nat,
    deferred_tcp_recved_ : Nat,
    got_target_          : BOOLEAN,
    sent_response_salt_  : BOOLEAN,
    client_read_paused_  : BOOLEAN,
    client_eof_          : BOOLEAN,
    remote_eof_          : BOOLEAN,
    closing_             : BOOLEAN,
    revived              : BOOLEAN,  \* an IP address followed, in one read, one
                                     \* that did not parse (history)
    starved              : BOOLEAN,  \* paused for want of memory, with nothing
                                     \* in flight (history)
    used_after_free      : BOOLEAN ] \* a member was touched after the destructor

\* A session that start() has just set to read the salt.
NewSession ==
  [ active_self_ |-> FALSE, pcb |-> "null", inflight |-> 0, rcv_wnd |-> 0,
    salted |-> FALSE, reads |-> 1, write |-> "none", resolving |-> FALSE,
    by_name |-> FALSE,
    pending_lwip_ |-> <<>>, pending_client_ |-> <<>>,
    client_queue_bytes_ |-> 0, deferred_tcp_recved_ |-> 0,
    got_target_ |-> FALSE, sent_response_salt_ |-> FALSE,
    client_read_paused_ |-> FALSE, client_eof_ |-> FALSE,
    remote_eof_ |-> FALSE, closing_ |-> FALSE, revived |-> FALSE,
    starved |-> FALSE, used_after_free |-> FALSE ]

\* Some shared_ptr to the session exists: in a handler of an outstanding
\* operation, or in active_self_.  Without one the destructor has run.
Owned(x) == x.reads > 0 \/ x.write # "none" \/ x.active_self_

\* A callback that holds no shared_ptr goes on to use the session.
Touch(x) == IF Owned(x) THEN x ELSE [x EXCEPT !.used_after_free = TRUE]

-----------------------------------------------------------------------------
(* The methods of TcpRelaySession. *)

Writable(x) == x.pcb \in {"SYN_SENT", "ESTABLISHED"} \* tcp_write_checks

\* detach_pcb_callbacks, then tcp_close or tcp_abort, then pcb_ = nullptr.
DropPcb(x) == [x EXCEPT !.pcb = "null", !.inflight = 0, !.rcv_wnd = 0]

release_active_self(x) == [x EXCEPT !.active_self_ = FALSE]

\* Variant: close leaves the PCB attached.
closeKeepsPcb(x) ==
  IF x.closing_ THEN x ELSE release_active_self([x EXCEPT !.closing_ = TRUE])

\* Variant: close does not release active_self_.
closeKeepsSelf(x) ==
  IF x.closing_ THEN x ELSE DropPcb([x EXCEPT !.closing_ = TRUE])

close(x) ==
  IF x.closing_ THEN x
  ELSE release_active_self(DropPcb([x EXCEPT !.closing_ = TRUE]))

close_client_only(x) == release_active_self([x EXCEPT !.closing_ = TRUE])

\* Variant: a paused client is read all the same.
readIgnoresPause(x) ==
  IF x.closing_ THEN x ELSE [x EXCEPT !.reads = @ + 1]

read_encrypted_stream(x) ==
  IF x.closing_ \/ x.client_read_paused_ THEN x
  ELSE [x EXCEPT !.reads = @ + 1]

\* Out of memory in tcp_new; an error of tcp_connect; SYN sent.
connect_ip(x) ==
  LET fresh == [x EXCEPT !.pcb = "CLOSED", !.inflight = 0, !.rcv_wnd = TcpWnd,
                         !.active_self_ = TRUE]
  IN { close(DropPcb(x)), close(fresh), [fresh EXCEPT !.pcb = "SYN_SENT"] }

connect_target(x, kind) ==
  IF kind = "domain" THEN { [x EXCEPT !.resolving = TRUE, !.by_name = TRUE] }
  ELSE connect_ip(x)

\* After k writes of the loop the send buffer has room for the next packet
\* and is not below its low-water mark.
HasRoom(x, k) ==
  LET sndbuf == TcpSndBuf - x.inflight - EndOf(x.pending_lwip_, k)
  IN sndbuf >= SizeOf(x.pending_lwip_, k + 1) /\ sndbuf >= LwipSndLowWater

\* The session after the loop has written its first k packets.
Wrote(x, k) ==
  [x EXCEPT !.pending_lwip_ = Drop(@, k),
            !.inflight = @ + EndOf(x.pending_lwip_, k)]

\* It stops before the next packet and pauses the client.  With room for that
\* packet and nothing in flight, the reason was tcp_write's want of memory.
Paused(x, k) ==
  LET y == Wrote(x, k)
  IN [y EXCEPT !.client_read_paused_ = TRUE,
               !.starved = HasRoom(x, k) /\ y.inflight = 0]

\* The loop writes packets while there is room, and stops when the queue is
\* empty, when it must wait for an acknowledgement (the send buffer, or the
\* PCB's segment queue, which can be long only if something is in flight), when
\* tcp_write has no memory, or when tcp_write refuses the PCB's state.
flush_to_lwip(x) ==
  LET n == Len(x.pending_lwip_)
      reached == { k \in 0 .. (IF Writable(x) THEN n ELSE 0) :
                     \A j \in 0 .. k - 1 : HasRoom(x, j) }
      waits(k) == \/ ~HasRoom(x, k)
                  \/ Wrote(x, k).inflight > 0
                  \/ AllocFails /\ Writable(x)
  IN IF x.pcb = "null" \/ n = 0 THEN {x}
     ELSE { Wrote(x, k) : k \in reached \cap {n} }
          \cup { Paused(x, k) : k \in { i \in reached \ {n} : waits(i) } }
          \cup (IF HasRoom(x, 0) /\ ~Writable(x) THEN {close(x)} ELSE {})

\* Variant: every acknowledgement starts a read, paused or not.
resumeUnpaused(x) ==
  IF x.pcb = "null" \/ TcpSndBuf - x.inflight < LwipSndLowWater
  THEN {x}
  ELSE { read_encrypted_stream(Touch(y)) :
           y \in flush_to_lwip([x EXCEPT !.client_read_paused_ = FALSE]) }

maybe_resume_client_read(x) ==
  IF ~x.client_read_paused_ \/ x.pcb = "null"
       \/ TcpSndBuf - x.inflight < LwipSndLowWater
  THEN {x}
  ELSE { read_encrypted_stream(Touch(y)) :
           y \in flush_to_lwip([x EXCEPT !.client_read_paused_ = FALSE]) }

flush_to_client(x) ==
  IF x.write # "none" \/ x.pending_client_ = <<>> THEN x
  ELSE [x EXCEPT !.write = "pending"]

Queue(x, n) ==
  [x EXCEPT !.client_queue_bytes_ = @ + n, !.pending_client_ = Push(@, n)]

\* The salt goes first, once.
QueueSalt(x) ==
  IF x.sent_response_salt_ THEN x
  ELSE [Queue(x, SaltSize) EXCEPT !.sent_response_salt_ = TRUE]

\* Variant: the plain size is counted, the encrypted buffer queued.
enqueuePlainCounted(x, n) ==
  LET y == QueueSalt(x)
  IN flush_to_client([y EXCEPT !.client_queue_bytes_ = @ + n,
                               !.pending_client_ = Push(@, n + Overhead)])

\* encrypt_tcp_chunk throws when n is above MaxPayload: on_recv then closes.
enqueue_client_payload(x, n) ==
  flush_to_client(Queue(QueueSalt(x), n + Overhead))

\* Variant: the session lets go of itself with the half-closed PCB attached.
clientEofReleases(x) ==
  LET y == release_active_self([x EXCEPT !.client_eof_ = TRUE])
      z == IF y.pcb = "ESTABLISHED" THEN [y EXCEPT !.pcb = "FIN_WAIT"]
           ELSE IF y.pcb = "null" THEN y ELSE DropPcb(y)
  IN IF z.remote_eof_ \/ z.pcb = "null" THEN close(z) ELSE z

\* An open PCB is shut down for sending, any other is aborted.  tcp_shutdown
\* does not fail: lwIP retries a FIN it has no memory for.
handle_client_eof(x) ==
  LET y == [x EXCEPT !.client_eof_ = TRUE]
      z == IF y.pcb = "ESTABLISHED" THEN [y EXCEPT !.pcb = "FIN_WAIT"]
           ELSE IF y.pcb = "null" THEN y
           ELSE release_active_self(DropPcb(y))
  IN IF z.remote_eof_ \/ z.pcb = "null" THEN close(z) ELSE z

\* client_eof_ is read after release_active_self, with no shared_ptr held.
handle_remote_fin(x) ==
  LET y == Touch(release_active_self(DropPcb([x EXCEPT !.remote_eof_ = TRUE])))
  IN IF y.client_eof_ THEN close(y) ELSE y

-----------------------------------------------------------------------------
(* Completions of the client socket's operations. *)

\* What one read holds after decryption: an address that does not parse, then
\* a target address, then chunks with payload; decryption may then throw.
Payloads ==
  { q \in UNION { [1 .. n -> 1 .. n * MaxPayload] : n \in 0 .. ChunksPerRead } :
      IsByteQueue(q) /\ \A i \in 1 .. Len(q) : SizeOf(q, i) <= MaxPayload }

\* The loop over decrypt_tcp_chunk.  A refused address closes the session and
\* the loop goes on; payload is queued once the target is known.
process_decrypted_chunks(x, refused, kind, payload) ==
  LET y == IF refused
           THEN close([x EXCEPT !.revived = kind \notin {"none", "domain"}])
           ELSE x
      t == IF kind = "none" THEN {y}
           ELSE connect_target([y EXCEPT !.got_target_ = TRUE], kind)
  IN { [z EXCEPT !.pending_lwip_ = Concat(@, payload)] : z \in t }

ReadSaltDone ==
  /\ s.reads > 0 /\ ~s.salted
  /\ s' = read_encrypted_stream([s EXCEPT !.reads = @ - 1, !.salted = TRUE])

ReadSaltFailed ==
  /\ s.reads > 0 /\ ~s.salted
  /\ s' = close([s EXCEPT !.reads = @ - 1, !.salted = TRUE])

\* A read completes with data; its completion may have been queued before the
\* session was closed.
ReadDone ==
  \E refused \in {FALSE, BadTargets}, kind \in TargetKinds \cup {"none"},
     payload \in Payloads, throws \in BOOLEAN :
    /\ s.reads > 0 /\ s.salted /\ ~s.client_eof_
    /\ s.got_target_ => ~refused /\ kind = "none"
    /\ ~s.got_target_ /\ kind = "none" => payload = <<>>
    /\ Len(s.pending_lwip_) + Len(payload) <= MaxPending
    /\ \E x \in process_decrypted_chunks([s EXCEPT !.reads = @ - 1],
                                         refused, kind, payload) :
         \/ throws /\ s' = close(x)
         \/ ~throws /\ \E y \in flush_to_lwip(x) : s' = read_encrypted_stream(y)

\* End of file or connection reset: every later read meets it again.
ReadEof ==
  /\ s.reads > 0 /\ s.salted
  /\ s' = handle_client_eof([s EXCEPT !.reads = @ - 1])

\* operation_aborted after close, or another error of the socket.
ReadFailed ==
  /\ s.reads > 0 /\ s.salted
  /\ s' = close([s EXCEPT !.reads = @ - 1])

\* The kernel has taken the whole buffer of the outstanding write.
ClientAccepts ==
  /\ s.write = "pending" /\ ~s.closing_ /\ ~s.remote_eof_
  /\ s' = [s EXCEPT !.write = "done"]

\* The session after the write handler has popped the front buffer.
PoppedFront(x) ==
  [x EXCEPT !.write = "none",
            !.client_queue_bytes_ = @ - SizeOf(x.pending_client_, 1),
            !.pending_client_ = Drop(@, 1)]

\* Variant: the deferred bytes are returned but not forgotten.
returnWindowTwice(x) ==
  IF x.pcb # "null" /\ x.client_queue_bytes_ < ClientQueueLowWater
  THEN [x EXCEPT !.rcv_wnd = @ + x.deferred_tcp_recved_]
  ELSE x

\* tcp_recved for all deferred bytes once the backlog is below the low-water
\* mark.
ReturnWindow(x) ==
  IF x.pcb # "null" /\ x.client_queue_bytes_ < ClientQueueLowWater
  THEN [x EXCEPT !.rcv_wnd = @ + x.deferred_tcp_recved_,
                 !.deferred_tcp_recved_ = 0]
  ELSE x

\* Variant: the handler does not start the next write.
WriteDoneStops ==
  /\ s.write = "done"
  /\ s' = ReturnWindow(PoppedFront(s))

WriteDone ==
  /\ s.write = "done"
  /\ s' = flush_to_client(ReturnWindow(PoppedFront(s)))

WriteFailed ==
  /\ s.write = "pending"
  /\ s' = close([s EXCEPT !.write = "none"])

\* The handler of async_resolve, which holds a weak_ptr.
ResolveDone ==
  /\ s.resolving /\ Owned(s)
  /\ LET x == [s EXCEPT !.resolving = FALSE]
     IN s' \in {close(x)} \cup (IF s.closing_ THEN {} ELSE connect_ip(x))

-----------------------------------------------------------------------------
(* lwIP callbacks. *)

on_connected ==
  /\ s.pcb = "SYN_SENT"
  /\ s' \in flush_to_lwip([s EXCEPT !.pcb = "ESTABLISHED"])

\* Variant: the window is returned however long the backlog is.
receivedNeverDefers(x, n) == [x EXCEPT !.rcv_wnd = @ + n]

\* The end of on_recv: n received bytes are deferred or acknowledged.
Received(x, n) ==
  IF x.client_queue_bytes_ > ClientQueueHighWater
  THEN [x EXCEPT !.deferred_tcp_recved_ = @ + n]
  ELSE [x EXCEPT !.rcv_wnd = @ + n]

\* lwIP hands over n bytes, more than one segment when a hole in the sequence
\* space has been filled.  lwIP always passes ERR_OK to recv and connected.
on_recv ==
  \E n \in 1 .. TcpWnd :
    /\ s.pcb \in {"ESTABLISHED", "FIN_WAIT"} /\ n <= s.rcv_wnd
    /\ LET x == [s EXCEPT !.rcv_wnd = @ - n]
       IN s' = IF n > MaxPayload THEN close(QueueSalt(x))
               ELSE Received(enqueue_client_payload(x, n), n)

on_recv_fin ==
  /\ s.pcb \in {"ESTABLISHED", "FIN_WAIT"}
  /\ s' = handle_remote_fin(s)

\* Variant: the callback does not look at the paused client.
on_sentIgnored ==
  \E n \in 1 .. TcpSndBuf :
    /\ s.pcb \in {"ESTABLISHED", "FIN_WAIT"} /\ n <= s.inflight
    /\ s' = [s EXCEPT !.inflight = @ - n]

\* The target acknowledges n bytes.
on_sent ==
  \E n \in 1 .. TcpSndBuf :
    /\ s.pcb \in {"ESTABLISHED", "FIN_WAIT"} /\ n <= s.inflight
    /\ s' \in maybe_resume_client_read([s EXCEPT !.inflight = @ - n])

\* Reset, retransmission limit, or netif address change: the PCB is gone.
on_err ==
  /\ s.pcb \in {"SYN_SENT", "ESTABLISHED", "FIN_WAIT"}
  /\ s' = close_client_only(DropPcb(s))

\* The session has been destroyed, the only state in which it may rest; but one
\* that was closed before tcp_connect failed keeps its PCB, and rests with it.
Destroyed == (~Owned(s) \/ s.pcb = "CLOSED") /\ UNCHANGED s

-----------------------------------------------------------------------------
Init == s = NewSession

Next ==
  \/ ReadSaltDone \/ ReadSaltFailed
  \/ ReadDone \/ ReadEof \/ ReadFailed
  \/ ClientAccepts \/ WriteDone \/ WriteFailed
  \/ ResolveDone
  \/ on_connected \/ on_recv \/ on_recv_fin \/ on_sent \/ on_err
  \/ Destroyed

Spec == Init /\ [][Next]_vars

(* Fairness.  Asio runs every queued completion and completes the operations
   of a closed socket; lwIP gives up on a target that does not answer
   (TCP_SYNMAXRTX, TCP_MAXRTX), so a SYN and bytes in flight are answered or
   the PCB is dropped; async_resolve ends within its timeout.  That a client
   drains its socket, or its connection fails, is the one assumption about
   the outside. *)
Fairness ==
  /\ WF_vars(s.closing_ /\ ReadFailed)
  /\ WF_vars(s.closing_ /\ WriteFailed)
  /\ WF_vars(WriteDone)
  /\ WF_vars(ClientAccepts \/ WriteFailed)
  /\ WF_vars(ResolveDone)
  /\ WF_vars(on_connected \/ (s.pcb = "SYN_SENT" /\ on_err))
  /\ WF_vars(on_sent \/ (s.inflight > 0 /\ on_err))

FairSpec == Spec /\ Fairness

-----------------------------------------------------------------------------
(* Properties. *)

\* Every field has its type, and both queues are queues of non-empty buffers.
TypeOK ==
  /\ s \in Session
  /\ IsByteQueue(s.pending_lwip_)
  /\ IsByteQueue(s.pending_client_)

\* client_queue_bytes_, which decides when the window is withheld and returned,
\* is at all times the number of bytes in pending_client_: no path counts a
\* buffer it does not queue (a throw of encrypt_tcp_chunk between the two), or
\* pops one it did not count.
ClientQueueAccounted == s.client_queue_bytes_ = Bytes(s.pending_client_)

\* The receive window is neither lost nor returned twice: what the PCB offers
\* and what deferred_tcp_recved_ withholds add up to TCP_WND while the PCB is
\* attached to an open session, whatever on_recv, close and the write handler
\* do in between.
WindowConserved ==
  ~s.closing_ /\ s.pcb # "null" => s.rcv_wnd + s.deferred_tcp_recved_ = TcpWnd

\* A withheld window has somebody to return it: while the client's socket is
\* open and the PCB attached, the backlog is still at or above the low-water
\* mark and a write to the client is outstanding, whose handler is the only
\* code that calls tcp_recved for deferred bytes.
WithheldWindowIsReturned ==
  ~s.closing_ /\ s.pcb # "null" /\ s.deferred_tcp_recved_ > 0 =>
    /\ s.client_queue_bytes_ >= ClientQueueLowWater
    /\ s.write # "none"

\* Back-pressure towards the target bounds the memory of a session: the
\* backlog passes the high-water mark by at most what a whole receive window
\* of one-byte segments, each with its chunk overhead, can add.
ClientBacklogBounded ==
  s.client_queue_bytes_ <=
    ClientQueueHighWater + SaltSize + (Overhead + 1) * TcpWnd

\* lwIP never calls back into a destroyed session: while a PCB holds the raw
\* `this` pointer of tcp_arg, active_self_ holds the session.
PcbKeepsSessionAlive == s.pcb # "null" => s.active_self_

\* A closed session holds no PCB: everything that can close it also ends the
\* connection to the target, and nothing connects afterwards.  The exception is
\* exactly the decrypt loop that goes on after a refused address: the next
\* address of the same read connects the closed session.
ClosedSessionHasNoPcb == s.closing_ /\ ~s.revived => s.pcb = "null"

\* read_buf_ belongs to one read at a time, in a session whose target was
\* given by address: pauses and resumes never start a second read.
OneReadAtATime == ~s.by_name => s.reads <= 1

\* While a PCB is attached and the client is being read, nothing that was read
\* before waits in pending_lwip_, again for a target given by address: the
\* upload is never ahead of lwIP by more than one read, and handle_client_eof
\* never shuts a PCB down with upload still queued.
UploadNeverBehindRead ==
  ~s.by_name /\ s.reads > 0 /\ s.pcb # "null" => s.pending_lwip_ = <<>>

\* A paused client has somebody to resume it: bytes are in flight whose
\* acknowledgement will call on_sent, the only code that ends a pause.  The
\* exception is a tcp_write that finds no memory for an idle PCB; a full send
\* buffer or a long segment queue is never the reason of such a pause.
PausedAwaitsAck ==
  s.client_read_paused_ /\ s.pcb # "null" /\ ~s.starved => s.inflight > 0

\* A closed session is destroyed: no reference cycle survives close, whatever
\* is outstanding, unless it went on after a refused address.
ClosedSessionIsDestroyed == s.closing_ /\ ~s.revived ~> ~Owned(s)

\* A withheld window is given back, or the connection ends, also when the client
\* is paused for good by a tcp_write without memory.  Not so in a session that
\* connected after a refused address: its client's socket is closed, and no
\* write handler comes to return the window.
WithheldWindowReopens ==
  s.deferred_tcp_recved_ > 0 ~>
    s.deferred_tcp_recved_ = 0 \/ s.pcb = "null" \/ s.revived

\* A paused client is read again, or the connection ends, unless the pause was
\* for want of memory with nothing in flight, or the session connected after a
\* refused address.
PausedClientResumes ==
  s.client_read_paused_ ~>
    ~s.client_read_paused_ \/ s.pcb = "null" \/ s.starved \/ s.revived

\* The return path delivers what lwIP delivered: when the target's FIN makes
\* the session shut its send side, no payload is still queued for the client.
ResponseDeliveredBeforeShutdown ==
  s.remote_eof_ /\ ~s.closing_ =>
    \/ s.pending_client_ = <<>>
    \/ s.write = "done" /\ Len(s.pending_client_) = 1

\* The session outlives the callback that releases active_self_.
KeptUntilReturn == ~s.used_after_free
=============================================================================
