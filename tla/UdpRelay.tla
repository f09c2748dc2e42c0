------------------------------ MODULE UdpRelay ------------------------------
(***************************************************************************)
(* UdpRelaySession: one Shadowsocks UDP socket, and one lwIP PCB per       *)
(* client endpoint and target.  Everything runs on the instance's Asio     *)
(* thread; a completion that is queued already is not recalled by a        *)
(* cancel, a re-arm or a close that comes before its handler.              *)
(***************************************************************************)
EXTENDS Integers

CONSTANTS
  Keys,          \* mapping keys: client endpoint, target host and port
  Kinds,         \* Kinds[k]: the address types a target of key k comes with
  MaxDatagrams,  \* bound: datagrams from clients
  MaxQueued      \* bound: expiries of one key whose handlers have not run

ASSUME KeyKinds == Kinds \in [Keys -> SUBSET {"ip", "domain"}]
ASSUME Bounds == MaxDatagrams \in Nat /\ MaxQueued \in Nat \ {0}

VARIABLE u  \* the session

vars == <<u>>

Session ==
  [ running_  : BOOLEAN,
    owned     : BOOLEAN,               \* ShadowsocksInbound::udp_ points to it
    receive   : {"none", "pending", "done", "aborted"},  \* holds the session
    alive     : BOOLEAN,               \* not destroyed
    mappings_ : SUBSET Keys,
    type      : [Keys -> {"ip", "domain"}],  \* Mapping::target.type
    pcbs      : [Keys -> Nat],         \* PCBs whose argument is a mapping of the key
    armed     : SUBSET Keys,           \* idle timers that wait
    queued    : [Keys -> 0 .. MaxQueued],    \* expired: the handler is queued
    resolving : [Keys -> 0 .. MaxDatagrams], \* lookups not answered yet
    asked     : SUBSET (Keys \X {"ip", "domain"}),  \* how clients named targets
    replied   : SUBSET (Keys \X {"ip", "domain"}),  \* how replies named them
    datagrams : 0 .. MaxDatagrams ]

\* Constructed by ShadowsocksInbound::start and not started yet.
Fresh ==
  [ running_ |-> FALSE, owned |-> TRUE, receive |-> "none", alive |-> TRUE,
    mappings_ |-> {}, type |-> [k \in Keys |-> "ip"],
    pcbs |-> [k \in Keys |-> 0], armed |-> {},
    queued |-> [k \in Keys |-> 0], resolving |-> [k \in Keys |-> 0],
    asked |-> {}, replied |-> {}, datagrams |-> 0 ]

-----------------------------------------------------------------------------
(* The session's methods. *)

\* Variant: running_ is not looked at.
receiveAlways(x) == [x EXCEPT !.receive = "pending"]

receive_loop(x) == [x EXCEPT !.receive = IF x.running_ THEN "pending" ELSE "none"]

\* stop(): closing the socket aborts the receive, unless its completion is
\* queued already; a mapping's timer goes with the mapping.
stop(x) ==
  [x EXCEPT !.running_ = FALSE,
            !.mappings_ = {}, !.armed = {},
            !.pcbs = [k \in Keys |-> IF k \in x.mappings_ THEN @[k] - 1 ELSE @[k]],
            !.receive = IF @ = "pending" THEN "aborted" ELSE @]

\* Variant: the destructor does not stop the session.
destroyOnly(x) ==
  IF x.owned \/ x.receive # "none" THEN x ELSE [x EXCEPT !.alive = FALSE]

\* The last owner is gone: ~UdpRelaySession.
Release(x) ==
  IF x.owned \/ x.receive # "none" THEN x
  ELSE [stop(x) EXCEPT !.alive = FALSE]

\* mapping_for when udp_new_pcb succeeds.
mapping_for(x, k, type) ==
  IF k \in x.mappings_ THEN x
  ELSE [x EXCEPT !.mappings_ = @ \cup {k}, !.pcbs[k] = @ + 1, !.type[k] = type]

\* expires_after cancels the wait it replaces, not a queued completion.
arm_idle_timer(x, k) == [x EXCEPT !.armed = @ \cup {k}]

\* Variant: the timer is armed after the send, which may give up first.
sendBeforeArm(x, k, type) ==
  { mapping_for(x, k, type), arm_idle_timer(mapping_for(x, k, type), k), x }

\* The session after send_payload_to_ip, one per outcome of udp_new_pcb: the
\* exception for a missing PCB is caught and changes nothing.
send_payload_to_ip(x, k, type) ==
  { arm_idle_timer(mapping_for(x, k, type), k) }
  \cup (IF k \in x.mappings_ THEN {} ELSE {x})

\* Variant: the PCB is not removed.
eraseKeepsPcb(x, k) ==
  IF k \notin x.mappings_ THEN x
  ELSE [x EXCEPT !.mappings_ = @ \ {k}, !.armed = @ \ {k}]

erase_mapping(x, k) ==
  IF k \notin x.mappings_ THEN x
  ELSE [x EXCEPT !.mappings_ = @ \ {k}, !.armed = @ \ {k}, !.pcbs[k] = @ - 1]

-----------------------------------------------------------------------------
(* Handlers and calls. *)

start ==
  /\ u = Fresh
  /\ u' = receive_loop([u EXCEPT !.running_ = TRUE])

\* ShadowsocksInbound::stop: stop(), then udp_.reset().
Stop ==
  /\ u.owned /\ u.running_
  /\ u' = Release([stop(u) EXCEPT !.owned = FALSE])

\* A datagram (or a socket error) completes the receive.
ReceiveCompletes ==
  /\ u.receive = "pending" /\ u.datagrams < MaxDatagrams
  /\ u' = [u EXCEPT !.receive = "done", !.datagrams = @ + 1]

\* The receive's handler: a socket error, the abort, or a datagram that does
\* not decrypt, has no address or an address that does not parse.
ReceiveNothing ==
  /\ u.receive \in {"done", "aborted"}
  /\ u' = Release(receive_loop(u))

\* A datagram for an IP address.  running_ is not looked at: the handler may
\* have been queued before stop().
ReceiveIp(k) ==
  /\ u.receive = "done" /\ "ip" \in Kinds[k]
  /\ \E x \in send_payload_to_ip([u EXCEPT !.asked = @ \cup {<<k, "ip">>}], k, "ip") :
       u' = Release(receive_loop(x))

\* A datagram for a domain: the lookup keeps the payload, not the session.
ReceiveDomain(k) ==
  /\ u.receive = "done" /\ "domain" \in Kinds[k]
  /\ u' = Release(receive_loop([u EXCEPT !.asked = @ \cup {<<k, "domain">>},
                                         !.resolving[k] = @ + 1]))

\* The lookup's handler: nothing on failure, on a session that is gone, or
\* with the token stop() invalidated.
Resolved(k) ==
  /\ u.resolving[k] > 0
  /\ LET x == [u EXCEPT !.resolving[k] = @ - 1]
     IN \/ u' = x
        \/ /\ u.alive /\ u.running_
           /\ u' \in send_payload_to_ip(x, k, "domain")

TimerExpires(k) ==
  /\ k \in u.armed /\ u.queued[k] < MaxQueued
  /\ u' = [u EXCEPT !.armed = @ \ {k}, !.queued[k] = @ + 1]

\* The handler of a wait that was not cancelled knows only the key.
TimerHandler(k) ==
  /\ u.queued[k] > 0
  /\ LET x == [u EXCEPT !.queued[k] = @ - 1]
     IN u' = IF u.alive THEN erase_mapping(x, k) ELSE x

\* Variant: replies always carry the sender's address.
replyByAddress(x, k) == [x EXCEPT !.replied = @ \cup {<<k, "ip">>}]

\* A reply names the target by domain iff the mapping's target does.
send_to_client(x, k) == [x EXCEPT !.replied = @ \cup {<<k, x.type[k]>>}]

on_udp_recv(k) ==
  /\ u.pcbs[k] > 0
  /\ u' = send_to_client(u, k)

Init == u = Fresh

Next ==
  \/ start \/ Stop \/ ReceiveCompletes \/ ReceiveNothing
  \/ \E k \in Keys :
       \/ ReceiveIp(k) \/ ReceiveDomain(k) \/ Resolved(k)
       \/ TimerExpires(k) \/ TimerHandler(k) \/ on_udp_recv(k)

Spec == Init /\ [][Next]_vars

\* Asio runs what is queued and timers expire; a lookup is answered, by its
\* own timer at the latest.
Handlers ==
  \/ ReceiveNothing
  \/ \E k \in Keys : ReceiveIp(k) \/ ReceiveDomain(k)

FairSpec ==
  /\ Spec
  /\ WF_vars(Handlers)
  /\ \A k \in Keys :
       WF_vars(Resolved(k)) /\ WF_vars(TimerExpires(k)) /\ WF_vars(TimerHandler(k))

-----------------------------------------------------------------------------
\* The session's members have their types.
TypeOK == u \in Session

\* lwIP never holds a PCB whose argument is a mapping that was freed, and a
\* mapping has its one PCB: on every path that makes or drops either.
PcbArgumentOwned ==
  \A k \in Keys : u.pcbs[k] = IF k \in u.mappings_ THEN 1 ELSE 0

\* No mapping is without an expiry to come, however re-arms, stale expiries
\* and re-creations of its key interleave.
MappingIsTimed ==
  \A k \in u.mappings_ : k \in u.armed \/ u.queued[k] > 0

\* A stopped session keeps no mapping, though a receive that completes after
\* stop() may still make one (a lookup that ends then is stopped by its own
\* test of running_).
StoppedHoldsNothing == ~u.running_ => u.mappings_ = {} /\ u.armed = {}

\* A client sees a target named the way some client named it: a domain is
\* not answered with an address nobody asked for.
RepliesAsAsked == u.replied \subseteq u.asked

\* When traffic ends every mapping is erased.
MappingsExpire == \A k \in Keys : k \in u.mappings_ ~> k \notin u.mappings_

\* A session that was stopped is destroyed: no queued work owns it for ever.
StoppedIsDestroyed == ~u.owned ~> ~u.alive
=============================================================================
