--------------------------- MODULE UdpRelayProofs ---------------------------
(***************************************************************************)
(* Proofs about UdpRelay for every set of keys and all bounds.             *)
(*                                                                         *)
(* As in TcpRelayProofs the inductive invariant is a predicate of the      *)
(* session record, with one lemma per method.                              *)
(***************************************************************************)
EXTENDS UdpRelay, TLAPS

\* The part about mappings, PCBs and timers.
MappingInv(x) ==
  /\ \A k \in Keys : x.pcbs[k] = IF k \in x.mappings_ THEN 1 ELSE 0
  /\ \A k \in x.mappings_ : k \in x.armed \/ x.queued[k] > 0
  /\ \A k \in x.mappings_ : <<k, x.type[k]>> \in x.asked

\* What a lookup under way was asked for, and how many there are.
LookupInv(x) ==
  /\ x.replied \subseteq x.asked
  /\ \A k \in Keys : x.resolving[k] > 0 => <<k, "domain">> \in x.asked
  /\ \A k \in Keys : x.resolving[k] <= x.datagrams

\* Inside a handler, before the receive is renewed and the session released.
Base(x) == x \in Session /\ MappingInv(x) /\ LookupInv(x)

\* A stopped session holds nothing; one that still has a receive to finish
\* has no other owner, so the end of that receive destroys it.
LifeInv(x) ==
  /\ ~x.running_ => x.mappings_ = {} /\ x.armed = {}
  /\ ~x.running_ /\ x.receive # "none" => ~x.owned
  /\ ~x.alive => ~x.running_ /\ x.receive = "none" /\ ~x.owned
  /\ x.receive = "done" => \A k \in Keys : x.resolving[k] < x.datagrams

IInv(x) == Base(x) /\ LifeInv(x)

Inv == IInv(u)

-----------------------------------------------------------------------------
(* stop() leaves no mapping and no PCB. *)
LEMMA StopBase ==
  ASSUME NEW x, Base(x)
  PROVE  LET y == stop(x)
         IN /\ Base(y) /\ ~y.running_ /\ y.mappings_ = {} /\ y.armed = {}
            /\ y.owned = x.owned /\ y.alive = x.alive
            /\ y.resolving = x.resolving /\ y.datagrams = x.datagrams
            /\ y.receive = IF x.receive = "pending" THEN "aborted" ELSE x.receive
<1> DEFINE p == [k \in Keys |-> IF k \in x.mappings_ THEN x.pcbs[k] - 1 ELSE x.pcbs[k]]
           r == IF x.receive = "pending" THEN "aborted" ELSE x.receive
           y == [x EXCEPT !.running_ = FALSE, !.mappings_ = {}, !.armed = {},
                          !.pcbs = p, !.receive = r]
<1>1. x \in Session
  BY DEF Base
<1>2. /\ p \in [Keys -> Nat]
      /\ \A k \in Keys : p[k] = 0
  BY <1>1 DEF Base, MappingInv, Session
<1>3. r \in {"none", "pending", "done", "aborted"}
  BY <1>1 DEF Session
<1>4. stop(x) = y
  BY <1>1 DEF stop, Session
<1> HIDE DEF p, r
<1>5. /\ y \in Session
      /\ ~y.running_ /\ y.mappings_ = {} /\ y.armed = {} /\ y.pcbs = p
      /\ y.receive = r /\ y.owned = x.owned /\ y.alive = x.alive
      /\ y.resolving = x.resolving /\ y.datagrams = x.datagrams
      /\ y.asked = x.asked /\ y.replied = x.replied
  BY <1>1, <1>2, <1>3, Zenon DEF Session
<1> HIDE DEF y
<1>6. MappingInv(y) /\ LookupInv(y)
  BY <1>2, <1>5 DEF Base, MappingInv, LookupInv
<1> QED BY <1>4, <1>5, <1>6 DEF Base, r

(* The last owner's end destroys a session, and changes nothing else of one
   that holds no mapping or has none left to hold.                         *)
LEMMA ReleaseInv ==
  ASSUME NEW x, Base(x), ~x.running_, ~x.owned, x.alive,
         x.receive # "none" => x.mappings_ = {} /\ x.armed = {},
         x.receive = "done" => \A k \in Keys : x.resolving[k] < x.datagrams
  PROVE  IInv(Release(x))
<1>1. CASE x.receive # "none"
  BY <1>1 DEF Release, IInv, LifeInv
<1>2. CASE x.receive = "none"
  <2> DEFINE z == stop(x)
             y == [z EXCEPT !.alive = FALSE]
  <2>1. /\ Base(z) /\ ~z.running_ /\ z.mappings_ = {} /\ z.armed = {}
        /\ ~z.owned /\ z.receive = "none"
    BY <1>2, StopBase
  <2>2. Release(x) = y
    BY <1>2 DEF Release
  <2> HIDE DEF z
  <2>3. z \in Session
    BY <2>1 DEF Base
  <2>4. /\ y \in Session /\ ~y.alive /\ ~y.running_ /\ ~y.owned
        /\ y.receive = "none"
        /\ y.mappings_ = z.mappings_ /\ y.armed = z.armed /\ y.pcbs = z.pcbs
        /\ y.queued = z.queued /\ y.type = z.type /\ y.asked = z.asked
        /\ y.replied = z.replied /\ y.resolving = z.resolving
        /\ y.datagrams = z.datagrams
    BY <2>1, <2>3, Zenon DEF Session
  <2> HIDE DEF y
  <2>5. MappingInv(y) /\ LookupInv(y)
    BY <2>1, <2>4 DEF Base, MappingInv, LookupInv
  <2>6. LifeInv(y)
    BY <2>1, <2>4 DEF LifeInv
  <2> QED BY <2>2, <2>4, <2>5, <2>6 DEF IInv, Base
<1> QED BY <1>1, <1>2

(* The end of the receive's handler. *)
LEMMA FinishInv ==
  ASSUME NEW x, Base(x), x.alive, ~x.running_ => ~x.owned
  PROVE  IInv(Release(receive_loop(x)))
<1> DEFINE y == receive_loop(x)
<1>1. x \in Session
  BY DEF Base
<1>2. /\ y \in Session /\ y.running_ = x.running_ /\ y.alive /\ y.owned = x.owned
      /\ y.receive = IF x.running_ THEN "pending" ELSE "none"
      /\ y.mappings_ = x.mappings_ /\ y.armed = x.armed /\ y.pcbs = x.pcbs
      /\ y.queued = x.queued /\ y.type = x.type /\ y.asked = x.asked
      /\ y.replied = x.replied /\ y.resolving = x.resolving
      /\ y.datagrams = x.datagrams
  BY <1>1 DEF receive_loop, Session
<1> HIDE DEF y
<1>3. Base(y)
  BY <1>2 DEF Base, MappingInv, LookupInv
<1>4. CASE x.running_
  BY <1>2, <1>3, <1>4, Zenon DEF Release, IInv, LifeInv, y
<1>5. CASE ~x.running_
  <2>1. IInv(Release(y))
    BY <1>2, <1>3, <1>5, ReleaseInv
  <2> QED BY <2>1 DEF y
<1> QED BY <1>1, <1>4, <1>5 DEF Session

(* A mapping comes with its PCB, its timer and a type some client used. *)
LEMMA SendBase ==
  ASSUME NEW x, Base(x), NEW k \in Keys, NEW type \in {"ip", "domain"},
         <<k, type>> \in x.asked, NEW y \in send_payload_to_ip(x, k, type)
  PROVE  /\ Base(y) /\ y.running_ = x.running_ /\ y.owned = x.owned
         /\ y.alive = x.alive /\ y.receive = x.receive
         /\ y.resolving = x.resolving /\ y.datagrams = x.datagrams
<1>1. x \in Session
  BY DEF Base
<1>2. CASE k \in x.mappings_
  <2>1. y = [x EXCEPT !.armed = x.armed \cup {k}]
    BY <1>1, <1>2 DEF send_payload_to_ip, mapping_for, arm_idle_timer, Session
  <2> DEFINE a == x.armed \cup {k}
             z == [x EXCEPT !.armed = a]
  <2>2. a \in SUBSET Keys /\ x.armed \subseteq a
    BY <1>1 DEF Session
  <2> HIDE DEF a
  <2>3. /\ z \in Session /\ z.armed = a /\ z.running_ = x.running_
        /\ z.owned = x.owned /\ z.alive = x.alive /\ z.receive = x.receive
        /\ z.mappings_ = x.mappings_ /\ z.pcbs = x.pcbs
        /\ z.queued = x.queued /\ z.type = x.type /\ z.asked = x.asked
        /\ z.replied = x.replied /\ z.resolving = x.resolving
        /\ z.datagrams = x.datagrams
    BY <1>1, <2>2 DEF Session
  <2>4. y = z
    BY <2>1 DEF a
  <2> HIDE DEF z
  <2>5. MappingInv(z) /\ LookupInv(z)
    BY <2>2, <2>3 DEF Base, MappingInv, LookupInv
  <2> QED BY <2>3, <2>4, <2>5 DEF Base
<1>3. CASE k \notin x.mappings_
  <2> DEFINE a == x.armed \cup {k}
             m == x.mappings_ \cup {k}
             p == [x.pcbs EXCEPT ![k] = x.pcbs[k] + 1]
             t == [x.type EXCEPT ![k] = type]
             z == [x EXCEPT !.mappings_ = m, !.pcbs = p, !.type = t, !.armed = a]
  <2>1. y = x \/ y = z
    BY <1>1, <1>3, Zenon DEF send_payload_to_ip, mapping_for, arm_idle_timer, Session
  <2>2. /\ a \in SUBSET Keys /\ x.armed \subseteq a /\ k \in a
        /\ m \in SUBSET Keys /\ p \in [Keys -> Nat]
        /\ t \in [Keys -> {"ip", "domain"}]
    BY <1>1 DEF Session
  <2>3. /\ \A j \in m : j # k => j \in x.mappings_
        /\ \A j \in Keys : p[j] = IF j \in m THEN 1 ELSE 0
        /\ \A j \in m : <<j, t[j]>> \in x.asked
    BY <1>1, <1>3 DEF Base, MappingInv, Session
  <2> HIDE DEF a, m, p, t
  <2>4. /\ z \in Session /\ z.mappings_ = m /\ z.pcbs = p /\ z.type = t
        /\ z.armed = a /\ z.running_ = x.running_
        /\ z.owned = x.owned /\ z.alive = x.alive /\ z.receive = x.receive
        /\ z.queued = x.queued /\ z.asked = x.asked
        /\ z.replied = x.replied /\ z.resolving = x.resolving
        /\ z.datagrams = x.datagrams
    BY <1>1, <2>2, Zenon DEF Session
  <2> HIDE DEF z
  <2>5. MappingInv(z) /\ LookupInv(z)
    BY <2>2, <2>3, <2>4, Zenon DEF Base, MappingInv, LookupInv
  <2> QED BY <2>1, <2>4, <2>5 DEF Base
<1> QED BY <1>2, <1>3

-----------------------------------------------------------------------------
\* A relay that has not been started satisfies the invariant.
LEMMA InitInv == Init => Inv
<1> SUFFICES ASSUME u = Fresh PROVE IInv(u)
  BY DEF Init, Inv
<1>1. u \in Session
  BY Bounds DEF Fresh, Session
<1>2. MappingInv(u) /\ LookupInv(u) /\ LifeInv(u)
  BY Bounds DEF Fresh, MappingInv, LookupInv, LifeInv
<1> QED BY <1>1, <1>2 DEF IInv, Base

\* Every handler of the UDP relay keeps the invariant.
LEMMA StepInv == Inv /\ [Next]_vars => Inv'
<1> SUFFICES ASSUME IInv(u), [Next]_vars PROVE IInv(u')
  BY DEF Inv
<1>0. u \in Session /\ Base(u) /\ LifeInv(u)
  BY DEF IInv, Base
<1>1. CASE start
  <2>1. Base(u) /\ u = Fresh /\ u' = receive_loop([u EXCEPT !.running_ = TRUE])
    BY <1>0, <1>1 DEF start
  <2>2. /\ u' \in Session /\ u'.running_ /\ u'.receive = "pending" /\ u'.alive
        /\ u'.mappings_ = u.mappings_ /\ u'.pcbs = u.pcbs /\ u'.armed = u.armed
        /\ u'.queued = u.queued /\ u'.type = u.type /\ u'.asked = u.asked
        /\ u'.replied = u.replied /\ u'.resolving = u.resolving
        /\ u'.datagrams = u.datagrams
    BY ZenonT(40), <1>0, <2>1 DEF receive_loop, Session, Fresh
  <2>3. MappingInv(u') /\ LookupInv(u') /\ LifeInv(u')
    BY ZenonT(40), <2>1, <2>2 DEF Base, MappingInv, LookupInv, LifeInv
  <2> QED BY <2>2, <2>3 DEF IInv, Base
<1>2. CASE Stop
  <2> DEFINE z == stop(u)
             y == [z EXCEPT !.owned = FALSE]
  <2>1. u.running_ /\ u' = Release(y)
    BY <1>2 DEF Stop
  <2>2. /\ Base(z) /\ ~z.running_ /\ z.mappings_ = {} /\ z.armed = {}
        /\ z.alive /\ z.resolving = u.resolving /\ z.datagrams = u.datagrams
        /\ z.receive = "done" => u.receive = "done"
    BY <1>0, <2>1, StopBase DEF LifeInv, Session
  <2> HIDE DEF z
  <2>3. z \in Session
    BY <2>2 DEF Base
  <2>4. /\ y \in Session /\ ~y.owned /\ ~y.running_ /\ y.alive
        /\ y.receive = z.receive
        /\ y.mappings_ = z.mappings_ /\ y.armed = z.armed /\ y.pcbs = z.pcbs
        /\ y.queued = z.queued /\ y.type = z.type /\ y.asked = z.asked
        /\ y.replied = z.replied /\ y.resolving = z.resolving
        /\ y.datagrams = z.datagrams
    BY <2>2, <2>3, Zenon DEF Session
  <2> HIDE DEF y
  <2>5. Base(y)
    BY <2>2, <2>4 DEF Base, MappingInv, LookupInv
  <2>6. y.receive = "done" => \A k \in Keys : y.resolving[k] < y.datagrams
    BY <1>0, <2>2, <2>4 DEF LifeInv
  <2> QED BY <2>1, <2>2, <2>4, <2>5, <2>6, ReleaseInv
<1>3. CASE ReceiveCompletes
  <2>1. /\ u.receive = "pending" /\ u.datagrams \in Nat
        /\ u.datagrams + 1 \in 0 .. MaxDatagrams
        /\ u' = [u EXCEPT !.receive = "done", !.datagrams = u.datagrams + 1]
    BY <1>0, <1>3, Bounds DEF ReceiveCompletes, Session
  <2>2. /\ u' \in Session /\ u'.receive = "done"
        /\ u'.datagrams = u.datagrams + 1
        /\ u'.running_ = u.running_ /\ u'.owned = u.owned /\ u'.alive = u.alive
        /\ u'.mappings_ = u.mappings_ /\ u'.pcbs = u.pcbs /\ u'.armed = u.armed
        /\ u'.queued = u.queued /\ u'.type = u.type /\ u'.asked = u.asked
        /\ u'.replied = u.replied /\ u'.resolving = u.resolving
    BY <1>0, <2>1, Zenon DEF Session
  <2>3. \A k \in Keys : u.resolving[k] \in Nat /\ u.resolving[k] <= u.datagrams
    BY <1>0 DEF Session, Base, LookupInv
  <2>4. MappingInv(u') /\ LookupInv(u') /\ LifeInv(u')
    BY <1>0, <2>1, <2>2, <2>3 DEF Base, MappingInv, LookupInv, LifeInv
  <2> QED BY <2>2, <2>4 DEF IInv, Base
<1>4. CASE ReceiveNothing
  BY <1>0, <1>4, FinishInv DEF ReceiveNothing, LifeInv
<1>5. ASSUME NEW k \in Keys, ReceiveIp(k) PROVE IInv(u')
  <2> DEFINE v == [u EXCEPT !.asked = u.asked \cup {<<k, "ip">>}]
  <2>1. PICK x \in send_payload_to_ip(v, k, "ip") : u' = Release(receive_loop(x))
    BY <1>5 DEF ReceiveIp
  <2>2. /\ v \in Session /\ <<k, "ip">> \in v.asked /\ u.asked \subseteq v.asked
        /\ v.running_ = u.running_ /\ v.owned = u.owned /\ v.alive = u.alive
        /\ v.mappings_ = u.mappings_ /\ v.pcbs = u.pcbs /\ v.armed = u.armed
        /\ v.queued = u.queued /\ v.type = u.type
        /\ v.replied = u.replied /\ v.resolving = u.resolving
        /\ v.datagrams = u.datagrams
    BY <1>0 DEF Session
  <2> HIDE DEF v
  <2>3. Base(v)
    BY <1>0, <2>2 DEF Base, MappingInv, LookupInv
  <2>4. Base(x) /\ x.alive /\ (~x.running_ => ~x.owned)
    BY ZenonT(40), <1>0, <1>5, <2>2, <2>3, SendBase DEF ReceiveIp, LifeInv
  <2> QED BY <2>1, <2>4, FinishInv
<1>6. ASSUME NEW k \in Keys, ReceiveDomain(k) PROVE IInv(u')
  <2> DEFINE r == [u.resolving EXCEPT ![k] = u.resolving[k] + 1]
             a == u.asked \cup {<<k, "domain">>}
             v == [u EXCEPT !.asked = a, !.resolving = r]
  <2>1. u' = Release(receive_loop(v)) /\ u.receive = "done"
    BY <1>0, <1>6 DEF ReceiveDomain, Session
  <2>2. /\ r \in [Keys -> 0 .. MaxDatagrams]
        /\ \A j \in Keys : r[j] <= u.datagrams
        /\ \A j \in Keys : j # k => r[j] = u.resolving[j]
        /\ a \in SUBSET (Keys \X {"ip", "domain"})
        /\ <<k, "domain">> \in a /\ u.asked \subseteq a
    <3>1. \A j \in Keys : /\ u.resolving[j] \in Nat /\ u.resolving[j] < u.datagrams
                          /\ u.datagrams \in 0 .. MaxDatagrams
      BY <1>0, <2>1, Bounds DEF LifeInv, Session
    <3> QED BY <1>0, <3>1, Bounds DEF Session
  <2> HIDE DEF r, a
  <2>3. /\ v \in Session /\ v.asked = a
        /\ v.running_ = u.running_ /\ v.owned = u.owned /\ v.alive = u.alive
        /\ v.mappings_ = u.mappings_ /\ v.pcbs = u.pcbs /\ v.armed = u.armed
        /\ v.queued = u.queued /\ v.type = u.type
        /\ v.replied = u.replied /\ v.resolving = r
        /\ v.datagrams = u.datagrams
    BY <1>0, <2>2, Zenon DEF Session
  <2> HIDE DEF v
  <2>4. MappingInv(v) /\ LookupInv(v)
    BY <1>0, <2>2, <2>3 DEF Base, MappingInv, LookupInv
  <2>5. Base(v) /\ v.alive /\ (~v.running_ => ~v.owned)
    BY <1>0, <2>1, <2>3, <2>4 DEF Base, LifeInv
  <2> QED BY <2>1, <2>5, FinishInv
<1>7. ASSUME NEW k \in Keys, Resolved(k) PROVE IInv(u')
  <2> DEFINE r == [u.resolving EXCEPT ![k] = u.resolving[k] - 1]
             v == [u EXCEPT !.resolving = r]
  <2>1. /\ u.resolving[k] > 0
        /\ u' = v \/ (u.alive /\ u.running_
                      /\ u' \in send_payload_to_ip(v, k, "domain"))
    BY <1>0, <1>7 DEF Resolved, Session
  <2>2. /\ r \in [Keys -> 0 .. MaxDatagrams]
        /\ \A j \in Keys : r[j] \in Nat /\ u.resolving[j] \in Nat
        /\ \A j \in Keys : r[j] <= u.resolving[j]
    BY <1>0, <2>1, Bounds DEF Session
  <2> HIDE DEF r
  <2>3. /\ v \in Session /\ v.asked = u.asked /\ v.receive = u.receive
        /\ v.running_ = u.running_ /\ v.owned = u.owned /\ v.alive = u.alive
        /\ v.mappings_ = u.mappings_ /\ v.pcbs = u.pcbs /\ v.armed = u.armed
        /\ v.queued = u.queued /\ v.type = u.type
        /\ v.replied = u.replied /\ v.resolving = r
        /\ v.datagrams = u.datagrams /\ u.datagrams \in Nat
    BY <1>0, <2>2, Bounds DEF Session
  <2> HIDE DEF v
  <2>4. MappingInv(v)
    BY <1>0, <2>3 DEF Base, MappingInv
  <2>5. LookupInv(v)
    BY <1>0, <2>2, <2>3 DEF Base, LookupInv
  <2>6. LifeInv(v)
    BY <1>0, <2>2, <2>3 DEF LifeInv
  <2>7. CASE u' = v
    BY <2>3, <2>4, <2>5, <2>6, <2>7 DEF IInv, Base
  <2>8. CASE u.alive /\ u.running_ /\ u' \in send_payload_to_ip(v, k, "domain")
    <3>1. <<k, "domain">> \in v.asked /\ Base(v)
      BY <1>0, <2>1, <2>3, <2>4, <2>5 DEF Base, LookupInv
    <3>2. /\ Base(u') /\ u'.running_ = v.running_ /\ u'.owned = v.owned
          /\ u'.alive = v.alive /\ u'.receive = v.receive
          /\ u'.resolving = v.resolving /\ u'.datagrams = v.datagrams
      BY <2>8, <3>1, SendBase, Zenon
    <3>3. LifeInv(u')
      BY <2>3, <2>6, <2>8, <3>2 DEF LifeInv
    <3> QED BY <3>2, <3>3 DEF IInv
  <2> QED BY <2>1, <2>7, <2>8
<1>8. ASSUME NEW k \in Keys, TimerExpires(k) PROVE IInv(u')
  <2> DEFINE a == u.armed \ {k}
             q == [u.queued EXCEPT ![k] = u.queued[k] + 1]
  <2>1. /\ k \in u.armed /\ u.queued[k] < MaxQueued
        /\ u' = [u EXCEPT !.armed = a, !.queued = q]
    BY <1>0, <1>8 DEF TimerExpires, Session
  <2>2. /\ a \in SUBSET Keys /\ q \in [Keys -> 0 .. MaxQueued]
        /\ q[k] > 0 /\ \A j \in Keys : j # k => q[j] = u.queued[j]
        /\ \A j \in u.armed : j # k => j \in a
        /\ a \subseteq u.armed
    BY <1>0, <2>1, Bounds DEF Session
  <2> HIDE DEF a, q
  <2>3. /\ u' \in Session /\ u'.armed = a /\ u'.queued = q
        /\ u'.running_ = u.running_ /\ u'.owned = u.owned /\ u'.alive = u.alive
        /\ u'.mappings_ = u.mappings_ /\ u'.pcbs = u.pcbs /\ u'.type = u.type
        /\ u'.asked = u.asked /\ u'.replied = u.replied
        /\ u'.resolving = u.resolving /\ u'.datagrams = u.datagrams
        /\ u'.receive = u.receive /\ u.mappings_ \subseteq Keys
    BY <1>0, <2>1, <2>2, Zenon DEF Session
  <2>4. MappingInv(u')
    BY <1>0, <2>2, <2>3 DEF Base, MappingInv
  <2>5. LookupInv(u') /\ LifeInv(u')
    BY <1>0, <2>2, <2>3 DEF Base, LookupInv, LifeInv
  <2> QED BY <2>3, <2>4, <2>5 DEF IInv, Base
<1>9. ASSUME NEW k \in Keys, TimerHandler(k) PROVE IInv(u')
  <2> DEFINE q == [u.queued EXCEPT ![k] = u.queued[k] - 1]
             v == [u EXCEPT !.queued = q]
             a == u.armed \ {k}
             m == u.mappings_ \ {k}
             p == [u.pcbs EXCEPT ![k] = u.pcbs[k] - 1]
             w == [v EXCEPT !.mappings_ = m, !.armed = a, !.pcbs = p]
  <2>1. u.queued[k] > 0 /\ u' = IF u.alive THEN erase_mapping(v, k) ELSE v
    BY <1>0, <1>9 DEF TimerHandler, Session
  <2>2. /\ q \in [Keys -> 0 .. MaxQueued] /\ m \in SUBSET Keys /\ a \in SUBSET Keys
        /\ \A j \in Keys : j # k => q[j] = u.queued[j]
        /\ \A j \in u.armed : j # k => j \in a
        /\ a \subseteq u.armed
    BY <1>0, <2>1, Bounds DEF Session
  <2>3. CASE k \in u.mappings_
    <3>1. u.alive /\ u.running_
      BY <1>0, <2>3 DEF LifeInv
    <3>2. /\ p \in [Keys -> Nat]
          /\ \A j \in Keys : p[j] = IF j \in m THEN 1 ELSE 0
      BY <1>0, <2>3 DEF Base, MappingInv, Session
    <3>3. u' = w
      BY <1>0, <2>1, <2>2, <2>3, <3>1 DEF erase_mapping, Session
    <3> HIDE DEF q, p, a
    <3>4. /\ w \in Session /\ w.queued = q /\ w.mappings_ = m /\ w.armed = a
          /\ w.pcbs = p
          /\ w.running_ = u.running_ /\ w.owned = u.owned /\ w.alive = u.alive
          /\ w.type = u.type /\ w.asked = u.asked /\ w.replied = u.replied
          /\ w.resolving = u.resolving /\ w.datagrams = u.datagrams
          /\ w.receive = u.receive
      BY <1>0, <2>2, <3>2, Zenon DEF Session
    <3>5. \A j \in m : j \in Keys /\ j # k /\ j \in u.mappings_
      BY <1>0 DEF Session
    <3> HIDE DEF w, m
    <3>6. MappingInv(w)
      BY <1>0, <2>2, <3>2, <3>4, <3>5 DEF Base, MappingInv
    <3>7. LookupInv(w) /\ LifeInv(w)
      BY <1>0, <3>1, <3>4 DEF Base, LookupInv, LifeInv
    <3> QED BY <3>3, <3>4, <3>6, <3>7 DEF IInv, Base
  <2>4. CASE k \notin u.mappings_
    <3>1. u' = v
      BY <1>0, <2>1, <2>2, <2>4 DEF erase_mapping, Session
    <3> HIDE DEF q
    <3>2. /\ v \in Session /\ v.queued = q /\ v.armed = u.armed
          /\ v.running_ = u.running_ /\ v.owned = u.owned /\ v.alive = u.alive
          /\ v.mappings_ = u.mappings_ /\ v.pcbs = u.pcbs /\ v.type = u.type
          /\ v.asked = u.asked /\ v.replied = u.replied
          /\ v.resolving = u.resolving /\ v.datagrams = u.datagrams
          /\ v.receive = u.receive /\ u.mappings_ \subseteq Keys
      BY <1>0, <2>2 DEF Session
    <3> HIDE DEF v
    <3>3. MappingInv(v)
      BY <1>0, <2>2, <2>4, <3>2 DEF Base, MappingInv
    <3>4. LookupInv(v) /\ LifeInv(v)
      BY <1>0, <3>2 DEF Base, LookupInv, LifeInv
    <3> QED BY <3>1, <3>2, <3>3, <3>4 DEF IInv, Base
  <2> QED BY <2>3, <2>4
<1>10. ASSUME NEW k \in Keys, on_udp_recv(k) PROVE IInv(u')
  <2> DEFINE r == u.replied \cup {<<k, u.type[k]>>}
  <2>1. k \in u.mappings_ /\ u' = [u EXCEPT !.replied = r]
    BY <1>0, <1>10 DEF on_udp_recv, send_to_client, Base, MappingInv, Session
  <2>2. r \in SUBSET (Keys \X {"ip", "domain"}) /\ r \subseteq u.asked
    BY <1>0, <2>1 DEF Base, MappingInv, LookupInv, Session
  <2> HIDE DEF r
  <2>3. /\ u' \in Session /\ u'.replied = r
        /\ u'.running_ = u.running_ /\ u'.owned = u.owned /\ u'.alive = u.alive
        /\ u'.mappings_ = u.mappings_ /\ u'.pcbs = u.pcbs /\ u'.armed = u.armed
        /\ u'.queued = u.queued /\ u'.type = u.type /\ u'.asked = u.asked
        /\ u'.resolving = u.resolving /\ u'.datagrams = u.datagrams
        /\ u'.receive = u.receive
    BY <1>0, <2>1, <2>2 DEF Session
  <2>4. MappingInv(u') /\ LookupInv(u') /\ LifeInv(u')
    BY <1>0, <2>2, <2>3 DEF Base, MappingInv, LookupInv, LifeInv
  <2> QED BY <2>3, <2>4 DEF IInv, Base
<1>11. CASE UNCHANGED vars
  BY <1>11 DEF vars
<1> QED
  BY <1>1, <1>2, <1>3, <1>4, <1>5, <1>6, <1>7, <1>8, <1>9, <1>10, <1>11 DEF Next

-----------------------------------------------------------------------------
\* The inductive invariant holds of every reachable session.
THEOREM Invariance == Spec => []Inv
BY InitInv, StepInv, PTL DEF Spec

\* Every member of UdpRelaySession keeps its type.
THEOREM TypeCorrect == Spec => []TypeOK
<1>1. Inv => TypeOK
  BY DEF Inv, IInv, Base, TypeOK
<1> QED BY <1>1, Invariance, PTL

\* A PCB's argument is always a mapping that mappings_ owns.
THEOREM PcbArgument == Spec => []PcbArgumentOwned
<1>1. Inv => PcbArgumentOwned
  BY Zenon DEF Inv, IInv, Base, MappingInv, PcbArgumentOwned
<1> QED BY <1>1, Invariance, PTL

\* No mapping is ever without an expiry to come.
THEOREM Timed == Spec => []MappingIsTimed
<1>1. Inv => MappingIsTimed
  BY Zenon DEF Inv, IInv, Base, MappingInv, MappingIsTimed
<1> QED BY <1>1, Invariance, PTL

\* A stopped session holds no mapping, whatever completes after stop().
THEOREM Stopped == Spec => []StoppedHoldsNothing
<1>1. Inv => StoppedHoldsNothing
  BY DEF Inv, IInv, LifeInv, StoppedHoldsNothing
<1> QED BY <1>1, Invariance, PTL

\* Replies name targets only as some client named them.
THEOREM Replies == Spec => []RepliesAsAsked
<1>1. Inv => RepliesAsAsked
  BY DEF Inv, IInv, Base, LookupInv, RepliesAsAsked
<1> QED BY <1>1, Invariance, PTL
=============================================================================
