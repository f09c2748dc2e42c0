--------------------------- MODULE InboundProofs ---------------------------
(***************************************************************************)
(* Proofs about Inbound for all numbers of tunnel events and clients.      *)
(*                                                                         *)
(* The argument is about the queue of the io_context: the last tunnel      *)
(* event in it agrees with the tunnel, start_instance comes first, and     *)
(* the shutdown is only there once running_ is unset.  A second argument   *)
(* counts accept loops: each was paid for by a tunnel event.               *)
(***************************************************************************)
EXTENDS Inbound, FiniteSetTheorems, FunctionTheorems, TLAPS

Rec ==
  [ running_ : BOOLEAN, main : {"run", "waiting", "stopped"},
    thread : {"running", "dead", "stopped"}, queue : Seq(Tasks),
    lwip : BOOLEAN, vpn : {"idle", "running", "stopped"}, up : BOOLEAN,
    started_ : BOOLEAN, acceptor : {"closed", "open", "listening"},
    accepting : Nat, udp_ : BOOLEAN, stopped : BOOLEAN, events : Nat,
    clients : Nat ]

Events == {"ready", "down"}

In(q, tasks) == \E j \in 1 .. Len(q) : q[j] \in tasks

BootFirst(q) == \A j \in 1 .. Len(q) : q[j] = "boot" => j = 1

LastAgrees(q, up) ==
  \A j \in 1 .. Len(q) :
    q[j] \in Events /\ (\A k \in j + 1 .. Len(q) : q[k] \notin Events)
      => (q[j] = "ready" <=> up)

-----------------------------------------------------------------------------
(* The rest of a queue whose first task is run. *)
LEMMA QueueTail ==
  ASSUME NEW q \in Seq(Tasks), q # <<>>, NEW up
  PROVE  /\ Tail(q) \in Seq(Tasks) /\ Head(q) \in Tasks
         /\ BootFirst(q) => ~In(Tail(q), {"boot"})
         /\ LastAgrees(q, up) => LastAgrees(Tail(q), up)
         /\ LastAgrees(q, up) /\ Head(q) \in Events /\ ~In(Tail(q), Events)
              => (Head(q) = "ready" <=> up)
         /\ \A T : In(Tail(q), T) => In(q, T)
         /\ \A T : In(q, T) => In(Tail(q), T) \/ Head(q) \in T
<1> DEFINE r == Tail(q)
<1>1. /\ r \in Seq(Tasks) /\ Len(r) = Len(q) - 1 /\ Len(q) \in Nat \ {0}
      /\ Head(q) = q[1] /\ q[1] \in Tasks
      /\ \A j \in 1 .. Len(r) : r[j] = q[j + 1]
  OBVIOUS
<1> HIDE DEF r
<1>2. BootFirst(q) => ~In(r, {"boot"})
  BY <1>1 DEF BootFirst, In
<1>0. \A j \in 1 .. Len(q) : j = 1 \/ (j - 1 \in 1 .. Len(r) /\ q[j] = r[j - 1])
  BY <1>1
<1>3. LastAgrees(q, up) => LastAgrees(r, up)
  <2> SUFFICES ASSUME LastAgrees(q, up), NEW j \in 1 .. Len(r), r[j] \in Events,
                      \A k \in j + 1 .. Len(r) : r[k] \notin Events
               PROVE  r[j] = "ready" <=> up
    BY DEF LastAgrees
  <2>1. j + 1 \in 1 .. Len(q) /\ q[j + 1] = r[j]
    BY <1>1
  <2>2. \A k \in (j + 1) + 1 .. Len(q) : k - 1 \in j + 1 .. Len(r) /\ q[k] = r[k - 1]
    BY <1>0, <1>1
  <2> QED BY <2>1, <2>2 DEF LastAgrees
<1>4. LastAgrees(q, up) /\ Head(q) \in Events /\ ~In(r, Events)
        => (Head(q) = "ready" <=> up)
  <2> SUFFICES ASSUME LastAgrees(q, up), q[1] \in Events, ~In(r, Events)
               PROVE  q[1] = "ready" <=> up
    BY <1>1
  <2>1. ASSUME NEW k \in 1 + 1 .. Len(q) PROVE q[k] \notin Events
    <3>1. k - 1 \in 1 .. Len(r) /\ q[k] = r[k - 1]
      BY <1>0, <1>1
    <3> QED BY <3>1 DEF In
  <2>2. 1 \in 1 .. Len(q)
    BY <1>1
  <2> QED BY <2>1, <2>2 DEF LastAgrees
<1>5. ASSUME NEW T, In(r, T) PROVE In(q, T)
  <2>1. PICK j \in 1 .. Len(r) : r[j] \in T
    BY <1>5 DEF In
  <2>2. j + 1 \in 1 .. Len(q) /\ q[j + 1] \in T
    BY <1>1, <2>1
  <2> QED BY <2>2 DEF In
<1>6. ASSUME NEW T, In(q, T) PROVE In(r, T) \/ Head(q) \in T
  BY <1>0, <1>1, <1>6 DEF In
<1> QED BY <1>1, <1>2, <1>3, <1>4, <1>5, <1>6 DEF r

(* A queue with tasks behind it that are no tunnel event. *)
LEMMA QueueBehind ==
  ASSUME NEW q \in Seq(Tasks), NEW r \in Seq(Tasks \ (Events \cup {"boot"})), NEW up
  PROVE  /\ q \o r \in Seq(Tasks)
         /\ BootFirst(q) => BootFirst(q \o r)
         /\ LastAgrees(q, up) => LastAgrees(q \o r, up)
         /\ In(q \o r, Events) <=> In(q, Events)
         /\ In(q \o r, {"boot"}) <=> In(q, {"boot"})
         /\ \A T : In(q, T) => In(q \o r, T)
         /\ In(q \o r, {"shutdown"}) => In(q, {"shutdown"}) \/ In(r, {"shutdown"})
<1> DEFINE s == q \o r
<1>1. /\ s \in Seq(Tasks) /\ Len(s) = Len(q) + Len(r) /\ Len(q) \in Nat /\ Len(r) \in Nat
      /\ \A j \in 1 .. Len(q) : s[j] = q[j]
      /\ \A j \in Len(q) + 1 .. Len(s) : s[j] = r[j - Len(q)]
      /\ \A j \in 1 .. Len(r) : r[j] \in Tasks /\ r[j] \notin Events /\ r[j] # "boot"
  <2>1. \A j \in 1 .. Len(r) : r[j] \in Tasks /\ r[j] \notin Events /\ r[j] # "boot"
    OBVIOUS
  <2>2. r \in Seq(Tasks)
    OBVIOUS
  <2>3. /\ s \in Seq(Tasks) /\ Len(s) = Len(q) + Len(r)
        /\ Len(q) \in Nat /\ Len(r) \in Nat
    BY <2>2
  <2>4. \A j \in 1 .. Len(q) : s[j] = q[j]
    BY <2>2
  <2>5. \A j \in Len(q) + 1 .. Len(s) : s[j] = r[j - Len(q)]
    BY <2>2
  <2> QED BY <2>1, <2>3, <2>4, <2>5
<1> HIDE DEF s
<1>2. \A j \in 1 .. Len(s) :
        \/ j \in 1 .. Len(q) /\ s[j] = q[j]
        \/ j \notin 1 .. Len(q) /\ s[j] \notin Events /\ s[j] # "boot"
  <2> SUFFICES ASSUME NEW j \in 1 .. Len(s), j \notin 1 .. Len(q)
               PROVE  s[j] \notin Events /\ s[j] # "boot"
    BY <1>1
  <2>1. j \in Len(q) + 1 .. Len(s) /\ j - Len(q) \in 1 .. Len(r)
    BY <1>1
  <2> QED BY <1>1, <2>1
<1>0. 1 .. Len(q) \subseteq 1 .. Len(s)
  BY <1>1
<1>3. BootFirst(q) => BootFirst(s)
  BY <1>1, <1>2 DEF BootFirst
<1>4. LastAgrees(q, up) => LastAgrees(s, up)
  <2> SUFFICES ASSUME LastAgrees(q, up), NEW j \in 1 .. Len(s), s[j] \in Events,
                      \A k \in j + 1 .. Len(s) : s[k] \notin Events
               PROVE  s[j] = "ready" <=> up
    BY DEF LastAgrees
  <2>1. j \in 1 .. Len(q) /\ s[j] = q[j]
    BY <1>2
  <2>2. \A k \in j + 1 .. Len(q) : k \in j + 1 .. Len(s) /\ q[k] = s[k]
    BY <1>1
  <2> QED BY <2>1, <2>2 DEF LastAgrees
<1>7. ASSUME NEW T, In(q, T) PROVE In(s, T)
  BY <1>0, <1>1, <1>7 DEF In
<1>5. In(s, Events) <=> In(q, Events)
  BY <1>2, <1>7 DEF In
<1>6. In(s, {"boot"}) <=> In(q, {"boot"})
  BY <1>2, <1>7, Zenon DEF In
<1>8. In(s, {"shutdown"}) => In(q, {"shutdown"}) \/ In(r, {"shutdown"})
  <2> SUFFICES ASSUME NEW j \in 1 .. Len(s), s[j] = "shutdown", j \notin 1 .. Len(q)
               PROVE  In(r, {"shutdown"})
    BY <1>1 DEF In
  <2>1. j - Len(q) \in 1 .. Len(r) /\ r[j - Len(q)] = "shutdown"
    BY <1>1
  <2> QED BY <2>1 DEF In
<1> QED BY <1>1, <1>3, <1>4, <1>5, <1>6, <1>7, <1>8 DEF s

(* A queue with a tunnel event behind it, which is then the last. *)
LEMMA QueueEvent ==
  ASSUME NEW q \in Seq(Tasks), NEW up \in BOOLEAN
  PROVE  LET s == Append(q, IF up THEN "ready" ELSE "down")
         IN /\ s \in Seq(Tasks)
            /\ BootFirst(q) => BootFirst(s)
            /\ LastAgrees(s, up) /\ In(s, Events)
            /\ In(s, {"boot"}) <=> In(q, {"boot"})
            /\ In(s, {"shutdown"}) <=> In(q, {"shutdown"})
            /\ \A T : In(q, T) => In(s, T)
<1> DEFINE e == IF up THEN "ready" ELSE "down"
           s == Append(q, e)
<1>1. e \in Tasks /\ e \in Events /\ e # "boot" /\ e # "shutdown" /\ (e = "ready" <=> up)
  BY DEF Tasks, Events
<1> HIDE DEF e
<1>2. /\ s \in Seq(Tasks) /\ Len(s) = Len(q) + 1 /\ Len(q) \in Nat /\ s[Len(s)] = e
      /\ \A j \in 1 .. Len(q) : s[j] = q[j] /\ j \in 1 .. Len(s)
      /\ \A j \in 1 .. Len(s) : j \in 1 .. Len(q) \/ j = Len(s)
  BY <1>1
<1> HIDE DEF s
<1>3. BootFirst(q) => BootFirst(s)
  BY <1>1, <1>2 DEF BootFirst
<1>4. LastAgrees(s, up)
  <2> SUFFICES ASSUME NEW j \in 1 .. Len(s), \A k \in j + 1 .. Len(s) : s[k] \notin Events
               PROVE  s[j] = "ready" <=> up
    BY DEF LastAgrees
  <2>1. j = Len(s)
    BY <1>1, <1>2
  <2> QED BY <1>1, <1>2, <2>1
<1>5. In(s, Events) /\ \A T : In(q, T) => In(s, T)
  BY <1>1, <1>2 DEF In
<1>6. /\ In(s, {"boot"}) <=> In(q, {"boot"})
      /\ In(s, {"shutdown"}) <=> In(q, {"shutdown"})
  BY <1>1, <1>2 DEF In
<1> QED BY <1>2, <1>3, <1>4, <1>5, <1>6 DEF s, e

-----------------------------------------------------------------------------
\* The queue agrees with the tunnel, and holds the shutdown only once
\* running_ is unset.
QueueInv(x) ==
  /\ x \in Rec
  /\ LastAgrees(x.queue, x.up)
  /\ In(x.queue, {"shutdown"}) => ~x.running_

\* NeverDeaf, FollowsTunnel and ShutdownIsFinal, of a record.
Hears(x) ==
  x.started_ /\ x.thread = "running" =>
    /\ x.acceptor = "listening"
    /\ x.accepting > 0 \/ In(x.queue, Accepts)
    /\ HasUdp => x.udp_

Follows(x) ==
  x.running_ /\ x.thread = "running" /\ ~In(x.queue, Events) => (x.started_ <=> x.up)

Final(x) ==
  x.stopped =>
    /\ ~x.running_ /\ ~In(x.queue, {"boot"})
    /\ ~x.started_ /\ x.acceptor = "closed" /\ x.accepting = 0 /\ ~x.udp_
    /\ x.vpn = "stopped" /\ ~x.lwip

IInv(x) ==
  QueueInv(x) /\ BootFirst(x.queue) /\ Hears(x) /\ Follows(x) /\ Final(x)

Inv == IInv(i)

\* The record while a handler runs, its task taken out of the queue: what
\* the task still owes is left open.
Mid(x, task) ==
  /\ QueueInv(x) /\ x.thread = "running" /\ task \in Tasks
  /\ ~In(x.queue, {"boot"})
  /\ task \notin Accepts => Hears(x)
  /\ x.started_ => x.acceptor = "listening" /\ (HasUdp => x.udp_)
  /\ task \notin Events => Follows(x)
  /\ task \in Events /\ x.running_ /\ ~In(x.queue, Events) => (task = "ready" <=> x.up)
  /\ task # "boot" => Final(x)
  /\ task = "boot" => ~x.stopped
  /\ task = "shutdown" => ~x.running_

(* Taking the first task out of the queue. *)
LEMMA TaskTaken ==
  ASSUME NEW x, IInv(x), x.queue # <<>>, x.thread = "running"
  PROVE  Mid([x EXCEPT !.queue = Tail(@)], Head(x.queue))
<1> DEFINE q == x.queue
           r == Tail(q)
           y == [x EXCEPT !.queue = r]
<1>1. x \in Rec /\ q \in Seq(Tasks) /\ q # <<>> /\ Head(q) = q[1] /\ 1 \in 1 .. Len(q)
  BY DEF IInv, QueueInv, Rec
<1>2. /\ r \in Seq(Tasks) /\ Head(q) \in Tasks /\ ~In(r, {"boot"})
      /\ LastAgrees(r, x.up)
      /\ Head(q) \in Events /\ ~In(r, Events) => (Head(q) = "ready" <=> x.up)
      /\ \A T : In(r, T) => In(q, T)
      /\ \A T : In(q, T) => In(r, T) \/ Head(q) \in T
  BY <1>1, QueueTail DEF IInv, QueueInv
<1>3. \A T : Head(q) \in T => In(q, T)
  BY <1>1 DEF In
<1> HIDE DEF r
<1>4. /\ y \in Rec /\ y.queue = r /\ y.up = x.up /\ y.running_ = x.running_
      /\ y.thread = x.thread /\ y.started_ = x.started_ /\ y.acceptor = x.acceptor
      /\ y.accepting = x.accepting /\ y.udp_ = x.udp_ /\ y.stopped = x.stopped
      /\ y.vpn = x.vpn /\ y.lwip = x.lwip
  BY <1>1, <1>2 DEF Rec
<1> HIDE DEF y, q
<1>5. QueueInv(y)
  BY <1>2, <1>4 DEF QueueInv, IInv, q
<1>6. Head(q) \notin Accepts => Hears(y)
  BY <1>2, <1>4 DEF Hears, IInv, q
<1>7. y.started_ => y.acceptor = "listening" /\ (HasUdp => y.udp_)
  BY <1>4 DEF Hears, IInv
<1>8. Head(q) \notin Events => Follows(y)
  BY <1>2, <1>4 DEF Follows, IInv, q
<1>9. Head(q) # "boot" => Final(y)
  BY <1>2, <1>4 DEF Final, IInv, q
<1>10. (Head(q) = "boot" => ~y.stopped) /\ (Head(q) = "shutdown" => ~y.running_)
  BY <1>3, <1>4 DEF Final, IInv, QueueInv, q
<1> QED
  BY <1>2, <1>4, <1>5, <1>6, <1>7, <1>8, <1>9, <1>10 DEF Mid, q, r, y

(* stop() closes everything and queues the accepts it aborts. *)
LEMMA StopDoes ==
  ASSUME NEW x, QueueInv(x), ~In(x.queue, {"boot"})
  PROVE  LET y == stop(x)
         IN /\ QueueInv(y) /\ ~In(y.queue, {"boot"})
            /\ In(y.queue, Events) <=> In(x.queue, Events)
            /\ ~y.started_ /\ y.acceptor = "closed" /\ y.accepting = 0 /\ ~y.udp_
            /\ y.running_ = x.running_ /\ y.thread = x.thread /\ y.up = x.up
            /\ y.stopped = x.stopped /\ y.vpn = x.vpn /\ y.lwip = x.lwip
<1> DEFINE r == [n \in 1 .. x.accepting |-> "aborted"]
           q == x.queue \o r
           y == [x EXCEPT !.started_ = FALSE, !.acceptor = "closed", !.accepting = 0,
                          !.udp_ = FALSE, !.queue = q]
<1>1. x \in Rec /\ x.queue \in Seq(Tasks) /\ x.accepting \in Nat
  BY DEF QueueInv, Rec
<1>2. r \in Seq(Tasks \ (Events \cup {"boot"})) /\ ~In(r, {"shutdown"})
  BY <1>1 DEF Tasks, Events, Accepts, In
<1> HIDE DEF r
<1>3. /\ q \in Seq(Tasks) /\ LastAgrees(q, x.up)
      /\ In(q, Events) <=> In(x.queue, Events)
      /\ ~In(q, {"boot"})
      /\ In(q, {"shutdown"}) => In(x.queue, {"shutdown"})
  BY <1>1, <1>2, QueueBehind DEF QueueInv
<1>4. stop(x) = y
  BY DEF stop, r
<1> HIDE DEF q
<1>5. /\ y \in Rec /\ y.queue = q /\ ~y.started_ /\ y.acceptor = "closed"
      /\ y.accepting = 0 /\ ~y.udp_
      /\ y.running_ = x.running_ /\ y.thread = x.thread /\ y.up = x.up
      /\ y.stopped = x.stopped /\ y.vpn = x.vpn /\ y.lwip = x.lwip
  BY <1>1, <1>3, Zenon DEF Rec
<1> HIDE DEF y
<1>6. QueueInv(y)
  BY <1>3, <1>5 DEF QueueInv
<1> QED BY <1>3, <1>4, <1>5, <1>6

(* The accept handler accepts again whenever the acceptor is open. *)
LEMMA AcceptedKeeps ==
  ASSUME NEW x, NEW task \in Accepts, Mid(x, task)
  PROVE  IInv(Accepted(x, task))
<1> DEFINE y == [x EXCEPT !.accepting = @ + 1]
<1>1. x \in Rec /\ x.accepting \in Nat /\ task # "boot" /\ task \notin Events
  BY DEF Mid, QueueInv, Rec, Accepts, Events
<1>2. BootFirst(x.queue)
  BY DEF Mid, In, BootFirst
<1>3. CASE x.acceptor = "closed"
  BY <1>1, <1>2, <1>3 DEF Accepted, Mid, IInv, Hears
<1>4. CASE x.acceptor # "closed"
  <2>1. Accepted(x, task) = y
    BY <1>4 DEF Accepted, accept_loop
  <2>2. /\ y \in Rec /\ y.queue = x.queue /\ y.accepting > 0 /\ y.up = x.up
        /\ y.running_ = x.running_ /\ y.thread = x.thread /\ y.started_ = x.started_
        /\ y.acceptor = x.acceptor /\ y.udp_ = x.udp_ /\ y.stopped = x.stopped
        /\ y.vpn = x.vpn /\ y.lwip = x.lwip
    BY <1>1 DEF Rec
  <2> HIDE DEF y
  <2>3. ~x.stopped
    BY <1>1, <1>4 DEF Mid, Final
  <2> QED
    BY <1>1, <1>2, <2>1, <2>2, <2>3 DEF Mid, IInv, QueueInv, Hears, Follows, Final
<1> QED BY <1>3, <1>4

(* start() ends with a listener, or with the thread. *)
LEMMA StartKeeps ==
  ASSUME NEW x, Mid(x, "ready"), x.running_, NEW z \in start(x)
  PROVE  IInv(z)
<1>1. /\ x \in Rec /\ x.accepting \in Nat /\ ~x.stopped /\ BootFirst(x.queue)
      /\ QueueInv(x) /\ x.thread = "running" /\ Hears(x)
      /\ ~In(x.queue, Events) => x.up
  BY DEF Mid, QueueInv, Rec, Final, In, BootFirst, Accepts, Events
<1>2. CASE x.started_
  BY <1>1, <1>2 DEF start, IInv, Follows, Final
<1>3. CASE ~x.started_
  <2>1. /\ z \in Rec /\ z.queue = x.queue /\ z.running_ = x.running_ /\ z.up = x.up
        /\ z.stopped = x.stopped /\ z.started_
        /\ \/ z.thread = "dead"
           \/ z.acceptor = "listening" /\ z.accepting > 0 /\ (HasUdp => z.udp_)
    <3> DEFINE Same(u) == /\ u \in Rec /\ u.queue = x.queue /\ u.running_ = x.running_
                          /\ u.up = x.up /\ u.stopped = x.stopped /\ u.started_
               y == [x EXCEPT !.started_ = TRUE]
               a == [y EXCEPT !.acceptor = "listening"]
               b == [a EXCEPT !.accepting = @ + 1]
    <3>1. \/ z = Dies(y) \/ z = Dies([y EXCEPT !.acceptor = "open"])
          \/ (z = b /\ (HasUdp => b.udp_)) \/ z = [b EXCEPT !.udp_ = TRUE] \/ z = Dies(b)
      BY <1>3 DEF start, StartUdp, accept_loop
    <3>2. Same(y)
      BY <1>1, Zenon DEF Rec
    <3> HIDE DEF y
    <3>3. Same(a) /\ a.acceptor = "listening"
      BY <3>2, Zenon DEF Rec
    <3> HIDE DEF a
    <3>4. Same(b) /\ b.acceptor = "listening" /\ b.accepting > 0
      <4> DEFINE n == a.accepting + 1
      <4>1. n \in Nat /\ n > 0
        BY <3>3 DEF Rec
      <4>2. b = [a EXCEPT !.accepting = n]
        OBVIOUS
      <4> HIDE DEF n, b
      <4> QED BY <3>3, <4>1, <4>2, Zenon DEF Rec
    <3> HIDE DEF b
    <3>5. ASSUME NEW u, Same(u)
          PROVE  Same(Dies(u)) /\ Dies(u).thread = "dead"
      BY <3>5, Zenon DEF Dies, Rec
    <3>6. Same([y EXCEPT !.acceptor = "open"])
      BY <3>2, Zenon DEF Rec
    <3>7. LET u == [b EXCEPT !.udp_ = TRUE]
          IN Same(u) /\ u.acceptor = "listening" /\ u.accepting > 0 /\ u.udp_
      BY <3>4, Zenon DEF Rec
    <3> HIDE DEF Same
    <3>8. \/ Same(z) /\ z.thread = "dead"
          \/ Same(z) /\ z.acceptor = "listening" /\ z.accepting > 0 /\ (HasUdp => z.udp_)
      BY <3>1, <3>2, <3>4, <3>5, <3>6, <3>7, Zenon
    <3> QED BY <3>8, Zenon DEF Same
  <2> QED BY <1>1, <2>1 DEF IInv, QueueInv, Hears, Follows, Final
<1> QED BY <1>2, <1>3

(* The handlers of start_instance and of the tunnel's events. *)
LEMMA BootKeeps ==
  ASSUME NEW x, Mid(x, "boot"), NEW z \in boot(x)
  PROVE  IInv(z)
<1>1. /\ x \in Rec /\ ~x.stopped /\ BootFirst(x.queue) /\ QueueInv(x)
      /\ Hears(x) /\ Follows(x)
  BY DEF Mid, QueueInv, In, BootFirst, Accepts, Events
<1>2. /\ z \in Rec /\ z.queue = x.queue /\ z.up = x.up /\ z.running_ = x.running_
      /\ z.thread = x.thread /\ z.started_ = x.started_ /\ z.acceptor = x.acceptor
      /\ z.accepting = x.accepting /\ z.udp_ = x.udp_ /\ z.stopped = x.stopped
  <2>1. CASE z = [x EXCEPT !.lwip = TRUE, !.vpn = "running"]
    BY <1>1, <2>1, Zenon DEF Rec
  <2>2. CASE z = [x EXCEPT !.lwip = FALSE]
    BY <1>1, <2>2, Zenon DEF Rec
  <2> QED BY <2>1, <2>2 DEF boot
<1> QED BY <1>1, <1>2 DEF IInv, QueueInv, Hears, Follows, Final

\* The task posted when the tunnel is ready keeps the invariant.
LEMMA ReadyKeeps ==
  ASSUME NEW x, Mid(x, "ready"), NEW z \in ready(x)
  PROVE  IInv(z)
<1>1. CASE x.running_
  BY <1>1, StartKeeps DEF ready
<1>2. CASE ~x.running_
  BY <1>2 DEF ready, Mid, IInv, Follows, In, BootFirst, Accepts
<1> QED BY <1>1, <1>2

\* The task posted when the tunnel is down keeps the invariant.
LEMMA DownKeeps ==
  ASSUME NEW x, Mid(x, "down")
  PROVE  IInv(down(x))
<1>1. CASE x.running_
  <2> DEFINE y == stop(x)
  <2>1. /\ QueueInv(x) /\ ~In(x.queue, {"boot"}) /\ ~x.stopped
        /\ ~In(x.queue, Events) => ~x.up
    BY <1>1 DEF Mid, Final, Events
  <2>2. /\ QueueInv(y) /\ ~In(y.queue, {"boot"})
        /\ In(y.queue, Events) <=> In(x.queue, Events)
        /\ ~y.started_ /\ y.up = x.up /\ y.stopped = x.stopped
    BY <2>1, StopDoes
  <2> HIDE DEF y
  <2>3. IInv(y)
    BY <2>1, <2>2 DEF IInv, Hears, Follows, Final, In, BootFirst
  <2> QED BY <1>1, <2>3 DEF down, y
<1>2. CASE ~x.running_
  BY <1>2 DEF down, Mid, IInv, Follows, In, BootFirst, Accepts
<1> QED BY <1>1, <1>2

(* The handler of MultiInstanceManager::stop. *)
LEMMA ShutdownKeeps ==
  ASSUME NEW x, Mid(x, "shutdown")
  PROVE  IInv(shutdown(x))
<1> DEFINE y == stop(x)
           z == [y EXCEPT !.vpn = "stopped", !.lwip = FALSE, !.stopped = TRUE]
<1>1. QueueInv(x) /\ ~In(x.queue, {"boot"}) /\ ~x.running_
  BY DEF Mid
<1>2. /\ QueueInv(y) /\ ~In(y.queue, {"boot"}) /\ y.running_ = x.running_
      /\ ~y.started_ /\ y.acceptor = "closed" /\ y.accepting = 0 /\ ~y.udp_
  BY <1>1, StopDoes
<1> HIDE DEF y
<1>3. /\ z \in Rec /\ z.queue = y.queue /\ z.up = y.up /\ z.running_ = y.running_
      /\ z.started_ = y.started_ /\ z.acceptor = y.acceptor
      /\ z.accepting = y.accepting /\ z.udp_ = y.udp_ /\ z.vpn = "stopped" /\ ~z.lwip
  BY <1>2, Zenon DEF QueueInv, Rec
<1>4. shutdown(x) = z
  BY DEF shutdown, y
<1> HIDE DEF z
<1>5. IInv(z)
  BY <1>1, <1>2, <1>3 DEF IInv, QueueInv, Hears, Follows, Final, In, BootFirst
<1> QED BY <1>4, <1>5

(* The thread runs the first task of the queue. *)
LEMMA RunTaskKeeps ==
  ASSUME Inv, RunTask
  PROVE  Inv'
<1> DEFINE x == [i EXCEPT !.queue = Tail(@)]
           task == Head(i.queue)
<1>1. Mid(x, task) /\ i' \in Run(x, task)
  BY TaskTaken, Zenon DEF Inv, RunTask
<1> HIDE DEF x, task
<1>2. task \in Tasks
  BY <1>1 DEF Mid
<1>3. CASE task = "boot"
  <2>1. i' \in boot(x)
    BY <1>1, <1>3 DEF Run, Accepts
  <2>2. Mid(x, "boot")
    BY <1>1, <1>3
  <2> QED BY <2>1, <2>2, BootKeeps DEF Inv
<1>4. CASE task = "ready"
  <2>1. i' \in ready(x)
    BY <1>1, <1>4 DEF Run, Accepts
  <2>2. Mid(x, "ready")
    BY <1>1, <1>4
  <2> QED BY <2>1, <2>2, ReadyKeeps DEF Inv
<1>5. CASE task = "down"
  <2>1. i' = down(x)
    BY <1>1, <1>5 DEF Run, Accepts
  <2>2. Mid(x, "down")
    BY <1>1, <1>5
  <2> QED BY <2>1, <2>2, DownKeeps DEF Inv
<1>6. CASE task = "shutdown"
  <2>1. i' = shutdown(x)
    BY <1>1, <1>6 DEF Run, Accepts
  <2>2. Mid(x, "shutdown")
    BY <1>1, <1>6
  <2> QED BY <2>1, <2>2, ShutdownKeeps DEF Inv
<1>7. CASE task \in Accepts
  <2>1. i' = Accepted(x, task)
    BY <1>1, <1>7 DEF Run, Accepts
  <2> QED BY <1>1, <1>7, <2>1, AcceptedKeeps DEF Inv
<1> QED BY <1>2, <1>3, <1>4, <1>5, <1>6, <1>7 DEF Tasks

(* One task behind the queue that is no tunnel event. *)
LEMMA QueueAppend ==
  ASSUME NEW q \in Seq(Tasks), NEW e \in Tasks \ (Events \cup {"boot"}), NEW up
  PROVE  LET s == Append(q, e)
         IN /\ s \in Seq(Tasks)
            /\ BootFirst(q) => BootFirst(s)
            /\ LastAgrees(q, up) => LastAgrees(s, up)
            /\ In(s, Events) <=> In(q, Events)
            /\ In(s, {"boot"}) <=> In(q, {"boot"})
            /\ \A T : In(q, T) \/ e \in T => In(s, T)
            /\ In(s, {"shutdown"}) => In(q, {"shutdown"}) \/ e = "shutdown"
<1> DEFINE r == <<e>>
           s == Append(q, e)
<1>1. r \in Seq(Tasks \ (Events \cup {"boot"})) /\ s = q \o r
  OBVIOUS
<1>2. In(r, {"shutdown"}) => e = "shutdown"
  BY DEF In
<1>3. Len(s) \in 1 .. Len(s) /\ s[Len(s)] = e
  OBVIOUS
<1> HIDE DEF r, s
<1>4. ASSUME NEW T, e \in T PROVE In(s, T)
  BY <1>3, <1>4 DEF In
<1> QED BY <1>1, <1>2, <1>4, QueueBehind DEF s

(* What other threads and the sockets append. *)
LEMMA OthersKeep ==
  ASSUME Inv, \/ \E task \in {"accepted", "failed"} : AcceptCompletes(task)
              \/ \E up \in BOOLEAN : TunnelEvent(up)
              \/ StopPosts \/ StopIo
  PROVE  Inv'
<1>1. /\ i \in Rec /\ i.queue \in Seq(Tasks) /\ BootFirst(i.queue)
      /\ LastAgrees(i.queue, i.up)
      /\ In(i.queue, {"shutdown"}) => ~i.running_
      /\ Hears(i) /\ Follows(i) /\ Final(i)
  BY DEF Inv, IInv, QueueInv, Rec
<1>2. ASSUME NEW task \in {"accepted", "failed"}, AcceptCompletes(task) PROVE Inv'
  <2> DEFINE s == Append(i.queue, task)
             n == i.accepting - 1
             m == i.clients + 1
             y == [i EXCEPT !.accepting = n, !.clients = m, !.queue = s]
  <2>0. task \in Tasks \ (Events \cup {"boot"}) /\ task \in Accepts /\ task # "shutdown"
    BY DEF Tasks, Events, Accepts
  <2>1. /\ s \in Seq(Tasks) /\ BootFirst(s) /\ LastAgrees(s, i.up)
        /\ In(s, Events) <=> In(i.queue, Events)
        /\ In(s, {"boot"}) <=> In(i.queue, {"boot"})
        /\ In(s, Accepts)
        /\ In(s, {"shutdown"}) => In(i.queue, {"shutdown"})
    BY <1>1, <2>0, QueueAppend
  <2>2. n \in Nat /\ m \in Nat /\ i' = y /\ i.accepting > 0
    BY <1>1, <1>2 DEF AcceptCompletes, Rec
  <2> HIDE DEF s, n, m
  <2>3. /\ y \in Rec /\ y.queue = s /\ y.up = i.up /\ y.running_ = i.running_
        /\ y.thread = i.thread /\ y.started_ = i.started_ /\ y.acceptor = i.acceptor
        /\ y.udp_ = i.udp_ /\ y.stopped = i.stopped
    BY <1>1, <2>1, <2>2, Zenon DEF Rec
  <2> HIDE DEF y
  <2>4. ~i.stopped
    BY <1>1, <2>2 DEF Final
  <2>5. IInv(y)
    BY <1>1, <2>1, <2>3, <2>4 DEF IInv, QueueInv, Hears, Follows, Final
  <2> QED BY <2>2, <2>5 DEF Inv
<1>3. ASSUME NEW up \in BOOLEAN, TunnelEvent(up) PROVE Inv'
  <2> DEFINE s == Append(i.queue, IF up THEN "ready" ELSE "down")
             m == i.events + 1
             y == [i EXCEPT !.up = up, !.events = m, !.queue = s]
  <2>1. /\ s \in Seq(Tasks) /\ BootFirst(s) /\ LastAgrees(s, up) /\ In(s, Events)
        /\ In(s, {"boot"}) <=> In(i.queue, {"boot"})
        /\ In(s, {"shutdown"}) <=> In(i.queue, {"shutdown"})
        /\ \A T : In(i.queue, T) => In(s, T)
    BY <1>1, QueueEvent
  <2>2. m \in Nat /\ i' = y
    <3>1. m \in Nat
      BY <1>1 DEF Rec
    <3>2. i' = y
      BY <1>3, Zenon DEF TunnelEvent
    <3> QED BY <3>1, <3>2
  <2> HIDE DEF s, m
  <2>3. /\ y \in Rec /\ y.queue = s /\ y.up = up /\ y.running_ = i.running_
        /\ y.thread = i.thread /\ y.started_ = i.started_ /\ y.acceptor = i.acceptor
        /\ y.udp_ = i.udp_ /\ y.stopped = i.stopped /\ y.accepting = i.accepting
        /\ y.vpn = i.vpn /\ y.lwip = i.lwip
    BY <1>1, <2>1, <2>2, Zenon DEF Rec
  <2> HIDE DEF y
  <2>4. IInv(y)
    BY <1>1, <2>1, <2>3 DEF IInv, QueueInv, Hears, Follows, Final
  <2> QED BY <2>2, <2>4 DEF Inv
<1>4. CASE StopPosts
  <2> DEFINE s == Append(i.queue, "shutdown")
             y == [i EXCEPT !.main = "waiting", !.running_ = FALSE, !.queue = s]
  <2>0. "shutdown" \in Tasks \ (Events \cup {"boot"})
    BY DEF Tasks, Events
  <2>1. /\ s \in Seq(Tasks) /\ BootFirst(s) /\ LastAgrees(s, i.up)
        /\ In(s, {"boot"}) <=> In(i.queue, {"boot"})
        /\ \A T : In(i.queue, T) => In(s, T)
    BY <1>1, <2>0, QueueAppend
  <2>2. i' = y
    BY <1>4 DEF StopPosts
  <2> HIDE DEF s
  <2>3. /\ y \in Rec /\ y.queue = s /\ y.up = i.up /\ ~y.running_
        /\ y.thread = i.thread /\ y.started_ = i.started_ /\ y.acceptor = i.acceptor
        /\ y.udp_ = i.udp_ /\ y.stopped = i.stopped /\ y.accepting = i.accepting
        /\ y.vpn = i.vpn /\ y.lwip = i.lwip
    BY <1>1, <2>1, Zenon DEF Rec
  <2> HIDE DEF y
  <2>4. IInv(y)
    BY <1>1, <2>1, <2>3 DEF IInv, QueueInv, Hears, Follows, Final
  <2> QED BY <2>2, <2>4 DEF Inv
<1>5. CASE StopIo
  <2> DEFINE t == IF i.thread = "running" THEN "stopped" ELSE i.thread
             y == [i EXCEPT !.main = "stopped", !.thread = t]
  <2>1. t \in {"dead", "stopped"} /\ i' = y
    BY <1>1, <1>5 DEF StopIo, Rec
  <2> HIDE DEF t
  <2>2. /\ y \in Rec /\ y.queue = i.queue /\ y.up = i.up /\ y.running_ = i.running_
        /\ y.thread # "running" /\ y.started_ = i.started_ /\ y.acceptor = i.acceptor
        /\ y.udp_ = i.udp_ /\ y.stopped = i.stopped /\ y.accepting = i.accepting
        /\ y.vpn = i.vpn /\ y.lwip = i.lwip
    BY <1>1, <2>1, Zenon DEF Rec
  <2> HIDE DEF y
  <2>3. IInv(y)
    BY <1>1, <2>2 DEF IInv, QueueInv, Hears, Follows, Final
  <2> QED BY <2>1, <2>3 DEF Inv
<1> QED BY <1>2, <1>3, <1>4, <1>5

\* The invariant holds in every state of the inbound.
LEMMA InvHolds == Spec => []Inv
<1>1. Init => Inv
  <2> SUFFICES ASSUME i = Fresh PROVE IInv(i)
    BY DEF Init, Inv
  <2>1. /\ i \in Rec /\ i.queue = <<"boot">> /\ ~i.up /\ ~i.started_ /\ ~i.stopped
    BY DEF Fresh, Rec, Tasks
  <2>2. ~In(i.queue, {"shutdown"}) /\ BootFirst(i.queue) /\ LastAgrees(i.queue, i.up)
    BY <2>1 DEF In, BootFirst, LastAgrees, Events
  <2> QED BY <2>1, <2>2 DEF IInv, QueueInv, Hears, Follows, Final
<1>2. Inv /\ [Next]_vars => Inv'
  <2> SUFFICES ASSUME Inv, [Next]_vars PROVE Inv'
    OBVIOUS
  <2>1. CASE RunTask
    BY <2>1, RunTaskKeeps
  <2>2. CASE \/ \E task \in {"accepted", "failed"} : AcceptCompletes(task)
             \/ \E up \in BOOLEAN : TunnelEvent(up)
             \/ StopPosts \/ StopIo
    BY <2>2, OthersKeep
  <2>3. CASE UNCHANGED vars
    BY <2>3 DEF Inv, vars
  <2> QED BY <2>1, <2>2, <2>3, Zenon DEF Next
<1> QED BY <1>1, <1>2, PTL DEF Spec

-----------------------------------------------------------------------------
\* ShadowsocksInbound never stays started without a listener and an accept
\* that is outstanding or about to be, for any number of events and clients.
THEOREM Hearing == Spec => []NeverDeaf
<1>1. Inv => NeverDeaf
  BY DEF Inv, IInv, Hears, NeverDeaf, Queued, In
<1> QED BY <1>1, InvHolds, PTL

\* The handlers posted by notify_tun_ready and notify_tun_down leave the
\* inbound started iff the tunnel is up, in whatever order they were posted.
THEOREM Following == Spec => []FollowsTunnel
<1>1. Inv => FollowsTunnel
  <2> SUFFICES ASSUME Inv, i.running_, i.thread = "running", ~In(i.queue, Events)
               PROVE  i.started_ = i.up
    BY DEF FollowsTunnel, Queued, In, Events
  <2>1. i.started_ <=> i.up
    BY DEF Inv, IInv, Follows
  <2>2. i.started_ \in BOOLEAN /\ i.up \in BOOLEAN
    BY DEF Inv, IInv, QueueInv, Rec
  <2> QED BY <2>1, <2>2
<1> QED BY <1>1, InvHolds, PTL

\* The shutdown handler of MultiInstanceManager::stop has the last word.
THEOREM Shut == Spec => []ShutdownIsFinal
<1>1. Inv => ShutdownIsFinal
  BY DEF Inv, IInv, Final, ShutdownIsFinal
<1> QED BY <1>1, InvHolds, PTL

-----------------------------------------------------------------------------
(* How many accept loops there can be. *)

\* The tasks whose handler may call accept_loop, and their places in a queue.
Owing == Accepts \cup {"ready"}

Owed(q) == {j \in 1 .. Len(q) : q[j] \in Owing}

\* Every accept that is outstanding, or may be started by a queued task, was
\* paid for by a tunnel event of its own, k of them kept in hand.
Budget(x, k) ==
  /\ x.accepting + Cardinality(Owed(x.queue)) + k <= x.events
  /\ x.events <= MaxEvents /\ x.clients <= MaxClients

(* The places in a queue that owe an accept are finitely many. *)
LEMMA OwedFinite ==
  ASSUME NEW q \in Seq(Tasks)
  PROVE  IsFiniteSet(Owed(q)) /\ Cardinality(Owed(q)) \in Nat
<1>1. Len(q) \in Nat
  OBVIOUS
<1>2. IsFiniteSet(1 .. Len(q))
  BY <1>1, FS_Interval
<1>3. Owed(q) \in SUBSET (1 .. Len(q))
  BY DEF Owed
<1>4. IsFiniteSet(Owed(q))
  BY <1>2, <1>3, FS_Subset
<1> QED BY <1>4, FS_CardinalityType

(* A task behind the queue. *)
LEMMA OwedAppend ==
  ASSUME NEW q \in Seq(Tasks), NEW e \in Tasks
  PROVE  Cardinality(Owed(Append(q, e)))
           = Cardinality(Owed(q)) + (IF e \in Owing THEN 1 ELSE 0)
<1> DEFINE s == Append(q, e)
           n == Len(q) + 1
<1>1. /\ Len(s) = n /\ Len(q) \in Nat /\ s[n] = e
      /\ \A j \in 1 .. Len(q) : s[j] = q[j]
  OBVIOUS
<1> HIDE DEF s
<1>2. n \notin Owed(q)
  BY <1>1 DEF Owed
<1>3. Owed(s) = IF e \in Owing THEN Owed(q) \cup {n} ELSE Owed(q)
  BY <1>1 DEF Owed
<1>4. IsFiniteSet(Owed(q)) /\ Cardinality(Owed(q)) \in Nat
  BY OwedFinite
<1> HIDE DEF n
<1>5. Cardinality(Owed(q) \cup {n}) = Cardinality(Owed(q)) + 1
  BY <1>2, <1>4, FS_AddElement, Zenon
<1>6. Cardinality(Owed(s)) = Cardinality(Owed(q)) + (IF e \in Owing THEN 1 ELSE 0)
  BY <1>3, <1>4, <1>5
<1> QED BY <1>6 DEF s

(* The first task leaves the queue. *)
LEMMA OwedTail ==
  ASSUME NEW q \in Seq(Tasks), q # <<>>
  PROVE  Cardinality(Owed(q))
           = Cardinality(Owed(Tail(q))) + (IF Head(q) \in Owing THEN 1 ELSE 0)
<1> DEFINE r == Tail(q)
           S == Owed(q) \ {1}
           T == Owed(r)
           f == [j \in T |-> j + 1]
<1>1. /\ r \in Seq(Tasks) /\ Len(r) = Len(q) - 1 /\ Len(q) \in Nat \ {0}
      /\ Head(q) = q[1]
      /\ \A j \in 1 .. Len(r) : r[j] = q[j + 1]
  OBVIOUS
<1> HIDE DEF r
<1>2. \A j \in T : j \in Int /\ j + 1 \in S
  BY <1>1 DEF Owed
<1>3. \A k \in S : k \in Int /\ k - 1 \in T
  BY <1>1 DEF Owed
<1>4. 1 \in Owed(q) <=> Head(q) \in Owing
  BY <1>1 DEF Owed
<1> HIDE DEF S, T
<1>5. f \in [T -> S] /\ \A a, b \in T : f[a] = f[b] => a = b
  BY <1>2
<1>6. \A k \in S : \E j \in T : f[j] = k
  <2> TAKE k \in S
  <2>1. k - 1 \in T /\ f[k - 1] = k
    BY <1>3
  <2> QED BY <2>1
<1>7. ExistsBijection(T, S)
  <2> HIDE DEF f
  <2> QED BY <1>5, <1>6, Fun_IsBij, Zenon DEF ExistsBijection
<1>8. Cardinality(S) = Cardinality(T)
  BY <1>1, <1>7, OwedFinite, FS_Bijection DEF T
<1>9. Cardinality(S) = IF 1 \in Owed(q) THEN Cardinality(Owed(q)) - 1
                       ELSE Cardinality(Owed(q))
  BY OwedFinite, FS_RemoveElement, Zenon DEF S
<1>10. Cardinality(Owed(q)) \in Nat
  BY OwedFinite
<1>11. Cardinality(Owed(q)) = Cardinality(T) + (IF Head(q) \in Owing THEN 1 ELSE 0)
  BY <1>4, <1>8, <1>9, <1>10
<1> QED BY <1>11 DEF T, r

(* stop() turns the outstanding accepts into aborted ones. *)
LEMMA OwedAborted ==
  ASSUME NEW q \in Seq(Tasks), NEW n \in Nat
  PROVE  Cardinality(Owed(q \o [k \in 1 .. n |-> "aborted"]))
           = Cardinality(Owed(q)) + n
<1> DEFINE r == [k \in 1 .. n |-> "aborted"]
           s == q \o r
           m == Len(q)
           A == m + 1 .. m + n
<1>1. r \in Seq(Tasks) /\ Len(r) = n /\ \A j \in 1 .. n : r[j] = "aborted"
  BY DEF Tasks, Accepts
<1> HIDE DEF r
<1>2. /\ Len(s) = m + n /\ m \in Nat
      /\ \A j \in 1 .. m : s[j] = q[j]
      /\ \A j \in A : s[j] = r[j - m]
  BY <1>1
<1> HIDE DEF s
<1>3. \A j \in A : s[j] \in Owing
  <2> TAKE j \in A
  <2>1. j - m \in 1 .. n
    BY <1>2
  <2> QED BY <1>1, <1>2, <2>1 DEF Owing, Accepts
<1>4. Owed(s) = Owed(q) \cup A
  <2>1. \A j : j \in 1 .. Len(s) <=> j \in 1 .. m \/ j \in A
    BY <1>2
  <2> HIDE DEF A, m
  <2> QED BY <1>2, <1>3, <2>1 DEF Owed, m
<1>5. Owed(q) \cap A = {}
  BY <1>2 DEF Owed
<1>6. IsFiniteSet(Owed(q)) /\ Cardinality(Owed(q)) \in Nat
  BY OwedFinite
<1>7. IsFiniteSet(A) /\ Cardinality(A) = n
  <2>1. m + 1 \in Int /\ m + n \in Int
    BY <1>2
  <2>2. IsFiniteSet(A) /\ Cardinality(A) = IF m + 1 > m + n THEN 0
                                           ELSE (m + n) - (m + 1) + 1
    BY <2>1, FS_Interval, Zenon
  <2> HIDE DEF A
  <2> QED BY <1>2, <2>2
<1> HIDE DEF A
<1>8. Cardinality(Owed(s)) = Cardinality(Owed(q)) + n - Cardinality({})
  BY <1>4, <1>5, <1>6, <1>7, FS_Union
<1>9. Cardinality(Owed(s)) = Cardinality(Owed(q)) + n
  BY <1>6, <1>8, FS_EmptySet
<1> QED BY <1>9 DEF s, r

(* stop() keeps the balance, and empties the hand. *)
LEMMA StopBudget ==
  ASSUME NEW x \in Rec, Budget(x, 0)
  PROVE  /\ Budget(stop(x), 0)
         /\ stop(x).accepting = 0 /\ stop(x).events = x.events
         /\ stop(x).clients = x.clients
<1> DEFINE q == x.queue \o [n \in 1 .. x.accepting |-> "aborted"]
           y == stop(x)
<1>1. /\ x.queue \in Seq(Tasks) /\ x.accepting \in Nat /\ x.events \in Nat
  BY DEF Rec
<1>2. y.queue = q /\ y.accepting = 0 /\ y.events = x.events /\ y.clients = x.clients
  BY DEF stop, Rec
<1>3. Cardinality(Owed(q)) = Cardinality(Owed(x.queue)) + x.accepting
  BY <1>1, OwedAborted
<1>4. Cardinality(Owed(x.queue)) \in Nat
  BY <1>1, OwedFinite
<1> HIDE DEF q, y
<1>5. Budget(y, 0)
  BY <1>1, <1>2, <1>3, <1>4 DEF Budget
<1> QED BY <1>2, <1>5 DEF y

(* start() calls accept_loop at most once. *)
LEMMA StartBudget ==
  ASSUME NEW x \in Rec, Budget(x, 1), NEW z \in start(x)
  PROVE  Budget(z, 0)
<1>1. /\ z.queue = x.queue /\ z.events = x.events /\ z.clients = x.clients
      /\ z.accepting = x.accepting \/ z.accepting = x.accepting + 1
  <2> DEFINE y == [x EXCEPT !.started_ = TRUE]
             a == [y EXCEPT !.acceptor = "listening"]
             b == [a EXCEPT !.accepting = @ + 1]
             c == [b EXCEPT !.udp_ = TRUE]
             o == [y EXCEPT !.acceptor = "open"]
             Same(u) == /\ u.queue = x.queue /\ u.events = x.events
                        /\ u.clients = x.clients
                        /\ {"thread", "acceptor", "accepting", "udp_", "queue",
                            "events", "clients"} \subseteq DOMAIN u
  <2>1. z = x \/ z = Dies(y) \/ z = Dies(o) \/ z = b \/ z = c \/ z = Dies(b)
    BY DEF start, StartUdp, accept_loop
  <2>2. Same(y) /\ y.accepting = x.accepting
    BY DEF Rec
  <2> HIDE DEF y
  <2>3. Same(a) /\ a.accepting = x.accepting
    BY <2>2
  <2> HIDE DEF a
  <2>4. Same(b) /\ b.accepting = x.accepting + 1
    BY <2>3
  <2> HIDE DEF b
  <2>5. /\ Same(o) /\ o.accepting = x.accepting
        /\ Same(c) /\ c.accepting = x.accepting + 1
    BY <2>2, <2>4
  <2> HIDE DEF o, c
  <2>6. \A u : Same(u) => Same(Dies(u)) /\ Dies(u).accepting = u.accepting
    BY DEF Dies
  <2> HIDE DEF Same
  <2>7. \/ z = x
        \/ Same(z) /\ (z.accepting = x.accepting \/ z.accepting = x.accepting + 1)
    BY Zenon, <2>1, <2>2, <2>4, <2>5, <2>6
  <2> QED BY <2>7 DEF Same
<1>2. /\ x.accepting \in Nat /\ x.events \in Nat
      /\ Cardinality(Owed(x.queue)) \in Nat
  BY OwedFinite DEF Rec
<1> QED BY <1>1, <1>2 DEF Budget

(* The handler of a task spends no more than the task had in hand. *)
LEMMA RunBudget ==
  ASSUME NEW x \in Rec, NEW task \in Tasks,
         Budget(x, IF task \in Owing THEN 1 ELSE 0), NEW z \in Run(x, task)
  PROVE  Budget(z, 0)
<1>1. /\ x.accepting \in Nat /\ x.events \in Nat
      /\ Cardinality(Owed(x.queue)) \in Nat
  BY OwedFinite DEF Rec
<1>2. Budget(x, 0)
  BY <1>1 DEF Budget
<1>3. CASE task = "boot"
  <2>1. z \in boot(x)
    BY <1>3 DEF Run, Accepts
  <2>2. /\ z.queue = x.queue /\ z.events = x.events /\ z.clients = x.clients
        /\ z.accepting = x.accepting
    BY <2>1, Zenon DEF boot, Rec
  <2> QED BY <1>2, <2>2 DEF Budget
<1>4. CASE task = "ready"
  <2>1. z \in ready(x) /\ Budget(x, 1)
    BY <1>4 DEF Run, Accepts, Owing
  <2> QED BY <1>2, <2>1, StartBudget DEF ready
<1>5. CASE task = "down"
  <2>1. z = down(x)
    BY <1>5 DEF Run, Accepts
  <2> QED BY <1>2, <2>1, StopBudget DEF down
<1>6. CASE task = "shutdown"
  <2> DEFINE y == stop(x)
  <2>1. z = [y EXCEPT !.vpn = "stopped", !.lwip = FALSE, !.stopped = TRUE]
    BY <1>6 DEF Run, Accepts, shutdown
  <2>2. {"queue", "events", "clients", "accepting"} \subseteq DOMAIN y
    BY DEF stop, Rec
  <2> HIDE DEF y
  <2>3. /\ z.queue = y.queue /\ z.events = y.events /\ z.clients = y.clients
        /\ z.accepting = y.accepting
    BY <2>1, <2>2
  <2>4. Budget(y, 0)
    BY <1>2, StopBudget DEF y
  <2> QED BY <2>3, <2>4 DEF Budget
<1>7. CASE task \in Accepts
  <2>1. z = Accepted(x, task) /\ Budget(x, 1)
    BY <1>7 DEF Run, Accepts, Owing
  <2>2. /\ z.queue = x.queue /\ z.events = x.events /\ z.clients = x.clients
        /\ z.accepting = x.accepting \/ z.accepting = x.accepting + 1
    BY <2>1 DEF Accepted, accept_loop, Rec
  <2> QED BY <1>1, <2>1, <2>2 DEF Budget
<1> QED BY <1>3, <1>4, <1>5, <1>6, <1>7 DEF Tasks

(* Every step keeps the balance. *)
LEMMA StepBudget ==
  ASSUME Inv, Budget(i, 0), [Next]_vars
  PROVE  Budget(i, 0)'
<1>1. /\ i \in Rec /\ i.queue \in Seq(Tasks) /\ i.accepting \in Nat
      /\ i.events \in Nat /\ i.clients \in Nat
      /\ Cardinality(Owed(i.queue)) \in Nat
  BY OwedFinite DEF Inv, IInv, QueueInv, Rec
<1>2. CASE RunTask
  <2> DEFINE r == Tail(i.queue)
             x == [i EXCEPT !.queue = r]
             task == Head(i.queue)
  <2>1. i.queue # <<>> /\ i' \in Run(x, task)
    BY <1>2 DEF RunTask
  <2>2. task \in Tasks /\ r \in Seq(Tasks)
    BY <1>1, <2>1
  <2>3. Cardinality(Owed(i.queue))
          = Cardinality(Owed(r)) + (IF task \in Owing THEN 1 ELSE 0)
    BY <1>1, <2>1, OwedTail
  <2> HIDE DEF r, task
  <2>4. /\ x \in Rec /\ x.queue = r /\ x.accepting = i.accepting
        /\ x.events = i.events /\ x.clients = i.clients
    BY <1>1, <2>2 DEF Rec
  <2>5. Cardinality(Owed(r)) \in Nat
    BY <2>2, OwedFinite
  <2> HIDE DEF x
  <2>6. Budget(x, IF task \in Owing THEN 1 ELSE 0)
    BY <1>1, <2>3, <2>4, <2>5 DEF Budget
  <2> QED BY <2>1, <2>2, <2>4, <2>6, RunBudget
<1>3. ASSUME NEW task \in {"accepted", "failed"}, AcceptCompletes(task)
      PROVE  Budget(i, 0)'
  <2> DEFINE q == Append(i.queue, task)
  <2>1. /\ i'.queue = q /\ i'.accepting = i.accepting - 1 /\ i'.events = i.events
        /\ i'.clients = i.clients + 1 /\ i.clients < MaxClients /\ i.accepting > 0
    BY <1>1, <1>3 DEF AcceptCompletes, Rec
  <2>2. task \in Tasks /\ task \in Owing
    BY DEF Tasks, Owing, Accepts
  <2>3. Cardinality(Owed(q)) = Cardinality(Owed(i.queue)) + 1
    BY <1>1, <2>2, OwedAppend
  <2> DEFINE c == Cardinality(Owed(i.queue))
             d == Cardinality(Owed(q))
             n == i.accepting
             m == i.events
             k == i.clients
  <2>4. /\ c \in Nat /\ i.accepting + c + 0 <= i.events /\ i.events <= MaxEvents
        /\ d = c + 1
    BY <1>1, <2>3 DEF Budget
  <2>5. n \in Nat /\ m \in Nat /\ k \in Nat /\ k < MaxClients /\ n + c + 0 <= m
    BY Zenon, <1>1, <2>1, <2>4
  <2> HIDE DEF c, d, n, m, k
  <2>6. (n - 1) + d + 0 <= m /\ k + 1 <= MaxClients
    BY <2>4, <2>5, Bounds
  <2> QED BY <2>1, <2>4, <2>6 DEF Budget, d, n, m, k
<1>4. ASSUME NEW up \in BOOLEAN, TunnelEvent(up) PROVE Budget(i, 0)'
  <2> DEFINE e == IF up THEN "ready" ELSE "down"
             q == Append(i.queue, e)
  <2>1. /\ i'.queue = q /\ i'.accepting = i.accepting /\ i'.events = i.events + 1
        /\ i'.clients = i.clients /\ i.events < MaxEvents
    BY <1>1, <1>4 DEF TunnelEvent, Rec
  <2>2. e \in Tasks
    BY DEF Tasks
  <2> HIDE DEF e
  <2>3. Cardinality(Owed(q)) = Cardinality(Owed(i.queue)) + (IF e \in Owing THEN 1 ELSE 0)
    BY <1>1, <2>2, OwedAppend
  <2> DEFINE c == Cardinality(Owed(i.queue))
             d == Cardinality(Owed(q))
  <2>4. d \in Nat /\ d <= c + 1
    BY <1>1, <2>3
  <2>5. c \in Nat /\ i.accepting + c + 0 <= i.events /\ i.clients <= MaxClients
    BY <1>1 DEF Budget
  <2> HIDE DEF c, d
  <2>6. i.accepting + d + 0 <= i.events + 1 /\ i.events + 1 <= MaxEvents
    BY <1>1, <2>1, <2>4, <2>5, Bounds
  <2> QED BY <2>1, <2>5, <2>6 DEF Budget, d
<1>5. CASE StopPosts
  <2> DEFINE q == Append(i.queue, "shutdown")
  <2>1. /\ i'.queue = q /\ i'.accepting = i.accepting /\ i'.events = i.events
        /\ i'.clients = i.clients
    BY <1>1, <1>5 DEF StopPosts, Rec
  <2>2. "shutdown" \in Tasks /\ "shutdown" \notin Owing
    BY DEF Tasks, Owing, Accepts
  <2>3. Cardinality(Owed(q)) = Cardinality(Owed(i.queue)) + 0
    BY <1>1, <2>2, OwedAppend
  <2> HIDE DEF q
  <2> QED BY <1>1, <2>1, <2>3 DEF Budget
<1>6. CASE StopIo
  <2>1. /\ i'.queue = i.queue /\ i'.accepting = i.accepting /\ i'.events = i.events
        /\ i'.clients = i.clients
    BY <1>1, <1>6 DEF StopIo, Rec
  <2> QED BY <2>1 DEF Budget
<1>7. CASE UNCHANGED vars
  BY <1>7 DEF Budget, vars
<1> QED BY <1>2, <1>3, <1>4, <1>5, <1>6, <1>7, Zenon DEF Next

\* Restarts that overtake the aborted accepts of the stop before them add
\* accept loops, but never more than there have been tunnel events.
THEOREM TypeCorrect == Spec => []TypeOK
<1>1. Init => Budget(i, 0)
  <2> SUFFICES ASSUME i = Fresh PROVE Budget(i, 0)
    BY DEF Init
  <2>1. /\ i.queue = <<"boot">> /\ i.accepting = 0 /\ i.events = 0 /\ i.clients = 0
    BY DEF Fresh
  <2>2. Owed(i.queue) = {}
    BY <2>1 DEF Owed, Owing, Accepts
  <2> QED BY <2>1, <2>2, FS_EmptySet, Bounds DEF Budget
<1>2. Inv /\ Budget(i, 0) /\ [Next]_vars => Budget(i, 0)'
  BY StepBudget
<1>3. Inv /\ Budget(i, 0) => TypeOK
  <2> SUFFICES ASSUME i \in Rec, Budget(i, 0)
               PROVE  i \in Instance /\ i.accepting <= i.events
    BY DEF Inv, IInv, QueueInv, TypeOK
  <2>1. /\ i.accepting \in Nat /\ i.events \in Nat /\ i.clients \in Nat
        /\ Cardinality(Owed(i.queue)) \in Nat
    BY OwedFinite DEF Rec
  <2>2. /\ i.accepting <= i.events /\ i.events \in 0 .. MaxEvents
        /\ i.clients \in 0 .. MaxClients
    BY <2>1, Bounds DEF Budget
  <2> QED BY <2>2 DEF Rec, Instance
<1> QED BY <1>1, <1>2, <1>3, InvHolds, PTL DEF Spec
=============================================================================
