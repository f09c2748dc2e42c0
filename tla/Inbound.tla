------------------------------ MODULE Inbound ------------------------------
(***************************************************************************)
(* One instance as its Asio thread sees it: ShadowsocksInbound, started    *)
(* and stopped by handlers the OpenVPN thread posts when the tunnel comes  *)
(* up or goes down, and the shutdown MultiInstanceManager::stop posts from *)
(* the main thread.  The io_context runs what is queued in order; closing  *)
(* the acceptor queues the aborted accepts behind what is posted already.  *)
(***************************************************************************)
EXTENDS Integers, Sequences

CONSTANTS
  HasUdp,     \* config_.udp_port # 0
  BindFails,  \* whether opening or binding a listening socket may fail
  MaxEvents,  \* bound: tunnel events
  MaxClients  \* bound: connections (or errors) that complete an accept

ASSUME Flags == HasUdp \in BOOLEAN /\ BindFails \in BOOLEAN
ASSUME Bounds == MaxEvents \in Nat /\ MaxClients \in Nat

VARIABLE i  \* the instance

vars == <<i>>

Accepts == {"accepted", "failed", "aborted"}

Tasks == {"boot", "ready", "down", "shutdown"} \cup Accepts

Instance ==
  [ running_  : BOOLEAN,                         \* the manager's
    main      : {"run", "waiting", "stopped"},   \* the main thread in stop()
    thread    : {"running", "dead", "stopped"},  \* dead: a handler threw
    queue     : Seq(Tasks),
    lwip      : BOOLEAN,                         \* LwipRuntime::running_
    vpn       : {"idle", "running", "stopped"},
    up        : BOOLEAN,                         \* the last tunnel event
    started_  : BOOLEAN,
    acceptor  : {"closed", "open", "listening"},
    accepting : Nat,                             \* outstanding async_accepts
    udp_      : BOOLEAN,
    stopped   : BOOLEAN,                         \* the promise of stop()
    events    : 0 .. MaxEvents,
    clients   : 0 .. MaxClients ]

\* After MultiInstanceManager::start.
Fresh ==
  [ running_ |-> TRUE, main |-> "run", thread |-> "running",
    queue |-> <<"boot">>, lwip |-> FALSE, vpn |-> "idle", up |-> FALSE,
    started_ |-> FALSE, acceptor |-> "closed", accepting |-> 0, udp_ |-> FALSE,
    stopped |-> FALSE, events |-> 0, clients |-> 0 ]

Queued(x, tasks) == \E j \in 1 .. Len(x.queue) : x.queue[j] \in tasks

-----------------------------------------------------------------------------
(* ShadowsocksInbound. *)

Dies(x) == [x EXCEPT !.thread = "dead"]

accept_loop(x) == [x EXCEPT !.accepting = @ + 1]

\* The UDP part of start(): the constructor binds the socket and may throw.
StartUdp(x) ==
  IF ~HasUdp \/ x.udp_ THEN {x}
  ELSE {[x EXCEPT !.udp_ = TRUE]} \cup (IF BindFails THEN {Dies(x)} ELSE {})

\* start(), with an exception leaving started_ set; the exception ends
\* io_context::run and with it the thread.
start(x) ==
  IF x.started_ THEN {x}
  ELSE LET y == [x EXCEPT !.started_ = TRUE]
       IN StartUdp(accept_loop([y EXCEPT !.acceptor = "listening"]))
          \cup (IF BindFails /\ x.acceptor = "closed"
                THEN {Dies(y), Dies([y EXCEPT !.acceptor = "open"])} ELSE {})

\* Variant: started_ stays set.
stopKeepsStarted(x) ==
  [x EXCEPT !.acceptor = "closed", !.accepting = 0, !.udp_ = FALSE,
            !.queue = @ \o [n \in 1 .. x.accepting |-> "aborted"]]

stop(x) ==
  [x EXCEPT !.started_ = FALSE, !.acceptor = "closed", !.accepting = 0,
            !.udp_ = FALSE,
            !.queue = @ \o [n \in 1 .. x.accepting |-> "aborted"]]

\* Variant: an error ends the loop.
acceptLoopEnds(x, task) ==
  IF task = "accepted" /\ x.acceptor # "closed" THEN accept_loop(x) ELSE x

\* Variant: each handler starts two accepts.
acceptTwice(x, task) ==
  IF x.acceptor # "closed" THEN accept_loop(accept_loop(x)) ELSE x

\* The accept handler, for a connection, an error or an abort: it accepts
\* again whenever the acceptor is open, by then perhaps for a later start().
Accepted(x, task) == IF x.acceptor # "closed" THEN accept_loop(x) ELSE x

-----------------------------------------------------------------------------
(* The handlers the manager and the OpenVPN thread post. *)

\* start_instance: an exception from OpenVpnClient::start stops lwIP again.
boot(x) ==
  {[x EXCEPT !.lwip = TRUE, !.vpn = "running"], [x EXCEPT !.lwip = FALSE]}

\* Variant: running_ is not looked at.
readyUnchecked(x) == start(x)

ready(x) == IF x.running_ THEN start(x) ELSE {x}

down(x) == IF x.running_ THEN stop(x) ELSE x

shutdown(x) == [stop(x) EXCEPT !.vpn = "stopped", !.lwip = FALSE, !.stopped = TRUE]

\* What the thread makes of the first task in the queue.
Run(x, task) ==
  CASE task = "boot"     -> boot(x)
    [] task = "ready"    -> ready(x)
    [] task = "down"     -> {down(x)}
    [] task = "shutdown" -> {shutdown(x)}
    [] task \in Accepts  -> {Accepted(x, task)}

RunTask ==
  /\ i.thread = "running" /\ i.queue # <<>>
  /\ i' \in Run([i EXCEPT !.queue = Tail(@)], Head(i.queue))

\* A connection, or an error such as a lack of descriptors.
AcceptCompletes(task) ==
  /\ i.accepting > 0 /\ i.thread = "running" /\ i.clients < MaxClients
  /\ i' = [i EXCEPT !.accepting = @ - 1, !.clients = @ + 1,
                    !.queue = Append(@, task)]

\* The OpenVPN thread: notify_tun_ready and notify_tun_down post; a handler
\* copied before shutdown cleared it may post after it.
TunnelEvent(ready_) ==
  /\ i.vpn # "idle" /\ i.events < MaxEvents
  /\ i' = [i EXCEPT !.up = ready_, !.events = @ + 1,
                    !.queue = Append(@, IF ready_ THEN "ready" ELSE "down")]

\* The main thread in MultiInstanceManager::stop.
StopPosts ==
  /\ i.main = "run"
  /\ i' = [i EXCEPT !.main = "waiting", !.running_ = FALSE,
                    !.queue = Append(@, "shutdown")]

\* wait_for returns, after two seconds at the latest, and the io_context is
\* stopped.
StopIo ==
  /\ i.main = "waiting"
  /\ i' = [i EXCEPT !.main = "stopped",
                    !.thread = IF @ = "running" THEN "stopped" ELSE @]

Init == i = Fresh

Next ==
  \/ RunTask \/ AcceptCompletes("accepted") \/ AcceptCompletes("failed")
  \/ TunnelEvent(TRUE) \/ TunnelEvent(FALSE)
  \/ StopPosts \/ StopIo

Spec == Init /\ [][Next]_vars

\* The thread runs what is queued, and wait_for returns.
FairSpec == Spec /\ WF_vars(RunTask) /\ WF_vars(StopIo)

-----------------------------------------------------------------------------
\* The instance's members have their types.  Restarts that overtake aborted
\* accepts add accept loops, but at no time have more accepts been outstanding
\* than tunnel events posted so far.
TypeOK == i \in Instance /\ i.accepting <= i.events

\* While started, the inbound is never deaf: it listens, and an accept is
\* outstanding or a handler that will start one is queued, whatever stops,
\* starts, connections and aborted accepts are queued together.
NeverDeaf ==
  i.started_ /\ i.thread = "running" =>
    /\ i.acceptor = "listening"
    /\ i.accepting > 0 \/ Queued(i, Accepts)
    /\ HasUdp => i.udp_

\* Once the posted tunnel events have run, the inbound is started iff the
\* last one said that the tunnel is up.
FollowsTunnel ==
  i.running_ /\ i.thread = "running" /\ ~Queued(i, {"ready", "down"}) =>
    i.started_ = i.up

\* After shutdown nothing comes back: tunnel events and accepts still queued,
\* or posted later, open nothing.
ShutdownIsFinal ==
  i.stopped =>
    /\ ~i.started_ /\ i.acceptor = "closed" /\ i.accepting = 0 /\ ~i.udp_
    /\ i.vpn = "stopped" /\ ~i.lwip

\* A tunnel that stays up gets its listener for good, and one that stays down
\* loses it, in an instance whose thread no failed bind has ended.
ListenerFollowsTunnel ==
  \A up \in BOOLEAN :
    <>[](i.thread = "running" /\ i.running_ /\ i.up = up)
      => <>[](i.started_ = up)
=============================================================================
