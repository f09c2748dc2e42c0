----------------------------- MODULE VpnClient -----------------------------
(***************************************************************************)
(* OpenVpnClient with its tun builder, and the part of LwipRuntime that    *)
(* carries packets to it, from start to the destruction of the instance.   *)
(* Four threads share them:                                                *)
(*   "vpn"   the connect loop; the OpenVPN core calls back on it;          *)
(*   "io"    the instance's Asio thread: lwIP, the posted shutdown;        *)
(*   "peer"  another instance's Asio thread, whose lwIP timers serve the   *)
(*           PCBs of every instance;                                       *)
(*   "main"  MultiInstanceManager::stop and the destructors.               *)
(* A step runs from one lock, or one read of another thread's state, to    *)
(* the next.  A section that takes no further lock is one step, taken when *)
(* its lock is free; `holder' records the locks held across steps.         *)
(***************************************************************************)
EXTENDS Integers, FiniteSets

CONSTANTS
  InitialDelay, MaxDelay,  \* reconnect_delay_ms: 2000 and 30000
  NonPreferred,  \* scan_ovpn_for_non_aead_cipher: the profile names an old cipher
  Pushes,     \* what a server may push: see Push
  MaxTuns,    \* bound: tun objects
  MaxRounds   \* bound: connects that end, but for the last, without a stop()

Families == {"v4", "v6"}

\* The addresses of a TunConfig: their families, and whether one of them
\* makes apply_tun_config_locked throw.
Push == [families : SUBSET Families, bad : BOOLEAN]

ASSUME Delays == InitialDelay \in Nat /\ MaxDelay \in Nat /\ 0 < InitialDelay
                 /\ InitialDelay <= MaxDelay
ASSUME NonPreferredType == NonPreferred \in BOOLEAN
ASSUME PushesType == Pushes \subseteq Push
ASSUME VpnBounds == MaxTuns \in Nat /\ MaxRounds \in Nat

VARIABLES
  pc, holder,
  running_, needs_downgrade_, handlers,                  \* OpenVpnClient
  using_np, delay, threw, rounds,                        \* the connect loop
  enabled_np, stopping, missed,                          \* the core, impl_
  tun, tun_state, memory_tun, connected,                 \* its tuns
  output, active_config_, addr,                          \* LwipRuntime
  packet,                                                \* being sent
  last_event, stopped

\* threw, missed and last_event are history: how connect() last ended, whether
\* a stop() found the core not connecting yet, what was posted last.
clientVars == <<running_, needs_downgrade_, handlers>>
loopVars   == <<using_np, delay, threw, rounds>>
coreVars   == <<enabled_np, stopping, missed>>
tunVars    == <<tun, tun_state, memory_tun, connected>>
lwipVars   == <<output, active_config_, addr>>
eventVars  == <<last_event, stopped>>
data == <<clientVars, loopVars, coreVars, tunVars, lwipVars, packet, eventVars>>
vars == <<pc, holder, data>>

-----------------------------------------------------------------------------
(* Threads, locks and where a thread waits for one. *)

Stack == {"io", "peer"}

Threads == {"main", "vpn"} \cup Stack

Locks == {"global", "impl", "core", "handler"}

Nobody == "nobody"

Waiting ==
  [ global  |-> {"establish", "teardown", "ss_stop", "lwip_stop",
                 "netif_remove"},
    impl    |-> {"lock_impl", "stop_impl", "reset", "downgrade"},
    core    |-> {"lock_core", "new_tun", "event"},
    handler |-> {"clear_ready", "clear_down", "notify_ready", "notify_down",
                 "event_notify"} ]

Wants(t, l) == pc[t] \in Waiting[l]

\* Inside connect(): the core's io_context exists and a stop() reaches it.
InCore == {"core", "new_tun", "establish", "teardown", "notify_ready",
           "post_ready", "notify_down", "post_down", "event", "event_notify",
           "event_post"}

VpnLabels == InCore \cup {"none", "test", "connect", "return", "downgrade",
                          "after", "sleep", "reset", "exit", "done"}

\* In send_l3_packet, called with the global lock held.
Sending == {"lock_impl", "lock_core", "inject", "post"}

IoLabels == Sending \cup {"boot", "idle", "stack", "clear_ready",
                          "clear_down", "ss_stop", "stop", "stop_impl",
                          "lwip_stop"}

PeerLabels == Sending \cup {"idle", "stack"}

\* In the order in which the instance goes away.
MainLabels == {"run", "waiting", "join_io", "ss_stop", "stop", "stop_impl",
               "join_vpn", "lwip_stop", "netif_remove", "done"}

\* The handlers and their mutex are gone from join_vpn on, the rest of the
\* client after it.
HandlersGone == pc["main"] \in {"join_vpn", "lwip_stop", "netif_remove", "done"}

ClientGone == pc["main"] \in {"lwip_stop", "netif_remove", "done"}

Goto(t, label) == pc' = [pc EXCEPT ![t] = label]

Free(l) == holder[l] = Nobody

Acquire(t, l) == Free(l) /\ holder' = [holder EXCEPT ![l] = t]

Release(l) == holder' = [holder EXCEPT ![l] = Nobody]

-----------------------------------------------------------------------------
NoPush == [families |-> {}, bad |-> FALSE]

NoPacket == [under |-> 0, tun |-> 0]

Config == [tun : 0 .. MaxTuns, push : Push]

Init ==
  /\ pc = [t \in Threads |-> CASE t = "main" -> "run" [] t = "vpn" -> "none"
                               [] t = "io" -> "boot" [] t = "peer" -> "idle"]
  /\ holder = [l \in Locks |-> Nobody]
  /\ running_ = FALSE /\ needs_downgrade_ = FALSE
  /\ handlers = {"ready", "down"}
  /\ using_np = FALSE /\ delay = InitialDelay /\ threw = FALSE /\ rounds = 0
  /\ enabled_np = FALSE /\ stopping = FALSE /\ missed = FALSE
  /\ tun = 0 /\ tun_state = "none" /\ memory_tun = 0 /\ connected = 0
  /\ output = FALSE /\ active_config_ = [tun |-> 0, push |-> NoPush]
  /\ addr = [f \in Families |-> 0]
  /\ packet = NoPacket
  /\ last_event = "none" /\ stopped = FALSE

-----------------------------------------------------------------------------
(* The connect loop. *)

\* OpenVpnClient::start in start_instance's handler: the profile cannot be
\* opened or evaluated and start_instance stops lwIP again, or the thread
\* starts.
Start ==
  /\ pc["io"] = "boot" /\ pc["main"] \in {"run", "waiting"}
  /\ \/ /\ pc' = [pc EXCEPT !["io"] = "idle", !["vpn"] = "test"]
        /\ running_' = TRUE
        /\ using_np' = NonPreferred /\ enabled_np' = NonPreferred
     \/ /\ Goto("io", "idle")
        /\ UNCHANGED <<running_, using_np, enabled_np>>
  /\ UNCHANGED <<holder, needs_downgrade_, handlers, delay, threw, rounds,
                 stopping, missed, tunVars, lwipVars, packet, eventVars>>

Test ==
  /\ pc["vpn"] = "test"
  /\ Goto("vpn", IF ~running_ THEN "exit" ELSE "connect")
  /\ UNCHANGED <<holder, data>>

\* connect() begins; a stop() that came before is not remembered.
EnterConnect ==
  /\ pc["vpn"] = "connect"
  /\ Goto("vpn", "core")
  /\ UNCHANGED <<holder, data>>

\* connect() has returned, with an error or not.
Returned(downgrade) ==
  /\ pc["vpn"] = "return"
  /\ delay' = InitialDelay /\ threw' = FALSE /\ needs_downgrade_' = FALSE
  /\ using_np' = (using_np \/ downgrade)
  /\ Goto("vpn", IF downgrade THEN "downgrade" ELSE "after")
  /\ UNCHANGED <<holder, running_, handlers, rounds, coreVars, tunVars,
                 lwipVars, packet, eventVars>>

MustDowngrade == needs_downgrade_ /\ ~using_np /\ running_

\* Variant: the request to downgrade is dropped without the switch.
ReturnForgets == Returned(FALSE)

Return == Returned(MustDowngrade)

\* connect() throws; the handler keeps the delay and needs_downgrade_.
Throws ==
  /\ pc["vpn"] = "core" /\ tun_state = "none" /\ rounds < MaxRounds
  /\ Goto("vpn", "after") /\ threw' = TRUE
  /\ UNCHANGED <<holder, clientVars, using_np, delay, rounds, coreVars,
                 tunVars, lwipVars, packet, eventVars>>

After ==
  /\ pc["vpn"] = "after"
  /\ Goto("vpn", IF ~running_ THEN "exit" ELSE "sleep")
  /\ UNCHANGED <<holder, data>>

\* The wait is over, or a stop ended it.
Sleep ==
  /\ pc["vpn"] = "sleep"
  /\ IF running_
     THEN /\ Goto("vpn", "reset")
          /\ delay' = IF 2 * delay <= MaxDelay THEN 2 * delay ELSE MaxDelay
     ELSE Goto("vpn", "exit") /\ UNCHANGED delay
  /\ threw' = FALSE
  /\ UNCHANGED <<holder, clientVars, using_np, rounds, coreVars, tunVars,
                 lwipVars, packet, eventVars>>

\* A new Impl, its core evaluated with np; a failure ends the thread.
NewImpl(np) ==
  /\ Free("impl")
  /\ enabled_np' = np /\ stopping' = FALSE /\ memory_tun' = 0
  /\ rounds' = rounds + 1
  /\ \/ Goto("vpn", "test") /\ UNCHANGED running_
     \/ Goto("vpn", "done") /\ running_' = FALSE
  /\ UNCHANGED <<holder, needs_downgrade_, handlers, using_np, delay, threw,
                 missed, tun, tun_state, connected, lwipVars, packet, eventVars>>

\* Variant: the core is evaluated as the first one was.
ResetForgets == pc["vpn"] = "reset" /\ NewImpl(NonPreferred)

Reset == pc["vpn"] = "reset" /\ NewImpl(using_np)

Downgrade == pc["vpn"] = "downgrade" /\ NewImpl(TRUE)

Exit ==
  /\ pc["vpn"] = "exit"
  /\ Goto("vpn", "done") /\ running_' = FALSE
  /\ UNCHANGED <<holder, needs_downgrade_, handlers, loopVars, coreVars,
                 tunVars, lwipVars, packet, eventVars>>

-----------------------------------------------------------------------------
(* Inside connect(): what the core calls.  The core stops a tun before it   *)
(* makes another and before connect() ends.                                 *)

\* MemoryTunFactory::new_tun_client_obj, up to CoreClient::set_memory_tun.
NewTun ==
  /\ pc["vpn"] = "core" /\ tun_state = "none" /\ ~stopping /\ tun < MaxTuns
  /\ Goto("vpn", "new_tun")
  /\ UNCHANGED <<holder, data>>

set_memory_tun ==
  /\ pc["vpn"] = "new_tun" /\ Free("core")
  /\ Goto("vpn", "core")
  /\ tun' = tun + 1 /\ memory_tun' = tun + 1 /\ tun_state' = "created"
  /\ UNCHANGED <<holder, clientVars, loopVars, coreVars, connected, lwipVars,
                 packet, eventVars>>

\* tun_start, up to tun_builder_establish: the core fills the builder with the
\* pushed addresses, MTU and DNS servers, or rejects its options.
tun_start ==
  /\ pc["vpn"] = "core" /\ tun_state = "created"
  /\ \/ Goto("vpn", "establish") /\ UNCHANGED tun_state
     \/ tun_state' = "failed" /\ UNCHANGED pc
  /\ UNCHANGED <<holder, clientVars, loopVars, coreVars, tun, memory_tun,
                 connected, lwipVars, packet, eventVars>>

\* apply_tun_config_locked: the addresses of the configuration, or those
\* before the one that throws; other families keep what they had.
Applied(push, families) ==
  /\ active_config_' = [tun |-> tun, push |-> push]
  /\ addr' = [f \in Families |-> IF f \in families THEN tun ELSE addr[f]]

\* tun_builder_establish and the rest of tun_start, under the global lock: the
\* configuration throws; or it holds, and tun_connected throws or returns.
Established(ignore) ==
  /\ pc["vpn"] = "establish" /\ Free("global")
  /\ \E push \in Pushes :
       \/ /\ push.bad /\ ~ignore
          /\ \E done \in SUBSET push.families : Applied(push, done)
          /\ Goto("vpn", "core") /\ tun_state' = "failed"
          /\ UNCHANGED <<output, connected>>
       \/ /\ ~push.bad \/ ignore
          /\ Applied(push, push.families)
          /\ output' = TRUE /\ connected' = tun
          /\ \/ Goto("vpn", "notify_ready") /\ tun_state' = "up"
             \/ Goto("vpn", "core") /\ tun_state' = "failed"
  /\ UNCHANGED <<holder, clientVars, loopVars, coreVars, tun, memory_tun,
                 packet, eventVars>>

\* Variant: an exception is not reported.
EstablishIgnoresErrors == Established(TRUE)

Establish == Established(FALSE)

Disconnected(next) ==
  /\ pc["vpn"] = "core" /\ tun_state = "up"
  /\ Goto("vpn", next) /\ connected' = 0 /\ tun_state' = "failed"
  /\ UNCHANGED <<holder, clientVars, loopVars, coreVars, tun, memory_tun,
                 lwipVars, packet, eventVars>>

\* Variant: nobody is told.
set_disconnect_silently == Disconnected("core")

set_disconnect == Disconnected("notify_down")

\* MemoryTunClient::stop: then tun_builder_teardown, then notify_tun_down.
TunStops ==
  /\ pc["vpn"] = "core" /\ tun_state # "none"
  /\ Goto("vpn", "teardown") /\ connected' = 0 /\ tun_state' = "none"
  /\ UNCHANGED <<clientVars, loopVars, coreVars, tun, memory_tun, lwipVars,
                 packet, eventVars>>

\* Variant: stopped under the core's mutex.
TunStopLocked == TunStops /\ Acquire("vpn", "core")

TunStop == TunStops /\ UNCHANGED holder

\* tun_builder_teardown: set_packet_output({}).
TornDown(next_output) ==
  /\ pc["vpn"] = "teardown"
  /\ Goto("vpn", "notify_down") /\ output' = next_output
  /\ UNCHANGED <<holder, clientVars, loopVars, coreVars, tunVars,
                 active_config_, addr, packet, eventVars>>

\* Variant: the output stays.
TeardownKeepsOutput == Free("global") /\ TornDown(output)

Teardown == Free("global") /\ TornDown(FALSE)

\* notify_tun_ready and notify_tun_down: copy the handler under its mutex.
\* A handler that is destroyed already is copied whole or looks empty.
Notify(event, from, call, next) ==
  /\ pc["vpn"] = from /\ Free("handler")
  /\ \/ (event \in handlers \/ HandlersGone) /\ Goto("vpn", call)
     \/ (event \notin handlers \/ HandlersGone) /\ Goto("vpn", next)
  /\ UNCHANGED <<holder, data>>

notify_tun_ready == Notify("ready", "notify_ready", "post_ready", "core")

notify_tun_down == Notify("down", "notify_down", "post_down", "core")

\* The handler posts the event to the instance's io_context.
Post(event, from, next) ==
  /\ pc["vpn"] = from
  /\ Goto("vpn", next) /\ last_event' = event
  /\ UNCHANGED <<holder, clientVars, loopVars, coreVars, tunVars, lwipVars,
                 packet, stopped>>

\* CoreClient::log with a cipher failure: asks for a downgrade once.
log ==
  /\ pc["vpn"] = "core" /\ rounds < MaxRounds
  /\ ~needs_downgrade_
  /\ needs_downgrade_' = TRUE /\ stopping' = TRUE
  /\ UNCHANGED <<pc, holder, running_, handlers, loopVars, enabled_np, missed,
                 tunVars, lwipVars, packet, eventVars>>

\* connect() is about to end: it was stopped, or failed for good.
CoreEnds ==
  /\ pc["vpn"] = "core" /\ tun_state = "none"
  /\ stopping \/ rounds <= MaxRounds
  /\ Goto("vpn", "event")
  /\ UNCHANGED <<holder, data>>

\* CoreClient::event("DISCONNECTED"): notifies with its mutex held.
Event ==
  /\ pc["vpn"] = "event" /\ Acquire("vpn", "core")
  /\ Goto("vpn", "event_notify") /\ memory_tun' = 0
  /\ UNCHANGED <<clientVars, loopVars, coreVars, tun, tun_state, connected,
                 lwipVars, packet, eventVars>>

\* The rest of it, and the end of connect() and of the core's io_context.
EventEnds ==
  /\ Release("core") /\ Goto("vpn", "return")
  /\ UNCHANGED <<clientVars, loopVars, coreVars, tunVars, lwipVars, packet,
                 stopped>>

EventNotify ==
  \/ /\ pc["vpn"] = "event_notify" /\ Free("handler")
     /\ "down" \in handlers \/ HandlersGone
     /\ Goto("vpn", "event_post")
     /\ UNCHANGED <<holder, data>>
  \/ /\ pc["vpn"] = "event_notify" /\ Free("handler")
     /\ "down" \notin handlers \/ HandlersGone
     /\ EventEnds /\ UNCHANGED last_event

EventPost == pc["vpn"] = "event_post" /\ EventEnds /\ last_event' = "down"

-----------------------------------------------------------------------------
(* The Asio threads in lwIP. *)

\* acquire_stack: for a relay, a timer or, on the instance's own thread, a
\* packet that tun_send got from the core and posted to it.  With no output to
\* send on, a visit to lwIP changes nothing here and is left out.
acquire_stack(t) ==
  /\ pc[t] = "idle" /\ output /\ Acquire(t, "global")
  /\ t = "io" => pc["main"] \in {"run", "waiting"}
  /\ Goto(t, "stack")
  /\ UNCHANGED data

\* lwIP sends on the netif while there is one: emit_packet, send_from_lwip and
\* the test in send_l3_packet.  With no output, or after stop(), the packet is
\* dropped here.
Emits(t) ==
  /\ pc[t] = "stack" /\ pc["main"] # "done" /\ output /\ running_
  /\ Goto(t, "lock_impl")
  /\ packet' = [under |-> active_config_.tun, tun |-> 0]
  /\ UNCHANGED <<clientVars, loopVars, coreVars, tunVars, lwipVars, eventVars>>

\* Variant: the lock is given up before the output is called.
emitUnlocked(t) == Emits(t) /\ Release("global")

emit_packet(t) == Emits(t) /\ UNCHANGED holder

send_l3_packet(t) ==
  /\ pc[t] = "lock_impl" /\ Acquire(t, "impl")
  /\ Goto(t, "lock_core")
  /\ UNCHANGED data

\* CoreClient::inject_l3_packet copies memory_tun under the core's mutex.
CopyTun(t) ==
  /\ pc[t] = "lock_core" /\ Free("core")
  /\ Goto(t, "inject") /\ packet' = [under |-> packet.under, tun |-> memory_tun]
  /\ UNCHANGED <<holder, clientVars, loopVars, coreVars, tunVars, lwipVars,
                 eventVars>>

\* MemoryTunClient::inject_l3_packet: a read of connected, then the post.
inject_l3_packet(t) ==
  /\ pc[t] = "inject"
  /\ IF packet.tun # 0 /\ connected = packet.tun
     THEN Goto(t, "post") /\ UNCHANGED <<holder, packet>>
     ELSE Goto(t, "stack") /\ Release("impl") /\ packet' = NoPacket
  /\ UNCHANGED <<clientVars, loopVars, coreVars, tunVars, lwipVars, eventVars>>

PostPacket(t) ==
  /\ pc[t] = "post"
  /\ Goto(t, "stack") /\ Release("impl")
  /\ packet' = NoPacket
  /\ UNCHANGED <<clientVars, loopVars, coreVars, tunVars, lwipVars, eventVars>>

LeaveStack(t) ==
  /\ pc[t] = "stack"
  /\ Goto(t, "idle") /\ Release("global")
  /\ UNCHANGED data

-----------------------------------------------------------------------------
(* Shutdown: the handler MultiInstanceManager::stop posts, and what the     *)
(* main thread does.                                                        *)

Shutdown ==
  /\ pc["io"] = "idle" /\ pc["main"] = "waiting" /\ ~stopped
  /\ Goto("io", "clear_ready")
  /\ UNCHANGED <<holder, data>>

ClearHandler(event, from, next) ==
  /\ pc["io"] = from /\ Free("handler")
  /\ Goto("io", next) /\ handlers' = handlers \ {event}
  /\ UNCHANGED <<holder, running_, needs_downgrade_, loopVars, coreVars,
                 tunVars, lwipVars, packet, eventVars>>

\* The inbound stops, or is destroyed, and removes its UDP PCBs from lwIP.
SsStop(t) ==
  /\ pc[t] = "ss_stop" /\ Free("global")
  /\ Goto(t, "stop")
  /\ UNCHANGED <<holder, data>>

\* OpenVpnClient::stop, by the shutdown handler and by the destructor: a
\* second call finds running_ unset and does nothing.
Stop(t, next) ==
  /\ pc[t] = "stop"
  /\ Goto(t, IF running_ THEN "stop_impl" ELSE next)
  /\ running_' = FALSE
  /\ UNCHANGED <<holder, needs_downgrade_, handlers, loopVars, coreVars,
                 tunVars, lwipVars, packet, eventVars>>

\* The core's stop(), under impl_mutex_: connect() will end, if it has begun.
CoreStops(t, next, reached) ==
  /\ pc[t] = "stop_impl" /\ Free("impl")
  /\ Goto(t, next)
  /\ stopping' = (stopping \/ reached)
  /\ missed' = (missed \/ pc["vpn"] = "connect")
  /\ UNCHANGED <<holder, clientVars, loopVars, enabled_np, tunVars, lwipVars,
                 packet, eventVars>>

\* Variant: the core is not told.
StopImplSilent(t, next) == CoreStops(t, next, FALSE)

StopImpl(t, next) == CoreStops(t, next, pc["vpn"] \in InCore)

\* LwipRuntime::stop, last in the shutdown handler and first in the destructor.
LwipStop(t, next) ==
  /\ pc[t] = "lwip_stop" /\ Free("global")
  /\ Goto(t, next) /\ stopped' = (stopped \/ t = "io")
  /\ UNCHANGED <<holder, clientVars, loopVars, coreVars, tunVars, lwipVars,
                 packet, last_event>>

\* A step of the main thread that changes nothing else here: stop() posts the
\* shutdown; the wait ends, after two seconds at the latest, and the io_context
\* stops; its thread is joined; netif_remove, after which lwIP sends nothing.
MainMoves(from, next) ==
  /\ pc["main"] = from /\ Goto("main", next)
  /\ UNCHANGED <<holder, data>>

JoinIo == pc["io"] \in {"idle", "boot"} /\ MainMoves("join_io", "ss_stop")

\* ~jthread: joins, once the connect loop is done.
JoinVpn == pc["vpn"] \in {"none", "done"} /\ MainMoves("join_vpn", "lwip_stop")

RemoveNetif == Free("global") /\ MainMoves("netif_remove", "done")

-----------------------------------------------------------------------------
\* What the connect loop does by itself.
LoopRuns ==
  \/ Test \/ EnterConnect \/ Return \/ After \/ Sleep \/ Reset \/ Downgrade
  \/ Exit

\* The callbacks go on by themselves, and a core that is stopped ends.
CallRuns ==
  \/ set_memory_tun \/ Establish \/ Teardown
  \/ notify_tun_ready \/ Post("ready", "post_ready", "core")
  \/ notify_tun_down \/ Post("down", "post_down", "core")
  \/ Event \/ EventNotify \/ EventPost
  \/ stopping /\ (TunStop \/ CoreEnds)

VpnRuns == LoopRuns \/ CallRuns

\* What the server and the network make the core do.
CoreActs ==
  \/ NewTun \/ tun_start \/ set_disconnect \/ TunStop \/ CoreEnds \/ Throws
  \/ log

\* A packet on its way through send_l3_packet.
Sends(t) ==
  send_l3_packet(t) \/ CopyTun(t) \/ inject_l3_packet(t) \/ PostPacket(t)

IoRuns ==
  \/ Start \/ Shutdown
  \/ ClearHandler("ready", "clear_ready", "clear_down")
  \/ ClearHandler("down", "clear_down", "ss_stop") \/ SsStop("io")
  \/ Stop("io", "lwip_stop") \/ StopImpl("io", "lwip_stop")
  \/ LwipStop("io", "idle")

MainRuns ==
  \/ MainMoves("waiting", "join_io") \/ JoinIo \/ SsStop("main")
  \/ Stop("main", "join_vpn") \/ StopImpl("main", "join_vpn") \/ JoinVpn
  \/ LwipStop("main", "netif_remove") \/ RemoveNetif

Next ==
  \/ VpnRuns \/ CoreActs \/ IoRuns
  \/ \E t \in Stack : \/ acquire_stack(t) \/ emit_packet(t)
                      \/ Sends(t) \/ LeaveStack(t)
  \/ MainMoves("run", "waiting") \/ MainRuns

Spec == Init /\ [][Next]_vars

\* Every thread is scheduled, a call into lwIP returns whatever it sends, and a
\* thread that waits for a mutex which is released again and again gets it.
FairSpec ==
  /\ Spec
  /\ SF_vars(VpnRuns) /\ SF_vars(IoRuns) /\ SF_vars(MainRuns)
  /\ \A t \in Stack : WF_vars(Sends(t)) /\ SF_vars(LeaveStack(t))

-----------------------------------------------------------------------------
Packet == [under : 0 .. MaxTuns, tun : 0 .. MaxTuns]

\* The threads are at their labels and every member has its type.
TypeOK ==
  /\ pc \in [Threads -> VpnLabels \cup IoLabels \cup PeerLabels \cup MainLabels]
  /\ pc["vpn"] \in VpnLabels /\ pc["io"] \in IoLabels
  /\ pc["peer"] \in PeerLabels /\ pc["main"] \in MainLabels
  /\ holder \in [Locks -> Threads \cup {Nobody}]
  /\ running_ \in BOOLEAN /\ needs_downgrade_ \in BOOLEAN /\ handlers \subseteq {"ready", "down"}
  /\ using_np \in BOOLEAN /\ delay \in InitialDelay .. MaxDelay
  /\ threw \in BOOLEAN /\ rounds \in Nat
  /\ enabled_np \in BOOLEAN /\ stopping \in BOOLEAN /\ missed \in BOOLEAN
  /\ tun \in 0 .. MaxTuns /\ tun_state \in {"none", "created", "failed", "up"}
  /\ memory_tun \in 0 .. MaxTuns /\ connected \in 0 .. MaxTuns
  /\ active_config_ \in Config
  /\ output \in BOOLEAN /\ addr \in [Families -> 0 .. MaxTuns]
  /\ packet \in Packet
  /\ last_event \in {"none", "ready", "down"} /\ stopped \in BOOLEAN

\* No deadlock on the four mutexes: in every set of threads there is one that
\* waits for no other of the set.  emit_packet nests three of them, event()
\* calls back into the client with the core's held, stop() takes impl_mutex_.
NoCircularWait ==
  \A S \in SUBSET Threads : S # {} =>
    \E t \in S : \A l \in Locks : Wants(t, l) => holder[l] \notin S

\* A tunnel that is up has its whole configuration in lwIP: the addresses of
\* each family pushed, and an output; tun_start marks it connected last.
UpMeansConfigured ==
  connected # 0 =>
    /\ output /\ active_config_.tun = connected /\ ~active_config_.push.bad
    /\ \A f \in active_config_.push.families : addr[f] = connected

\* A packet that lwIP sent under one tunnel's configuration is queued for no
\* other tunnel, whatever reconnects happen on the way through send_l3_packet;
\* and connect(), which owns the io_context that inject_l3_packet posts to from
\* another thread, does not end before the post.
PacketStaysInTunnel ==
  \A t \in Stack :
    pc[t] = "post" => packet.under = packet.tun /\ pc["vpn"] \in InCore

\* When the client is destroyed its thread has ended, no thread is in
\* send_l3_packet, and lwIP's output, which points to it, has been removed.
ClientOutlivesUse ==
  ClientGone => /\ pc["vpn"] \in {"none", "done"} /\ ~output
                /\ \A t \in Stack : pc[t] \notin Sending

\* Between notifications, and until the shutdown clears the handlers, the last
\* event posted to the listener says whether the tunnel is up.
EventsFollowTunnel ==
  "ready" \in handlers /\ "down" \in handlers /\ ~HandlersGone
  /\ pc["vpn"] \notin {"notify_ready", "post_ready", "notify_down",
                       "post_down", "teardown"} =>
    (last_event = "ready") = (tun_state = "up")

\* Every core connects with the algorithms the loop has settled on: after a
\* downgrade, each later Impl, made after a failed connect() or an exception,
\* is evaluated with the non-preferred ones.
DowngradeSticks ==
  pc["vpn"] \in InCore \cup {"connect"} => enabled_np = using_np

\* The shutdown ends: the threads are joined and the instance is destroyed,
\* unless the one stop() fell between the loop's test and connect().
ShutdownCompletes == pc["main"] = "waiting" ~> pc["main"] = "done" \/ missed

\* An attempt with the non-preferred algorithms.
ConnectsNonPreferred == pc["vpn"] = "core" /\ enabled_np

\* A cipher failure that stopped the core leads to an attempt with the
\* non-preferred algorithms, unless the client stops or connect() throws.
CipherFailureRetried ==
  needs_downgrade_ /\ stopping /\ running_ /\ pc["vpn"] \in InCore
    ~> ConnectsNonPreferred \/ ~running_ \/ threw
=============================================================================
