-------------------------- MODULE VpnClientProofs --------------------------
(***************************************************************************)
(* Proofs about VpnClient for every set of pushes, all delays and bounds.  *)
(*                                                                         *)
(* The inductive invariant has six parts: where the threads are and which   *)
(* locks they hold, the tun, the packet on its way, the connect loop, the   *)
(* events.  Each is preserved by every step from itself and the parts       *)
(* before it, so each has a lemma, with one step per thread, or per action  *)
(* where that is too large; the first two share theirs.                     *)
(***************************************************************************)
EXTENDS VpnClient, TLAPS

Labels == VpnLabels \cup IoLabels \cup PeerLabels \cup MainLabels

\* The labels; there is no connect loop before start() and after the join.
ControlInv ==
  /\ pc \in [Threads -> Labels]
  /\ pc["vpn"] \in VpnLabels /\ pc["io"] \in IoLabels
  /\ pc["peer"] \in PeerLabels /\ pc["main"] \in MainLabels
  /\ holder \in [Locks -> Threads \cup {Nobody}]
  /\ pc["io"] = "boot" => pc["vpn"] = "none"
  /\ ClientGone => pc["vpn"] \in {"none", "done"}

InLwip == {"stack"} \cup Sending

WithImpl == {"lock_core", "inject", "post"}

\* Who holds a lock across steps, by the labels of the threads.
LockInv ==
  /\ holder["global"] \in Stack \cup {Nobody}
  /\ \A t \in Stack : holder["global"] = t <=> pc[t] \in InLwip
  /\ holder["impl"] \in Stack \cup {Nobody}
  /\ \A t \in Stack : holder["impl"] = t <=> pc[t] \in WithImpl
  /\ holder["core"] \in {"vpn", Nobody}
  /\ holder["core"] = "vpn" <=> pc["vpn"] \in {"event_notify", "event_post"}
  /\ holder["handler"] = Nobody

\* Where the connect loop is while lwIP's output points to the client, and
\* while a tun is connected.
TunInv ==
  /\ output =>
       \/ pc["vpn"] = "teardown"
       \/ /\ pc["vpn"] \in {"core", "notify_ready", "post_ready", "notify_down", "post_down"}
          /\ tun_state \in {"up", "failed"}
  /\ connected # 0 => /\ pc["vpn"] \in {"core", "notify_ready", "post_ready"}
                      /\ tun_state \in {"up", "failed"}
  /\ UpMeansConfigured

\* A thread in send_l3_packet has the global lock, so neither a teardown nor a
\* new configuration comes in between.
PacketInv ==
  \A t \in Stack :
    /\ pc[t] \in Sending => output /\ packet.under = active_config_.tun
    /\ pc[t] = "post" => packet.under = packet.tun

\* The connect loop: which algorithms it has settled on, and the core's.
LoopInv ==
  /\ pc["vpn"] = "downgrade" => using_np
  /\ pc["vpn"] \in InCore \cup {"test", "connect"} => enabled_np = using_np

\* What a tun is when its thread is in a callback, or not in the core at all.
EventInv ==
  /\ pc["vpn"] \notin {"core", "establish", "notify_ready", "post_ready",
                     "notify_down", "post_down"} => tun_state = "none"
  /\ pc["vpn"] = "establish" => tun_state = "created"
  /\ pc["vpn"] \in {"notify_ready", "post_ready"} => tun_state = "up"
  /\ pc["vpn"] \in {"notify_down", "post_down"} => tun_state # "up"
  /\ EventsFollowTunnel

Inv == ControlInv /\ LockInv /\ TunInv /\ PacketInv /\ LoopInv /\ EventInv

-----------------------------------------------------------------------------
USE DEF Threads, Stack, Locks, Nobody, Goto, Free, Acquire, Release

InStack ==
  \E t \in Stack : acquire_stack(t) \/ emit_packet(t) \/ Sends(t) \/ LeaveStack(t)

InMain == MainRuns \/ MainMoves("run", "waiting")

(* A step keeps the labels, and a lock is held by the thread whose label says so. *)
LEMMA LocksStep ==
  ASSUME ControlInv, LockInv, [Next]_vars
  PROVE  ControlInv' /\ LockInv'
<1> USE DEF ControlInv, LockInv, InLwip, WithImpl, ClientGone, Labels, VpnLabels, IoLabels,
            PeerLabels, MainLabels, InCore, Sending
<1>1. CASE LoopRuns
  BY <1>1 DEF LoopRuns, Test, EnterConnect, Return, Returned, After, Sleep, Reset,
    Downgrade, NewImpl, Exit
<1>2. CASE CallRuns
  <2>1. CASE set_memory_tun \/ Establish \/ Teardown
    BY <2>1 DEF set_memory_tun, Establish, Established, Teardown, TornDown
  <2>2. CASE \/ notify_tun_ready \/ Post("ready", "post_ready", "core")
             \/ notify_tun_down \/ Post("down", "post_down", "core")
    BY <2>2 DEF notify_tun_ready, notify_tun_down, Notify, Post
  <2>3. CASE Event \/ EventNotify \/ EventPost
    BY <2>3 DEF Event, EventNotify, EventPost, EventEnds
  <2>4. CASE TunStop \/ CoreEnds
    BY <2>4 DEF TunStop, TunStops, CoreEnds
  <2> QED BY <1>2, <2>1, <2>2, <2>3, <2>4, Zenon DEF CallRuns
<1>3. CASE CoreActs
  BY <1>3 DEF CoreActs, NewTun, tun_start, set_disconnect, Disconnected, TunStop, TunStops,
    CoreEnds, Throws, log
<1>4. CASE IoRuns
  <2>1. CASE Start \/ Shutdown
    BY <2>1 DEF Start, Shutdown
  <2>2. CASE \/ ClearHandler("ready", "clear_ready", "clear_down")
             \/ ClearHandler("down", "clear_down", "ss_stop")
    BY <2>2 DEF ClearHandler
  <2>3. CASE SsStop("io") \/ Stop("io", "lwip_stop")
    BY <2>3 DEF SsStop, Stop
  <2>4. CASE StopImpl("io", "lwip_stop") \/ LwipStop("io", "idle")
    BY <2>4 DEF StopImpl, CoreStops, LwipStop
  <2> QED BY <1>4, <2>1, <2>2, <2>3, <2>4, Zenon DEF IoRuns
<1>5. CASE InStack
  BY <1>5 DEF InStack, acquire_stack, emit_packet, Emits, Sends, send_l3_packet, CopyTun,
    inject_l3_packet, PostPacket, LeaveStack
<1>6. CASE InMain
  BY <1>6 DEF InMain, MainRuns, MainMoves, JoinIo, JoinVpn, RemoveNetif, SsStop, Stop,
    StopImpl, CoreStops, LwipStop
<1>7. CASE UNCHANGED vars
  BY <1>7 DEF vars
<1> QED BY <1>1, <1>2, <1>3, <1>4, <1>5, <1>6, <1>7, Zenon DEF Next, VpnRuns, InStack, InMain

USE DEF data, clientVars, loopVars, coreVars, tunVars, lwipVars, eventVars

\* What only the connect loop changes, start() apart; the handlers go for good.
LeavesLoop ==
  /\ pc'["vpn"] = pc["vpn"]
  /\ UNCHANGED <<tun_state, connected, output, active_config_, addr, using_np,
                 enabled_np, delay, threw, last_event>>
  /\ handlers' \subseteq handlers
  /\ HandlersGone => HandlersGone'

(* The other threads leave the connect loop and its tun alone. *)
LEMMA OthersStep ==
  ASSUME pc \in [Threads -> Labels],
         (IoRuns /\ ~Start) \/ InStack \/ InMain \/ UNCHANGED vars
  PROVE  LeavesLoop
<1> USE DEF LeavesLoop, HandlersGone
<1>1. CASE IoRuns /\ ~Start
  BY <1>1, Zenon DEF IoRuns, Shutdown, ClearHandler, SsStop, Stop, StopImpl, CoreStops, LwipStop
<1>2. CASE InStack
  <2>1. ASSUME NEW t \in Stack, acquire_stack(t) \/ emit_packet(t) \/ LeaveStack(t)
        PROVE  LeavesLoop
    BY <2>1, Zenon DEF acquire_stack, emit_packet, Emits, LeaveStack
  <2>2. ASSUME NEW t \in Stack, Sends(t)
        PROVE  LeavesLoop
    BY <2>2, Zenon DEF Sends, send_l3_packet, CopyTun, inject_l3_packet, PostPacket
  <2> QED BY <1>2, <2>1, <2>2, Zenon DEF InStack
<1>3. CASE InMain
  BY <1>3, Zenon DEF InMain, MainRuns, MainMoves, JoinIo, JoinVpn, RemoveNetif, SsStop, Stop,
    StopImpl, CoreStops, LwipStop
<1>4. CASE UNCHANGED vars
  BY <1>4, Zenon DEF vars
<1> QED BY <1>1, <1>2, <1>3, <1>4, Zenon

(* A step keeps lwIP's output and configuration in step with the tun: a tun is
   marked connected last, and the output is gone before a tun is forgotten.   *)
LEMMA TunStep ==
  ASSUME pc \in [Threads -> Labels], pc["io"] = "boot" => pc["vpn"] = "none",
         TunInv, [Next]_vars
  PROVE  TunInv'
<1> USE DEF TunInv, UpMeansConfigured
<1>1. CASE LoopRuns
  <2>1. CASE Return \/ Reset \/ Downgrade
    BY <2>1 DEF Return, Returned, Reset, Downgrade, NewImpl
  <2>2. CASE Test \/ EnterConnect \/ After \/ Sleep \/ Exit
    BY <2>2 DEF Test, EnterConnect, After, Sleep, Exit
  <2> QED BY <1>1, <2>1, <2>2, Zenon DEF LoopRuns
<1>2. CASE CallRuns
  <2>1. CASE set_memory_tun \/ Establish \/ Teardown
    <3>1. CASE set_memory_tun \/ Teardown
      BY <3>1 DEF set_memory_tun, Teardown, TornDown
    <3>2. CASE Establish
      <4>1. PICK push \in Pushes :
              \/ /\ \E done \in SUBSET push.families : Applied(push, done)
                 /\ Goto("vpn", "core") /\ tun_state' = "failed"
                 /\ UNCHANGED <<output, connected>>
              \/ /\ ~push.bad /\ Applied(push, push.families)
                 /\ output' = TRUE /\ connected' = tun
                 /\ \/ Goto("vpn", "notify_ready") /\ tun_state' = "up"
                    \/ Goto("vpn", "core") /\ tun_state' = "failed"
        BY <3>2, Zenon DEF Establish, Established
      <4>2. ~output /\ connected = 0
        BY <3>2, Zenon DEF Establish, Established
      <4>3. push.families \subseteq Families
        BY PushesType, Zenon DEF Push
      <4> QED BY <4>1, <4>2, <4>3 DEF Applied
    <3> QED BY <2>1, <3>1, <3>2, Zenon
  <2>2. CASE \/ notify_tun_ready \/ Post("ready", "post_ready", "core")
             \/ notify_tun_down \/ Post("down", "post_down", "core")
    BY <2>2 DEF notify_tun_ready, notify_tun_down, Notify, Post
  <2>3. CASE Event \/ EventNotify \/ EventPost
    BY <2>3 DEF Event, EventNotify, EventPost, EventEnds
  <2>4. CASE TunStop \/ CoreEnds
    BY <2>4 DEF TunStop, TunStops, CoreEnds
  <2> QED BY <1>2, <2>1, <2>2, <2>3, <2>4, Zenon DEF CallRuns
<1>3. CASE CoreActs
  BY <1>3 DEF CoreActs, NewTun, tun_start, set_disconnect, Disconnected, TunStop, TunStops,
    CoreEnds, Throws, log
<1>4. CASE Start
  BY <1>4, Zenon DEF Start
<1>5. CASE LeavesLoop
  BY <1>5, Zenon DEF LeavesLoop
<1> QED
  BY <1>1, <1>2, <1>3, <1>4, <1>5, OthersStep, Zenon DEF Next, VpnRuns, InStack, InMain

(* A step keeps the packet on its way: Teardown and Establish wait for the
   global lock, which its sender holds.                                      *)
LEMMA PacketStep ==
  ASSUME pc \in [Threads -> Labels], LockInv, TunInv, PacketInv, [Next]_vars
  PROVE  PacketInv'
<1> USE DEF PacketInv, Sending
<1>1. CASE \/ LoopRuns \/ CoreActs \/ IoRuns \/ InMain \/ UNCHANGED vars
           \/ CallRuns /\ ~Establish /\ ~Teardown
  <2> HIDE DEF PacketInv
  <2>1. /\ UNCHANGED <<packet, output, active_config_>>
        /\ \A t \in Stack : pc'[t] \in Sending => pc'[t] = pc[t]
    <3>1. CASE LoopRuns
      <4>1. CASE Return \/ Reset \/ Downgrade
        BY <4>1, Zenon DEF Return, Returned, Reset, Downgrade, NewImpl
      <4>2. CASE Test \/ EnterConnect \/ After \/ Sleep \/ Exit
        BY <4>2, Zenon DEF Test, EnterConnect, After, Sleep, Exit
      <4> QED BY <3>1, <4>1, <4>2, Zenon DEF LoopRuns
    <3>2. CASE CallRuns /\ ~Establish /\ ~Teardown
      BY <3>2, Zenon DEF CallRuns, set_memory_tun, notify_tun_ready, notify_tun_down, Notify, Post,
        Event, EventNotify, EventPost, EventEnds, TunStop, TunStops, CoreEnds
    <3>3. CASE CoreActs
      BY <3>3, Zenon DEF CoreActs, NewTun, tun_start, set_disconnect, Disconnected, TunStop,
        TunStops, CoreEnds, Throws, log
    <3>4. CASE IoRuns
      <4>1. CASE Start \/ Shutdown
        BY <4>1, Zenon DEF Start, Shutdown
      <4>2. CASE \/ ClearHandler("ready", "clear_ready", "clear_down")
                 \/ ClearHandler("down", "clear_down", "ss_stop")
        BY <4>2, Zenon DEF ClearHandler
      <4>3. CASE SsStop("io") \/ Stop("io", "lwip_stop")
        BY <4>3, Zenon DEF SsStop, Stop
      <4>4. CASE StopImpl("io", "lwip_stop") \/ LwipStop("io", "idle")
        BY <4>4, Zenon DEF StopImpl, CoreStops, LwipStop
      <4> QED BY <3>4, <4>1, <4>2, <4>3, <4>4, Zenon DEF IoRuns
    <3>5. CASE InMain
      BY <3>5, Zenon DEF InMain, MainRuns, MainMoves, JoinIo, JoinVpn, RemoveNetif, SsStop, Stop,
        StopImpl, CoreStops, LwipStop
    <3>6. CASE UNCHANGED vars
      BY <3>6, Zenon DEF vars
    <3> QED BY <1>1, <3>1, <3>2, <3>3, <3>4, <3>5, <3>6, Zenon
  <2> QED BY <2>1, Zenon DEF PacketInv
<1>2. CASE Establish \/ Teardown
  <2>1. \A t \in Stack : pc[t] \notin Sending /\ pc'[t] = pc[t]
    BY <1>2, Zenon DEF Establish, Established, Teardown, TornDown, LockInv, InLwip
  <2> QED BY <2>1, Zenon
<1>3. ASSUME NEW t \in Stack, acquire_stack(t) \/ emit_packet(t) \/ LeaveStack(t)
      PROVE  PacketInv'
  <2>1. CASE acquire_stack(t) \/ LeaveStack(t)
    BY <2>1 DEF acquire_stack, LeaveStack
  <2>2. CASE emit_packet(t)
    <3>1. \A s \in Stack : pc'[s] \in Sending => s = t
      BY <2>2, Zenon DEF emit_packet, Emits, LockInv, InLwip
    <3> QED BY <2>2, <3>1, Zenon DEF emit_packet, Emits
  <2> QED BY <1>3, <2>1, <2>2, Zenon
<1>4. ASSUME NEW t \in Stack, Sends(t)
      PROVE  PacketInv'
  <2>1. \A s \in Stack : pc'[s] \in Sending => s = t
    BY <1>4, Zenon DEF Sends, send_l3_packet, CopyTun, inject_l3_packet, PostPacket, LockInv, InLwip
  <2>2. CASE send_l3_packet(t) \/ CopyTun(t) \/ PostPacket(t)
    BY <2>1, <2>2 DEF send_l3_packet, CopyTun, PostPacket
  <2>3. CASE inject_l3_packet(t)
    BY <2>1, <2>3, Zenon DEF inject_l3_packet, TunInv, UpMeansConfigured
  <2> QED BY <1>4, <2>2, <2>3, Zenon DEF Sends
<1> QED BY <1>1, <1>2, <1>3, <1>4, Zenon DEF Next, VpnRuns, InStack, InMain

(* A step keeps the delay and the choice of algorithms of the connect loop. *)
LEMMA LoopStep ==
  ASSUME pc \in [Threads -> Labels], LoopInv, [Next]_vars
  PROVE  LoopInv'
<1> USE DEF LoopInv, InCore
<1>1. CASE LoopRuns
  <2>1. CASE Return
    <3>1. CASE MustDowngrade
      BY <2>1, <3>1, Zenon DEF Return, Returned
    <3>2. CASE ~MustDowngrade
      BY <2>1, <3>2, Zenon DEF Return, Returned
    <3> QED BY <3>1, <3>2, Zenon
  <2>2. CASE Reset \/ Downgrade
    BY <2>2, Zenon DEF Reset, Downgrade, NewImpl
  <2>3. CASE Test \/ EnterConnect \/ After \/ Sleep \/ Exit
    BY <2>3, Zenon DEF Test, EnterConnect, After, Sleep, Exit
  <2> QED BY <1>1, <2>1, <2>2, <2>3, Zenon DEF LoopRuns
<1>2. CASE CallRuns
  <2>1. CASE set_memory_tun \/ Establish \/ Teardown
    BY <2>1, Zenon DEF set_memory_tun, Establish, Established, Applied, Teardown, TornDown
  <2>2. CASE \/ notify_tun_ready \/ Post("ready", "post_ready", "core")
             \/ notify_tun_down \/ Post("down", "post_down", "core")
    BY <2>2, Zenon DEF notify_tun_ready, notify_tun_down, Notify, Post
  <2>3. CASE Event \/ EventNotify \/ EventPost
    BY <2>3, Zenon DEF Event, EventNotify, EventPost, EventEnds
  <2>4. CASE TunStop \/ CoreEnds
    BY <2>4, Zenon DEF TunStop, TunStops, CoreEnds
  <2> QED BY <1>2, <2>1, <2>2, <2>3, <2>4, Zenon DEF CallRuns
<1>3. CASE CoreActs
  BY <1>3, Zenon DEF CoreActs, NewTun, tun_start, set_disconnect, Disconnected, TunStop, TunStops,
    CoreEnds, Throws, log
<1>4. CASE Start
  BY <1>4 DEF Start
<1>5. CASE LeavesLoop
  BY <1>5, Zenon DEF LeavesLoop
<1> QED
  BY <1>1, <1>2, <1>3, <1>4, <1>5, OthersStep, Zenon DEF Next, VpnRuns, InStack, InMain

(* A step keeps the last event and the tun in step. *)
LEMMA EventStep ==
  ASSUME pc \in [Threads -> Labels], pc["io"] = "boot" => pc["vpn"] = "none",
         EventInv, [Next]_vars
  PROVE  EventInv'
<1> USE DEF EventInv, EventsFollowTunnel, HandlersGone
<1>1. CASE LoopRuns
  <2>1. CASE Return \/ Reset \/ Downgrade
    BY <2>1, Zenon DEF Return, Returned, Reset, Downgrade, NewImpl
  <2>2. CASE Test \/ EnterConnect \/ After \/ Sleep \/ Exit
    BY <2>2, Zenon DEF Test, EnterConnect, After, Sleep, Exit
  <2> QED BY <1>1, <2>1, <2>2, Zenon DEF LoopRuns
<1>2. CASE CallRuns
  <2>1. CASE set_memory_tun \/ Establish \/ Teardown
    BY <2>1, Zenon DEF set_memory_tun, Establish, Established, Applied, Teardown, TornDown
  <2>2. CASE \/ notify_tun_ready \/ Post("ready", "post_ready", "core")
             \/ notify_tun_down \/ Post("down", "post_down", "core")
    BY <2>2, Zenon DEF notify_tun_ready, notify_tun_down, Notify, Post
  <2>3. CASE Event \/ EventNotify \/ EventPost
    BY <2>3, Zenon DEF Event, EventNotify, EventPost, EventEnds
  <2>4. CASE TunStop \/ CoreEnds
    BY <2>4, Zenon DEF TunStop, TunStops, CoreEnds
  <2> QED BY <1>2, <2>1, <2>2, <2>3, <2>4, Zenon DEF CallRuns
<1>3. CASE CoreActs
  <2>1. CASE NewTun \/ tun_start \/ CoreEnds
    BY <2>1, Zenon DEF NewTun, tun_start, CoreEnds
  <2>2. CASE set_disconnect \/ TunStop
    BY <2>2, Zenon DEF set_disconnect, Disconnected, TunStop, TunStops
  <2>3. CASE Throws \/ log
    BY <2>3, Zenon DEF Throws, log
  <2> QED BY <1>3, <2>1, <2>2, <2>3, Zenon DEF CoreActs
<1>4. CASE Start
  BY <1>4, Zenon DEF Start
<1> HIDE DEF HandlersGone
<1>5. CASE LeavesLoop
  BY <1>5, Zenon DEF LeavesLoop
<1> QED
  BY <1>1, <1>2, <1>3, <1>4, <1>5, OthersStep, Zenon DEF Next, VpnRuns, InStack, InMain

\* The members that are numbers, and what bounds the number of the next tun.
NumberInv ==
  /\ delay \in InitialDelay .. MaxDelay /\ rounds \in Nat
  /\ tun \in 0 .. MaxTuns /\ memory_tun \in 0 .. MaxTuns /\ connected \in 0 .. MaxTuns
  /\ active_config_ \in Config /\ addr \in [Families -> 0 .. MaxTuns]
  /\ packet \in Packet
  /\ pc["vpn"] = "new_tun" => tun < MaxTuns

\* The members that are flags or names.
FlagInv ==
  /\ running_ \in BOOLEAN /\ needs_downgrade_ \in BOOLEAN
  /\ handlers \subseteq {"ready", "down"}
  /\ using_np \in BOOLEAN /\ threw \in BOOLEAN
  /\ enabled_np \in BOOLEAN /\ stopping \in BOOLEAN /\ missed \in BOOLEAN
  /\ tun_state \in {"none", "created", "failed", "up"}
  /\ output \in BOOLEAN
  /\ last_event \in {"none", "ready", "down"} /\ stopped \in BOOLEAN

(* A step keeps the numbers in their ranges: the delay is capped, and a tun is
   made only below the bound.                                               *)
LEMMA NumberStep ==
  ASSUME pc \in [Threads -> Labels], NumberInv, [Next]_vars
  PROVE  NumberInv'
<1> USE Delays, VpnBounds DEF NumberInv
<1>1. CASE LoopRuns
  <2>1. CASE Return
    BY <2>1 DEF Return, Returned
  <2>2. CASE Reset \/ Downgrade
    BY <2>2 DEF Reset, Downgrade, NewImpl
  <2>3. CASE Sleep
    <3>1. delay' \in InitialDelay .. MaxDelay
      BY <2>3 DEF Sleep
    <3> QED BY <2>3, <3>1, Zenon DEF Sleep
  <2>4. CASE Test \/ EnterConnect \/ After \/ Exit
    BY <2>4, Zenon DEF Test, EnterConnect, After, Exit
  <2> QED BY <1>1, <2>1, <2>2, <2>3, <2>4, Zenon DEF LoopRuns
<1>2. CASE CallRuns
  <2>1. CASE set_memory_tun \/ Teardown
    BY <2>1 DEF set_memory_tun, Teardown, TornDown
  <2>2. CASE Establish
    <3>1. PICK push \in Pushes, done \in SUBSET Families : Applied(push, done)
      <4>1. PICK push \in Pushes :
              \E done \in SUBSET push.families : Applied(push, done)
        BY <2>2, Zenon DEF Establish, Established
      <4>2. push.families \subseteq Families
        BY PushesType, Zenon DEF Push
      <4> QED BY <4>1, <4>2, Zenon
    <3>2. active_config_' \in Config /\ addr' \in [Families -> 0 .. MaxTuns]
      BY <3>1, PushesType, Zenon DEF Applied, Config
    <3> HIDE DEF NumberInv
    <3>3. /\ connected' \in {connected, tun}
          /\ pc'["vpn"] # "new_tun"
          /\ UNCHANGED <<delay, rounds, tun, memory_tun, packet>>
      BY <2>2, Zenon DEF Establish, Established
    <3> QED BY <3>2, <3>3, Zenon DEF NumberInv
  <2>3. CASE \/ notify_tun_ready \/ Post("ready", "post_ready", "core")
             \/ notify_tun_down \/ Post("down", "post_down", "core")
    BY <2>3, Zenon DEF notify_tun_ready, notify_tun_down, Notify, Post
  <2>4. CASE Event \/ EventNotify \/ EventPost
    BY <2>4 DEF Event, EventNotify, EventPost, EventEnds
  <2>5. CASE TunStop \/ CoreEnds
    BY <2>5 DEF TunStop, TunStops, CoreEnds
  <2> QED BY <1>2, <2>1, <2>2, <2>3, <2>4, <2>5, Zenon DEF CallRuns
<1>3. CASE CoreActs
  <2>1. CASE NewTun \/ CoreEnds \/ Throws \/ log
    BY <2>1, Zenon DEF NewTun, CoreEnds, Throws, log
  <2>2. CASE tun_start \/ set_disconnect \/ TunStop
    BY <2>2 DEF tun_start, set_disconnect, Disconnected, TunStop, TunStops
  <2> QED BY <1>3, <2>1, <2>2, Zenon DEF CoreActs
<1>4. CASE IoRuns
  <2>1. CASE Start \/ Shutdown
    BY <2>1, Zenon DEF Start, Shutdown
  <2>2. CASE \/ ClearHandler("ready", "clear_ready", "clear_down")
             \/ ClearHandler("down", "clear_down", "ss_stop")
    BY <2>2, Zenon DEF ClearHandler
  <2>3. CASE SsStop("io") \/ Stop("io", "lwip_stop") \/ LwipStop("io", "idle")
    BY <2>3, Zenon DEF SsStop, Stop, LwipStop
  <2>4. CASE StopImpl("io", "lwip_stop")
    BY <2>4, Zenon DEF StopImpl, CoreStops
  <2> QED BY <1>4, <2>1, <2>2, <2>3, <2>4, Zenon DEF IoRuns
<1>5. CASE InStack
  <2> HIDE DEF NumberInv
  <2>1. PICK t \in Stack : acquire_stack(t) \/ emit_packet(t) \/ Sends(t) \/ LeaveStack(t)
    BY <1>5, Zenon DEF InStack
  <2>2. /\ pc'["vpn"] = pc["vpn"]
        /\ UNCHANGED <<delay, rounds, tunVars, active_config_, addr>>
        /\ packet' \in {packet, NoPacket, [under |-> active_config_.tun, tun |-> 0],
                        [under |-> packet.under, tun |-> memory_tun]}
    <3>1. CASE acquire_stack(t) \/ emit_packet(t) \/ LeaveStack(t)
      BY <3>1, Zenon DEF acquire_stack, emit_packet, Emits, LeaveStack
    <3>2. CASE Sends(t)
      BY <3>2, Zenon DEF Sends, send_l3_packet, CopyTun, inject_l3_packet, PostPacket
    <3> QED BY <2>1, <3>1, <3>2, Zenon
  <2>3. packet' \in Packet
    BY <2>2 DEF NumberInv, NoPacket, Packet, Config
  <2> QED BY <2>2, <2>3, Zenon DEF NumberInv
<1>6. CASE InMain
  <2>1. CASE StopImpl("main", "join_vpn")
    BY <2>1, Zenon DEF StopImpl, CoreStops
  <2>2. CASE SsStop("main") \/ Stop("main", "join_vpn") \/ LwipStop("main", "netif_remove")
    BY <2>2, Zenon DEF SsStop, Stop, LwipStop
  <2>3. CASE \/ MainMoves("run", "waiting") \/ MainMoves("waiting", "join_io")
             \/ JoinIo \/ JoinVpn \/ RemoveNetif
    BY <2>3, Zenon DEF MainMoves, JoinIo, JoinVpn, RemoveNetif
  <2> QED BY <1>6, <2>1, <2>2, <2>3, Zenon DEF InMain, MainRuns
<1>7. CASE UNCHANGED vars
  BY <1>7, Zenon DEF vars
<1> QED BY <1>1, <1>2, <1>3, <1>4, <1>5, <1>6, <1>7, Zenon DEF Next, VpnRuns, InStack, InMain

\* What a step may do to them.
FlagMove ==
  /\ running_' \in {running_, TRUE, FALSE} /\ needs_downgrade_' \in {needs_downgrade_, TRUE, FALSE}
  /\ handlers' \subseteq handlers
  /\ using_np' \in {using_np, TRUE, FALSE} /\ threw' \in {threw, TRUE, FALSE}
  /\ enabled_np' \in {enabled_np, using_np, TRUE, FALSE}
  /\ stopping' \in {stopping, TRUE, FALSE} /\ missed' \in {missed, TRUE, FALSE}
  /\ tun_state' \in {tun_state, "none", "created", "failed", "up"}
  /\ output' \in {output, TRUE, FALSE}
  /\ last_event' \in {last_event, "ready", "down"} /\ stopped' \in {stopped, TRUE, FALSE}

(* Every step changes the flags so. *)
LEMMA FlagsMove ==
  ASSUME [Next]_vars
  PROVE  FlagMove
<1> USE NonPreferredType DEF FlagMove
<1>1. CASE LoopRuns
  <2>1. CASE Return
    BY <2>1, Zenon DEF Return, Returned
  <2>2. CASE Reset \/ Downgrade
    BY <2>2, Zenon DEF Reset, Downgrade, NewImpl
  <2>3. CASE Sleep
    BY <2>3, Zenon DEF Sleep
  <2>4. CASE Test \/ EnterConnect \/ After \/ Exit
    BY <2>4, Zenon DEF Test, EnterConnect, After, Exit
  <2> QED BY <1>1, <2>1, <2>2, <2>3, <2>4, Zenon DEF LoopRuns
<1>2. CASE CallRuns
  <2>1. CASE set_memory_tun \/ Teardown
    BY <2>1, Zenon DEF set_memory_tun, Teardown, TornDown
  <2>2. CASE Establish
    BY <2>2, Zenon DEF Establish, Established
  <2>3. CASE \/ notify_tun_ready \/ Post("ready", "post_ready", "core")
             \/ notify_tun_down \/ Post("down", "post_down", "core")
    BY <2>3, Zenon DEF notify_tun_ready, notify_tun_down, Notify, Post
  <2>4. CASE Event \/ EventNotify \/ EventPost
    BY <2>4, Zenon DEF Event, EventNotify, EventPost, EventEnds
  <2>5. CASE TunStop \/ CoreEnds
    BY <2>5, Zenon DEF TunStop, TunStops, CoreEnds
  <2> QED BY <1>2, <2>1, <2>2, <2>3, <2>4, <2>5, Zenon DEF CallRuns
<1>3. CASE CoreActs
  BY <1>3, Zenon DEF CoreActs, NewTun, tun_start, set_disconnect, Disconnected, TunStop, TunStops,
    CoreEnds, Throws, log
<1>4. CASE IoRuns
  <2>1. CASE Start \/ Shutdown
    BY <2>1, Zenon DEF Start, Shutdown
  <2>2. CASE \/ ClearHandler("ready", "clear_ready", "clear_down")
             \/ ClearHandler("down", "clear_down", "ss_stop")
    BY <2>2, Zenon DEF ClearHandler
  <2>3. CASE SsStop("io") \/ Stop("io", "lwip_stop") \/ LwipStop("io", "idle")
    BY <2>3, Zenon DEF SsStop, Stop, LwipStop
  <2>4. CASE StopImpl("io", "lwip_stop")
    BY <2>4, Zenon DEF StopImpl, CoreStops
  <2> QED BY <1>4, <2>1, <2>2, <2>3, <2>4, Zenon DEF IoRuns
<1>5. CASE InStack
  <2>1. UNCHANGED <<clientVars, loopVars, coreVars, tunVars, lwipVars, eventVars>>
    BY <1>5, Zenon DEF InStack, acquire_stack, emit_packet, Emits, Sends, send_l3_packet, CopyTun,
      inject_l3_packet, PostPacket, LeaveStack
  <2> QED BY <2>1, Zenon
<1>6. CASE InMain
  <2>1. CASE StopImpl("main", "join_vpn")
    BY <2>1, Zenon DEF StopImpl, CoreStops
  <2>2. CASE SsStop("main") \/ Stop("main", "join_vpn") \/ LwipStop("main", "netif_remove")
    BY <2>2, Zenon DEF SsStop, Stop, LwipStop
  <2>3. CASE \/ MainMoves("run", "waiting") \/ MainMoves("waiting", "join_io")
             \/ JoinIo \/ JoinVpn \/ RemoveNetif
    BY <2>3, Zenon DEF MainMoves, JoinIo, JoinVpn, RemoveNetif
  <2> QED BY <1>6, <2>1, <2>2, <2>3, Zenon DEF InMain, MainRuns
<1>7. CASE UNCHANGED vars
  BY <1>7, Zenon DEF vars
<1> QED BY <1>1, <1>2, <1>3, <1>4, <1>5, <1>6, <1>7, Zenon DEF Next, VpnRuns, InStack, InMain

(* A step keeps the flags. *)
LEMMA FlagStep ==
  ASSUME FlagInv, [Next]_vars
  PROVE  FlagInv'
<1>1. FlagMove
  BY FlagsMove, Zenon
<1>2. running_' \in BOOLEAN /\ needs_downgrade_' \in BOOLEAN
  BY <1>1, Zenon DEF FlagMove, FlagInv
<1>3. using_np' \in BOOLEAN /\ threw' \in BOOLEAN
  BY <1>1, Zenon DEF FlagMove, FlagInv
<1>4. enabled_np' \in BOOLEAN
  BY <1>1, Zenon DEF FlagMove, FlagInv
<1>5. stopping' \in BOOLEAN /\ missed' \in BOOLEAN
  BY <1>1, Zenon DEF FlagMove, FlagInv
<1>6. output' \in BOOLEAN /\ stopped' \in BOOLEAN
  BY <1>1, Zenon DEF FlagMove, FlagInv
<1>7. /\ handlers' \subseteq {"ready", "down"}
      /\ tun_state' \in {"none", "created", "failed", "up"}
      /\ last_event' \in {"none", "ready", "down"}
  BY <1>1, Zenon DEF FlagMove, FlagInv
<1> QED BY <1>2, <1>3, <1>4, <1>5, <1>6, <1>7, Zenon DEF FlagInv

(* Every step keeps the invariant, and the initial states have it. *)
LEMMA InvHolds == Spec => []Inv
<1>1. Init => Inv
  BY DEF Init, Inv, ControlInv, Labels, VpnLabels, IoLabels, PeerLabels, MainLabels, InCore,
    Sending, ClientGone, LockInv, InLwip, WithImpl, TunInv, UpMeansConfigured,
    PacketInv, LoopInv, EventInv, EventsFollowTunnel
<1>2. Inv /\ [Next]_vars => Inv'
  BY LocksStep, TunStep, PacketStep, LoopStep, EventStep, Zenon DEF Inv, ControlInv
<1> QED BY <1>1, <1>2, PTL DEF Spec

-----------------------------------------------------------------------------
(* The locks have an order: whoever waits for the global lock waits for a
   thread in lwIP; that thread finds impl_mutex_ free or holds it, and waits at
   most for the core's mutex, whose holder waits for nobody.                *)
LEMMA LockOrder ==
  ASSUME LockInv
  PROVE  NoCircularWait
<1> SUFFICES ASSUME NEW S \in SUBSET Threads, S # {}
             PROVE  \E t \in S : \A l \in Locks : Wants(t, l) => holder[l] \notin S
  BY Zenon DEF NoCircularWait
<1> USE DEF InLwip, WithImpl, Sending
<1>1. CASE "vpn" \in S /\ holder["core"] = "vpn"
  <2>1. pc["vpn"] \in {"event_notify", "event_post"} /\ holder["handler"] \notin S
    BY <1>1, Zenon DEF LockInv
  <2>2. \A l \in Locks : Wants("vpn", l) => l = "handler"
    BY <2>1 DEF Wants, Waiting
  <2> QED BY <1>1, <2>1, <2>2, Zenon
<1>2. CASE holder["global"] \in S /\ ~("vpn" \in S /\ holder["core"] = "vpn")
  <2> DEFINE g == holder["global"]
  <2>1. g \in Stack /\ pc[g] \in InLwip
    BY <1>2, Zenon DEF LockInv
  <2>2. pc[g] = "lock_impl" => holder["impl"] \notin S
    BY <1>2, <2>1, Zenon DEF LockInv
  <2>3. holder["core"] \notin S /\ holder["handler"] \notin S
    BY <1>2, Zenon DEF LockInv
  <2> HIDE DEF g
  <2>4. \A l \in Locks : Wants(g, l) => l \in {"core", "handler"} \/ (l = "impl" /\ pc[g] = "lock_impl")
    BY <2>1 DEF Wants, Waiting
  <2>5. \A l \in Locks : Wants(g, l) => holder[l] \notin S
    BY <2>2, <2>3, <2>4, Zenon
  <2> QED BY <1>2, <2>5, Zenon DEF g
<1>3. CASE holder["global"] \notin S /\ ~("vpn" \in S /\ holder["core"] = "vpn")
  <2>1. \A l \in Locks : holder[l] \notin S
    BY <1>3, Zenon DEF LockInv
  <2> QED BY <2>1, Zenon
<1> QED BY <1>1, <1>2, <1>3, Zenon

(* No deadlock on the four mutexes, however emit_packet, the core's callbacks,
   stop() and the shutdown of LwipRuntime interleave.                       *)
THEOREM NoDeadlock == Spec => []NoCircularWait
<1>1. Inv => NoCircularWait
  BY LockOrder, Zenon DEF Inv
<1> QED BY <1>1, InvHolds, PTL

(* A tunnel marked connected by tun_start has its whole configuration. *)
THEOREM Configured == Spec => []UpMeansConfigured
<1>1. Inv => UpMeansConfigured
  BY Zenon DEF Inv, TunInv
<1> QED BY <1>1, InvHolds, PTL

(* send_l3_packet queues a packet for no other tunnel than its own, and
   connect() does not end while inject_l3_packet is about to post to its
   io_context.                                                              *)
THEOREM PacketTunnel == Spec => []PacketStaysInTunnel
<1>1. Inv => PacketStaysInTunnel
  BY Zenon DEF Inv, TunInv, PacketInv, Sending, InCore, PacketStaysInTunnel
<1> QED BY <1>1, InvHolds, PTL

(* The client is destroyed after its thread has ended and with no caller left. *)
THEOREM ClientLifetime == Spec => []ClientOutlivesUse
<1>1. Inv => ClientOutlivesUse
  BY Zenon DEF Inv, ControlInv, TunInv, PacketInv, ClientOutlivesUse, ClientGone
<1> QED BY <1>1, InvHolds, PTL

(* The last event posted says whether the tunnel is up. *)
THEOREM EventsAgree == Spec => []EventsFollowTunnel
<1>1. Inv => EventsFollowTunnel
  BY Zenon DEF Inv, EventInv
<1> QED BY <1>1, InvHolds, PTL

(* Every core after a downgrade is built with the non-preferred algorithms. *)
THEOREM Downgraded == Spec => []DowngradeSticks
<1>1. Inv => DowngradeSticks
  BY Zenon DEF Inv, LoopInv, DowngradeSticks
<1> QED BY <1>1, InvHolds, PTL

(* The threads are at their labels and the members have their types; the delay
   stays between its first value and its limit.                             *)
THEOREM TypeCorrect == Spec => []TypeOK
<1>1. Init => NumberInv /\ FlagInv
  <2>1. Init => NumberInv
    BY Delays, VpnBounds DEF Init, NumberInv, Config, Push, NoPush, Packet, NoPacket
  <2>2. Init => FlagInv
    BY Zenon DEF Init, FlagInv
  <2> QED BY <2>1, <2>2, Zenon
<1>2. Inv /\ NumberInv /\ FlagInv /\ [Next]_vars => NumberInv' /\ FlagInv'
  BY NumberStep, FlagStep, Zenon DEF Inv, ControlInv
<1>3. Inv /\ NumberInv /\ FlagInv => TypeOK
  BY Zenon DEF Inv, ControlInv, Labels, NumberInv, FlagInv, TypeOK
<1> QED BY <1>1, <1>2, <1>3, InvHolds, PTL DEF Spec
=============================================================================
