---------------------------- MODULE DnsResolver ----------------------------
(***************************************************************************)
(* LwipRuntime::async_resolve: the lookups relay sessions start, their UDP *)
(* PCBs and timers, and the handlers posted with the results.  All of it   *)
(* runs on the instance's Asio thread, one handler at a time; timer        *)
(* completions, packets, posted handlers and stop() come in any order.     *)
(***************************************************************************)
EXTENDS Integers

CONSTANTS
  Lookups,   \* calls of async_resolve, each made once
  IdSpace,   \* values of a query id: 2^16
  BadNames,  \* lookups whose host has an empty or overlong label
  MaxStops   \* bound: calls of stop()

ASSUME Ids == IdSpace \in Nat \ {0}
ASSUME Names == BadNames \subseteq Lookups /\ MaxStops \in Nat

VARIABLE d  \* the resolver

vars == <<d>>

-----------------------------------------------------------------------------
(* entries is dns_queries_, keyed by id; a PCB's argument is the DnsQuery    *)
(* of its lookup, which the map (or a posted handler) keeps alive.           *)
Resolver ==
  [ next_id : 0 .. IdSpace - 1,
    id      : [Lookups -> -1 .. IdSpace - 1],           \* -1: none yet
    entries : SUBSET Lookups,
    pcbs    : SUBSET Lookups,
    timer   : [Lookups -> {"none", "armed", "expired"}], \* expired: queued
    live    : SUBSET Lookups,        \* the timer's lifetime token is valid
    posted  : [Lookups -> Nat],      \* posts of the handler that have not run
    called  : [Lookups -> Nat],
    asked   : SUBSET Lookups,
    threw   : SUBSET Lookups,        \* the call ended in an exception
    stops   : 0 .. MaxStops ]

Fresh ==
  [ next_id |-> 1 % IdSpace, id |-> [l \in Lookups |-> -1], entries |-> {}, pcbs |-> {},
    timer |-> [l \in Lookups |-> "none"], live |-> {},
    posted |-> [l \in Lookups |-> 0], called |-> [l \in Lookups |-> 0],
    asked |-> {}, threw |-> {}, stops |-> 0 ]

Find(x, i) == { l \in x.entries : x.id[l] = i }

\* cancel() does not reach a completion that is already queued.
Cancel(x, ls) ==
  [x EXCEPT !.timer = [l \in Lookups |->
     IF l \in ls /\ x.timer[l] = "armed" THEN "none" ELSE x.timer[l]]]

Post(x, ls) ==
  [x EXCEPT !.posted = [l \in Lookups |->
     IF l \in ls THEN x.posted[l] + 1 ELSE x.posted[l]]]

\* Variant: the entry is not erased.
completeKeepsEntry(x, i) ==
  LET found == Find(x, i)
  IN Post(Cancel([x EXCEPT !.pcbs = @ \ found], found), found)

\* Variant: the PCB is not removed.
completeKeepsPcb(x, i) ==
  LET found == Find(x, i)
  IN Post(Cancel([x EXCEPT !.entries = @ \ found], found), found)

\* complete_dns_query: an unknown id is ignored.
complete_dns_query(x, i) ==
  LET found == Find(x, i)
  IN Post(Cancel([x EXCEPT !.entries = @ \ found, !.pcbs = @ \ found], found), found)

TakeId(x, l) ==
  [x EXCEPT !.asked = @ \cup {l}, !.id[l] = x.next_id,
            !.next_id = (@ + 1) % IdSpace]

\* udp_recv with the query as argument, then emplace, which keeps the old
\* entry of an id that is taken.
Emplace(x, l) ==
  [x EXCEPT !.pcbs = @ \cup {l},
            !.entries = IF Find(x, x.id[l]) = {} THEN @ \cup {l} ELSE @]

\* Variant: the token stop() invalidated is not renewed.
armStaleToken(x, l) ==
  IF l \in x.entries
  THEN [x EXCEPT !.timer[l] = "armed",
                 !.live = IF x.stops = 0 THEN @ \cup {l} ELSE @]
  ELSE x

\* The wait for the answer.  A query that did not get into the map dies with
\* async_resolve, and its timer with it.
Arm(x, l) ==
  IF l \in x.entries
  THEN [x EXCEPT !.timer[l] = "armed", !.live = @ \cup {l}]
  ELSE x

-----------------------------------------------------------------------------
(* async_resolve. *)

\* Bound: an id is not reused while the timer of its last user is pending or
\* queued, which takes 2^16 lookups in the five seconds a timer lasts.
IdIdle == \A l \in d.asked : d.id[l] = d.next_id => d.timer[l] = "none"

\* A literal, or no server, or no PCB: the handler is posted at once (with an
\* id when only the PCB is missing).
async_resolve_now(l) ==
  /\ l \notin d.asked
  /\ d' \in { Post([d EXCEPT !.asked = @ \cup {l}], {l}) }
            \cup (IF IdIdle THEN { Post(TakeId(d, l), {l}) } ELSE {})

async_resolve(l) ==
  /\ l \notin d.asked /\ l \notin BadNames /\ IdIdle
  /\ d' = Arm(Emplace(TakeId(d, l), l), l)

\* No memory for the packet, or udp_sendto fails.
async_resolve_unsent(l) ==
  /\ l \notin d.asked /\ l \notin BadNames /\ IdIdle
  /\ d' = complete_dns_query(Emplace(TakeId(d, l), l), d.next_id)

\* The configured server is not an address.
async_resolve_no_server(l) ==
  /\ l \notin d.asked
  /\ d' = [d EXCEPT !.asked = @ \cup {l}, !.threw = @ \cup {l}]

\* make_dns_query throws after the query was put into the map.
async_resolve_throws(l) ==
  /\ l \in BadNames \ d.asked /\ IdIdle
  /\ d' = [Emplace(TakeId(d, l), l) EXCEPT !.threw = @ \cup {l}]

-----------------------------------------------------------------------------
\* A packet reaches the PCB of a query that was sent; whatever it holds, the
\* query is completed.
dns_recv(l) ==
  /\ l \in d.pcbs \ d.threw
  /\ d' = complete_dns_query(d, d.id[l])

TimerExpires(l) ==
  /\ d.timer[l] = "armed"
  /\ d' = [d EXCEPT !.timer[l] = "expired"]

\* The timer's handler, queued before the timer was cancelled or not.
TimerHandler(l) ==
  /\ d.timer[l] = "expired"
  /\ LET x == [d EXCEPT !.timer[l] = "none"]
     IN d' = IF l \in d.live THEN complete_dns_query(x, d.id[l]) ELSE x

CallHandler(l) ==
  /\ d.posted[l] > 0
  /\ d' = [d EXCEPT !.posted[l] = @ - 1, !.called[l] = @ + 1]

\* stop(): the token of all lookups so far is invalid, their entries are
\* dropped; a later async_resolve makes a new token.
stop ==
  /\ d.stops < MaxStops
  /\ d' = [Cancel(d, d.entries) EXCEPT
             !.entries = {}, !.pcbs = @ \ d.entries, !.live = {},
             !.stops = @ + 1]

Init == d = Fresh

Next ==
  \/ \E l \in Lookups :
       \/ async_resolve_now(l) \/ async_resolve(l)
       \/ async_resolve_unsent(l) \/ async_resolve_no_server(l)
       \/ async_resolve_throws(l)
       \/ dns_recv(l) \/ TimerExpires(l) \/ TimerHandler(l) \/ CallHandler(l)
  \/ stop

Spec == Init /\ [][Next]_vars

\* Timers expire and Asio runs what is queued.
FairSpec ==
  /\ Spec
  /\ \A l \in Lookups :
       WF_vars(TimerExpires(l)) /\ WF_vars(TimerHandler(l)) /\ WF_vars(CallHandler(l))

-----------------------------------------------------------------------------
\* The resolver's members have their types, the 16-bit id included.
TypeOK == d \in Resolver

\* No PCB outlives its query: the argument lwIP passes to dns_recv is a
\* DnsQuery that dns_queries_ still owns.
PcbArgumentOwned == d.pcbs \subseteq d.entries

\* An answer, a timeout, a send error and stop() race for a lookup, and its
\* handler is posted at most once.
HandlerOnce == \A l \in Lookups : d.posted[l] + d.called[l] <= 1

\* A lookup that waits for an answer has a timer that will end the wait, and
\* whose handler will not find its token invalid; after a stop() as well.
WaitIsTimed ==
  \A l \in d.entries \ d.threw : d.timer[l] # "none" /\ l \in d.live

\* What the caller of lookup l has seen of it.
Outcome(x, l) ==
  IF l \notin x.asked THEN "new"
  ELSE IF x.posted[l] = 1 /\ x.called[l] = 0 THEN "answered"
  ELSE IF x.posted[l] = 0 /\ x.called[l] = 1 THEN "called"
  ELSE IF l \in x.threw THEN "refused"
  ELSE IF l \in x.entries THEN "pending"
  ELSE "dropped"

Out(x) == [l \in Lookups |-> Outcome(x, l)]

Promise == INSTANCE LookupPromise WITH outcome <- Out(d), stops <- d.stops

\* The resolver keeps its promise to the relay sessions: answer, time-out, send
\* error and stop() race, and still every lookup that async_resolve did not
\* throw out of has its handler called exactly once, unless a stop() found it
\* without an answer.
KeepsPromise == Promise!FairSpec
=============================================================================
