# ovpn2ss in TLA+

ovpn2ss turns OpenVPN profiles into local Shadowsocks servers. For each
configured instance an OpenVPN client brings up a tunnel whose IP packets go to
an in-process lwIP stack; a Shadowsocks listener relays TCP streams and UDP
datagrams of local clients through that stack. This directory holds TLA+ models
of the program, the TLC configurations that check them on small instances, and
TLAPS proofs for all values of their constants.

## 1. The system

### Threads

| thread | runs |
|---|---|
| main | `MultiInstanceManager::start`/`stop` |
| one Asio thread per instance | every handler of the instance: sockets, timers, lookups, start and stop of the listener, and the lwIP callbacks reached from them |
| one OpenVPN thread per instance | the connect loop, the in-memory tun; posts packets and tunnel events to the Asio thread |

lwIP is compiled with `NO_SYS` and is one stack for the process: every call into
it holds a process-wide recursive mutex (`acquire_stack`).

### Inventory

| part | state | operations | hard behaviour | module |
|---|---|---|---|---|
| TCP relay (`TcpRelaySession`) | client socket, PCB, two queues, deferred window, pause and EOF flags, `active_self_` | Asio completions, lwIP callbacks | half-closes from both ends, back-pressure both ways, ownership by outstanding operations | `TcpRelay` |
| AEAD stream (`ShadowsocksAeadSession`) | nonces, salt flag, `encrypted_in_` | `decrypt_tcp_chunk`, `encrypt_tcp_chunk`, `client_salt` | reads cut chunks anywhere; nonce arithmetic | `AeadStream` |
| DNS resolver (`LwipRuntime::async_resolve`) | `dns_queries_`, PCBs, timers, lifetime token | resolve, answer, timeout, stop | timer against answer, id wrap, exceptions midway | `DnsResolver`, `LookupPromise` |
| UDP relay (`UdpRelaySession`) | mappings, PCBs, idle timers | receive, lookups, expiry, reply, stop | stale expiries, completions after stop | `UdpRelay` |
| Listener (`ShadowsocksInbound`) and instance handlers of the manager | acceptor, accept loops, `started_`, UDP session | tunnel up/down, shutdown, accept | events of three threads in one queue, failing binds | `Inbound` |
| OpenVPN client (`OpenVpnClient`), tun builder, lwIP's lock, output and addresses (`LwipRuntime`), destruction of an instance | `running_`, the core and its tuns, back-off, downgrade, handlers, four mutexes, `packet_output_`, `active_config_` | connect loop, the core's callbacks, `send_l3_packet`, stop, destructors | four threads, nested locks, posts to a core that may end, a stop nobody remembers | `VpnClient` |
| Shadowsocks address and UDP packet | none | parse, encode, seal, open | lengths at the end of a datagram | `SsAddress`, `Codecs` |
| DNS messages | none | make a query, read a response | labels, pointers, records cut anywhere | `DnsMessage`, `Codecs` |
| Configuration file | none | `load_json_config` | conversions before range tests, uniqueness per protocol | `ConfigFile`, `Codecs` |
| Packet buffer | bytes | - | - | a size in `ByteQueue`, a sequence in `SsAddress` |

How they interact: `Inbound` starts and stops the UDP session of `UdpRelay` and
creates the sessions of `TcpRelay`; both relays call `async_resolve`, and rely
on what `LookupPromise` says of it (the handler runs once, later, from the
io_context); `TcpRelay` feeds its reads to the session of `AeadStream` and seals
what lwIP delivers with it. The events `VpnClient` posts (`last_event`) are what
`Inbound` receives as `TunnelEvent`: `EventsFollowTunnel` of the one is what makes
`FollowsTunnel` of the other a statement about the tunnel. `Codecs` composes the
three codec modules behind the handlers that use them.

## 2. How the models are written

A component's state is one record with the class's members (`s`, `u`, `d`, `i`;
`AeadStream`, which has two ends, has separate variables). A method is an
operator from a record to the record it leaves, or to the set of records it may
leave when a library call can fail. A handler is an action that composes the
methods it calls, to the end. Handlers of one instance do not overlap, because
one thread runs them, so an action is atomic; any order the libraries allow is a
behaviour. Two facts about Asio matter and are modelled everywhere: cancelling
or closing does not recall a completion that is already queued, and an
outstanding operation's handler owns what it captured.

Data is reduced to what control flow depends on: a buffer is its size
(`ByteQueue` represents a deque of buffers by the offsets at which they end, so
the number of queued bytes is the last offset and no recursive sum is needed); a
sealed part of a chunk is its nonce and whether its tag verifies; a name or an
endpoint is a model value.

Definitions called "Variant" in a comment are deliberately wrong versions of the
method that follows them. Nothing refers to them; substituted for that method
they make the property they are meant for fail, which shows the property depends
on it.

### TcpRelay

`pcb` stands for `pcb_` with the state of the PCB it points to; `inflight` for
`TCP_SND_BUF - tcp_sndbuf`; `rcv_wnd` for what the PCB still offers; `reads` and
`write` for outstanding socket operations (`writing_client_` is
`write # "none"`); `Owned` for "some shared_ptr exists". `resolving` is a lookup under
way, `by_name`, `revived`, `starved` and `used_after_free` are history. One
action per completion (`ReadSaltDone`, `ReadDone`, `ReadEof`, `ReadFailed`,
`WriteDone`, `WriteFailed`, `ResolveDone`) and per lwIP callback
(`on_connected`, `on_recv`, `on_recv_fin`, `on_sent`, `on_err`). `ClientAccepts`
is the kernel finishing a write. `flush_to_lwip` returns every outcome of its
loop: all written, paused for want of buffer, paused by `tcp_write`, or closed
by a PCB that takes no data.

Behaviours a reader should know, which follow from the code and are in the
model: a callback with more than 0x3fff bytes (possible when lwIP fills a gap)
makes `encrypt_tcp_chunk` throw and the session close; a refused address closes
the session while the loop over decrypted chunks goes on, so an IP address in the
same read connects a session that is already closed (`revived`); a `tcp_write`
that finds no memory for a PCB with nothing in flight pauses the client with no
callback to resume it (`starved`); and while a domain is looked up nothing pauses
the client, so `pending_lwip_` grows with every read, and a second read of
`read_buf_` may be started after the connection is made.

### AeadStream

The client is external and conforming: it seals with the protocol's
little-endian counter (`Successor`), possibly with a bad tag. The reader is the
loop over `decrypt_tcp_chunk` in the read handler, one action per iteration;
nothing else of the request stream can run meanwhile (`in_handler`).
`increment_nonce` is what the C++ does: `next` is an `int`, so its test for 0
never succeeds for a byte.

### DnsResolver and LookupPromise

`entries` is `dns_queries_`; `live` are the lookups whose lifetime token is
valid. `async_resolve` is split by outcome: literal, no server or no PCB
(`async_resolve_now`), sent, not sent, and the two exceptions (a server address
that does not parse; a name `make_dns_query` refuses, thrown after the query is
in the map). `LookupPromise` is what the callers see: a lookup is new, refused
(the call threw), pending, answered (its handler is posted), called, or dropped.
Only `Stop` drops lookups, all that are pending and no other, and it is tied to the
calls of `stop()` by counting them (`stops`); only an exception refuses one. In the
refinement mapping (`Outcome`) a lookup that was asked for, did not throw, and is
neither in the map nor posted nor called counts as dropped, so a resolver that
loses an accepted lookup at any step but `stop()` does not implement it.

The bound `IdIdle` says an id is not taken again while the timer of its previous
user is pending: 2^16 lookups within five seconds. A query left behind by an
exception has no timer, and its id does come round: then `emplace` fails and a
PCB outlives its query. The run keeps within one round of ids, and so do the two
theorems that this breaks (`NoReturn`: no name is refused, or the lookups fit one
round of ids).

### UdpRelay

`mappings_`, `armed` and `queued` are the mappings, their waiting timers, and
expiries whose handler is queued and knows only the key. `pcbs[k]` counts PCBs
whose argument is a mapping of key k, so both a leak and a dangling argument
show. The key ignores the address type, so a literal given as a domain shares a
mapping with the address: `Kinds` says which types a key comes with.

### Inbound

`queue` is the io_context's FIFO. The OpenVPN thread posts `ready` and `down`,
the main thread `shutdown`, and closing the acceptor queues the aborted accepts.
A bind that fails throws out of the handler and ends the thread (`dead`).

### VpnClient

Four threads share one instance: `vpn` (the connect loop, on which the OpenVPN
core calls back), `io` (the instance's Asio thread), `peer` (another instance's
Asio thread, whose lwIP timers serve the PCBs of every instance) and `main`
(`MultiInstanceManager::stop` and the destructors). Here handlers do overlap, so
each thread has a label (`pc`), and a step goes from one lock, or one read of
state that another thread writes, to the next. A critical section that takes no
further lock is one step, enabled while the lock is free; `holder` records the
locks held across steps: lwIP's global mutex during a call into lwIP,
`impl_mutex_` in `send_l3_packet`, the core's mutex in `event`.

Reductions, each chosen so that no behaviour of the properties' variables is
lost:

- a visit to lwIP while there is no output sends nothing and is left out; what
  brings a thread into lwIP (a relay, a timer, a packet from `tun_send`, which is
  posted) is not told apart;
- what the tun builder's setters collect is chosen when the tun is established: a
  set of address families, and whether one address does not parse;
- the posted packet's own test of `connected`, on the core's thread, is left out:
  it can only drop the packet;
- `running_` stands also for the stop token of the thread, which is requested
  right after `running_` is unset and only tested together with it;
- `connected` is the number of the tun whose flag is set, since at most one is.

Of the core (external) the model assumes what its code guarantees: callbacks come
on the thread in `connect()`, a tun is stopped before another is made and before
`connect()` ends, DISCONNECTED is reported after the last tun's stop, and a
`stop()` before `connect()` began is not remembered. The handlers and
`handler_mutex_` are declared after the thread and so destroyed before it is
joined (`HandlersGone`); a handler in that state is found whole or empty.

### SsAddress, DnsMessage, ConfigFile and Codecs

Operators named after the functions, on sequences of bytes (a JSON value is a
record of its kind and its value). `Codecs` gives each handler (`send_to_lwip`,
`send_to_client`, the query of `async_resolve`, `dns_recv`, the load at start)
one input from a set that contains every short input, and the properties compare
its output with a definition that does not walk the bytes: parsing against
encoding, the query against its host character by character, the response
against the records it was made from, the configuration against the rules of
`docs/configuration.md`. A port is converted as `get<int>()` does (`GetInt`: an
integer is narrowed, a float truncated, a boolean taken as 0 or 1). A 32-bit
word is its four bytes from the highest to the lowest; `IP_ADDR4` makes the
order of the network of its bytes, `IP_ADDR6` stores the words it is given as
the host keeps them (`InMemory`, with the host's order as the constant
`LittleEndian`). The cipher is ideal: a sealed byte is a symbol for what it was
sealed from, and opens only with the same key, salt and place. A loop is a
recursive function of the place it has reached (of the offset and the number of
labels in `skip_dns_name`, of the record and its offset in `FindAnswer`), one
turn in its body. A server's answer (external) is built from its parts: header
bits, the question that comes back, and records with a name of labels and an
end, which is a zero or a pointer; then it is cut.

## 3. Runs

| run | what it shows |
|---|---|
| `tcp_relay` | `client_queue_bytes_` is exact; the receive window is conserved; the backlog is bounded; lwIP never points at a destroyed session. A closed session drops its PCB and is destroyed; a pause ends; a withheld window reopens. For targets by address one read is outstanding and the upload is never ahead of lwIP. With refused addresses, memory failures, both address types and two chunks per read. Deadlock is checked: only a destroyed session may rest, or a closed one whose PCB `tcp_connect` refused. |
| `tcp_truncation` | Violated: the target's FIN shuts the client's side at once, with response data still queued. |
| `tcp_lifetime` | Violated: EOF from the client, then the target's FIN: `release_active_self` drops the last owner and `handle_remote_fin` goes on reading the session. |
| `aead_stream` | However reads cut the stream, the reader stands at chunk boundaries, refuses only bad chunks, opens every good one in the end; replies use the nonce the client expects. Streams short enough that no nonce byte wraps. |
| `aead_carry` | Violated: one more chunk, the first byte of the nonce wraps, nothing carries, and a good chunk is refused. In the code this is the 129th chunk. |
| `dns_resolver` | A handler is called at most once, and exactly once unless the call throws or a `stop()` finds the lookup waiting (refinement of `LookupPromise` with its fairness); no PCB outlives its query. Waits end by their timers, after a stop as well. |
| `udp_relay` | One PCB per mapping and none beyond; every mapping expires; a stopped session holds nothing and is destroyed; replies name targets as asked. |
| `inbound` | A started listener is never deaf, whatever stops, starts and accepts are queued together; it follows a tunnel that settles; nothing comes back after the shutdown. |
| `vpn_client` | No set of threads waits for itself; a tunnel that is up is configured whole; a packet is queued only for the tunnel under whose addresses lwIP sent it, and only while the core is in `connect()`; the client outlives its users; the listener is told the truth; a cipher failure leads to an attempt with the non-preferred algorithms, and every later core keeps them; the shutdown completes unless its `stop()` came between the loop's test and `connect()`. |
| `codecs` | A datagram gives its target and payload exactly, or nothing if it was cut, altered or sealed with another password; every reply can be read by the client; a query names its host and refuses exactly the hosts that have no name; a response gives the first record that fits, wherever the message was cut; a configuration is accepted iff it follows the manual's rules once its ports are converted, and one that follows them as written is accepted with the ports it names. |
| `config_ports` | Violated: the conversion comes before the range test, so an integer that narrows to a port (4294967297, as 1), and for `udp_port` a float or a boolean, is accepted where the manual asks for an integer in 1..65535. |
| `dns_ipv6` | Violated: the words of an AAAA record reach `IP_ADDR6` in host order, where lwIP's `ip6_addr.h` asks for network order; on a little-endian host each is reversed. |

Invariants that are proved and that a run's liveness or refinement depends on are
not repeated in its configuration: the type invariants of `TcpRelay`, `UdpRelay`,
`DnsResolver` and `VpnClient`; `WithheldWindowIsReturned` (for
`WithheldWindowReopens`), `MappingIsTimed` (for `MappingsExpire`), `WaitIsTimed`
(for `KeepsPromise`), `FollowsTunnel` (for `ListenerFollowsTunnel`) and
`PausedAwaitsAck` (for `PausedClientResumes`).

Two faults are in the `tcp_relay` run, and the properties they touch name them as
exceptions and hold otherwise: in a `revived` session `ClosedSessionHasNoPcb`,
`ClosedSessionIsDestroyed`, `WithheldWindowReopens` and `PausedClientResumes` may
fail, after a `starved` pause the last. Each is a field that only the step in question
sets, so the runs and the proofs show that nothing else breaks these properties.

`ShutdownCompletes` names its exception (`missed`): a `stop()` that falls between
the loop's test of `running_` and `connect()` reaches a core that is not connecting
yet. The second `stop()`, in the destructor, finds `running_` unset and does
nothing, so the join waits for as long as the connection lasts.
`CipherFailureRetried` names another: an exception leaves `needs_downgrade_` set,
and then the next core's cipher failure does not stop it. No property speaks of the
reconnect delay: that every return of `connect()` resets it, a failed one too, so
that only exceptions back off, is what `Return`, `Throws` and `Sleep` say.

### Bounds

Byte counts are scaled down and keep their order. In `tcp_relay` low-water 2 <
high-water 3 = window 3; send buffer 3 with low-water 2; chunks of up to 2, two
in a read (the two violation runs are one size larger, with one chunk in a
read). The window exceeds the largest chunk, so oversized callbacks happen; the
salt and one chunk pass the high-water mark, so windows are withheld; two chunks
fill the send buffer, so clients are paused. `MaxPending` (packets in the upload
queue) and `ChunksPerRead` bound the only unbounded queue. A nonce has two bytes
of base 7, so three chunks (six steps) do not wrap and the fourth does; payload
sizes include 0 and one above the maximum; reads of up to 4 bytes cut a chunk of
3 or 5 anywhere. Three lookups share three ids (the counter starts at 1, so it
wraps), two stops; two UDP keys, one with both address types, four datagrams,
two queued expiries per key; five tunnel events, two accepts. Each is the
smallest value at which every action and the race in question happen. In
`vpn_client` two tuns and two connects (a reconnect after a return, an exception
or a downgrade), a push of both families, or one of a family and an address that
does not parse; the delay has one value there, for no property reads it. In
`codecs` addresses of two and three bytes, salt and tag of two, labels of at
most two, ports up to 7 in an `int` of 5 bits: all plain texts of up to seven
bytes, all hosts of up to seven characters, all pairs of eight kinds of records
cut at every byte, all pairs of port choices. The theorems below remove the
bounds for the safety properties of all seven modules.

`CHECK_DEADLOCK FALSE` stands where the system may rest: clients and targets
that fall silent, all bounded inputs used up, an instance that has been
destroyed (`vpn_client`), an input that has been handled (`codecs`).

### Fairness

Weak fairness of queued completions (one thread that keeps running), of timers,
of lookups (each has its own timer), and of the end of an operation on a closed
socket. For `TcpRelay` also: a SYN or bytes in flight are answered or lwIP gives
the connection up (`TCP_SYNMAXRTX`, `TCP_MAXRTX`); and a client accepts what is
written or its connection fails, the one assumption about the outside. No
fairness of clients sending, targets sending, or tunnel events; `AeadStream`
assumes that bytes which were sent arrive, and `Inbound` that `wait_for` returns.
In `VpnClient` every thread is scheduled, a call into lwIP returns, and a thread
that waits for a mutex which is free again and again gets it (strong fairness);
the server and the network owe nothing (`CoreActs` has no fairness), except that a
core that was stopped stops its tun and ends.

## 4. Proofs

`TcpRelayProofs`, `AeadStreamProofs`, `UdpRelayProofs`, `DnsResolverProofs`,
`InboundProofs`, `VpnClientProofs`, and for `Codecs` both `CodecsProofs` (addresses,
UDP packets, configuration) and `DnsMessageProofs` (queries and answers); these two
are checked faster apart, and share a few lemmas about sequences word for word. All
assumptions are the named ASSUMEs of the modules; a theorem that needs another
condition states it (two each of `AeadStream` and `DnsResolver`). Where
the state is a record, the inductive invariant is a predicate of it, each method has
a lemma that it preserves (or restores) the invariant, and the step of an action
follows the composition of methods in its handler.

- **TcpRelay**: `TypeCorrect`, `Accounting`, `WindowConservation`,
  `WindowReturn`, `BacklogBound`, `PcbOwner`, for all sizes, marks and inputs.
  `IInv` adds to the properties: a write always has a buffer to write, and on an
  open socket what is queued is being written (else `WithheldWindowIsReturned`
  is not inductive); nothing precedes the salt; what the backlog exceeds the
  high-water mark by is paid for in withheld window, `Overhead + 1` bytes for
  each (this makes the bound inductive); and until `connect_ip` has run there is
  no PCB and no response (so a new PCB starts with its whole window).
  About the upload: `SingleRead`, `UploadHandedOver`, `ClosedDetached` and
  `PauseEnds`, with refused addresses and failures of `tcp_write`. Their invariant
  `UInv` is inductive next to `IInv`: a session closed before its target is known
  has no read left, so that nothing connects it later; a pause falls neither into
  the handshake nor into a lookup; a paused client is not being read, and a client
  that is being read has nothing queued for lwIP; and each queued packet fits into
  an empty send buffer, so a full one has bytes in flight.
  `PauseEnds` (`PausedAwaitsAck`) is the safety half of `PausedClientResumes`.
- **AeadStream**: `TypeCorrect` and `Boundary`, for all sizes, reads and numbers of
  chunks; `Opens` and `Replies` under `NoWrap`, twice the chunks of a stream being
  fewer than the values of a byte (127 chunks in the code, where `aead_carry` shows
  that longer streams fail). The invariant says that the bytes not yet taken out
  begin the chunk after the last one opened and no other, and, under `NoWrap`, that
  every nonce is twice the number of chunks before it (`CountInv`).
- **UdpRelay**: `TypeCorrect`, `PcbArgument`, `Timed`, `Stopped`, `Replies`, for
  all keys. `IInv` adds: a stopped session with a receive to finish has no other
  owner, so the end of that receive destroys it and whatever mapping it made;
  and a mapping's target type was asked for.
- **DnsResolver**, for any lookups, names and ids: `TypeCorrect`, `AtMostOnce`
  and `Timed`, names that `make_dns_query` refuses included; under `NoReturn`,
  `PcbArgument` and `Refinement` (`Spec => Promise!Spec`: each step of the
  resolver is the step of the promise that it should be, and only `stop` drops).
  `IInv` adds: a query in the map was asked for, and its handler has not been
  posted; a query that is in the map without a timer was left by an exception.
  `RoundInv` counts: as long as there are no more lookups than ids, the ids
  taken are all different, so the next one is free even of a query that nothing
  will ever erase.
- **Inbound**: `Hearing`, `Following`, `Shut`, `TypeCorrect`, for any number of
  tunnel events and clients. `IInv` is about the queue: the last tunnel event in
  it agrees with the tunnel (what `FollowsTunnel` needs while events are still
  queued), the start of the instance is its first task, a shutdown is in it only
  once `running_` is unset. While a handler runs, its task is neither in the
  queue nor done; `Mid` says what holds then, and each handler has a lemma from
  `Mid` back to `IInv`. That a restart which overtakes the aborted accepts of
  the stop before it cannot multiply accept loops without limit (`accepting` in
  `TypeOK`) takes an account: each accept, outstanding, aborted in the queue or
  to be started by a queued `ready`, was paid for by a tunnel event of its own
  (`Budget`).
- **VpnClient**: `NoDeadlock`, `Configured`, `PacketTunnel`, `ClientLifetime`,
  `EventsAgree`, `Downgraded`, `TypeCorrect`, for any pushes, delays, tuns and
  rounds. `Inv`, to which the last adds the data, ties each lock to the labels
  of its holder (from which the order global, `impl_mutex_`, core, handlers
  follows, and no circular wait); says at which labels of the loop lwIP has an
  output and a tun is connected; that a thread in `send_l3_packet` finds an
  output (it has the global lock, so neither teardown nor a new configuration
  comes in between, whence the packet's tunnel and the life of the core); and
  what the tun is at each label of a callback.

- **Codecs**: `DatagramWhole`, `RepliesReadable`, `QueryNames`, `FirstMatch` and
  `ConfigRules`: all five properties of `codecs`, for datagrams, names, records
  and documents of every length, all header bits and every cut. The sizes of
  addresses, salts, tags, labels, ports and `int` are the constants of
  `Lengths`, `LabelLength` and `Widths`, and the host's byte order that of
  `ByteOrder`; the sets of inputs are restricted by `ClientDatagrams`,
  `TargetReplies`, `LookupQuestions`, `ServerAnswers` and `JsonDocuments` to
  what the code that makes them can make (a name to look up has at most 255
  bytes, for its length was one; the labels of a record's name are no longer
  than a host's). `Handled` (the output is the input's own handler's) reduces
  each to a fact about operators. The loops are walked one turn at a time: for
  each recursive function a lemma shows that a function satisfying its equation
  exists, and a claim about every turn is proved by taking the least number of
  turns at which it fails. That there is a least one (`WellFounded`) is an
  assumption of the lemmas of `DnsMessageProofs` which its end discharges from
  the library's `WFMin`, so that the library is not in the context of every
  step. For `QueryNames` the claim is that the labels from a place on are
  refused or written as `NamedFrom` says, and that `skip_dns_name`, set on such
  bytes at any offset of any packet, ends behind them or fails because the
  packet does (`Walks`); for `FirstMatch`, that the search from the n-th record
  on finds what `WantedFrom` says, or that nothing from there on has arrived
  (`FoundFrom`); for `ConfigRules`, that after n objects the ports taken are
  those of the objects before, as converted; a port written in its range is not
  changed by the conversion.

Only model-checked: liveness, and the fairness half of the refinement. They are out
of this prover's reach, as is ENABLED; the safety that liveness rests on is proved
where it is an invariant (`WindowReturn`, `PauseEnds`, both `Timed`, `Following`,
`Downgraded`). Every invariant that a run expects to hold is a theorem.

## 5. Not modelled

- Data races. `on_err` may run on a thread that is in lwIP for another instance, or
  on the OpenVPN thread when it changes an address, while `flush_to_lwip`,
  `flush_to_client`, `close` and the destructor test `pcb_` before they take the
  lock; `dns_server` reads `active_config_`, a record of strings and vectors, without
  it. The first needs sessions and threads in one model, whose product is out of
  TLC's reach: `TcpRelay` and `DnsResolver` have one thread, and `VpnClient`, which
  has the threads, has no sessions. What the second may return has no bound.
- Sessions that are still alive when the io_context is destroyed, after the
  runtime and the client: they are owned by handlers that never run.
- The cipher, HKDF, the MD5 key derivation and the random generator: computations
  of mbedTLS without control flow of the program's own.
- The OpenVPN 3 core and lwIP themselves, used through what the code relies on;
  lwIP's timers, MTU and routes; the routes, session name and proxy settings of the
  tun builder, which the code ignores.
- `PacketBuffer`, a vector of bytes; logging; the signal loop of `main`.
- Several instances in one model: they share lwIP's lock and timers (`peer` in
  `VpnClient`) and the counter of DNS ids, nothing else.
