------------------------------- MODULE Codecs -------------------------------
(***************************************************************************)
(* What the instance reads and writes: the datagrams of its Shadowsocks    *)
(* clients, the queries and answers of its resolver, its configuration.    *)
(* Each handler turns one input into one output; the properties compare    *)
(* the two with definitions that do not walk the bytes.                    *)
(***************************************************************************)
EXTENDS SsAddress, DnsMessage, ConfigFile

CONSTANTS
  Salt, OtherSalt,    \* two salts, as SaltSize symbols
  Datagrams,          \* [plain, key, cut, altered]: what a client sealed, and what arrives
  Replies,            \* [target, addr, port, payload]: what a target answers to a mapping
  Questions,          \* [id, host, qtype]: what is looked up
  Answers,            \* [question, id, response, bits, rcode, records, cut]: what a server answers
  Documents           \* sequences of JSON objects

Byte == {n \in Nat : n < 256}
Word == {n \in Nat : n < 65536}

\* Stands for a byte with another value than the one it replaces.
Noise == [of |-> <<"noise", "noise", "noise">>, at |-> 0]

\* A salt is the length of one, and altering a byte of it changes it.
ASSUME Salts ==
  \A salt \in {Salt, OtherSalt} :
    /\ salt \in Seq({salt[k] : k \in DOMAIN salt}) /\ Len(salt) = SaltSize
    /\ \A k \in 1 .. SaltSize : salt[k] # Noise

ASSUME ClientDatagrams ==
  Datagrams \subseteq [plain : Seq(Byte), key : STRING, cut : Nat, altered : Nat]

\* A mapping's target came out of parse_ss_address, its answers out of lwIP.
ASSUME TargetReplies ==
  \A r \in Replies :
    /\ \/ /\ r.target \in [type : {Domain}, host : [name : Seq(Byte)], port : Word]
          /\ Len(r.target.host.name) <= 255
       \/ r.target \in [type : {Ipv4, Ipv6}, host : [ip : Seq(Byte), spelling : STRING], port : Word]
    /\ r.addr \in Seq(Byte) /\ Len(r.addr) \in {V4Len, V6Len}
    /\ r.port \in Word /\ r.payload \in Seq(Byte)

\* A name to look up came behind a byte with its length.
ASSUME LookupQuestions ==
  \A q \in Questions :
    /\ q \in [id : Word, host : Seq(Byte), qtype : Word] /\ Len(q.host) <= 255

\* The labels of a name end in a zero, or in a pointer to other labels.
EndsName(e) ==
  \/ e = <<0>>
  \/ e \in Seq(Byte) /\ Len(e) = 2 /\ e[1] >= 192

\* A record as it is sent: its labels are those of a host, its sizes fit their fields.
Fine(r) ==
  /\ r.name.labels \in Seq(Byte) /\ Len(r.name.labels) <= 255
  /\ QueryName(r.name.labels).ok /\ EndsName(r.name.end)
  /\ r.type \in Word /\ r.class \in Word
  /\ r.data \in Seq(Byte) /\ Len(r.data) \in Word

\* The response to a lookup, whatever its header says.
ASSUME ServerAnswers ==
  \A a \in Answers :
    /\ a.question \in [id : Word, host : Seq(Byte), qtype : {DnsTypeA, DnsTypeAaaa}]
    /\ Len(a.question.host) <= 255 /\ QueryName(a.question.host).ok
    /\ a.id \in Word /\ a.response \in BOOLEAN /\ a.cut \in Nat
    /\ a.bits \in Nat /\ a.bits < 2048 /\ a.rcode \in Nat /\ a.rcode < 16
    /\ Len(a.records) \in Word /\ \A k \in 1 .. Len(a.records) : Fine(a.records[k])

ASSUME JsonDocuments == \A doc \in Documents : doc \in Seq({doc[n] : n \in DOMAIN doc})

VARIABLES input, output

vars == <<input, output>>

Nothing == [ok |-> FALSE]

\* What arrives of s when it ends after n bytes at the latest.
CutAt(s, n) == IF n < Len(s) THEN First(s, n) ELSE s

-----------------------------------------------------------------------------
(* The datagrams of a client, which knows the password if its key is "pw". *)

Altered(wire, n) == [wire EXCEPT ![n] = Noise]

\* The first bytes of a sealed datagram, one of them altered unless altered is 0.
Arriving(d) ==
  LET wire == CutAt(encrypt_udp_packet(d.key, Salt, d.plain), d.cut) IN
  IF d.altered \in 1 .. Len(wire) THEN Altered(wire, d.altered) ELSE wire

\* send_to_lwip up to the choice between a lookup and an address.
send_to_lwip ==
  /\ input.kind = "datagram" /\ output = Nothing
  /\ LET opened == decrypt_udp_packet("pw", Arriving(input.is)) IN
     output' = [ok |-> TRUE, target |-> IF opened.ok THEN parse_ss_address(opened.plain)
                                        ELSE Nullopt]
  /\ UNCHANGED input

\* Variant: the client is told the address it did not ask for.
ReplyTargetAddress(r) ==
  [type |-> IF Len(r.addr) = V6Len THEN Ipv6 ELSE Ipv4,
   host |-> Text(r.addr, "ntoa"), port |-> r.port]

\* The target as the client named it, or the answering address, and its port.
ReplyTarget(r) ==
  IF r.target.type = Domain THEN [r.target EXCEPT !.port = r.port]
  ELSE [type |-> IF Len(r.addr) = V6Len THEN Ipv6 ELSE Ipv4,
        host |-> Text(r.addr, "ntoa"), port |-> r.port]

send_to_client ==
  /\ input.kind = "reply" /\ output = Nothing
  /\ LET to == ReplyTarget(input.is)
         head == encode_ss_address(to.type, to.host, to.port)
     IN output' = [ok |-> TRUE,
                   wire |-> IF head.ok
                            THEN encrypt_udp_packet("pw", OtherSalt, head.bytes \o input.is.payload)
                            ELSE <<>>]
  /\ UNCHANGED input

-----------------------------------------------------------------------------
(* The resolver. *)

Ask ==
  /\ input.kind = "question" /\ output = Nothing
  /\ output' = [ok |-> TRUE,
                query |-> make_dns_query(input.is.id, input.is.host, input.is.qtype)]
  /\ UNCHANGED input

\* Labels, and the zero or the pointer to other labels that ends them.
NameBytes(name) == QueryName(name.labels).bytes \o name.end

RecordBytes(r) ==
  NameBytes(r.name) \o append_u16(r.type) \o append_u16(r.class) \o <<0, 0, 0, 60>>
  \o append_u16(Len(r.data)) \o r.data

Flags(a) == (IF a.response THEN 32768 ELSE 0) + 16 * a.bits + a.rcode

\* The message up to the n-th record: the question of the query comes back.
Message(a, n) ==
  LET question == make_dns_query(a.question.id, a.question.host, a.question.qtype).bytes
      records[k \in 0 .. Len(a.records)] ==
        IF k = 0 THEN <<>> ELSE records[k - 1] \o RecordBytes(a.records[k])
  IN append_u16(a.id) \o append_u16(Flags(a)) \o append_u16(1)
     \o append_u16(Len(a.records)) \o append_u16(0) \o append_u16(0)
     \o After(question, 12) \o records[n]

dns_recv ==
  /\ input.kind = "answer" /\ output = Nothing
  /\ LET a == input.is IN
     output' = [ok |-> TRUE,
                ip |-> parse_dns_response(CutAt(Message(a, Len(a.records)), a.cut),
                                          a.question.id, a.question.qtype)]
  /\ UNCHANGED input

Load ==
  /\ input.kind = "document" /\ output = Nothing
  /\ output' = [ok |-> TRUE, config |-> load_json_config(input.is)]
  /\ UNCHANGED input

-----------------------------------------------------------------------------
Given(kind, x) == input = [kind |-> kind, is |-> x]

Init ==
  /\ \/ \E d \in Datagrams : Given("datagram", d)
     \/ \E r \in Replies : Given("reply", r)
     \/ \E q \in Questions : Given("question", q)
     \/ \E a \in Answers : Given("answer", a)
     \/ \E doc \in Documents : Given("document", doc)
  /\ output = Nothing

Next == send_to_lwip \/ send_to_client \/ Ask \/ dns_recv \/ Load

Spec == Init /\ [][Next]_vars

Done(kind) == output.ok /\ input.kind = kind

-----------------------------------------------------------------------------
Untouched(d) ==
  /\ d.key = "pw"
  /\ d.cut >= SaltSize + Len(d.plain) + TagSize
  /\ d.altered \notin 1 .. SaltSize + Len(d.plain) + TagSize

\* The ends of a plain text that could be a whole address, by its first byte.
AddressLengths(plain) ==
  IF plain = <<>> THEN {}
  ELSE CASE plain[1] = Ipv4 -> {1 + V4Len + 2}
         [] plain[1] = Ipv6 -> {1 + V6Len + 2}
         [] plain[1] = Domain /\ Len(plain) > 1 -> {2 + plain[2] + 2}
         [] OTHER -> {}

\* A client's datagram is taken whole or not at all: one that was cut, altered
\* or sealed with another password gives no target, and in one that was not the
\* target and the payload are exactly the bytes the client wrote (encoding the
\* parsed target again gives them back); it is dropped only when the bytes end
\* before an address does.
DatagramOpensWhole ==
  Done("datagram") =>
    LET d == input.is  t == output.target IN
    IF t.ok
    THEN /\ Untouched(d)
         /\ encode_ss_address(t.type, t.host, t.port).bytes \o t.rest = d.plain
    ELSE Untouched(d) => \A n \in AddressLengths(d.plain) : n > Len(d.plain)

\* Every answer of a target reaches the client in a form it can read: it opens
\* with the password, and holds the payload behind the name the client asked
\* for, or behind the address that answered.
ReplyReadable ==
  Done("reply") =>
    LET r == input.is
        opened == decrypt_udp_packet("pw", output.wire)
        t == parse_ss_address(opened.plain)
    IN /\ opened.ok /\ t.ok
       /\ t.rest = r.payload /\ t.port = r.port
       /\ IF r.target.type = Domain THEN t.type = Domain /\ t.host = r.target.host
          ELSE t.host.ip = r.addr

\* A host that no query can name: a label is empty or too long.
Unnameable(host) ==
  \/ \E k \in 1 .. Len(host) : host[k] = Dot /\ (k = 1 \/ host[k - 1] = Dot)
  \/ \E k \in 1 .. Len(host) - MaxLabel :
       \A j \in k .. k + MaxLabel : host[j] # Dot

\* make_dns_query refuses exactly the hosts with an empty or an overlong label
\* (a dot at the end is no label); in the query of any other host each character
\* keeps its place behind the first length, and skip_dns_name, which walks over
\* the lengths, finds the end of the name where the type is.
QueryNamesHost ==
  Done("question") =>
    LET q == input.is  bytes == output.query.bytes IN
    /\ output.query.ok = ~Unnameable(q.host)
    /\ output.query.ok =>
         LET name == skip_dns_name(bytes, 12) IN
         /\ name.ok /\ name.offset = Len(bytes) - 4
         /\ After(bytes, name.offset) = append_u16(q.qtype) \o append_u16(DnsClassIn)
         /\ \A k \in 1 .. Len(q.host) : q.host[k] # Dot => bytes[13 + k] = q.host[k]

Matches(r, qtype) ==
  /\ r.class = DnsClassIn /\ r.type = qtype
  /\ Len(r.data) = IF qtype = DnsTypeA THEN 4 ELSE 16

\* The data of a record in words of four bytes, as they were sent.
Words(r) ==
  [k \in 1 .. Len(r.data) \div 4 |-> [i \in 1 .. 4 |-> r.data[4 * (k - 1) + i]]]

\* What becomes of them on the way to lwIP.
Kept(r) ==
  IF r.type = DnsTypeA THEN Words(r) ELSE [k \in 1 .. 4 |-> InMemory(Words(r)[k])]

\* The first record that matches, if the message arrived that far.
Wanted(a) ==
  { k \in 1 .. Len(a.records) :
      /\ Matches(a.records[k], a.question.qtype)
      /\ \A j \in 1 .. k - 1 : ~Matches(a.records[j], a.question.qtype)
      /\ Len(Message(a, k)) <= a.cut }

\* parse_dns_response takes the address from the first record of the lookup's
\* type and class, whatever records come before it (an alias, another class, a
\* length that does not fit) and wherever the message ends behind it; an answer
\* to another query, an error and a message that ends before that record give no
\* address.  lwIP gets the bytes of an A record as they were sent, and each word
\* of an AAAA record as the host keeps a number.
AnswerIsFirstMatch ==
  Done("answer") =>
    LET a == input.is IN
    /\ output.ip.ok <=> a.id = a.question.id /\ a.response /\ a.rcode = 0 /\ Wanted(a) # {}
    /\ output.ip.ok => \A k \in Wanted(a) : output.ip.words = Kept(a.records[k])

\* The address lwIP is given is the record's: IP_ADDR6 and lwIP take words "in
\* network byte order", the order in which the record has them.
AnswerInNetworkOrder ==
  Done("answer") /\ output.ip.ok =>
    \A k \in Wanted(input.is) : output.ip.words = Words(input.is.records[k])

\* The JSON value of a port: without a udp_port, tcp_port is for both.
JsonPort(object, key) == object[IF key \in DOMAIN object THEN key ELSE "tcp_port"]

\* A port as the document writes it, where it writes an integer.
Written(object, key) ==
  LET json == JsonPort(object, key) IN IF json.kind = "int" THEN json.value ELSE 0

\* A port after get<int>().
Converted(object, key) == GetInt(JsonPort(object, key)).int

StringKeys ==
  {"name", "ovpn", "password", "listen_host", "method", "vpn_username", "vpn_password"}

\* The rules of the manual for one object, but for its port numbers; a key the
\* manual does not name is ignored.
Valid(object) ==
  /\ {"name", "ovpn", "password", "tcp_port"} \subseteq DOMAIN object
  /\ \A key \in StringKeys \cap DOMAIN object : object[key].kind = "string"
  /\ \A key \in {"name", "password"} : object[key].value # ""
  /\ object["ovpn"].value \in Files
  /\ "method" \in DOMAIN object => object["method"].value = SupportedMethod
  /\ object["tcp_port"].kind = "int"

\* All its rules, for ports read by Port: each is a port, and no two instances
\* share one of the same protocol, while TCP and UDP may share a number.
Obeys(doc, Port(_, _)) ==
  /\ doc # <<>> /\ \A n \in 1 .. Len(doc) : Valid(doc[n])
  /\ \A key \in {"tcp_port", "udp_port"} : \A n \in 1 .. Len(doc) :
       /\ Port(doc[n], key) \in 1 .. PortMax
       /\ \A m \in 1 .. Len(doc) : m # n => Port(doc[m], key) # Port(doc[n], key)

\* load_json_config accepts a document iff it follows the manual's rules once
\* its ports are converted to int, and every instance gets the ports converted
\* from its object.  So a document that follows them as it is written is
\* accepted, with the ports written there.
ConfigFollowsRules ==
  Done("document") =>
    LET doc == input.is  c == output.config
        ports(Port(_, _)) ==
          \A n \in 1 .. Len(doc) : /\ c.instances[n].tcp_port = Port(doc[n], "tcp_port")
                                   /\ c.instances[n].udp_port = Port(doc[n], "udp_port")
    IN /\ c.ok <=> Obeys(doc, Converted)
       /\ c.ok => Len(c.instances) = Len(doc) /\ ports(Converted)
       /\ Obeys(doc, Written) => c.ok /\ ports(Written)

\* The manual's table and its rule on ports, read as they stand: tcp_port and
\* udp_port are integers, and "1..65535" is what a document may say.
ConfigAsDocumented ==
  Done("document") /\ output.config.ok => Obeys(input.is, Written)
=============================================================================
