----------------------------- MODULE DnsMessage -----------------------------
(***************************************************************************)
(* The DNS messages of LwipRuntime: make_dns_query and parse_dns_response, *)
(* on sequences of bytes.  Offsets count from 0, as in the code.           *)
(***************************************************************************)
EXTENDS Integers, Sequences

CONSTANTS
  MaxLabel,     \* bytes of a label: 63
  LittleEndian  \* the build's BYTE_ORDER, LITTLE_ENDIAN unless it says otherwise

ASSUME LabelLength == MaxLabel \in 1 .. 63
ASSUME ByteOrder == LittleEndian \in BOOLEAN

DnsTypeA == 1
DnsTypeAaaa == 28
DnsClassIn == 1
Dot == 46  \* '.'
MaxJumps == 255  \* labels of a name

NoAddress == [ok |-> FALSE]

\* packet[offset]; what lies behind the packet is no byte of it.
ByteAt(packet, offset) ==
  IF offset < Len(packet) THEN packet[offset + 1] ELSE 0

append_u16(value) == <<value \div 256, value % 256>>

read_u16(packet, offset) ==
  256 * ByteAt(packet, offset) + ByteAt(packet, offset + 1)

\* A 32-bit word, as its four bytes from the highest to the lowest.
read_u32(packet, offset) ==
  [i \in 1 .. 4 |-> ByteAt(packet, offset + i - 1)]

\* The bytes of a word as they lie in the host's memory.
InMemory(word) ==
  [i \in 1 .. 4 |-> IF LittleEndian THEN word[5 - i] ELSE word[i]]

-----------------------------------------------------------------------------
\* host.find('.', start), or the end of the host.
EndOfLabel(host, start) ==
  LET dots == {i \in start .. Len(host) - 1 : host[i + 1] = Dot} IN
  IF dots = {} THEN Len(host) ELSE CHOOSE i \in dots : \A j \in dots : i <= j

\* Variant: an empty label is one like any other.
BadLabelLongOnly(len) == len > MaxLabel

BadLabel(len) == len = 0 \/ len > MaxLabel

\* The labels from start on, each behind its length; the loop ends at the end of
\* the host, where a last dot leaves it too, and throws on an empty label.
QueryName(host) ==
  LET from[start \in 0 .. Len(host)] ==
        IF start = Len(host) THEN [ok |-> TRUE, bytes |-> <<>>]
        ELSE LET end == EndOfLabel(host, start)
                 len == end - start
                 more == IF end = Len(host) THEN [ok |-> TRUE, bytes |-> <<>>]
                         ELSE from[end + 1]
             IN IF BadLabel(len) \/ ~more.ok
                THEN NoAddress
                ELSE [ok |-> TRUE,
                      bytes |-> <<len>> \o SubSeq(host, start + 1, end) \o more.bytes]
  IN from[0]

make_dns_query(id, host, qtype) ==
  LET name == QueryName(host)
      header == append_u16(id) \o append_u16(256) \o append_u16(1)
                \o append_u16(0) \o append_u16(0) \o append_u16(0)
  IN IF ~name.ok THEN NoAddress
     ELSE [ok |-> TRUE, bytes |-> header \o name.bytes \o <<0>>
                                  \o append_u16(qtype) \o append_u16(DnsClassIn)]

-----------------------------------------------------------------------------
Failed == [ok |-> FALSE, offset |-> 0]

\* The offset behind the name at `offset': its labels and the zero that ends
\* them, or a pointer, which is not followed.
skip_dns_name(packet, offset) ==
  LET skip[o \in 0 .. Len(packet)] ==
        [jumps \in 0 .. MaxJumps |->
           IF o = Len(packet) THEN Failed
           ELSE LET len == ByteAt(packet, o) IN
                CASE len >= 192 ->
                       IF o + 1 >= Len(packet) THEN Failed
                       ELSE [ok |-> TRUE, offset |-> o + 2]
                  [] len >= 64 /\ len < 192 -> Failed
                  [] len = 0 -> [ok |-> TRUE, offset |-> o + 1]
                  [] OTHER -> IF o + 1 + len > Len(packet) \/ jumps = MaxJumps THEN Failed
                              ELSE skip[o + 1 + len][jumps + 1]]
  IN skip[offset][0]

\* Behind n questions: a name, a type and a class each.
SkipQuestions(packet, count) ==
  LET behind[n \in 0 .. count] ==
        IF n = 0 THEN [ok |-> TRUE, offset |-> 12]
        ELSE LET name == skip_dns_name(packet, behind[n - 1].offset) IN
             IF behind[n - 1].ok /\ name.ok /\ name.offset + 4 <= Len(packet)
             THEN [ok |-> TRUE, offset |-> name.offset + 4] ELSE Failed
  IN behind[count]

\* The address as lwIP keeps it, the bytes of its words in memory being those of
\* the network.  IP_ADDR4 puts its four bytes in that order; IP_ADDR6 stores the
\* words it is given, and read_u32 has made numbers of them.
Address(packet, offset, type, rdlen) ==
  CASE type = DnsTypeA /\ rdlen = 4 ->
         [ok |-> TRUE, words |-> <<read_u32(packet, offset)>>]
    [] type = DnsTypeAaaa /\ rdlen = 16 ->
         [ok |-> TRUE,
          words |-> [k \in 1 .. 4 |-> InMemory(read_u32(packet, offset + 4 * (k - 1)))]]
    [] OTHER -> NoAddress

\* The answers from the n-th on, the n-th at offset.
FindAnswer(packet, ancount, first, qtype) ==
  LET answer[n \in 0 .. ancount] ==
        [offset \in 0 .. Len(packet) |->
           LET name == skip_dns_name(packet, offset)
               type == read_u16(packet, name.offset)
               class == read_u16(packet, name.offset + 2)
               rdlen == read_u16(packet, name.offset + 8)
               data == name.offset + 10
               ip == Address(packet, data, type, rdlen)
           IN IF n = ancount \/ ~name.ok \/ data > Len(packet) \/ data + rdlen > Len(packet)
              THEN NoAddress
              ELSE IF class = DnsClassIn /\ type = qtype /\ ip.ok THEN ip
              ELSE answer[n + 1][data + rdlen]]
  IN answer[0][first]

\* Variant: any response code is taken.
AcceptsAnyCode(flags) == flags >= 32768

\* A response (the top bit) without an error code (the low four bits).
Accepts(flags) == flags >= 32768 /\ flags % 16 = 0

parse_dns_response(packet, id, qtype) ==
  IF Len(packet) < 12 \/ read_u16(packet, 0) # id \/ ~Accepts(read_u16(packet, 2))
  THEN NoAddress
  ELSE LET questions == SkipQuestions(packet, read_u16(packet, 4)) IN
       IF ~questions.ok THEN NoAddress
       ELSE FindAnswer(packet, read_u16(packet, 6), questions.offset, qtype)
=============================================================================
