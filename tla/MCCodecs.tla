------------------------------ MODULE MCCodecs ------------------------------
(* Bounded inputs: addresses of two and three bytes, labels of at most two   *)
(* characters, ports up to 7 in an int of 5 bits.                            *)
EXTENDS Codecs

SeqsUpTo(S, n) == UNION {[1 .. k -> S] : k \in 0 .. n}

SaltOf(of) == [k \in 1 .. SaltSize |-> [of |-> <<of>>, at |-> k]]
MCSalt == SaltOf("salt")
MCOtherSalt == SaltOf("other salt")

\* Every plain text up to seven bytes, and one of each type damaged everywhere.
Samples == {<<>>, <<1, 9, 9, 0, 5, 7>>, <<3, 1, 97, 0, 5>>, <<4, 9, 9, 9, 0, 5>>}
Far == 20
MCDatagrams ==
  [plain : SeqsUpTo({0, 1, 3, 4}, 7), key : {"pw"}, cut : {Far}, altered : {0}]
  \cup [plain : Samples, key : {"pw", "other"}, cut : 0 .. 11, altered : {0}]
  \cup [plain : Samples, key : {"pw", "other"}, cut : {Far}, altered : 0 .. 11]

MCReplies ==
  [ target : [type : {Domain}, host : {Name(<<>>), Name(<<97, 46>>)}, port : {5}]
             \cup [type : {Ipv4, Ipv6}, host : {Text(<<9, 9>>, "full")}, port : {5}],
    addr : {<<9, 9>>, <<0, 8, 9>>}, port : {0, 5, 256, 65535},
    payload : {<<>>, <<4>>, <<1, 3>>} ]

MCQuestions == [id : {0, 258}, host : SeqsUpTo({Dot, 97}, 7), qtype : {DnsTypeA, DnsTypeAaaa}]

\* The records a server sends: an alias, addresses of both types, a class, a
\* length and a name of their own.
Record(name, type, class, data) ==
  [name |-> name, type |-> type, class |-> class, data |-> data]
Pointer == [labels |-> <<>>, end |-> <<192, 12>>]
Spelled == [labels |-> <<97>>, end |-> <<0>>]
Both == [labels |-> <<97, Dot, 97, 97>>, end |-> <<255, 0>>]
MCRecords ==
  { Record(Pointer, 5, 1, <<1, 97, 0>>), Record(Pointer, DnsTypeA, 1, <<10, 0, 0, 1>>),
    Record(Spelled, DnsTypeA, 1, <<10, 0, 0, 2>>), Record(Pointer, DnsTypeA, 3, <<1, 2, 3, 4>>),
    Record(Pointer, DnsTypeA, 1, <<1, 2>>), Record(Spelled, DnsTypeA, 1, <<>>),
    Record(Both, DnsTypeAaaa, 1, [k \in 1 .. 16 |-> k]),
    Record(Pointer, DnsTypeAaaa, 1, <<10, 0, 0, 3>>) }
MCAnswers ==
  LET asked == [id : {258}, host : {<<97>>}, qtype : {DnsTypeA, DnsTypeAaaa}] IN
  [question : asked, id : {258}, response : {TRUE}, bits : {24}, rcode : {0},
   records : SeqsUpTo(MCRecords, 2), cut : 0 .. 90]
  \cup [question : asked, id : {0, 258, 513}, response : BOOLEAN, bits : {0, 16, 2047},
        rcode : {0, 3, 15}, cut : {90},
        records : [1 .. 1 -> MCRecords] \cup [1 .. 3 -> {CHOOSE r \in MCRecords : r.type = 5}]]

\* JSON values, and objects with at most one member that is not as it should be.
Str(s) == [kind |-> "string", value |-> s]
Num(n) == [kind |-> "int", value |-> n]
Good == [name |-> Str("n"), ovpn |-> Str("file"), password |-> Str("p"), tcp_port |-> Num(2)]
With(object, key, value) ==
  [k \in DOMAIN object \cup {key} |-> IF k = key THEN value ELSE object[k]]
Without(object, key) == [k \in DOMAIN object \ {key} |-> object[k]]
Odd ==
  {Without(Good, key) : key \in DOMAIN Good} \cup {With(Good, "comment", Num(3))}
  \cup {With(Good, key, v) : key \in StringKeys,
                             v \in {Str(""), Str("else"), Str(SupportedMethod), Num(3)}}
  \cup {With(Good, key, [kind |-> "float", value |-> 7]) : key \in {"tcp_port", "udp_port"}}
  \cup {With(Good, key, [kind |-> "bool", value |-> v]) :
          key \in {"tcp_port", "udp_port"}, v \in BOOLEAN}
  \cup {With(Good, key, Str("2")) : key \in {"tcp_port", "udp_port"}}
Numbered ==
  {With(Good, "tcp_port", Num(n)) : n \in {-1, 0, 1, 2, 7, 8, 33}}
  \cup {With(With(Good, "tcp_port", Num(n)), "udp_port", Num(m)) :
          n \in {1, 2, 7}, m \in {-1, 0, 1, 2, 7, 8, 31, 33}}
MCDocuments ==
  {<<>>} \cup {<<o>> : o \in Odd \cup Numbered}
  \cup {<<o, p>> : o \in Numbered, p \in Numbered}
  \cup {<<With(Good, "tcp_port", Num(1)), o>> : o \in Odd}
=============================================================================
