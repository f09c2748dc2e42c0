---------------------------- MODULE CodecsProofs ----------------------------
(***************************************************************************)
(* Proofs about the codecs, for all inputs and all lengths: the datagram a *)
(* server opens, the reply the client reads and the configuration that is  *)
(* loaded. The messages of DNS have a module of their own.                 *)
(*                                                                         *)
(* What a loop computes is proved from its turns: the function a LET       *)
(* defines recursively exists, satisfies its equation, and a claim about   *)
(* all its turns has no least turn at which it fails.                      *)
(***************************************************************************)
EXTENDS Codecs, TLAPS

-----------------------------------------------------------------------------
(* Sequences, and cutting one in two. *)

\* What the provers know of sequences, for the steps that are not theirs.
LEMMA LenProperties ==
  ASSUME NEW S, NEW s \in Seq(S)
  PROVE  Len(s) \in Nat /\ DOMAIN s = 1 .. Len(s) /\ s \in [1 .. Len(s) -> S]
OBVIOUS

\* The elements of a sequence are of its set.
LEMMA ElementOfSeq ==
  ASSUME NEW S, NEW s \in Seq(S), NEW i \in 1 .. Len(s)
  PROVE  s[i] \in S
OBVIOUS

\* Only the empty sequence has no elements.
LEMMA EmptySeq ==
  ASSUME NEW S
  PROVE  /\ <<>> \in Seq(S) /\ Len(<<>>) = 0
         /\ \A s \in Seq(S) : s # <<>> => Len(s) \in Nat \ {0}
OBVIOUS

\* Sequences with the same elements are the same.
LEMMA SeqEqual ==
  ASSUME NEW S, NEW s \in Seq(S), NEW t \in Seq(S), Len(s) = Len(t),
         \A i \in 1 .. Len(s) : s[i] = t[i]
  PROVE  s = t
OBVIOUS

\* The elements of a concatenation are those of the one and then of the other.
LEMMA ConcatProperties ==
  ASSUME NEW S, NEW s \in Seq(S), NEW t \in Seq(S)
  PROVE  /\ s \o t \in Seq(S) /\ Len(s \o t) = Len(s) + Len(t)
         /\ \A i \in 1 .. Len(s) + Len(t) :
              (s \o t)[i] = IF i <= Len(s) THEN s[i] ELSE t[i - Len(s)]
OBVIOUS

\* It does not matter which of three sequences are joined first.
LEMMA ConcatAssociative ==
  ASSUME NEW S, NEW s \in Seq(S), NEW t \in Seq(S), NEW u \in Seq(S)
  PROVE  (s \o t) \o u = s \o (t \o u)
OBVIOUS

\* A part of a sequence has the elements between its bounds.
LEMMA SubSeqProperties ==
  ASSUME NEW S, NEW s, NEW m \in Int, NEW n \in Int, \A i \in m .. n : s[i] \in S
  PROVE  /\ SubSeq(s, m, n) \in Seq(S)
         /\ Len(SubSeq(s, m, n)) = IF m <= n THEN n - m + 1 ELSE 0
         /\ \A i \in 1 .. n - m + 1 : SubSeq(s, m, n)[i] = s[m + i - 1]
OBVIOUS

\* A sequence is a function on the numbers up to its length.
LEMMA SeqDef == \A S : Seq(S) = UNION {[1 .. n -> S] : n \in Nat}
OBVIOUS

\* A sequence over a set is one over a larger set.
LEMMA SeqMonotonic ==
  ASSUME NEW S, NEW T, NEW s \in Seq(S), S \subseteq T
  PROVE  s \in Seq(T)
OBVIOUS

\* Replacing an element leaves the others.
LEMMA ExceptSeq ==
  ASSUME NEW S, NEW s \in Seq(S), NEW k \in 1 .. Len(s), NEW x \in S
  PROVE  /\ [s EXCEPT ![k] = x] \in Seq(S) /\ Len([s EXCEPT ![k] = x]) = Len(s)
         /\ \A i \in 1 .. Len(s) : [s EXCEPT ![k] = x][i] = IF i = k THEN x ELSE s[i]
OBVIOUS

\* An element appended comes behind the others.
LEMMA AppendProperties ==
  ASSUME NEW S, NEW s \in Seq(S), NEW x \in S
  PROVE  /\ Append(s, x) \in Seq(S) /\ Append(s, x) # <<>>
         /\ Len(Append(s, x)) = Len(s) + 1 /\ Append(s, x)[Len(s) + 1] = x
         /\ \A i \in 1 .. Len(s) : Append(s, x)[i] = s[i]
OBVIOUS

\* First and After are the two parts of a sequence: as long as asked, with the
\* elements in place.
LEMMA Parted ==
  ASSUME NEW S, NEW s \in Seq(S), NEW n \in 0 .. Len(s)
  PROVE  /\ First(s, n) \in Seq(S) /\ Len(First(s, n)) = n
         /\ \A i \in 1 .. n : First(s, n)[i] = s[i]
         /\ After(s, n) \in Seq(S) /\ Len(After(s, n)) = Len(s) - n
         /\ \A i \in 1 .. Len(s) - n : After(s, n)[i] = s[n + i]
         /\ First(s, n) \o After(s, n) = s
<1>0. Len(s) \in Nat /\ \A i \in 1 .. Len(s) : s[i] \in S
  BY LenProperties, ElementOfSeq, Zenon
<1>1. /\ First(s, n) \in Seq(S) /\ Len(First(s, n)) = n
      /\ \A i \in 1 .. n : First(s, n)[i] = s[i]
  <2>1. \A i \in 1 .. n : s[i] \in S
    BY <1>0
  <2>2. /\ First(s, n) \in Seq(S)
        /\ Len(First(s, n)) = IF 1 <= n THEN n - 1 + 1 ELSE 0
        /\ \A i \in 1 .. n - 1 + 1 : First(s, n)[i] = s[1 + i - 1]
    BY <2>1, <1>0, SubSeqProperties DEF First
  <2> QED BY <2>2, <1>0
<1>2. /\ After(s, n) \in Seq(S) /\ Len(After(s, n)) = Len(s) - n
      /\ \A i \in 1 .. Len(s) - n : After(s, n)[i] = s[n + i]
  <2>1. \A i \in n + 1 .. Len(s) : s[i] \in S
    BY <1>0
  <2>2. /\ After(s, n) \in Seq(S)
        /\ Len(After(s, n)) = IF n + 1 <= Len(s) THEN Len(s) - (n + 1) + 1 ELSE 0
        /\ \A i \in 1 .. Len(s) - (n + 1) + 1 : After(s, n)[i] = s[(n + 1) + i - 1]
    BY <2>1, <1>0, SubSeqProperties DEF After
  <2> QED BY <2>2, <1>0
<1>3. First(s, n) \o After(s, n) = s
  <2> DEFINE c == First(s, n) \o After(s, n)
  <2>1. /\ c \in Seq(S) /\ Len(c) = n + (Len(s) - n)
        /\ \A i \in 1 .. n + (Len(s) - n) :
             c[i] = IF i <= n THEN First(s, n)[i] ELSE After(s, n)[i - n]
    BY <1>1, <1>2, ConcatProperties
  <2> HIDE DEF c
  <2>2. Len(c) = Len(s)
    BY <2>1, <1>0
  <2>3. ASSUME NEW i \in 1 .. Len(c)  PROVE c[i] = s[i]
    <3>1. CASE i <= n
      BY <3>1, <2>1, <2>2, <1>0, <1>1
    <3>2. CASE ~(i <= n)
      <4>1. c[i] = After(s, n)[i - n] /\ i - n \in 1 .. Len(s) - n /\ n + (i - n) = i
        BY <3>2, <2>1, <2>2, <1>0
      <4> QED BY <4>1, <1>2, Zenon
    <3> QED BY <3>1, <3>2, Zenon
  <2>4. c = s
    BY <2>1, <2>2, <2>3, SeqEqual, Zenon
  <2> QED BY <2>4, Zenon DEF c
<1> QED BY <1>1, <1>2, <1>3, Zenon

\* Cutting a concatenation where its parts meet gives the parts back.
LEMMA Joined ==
  ASSUME NEW S, NEW s \in Seq(S), NEW t \in Seq(S)
  PROVE  /\ s \o t \in Seq(S) /\ Len(s \o t) = Len(s) + Len(t)
         /\ First(s \o t, Len(s)) = s /\ After(s \o t, Len(s)) = t
<1> DEFINE c == s \o t
<1>0. Len(s) \in Nat /\ Len(t) \in Nat
  BY LenProperties, Zenon
<1>1. /\ c \in Seq(S) /\ Len(c) = Len(s) + Len(t)
      /\ \A i \in 1 .. Len(s) + Len(t) : c[i] = IF i <= Len(s) THEN s[i] ELSE t[i - Len(s)]
  BY ConcatProperties, Zenon
<1> HIDE DEF c
<1> DEFINE f == First(c, Len(s))  a == After(c, Len(s))
<1>2. Len(s) \in 0 .. Len(c)
  BY <1>0, <1>1
<1>3. /\ f \in Seq(S) /\ Len(f) = Len(s) /\ \A i \in 1 .. Len(s) : f[i] = c[i]
      /\ a \in Seq(S) /\ Len(a) = Len(c) - Len(s)
      /\ \A i \in 1 .. Len(c) - Len(s) : a[i] = c[Len(s) + i]
  BY <1>1, <1>2, Parted, ZenonT(40)
<1> HIDE DEF f, a
<1>4. f = s
  <2>1. \A i \in 1 .. Len(f) : f[i] = s[i]
    BY <1>0, <1>1, <1>3
  <2> QED BY <2>1, <1>3, SeqEqual, Zenon
<1>5. a = t
  <2>1. Len(a) = Len(t)
    BY <1>0, <1>1, <1>3
  <2>2. ASSUME NEW i \in 1 .. Len(a)  PROVE a[i] = t[i]
    <3>1. i \in 1 .. Len(c) - Len(s) /\ Len(s) + i \in 1 .. Len(s) + Len(t)
          /\ ~(Len(s) + i <= Len(s)) /\ (Len(s) + i) - Len(s) = i
      BY <1>0, <1>1, <2>1
    <3> QED BY <3>1, <1>1, <1>3, Zenon
  <2> QED BY <2>1, <2>2, <1>3, SeqEqual, Zenon
<1> QED BY <1>1, <1>4, <1>5, Zenon DEF c, f, a

-----------------------------------------------------------------------------
(* The Shadowsocks address. *)

\* Bytes are put behind one another in any order of putting together.
LEMMA Chained ==
  ASSUME NEW s \in Seq(Byte), NEW t \in Seq(Byte), NEW u \in Seq(Byte)
  PROVE  (s \o t) \o u = s \o (t \o u)
BY ConcatAssociative

\* The same of any elements.
LEMMA AllChained == \A S : \A s, t, u \in Seq(S) : (s \o t) \o u = s \o (t \o u)
<1> SUFFICES ASSUME NEW S, NEW s \in Seq(S), NEW t \in Seq(S), NEW u \in Seq(S)
             PROVE  (s \o t) \o u = s \o (t \o u)
  BY Zenon
<1> QED BY ConcatAssociative

\* append_be16 writes two bytes, and read_be16 reads the same port from them.
LEMMA PortBytes ==
  ASSUME NEW port \in Word
  PROVE  /\ append_be16(port) \in Seq(Byte) /\ Len(append_be16(port)) = 2
         /\ read_be16(append_be16(port)) = port
<1>1. /\ port \div 256 \in Nat /\ port \div 256 < 256
      /\ port % 256 \in Nat /\ port % 256 < 256
      /\ 256 * (port \div 256) + (port % 256) = port
  BY DEF Word
<1> DEFINE a == port \div 256  b == port % 256
<1> HIDE DEF a, b
<1>2. a \in Byte /\ b \in Byte /\ 256 * a + b = port
  BY <1>1 DEF a, b, Byte
<1>3. /\ <<a, b>> \in Seq(Byte) /\ Len(<<a, b>>) = 2
      /\ <<a, b>>[1] = a /\ <<a, b>>[2] = b
  BY <1>2
<1> QED BY <1>2, <1>3 DEF append_be16, read_be16, a, b

\* Any two bytes are the ones append_be16 writes for the port they spell.
LEMMA PortOfBytes ==
  ASSUME NEW a \in Byte, NEW b \in Byte
  PROVE  256 * a + b \in Word /\ append_be16(256 * a + b) = <<a, b>>
<1>1. 256 * a + b \in Word /\ (256 * a + b) \div 256 = a /\ (256 * a + b) % 256 = b
  BY DEF Byte, Word
<1> QED BY <1>1 DEF append_be16

\* What Target makes of the bytes behind a host.
LEMMA TargetReads ==
  ASSUME NEW type, NEW host, NEW port \in Word, NEW rest \in Seq(Byte)
  PROVE  Target(type, host, append_be16(port) \o rest)
           = [ok |-> TRUE, type |-> type, host |-> host, port |-> port, rest |-> rest]
<1> DEFINE p == append_be16(port)
<1>1. p \in Seq(Byte) /\ Len(p) = 2 /\ read_be16(p) = port
  BY PortBytes, Zenon
<1> HIDE DEF p
<1>2. After(p \o rest, 2) = rest
  BY <1>1, Joined, ZenonT(40)
<1>3. Len(rest) \in Nat
  BY LenProperties, Zenon
<1>4. (p \o rest)[1] = p[1] /\ (p \o rest)[2] = p[2]
  <2>1. \A i \in 1 .. Len(p) + Len(rest) :
          (p \o rest)[i] = IF i <= Len(p) THEN p[i] ELSE rest[i - Len(p)]
    BY <1>1, ConcatProperties, Zenon
  <2> HIDE DEF p
  <2>2. \A i \in {1, 2} : i \in 1 .. Len(p) + Len(rest) /\ i <= Len(p)
    BY <1>1, <1>3
  <2> QED BY <2>1, <2>2, Zenon
<1>5. read_be16(p \o rest) = port
  BY <1>1, <1>4, Zenon DEF read_be16
<1> QED BY <1>2, <1>5, Zenon DEF Target, p

\* ... and the way back: the port and the rest are the bytes behind the host.
LEMMA TargetBytes ==
  ASSUME NEW bytes \in Seq(Byte), Len(bytes) >= 2
  PROVE  /\ read_be16(bytes) \in Word
         /\ After(bytes, 2) \in Seq(Byte)
         /\ append_be16(read_be16(bytes)) \o After(bytes, 2) = bytes
<1>0. Len(bytes) \in Nat /\ 2 \in 0 .. Len(bytes)
  BY LenProperties
<1>1. /\ First(bytes, 2) \in Seq(Byte) /\ Len(First(bytes, 2)) = 2
      /\ \A i \in 1 .. 2 : First(bytes, 2)[i] = bytes[i]
      /\ After(bytes, 2) \in Seq(Byte) /\ First(bytes, 2) \o After(bytes, 2) = bytes
  BY <1>0, Parted, ZenonT(40)
<1> DEFINE a == bytes[1]  b == bytes[2]
<1>2. a \in Byte /\ b \in Byte
  BY <1>0, ElementOfSeq
<1>3. First(bytes, 2) = <<a, b>>
  <2>1. <<a, b>> \in Seq(Byte) /\ Len(<<a, b>>) = 2 /\ <<a, b>>[1] = a /\ <<a, b>>[2] = b
    BY <1>2
  <2>2. \A i \in 1 .. 2 : First(bytes, 2)[i] = <<a, b>>[i]
    BY <1>1, <2>1
  <2> HIDE DEF a, b
  <2> QED BY <1>1, <2>1, <2>2, SeqEqual, Zenon
<1>4. read_be16(bytes) \in Word /\ append_be16(read_be16(bytes)) = <<a, b>>
  BY <1>2, PortOfBytes DEF read_be16
<1> QED BY <1>1, <1>3, <1>4, Zenon

\* A byte before a sequence.
LEMMA Behind ==
  ASSUME NEW S, NEW x \in S, NEW s \in Seq(S)
  PROVE  /\ <<x>> \o s \in Seq(S) /\ Len(<<x>> \o s) = 1 + Len(s)
         /\ <<x>> \o s # <<>> /\ (<<x>> \o s)[1] = x /\ After(<<x>> \o s, 1) = s
<1>1. <<x>> \in Seq(S) /\ Len(<<x>>) = 1 /\ <<x>>[1] = x
  OBVIOUS
<1>2. Len(s) \in Nat
  BY LenProperties, Zenon
<1>3. <<x>> \o s \in Seq(S) /\ Len(<<x>> \o s) = 1 + Len(s) /\ After(<<x>> \o s, 1) = s
  BY <1>1, Joined, Zenon
<1>4. (<<x>> \o s)[1] = x
  <2>1. \A i \in 1 .. 1 + Len(s) : (<<x>> \o s)[i] = IF i <= 1 THEN <<x>>[i] ELSE s[i - 1]
    BY <1>1, ConcatProperties
  <2> QED BY <2>1, <1>1, <1>2
<1>5. <<x>> \o s # <<>>
  BY <1>2, <1>3, EmptySeq
<1> QED BY <1>3, <1>4, <1>5, Zenon

\* ... and a sequence by its first byte.
LEMMA Split ==
  ASSUME NEW S, NEW s \in Seq(S), s # <<>>
  PROVE  /\ s[1] \in S /\ After(s, 1) \in Seq(S) /\ Len(After(s, 1)) = Len(s) - 1
         /\ Len(s) \in Nat /\ Len(s) >= 1
         /\ <<s[1]>> \o After(s, 1) = s
<1>1. Len(s) \in Nat /\ Len(s) >= 1
  BY EmptySeq
<1>2. s[1] \in S
  BY <1>1, ElementOfSeq
<1>3. /\ First(s, 1) \in Seq(S) /\ Len(First(s, 1)) = 1
      /\ \A i \in 1 .. 1 : First(s, 1)[i] = s[i]
      /\ After(s, 1) \in Seq(S) /\ Len(After(s, 1)) = Len(s) - 1
      /\ First(s, 1) \o After(s, 1) = s
  <2>1. 1 \in 0 .. Len(s)
    BY <1>1
  <2> QED BY <2>1, Parted, ZenonT(40)
<1>4. First(s, 1) = <<s[1]>>
  <2> DEFINE a == s[1]
  <2>1. <<a>> \in Seq(S) /\ Len(<<a>>) = 1 /\ <<a>>[1] = a
    BY <1>2
  <2>2. \A i \in 1 .. 1 : First(s, 1)[i] = <<a>>[i]
    BY <1>3, <2>1
  <2> HIDE DEF a
  <2>3. First(s, 1) = <<a>>
    BY <1>3, <2>1, <2>2, SeqEqual, Zenon
  <2> QED BY <2>3, Zenon DEF a
<1> QED BY <1>1, <1>2, <1>3, <1>4, Zenon

\* The bytes of an address: its type, the host, the port.
Encoded(type, body, port) == <<type>> \o body \o append_be16(port)

\* An encoded address and what follows it, as the parser takes them apart: the
\* type, the body, the port and the rest.
LEMMA EncodedBytes ==
  ASSUME NEW type \in Byte, NEW body \in Seq(Byte), NEW port \in Word, NEW rest \in Seq(Byte)
  PROVE  /\ Encoded(type, body, port) \in Seq(Byte)
         /\ Encoded(type, body, port) \o rest = <<type>> \o (body \o (append_be16(port) \o rest))
<1> DEFINE p == append_be16(port)  h == <<type>>
<1>1. p \in Seq(Byte) /\ h \in Seq(Byte)
  BY PortBytes
<1> HIDE DEF p, h
<1>2. (h \o body) \o p \in Seq(Byte)
  BY <1>1, ConcatProperties, Zenon
<1>3. ((h \o body) \o p) \o rest = h \o (body \o (p \o rest))
  <2> DEFINE hb == h \o body  pr == p \o rest
  <2>1. hb \in Seq(Byte) /\ pr \in Seq(Byte)
    BY <1>1, ConcatProperties, Zenon
  <2>2. hb \o pr = h \o (body \o pr)
    <3> HIDE DEF pr
    <3> QED BY <2>1, <1>1, Chained, ZenonT(40)
  <2>3. (hb \o p) \o rest = hb \o pr
    <3> HIDE DEF hb
    <3> QED BY <2>1, <1>1, Chained, ZenonT(40)
  <2> QED BY <2>2, <2>3, Zenon
<1> QED BY <1>2, <1>3, Zenon DEF Encoded, p, h

\* encode_ss_address accepts an address of its type's size, in any spelling.
LEMMA EncodeIp ==
  ASSUME NEW type \in {Ipv4, Ipv6}, NEW ip, NEW spelling, NEW port,
         Len(ip) = IF type = Ipv4 THEN V4Len ELSE V6Len
  PROVE  encode_ss_address(type, Text(ip, spelling), port)
           = [ok |-> TRUE, bytes |-> Encoded(type, ip, port)]
<1> DEFINE host == Text(ip, spelling)
<1>1. IsText(host) /\ host.ip = ip
  BY Zenon DEF IsText, Text
<1> HIDE DEF host
<1>2. type = Ipv4 \/ type = Ipv6
  BY Zenon
<1>3. Ipv4 # Domain /\ Ipv6 # Domain /\ Ipv4 # Ipv6
  BY DEF Ipv4, Ipv6, Domain
<1>4. CASE type = Ipv4
  BY <1>1, <1>3, <1>4, Zenon DEF encode_ss_address, Encoded, host
<1>5. CASE type = Ipv6
  BY <1>1, <1>3, <1>5, Zenon DEF encode_ss_address, Encoded, host
<1> QED BY <1>2, <1>4, <1>5, Zenon

\* encode_ss_address accepts a domain of at most 255 characters.
LEMMA EncodeDomain ==
  ASSUME NEW chars, NEW port, Len(chars) <= 255
  PROVE  encode_ss_address(Domain, Name(chars), port)
           = [ok |-> TRUE, bytes |-> Encoded(Domain, <<Len(chars)>> \o chars, port)]
<1> DEFINE host == Name(chars)
<1>1. ~IsText(host) /\ host.name = chars
  BY Zenon DEF IsText, Name
<1> HIDE DEF host
<1>3. Ipv4 # Domain /\ Ipv6 # Domain /\ Ipv4 # Ipv6
  BY DEF Ipv4, Ipv6, Domain
<1> QED BY <1>1, <1>3 DEF encode_ss_address, Encoded, host

\* An address that parses is the one encode_ss_address gives back, and what is
\* left is what stood behind it.
LEMMA ParsedBytes ==
  ASSUME NEW bytes \in Seq(Byte), parse_ss_address(bytes).ok
  PROVE  LET t == parse_ss_address(bytes) IN
         encode_ss_address(t.type, t.host, t.port).bytes \o t.rest = bytes
<1> DEFINE t == parse_ss_address(bytes)  after == After(bytes, 1)
<1>0. ~Nullopt.ok
  BY Zenon DEF Nullopt
<1>1. bytes # <<>>
  BY <1>0, Zenon DEF parse_ss_address
<1>2. /\ bytes[1] \in Byte /\ after \in Seq(Byte) /\ <<bytes[1]>> \o after = bytes
  BY <1>1, Split, Zenon
<1> HIDE DEF after
<1>3. Len(after) \in Nat /\ V4Len \in Nat /\ V6Len \in Nat
  BY <1>2, Lengths, LenProperties, Zenon
<1>4. Ipv4 # Domain /\ Ipv6 # Domain /\ Ipv4 # Ipv6
  BY DEF Ipv4, Ipv6, Domain
<1>5. ASSUME NEW type \in {Ipv4, Ipv6}, NEW size \in Nat, size = IF type = Ipv4 THEN V4Len ELSE V6Len,
             bytes[1] = type, t = parse_ip(type, after, size)
      PROVE  encode_ss_address(t.type, t.host, t.port).bytes \o t.rest = bytes
  <2> HIDE DEF t
  <2>1. Len(after) >= size + 2
    BY <1>0, <1>3, <1>5 DEF parse_ip, t
  <2> DEFINE ip == First(after, size)  tail == After(after, size)
  <2>2. /\ ip \in Seq(Byte) /\ Len(ip) = size
        /\ tail \in Seq(Byte) /\ Len(tail) = Len(after) - size /\ ip \o tail = after
    <3>1. size \in 0 .. Len(after)
      BY <2>1, <1>3
    <3>2. after \in Seq(Byte)
      BY <1>2, Zenon
    <3> HIDE DEF after
    <3> QED BY <3>1, <3>2, Parted, ZenonT(40)
  <2>3. t = Target(type, Text(ip, "full"), tail)
    BY <1>5, <2>1, <1>3 DEF parse_ip
  <2> HIDE DEF ip, tail
  <2> DEFINE port == read_be16(tail)  rest == After(tail, 2)
  <2>4. port \in Word /\ rest \in Seq(Byte) /\ append_be16(port) \o rest = tail
    <3>1. tail \in Seq(Byte) /\ Len(tail) >= 2
      BY <2>1, <2>2, <1>3
    <3> QED BY <3>1, TargetBytes, ZenonT(40)
  <2>5. t.type = type /\ t.host = Text(ip, "full") /\ t.port = port /\ t.rest = rest
    BY <2>3, Zenon DEF Target
  <2> HIDE DEF port, rest
  <2>6. encode_ss_address(type, Text(ip, "full"), port)
          = [ok |-> TRUE, bytes |-> Encoded(type, ip, port)]
    <3>1. Len(ip) = IF type = Ipv4 THEN V4Len ELSE V6Len
      BY <2>2, <1>5, Zenon
    <3> QED BY <3>1, EncodeIp, ZenonT(40)
  <2>7. Encoded(type, ip, port) \o rest = <<type>> \o (ip \o (append_be16(port) \o rest))
    <3>1. type \in Byte
      BY <1>2, <1>5, Zenon
    <3> QED BY <3>1, <2>2, <2>4, EncodedBytes, ZenonT(40)
  <2>8. encode_ss_address(t.type, t.host, t.port).bytes = Encoded(type, ip, port)
    BY <2>5, <2>6
  <2>9. Encoded(type, ip, port) \o rest = <<bytes[1]>> \o after
    BY <2>2, <2>4, <2>7, <1>5, Zenon
  <2> QED BY <2>5, <2>8, <2>9, <1>2, Zenon
<1>6. ASSUME bytes[1] = Domain, t = parse_domain(after)
      PROVE  encode_ss_address(t.type, t.host, t.port).bytes \o t.rest = bytes
  <2> HIDE DEF t
  <2>1. after # <<>>
    BY <1>0, <1>6, Zenon DEF parse_domain, t
  <2> DEFINE len == after[1]  name == After(after, 1)
  <2>2. /\ len \in Byte /\ name \in Seq(Byte) /\ <<len>> \o name = after
    BY <2>1, <1>2, Split, Zenon
  <2>a. t = IF Len(name) < len + 2 THEN Nullopt
            ELSE Target(Domain, Name(First(name, len)), After(name, len))
    BY <1>6, <2>1, Zenon DEF parse_domain
  <2> HIDE DEF len, name
  <2>3. Len(name) \in Nat /\ len \in Nat /\ len <= 255
    BY <2>2, LenProperties DEF Byte
  <2>4. Len(name) >= len + 2
    BY <2>a, <2>3, <1>0 DEF t
  <2> DEFINE chars == First(name, len)  tail == After(name, len)
  <2>5. /\ chars \in Seq(Byte) /\ Len(chars) = len
        /\ tail \in Seq(Byte) /\ Len(tail) = Len(name) - len /\ chars \o tail = name
    <3>1. len \in 0 .. Len(name)
      BY <2>3, <2>4
    <3> QED BY <3>1, <2>2, Parted, ZenonT(40)
  <2>6. t = Target(Domain, Name(chars), tail)
    BY <2>a, <2>3, <2>4
  <2> HIDE DEF chars, tail
  <2> DEFINE port == read_be16(tail)  rest == After(tail, 2)
  <2>7. port \in Word /\ rest \in Seq(Byte) /\ append_be16(port) \o rest = tail
    <3>1. tail \in Seq(Byte) /\ Len(tail) >= 2
      BY <2>3, <2>4, <2>5
    <3> QED BY <3>1, TargetBytes, ZenonT(40)
  <2>8. t.type = Domain /\ t.host = Name(chars) /\ t.port = port /\ t.rest = rest
    BY <2>6, Zenon DEF Target
  <2> HIDE DEF port, rest
  <2> DEFINE body == <<len>> \o chars
  <2>9. body \in Seq(Byte) /\ body \o tail = after
    <3>1. <<len>> \in Seq(Byte)
      BY <2>2
    <3>2. body \in Seq(Byte)
      BY <3>1, <2>5, ConcatProperties
    <3>3. (<<len>> \o chars) \o tail = <<len>> \o (chars \o tail)
      <4> DEFINE h == <<len>>
      <4>1. h \in Seq(Byte) /\ chars \in Seq(Byte) /\ tail \in Seq(Byte)
        BY <3>1, <2>5
      <4> HIDE DEF h
      <4>2. (h \o chars) \o tail = h \o (chars \o tail)
        BY <4>1, Chained, ZenonT(40)
      <4> QED BY <4>2, Zenon DEF h
    <3> QED BY <3>2, <3>3, <2>2, <2>5, Zenon
  <2>10. encode_ss_address(Domain, Name(chars), port)
           = [ok |-> TRUE, bytes |-> Encoded(Domain, body, port)]
    BY <2>3, <2>5, EncodeDomain, Zenon
  <2> HIDE DEF body
  <2>11. Encoded(Domain, body, port) \o rest = <<Domain>> \o (body \o (append_be16(port) \o rest))
    <3>1. Domain \in Byte
      BY <1>2, <1>6, Zenon
    <3> QED BY <3>1, <2>7, <2>9, EncodedBytes, Zenon
  <2>12. encode_ss_address(t.type, t.host, t.port).bytes = Encoded(Domain, body, port)
    BY <2>8, <2>10
  <2>13. Encoded(Domain, body, port) \o rest = <<bytes[1]>> \o after
    BY <2>7, <2>9, <2>11, <1>6, Zenon
  <2> QED BY <2>8, <2>12, <2>13, <1>2, Zenon
<1>7. \/ bytes[1] = Ipv4 /\ t = parse_ip(Ipv4, after, V4Len)
      \/ bytes[1] = Ipv6 /\ t = parse_ip(Ipv6, after, V6Len)
      \/ bytes[1] = Domain /\ t = parse_domain(after)
  BY <1>0, <1>1, <1>4 DEF parse_ss_address, after
<1> HIDE DEF t
<1> QED BY <1>3, <1>4, <1>5, <1>6, <1>7, Zenon DEF t

\* An address is refused only where the bytes end before it does.
LEMMA RefusedShort ==
  ASSUME NEW bytes \in Seq(Byte), ~parse_ss_address(bytes).ok, NEW n \in AddressLengths(bytes)
  PROVE  n > Len(bytes)
<1> DEFINE t == parse_ss_address(bytes)  after == After(bytes, 1)
<1>0. \A type, host, rest : Target(type, host, rest).ok
  BY Zenon DEF Target
<1>1. bytes # <<>>
  BY Zenon DEF AddressLengths
<1>2. /\ bytes[1] \in Byte /\ after \in Seq(Byte) /\ Len(after) = Len(bytes) - 1
      /\ Len(bytes) \in Nat /\ Len(bytes) >= 1
  BY <1>1, Split, Zenon
<1>3. V4Len \in Nat /\ V6Len \in Nat
  BY Lengths, Zenon
<1>4. Ipv4 # Domain /\ Ipv6 # Domain /\ Ipv4 # Ipv6
  BY DEF Ipv4, Ipv6, Domain
<1>5. \/ bytes[1] = Ipv4 /\ n = 1 + V4Len + 2 /\ t = parse_ip(Ipv4, after, V4Len)
      \/ bytes[1] = Ipv6 /\ n = 1 + V6Len + 2 /\ t = parse_ip(Ipv6, after, V6Len)
      \/ bytes[1] = Domain /\ Len(bytes) > 1 /\ n = 2 + bytes[2] + 2 /\ t = parse_domain(after)
  BY <1>1, <1>4 DEF AddressLengths, parse_ss_address
<1>6. ASSUME NEW type, NEW size \in Nat, n = 1 + size + 2, t = parse_ip(type, after, size)
      PROVE  n > Len(bytes)
  <2> HIDE DEF after
  <2>1. ~parse_ip(type, after, size).ok
    BY <1>6, Zenon
  <2>2. Len(after) < size + 2
    BY <2>1, <1>0, Zenon DEF parse_ip
  <2> QED BY <2>2, <1>2, <1>6
<1>7. ASSUME Len(bytes) > 1, n = 2 + bytes[2] + 2, t = parse_domain(after)
      PROVE  n > Len(bytes)
  <2>1. after[1] = bytes[2]
    <3>1. 1 \in 0 .. Len(bytes) /\ 1 \in 1 .. Len(bytes) - 1 /\ 1 + 1 = 2
      BY <1>2, <1>7
    <3>2. \A i \in 1 .. Len(bytes) - 1 : after[i] = bytes[1 + i]
      BY <3>1, Parted
    <3> QED BY <3>1, <3>2, Zenon
  <2> HIDE DEF after
  <2>2. after # <<>>
    BY <1>2, <1>7, EmptySeq
  <2>3. after[1] \in Byte /\ After(after, 1) \in Seq(Byte)
        /\ Len(After(after, 1)) = Len(after) - 1
    BY <2>2, <1>2, Split, Zenon
  <2>4. ~parse_domain(after).ok
    BY <1>7, Zenon
  <2>5. Len(After(after, 1)) < after[1] + 2
    BY <2>2, <2>4, <1>0 DEF parse_domain
  <2>6. after[1] \in Nat
    BY <2>3, Zenon DEF Byte
  <2> QED BY <2>1, <2>3, <2>5, <2>6, <1>2, <1>7
<1> HIDE DEF t
<1> QED BY <1>3, <1>5, <1>6, <1>7

\* What encode_ss_address writes before a payload is read back.
LEMMA ReadIp ==
  ASSUME NEW type \in {Ipv4, Ipv6}, NEW ip \in Seq(Byte), NEW port \in Word, NEW rest \in Seq(Byte),
         Len(ip) = IF type = Ipv4 THEN V4Len ELSE V6Len
  PROVE  parse_ss_address(Encoded(type, ip, port) \o rest)
           = [ok |-> TRUE, type |-> type, host |-> Text(ip, "full"), port |-> port, rest |-> rest]
<1> DEFINE tail == append_be16(port) \o rest  after == ip \o tail  bytes == <<type>> \o after
<1>0. /\ type \in Byte /\ (type = Ipv4 \/ type = Ipv6)
      /\ Ipv4 # Ipv6 /\ Ipv4 # Domain /\ Ipv6 # Domain
  BY DEF Ipv4, Ipv6, Domain, Byte
<1>1. Encoded(type, ip, port) \o rest = bytes
  BY <1>0, EncodedBytes, Zenon
<1>2. append_be16(port) \in Seq(Byte) /\ Len(append_be16(port)) = 2
  BY PortBytes, Zenon
<1>3. tail \in Seq(Byte) /\ Len(tail) = 2 + Len(rest)
  BY <1>2, Joined, ZenonT(40)
<1>4. Target(type, Text(ip, "full"), tail)
        = [ok |-> TRUE, type |-> type, host |-> Text(ip, "full"), port |-> port, rest |-> rest]
  BY TargetReads
<1> HIDE DEF tail
<1>5. after \in Seq(Byte) /\ Len(after) = Len(ip) + Len(tail)
      /\ First(after, Len(ip)) = ip /\ After(after, Len(ip)) = tail
  BY <1>3, Joined, ZenonT(40)
<1> HIDE DEF after
<1>6. bytes # <<>> /\ bytes[1] = type /\ After(bytes, 1) = after
  BY <1>0, <1>5, Behind
<1> HIDE DEF bytes
<1>7. Len(rest) \in Nat /\ Len(ip) \in Nat
  BY LenProperties, Zenon
<1>8. parse_ss_address(bytes) = parse_ip(type, after, Len(ip))
  <2>1. CASE type = Ipv4
    BY <1>0, <1>6, <2>1, Zenon DEF parse_ss_address
  <2>2. CASE type = Ipv6
    BY <1>0, <1>6, <2>2, Zenon DEF parse_ss_address
  <2> QED BY <1>0, <2>1, <2>2, Zenon
<1>9. ~(Len(after) < Len(ip) + 2)
  BY <1>3, <1>5, <1>7
<1>10. parse_ip(type, after, Len(ip)) = Target(type, Text(ip, "full"), tail)
  BY <1>5, <1>9, Zenon DEF parse_ip
<1> QED BY <1>1, <1>4, <1>8, <1>10, Zenon

\* parse_ss_address reads back a domain that encode_ss_address wrote, and
\* leaves what follows the address.
LEMMA ReadDomain ==
  ASSUME NEW chars \in Seq(Byte), NEW port \in Word, NEW rest \in Seq(Byte),
         Len(chars) <= 255
  PROVE  parse_ss_address(Encoded(Domain, <<Len(chars)>> \o chars, port) \o rest)
           = [ok |-> TRUE, type |-> Domain, host |-> Name(chars), port |-> port, rest |-> rest]
<1> DEFINE tail == append_be16(port) \o rest  name == chars \o tail
           after == <<Len(chars)>> \o name  bytes == <<Domain>> \o after
           body == <<Len(chars)>> \o chars
<1>0. Len(chars) \in Byte /\ Domain \in Byte /\ Domain # Ipv4 /\ Domain # Ipv6
  <2>1. Len(chars) \in Nat
    BY LenProperties, Zenon
  <2> QED BY <2>1 DEF Ipv4, Ipv6, Domain, Byte
<1>1. body \in Seq(Byte)
  BY <1>0, Behind, Zenon
<1>2. append_be16(port) \in Seq(Byte) /\ Len(append_be16(port)) = 2
  BY PortBytes, Zenon
<1>3. tail \in Seq(Byte) /\ Len(tail) = 2 + Len(rest)
  BY <1>2, Joined, ZenonT(40)
<1>a. Encoded(Domain, body, port) \o rest = <<Domain>> \o (body \o tail)
  <2> HIDE DEF body
  <2> QED BY <1>0, <1>1, EncodedBytes, ZenonT(40)
<1>4. Target(Domain, Name(chars), tail)
        = [ok |-> TRUE, type |-> Domain, host |-> Name(chars), port |-> port, rest |-> rest]
  BY TargetReads
<1> HIDE DEF tail
<1>b. body \o tail = after
  <2> DEFINE h == <<Len(chars)>>
  <2>1. h \in Seq(Byte) /\ tail \in Seq(Byte)
    BY <1>0, <1>3
  <2> HIDE DEF h
  <2>2. (h \o chars) \o tail = h \o (chars \o tail)
    BY <2>1, Chained, ZenonT(40)
  <2> QED BY <2>2, Zenon DEF h
<1>5. name \in Seq(Byte) /\ Len(name) = Len(chars) + Len(tail)
      /\ First(name, Len(chars)) = chars /\ After(name, Len(chars)) = tail
  BY <1>3, Joined
<1> HIDE DEF name
<1>6. after \in Seq(Byte) /\ after # <<>> /\ after[1] = Len(chars) /\ After(after, 1) = name
  BY <1>0, <1>5, Behind
<1> HIDE DEF after
<1>7. bytes # <<>> /\ bytes[1] = Domain /\ After(bytes, 1) = after
  BY <1>0, <1>6, Behind
<1>c. Encoded(Domain, body, port) \o rest = bytes
  BY <1>a, <1>b, Zenon
<1> HIDE DEF bytes
<1>8. Len(rest) \in Nat /\ Len(chars) \in Nat
  BY LenProperties, Zenon
<1>9. parse_ss_address(bytes) = parse_domain(after)
  BY <1>0, <1>7 DEF parse_ss_address
<1>10. ~(Len(name) < Len(chars) + 2)
  BY <1>3, <1>5, <1>8
<1>11. parse_domain(after) = Target(Domain, Name(chars), tail)
  BY <1>5, <1>6, <1>10 DEF parse_domain
<1> QED BY <1>4, <1>9, <1>11, <1>c, Zenon

-----------------------------------------------------------------------------
(* The sealed packet. *)

\* The bytes a cipher gives for a text: as many as asked, each with its place.
LEMMA SymbolsSeq ==
  ASSUME NEW of, NEW n \in Nat, NEW S, \A i \in 1 .. n : [of |-> of, at |-> i] \in S
  PROVE  /\ Symbols(of, n) \in Seq(S) /\ Len(Symbols(of, n)) = n
         /\ \A i \in 1 .. n : Symbols(of, n)[i] = [of |-> of, at |-> i]
<1> DEFINE f == Symbols(of, n)
<1>1. f \in [1 .. n -> S] /\ \A i \in 1 .. n : f[i] = [of |-> of, at |-> i]
  BY Zenon DEF Symbols
<1> HIDE DEF f
<1>2. f \in Seq(S) /\ DOMAIN f = 1 .. n
  BY <1>1, SeqDef
<1>3. Len(f) \in Nat /\ DOMAIN f = 1 .. Len(f)
  BY <1>2, LenProperties, Zenon
<1>4. Len(f) = n
  BY <1>2, <1>3
<1> QED BY <1>1, <1>2, <1>4 DEF f

\* What a sealed packet consists of, byte by byte.
LEMMA Sealed ==
  ASSUME NEW A, NEW salt \in Seq(A), Len(salt) = SaltSize,
         NEW master_key, NEW plain \in Seq(Byte)
  PROVE  LET key == derive_subkey(master_key, salt)
             wire == encrypt_udp_packet(master_key, salt, plain)
         IN \E S : /\ wire \in Seq(S)
                   /\ Len(wire) = SaltSize + Len(plain) + TagSize
                   /\ First(wire, SaltSize) = salt
                   /\ First(After(wire, SaltSize), Len(plain)) = Cipher(key, plain)
                   /\ After(After(wire, SaltSize), Len(plain)) = Tag(key, plain)
                   /\ Len(After(wire, SaltSize)) = Len(plain) + TagSize
<1> DEFINE key == derive_subkey(master_key, salt)
           c == Cipher(key, plain)  t == Tag(key, plain)
           C == {[of |-> <<"cipher", key, plain>>, at |-> i] : i \in 1 .. Len(plain)}
           T == {[of |-> <<"tag", key, plain>>, at |-> i] : i \in 1 .. TagSize}
           S == A \cup C \cup T
<1>1. Len(plain) \in Nat /\ TagSize \in Nat /\ SaltSize \in Nat
  BY LenProperties, Lengths
<1>2. c \in Seq(C) /\ Len(c) = Len(plain)
  <2>1. \A i \in 1 .. Len(plain) : [of |-> <<"cipher", key, plain>>, at |-> i] \in C
    BY Zenon
  <2> HIDE DEF C, key
  <2> QED BY <2>1, <1>1, SymbolsSeq DEF Cipher
<1>3. t \in Seq(T) /\ Len(t) = TagSize
  <2>1. \A i \in 1 .. TagSize : [of |-> <<"tag", key, plain>>, at |-> i] \in T
    BY Zenon
  <2> HIDE DEF T, key
  <2> QED BY <2>1, <1>1, SymbolsSeq, Zenon DEF Tag
<1> HIDE DEF c, t, C, T
<1>4. salt \in Seq(S) /\ c \in Seq(S) /\ t \in Seq(S)
  <2>1. A \subseteq S /\ C \subseteq S /\ T \subseteq S
    BY Zenon
  <2> HIDE DEF S
  <2> QED BY <2>1, <1>2, <1>3, SeqMonotonic
<1> HIDE DEF S
<1> DEFINE ct == c \o t
<1>5. ct \in Seq(S) /\ Len(ct) = Len(plain) + TagSize
      /\ First(ct, Len(plain)) = c /\ After(ct, Len(plain)) = t
  <2>1. ct \in Seq(S) /\ Len(ct) = Len(c) + Len(t) /\ First(ct, Len(c)) = c /\ After(ct, Len(c)) = t
    BY <1>4, Joined
  <2> QED BY <2>1, <1>2, <1>3
<1>6. (salt \o c) \o t = salt \o ct
  BY <1>4, AllChained, SMTT(30)
<1> HIDE DEF ct
<1> DEFINE wire == salt \o ct
<1>7. wire \in Seq(S) /\ Len(wire) = Len(salt) + Len(ct)
      /\ First(wire, Len(salt)) = salt /\ After(wire, Len(salt)) = ct
  BY <1>4, <1>5, Joined, ZenonT(40)
<1>8. encrypt_udp_packet(master_key, salt, plain) = wire
  BY <1>6, Zenon DEF encrypt_udp_packet, c, t
<1> HIDE DEF wire
<1>9. /\ wire \in Seq(S)
      /\ Len(wire) = SaltSize + Len(plain) + TagSize
      /\ First(wire, SaltSize) = salt
      /\ First(After(wire, SaltSize), Len(plain)) = c
      /\ After(After(wire, SaltSize), Len(plain)) = t
      /\ Len(After(wire, SaltSize)) = Len(plain) + TagSize
  BY <1>1, <1>5, <1>7
<1> QED BY <1>8, <1>9 DEF c, t

\* What was sealed opens with the same key.
LEMMA OpensSealed ==
  ASSUME NEW A, NEW salt \in Seq(A), Len(salt) = SaltSize,
         NEW master_key, NEW plain \in Seq(Byte)
  PROVE  decrypt_udp_packet(master_key, encrypt_udp_packet(master_key, salt, plain))
           = [ok |-> TRUE, plain |-> plain]
<1> DEFINE key == derive_subkey(master_key, salt)
           wire == encrypt_udp_packet(master_key, salt, plain)
           after == After(wire, SaltSize)
<1>0. Len(plain) \in Nat /\ TagSize \in Nat \ {0} /\ SaltSize \in Nat
  BY LenProperties, Lengths, Zenon
<1>1. /\ Len(wire) = SaltSize + Len(plain) + TagSize
      /\ First(wire, SaltSize) = salt
      /\ First(after, Len(plain)) = Cipher(key, plain)
      /\ After(after, Len(plain)) = Tag(key, plain)
      /\ Len(after) = Len(plain) + TagSize
  BY Sealed
<1> HIDE DEF wire
<1>2. ~(Len(wire) < SaltSize + TagSize) /\ Len(after) - TagSize = Len(plain)
  BY <1>0, <1>1
<1>3. decrypt_udp_packet(master_key, wire) = decrypt(key, Cipher(key, plain), Tag(key, plain))
  BY <1>1, <1>2, Zenon DEF decrypt_udp_packet
<1> HIDE DEF key, after
<1>4. Tag(key, plain)[1] = [of |-> <<"tag", key, plain>>, at |-> 1]
  BY <1>0 DEF Tag, Symbols
<1>5. /\ Tag(key, plain)[1].of = <<"tag", key, plain>>
      /\ <<"tag", key, plain>>[1] = "tag" /\ <<"tag", key, plain>>[2] = key
      /\ <<"tag", key, plain>>[3] = plain
  BY <1>4
<1>6. decrypt(key, Cipher(key, plain), Tag(key, plain)) = [ok |-> TRUE, plain |-> plain]
  BY <1>5 DEF decrypt
<1> QED BY <1>3, <1>6, Zenon DEF wire

\* The bytes of a sealed packet: the salt, the cipher of the text, its tag.
SealedAs(wire, salt, key, plain) ==
  /\ Len(wire) = SaltSize + Len(plain) + TagSize
  /\ \A i \in 1 .. SaltSize : wire[i] = salt[i]
  /\ \A i \in SaltSize + 1 .. SaltSize + Len(plain) : wire[i].of = <<"cipher", key, plain>>
  /\ \A i \in SaltSize + Len(plain) + 1 .. Len(wire) : wire[i].of = <<"tag", key, plain>>
  /\ \E S : wire \in Seq(S)

\* What encrypt_udp_packet writes, byte by byte: the salt, the ciphertext, the
\* tag.
LEMMA SealedBytes ==
  ASSUME NEW A, NEW salt \in Seq(A), Len(salt) = SaltSize,
         NEW master_key, NEW plain \in Seq(Byte)
  PROVE  SealedAs(encrypt_udp_packet(master_key, salt, plain), salt,
                  derive_subkey(master_key, salt), plain)
<1> DEFINE key == derive_subkey(master_key, salt)
           wire == encrypt_udp_packet(master_key, salt, plain)
           after == After(wire, SaltSize)
<1>0. Len(plain) \in Nat /\ TagSize \in Nat \ {0} /\ SaltSize \in Nat
  BY LenProperties, Lengths
<1>1. PICK S : /\ wire \in Seq(S)
               /\ Len(wire) = SaltSize + Len(plain) + TagSize
               /\ First(wire, SaltSize) = salt
               /\ First(after, Len(plain)) = Cipher(key, plain)
               /\ After(after, Len(plain)) = Tag(key, plain)
               /\ Len(after) = Len(plain) + TagSize
  BY Sealed
<1> HIDE DEF wire, key
<1>2. /\ \A i \in 1 .. SaltSize : First(wire, SaltSize)[i] = wire[i]
      /\ after \in Seq(S)
      /\ \A i \in 1 .. Len(wire) - SaltSize : after[i] = wire[SaltSize + i]
  <2>1. SaltSize \in 0 .. Len(wire) /\ wire \in Seq(S)
    BY <1>0, <1>1
  <2> QED BY <2>1, Parted, ZenonT(40)
<1> HIDE DEF after
<1>3. /\ \A i \in 1 .. Len(plain) : First(after, Len(plain))[i] = after[i]
      /\ \A i \in 1 .. Len(after) - Len(plain) : After(after, Len(plain))[i] = after[Len(plain) + i]
  <2>1. Len(plain) \in 0 .. Len(after) /\ after \in Seq(S)
    BY <1>0, <1>1, <1>2
  <2> QED BY <2>1, Parted, Zenon
<1>4. \A i \in 1 .. Len(plain) : Cipher(key, plain)[i].of = <<"cipher", key, plain>>
  BY Zenon DEF Cipher, Symbols
<1>5. \A i \in 1 .. TagSize : Tag(key, plain)[i].of = <<"tag", key, plain>>
  BY Zenon DEF Tag, Symbols
<1>6. \A i \in 1 .. SaltSize : wire[i] = salt[i]
  BY <1>1, <1>2
<1>7. ASSUME NEW i \in SaltSize + 1 .. SaltSize + Len(plain)
      PROVE  wire[i].of = <<"cipher", key, plain>>
  <2> DEFINE j == i - SaltSize
  <2>1. /\ j \in 1 .. Len(plain) /\ j \in 1 .. Len(wire) - SaltSize /\ SaltSize + j = i
    BY <1>0, <1>1
  <2> HIDE DEF j
  <2>2. after[j] = wire[i] /\ First(after, Len(plain))[j] = after[j]
    BY <2>1, <1>2, <1>3
  <2> QED BY <2>1, <2>2, <1>1, <1>4
<1>8. ASSUME NEW i \in SaltSize + Len(plain) + 1 .. Len(wire)
      PROVE  wire[i].of = <<"tag", key, plain>>
  <2> DEFINE j == i - SaltSize  k == j - Len(plain)
  <2>1. /\ j \in 1 .. Len(wire) - SaltSize /\ SaltSize + j = i
        /\ k \in 1 .. TagSize /\ k \in 1 .. Len(after) - Len(plain) /\ Len(plain) + k = j
    BY <1>0, <1>1
  <2> HIDE DEF j, k
  <2>2. after[j] = wire[i] /\ After(after, Len(plain))[k] = after[j]
    BY <2>1, <1>2, <1>3, ZenonT(40)
  <2> QED BY <2>1, <2>2, <1>1, <1>5, ZenonT(40)
<1> QED BY <1>1, <1>6, <1>7, <1>8, Zenon DEF wire, key, SealedAs

\* A packet that opens ends in the tag of one plain text under the key of its
\* own salt, and holds that text's cipher and nothing else before the tag.
LEMMA OpenedBytes ==
  ASSUME NEW S, NEW w \in Seq(S), NEW master_key,
         decrypt_udp_packet(master_key, w).ok
  PROVE  LET key == derive_subkey(master_key, First(w, SaltSize))
             of == w[Len(w) - TagSize + 1].of
         IN /\ Len(w) >= SaltSize + TagSize
            /\ of[1] = "tag" /\ of[2] = key
            /\ decrypt_udp_packet(master_key, w).plain = of[3]
            /\ \A i \in SaltSize + 1 .. Len(w) - TagSize : w[i].of = <<"cipher", key, of[3]>>
            /\ \A i \in Len(w) - TagSize + 1 .. Len(w) : w[i].of = <<"tag", key, of[3]>>
<1> DEFINE key == derive_subkey(master_key, First(w, SaltSize))
           sealed == After(w, SaltSize)
           n == Len(sealed) - TagSize
           body == First(sealed, n)
           tag == After(sealed, n)
           of == tag[1].of
<1>0. Len(w) \in Nat /\ TagSize \in Nat \ {0} /\ SaltSize \in Nat /\ ~Nullopt.ok
  BY LenProperties, Lengths, Zenon DEF Nullopt
<1>1. Len(w) >= SaltSize + TagSize
  BY <1>0 DEF decrypt_udp_packet
<1>2. decrypt_udp_packet(master_key, w) = decrypt(key, body, tag)
  BY <1>0, <1>1, Zenon DEF decrypt_udp_packet
<1>3. /\ sealed \in Seq(S) /\ Len(sealed) = Len(w) - SaltSize
      /\ \A i \in 1 .. Len(w) - SaltSize : sealed[i] = w[SaltSize + i]
  <2>1. SaltSize \in 0 .. Len(w)
    BY <1>0, <1>1
  <2> QED BY <2>1, Parted, ZenonT(40)
<1> HIDE DEF key, sealed
<1>4. /\ body \in Seq(S) /\ Len(body) = n /\ \A i \in 1 .. n : body[i] = sealed[i]
      /\ tag \in Seq(S) /\ Len(tag) = TagSize
      /\ \A i \in 1 .. TagSize : tag[i] = sealed[n + i]
  <2>a. sealed \in Seq(S) /\ Len(sealed) = Len(w) - SaltSize
    BY <1>3, Zenon
  <2>1. n \in 0 .. Len(sealed) /\ Len(sealed) - n = TagSize
    <3> DEFINE l == Len(sealed)
    <3>1. l = Len(w) - SaltSize
      BY <2>a, Zenon
    <3> HIDE DEF l
    <3>2. l - TagSize \in 0 .. l /\ l - (l - TagSize) = TagSize
      BY <3>1, <1>0, <1>1
    <3> QED BY <3>2, Zenon DEF l
  <2> HIDE DEF n
  <2>2. /\ body \in Seq(S) /\ Len(body) = n /\ \A i \in 1 .. n : body[i] = sealed[i]
        /\ tag \in Seq(S) /\ Len(tag) = Len(sealed) - n
        /\ \A i \in 1 .. Len(sealed) - n : tag[i] = sealed[n + i]
    BY <2>1, <2>a, Parted, ZenonT(40)
  <2> QED BY <2>1, <2>2, Zenon
<1> HIDE DEF body, tag
<1>5. /\ of[1] = "tag" /\ of[2] = key /\ tag = Tag(key, of[3])
      /\ body = Cipher(key, of[3]) /\ decrypt(key, body, tag).plain = of[3]
  BY <1>0, <1>2, Zenon DEF decrypt
<1>6. \A i \in 1 .. n : body[i].of = <<"cipher", key, of[3]>>
  <2>1. DOMAIN body = 1 .. n
    BY <1>4, LenProperties
  <2>2. DOMAIN Cipher(key, of[3]) = 1 .. n
    BY <2>1, <1>5, Zenon
  <2> DEFINE p == of[3]
  <2> HIDE DEF p, n
  <2>3. \A i \in DOMAIN Cipher(key, p) : Cipher(key, p)[i].of = <<"cipher", key, p>>
    BY Zenon DEF Cipher, Symbols
  <2> QED BY <2>2, <2>3, <1>5 DEF p
<1>7. \A i \in 1 .. TagSize : tag[i].of = <<"tag", key, of[3]>>
  <2> DEFINE p == of[3]
  <2> HIDE DEF p
  <2>3. \A i \in 1 .. TagSize : Tag(key, p)[i].of = <<"tag", key, p>>
    BY Zenon DEF Tag, Symbols
  <2> QED BY <2>3, <1>5, Zenon DEF p
<1>8. /\ \A i \in 1 .. n : body[i] = w[SaltSize + i]
      /\ \A i \in 1 .. TagSize : tag[i] = w[Len(w) - TagSize + i]
  <2>1. n = Len(w) - SaltSize - TagSize
    BY <1>0, <1>3, Zenon
  <2>2. ASSUME NEW i \in 1 .. n  PROVE body[i] = w[SaltSize + i]
    <3>1. i \in 1 .. Len(w) - SaltSize
      BY <2>1, <1>0, <1>1
    <3> QED BY <3>1, <1>3, <1>4, Zenon
  <2>3. ASSUME NEW i \in 1 .. TagSize  PROVE tag[i] = w[Len(w) - TagSize + i]
    <3>1. n + i \in 1 .. Len(w) - SaltSize /\ SaltSize + (n + i) = Len(w) - TagSize + i
      BY <2>1, <1>0, <1>1
    <3> HIDE DEF n
    <3>2. tag[i] = sealed[n + i] /\ sealed[n + i] = w[SaltSize + (n + i)]
      BY <3>1, <1>3, <1>4, Zenon
    <3> QED BY <3>1, <3>2, Zenon
  <2> QED BY <2>2, <2>3, Zenon
<1>9. tag[1] = w[Len(w) - TagSize + 1]
  BY <1>0, <1>8
<1>10. ASSUME NEW i \in SaltSize + 1 .. Len(w) - TagSize
       PROVE  w[i].of = <<"cipher", key, of[3]>>
  <2> DEFINE j == i - SaltSize
  <2>1. j \in 1 .. n /\ SaltSize + j = i
    BY <1>0, <1>1, <1>3
  <2> HIDE DEF j, n, of
  <2> QED BY <2>1, <1>6, <1>8, Zenon
<1>11. ASSUME NEW i \in Len(w) - TagSize + 1 .. Len(w)
       PROVE  w[i].of = <<"tag", key, of[3]>>
  <2> DEFINE j == i - (Len(w) - TagSize)
  <2>1. j \in 1 .. TagSize /\ Len(w) - TagSize + j = i
    BY <1>0, <1>1
  <2> HIDE DEF j, n, of
  <2>2. tag[j] = w[Len(w) - TagSize + j]
    BY <2>1, <1>8, Zenon
  <2> QED BY <2>1, <2>2, <1>7, Zenon
<1>12. of = w[Len(w) - TagSize + 1].of
  BY <1>9, Zenon
<1> HIDE DEF of
<1> QED BY <1>1, <1>2, <1>5, <1>10, <1>11, <1>12, ZenonT(40) DEF key

\* What arrives of a client's packet, byte by byte.
LEMMA Arrival ==
  ASSUME NEW d \in Datagrams
  PROVE  LET wire == encrypt_udp_packet(d.key, Salt, d.plain)
             w == Arriving(d)
         IN /\ \E S : w \in Seq(S)
            /\ Len(w) = IF d.cut < Len(wire) THEN d.cut ELSE Len(wire)
            /\ \A i \in 1 .. Len(w) : w[i] = IF i = d.altered THEN Noise ELSE wire[i]
            /\ d.cut >= Len(wire) /\ d.altered \notin 1 .. Len(wire) => w = wire
<1> DEFINE wire == encrypt_udp_packet(d.key, Salt, d.plain)
           c == CutAt(wire, d.cut)
<1>0. d.plain \in Seq(Byte) /\ d.cut \in Nat /\ d.altered \in Nat
  BY ClientDatagrams, Zenon
<1>1. \E S : wire \in Seq(S)
  <2> DEFINE A == {Salt[k] : k \in DOMAIN Salt}  p == d.plain  key == d.key
  <2>1. Salt \in Seq(A) /\ Len(Salt) = SaltSize /\ p \in Seq(Byte)
    BY <1>0, Salts, Zenon
  <2> HIDE DEF A, p, key
  <2>2. \E S : encrypt_udp_packet(key, Salt, p) \in Seq(S)
    BY <2>1, SealedBytes, ZenonT(40) DEF SealedAs
  <2> QED BY <2>2, Zenon DEF p, key
<1> HIDE DEF wire
<1>2. PICK R : wire \in Seq(R)
  BY <1>1, Zenon
<1>3. Len(wire) \in Nat
  BY <1>2, LenProperties, Zenon
<1>4. /\ c \in Seq(R) /\ Len(c) = IF d.cut < Len(wire) THEN d.cut ELSE Len(wire)
      /\ \A i \in 1 .. Len(c) : c[i] = wire[i]
  <2>1. CASE d.cut < Len(wire)
    <3>1. d.cut \in 0 .. Len(wire)
      BY <2>1, <1>0, <1>3
    <3>2. c = First(wire, d.cut)
      BY <2>1, Zenon DEF CutAt
    <3> DEFINE n == d.cut
    <3> HIDE DEF n
    <3>3. First(wire, n) \in Seq(R) /\ Len(First(wire, n)) = n
          /\ \A i \in 1 .. n : First(wire, n)[i] = wire[i]
      BY <3>1, <1>2, Parted, Zenon DEF n
    <3> QED BY <3>2, <3>3, <2>1 DEF n
  <2>2. CASE ~(d.cut < Len(wire))
    BY <2>2, <1>2, Zenon DEF CutAt
  <2> QED BY <2>1, <2>2, Zenon
<1>5. d.cut >= Len(wire) => c = wire
  BY <1>0, <1>3 DEF CutAt
<1> HIDE DEF c
<1>6. Len(c) \in Nat
  BY <1>4, LenProperties, Zenon
<1>7. Arriving(d) = IF d.altered \in 1 .. Len(c) THEN Altered(c, d.altered) ELSE c
  BY Zenon DEF Arriving, wire, c
<1>8. CASE d.altered \in 1 .. Len(c)
  <2> DEFINE w == Altered(c, d.altered)  S == R \cup {Noise}
  <2>1. c \in Seq(S) /\ Noise \in S
    BY <1>4, SeqMonotonic, Zenon
  <2>2. /\ w \in Seq(S) /\ Len(w) = Len(c)
        /\ \A j \in 1 .. Len(c) : w[j] = IF j = d.altered THEN Noise ELSE c[j]
    <3> DEFINE m == d.altered
    <3>1. m \in 1 .. Len(c)
      BY <1>8, Zenon
    <3> HIDE DEF S, m
    <3>2. /\ [c EXCEPT ![m] = Noise] \in Seq(S) /\ Len([c EXCEPT ![m] = Noise]) = Len(c)
          /\ \A j \in 1 .. Len(c) : [c EXCEPT ![m] = Noise][j] = IF j = m THEN Noise ELSE c[j]
      BY <2>1, <3>1, ExceptSeq
    <3> QED BY <3>2, Zenon DEF Altered, m
  <2>3. Arriving(d) = w
    BY <1>7, <1>8, Zenon
  <2> HIDE DEF w, S
  <2>4. \A j \in 1 .. Len(w) : w[j] = IF j = d.altered THEN Noise ELSE wire[j]
    BY <2>2, <1>4, Zenon
  <2>5. ~(d.cut >= Len(wire) /\ d.altered \notin 1 .. Len(wire))
    BY <1>5, <1>8, Zenon
  <2> QED BY <2>2, <2>3, <2>4, <2>5, <1>4 DEF wire
<1>9. CASE d.altered \notin 1 .. Len(c)
  <2>1. Arriving(d) = c
    BY <1>7, <1>9, Zenon
  <2>2. \A j \in 1 .. Len(c) : c[j] = IF j = d.altered THEN Noise ELSE wire[j]
    BY <1>4, <1>9, Zenon
  <2> QED BY <2>1, <2>2, <1>4, <1>5 DEF wire
<1> QED BY <1>8, <1>9, Zenon

\* A packet opens only as it was sealed, with the password.
LEMMA OpensUntouched ==
  ASSUME NEW d \in Datagrams, decrypt_udp_packet("pw", Arriving(d)).ok
  PROVE  Untouched(d)
<1> DEFINE wire == encrypt_udp_packet(d.key, Salt, d.plain)
           w == Arriving(d)
           n == Len(d.plain)
           L == SaltSize + n + TagSize
           sealing == derive_subkey(d.key, Salt)
           opening == derive_subkey("pw", First(w, SaltSize))
           last == Len(w) - TagSize + 1
           of == w[last].of
<1>0. /\ d.plain \in Seq(Byte) /\ d.cut \in Nat /\ d.altered \in Nat
      /\ n \in Nat /\ TagSize \in Nat \ {0} /\ SaltSize \in Nat \ {0}
  <2>1. d.plain \in Seq(Byte) /\ d.cut \in Nat /\ d.altered \in Nat
    BY ClientDatagrams, Zenon
  <2> QED BY <2>1, Lengths, LenProperties, Zenon
<1>1. /\ Len(wire) = L
      /\ \A i \in 1 .. SaltSize : wire[i] = Salt[i]
      /\ \A i \in SaltSize + 1 .. SaltSize + n : wire[i].of = <<"cipher", sealing, d.plain>>
      /\ \A i \in SaltSize + n + 1 .. Len(wire) : wire[i].of = <<"tag", sealing, d.plain>>
  <2> DEFINE A == {Salt[k] : k \in DOMAIN Salt}  p == d.plain  key == d.key
  <2>1. Salt \in Seq(A) /\ Len(Salt) = SaltSize /\ p \in Seq(Byte)
    BY <1>0, Salts, Zenon
  <2> HIDE DEF A, p, key
  <2>2. SealedAs(encrypt_udp_packet(key, Salt, p), Salt, derive_subkey(key, Salt), p)
    BY <2>1, SealedBytes, ZenonT(40)
  <2> QED BY <2>2, Zenon DEF SealedAs, p, key
<1>2. /\ \E S : w \in Seq(S)
      /\ Len(w) = IF d.cut < Len(wire) THEN d.cut ELSE Len(wire)
      /\ \A i \in 1 .. Len(w) : w[i] = IF i = d.altered THEN Noise ELSE wire[i]
  BY Arrival, Zenon
<1> HIDE DEF wire, w, n, sealing
<1>3. PICK S : w \in Seq(S)
  BY <1>2, Zenon
<1>4. /\ Len(w) >= SaltSize + TagSize
      /\ of[1] = "tag" /\ of[2] = opening
      /\ \A i \in SaltSize + 1 .. Len(w) - TagSize : w[i].of = <<"cipher", opening, of[3]>>
      /\ \A i \in Len(w) - TagSize + 1 .. Len(w) : w[i].of = <<"tag", opening, of[3]>>
  BY <1>3, OpenedBytes DEF w
<1>5. Len(w) \in Nat /\ Len(w) <= L /\ (d.cut < L => Len(w) = d.cut)
      /\ (d.cut >= L => Len(w) = L)
  <2>1. Len(w) \in Nat
    BY <1>3, LenProperties
  <2>2. Len(w) = IF d.cut < L THEN d.cut ELSE L
    BY <1>1, <1>2, Zenon
  <2> DEFINE l == Len(w)
  <2> HIDE DEF l
  <2> QED BY <2>1, <2>2, <1>0
<1>6. Noise.of[1] = "noise"
  BY Zenon DEF Noise
<1> HIDE DEF L, opening
<1>7. last \in 1 .. Len(w) /\ last \in SaltSize + 1 .. L
  <2>1. Len(w) >= SaltSize + TagSize
    BY <1>4, Zenon
  <2>2. L \in Nat
    BY <1>0 DEF L
  <2>3. Len(w) \in Nat /\ Len(w) <= L
    BY <1>5, Zenon
  <2> QED BY <2>1, <2>2, <2>3, <1>0
<1>8. last # d.altered
  <2> SUFFICES ASSUME last = d.altered  PROVE FALSE
    BY Zenon
  <2>1. w[last] = Noise
    BY <1>2, <1>7
  <2> HIDE DEF last
  <2> QED BY <2>1, <1>4, <1>6
<1>9. w[last] = wire[last]
  BY <1>2, <1>7, <1>8
<1>10. d.cut >= L
  <2> SUFFICES ASSUME d.cut < L  PROVE FALSE
    BY <1>0, <1>5 DEF L
  <2>1. last \in SaltSize + 1 .. SaltSize + n
    BY <1>0, <1>4, <1>5 DEF L
  <2>2. wire[last].of = <<"cipher", sealing, d.plain>>
    BY <2>1, <1>1
  <2> HIDE DEF last
  <2>3. of[1] = "cipher"
    BY <2>2, <1>9
  <2> QED BY <2>3, <1>4
<1>11. Len(w) = L
  BY <1>5, <1>10
<1>12. of = <<"tag", sealing, d.plain>>
  <2>1. last \in SaltSize + n + 1 .. Len(wire)
    BY <1>0, <1>1, <1>11 DEF L
  <2> HIDE DEF last
  <2> QED BY <2>1, <1>1, <1>9
<1>13. of[2] = sealing
  BY <1>12
<1>14. sealing = opening
  BY <1>4, <1>13
<1>15. d.key = "pw" /\ Salt = First(w, SaltSize)
  BY <1>14, Zenon DEF sealing, opening, derive_subkey
<1>16. \A i \in 1 .. SaltSize : w[i] = Salt[i]
  <2>1. SaltSize \in 0 .. Len(w)
    BY <1>0, <1>4, <1>5
  <2>2. \A i \in 1 .. SaltSize : First(w, SaltSize)[i] = w[i]
    BY <2>1, <1>3, Parted
  <2> QED BY <2>2, <1>15
<1>17. ASSUME d.altered \in 1 .. L  PROVE FALSE
  <2> DEFINE m == d.altered
  <2>1. w[m] = Noise /\ m \in Nat
    BY <1>0, <1>2, <1>11, <1>17
  <2>2. CASE m \in 1 .. SaltSize
    BY <2>1, <2>2, <1>16, Salts, ZenonT(40)
  <2>3. CASE m \in SaltSize + 1 .. Len(w) - TagSize
    <3> HIDE DEF m, of
    <3>1. w[m].of = <<"cipher", opening, of[3]>>
      BY <2>3, <1>4
    <3> QED BY <3>1, <2>1, <1>6
  <2>4. CASE m \in Len(w) - TagSize + 1 .. Len(w)
    <3> HIDE DEF m, of
    <3>1. w[m].of = <<"tag", opening, of[3]>>
      BY <2>4, <1>4
    <3> QED BY <3>1, <2>1, <1>6
  <2>5. m \in 1 .. SaltSize \/ m \in SaltSize + 1 .. Len(w) - TagSize
        \/ m \in Len(w) - TagSize + 1 .. Len(w)
    BY <2>1, <1>0, <1>5, <1>11, <1>17 DEF L
  <2> QED BY <2>2, <2>3, <2>4, <2>5
<1> QED BY <1>10, <1>15, <1>17, Zenon DEF Untouched, L, n

-----------------------------------------------------------------------------
(* One handler takes the input, once. *)

Opened(d) ==
  LET opened == decrypt_udp_packet("pw", Arriving(d)) IN
  IF opened.ok THEN parse_ss_address(opened.plain) ELSE Nullopt

ReplyWire(r) ==
  LET to == ReplyTarget(r)
      head == encode_ss_address(to.type, to.host, to.port)
  IN IF head.ok THEN encrypt_udp_packet("pw", OtherSalt, head.bytes \o r.payload) ELSE <<>>

\* A datagram, a reply and a document are what they can be, and the output is
\* their own handler's, or there is none yet.
Handled ==
  /\ input.kind = "datagram" =>
       /\ input.is \in Datagrams
       /\ output \in {Nothing, [ok |-> TRUE, target |-> Opened(input.is)]}
  /\ input.kind = "reply" =>
       /\ input.is \in Replies
       /\ output \in {Nothing, [ok |-> TRUE, wire |-> ReplyWire(input.is)]}
  /\ input.kind = "document" =>
       /\ input.is \in Documents
       /\ output \in {Nothing, [ok |-> TRUE, config |-> load_json_config(input.is)]}

\* Each of them is handled once, by send_to_lwip, send_to_client and the load at
\* start, from the whole of it.
LEMMA EachHandled == Spec => []Handled
<1>1. Init => Handled
  BY DEF Init, Handled, Given
<1>2. Handled /\ [Next]_vars => Handled'
  <2> SUFFICES ASSUME Handled, [Next]_vars  PROVE Handled'
    BY Zenon
  <2>1. CASE send_to_lwip
    BY <2>1 DEF send_to_lwip, Handled, Opened
  <2>2. CASE send_to_client
    BY <2>2 DEF send_to_client, Handled, ReplyWire
  <2>3. CASE Ask
    BY <2>3 DEF Ask, Handled
  <2>4. CASE dns_recv
    BY <2>4 DEF dns_recv, Handled
  <2>5. CASE Load
    BY <2>5 DEF Load, Handled
  <2>6. CASE UNCHANGED vars
    BY <2>6, Zenon DEF vars, Handled
  <2> QED BY <2>1, <2>2, <2>3, <2>4, <2>5, <2>6, Zenon DEF Next
<1> QED BY <1>1, <1>2, PTL DEF Spec

\* A handled datagram was opened and its address parsed from the whole of it.
LEMMA GivenDatagram ==
  ASSUME Handled, Done("datagram")
  PROVE  input.is \in Datagrams /\ output.target = Opened(input.is)
<1>1. output # Nothing /\ input.kind = "datagram"
  BY DEF Done, Nothing
<1>2. input.is \in Datagrams
  BY <1>1, Zenon DEF Handled
<1>3. output = [ok |-> TRUE, target |-> Opened(input.is)]
  BY <1>1, Zenon DEF Handled
<1> QED BY <1>2, <1>3, Zenon

\* A handled reply was sealed by send_to_client from the whole of it.
LEMMA GivenReply ==
  ASSUME Handled, Done("reply")
  PROVE  input.is \in Replies /\ output.wire = ReplyWire(input.is)
<1>1. output # Nothing /\ input.kind = "reply"
  BY DEF Done, Nothing
<1>2. input.is \in Replies
  BY <1>1, Zenon DEF Handled
<1>3. output = [ok |-> TRUE, wire |-> ReplyWire(input.is)]
  BY <1>1, Zenon DEF Handled
<1> QED BY <1>2, <1>3, Zenon

-----------------------------------------------------------------------------
\* The heart of DatagramOpensWhole: what is opened was not touched and is read
\* in full, and what was not touched is refused only when it is too short.
LEMMA DatagramTarget ==
  ASSUME NEW d \in Datagrams
  PROVE  LET t == Opened(d) IN
         IF t.ok
         THEN /\ Untouched(d)
              /\ encode_ss_address(t.type, t.host, t.port).bytes \o t.rest = d.plain
         ELSE Untouched(d) => \A n \in AddressLengths(d.plain) : n > Len(d.plain)
<1> DEFINE t == Opened(d)
           o == decrypt_udp_packet("pw", Arriving(d))
           wire == encrypt_udp_packet(d.key, Salt, d.plain)
<1>0. d.plain \in Seq(Byte) /\ ~Nullopt.ok
  BY ClientDatagrams, Zenon DEF Nullopt
<1>1. ASSUME Untouched(d)  PROVE o = [ok |-> TRUE, plain |-> d.plain]
  <2> DEFINE A == {Salt[k] : k \in DOMAIN Salt}  p == d.plain  key == d.key
  <2>1. Salt \in Seq(A) /\ Len(Salt) = SaltSize /\ p \in Seq(Byte)
    BY <1>0, Salts, Zenon
  <2>2. key = "pw"
    BY <1>1, Zenon DEF Untouched
  <2>3. Arriving(d) = wire
    <3>1. Len(wire) = SaltSize + Len(d.plain) + TagSize
      <4> HIDE DEF A, p, key
      <4>1. Len(encrypt_udp_packet(key, Salt, p)) = SaltSize + Len(p) + TagSize
        BY <2>1, SealedBytes, ZenonT(40) DEF SealedAs
      <4> QED BY <4>1, Zenon DEF p, key
    <3>2. d.cut >= Len(wire) /\ d.altered \notin 1 .. Len(wire)
      BY <3>1, <1>1, Zenon DEF Untouched
    <3> QED BY <3>2, Arrival, Zenon
  <2> HIDE DEF A, p, key
  <2>4. decrypt_udp_packet(key, encrypt_udp_packet(key, Salt, p)) = [ok |-> TRUE, plain |-> p]
    BY <2>1, OpensSealed
  <2> QED BY <2>2, <2>3, <2>4, Zenon DEF p, key
<1>2. o.ok => Untouched(d)
  BY OpensUntouched
<1>3. t = IF o.ok THEN parse_ss_address(o.plain) ELSE Nullopt
  BY Zenon DEF Opened
<1> HIDE DEF t, o
<1>4. CASE t.ok
  <2>1. o.ok
    BY <1>0, <1>3, <1>4
  <2>2. Untouched(d)
    BY <1>2, <2>1
  <2>3. t = parse_ss_address(d.plain)
    BY <1>1, <1>3, <2>1, <2>2
  <2>4. encode_ss_address(t.type, t.host, t.port).bytes \o t.rest = d.plain
    BY <1>0, <1>4, <2>3, ParsedBytes, Zenon
  <2> QED BY <1>4, <2>2, <2>4 DEF t
<1>5. CASE ~t.ok
  <2>1. ASSUME Untouched(d), NEW n \in AddressLengths(d.plain)  PROVE n > Len(d.plain)
    <3>1. o.ok /\ o.plain = d.plain
      BY <1>1, <2>1
    <3>2. ~parse_ss_address(d.plain).ok
      BY <1>3, <1>5, <3>1, Zenon
    <3> QED BY <1>0, <3>2, RefusedShort
  <2> QED BY <1>5, <2>1 DEF t
<1> QED BY <1>4, <1>5, Zenon

\* A client's datagram is taken whole or not at all, whatever its bytes, its
\* length, where it is cut and which byte is altered: send_to_lwip gets a target
\* from it only if nothing happened to it, and then target and payload are
\* together exactly what the client wrote.
THEOREM DatagramWhole == Spec => []DatagramOpensWhole
<1>1. Handled => DatagramOpensWhole
  <2> SUFFICES ASSUME Handled, Done("datagram")
               PROVE  LET d == input.is  t == output.target IN
                      IF t.ok
                      THEN /\ Untouched(d)
                           /\ encode_ss_address(t.type, t.host, t.port).bytes \o t.rest = d.plain
                      ELSE Untouched(d) => \A n \in AddressLengths(d.plain) : n > Len(d.plain)
    BY Zenon DEF DatagramOpensWhole
  <2> QED BY GivenDatagram, DatagramTarget, Zenon
<1> QED BY <1>1, EachHandled, PTL

\* The head of an answer: the name the client used, or the answering address.
LEMMA ReplyHead ==
  ASSUME NEW r \in Replies
  PROVE  LET to == ReplyTarget(r)
             head == encode_ss_address(to.type, to.host, to.port)
             t == parse_ss_address(head.bytes \o r.payload)
         IN /\ head.ok /\ head.bytes \o r.payload \in Seq(Byte)
            /\ t.ok /\ t.rest = r.payload /\ t.port = r.port
            /\ IF r.target.type = Domain THEN t.type = Domain /\ t.host = r.target.host
               ELSE t.host.ip = r.addr
<1> DEFINE to == ReplyTarget(r)
           head == encode_ss_address(to.type, to.host, to.port)
           payload == r.payload  port == r.port  addr == r.addr
<1>0. /\ addr \in Seq(Byte) /\ (Len(addr) = V4Len \/ Len(addr) = V6Len)
      /\ port \in Word /\ payload \in Seq(Byte)
  BY TargetReplies, Zenon
<1>1. Ipv4 # Domain /\ Ipv6 # Domain /\ Ipv4 # Ipv6
      /\ Ipv4 \in Byte /\ Ipv6 \in Byte /\ Domain \in Byte
  BY DEF Ipv4, Ipv6, Domain, Byte
<1>2. CASE r.target.type = Domain
  <2> DEFINE chars == r.target.host.name  body == <<Len(chars)>> \o chars
  <2>1. /\ r.target \in [type : {Domain}, host : [name : Seq(Byte)], port : Word]
        /\ Len(chars) <= 255
    <3>1. \/ /\ r.target \in [type : {Domain}, host : [name : Seq(Byte)], port : Word]
             /\ Len(r.target.host.name) <= 255
          \/ r.target \in [type : {Ipv4, Ipv6}, host : [ip : Seq(Byte), spelling : STRING], port : Word]
      BY TargetReplies, Zenon
    <3> QED BY <3>1, <1>1, <1>2
  <2>2. r.target.host = Name(chars) /\ chars \in Seq(Byte)
    BY <2>1, Zenon DEF Name
  <2>3. to.type = Domain /\ to.host = Name(chars) /\ to.port = port
    BY <2>1, <2>2, <1>2 DEF ReplyTarget
  <2> HIDE DEF chars, to, payload, port
  <2>4. encode_ss_address(Domain, Name(chars), port)
          = [ok |-> TRUE, bytes |-> Encoded(Domain, body, port)]
    BY <2>1, EncodeDomain, Zenon
  <2>5. head.ok /\ head.bytes = Encoded(Domain, body, port)
    BY <2>3, <2>4
  <2>6. parse_ss_address(Encoded(Domain, body, port) \o payload)
          = [ok |-> TRUE, type |-> Domain, host |-> Name(chars), port |-> port, rest |-> payload]
    BY <2>1, <2>2, <1>0, ReadDomain
  <2>7. Encoded(Domain, body, port) \o payload \in Seq(Byte)
    <3>1. body \in Seq(Byte)
      <4>1. Len(chars) \in Byte
        BY <2>1, <2>2, LenProperties DEF Byte
      <4> QED BY <4>1, <2>2, Behind, Zenon
    <3> HIDE DEF body
    <3>2. Encoded(Domain, body, port) \in Seq(Byte)
      BY <3>1, <1>0, <1>1, EncodedBytes, Zenon
    <3> QED BY <3>2, <1>0, ConcatProperties, Zenon
  <2> HIDE DEF body, head
  <2> QED BY <2>2, <2>5, <2>6, <2>7, <1>2 DEF to, head, payload, port
<1>3. CASE r.target.type # Domain
  <2> DEFINE type == IF Len(addr) = V6Len THEN Ipv6 ELSE Ipv4
  <2>1. to.type = type /\ to.host = Text(addr, "ntoa") /\ to.port = port
    BY <1>3, Zenon DEF ReplyTarget
  <2>2. type \in {Ipv4, Ipv6} /\ Len(addr) = IF type = Ipv4 THEN V4Len ELSE V6Len
    BY <1>0, <1>1, Zenon
  <2> HIDE DEF type, to, payload, port, addr
  <2>3. encode_ss_address(type, Text(addr, "ntoa"), port)
          = [ok |-> TRUE, bytes |-> Encoded(type, addr, port)]
    BY <2>2, EncodeIp, ZenonT(40)
  <2>4. head.ok /\ head.bytes = Encoded(type, addr, port)
    BY <2>1, <2>3
  <2>5. parse_ss_address(Encoded(type, addr, port) \o payload)
          = [ok |-> TRUE, type |-> type, host |-> Text(addr, "full"), port |-> port, rest |-> payload]
    BY <2>2, <1>0, ReadIp, Zenon
  <2>6. Encoded(type, addr, port) \o payload \in Seq(Byte)
    <3>1. Encoded(type, addr, port) \in Seq(Byte)
      BY <2>2, <1>0, <1>1, EncodedBytes, Zenon
    <3> QED BY <3>1, <1>0, ConcatProperties, Zenon
  <2>7. Text(addr, "full").ip = addr
    BY Zenon DEF Text
  <2> HIDE DEF head
  <2> QED BY <2>4, <2>5, <2>6, <2>7, <1>3 DEF to, head, payload, port, addr
<1> QED BY <1>2, <1>3, Zenon

\* Every answer reaches the client in a form it can read, whatever the name the
\* client used, the family of the address that answered, the port and the payload.
THEOREM RepliesReadable == Spec => []ReplyReadable
<1>1. Handled => ReplyReadable
  <2> SUFFICES ASSUME Handled, Done("reply")
               PROVE  LET r == input.is
                          opened == decrypt_udp_packet("pw", output.wire)
                          t == parse_ss_address(opened.plain)
                      IN /\ opened.ok /\ t.ok
                         /\ t.rest = r.payload /\ t.port = r.port
                         /\ IF r.target.type = Domain THEN t.type = Domain /\ t.host = r.target.host
                            ELSE t.host.ip = r.addr
    BY Zenon DEF ReplyReadable
  <2> DEFINE r == input.is
             to == ReplyTarget(r)
             head == encode_ss_address(to.type, to.host, to.port)
             plain == head.bytes \o r.payload
             A == {OtherSalt[k] : k \in DOMAIN OtherSalt}
  <2>1. r \in Replies /\ output.wire = ReplyWire(r)
    BY GivenReply, Zenon
  <2>2. /\ head.ok /\ plain \in Seq(Byte)
        /\ parse_ss_address(plain).ok /\ parse_ss_address(plain).rest = r.payload
        /\ parse_ss_address(plain).port = r.port
        /\ IF r.target.type = Domain
           THEN parse_ss_address(plain).type = Domain
                /\ parse_ss_address(plain).host = r.target.host
           ELSE parse_ss_address(plain).host.ip = r.addr
    BY <2>1, ReplyHead, Zenon
  <2>3. output.wire = encrypt_udp_packet("pw", OtherSalt, plain)
    BY <2>1, <2>2, Zenon DEF ReplyWire
  <2> HIDE DEF plain, r
  <2>4. OtherSalt \in Seq(A) /\ Len(OtherSalt) = SaltSize
    BY Salts, Zenon
  <2> HIDE DEF A
  <2>5. decrypt_udp_packet("pw", encrypt_udp_packet("pw", OtherSalt, plain))
          = [ok |-> TRUE, plain |-> plain]
    BY <2>2, <2>4, OpensSealed
  <2> QED BY <2>2, <2>3, <2>5 DEF r
<1> QED BY <1>1, EachHandled, PTL

-----------------------------------------------------------------------------
(* Loops.  A loop of the code is a function of the turn; that it is one, and *)
(* what it computes, follows by looking at the first turn that would differ. *)

WF == INSTANCE WellFoundedInduction

\* A set of naturals has a least member, from which claims about loops follow.
LEMMA Least ==
  ASSUME NEW T \in SUBSET Nat, T # {}
  PROVE  \E n \in T : \A m \in T : n <= m
<1> DEFINE R == WF!OpToRel(<, Nat)
<1>1. WF!IsWellFoundedOn(R, Nat)
  BY WF!NatLessThanWellFounded, Zenon
<1>2. \A x, y \in Nat : y < x => <<y, x>> \in R
  BY Zenon DEF WF!OpToRel
<1> HIDE DEF R
<1>3. PICK x \in T : \A y \in T : ~(<<y, x>> \in R)
  BY <1>1, WF!WFMin, Zenon
<1>4. ASSUME NEW y \in T  PROVE x <= y
  <2>1. x \in Nat /\ y \in Nat
    BY Zenon
  <2>2. ~(y < x)
    BY <1>2, <1>3, <2>1, Zenon
  <2> QED BY <2>1, <2>2
<1> QED BY <1>4, Zenon

-----------------------------------------------------------------------------
(* The configuration. *)

\* The loop over the objects, as far as the k-th.
Turns(objects, k, config) ==
  config = [n \in 0 .. k |->
              IF n = 0 THEN [ok |-> objects # <<>>, instances |-> <<>>]
              ELSE LoadInstance(config[n - 1], objects[n])]

\* The turns of load_json_config's loop exist for every number of instances.
LEMMA TurnsExist ==
  ASSUME NEW objects, NEW k \in Nat
  PROVE  \E config : Turns(objects, k, config)
<1> DEFINE T == {m \in Nat : ~\E config : Turns(objects, m, config)}
           Z == [ok |-> objects # <<>>, instances |-> <<>>]
<1> SUFFICES ASSUME T # {}  PROVE FALSE
  BY Zenon
<1>1. PICK m \in T : \A l \in T : m <= l
  BY Least, Zenon
<1>2. m \in Nat /\ ~\E config : Turns(objects, m, config)
  BY Zenon
<1> HIDE DEF Z
<1>3. CASE m = 0
  <2> DEFINE g == [n \in 0 .. 0 |-> Z]
  <2>1. g = [n \in 0 .. 0 |-> IF n = 0 THEN Z ELSE LoadInstance(g[n - 1], objects[n])]
    OBVIOUS
  <2> QED BY <2>1, <1>2, <1>3, Zenon DEF Turns, Z
<1>4. CASE m # 0
  <2>1. m - 1 \in Nat /\ m - 1 \notin T
    BY <1>1, <1>2, <1>4
  <2>2. PICK h : Turns(objects, m - 1, h)
    BY <2>1, Zenon
  <2> DEFINE last == LoadInstance(h[m - 1], objects[m])
             g == [n \in 0 .. m |-> IF n = m THEN last ELSE h[n]]
             B(n) == IF n = 0 THEN Z ELSE LoadInstance(g[n - 1], objects[n])
  <2>3. h = [n \in 0 .. m - 1 |-> IF n = 0 THEN Z ELSE LoadInstance(h[n - 1], objects[n])]
    BY <2>2, Zenon DEF Turns, Z
  <2>4. \A n \in 0 .. m - 1 : h[n] = IF n = 0 THEN Z ELSE LoadInstance(h[n - 1], objects[n])
    BY <2>3, Zenon
  <2>5. \A n \in 0 .. m : g[n] = IF n = m THEN last ELSE h[n]
    BY Zenon
  <2>6. g = [n \in 0 .. m |-> g[n]]
    BY Zenon
  <2> HIDE DEF g
  <2>7. ASSUME NEW n \in 0 .. m  PROVE g[n] = B(n)
    <3>1. CASE n = 0
      <4>1. n # m /\ n \in 0 .. m - 1
        BY <3>1, <1>2, <1>4
      <4> QED BY <3>1, <4>1, <2>4, <2>5
    <3>2. CASE n # 0 /\ n = m
      <4>1. m - 1 \in 0 .. m /\ m - 1 # m
        BY <1>2, <1>4
      <4> QED BY <3>2, <4>1, <2>5
    <3>3. CASE n # 0 /\ n # m
      <4>1. n - 1 \in 0 .. m /\ n - 1 # m /\ n \in 0 .. m - 1
        BY <1>2, <3>3
      <4>2. g[n - 1] = h[n - 1] /\ g[n] = h[n]
        BY <4>1, <2>5, <3>3
      <4> QED BY <3>3, <4>1, <4>2, <2>4
    <3> QED BY <3>1, <3>2, <3>3
  <2>8. g = [n \in 0 .. m |-> B(n)]
    BY <2>6, <2>7, Zenon
  <2> QED BY <2>8, <1>2, ZenonT(40) DEF Turns, Z
<1> QED BY <1>3, <1>4

\* load_json_config gives what the last of its turns gives.
LEMMA LoadTurns ==
  ASSUME NEW A, NEW objects \in Seq(A)
  PROVE  \E config : /\ Turns(objects, Len(objects), config)
                     /\ load_json_config(objects) = config[Len(objects)]
<1>1. Len(objects) \in Nat
  BY LenProperties, Zenon
<1> DEFINE c == CHOOSE config : Turns(objects, Len(objects), config)
<1>2. Turns(objects, Len(objects), c)
  BY <1>1, TurnsExist
<1>3. load_json_config(objects) = c[Len(objects)]
  BY Zenon DEF load_json_config, Turns
<1> QED BY <1>2, <1>3, Zenon

\* Ports that the loop takes as they are converted.
PortsOf(object) ==
  {Converted(object, "tcp_port"), Converted(object, "udp_port")} \subseteq 1 .. PortMax

\* One turn of the loop: what it takes, and exactly when.
LEMMA LoadsOne ==
  ASSUME NEW config, NEW object
  PROVE  LET r == LoadInstance(config, object)
             tcp == Converted(object, "tcp_port")
             udp == Converted(object, "udp_port")
         IN /\ r.ok <=> /\ config.ok /\ Valid(object) /\ PortsOf(object)
                        /\ PortsFree(config.instances, tcp, udp)
            /\ r.ok => \E i : /\ i.tcp_port = tcp /\ i.udp_port = udp
                              /\ r.instances = Append(config.instances, i)
            /\ ~r.ok => r.instances = <<>>
            /\ r.ok \in BOOLEAN
<1> DEFINE r == LoadInstance(config, object)
           T == TcpPort(object)  U == UdpPort(object)
           tcp == T.port  udp == U.port
           at == Converted(object, "tcp_port")  au == Converted(object, "udp_port")
           strings == /\ \A key \in {"name", "ovpn", "password"} : required_string(object, key)
                      /\ \A key \in {"listen_host", "method", "vpn_username", "vpn_password"} :
                           optional_string(object, key)
           rest == /\ object["ovpn"].value \in Files
                   /\ StringOr(object, "method", SupportedMethod) = SupportedMethod
           i == [name |-> object["name"].value, tcp_port |-> tcp, udp_port |-> udp,
                 listen_host |-> StringOr(object, "listen_host", "127.0.0.1")]
           free == PortsFree(config.instances, tcp, udp)
           int == "tcp_port" \in DOMAIN object /\ object["tcp_port"].kind = "int"
<1>1. r = IF strings /\ T.ok /\ U.ok /\ rest /\ config.ok /\ free
          THEN [ok |-> TRUE, instances |-> Append(config.instances, i)]
          ELSE [ok |-> FALSE, instances |-> <<>>]
  BY Zenon DEF LoadInstance
<1>2. i.tcp_port = tcp /\ i.udp_port = udp
  BY Zenon
<1>3. /\ \A json : /\ checked_port(json).ok <=> GetInt(json).int \in 1 .. PortMax
                   /\ checked_port(json).ok => checked_port(json).port = GetInt(json).int
      /\ ~NoPort.ok
  <2>1. ASSUME NEW json
        PROVE  /\ checked_port(json).ok <=> GetInt(json).int \in 1 .. PortMax
               /\ checked_port(json).ok => checked_port(json).port = GetInt(json).int
    <3>1. GetInt(json).int \in 1 .. PortMax => GetInt(json).ok
      <4>1. 0 \notin 1 .. PortMax
        BY Widths
      <4> QED BY <4>1, Zenon DEF GetInt
    <3> QED BY <3>1, Zenon DEF checked_port, NoPort
  <2> QED BY <2>1, Zenon DEF NoPort
<1>4. T.ok <=> int /\ at \in 1 .. PortMax
  BY <1>3, Zenon DEF TcpPort, Converted, JsonPort, Contains
<1>5. T.ok => tcp = at
  BY <1>3, Zenon DEF TcpPort, Converted, JsonPort, Contains
<1>6. T.ok => (U.ok <=> au \in 1 .. PortMax)
  BY <1>3, Zenon DEF UdpPort, TcpPort, Converted, JsonPort, Contains
<1>7. T.ok /\ U.ok => udp = au
  BY <1>3, Zenon DEF UdpPort, TcpPort, Converted, JsonPort, Contains
<1>8. strings /\ rest /\ int <=> Valid(object)
  <2>1. strings /\ rest <=>
          /\ {"name", "ovpn", "password"} \subseteq DOMAIN object
          /\ \A key \in StringKeys \cap DOMAIN object : object[key].kind = "string"
          /\ \A key \in {"name", "password"} : object[key].value # ""
          /\ object["ovpn"].value \in Files
          /\ "method" \in DOMAIN object => object["method"].value = SupportedMethod
    BY FilePaths, Zenon DEF required_string, optional_string, IsString, Contains, StringOr, StringKeys
  <2>2. Valid(object) <=>
          /\ {"name", "ovpn", "password"} \subseteq DOMAIN object
          /\ \A key \in StringKeys \cap DOMAIN object : object[key].kind = "string"
          /\ \A key \in {"name", "password"} : object[key].value # ""
          /\ object["ovpn"].value \in Files
          /\ "method" \in DOMAIN object => object["method"].value = SupportedMethod
          /\ int
    BY Zenon DEF Valid
  <2> HIDE DEF strings, rest, int
  <2> QED BY <2>1, <2>2, Zenon
<1>9. PortsOf(object) <=> at \in 1 .. PortMax /\ au \in 1 .. PortMax
  BY Zenon DEF PortsOf
<1> HIDE DEF r, strings, rest, T, U, i, free, tcp, udp, at, au, int
<1>10. /\ r.ok <=> strings /\ T.ok /\ U.ok /\ rest /\ config.ok /\ free
       /\ r.ok => r.instances = Append(config.instances, i)
       /\ ~r.ok => r.instances = <<>>
       /\ r.ok \in BOOLEAN
  BY <1>1, Zenon
<1>11. T.ok /\ U.ok => (free <=> PortsFree(config.instances, at, au))
  BY <1>5, <1>7 DEF free
<1>12. r.ok <=> config.ok /\ Valid(object) /\ PortsOf(object) /\ PortsFree(config.instances, at, au)
  BY <1>4, <1>6, <1>8, <1>9, <1>10, <1>11
<1>13. r.ok => i.tcp_port = at /\ i.udp_port = au
  BY <1>2, <1>5, <1>7, <1>10, Zenon
<1> QED BY <1>10, <1>12, <1>13, ZenonT(40) DEF r, at, au

DistinctTo(objects, n, key) ==
  \A l, m \in 1 .. n : l # m => Converted(objects[l], key) # Converted(objects[m], key)

\* The first n objects follow the rules.
ObeysTo(objects, n) ==
  /\ objects # <<>> /\ \A m \in 1 .. n : Valid(objects[m]) /\ PortsOf(objects[m])
  /\ DistinctTo(objects, n, "tcp_port") /\ DistinctTo(objects, n, "udp_port")

\* What the first n turns have established.
LoadedTo(objects, n, c) ==
  /\ c.ok \in BOOLEAN
  /\ \E S : c.instances \in Seq(S)
  /\ c.ok <=> ObeysTo(objects, n)
  /\ c.ok => Len(c.instances) = n
  /\ c.ok => \A m \in 1 .. n :
       /\ c.instances[m].tcp_port = Converted(objects[m], "tcp_port")
       /\ c.instances[m].udp_port = Converted(objects[m], "udp_port")

\* One turn of load_json_config keeps what holds of the instances loaded so
\* far.
LEMMA LoadedStep ==
  ASSUME NEW objects, NEW n \in Nat, n # 0, NEW c, LoadedTo(objects, n - 1, c)
  PROVE  LoadedTo(objects, n, LoadInstance(c, objects[n]))
<1> DEFINE object == objects[n]
           r == LoadInstance(c, object)
           tcp == Converted(object, "tcp_port")  udp == Converted(object, "udp_port")
           new == Valid(object) /\ PortsOf(object)
           free == PortsFree(c.instances, tcp, udp)
<1>1. /\ r.ok <=> c.ok /\ new /\ free
      /\ r.ok => \E i : /\ i.tcp_port = tcp /\ i.udp_port = udp
                        /\ r.instances = Append(c.instances, i)
      /\ ~r.ok => r.instances = <<>>
      /\ r.ok \in BOOLEAN
  BY LoadsOne
<1>2. /\ c.ok \in BOOLEAN
      /\ c.ok <=> ObeysTo(objects, n - 1)
      /\ c.ok => Len(c.instances) = n - 1
      /\ c.ok => \A m \in 1 .. n - 1 :
           /\ c.instances[m].tcp_port = Converted(objects[m], "tcp_port")
           /\ c.instances[m].udp_port = Converted(objects[m], "udp_port")
  BY Zenon DEF LoadedTo
<1>3. PICK S : c.instances \in Seq(S)
  BY Zenon DEF LoadedTo
<1>4. n - 1 \in Nat /\ n \in 1 .. n /\ \A m \in 1 .. n : m # n => m \in 1 .. n - 1
  OBVIOUS
<1>5. \A m \in 1 .. n - 1 : m \in 1 .. n /\ m # n
  OBVIOUS
<1>6. PortsOf(object) => tcp # 0 /\ udp # 0
  BY Widths DEF PortsOf
<1> HIDE DEF r, new
<1>7. c.ok /\ new => (free <=> \A m \in 1 .. n - 1 :
                         /\ Converted(objects[m], "tcp_port") # tcp
                         /\ Converted(objects[m], "udp_port") # udp)
  <2> SUFFICES ASSUME c.ok, new  PROVE free <=> \A m \in 1 .. n - 1 :
                         /\ Converted(objects[m], "tcp_port") # tcp
                         /\ Converted(objects[m], "udp_port") # udp
    BY Zenon
  <2>1. udp # 0
    BY <1>6 DEF new
  <2> HIDE DEF tcp, udp
  <2> QED BY <1>2, <2>1 DEF PortsFree
<1>8. r.ok <=> ObeysTo(objects, n)
  <2>1. ASSUME NEW key, NEW p, p = Converted(object, key)
        PROVE  DistinctTo(objects, n, key) <=>
                 /\ DistinctTo(objects, n - 1, key)
                 /\ \A m \in 1 .. n - 1 : Converted(objects[m], key) # p
    BY <1>4, <1>5, <2>1 DEF DistinctTo
  <2>2. (\A m \in 1 .. n : Valid(objects[m]) /\ PortsOf(objects[m])) <=>
          (\A m \in 1 .. n - 1 : Valid(objects[m]) /\ PortsOf(objects[m])) /\ new
    BY <1>4, <1>5, Zenon DEF new
  <2> DEFINE apart(key, p) == \A m \in 1 .. n - 1 : Converted(objects[m], key) # p
  <2>3. /\ DistinctTo(objects, n, "tcp_port")
              <=> DistinctTo(objects, n - 1, "tcp_port") /\ apart("tcp_port", tcp)
        /\ DistinctTo(objects, n, "udp_port")
              <=> DistinctTo(objects, n - 1, "udp_port") /\ apart("udp_port", udp)
    BY <2>1, Zenon
  <2>4. c.ok /\ new => (free <=> apart("tcp_port", tcp) /\ apart("udp_port", udp))
    BY <1>7, Zenon
  <2> HIDE DEF apart, free
  <2>5. ObeysTo(objects, n) <=> /\ ObeysTo(objects, n - 1) /\ new
                               /\ apart("tcp_port", tcp) /\ apart("udp_port", udp)
    BY <2>2, <2>3, Zenon DEF ObeysTo
  <2> QED BY <1>1, <1>2, <2>4, <2>5, Zenon
<1>9. CASE r.ok
  <2>1. PICK i : /\ i.tcp_port = tcp /\ i.udp_port = udp
                 /\ r.instances = Append(c.instances, i)
    BY <1>1, <1>9
  <2>2. c.ok /\ Len(c.instances) = n - 1
    BY <1>1, <1>2, <1>9
  <2> DEFINE R == S \cup {i}
  <2>3. /\ r.instances \in Seq(R) /\ Len(r.instances) = n /\ r.instances[n] = i
        /\ \A m \in 1 .. n - 1 : r.instances[m] = c.instances[m]
    <3>1. c.instances \in Seq(R) /\ i \in R
      BY <1>3, SeqMonotonic
    <3> DEFINE s == c.instances
    <3> HIDE DEF R, s
    <3>2. /\ Append(s, i) \in Seq(R) /\ Len(Append(s, i)) = Len(s) + 1
          /\ \A m \in 1 .. Len(s) : Append(s, i)[m] = s[m]
          /\ Append(s, i)[Len(s) + 1] = i
      BY <3>1, AppendProperties DEF s
    <3>3. Len(s) = n - 1 /\ Len(s) + 1 = n
      BY <2>2 DEF s
    <3> QED BY <3>2, <3>3, <2>1 DEF s
  <2> HIDE DEF R
  <2>4. ASSUME NEW m \in 1 .. n
        PROVE  /\ r.instances[m].tcp_port = Converted(objects[m], "tcp_port")
               /\ r.instances[m].udp_port = Converted(objects[m], "udp_port")
    <3>1. CASE m = n
      BY <3>1, <2>1, <2>3
    <3>2. CASE m # n
      BY <3>2, <1>2, <1>4, <2>2, <2>3
    <3> QED BY <3>1, <3>2
  <2> QED BY <1>1, <1>8, <1>9, <2>3, <2>4, ZenonT(40) DEF LoadedTo, r
<1>10. CASE ~r.ok
  <2>1. r.instances = <<>> /\ <<>> \in Seq(S)
    BY <1>1, <1>10
  <2> QED BY <1>1, <1>8, <1>10, <2>1, Zenon DEF LoadedTo, r
<1> QED BY <1>1, <1>9, <1>10

\* A handled document was loaded by load_json_config from the whole of it.
LEMMA GivenDocument ==
  ASSUME Handled, Done("document")
  PROVE  input.is \in Documents /\ output.config = load_json_config(input.is)
<1>1. output # Nothing /\ input.kind = "document"
  BY DEF Done, Nothing
<1>2. input.is \in Documents
  BY <1>1, Zenon DEF Handled
<1>3. output = [ok |-> TRUE, config |-> load_json_config(input.is)]
  BY <1>1, Zenon DEF Handled
<1> QED BY <1>2, <1>3

\* What holds of the configuration load_json_config gives for any document.
LEMMA Loaded ==
  ASSUME NEW A, NEW objects \in Seq(A)
  PROVE  LoadedTo(objects, Len(objects), load_json_config(objects))
<1>0. Len(objects) \in Nat
  BY LenProperties
<1>1. PICK config : /\ Turns(objects, Len(objects), config)
                    /\ load_json_config(objects) = config[Len(objects)]
  BY LoadTurns, Zenon
<1> DEFINE Z == [ok |-> objects # <<>>, instances |-> <<>>]
<1>2. \A n \in 0 .. Len(objects) :
        config[n] = IF n = 0 THEN Z ELSE LoadInstance(config[n - 1], objects[n])
  <2> HIDE DEF Z
  <2>1. config = [n \in 0 .. Len(objects) |->
                    IF n = 0 THEN Z ELSE LoadInstance(config[n - 1], objects[n])]
    BY <1>1, Zenon DEF Turns, Z
  <2> QED BY <2>1, Zenon
<1>3. LoadedTo(objects, 0, Z)
  <2>1. 1 .. 0 = {} /\ Len(<<>>) = 0 /\ <<>> \in Seq({})
    OBVIOUS
  <2>2. Z.instances = <<>> /\ Z.ok = (objects # <<>>)
    BY Zenon
  <2> HIDE DEF Z
  <2> QED BY <2>1, <2>2, Zenon DEF LoadedTo, ObeysTo, DistinctTo
<1> HIDE DEF Z
<1> DEFINE T == {n \in 0 .. Len(objects) : ~LoadedTo(objects, n, config[n])}
<1>4. T = {}
  <2> SUFFICES ASSUME T # {}  PROVE FALSE
    BY Zenon
  <2>1. T \in SUBSET Nat
    BY <1>0
  <2>2. PICK n \in T : \A m \in T : n <= m
    BY <2>1, Least, Zenon
  <2>3. n \in 0 .. Len(objects) /\ ~LoadedTo(objects, n, config[n])
    BY Zenon
  <2>4. n # 0
    BY <1>2, <1>3, <2>3
  <2>5. n - 1 \in 0 .. Len(objects) /\ n - 1 \notin T /\ n \in Nat
    BY <1>0, <2>2, <2>3, <2>4
  <2>6. LoadedTo(objects, n - 1, config[n - 1])
    BY <2>5, Zenon
  <2>7. config[n] = LoadInstance(config[n - 1], objects[n])
    BY <1>2, <2>3, <2>4
  <2> HIDE DEF T
  <2>8. LoadedTo(objects, n, LoadInstance(config[n - 1], objects[n]))
    BY <2>4, <2>5, <2>6, LoadedStep
  <2> QED BY <2>3, <2>7, <2>8
<1>5. Len(objects) \in 0 .. Len(objects)
  BY <1>0
<1> QED BY <1>1, <1>4, <1>5

\* An int keeps the numbers of ports.
LEMMA NarrowKeepsPorts == \A n \in 1 .. PortMax : Narrow(n) = n
<1> SUFFICES ASSUME NEW n \in 1 .. PortMax  PROVE Narrow(n) = n
  BY Zenon
<1> DEFINE h == IntModulus \div 2
<1>1. /\ PortMax \in Nat /\ IntModulus \in Nat /\ h \in Nat /\ n \in Nat
      /\ 2 * h <= IntModulus /\ IntModulus <= 2 * h + 1 /\ IntModulus > 2 * PortMax
      /\ n <= PortMax
  BY Widths
<1> HIDE DEF h
<1>2. n + h \in Nat /\ n + h < IntModulus /\ (n + h) - h = n
  BY <1>1
<1> DEFINE x == n + h
<1> HIDE DEF x
<1>3. x % IntModulus = x
  BY <1>1, <1>2 DEF x
<1> QED BY <1>2, <1>3 DEF Narrow, h, x

\* A port that is written as one is the port it is converted to.
LEMMA WrittenConverted ==
  ASSUME NEW object, NEW key, Written(object, key) \in 1 .. PortMax
  PROVE  Converted(object, key) = Written(object, key)
<1> DEFINE json == JsonPort(object, key)
<1>1. 0 \notin 1 .. PortMax
  BY Widths
<1>2. json.kind = "int" /\ Written(object, key) = json.value
  BY <1>1, Zenon DEF Written
<1>3. GetInt(json) = [ok |-> TRUE, int |-> Narrow(json.value)]
  BY <1>2, Zenon DEF GetInt
<1>4. Narrow(json.value) = json.value
  BY <1>2, NarrowKeepsPorts, Zenon
<1>5. GetInt(json).int = json.value
  BY <1>3, <1>4
<1> QED BY <1>2, <1>5, Zenon DEF Converted

\* load_json_config accepts exactly the documents that follow the manual's rules
\* once their ports are ints, however many instances they have and whatever keys
\* and numbers they hold; those that follow them as written are among them, and
\* keep their ports.
THEOREM ConfigRules == Spec => []ConfigFollowsRules
<1>1. Handled => ConfigFollowsRules
  <2> SUFFICES ASSUME Handled, Done("document")  PROVE ConfigFollowsRules
    BY Zenon DEF ConfigFollowsRules
  <2> DEFINE doc == input.is  c == output.config
  <2>1. doc \in Documents /\ c = load_json_config(doc)
    BY GivenDocument, Zenon
  <2>2. doc \in Seq({doc[n] : n \in DOMAIN doc})
    BY <2>1, JsonDocuments, Zenon
  <2> DEFINE A == {doc[n] : n \in DOMAIN doc}
  <2> HIDE DEF doc, c, A
  <2>3. LoadedTo(doc, Len(doc), c)
    BY <2>1, <2>2, Loaded DEF A
  <2>4. ObeysTo(doc, Len(doc)) <=> Obeys(doc, Converted)
    BY Zenon DEF ObeysTo, Obeys, DistinctTo, PortsOf
  <2>5. /\ c.ok <=> Obeys(doc, Converted)
        /\ c.ok => Len(c.instances) = Len(doc)
        /\ c.ok => \A n \in 1 .. Len(doc) :
             /\ c.instances[n].tcp_port = Converted(doc[n], "tcp_port")
             /\ c.instances[n].udp_port = Converted(doc[n], "udp_port")
    BY <2>3, <2>4, Zenon DEF LoadedTo
  <2>6. ASSUME Obeys(doc, Written)
        PROVE  /\ Obeys(doc, Converted)
               /\ \A n \in 1 .. Len(doc), key \in {"tcp_port", "udp_port"} :
                    Converted(doc[n], key) = Written(doc[n], key)
    <3>1. ASSUME NEW n \in 1 .. Len(doc), NEW key \in {"tcp_port", "udp_port"}
          PROVE  /\ Written(doc[n], key) \in 1 .. PortMax
                 /\ \A m \in 1 .. Len(doc) :
                      m # n => Written(doc[m], key) # Written(doc[n], key)
      BY <2>6, Zenon DEF Obeys
    <3>2. ASSUME NEW n \in 1 .. Len(doc), NEW key \in {"tcp_port", "udp_port"}
          PROVE  Converted(doc[n], key) = Written(doc[n], key)
      BY <3>1, WrittenConverted, Zenon
    <3>3. doc # <<>> /\ \A n \in 1 .. Len(doc) : Valid(doc[n])
      BY <2>6, Zenon DEF Obeys
    <3>4. ASSUME NEW n \in 1 .. Len(doc), NEW key \in {"tcp_port", "udp_port"}
          PROVE  /\ Converted(doc[n], key) \in 1 .. PortMax
                 /\ \A m \in 1 .. Len(doc) :
                      m # n => Converted(doc[m], key) # Converted(doc[n], key)
      BY <3>1, <3>2
    <3>5. Obeys(doc, Converted)
      BY <3>3, <3>4, Zenon DEF Obeys
    <3> QED BY <3>2, <3>5, Zenon
  <2>7. Obeys(doc, Written) =>
          /\ c.ok
          /\ \A n \in 1 .. Len(doc) :
               /\ c.instances[n].tcp_port = Written(doc[n], "tcp_port")
               /\ c.instances[n].udp_port = Written(doc[n], "udp_port")
    BY <2>5, <2>6, Zenon
  <2> QED BY <2>5, <2>7, Zenon DEF ConfigFollowsRules, doc, c
<1> QED BY <1>1, EachHandled, PTL
=============================================================================
