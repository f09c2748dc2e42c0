-------------------------- MODULE DnsMessageProofs --------------------------
(***************************************************************************)
(* Proofs about the DNS messages of the codecs, for all hosts, names and   *)
(* records: the query that make_dns_query writes, and the address that     *)
(* parse_dns_response takes from an answer.                                *)
(*                                                                         *)
(* A loop is followed from its end: its turns exist, each depends on the   *)
(* ones behind it only, and a claim about all of them has no least number  *)
(* of turns for which it fails.                                            *)
(***************************************************************************)
EXTENDS Codecs, TLAPS

-----------------------------------------------------------------------------
(* Sequences, words and least numbers. *)

\* What the provers know of sequences, for the steps that are not theirs.
LEMMA LenProperties ==
  ASSUME NEW S, NEW s \in Seq(S)
  PROVE  Len(s) \in Nat /\ DOMAIN s = 1 .. Len(s) /\ s \in [1 .. Len(s) -> S]
OBVIOUS

\* The elements of a sequence are of its set.
LEMMA ElementOfSeq ==
  ASSUME NEW S, NEW s \in Seq(S), NEW i \in 1 .. Len(s)
  PROVE  s[i] \in S
OBVIOUS

\* Only the empty sequence has no elements.
LEMMA EmptySeq ==
  ASSUME NEW S
  PROVE  /\ <<>> \in Seq(S) /\ Len(<<>>) = 0
         /\ \A s \in Seq(S) : s # <<>> => Len(s) \in Nat \ {0}
OBVIOUS

\* Sequences with the same elements are the same.
LEMMA SeqEqual ==
  ASSUME NEW S, NEW s \in Seq(S), NEW t \in Seq(S), Len(s) = Len(t),
         \A i \in 1 .. Len(s) : s[i] = t[i]
  PROVE  s = t
OBVIOUS

\* The elements of a concatenation are those of the one and then of the other.
LEMMA ConcatProperties ==
  ASSUME NEW S, NEW s \in Seq(S), NEW t \in Seq(S)
  PROVE  /\ s \o t \in Seq(S) /\ Len(s \o t) = Len(s) + Len(t)
         /\ \A i \in 1 .. Len(s) + Len(t) :
              (s \o t)[i] = IF i <= Len(s) THEN s[i] ELSE t[i - Len(s)]
OBVIOUS

\* It does not matter which of three sequences are joined first.
LEMMA ConcatAssociative ==
  ASSUME NEW S, NEW s \in Seq(S), NEW t \in Seq(S), NEW u \in Seq(S)
  PROVE  (s \o t) \o u = s \o (t \o u)
OBVIOUS

\* A part of a sequence has the elements between its bounds.
LEMMA SubSeqProperties ==
  ASSUME NEW S, NEW s, NEW m \in Int, NEW n \in Int, \A i \in m .. n : s[i] \in S
  PROVE  /\ SubSeq(s, m, n) \in Seq(S)
         /\ Len(SubSeq(s, m, n)) = IF m <= n THEN n - m + 1 ELSE 0
         /\ \A i \in 1 .. n - m + 1 : SubSeq(s, m, n)[i] = s[m + i - 1]
OBVIOUS

\* First and After are the two parts of a sequence: as long as asked, with the
\* elements in place.
LEMMA Parted ==
  ASSUME NEW S, NEW s \in Seq(S), NEW n \in 0 .. Len(s)
  PROVE  /\ First(s, n) \in Seq(S) /\ Len(First(s, n)) = n
         /\ \A i \in 1 .. n : First(s, n)[i] = s[i]
         /\ After(s, n) \in Seq(S) /\ Len(After(s, n)) = Len(s) - n
         /\ \A i \in 1 .. Len(s) - n : After(s, n)[i] = s[n + i]
         /\ First(s, n) \o After(s, n) = s
<1>0. Len(s) \in Nat /\ \A i \in 1 .. Len(s) : s[i] \in S
  BY LenProperties, ElementOfSeq, Zenon
<1>1. /\ First(s, n) \in Seq(S) /\ Len(First(s, n)) = n
      /\ \A i \in 1 .. n : First(s, n)[i] = s[i]
  <2>1. \A i \in 1 .. n : s[i] \in S
    BY <1>0
  <2>2. /\ First(s, n) \in Seq(S)
        /\ Len(First(s, n)) = IF 1 <= n THEN n - 1 + 1 ELSE 0
        /\ \A i \in 1 .. n - 1 + 1 : First(s, n)[i] = s[1 + i - 1]
    BY <2>1, <1>0, SubSeqProperties DEF First
  <2> QED BY <2>2, <1>0
<1>2. /\ After(s, n) \in Seq(S) /\ Len(After(s, n)) = Len(s) - n
      /\ \A i \in 1 .. Len(s) - n : After(s, n)[i] = s[n + i]
  <2>1. \A i \in n + 1 .. Len(s) : s[i] \in S
    BY <1>0
  <2>2. /\ After(s, n) \in Seq(S)
        /\ Len(After(s, n)) = IF n + 1 <= Len(s) THEN Len(s) - (n + 1) + 1 ELSE 0
        /\ \A i \in 1 .. Len(s) - (n + 1) + 1 : After(s, n)[i] = s[(n + 1) + i - 1]
    BY <2>1, <1>0, SubSeqProperties DEF After
  <2> QED BY <2>2, <1>0
<1>3. First(s, n) \o After(s, n) = s
  <2> DEFINE c == First(s, n) \o After(s, n)
  <2>1. /\ c \in Seq(S) /\ Len(c) = n + (Len(s) - n)
        /\ \A i \in 1 .. n + (Len(s) - n) :
             c[i] = IF i <= n THEN First(s, n)[i] ELSE After(s, n)[i - n]
    BY <1>1, <1>2, ConcatProperties
  <2> HIDE DEF c
  <2>2. Len(c) = Len(s)
    BY <2>1, <1>0
  <2>3. ASSUME NEW i \in 1 .. Len(c)  PROVE c[i] = s[i]
    <3>1. CASE i <= n
      BY <3>1, <2>1, <2>2, <1>0, <1>1
    <3>2. CASE ~(i <= n)
      <4>1. c[i] = After(s, n)[i - n] /\ i - n \in 1 .. Len(s) - n /\ n + (i - n) = i
        BY <3>2, <2>1, <2>2, <1>0
      <4> QED BY <4>1, <1>2, Zenon
    <3> QED BY <3>1, <3>2, Zenon
  <2>4. c = s
    BY <2>1, <2>2, <2>3, SeqEqual, Zenon
  <2> QED BY <2>4, Zenon DEF c
<1> QED BY <1>1, <1>2, <1>3, Zenon

\* Cutting a concatenation where its parts meet gives the parts back.
LEMMA Joined ==
  ASSUME NEW S, NEW s \in Seq(S), NEW t \in Seq(S)
  PROVE  /\ s \o t \in Seq(S) /\ Len(s \o t) = Len(s) + Len(t)
         /\ First(s \o t, Len(s)) = s /\ After(s \o t, Len(s)) = t
<1> DEFINE c == s \o t
<1>0. Len(s) \in Nat /\ Len(t) \in Nat
  BY LenProperties, Zenon
<1>1. /\ c \in Seq(S) /\ Len(c) = Len(s) + Len(t)
      /\ \A i \in 1 .. Len(s) + Len(t) : c[i] = IF i <= Len(s) THEN s[i] ELSE t[i - Len(s)]
  BY ConcatProperties, Zenon
<1> HIDE DEF c
<1> DEFINE f == First(c, Len(s))  a == After(c, Len(s))
<1>2. Len(s) \in 0 .. Len(c)
  BY <1>0, <1>1
<1>3. /\ f \in Seq(S) /\ Len(f) = Len(s) /\ \A i \in 1 .. Len(s) : f[i] = c[i]
      /\ a \in Seq(S) /\ Len(a) = Len(c) - Len(s)
      /\ \A i \in 1 .. Len(c) - Len(s) : a[i] = c[Len(s) + i]
  BY <1>1, <1>2, Parted, ZenonT(40)
<1> HIDE DEF f, a
<1>4. f = s
  <2>1. \A i \in 1 .. Len(f) : f[i] = s[i]
    BY <1>0, <1>1, <1>3
  <2> QED BY <2>1, <1>3, SeqEqual, Zenon
<1>5. a = t
  <2>1. Len(a) = Len(t)
    BY <1>0, <1>1, <1>3
  <2>2. ASSUME NEW i \in 1 .. Len(a)  PROVE a[i] = t[i]
    <3>1. i \in 1 .. Len(c) - Len(s) /\ Len(s) + i \in 1 .. Len(s) + Len(t)
          /\ ~(Len(s) + i <= Len(s)) /\ (Len(s) + i) - Len(s) = i
      BY <1>0, <1>1, <2>1
    <3> QED BY <3>1, <1>1, <1>3, Zenon
  <2> QED BY <2>1, <2>2, <1>3, SeqEqual, Zenon
<1> QED BY <1>1, <1>4, <1>5, Zenon DEF c, f, a

\* The elements of a piece of a sequence.
LEMMA Piece ==
  ASSUME NEW S, NEW s \in Seq(S), NEW m \in Nat, NEW n \in Nat, m + n <= Len(s)
  PROVE  /\ SubSeq(s, m + 1, m + n) \in Seq(S) /\ Len(SubSeq(s, m + 1, m + n)) = n
         /\ \A i \in 1 .. n : SubSeq(s, m + 1, m + n)[i] = s[m + i]
<1> DEFINE k == m + 1  l == m + n
<1>1. k \in Int /\ l \in Int /\ Len(s) \in Nat
  BY LenProperties
<1>2. \A i \in k .. l : s[i] \in S
  BY <1>1, ElementOfSeq
<1>3. l - k + 1 = n /\ (n # 0 => k <= l) /\ (n = 0 => ~(k <= l)) /\ \A i \in 1 .. n : k + i - 1 = m + i
  OBVIOUS
<1> HIDE DEF k, l
<1>4. /\ SubSeq(s, k, l) \in Seq(S)
      /\ Len(SubSeq(s, k, l)) = IF k <= l THEN l - k + 1 ELSE 0
      /\ \A i \in 1 .. l - k + 1 : SubSeq(s, k, l)[i] = s[k + i - 1]
  BY <1>1, <1>2, SubSeqProperties
<1>5. /\ SubSeq(s, k, l) \in Seq(S) /\ Len(SubSeq(s, k, l)) = n
      /\ \A i \in 1 .. n : SubSeq(s, k, l)[i] = s[m + i]
  BY <1>3, <1>4
<1> QED BY <1>5, Zenon DEF k, l

\* Bytes are put behind one another in any order of putting together.
LEMMA Chained ==
  ASSUME NEW s \in Seq(Byte), NEW t \in Seq(Byte), NEW u \in Seq(Byte)
  PROVE  (s \o t) \o u = s \o (t \o u)
BY ConcatAssociative

\* Two bytes, most significant first, and the word read back from them.
LEMMA PortBytes ==
  ASSUME NEW port \in Word
  PROVE  /\ append_be16(port) \in Seq(Byte) /\ Len(append_be16(port)) = 2
         /\ read_be16(append_be16(port)) = port
<1>1. /\ port \div 256 \in Nat /\ port \div 256 < 256
      /\ port % 256 \in Nat /\ port % 256 < 256
      /\ 256 * (port \div 256) + (port % 256) = port
  BY DEF Word
<1> DEFINE a == port \div 256  b == port % 256
<1> HIDE DEF a, b
<1>2. a \in Byte /\ b \in Byte /\ 256 * a + b = port
  BY <1>1 DEF a, b, Byte
<1>3. /\ <<a, b>> \in Seq(Byte) /\ Len(<<a, b>>) = 2
      /\ <<a, b>>[1] = a /\ <<a, b>>[2] = b
  BY <1>2
<1> QED BY <1>2, <1>3 DEF append_be16, read_be16, a, b

\* A byte before a sequence.
LEMMA Behind ==
  ASSUME NEW S, NEW x \in S, NEW s \in Seq(S)
  PROVE  /\ <<x>> \o s \in Seq(S) /\ Len(<<x>> \o s) = 1 + Len(s)
         /\ <<x>> \o s # <<>> /\ (<<x>> \o s)[1] = x /\ After(<<x>> \o s, 1) = s
<1>1. <<x>> \in Seq(S) /\ Len(<<x>>) = 1 /\ <<x>>[1] = x
  OBVIOUS
<1>2. Len(s) \in Nat
  BY LenProperties, Zenon
<1>3. <<x>> \o s \in Seq(S) /\ Len(<<x>> \o s) = 1 + Len(s) /\ After(<<x>> \o s, 1) = s
  BY <1>1, Joined, Zenon
<1>4. (<<x>> \o s)[1] = x
  <2>1. \A i \in 1 .. 1 + Len(s) : (<<x>> \o s)[i] = IF i <= 1 THEN <<x>>[i] ELSE s[i - 1]
    BY <1>1, ConcatProperties, Zenon
  <2> QED BY <2>1, <1>1, <1>2
<1>5. <<x>> \o s # <<>>
  BY <1>2, <1>3, EmptySeq
<1> QED BY <1>3, <1>4, <1>5, Zenon

\* Every set of naturals has a least member. What follows assumes it, and the
\* end of this module proves it: the theory of well-founded relations is then
\* not before the provers at every step.
WellFounded ==
  \A T \in SUBSET Nat : T # {} => \E n \in T : \A m \in T : n <= m

\* The least member, from which claims about loops follow.
LEMMA Least ==
  ASSUME WellFounded, NEW T \in SUBSET Nat, T # {}
  PROVE  \E n \in T : \A m \in T : n <= m
BY Zenon DEF WellFounded

\* A question and an answer are what the client and the server can send, and the
\* output is their own handler's, or there is none yet.
Handled ==
  /\ input.kind = "question" =>
       /\ input.is \in Questions
       /\ output \in {Nothing,
                     [ok |-> TRUE,
                      query |-> make_dns_query(input.is.id, input.is.host, input.is.qtype)]}
  /\ input.kind = "answer" =>
       /\ input.is \in Answers
       /\ output \in {Nothing,
                     [ok |-> TRUE,
                      ip |-> parse_dns_response(
                               CutAt(Message(input.is, Len(input.is.records)), input.is.cut),
                               input.is.question.id, input.is.question.qtype)]}

\* A question and an answer are handled once, by async_resolve and by dns_recv,
\* from the whole of them.
LEMMA EachHandled == Spec => []Handled
<1>1. Init => Handled
  BY DEF Init, Handled, Given
<1>2. Handled /\ [Next]_vars => Handled'
  <2> SUFFICES ASSUME Handled, [Next]_vars  PROVE Handled'
    BY Zenon
  <2>1. CASE send_to_lwip
    BY <2>1 DEF send_to_lwip, Handled
  <2>2. CASE send_to_client
    BY <2>2 DEF send_to_client, Handled
  <2>3. CASE Ask
    BY <2>3 DEF Ask, Handled
  <2>4. CASE dns_recv
    BY <2>4 DEF dns_recv, Handled
  <2>5. CASE Load
    BY <2>5 DEF Load, Handled
  <2>6. CASE UNCHANGED vars
    BY <2>6, Zenon DEF vars, Handled
  <2> QED BY <2>1, <2>2, <2>3, <2>4, <2>5, <2>6, Zenon DEF Next
<1> QED BY <1>1, <1>2, PTL DEF Spec

\* What holds of the response to a lookup.
LEMMA AnswerSent ==
  ASSUME NEW a \in Answers
  PROVE  /\ a.question.id \in Word /\ a.question.host \in Seq(Byte)
         /\ a.question.qtype \in {DnsTypeA, DnsTypeAaaa} /\ a.question.qtype \in Word
         /\ Len(a.question.host) <= 255 /\ QueryName(a.question.host).ok
         /\ a.id \in Word /\ a.response \in BOOLEAN /\ a.cut \in Nat
         /\ a.bits \in Nat /\ a.bits < 2048 /\ a.rcode \in Nat /\ a.rcode < 16
         /\ Len(a.records) \in Word /\ Len(a.records) \in Nat
<1>1. /\ a.question \in [id : Word, host : Seq(Byte), qtype : {DnsTypeA, DnsTypeAaaa}]
      /\ Len(a.question.host) <= 255 /\ QueryName(a.question.host).ok
      /\ a.id \in Word /\ a.response \in BOOLEAN /\ a.cut \in Nat
      /\ a.bits \in Nat /\ a.bits < 2048 /\ a.rcode \in Nat /\ a.rcode < 16
      /\ Len(a.records) \in Word
  BY ServerAnswers
<1>2. /\ a.question.id \in Word /\ a.question.host \in Seq(Byte)
      /\ a.question.qtype \in {DnsTypeA, DnsTypeAaaa}
  BY <1>1
<1>3. DnsTypeA \in Word /\ DnsTypeAaaa \in Word /\ Word \subseteq Nat
  BY DEF DnsTypeA, DnsTypeAaaa, Word
<1>4. a.question.qtype \in Word /\ Len(a.records) \in Nat
  BY <1>1, <1>2, <1>3
<1> QED BY <1>1, <1>2, <1>4

\* What the search for an address depends on.
LEMMA AnswerSought ==
  ASSUME NEW a \in Answers
  PROVE  Len(a.records) \in Nat /\ a.question.qtype \in {DnsTypeA, DnsTypeAaaa}
BY AnswerSent

\* What holds of each record of the response to a lookup.
LEMMA RecordSent ==
  ASSUME NEW a \in Answers, NEW k \in 1 .. Len(a.records)
  PROVE  Fine(a.records[k])
BY ServerAnswers

-----------------------------------------------------------------------------
(* The name of a query. *)

\* host.find('.', start), or the end of the host: no dot in between.
LEMMA LabelEnd ==
  ASSUME WellFounded, NEW host \in Seq(Byte), NEW start \in Nat, start < Len(host)
  PROVE  LET end == EndOfLabel(host, start) IN
         /\ end \in Nat /\ start <= end /\ end <= Len(host)
         /\ end < Len(host) => host[end + 1] = Dot
         /\ \A i \in start + 1 .. end : host[i] # Dot
<1> DEFINE L == Len(host)
           dots == {i \in start .. L - 1 : host[i + 1] = Dot}
<1>0. L \in Nat
  BY LenProperties, Zenon
<1>1. EndOfLabel(host, start) = IF dots = {} THEN L ELSE CHOOSE i \in dots : \A j \in dots : i <= j
  BY Zenon DEF EndOfLabel
<1> HIDE DEF L
<1>2. CASE dots = {}
  <2>1. ASSUME NEW i \in start + 1 .. L  PROVE host[i] # Dot
    <3>1. i - 1 \in start .. L - 1 /\ (i - 1) + 1 = i
      BY <1>0
    <3> QED BY <3>1, <1>2, Zenon
  <2> QED BY <2>1, <1>0, <1>1, <1>2 DEF L
<1>3. CASE dots # {}
  <2> DEFINE end == CHOOSE i \in dots : \A j \in dots : i <= j
  <2>1. end \in dots /\ \A j \in dots : end <= j
    <3>1. dots \in SUBSET Nat
      BY <1>0
    <3>2. \E i \in dots : \A j \in dots : i <= j
      <4> HIDE DEF dots
      <4> QED BY <3>1, <1>3, Least, Zenon
    <3> HIDE DEF dots
    <3> QED BY <3>2, Zenon
  <2>2. EndOfLabel(host, start) = end
    BY <1>1, <1>3, Zenon
  <2> HIDE DEF end
  <2>3. end \in Nat /\ start <= end /\ end < L /\ host[end + 1] = Dot
    BY <2>1, <1>0
  <2>4. ASSUME NEW i \in start + 1 .. end  PROVE host[i] # Dot
    <3>1. i - 1 \in start .. L - 1 /\ (i - 1) + 1 = i /\ ~(end <= i - 1)
      BY <1>0, <2>3
    <3> QED BY <3>1, <2>1, Zenon
  <2> QED BY <2>2, <2>3, <2>4, <1>0 DEF L
<1> QED BY <1>2, <1>3, Zenon

\* The body of the loop, which goes on behind the label.
Labels(host, from, start) ==
  IF start = Len(host) THEN [ok |-> TRUE, bytes |-> <<>>]
  ELSE LET end == EndOfLabel(host, start)
           len == end - start
           more == IF end = Len(host) THEN [ok |-> TRUE, bytes |-> <<>>]
                   ELSE from[end + 1]
       IN IF BadLabel(len) \/ ~more.ok
          THEN NoAddress
          ELSE [ok |-> TRUE,
                bytes |-> <<len>> \o SubSeq(host, start + 1, end) \o more.bytes]

\* A turn of make_dns_query's loop depends only on the turns behind it.
LEMMA LabelsLocal ==
  ASSUME WellFounded, NEW host \in Seq(Byte), NEW start \in 0 .. Len(host), NEW g, NEW h,
         \A m \in start + 1 .. Len(host) : g[m] = h[m]
  PROVE  Labels(host, g, start) = Labels(host, h, start)
<1>0. Len(host) \in Nat
  BY LenProperties, Zenon
<1>1. CASE start = Len(host)
  BY <1>1, Zenon DEF Labels
<1>2. CASE start # Len(host)
  <2> DEFINE end == EndOfLabel(host, start)
  <2>1. end \in Nat /\ start <= end /\ end <= Len(host)
    BY <1>0, <1>2, LabelEnd
  <2>2. end # Len(host) => g[end + 1] = h[end + 1]
    BY <2>1, <1>0
  <2> HIDE DEF end
  <2> DEFINE mg == IF end = Len(host) THEN [ok |-> TRUE, bytes |-> <<>>] ELSE g[end + 1]
             mh == IF end = Len(host) THEN [ok |-> TRUE, bytes |-> <<>>] ELSE h[end + 1]
             V(m) == IF BadLabel(end - start) \/ ~m.ok THEN NoAddress
                     ELSE [ok |-> TRUE,
                           bytes |-> <<end - start>> \o SubSeq(host, start + 1, end) \o m.bytes]
  <2>3. mg = mh
    BY <2>2, Zenon
  <2>4. Labels(host, g, start) = V(mg) /\ Labels(host, h, start) = V(mh)
    BY <1>2, Zenon DEF Labels, end
  <2> HIDE DEF mg, mh
  <2> QED BY <2>3, <2>4
<1> QED BY <1>1, <1>2, Zenon

\* The turns of make_dns_query's loop over the labels of a host exist.
LEMMA LabelsExist ==
  ASSUME WellFounded, NEW host \in Seq(Byte)
  PROVE  \E from : from = [start \in 0 .. Len(host) |-> Labels(host, from, start)]
<1> DEFINE L == Len(host)
           Upto(k, g) == g = [start \in L - k .. L |-> Labels(host, g, start)]
           T == {k \in 0 .. L : ~\E g : Upto(k, g)}
<1>0. L \in Nat
  BY LenProperties, Zenon
<1>1. T = {}
  <2> SUFFICES ASSUME T # {}  PROVE FALSE
    BY Zenon
  <2>1. PICK k \in T : \A m \in T : k <= m
    <3>1. T \in SUBSET Nat
      BY <1>0
    <3> HIDE DEF T
    <3> QED BY <3>1, Least, Zenon
  <2>2. k \in 0 .. L /\ ~\E g : Upto(k, g)
    BY Zenon
  <2>3. \E h : \A m \in L - k + 1 .. L : h[m] = Labels(host, h, m)
    <3>1. CASE k = 0
      BY <3>1, <1>0
    <3>2. CASE k # 0
      <4>1. k - 1 \in 0 .. L /\ ~(k <= k - 1)
        BY <3>2, <2>2, <1>0
      <4>2. PICK h : Upto(k - 1, h)
        BY <4>1, <2>1, Zenon
      <4>3. L - (k - 1) = L - k + 1
        BY <2>2, <1>0
      <4> HIDE DEF L
      <4>4. \A m \in L - k + 1 .. L : h[m] = Labels(host, h, m)
        BY <4>2, <4>3, Zenon
      <4> QED BY <4>4, Zenon
    <3> QED BY <3>1, <3>2, Zenon
  <2>4. PICK h : \A m \in L - k + 1 .. L : h[m] = Labels(host, h, m)
    BY <2>3, Zenon
  <2> DEFINE g == [start \in L - k .. L |-> Labels(host, h, start)]
  <2>5. \A m \in L - k .. L : g[m] = Labels(host, h, m)
    BY Zenon
  <2>6. \A m \in L - k + 1 .. L : g[m] = h[m]
    BY <2>2, <2>4, <2>5, <1>0
  <2> HIDE DEF g
  <2>7. ASSUME NEW start \in L - k .. L  PROVE g[start] = Labels(host, g, start)
    <3>1. start \in 0 .. Len(host)
      BY <2>2, <1>0
    <3>2. \A m \in start + 1 .. Len(host) : m \in L - k + 1 .. L
      BY <2>2, <1>0
    <3>3. \A m \in start + 1 .. Len(host) : g[m] = h[m]
      BY <3>2, <2>6, Zenon
    <3>4. Labels(host, g, start) = Labels(host, h, start)
      BY <3>1, <3>3, LabelsLocal
    <3> QED BY <3>4, <2>5, Zenon
  <2>8. g = [start \in L - k .. L |-> Labels(host, g, start)]
    <3>1. g = [start \in L - k .. L |-> g[start]]
      BY Zenon DEF g
    <3> QED BY <3>1, <2>7
  <2> QED BY <2>8, <2>2, Zenon
<1>2. L \in 0 .. L /\ L - L = 0
  BY <1>0
<1>3. \E g : Upto(L, g)
  BY <1>1, <1>2
<1> HIDE DEF L
<1>4. \E g : g = [start \in 0 .. L |-> Labels(host, g, start)]
  BY <1>2, <1>3
<1> QED BY <1>4, Zenon DEF L

\* QueryName gives what the turn at the start of the host gives.
LEMMA NameLabels ==
  ASSUME WellFounded, NEW host \in Seq(Byte)
  PROVE  \E from : /\ \A start \in 0 .. Len(host) : from[start] = Labels(host, from, start)
                   /\ QueryName(host) = from[0]
<1> DEFINE f == CHOOSE from : from = [start \in 0 .. Len(host) |-> Labels(host, from, start)]
<1>1. f = [start \in 0 .. Len(host) |-> Labels(host, f, start)]
  BY LabelsExist, Zenon
<1>2. QueryName(host) = f[0]
  BY Zenon DEF QueryName, Labels
<1> HIDE DEF f
<1>3. \A start \in 0 .. Len(host) : f[start] = Labels(host, f, start)
  BY <1>1, Zenon
<1> QED BY <1>2, <1>3

\* Unnameable, from a place on.
BadFrom(host, start) ==
  \/ \E k \in start + 1 .. Len(host) :
       host[k] = Dot /\ (k = start + 1 \/ host[k - 1] = Dot)
  \/ \E k \in start + 1 .. Len(host) - MaxLabel :
       \A j \in k .. k + MaxLabel : host[j] # Dot

\* Where the next label starts.
Behind1(host, end) == IF end = Len(host) THEN end ELSE end + 1

\* A host has a bad label from a place on when the first label there is bad or
\* one behind it is.
LEMMA BadStep ==
  ASSUME WellFounded, NEW host \in Seq(Byte), NEW start \in Nat, start < Len(host)
  PROVE  LET end == EndOfLabel(host, start) IN
         BadFrom(host, start) <=> BadLabel(end - start) \/ BadFrom(host, Behind1(host, end))
<1> DEFINE end == EndOfLabel(host, start)
           next == Behind1(host, end)
           L == Len(host)
<1>0. L \in Nat /\ MaxLabel \in Nat /\ MaxLabel >= 1
  BY LenProperties, LabelLength
<1>1. /\ end \in Nat /\ start <= end /\ end <= L
      /\ end < L => host[end + 1] = Dot
      /\ \A i \in start + 1 .. end : host[i] # Dot
  BY LabelEnd, Zenon
<1>2. start < L
  BY Zenon
<1> HIDE DEF end, L
<1>3. next \in Nat /\ (end = L => next = L) /\ (end # L => next = end + 1)
  BY <1>1 DEF Behind1, L
<1> HIDE DEF next
<1>4. ASSUME BadLabel(end - start)  PROVE BadFrom(host, start)
  <2>1. CASE end - start = 0
    <3>1. end = start /\ end < L
      BY <2>1, <1>1, <1>2
    <3>2. host[start + 1] = Dot /\ start + 1 \in start + 1 .. L
      BY <3>1, <1>0, <1>1
    <3> QED BY <3>2, Zenon DEF BadFrom, L
  <2>2. CASE end - start > MaxLabel
    <3> DEFINE k == start + 1
    <3>1. k \in start + 1 .. L - MaxLabel /\ \A j \in k .. k + MaxLabel : j \in start + 1 .. end
      BY <2>2, <1>0, <1>1
    <3>2. \A j \in k .. k + MaxLabel : host[j] # Dot
      BY <3>1, <1>1
    <3> QED BY <3>1, <3>2 DEF BadFrom, L
  <2> QED BY <1>4, <2>1, <2>2 DEF BadLabel
<1>5. ASSUME BadFrom(host, next)  PROVE BadFrom(host, start)
  <2>1. CASE \E k \in next + 1 .. L : host[k] = Dot /\ (k = next + 1 \/ host[k - 1] = Dot)
    <3>1. PICK k \in next + 1 .. L : host[k] = Dot /\ (k = next + 1 \/ host[k - 1] = Dot)
      BY <2>1
    <3>2. end # L /\ next = end + 1 /\ end < L /\ k \in start + 1 .. L
      BY <1>0, <1>1, <1>3
    <3>3. host[k - 1] = Dot
      <4>1. CASE k = next + 1
        <5>1. k - 1 = end + 1
          BY <4>1, <3>2, <1>1
        <5> QED BY <5>1, <3>2, <1>1
      <4> QED BY <4>1, <3>1
    <3> QED BY <3>1, <3>2, <3>3 DEF BadFrom, L
  <2>2. CASE \E k \in next + 1 .. L - MaxLabel : \A j \in k .. k + MaxLabel : host[j] # Dot
    <3>1. PICK k \in next + 1 .. L - MaxLabel : \A j \in k .. k + MaxLabel : host[j] # Dot
      BY <2>2
    <3>2. k \in start + 1 .. L - MaxLabel
      BY <1>0, <1>1, <1>3
    <3> QED BY <3>1, <3>2 DEF BadFrom, L
  <2> QED BY <1>5, <2>1, <2>2 DEF BadFrom, L
<1>6. ASSUME NEW k \in start + 1 .. L, host[k] = Dot, k = start + 1 \/ host[k - 1] = Dot
      PROVE  BadLabel(end - start) \/ BadFrom(host, next)
  <2>1. ~(k <= end)
    BY <1>1, <1>6
  <2>2. CASE k = start + 1
    <3>1. end - start = 0
      BY <2>1, <2>2, <1>1
    <3> QED BY <3>1, Zenon DEF BadLabel
  <2>3. CASE k # start + 1
    <3>1. host[k - 1] = Dot /\ k - 1 \in Nat /\ k - 1 >= start + 1
      BY <2>3, <1>6
    <3>2. ~(k - 1 <= end)
      BY <3>1, <1>1
    <3>3. end # L /\ next = end + 1 /\ k \in next + 1 .. L
      BY <3>1, <3>2, <1>0, <1>1, <1>3
    <3> QED BY <3>1, <3>3, <1>6 DEF BadFrom, L
  <2> QED BY <2>2, <2>3
<1>7. ASSUME NEW k \in start + 1 .. L - MaxLabel, \A j \in k .. k + MaxLabel : host[j] # Dot
      PROVE  BadLabel(end - start) \/ BadFrom(host, next)
  <2>1. end < L => ~(end + 1 \in k .. k + MaxLabel)
    BY <1>1, <1>7, Zenon
  <2>2. CASE k <= end
    <3>1. k + MaxLabel <= end
      BY <2>1, <2>2, <1>0, <1>1
    <3>2. end - start > MaxLabel
      BY <3>1, <1>0, <1>1
    <3> QED BY <3>2, Zenon DEF BadLabel
  <2>3. CASE ~(k <= end)
    <3>1. end # L /\ k # end + 1
      BY <2>1, <2>3, <1>0, <1>1
    <3>2. next = end + 1 /\ k \in next + 1 .. L - MaxLabel
      BY <3>1, <2>3, <1>0, <1>1, <1>3
    <3> QED BY <3>2, <1>7 DEF BadFrom, L
  <2> QED BY <2>2, <2>3, Zenon
<1>8. BadFrom(host, start) => BadLabel(end - start) \/ BadFrom(host, next)
  BY <1>6, <1>7 DEF BadFrom, L
<1> QED BY <1>4, <1>5, <1>8 DEF end, next

\* What the labels from a place on hold: they are refused for a bad label, and
\* otherwise each character keeps its place behind the first length.
NamedFrom(host, start, f) ==
  /\ f.ok \in BOOLEAN
  /\ f.ok <=> ~BadFrom(host, start)
  /\ f.ok => /\ f.bytes \in Seq(Byte)
             /\ \A k \in start + 1 .. Len(host) : host[k] # Dot =>
                  /\ k - start + 1 \in 1 .. Len(f.bytes)
                  /\ f.bytes[k - start + 1] = host[k]

\* The bytes of the label of len characters from start on, and of more behind it.
LabelAnd(bytes, host, start, len, more) ==
  /\ bytes \in Seq(Byte) /\ Len(bytes) = 1 + len + Len(more)
  /\ bytes[1] = len
  /\ \A i \in 1 .. len : bytes[1 + i] = host[start + i]
  /\ \A i \in 1 .. Len(more) : bytes[1 + len + i] = more[i]

\* One label and the ones behind it, as make_dns_query appends them.
LEMMA LabelBytes ==
  ASSUME NEW host \in Seq(Byte), NEW start \in Nat, NEW len \in Nat,
         start + len <= Len(host), len \in Byte, NEW more \in Seq(Byte)
  PROVE  LabelAnd(<<len>> \o SubSeq(host, start + 1, start + len) \o more,
                  host, start, len, more)
<1> DEFINE end == start + len
           label == SubSeq(host, start + 1, end)
           head == <<len>> \o label
           bytes == head \o more
<1>0. Len(host) \in Nat /\ len \in Nat /\ Len(more) \in Nat
  BY LenProperties, Zenon
<1>1. /\ label \in Seq(Byte) /\ Len(label) = len
      /\ \A i \in 1 .. len : label[i] = host[start + i]
  BY Piece, ZenonT(40)
<1> HIDE DEF label
<1>2. /\ head \in Seq(Byte) /\ Len(head) = 1 + len /\ head[1] = len
      /\ \A i \in 1 .. len : head[1 + i] = label[i]
  <2>2. head \in Seq(Byte) /\ Len(head) = 1 + len /\ head[1] = len /\ After(head, 1) = label
    BY <1>1, Behind
  <2>3. 1 \in 0 .. Len(head) /\ Len(head) - 1 = len
    BY <2>2, <1>0
  <2> HIDE DEF head
  <2>4. \A i \in 1 .. Len(head) - 1 : After(head, 1)[i] = head[1 + i]
    BY <2>2, <2>3, Parted, Zenon
  <2> QED BY <2>2, <2>3, <2>4
<1> HIDE DEF head
<1>3. /\ bytes \in Seq(Byte) /\ Len(bytes) = Len(head) + Len(more)
      /\ \A i \in 1 .. Len(head) + Len(more) :
           bytes[i] = IF i <= Len(head) THEN head[i] ELSE more[i - Len(head)]
  BY <1>2, ConcatProperties, Zenon
<1> HIDE DEF bytes
<1>4. \A i \in 1 .. 1 + len + Len(more) :
           bytes[i] = IF i <= 1 + len THEN head[i] ELSE more[i - (1 + len)]
  BY <1>2, <1>3
<1>5. Len(bytes) = 1 + len + Len(more) /\ bytes \in Seq(Byte)
  BY <1>2, <1>3
<1>6. bytes[1] = len
  BY <1>0, <1>2, <1>4
<1>7. ASSUME NEW i \in 1 .. len  PROVE bytes[1 + i] = host[start + i]
  <2>1. 1 + i \in 1 .. 1 + len + Len(more) /\ 1 + i <= 1 + len
    BY <1>0
  <2> QED BY <2>1, <1>1, <1>2, <1>4, Zenon
<1>8. ASSUME NEW i \in 1 .. Len(more)  PROVE bytes[1 + len + i] = more[i]
  <2>1. 1 + len + i \in 1 .. 1 + len + Len(more) /\ ~(1 + len + i <= 1 + len)
        /\ (1 + len + i) - (1 + len) = i
    BY <1>0
  <2> QED BY <2>1, <1>4
<1>9. LabelAnd(bytes, host, start, len, more)
  BY <1>5, <1>6, <1>7, <1>8, Zenon DEF LabelAnd
<1> QED BY <1>9, Zenon DEF bytes, head, label

\* One turn of make_dns_query's loop, in terms of the turn behind the label.
LEMMA LabelTurn ==
  ASSUME NEW host \in Seq(Byte), NEW start \in Nat, start < Len(host), NEW from,
         \A s \in 0 .. Len(host) : from[s] = Labels(host, from, s)
  PROVE  LET end == EndOfLabel(host, start)
             len == end - start
             more == from[Behind1(host, end)]
         IN from[start] = IF BadLabel(len) \/ ~more.ok THEN NoAddress
                          ELSE [ok |-> TRUE,
                                bytes |-> <<len>> \o SubSeq(host, start + 1, end) \o more.bytes]
<1> DEFINE end == EndOfLabel(host, start)
           L == Len(host)
           empty == [ok |-> TRUE, bytes |-> <<>>]
           more == IF end = L THEN empty ELSE from[end + 1]
           V(m) == IF BadLabel(end - start) \/ ~m.ok THEN NoAddress
                   ELSE [ok |-> TRUE,
                         bytes |-> <<end - start>> \o SubSeq(host, start + 1, end) \o m.bytes]
<1>0. L \in Nat /\ start \in 0 .. L /\ L \in 0 .. L /\ start # L
  BY LenProperties
<1>1. from[start] = Labels(host, from, start) /\ from[L] = Labels(host, from, L)
  BY <1>0, Zenon
<1>2. Labels(host, from, start) = V(more)
  BY <1>0, Zenon DEF Labels
<1>3. Labels(host, from, L) = empty
  BY Zenon DEF Labels
<1>4. more = from[Behind1(host, end)]
  BY <1>1, <1>3 DEF Behind1
<1> HIDE DEF more
<1> QED BY <1>1, <1>2, <1>4

\* What make_dns_query's loop gives from every place of a host on.
LEMMA Named ==
  ASSUME WellFounded, NEW host \in Seq(Byte), NEW from,
         \A s \in 0 .. Len(host) : from[s] = Labels(host, from, s)
  PROVE  \A start \in 0 .. Len(host) : NamedFrom(host, start, from[start])
<1> DEFINE L == Len(host)
           T == {k \in 0 .. L : ~NamedFrom(host, L - k, from[L - k])}
<1>0. L \in Nat
  BY LenProperties, Zenon
<1>1. ASSUME NEW k \in T, \A m \in T : k <= m  PROVE FALSE
  <2> DEFINE start == L - k
  <2>1. k \in 0 .. L /\ start \in Nat /\ start <= L /\ ~NamedFrom(host, start, from[start])
    BY <1>0
  <2>2. ASSUME NEW s \in Nat, start < s, s <= L  PROVE NamedFrom(host, s, from[s])
    <3> DEFINE m == L - s
    <3>1. m \in 0 .. L /\ L - m = s /\ ~(k <= m)
      BY <2>1, <2>2, <1>0
    <3>2. m \notin T
      BY <3>1, <1>1
    <3> HIDE DEF m
    <3> QED BY <3>1, <3>2, Zenon
  <2> HIDE DEF start, T
  <2>3. CASE start = L
    <3>1. from[start] = [ok |-> TRUE, bytes |-> <<>>]
      <4>1. start \in 0 .. Len(host) /\ start = Len(host)
        BY <2>1, <2>3, <1>0
      <4>2. from[start] = Labels(host, from, start)
        BY <4>1
      <4> QED BY <4>1, <4>2 DEF Labels
    <3>2. L + 1 .. L = {} /\ L + 1 .. L - MaxLabel = {}
      BY <1>0, LabelLength
    <3>3. ~BadFrom(host, L)
      BY <3>2, Zenon DEF BadFrom
    <3> QED BY <3>1, <3>2, <3>3, <2>1, <2>3 DEF NamedFrom
  <2>4. CASE start # L
    <3> DEFINE end == EndOfLabel(host, start)
               len == end - start
               next == Behind1(host, end)
               more == from[next]
               bytes == <<len>> \o SubSeq(host, start + 1, end) \o more.bytes
    <3>0. start < Len(host)
      BY <2>1, <2>4, <1>0
    <3>1. /\ end \in Nat /\ start <= end /\ end <= L
          /\ end < L => host[end + 1] = Dot
          /\ \A i \in start + 1 .. end : host[i] # Dot
      BY <3>0, <2>1, LabelEnd
    <3>2. BadFrom(host, start) <=> BadLabel(len) \/ BadFrom(host, next)
      BY <3>0, <2>1, BadStep
    <3>3. from[start] = IF BadLabel(len) \/ ~more.ok THEN NoAddress
                        ELSE [ok |-> TRUE, bytes |-> bytes]
      BY <3>0, <2>1, LabelTurn, Zenon
    <3> HIDE DEF end
    <3>4. next \in Nat /\ start < next /\ next <= L /\ (end # L => next = end + 1)
      <4>1. CASE end = L
        <5>1. next = L
          BY <4>1, Zenon DEF Behind1
        <5> QED BY <5>1, <4>1, <3>0, <1>0
      <4>2. CASE end # L
        <5>1. next = end + 1
          BY <4>2, Zenon DEF Behind1
        <5> QED BY <5>1, <4>2, <3>1, <2>1, <1>0
      <4> QED BY <4>1, <4>2
    <3> HIDE DEF next, bytes
    <3>5. NamedFrom(host, next, more)
      BY <3>4, <2>2
    <3> HIDE DEF more
    <3>6. more.ok \in BOOLEAN /\ (more.ok <=> ~BadFrom(host, next))
      BY <3>5, Zenon DEF NamedFrom
    <3>7. CASE BadLabel(len) \/ ~more.ok
      <4>1. from[start] = NoAddress /\ NoAddress.ok = FALSE
        BY <3>3, <3>7 DEF NoAddress
      <4>2. BadFrom(host, start)
        BY <3>2, <3>6, <3>7
      <4> QED BY <4>1, <4>2, <2>1, Zenon DEF NamedFrom
    <3>8. CASE ~(BadLabel(len) \/ ~more.ok)
      <4>1. from[start] = [ok |-> TRUE, bytes |-> bytes]
        BY <3>3, <3>8, Zenon
      <4>2. ~BadFrom(host, start)
        BY <3>2, <3>6, <3>8
      <4>3. /\ more.bytes \in Seq(Byte)
            /\ \A k_1 \in next + 1 .. L : host[k_1] # Dot =>
                 /\ k_1 - next + 1 \in 1 .. Len(more.bytes)
                 /\ more.bytes[k_1 - next + 1] = host[k_1]
        BY <3>5, <3>8 DEF NamedFrom
      <4> DEFINE mb == more.bytes
      <4>0. end = start + len
        BY <3>1, <2>1
      <4>4. len \in Nat /\ len \in Byte /\ Len(mb) \in Nat
        <5>1. len \in Nat /\ len <= MaxLabel
          BY <3>1, <3>8, <2>1, LabelLength DEF BadLabel
        <5>2. Len(mb) \in Nat
          BY <4>3, LenProperties
        <5> QED BY <5>1, <5>2, LabelLength DEF Byte
      <4>5. /\ bytes \in Seq(Byte) /\ Len(bytes) = 1 + len + Len(mb)
            /\ \A i \in 1 .. len : bytes[1 + i] = host[start + i]
            /\ \A i \in 1 .. Len(mb) : bytes[1 + len + i] = mb[i]
        <5>1. mb \in Seq(Byte) /\ start + len <= Len(host)
          BY <4>0, <4>3, <3>1
        <5>2. bytes = <<len>> \o SubSeq(host, start + 1, start + len) \o mb
          BY <4>0, Zenon DEF bytes
        <5> HIDE DEF mb, len
        <5> DEFINE b == <<len>> \o SubSeq(host, start + 1, start + len) \o mb
        <5>3. len \in Nat /\ len \in Byte /\ start \in Nat
          BY <4>4, <2>1
        <5>4. LabelAnd(b, host, start, len, mb)
          BY <5>1, <5>3, LabelBytes, ZenonT(40)
        <5> HIDE DEF b
        <5> QED BY <5>2, <5>4, Zenon DEF b, LabelAnd
      <4> HIDE DEF mb, len
      <4>6. ASSUME NEW i \in start + 1 .. L, host[i] # Dot
            PROVE  i - start + 1 \in 1 .. Len(bytes) /\ bytes[i - start + 1] = host[i]
        <5>1. CASE i <= end
          <6>1. i - start \in 1 .. len /\ 1 + (i - start) = i - start + 1 /\ start + (i - start) = i
                /\ i - start + 1 \in 1 .. 1 + len + Len(mb)
            BY <5>1, <4>0, <4>4, <3>1, <2>1
          <6> QED BY <6>1, <4>5
        <5>2. CASE ~(i <= end)
          <6>1. end < L /\ i # end + 1
            BY <5>2, <4>6, <3>1, <1>0
          <6>2. next = end + 1 /\ i \in next + 1 .. L
            BY <6>1, <5>2, <3>1, <3>4, <1>0
          <6> DEFINE n == i - next + 1
          <6>3. n \in 1 .. Len(mb) /\ mb[n] = host[i]
            BY <6>2, <4>3, <4>6 DEF mb
          <6>4. 1 + len + n = i - start + 1 /\ i - start + 1 \in 1 .. 1 + len + Len(mb)
            <7>1. n \in Nat /\ n >= 1 /\ n <= Len(mb)
              BY <6>3, <4>4
            <7>2. n = i - end
              BY <6>2, <3>1
            <7> HIDE DEF n
            <7> QED BY <7>1, <7>2, <4>0, <4>4, <3>1, <2>1
          <6> HIDE DEF n
          <6> QED BY <6>3, <6>4, <4>5
        <5> QED BY <5>1, <5>2, Zenon
      <4> QED BY <4>1, <4>2, <4>5, <4>6, <2>1 DEF NamedFrom
    <3> QED BY <3>7, <3>8
  <2> QED BY <2>3, <2>4
<1>2. T = {}
  <2> SUFFICES ASSUME T # {}  PROVE FALSE
    BY Zenon
  <2>1. T \in SUBSET Nat
    BY <1>0
  <2> HIDE DEF T
  <2>2. PICK k \in T : \A m \in T : k <= m
    BY <2>1, Least, Zenon
  <2> QED BY <2>2, <1>1
<1>3. ASSUME NEW start \in 0 .. L  PROVE NamedFrom(host, start, from[start])
  <2> DEFINE k == L - start
  <2>1. k \in 0 .. L /\ L - k = start
    BY <1>0
  <2> HIDE DEF k
  <2> QED BY <2>1, <1>2
<1> QED BY <1>3, Zenon

-----------------------------------------------------------------------------
(* skip_dns_name. *)

\* The body of the loop at an offset, for every number of labels before it.
SkipAt(packet, skip, o) ==
  [jumps \in 0 .. MaxJumps |->
     IF o = Len(packet) THEN Failed
     ELSE LET len == ByteAt(packet, o) IN
          CASE len >= 192 ->
                 IF o + 1 >= Len(packet) THEN Failed
                 ELSE [ok |-> TRUE, offset |-> o + 2]
            [] len >= 64 /\ len < 192 -> Failed
            [] len = 0 -> [ok |-> TRUE, offset |-> o + 1]
            [] OTHER -> IF o + 1 + len > Len(packet) \/ jumps = MaxJumps THEN Failed
                        ELSE skip[o + 1 + len][jumps + 1]]

\* A byte inside a packet is read as it is.
LEMMA ByteOf ==
  ASSUME NEW packet \in Seq(Byte), NEW o \in Nat, o < Len(packet)
  PROVE  /\ ByteAt(packet, o) = packet[o + 1]
         /\ ByteAt(packet, o) \in Byte /\ ByteAt(packet, o) \in Nat
<1>1. o + 1 \in 1 .. Len(packet)
  BY LenProperties
<1>2. packet[o + 1] \in Byte
  BY <1>1, ElementOfSeq, Zenon
<1> QED BY <1>2, Zenon DEF ByteAt, Byte

\* A turn of skip_dns_name depends only on the turns at later offsets.
LEMMA SkipLocal ==
  ASSUME NEW packet \in Seq(Byte), NEW o \in 0 .. Len(packet), NEW g, NEW h,
         \A m \in o + 1 .. Len(packet) : g[m] = h[m]
  PROVE  SkipAt(packet, g, o) = SkipAt(packet, h, o)
<1>0. Len(packet) \in Nat
  BY LenProperties
<1>1. CASE o = Len(packet)
  BY <1>1 DEF SkipAt
<1>2. CASE o # Len(packet)
  <2> DEFINE len == ByteAt(packet, o)
  <2>1. len \in Nat
    BY <1>0, <1>2, ByteOf
  <2> HIDE DEF len
  <2> DEFINE V(s, j) ==
        CASE len >= 192 -> IF o + 1 >= Len(packet) THEN Failed
                           ELSE [ok |-> TRUE, offset |-> o + 2]
          [] len >= 64 /\ len < 192 -> Failed
          [] len = 0 -> [ok |-> TRUE, offset |-> o + 1]
          [] OTHER -> IF o + 1 + len > Len(packet) \/ j = MaxJumps THEN Failed
                      ELSE s[o + 1 + len][j + 1]
  <2>2. ASSUME NEW j \in 0 .. MaxJumps  PROVE V(g, j) = V(h, j)
    <3>1. CASE o + 1 + len > Len(packet)
      BY <3>1
    <3>2. CASE ~(o + 1 + len > Len(packet))
      <4>1. g[o + 1 + len] = h[o + 1 + len]
        BY <3>2, <2>1, <1>0
      <4> QED BY <4>1
    <3> QED BY <3>1, <3>2, Zenon
  <2>3. /\ SkipAt(packet, g, o) = [j \in 0 .. MaxJumps |-> V(g, j)]
        /\ SkipAt(packet, h, o) = [j \in 0 .. MaxJumps |-> V(h, j)]
    BY <1>2 DEF SkipAt, len
  <2> HIDE DEF V
  <2> QED BY <2>2, <2>3
<1> QED BY <1>1, <1>2

\* The turns of skip_dns_name over a packet exist.
LEMMA SkipExists ==
  ASSUME WellFounded, NEW packet \in Seq(Byte)
  PROVE  \E skip : skip = [o \in 0 .. Len(packet) |-> SkipAt(packet, skip, o)]
<1> DEFINE L == Len(packet)
           Upto(k, g) == g = [o \in L - k .. L |-> SkipAt(packet, g, o)]
           T == {k \in 0 .. L : ~\E g : Upto(k, g)}
<1>0. L \in Nat
  BY LenProperties
<1>1. T = {}
  <2> SUFFICES ASSUME T # {}  PROVE FALSE
    OBVIOUS
  <2>1. PICK k \in T : \A m \in T : k <= m
    <3>1. T \in SUBSET Nat
      BY <1>0
    <3> HIDE DEF T
    <3> QED BY <3>1, Least
  <2>2. k \in 0 .. L /\ ~\E g : Upto(k, g)
    OBVIOUS
  <2>3. \E h : \A m \in L - k + 1 .. L : h[m] = SkipAt(packet, h, m)
    <3>1. CASE k = 0
      BY <3>1, <1>0
    <3>2. CASE k # 0
      <4>1. k - 1 \in 0 .. L /\ ~(k <= k - 1)
        BY <3>2, <2>2, <1>0
      <4>2. PICK h : Upto(k - 1, h)
        BY <4>1, <2>1, Zenon
      <4>3. L - (k - 1) = L - k + 1
        BY <2>2, <1>0
      <4> HIDE DEF L
      <4>4. \A m \in L - k + 1 .. L : h[m] = SkipAt(packet, h, m)
        BY <4>2, <4>3, Zenon
      <4> QED BY <4>4
    <3> QED BY <3>1, <3>2
  <2>4. PICK h : \A m \in L - k + 1 .. L : h[m] = SkipAt(packet, h, m)
    BY <2>3
  <2> DEFINE g == [o \in L - k .. L |-> SkipAt(packet, h, o)]
  <2>5. \A m \in L - k .. L : g[m] = SkipAt(packet, h, m)
    OBVIOUS
  <2>6. \A m \in L - k + 1 .. L : g[m] = h[m]
    BY <2>2, <2>4, <2>5, <1>0
  <2> HIDE DEF g
  <2>7. ASSUME NEW o \in L - k .. L  PROVE g[o] = SkipAt(packet, g, o)
    <3>1. o \in 0 .. Len(packet)
      BY <2>2, <1>0
    <3>2. \A m \in o + 1 .. Len(packet) : m \in L - k + 1 .. L
      BY <2>2, <1>0
    <3>3. \A m \in o + 1 .. Len(packet) : g[m] = h[m]
      BY <3>2, <2>6
    <3>4. SkipAt(packet, g, o) = SkipAt(packet, h, o)
      BY <3>1, <3>3, SkipLocal
    <3> QED BY <3>4, <2>5
  <2>8. g = [o \in L - k .. L |-> SkipAt(packet, g, o)]
    <3>1. g = [o \in L - k .. L |-> g[o]]
      BY DEF g
    <3> QED BY <3>1, <2>7
  <2> QED BY <2>8, <2>2
<1>2. L \in 0 .. L /\ L - L = 0
  BY <1>0
<1>3. \E g : Upto(L, g)
  BY <1>1, <1>2
<1> HIDE DEF L
<1>4. \E g : g = [o \in 0 .. L |-> SkipAt(packet, g, o)]
  BY <1>2, <1>3
<1> QED BY <1>4 DEF L

\* Turn by turn: the end of the packet, the end of a name, a pointer, a label.
Skips(packet, skip) ==
  \A o \in 0 .. Len(packet), j \in 0 .. MaxJumps :
    IF o = Len(packet) THEN skip[o][j] = Failed ELSE
    LET len == packet[o + 1] IN
    /\ len = 0 => skip[o][j] = [ok |-> TRUE, offset |-> o + 1]
    /\ len >= 192 => skip[o][j] = IF o + 1 >= Len(packet) THEN Failed
                                  ELSE [ok |-> TRUE, offset |-> o + 2]
    /\ len > 0 /\ len < 64 =>
         skip[o][j] = IF o + 1 + len > Len(packet) \/ j = MaxJumps THEN Failed
                      ELSE skip[o + 1 + len][j + 1]

\* skip_dns_name gives what its turn at the offset, before any label, gives.
LEMMA SkipTurns ==
  ASSUME WellFounded, NEW packet \in Seq(Byte)
  PROVE  \E skip : /\ Skips(packet, skip)
                   /\ \A offset : skip_dns_name(packet, offset) = skip[offset][0]
<1> DEFINE f == CHOOSE skip : skip = [o \in 0 .. Len(packet) |-> SkipAt(packet, skip, o)]
           L == Len(packet)
<1>0. L \in Nat /\ MaxJumps \in Nat
  BY LenProperties DEF MaxJumps
<1>1. f = [o \in 0 .. Len(packet) |-> SkipAt(packet, f, o)]
  BY SkipExists, Zenon
<1>2. \A offset : skip_dns_name(packet, offset) = f[offset][0]
  BY Zenon DEF skip_dns_name, SkipAt
<1> HIDE DEF f
<1>3. \A o \in 0 .. Len(packet) : f[o] = SkipAt(packet, f, o)
  BY <1>1
<1>4. ASSUME NEW j \in 0 .. MaxJumps  PROVE f[Len(packet)][j] = Failed
  <2>1. L \in 0 .. L
    BY <1>0
  <2>2. SkipAt(packet, f, L)[j] = Failed
    BY <2>1 DEF SkipAt
  <2> QED BY <2>1, <2>2, <1>3
<1>5. Skips(packet, f)
  <2> SUFFICES ASSUME NEW o \in 0 .. Len(packet), NEW j \in 0 .. MaxJumps, o # Len(packet)
               PROVE  LET len == packet[o + 1] IN
                      /\ len = 0 => f[o][j] = [ok |-> TRUE, offset |-> o + 1]
                      /\ len >= 192 => f[o][j] = IF o + 1 >= Len(packet) THEN Failed
                                                 ELSE [ok |-> TRUE, offset |-> o + 2]
                      /\ len > 0 /\ len < 64 =>
                           f[o][j] = IF o + 1 + len > Len(packet) \/ j = MaxJumps THEN Failed
                                     ELSE f[o + 1 + len][j + 1]
    BY <1>4, Zenon DEF Skips
  <2> DEFINE len == ByteAt(packet, o)
  <2>1. len = packet[o + 1] /\ len \in Nat /\ o # Len(packet)
    BY <1>0, ByteOf
  <2> HIDE DEF len
  <2>2. f[o][j] = CASE len >= 192 -> IF o + 1 >= Len(packet) THEN Failed
                                     ELSE [ok |-> TRUE, offset |-> o + 2]
                    [] len >= 64 /\ len < 192 -> Failed
                    [] len = 0 -> [ok |-> TRUE, offset |-> o + 1]
                    [] OTHER -> IF o + 1 + len > Len(packet) \/ j = MaxJumps THEN Failed
                                ELSE f[o + 1 + len][j + 1]
    <3>1. f[o][j] = SkipAt(packet, f, o)[j]
      BY <1>3
    <3> QED BY <3>1, <2>1 DEF SkipAt, len
  <2>3. len = 0 => f[o][j] = [ok |-> TRUE, offset |-> o + 1]
    BY <2>1, <2>2
  <2>4. len >= 192 => f[o][j] = IF o + 1 >= Len(packet) THEN Failed
                                ELSE [ok |-> TRUE, offset |-> o + 2]
    BY <2>1, <2>2
  <2>5. len > 0 /\ len < 64 =>
          f[o][j] = IF o + 1 + len > Len(packet) \/ j = MaxJumps THEN Failed
                    ELSE f[o + 1 + len][j + 1]
    BY <2>1, <2>2
  <2> QED BY <2>1, <2>3, <2>4, <2>5
<1> QED BY <1>2, <1>5

\* Where the elements of a concatenation are.
LEMMA JoinedAt ==
  ASSUME NEW S, NEW s \in Seq(S), NEW t \in Seq(S)
  PROVE  /\ s \o t \in Seq(S) /\ Len(s \o t) = Len(s) + Len(t)
         /\ \A i \in 1 .. Len(s) : (s \o t)[i] = s[i]
         /\ \A i \in 1 .. Len(t) : (s \o t)[Len(s) + i] = t[i]
<1> DEFINE c == s \o t
<1>0. Len(s) \in Nat /\ Len(t) \in Nat
  BY LenProperties
<1>1. /\ c \in Seq(S) /\ Len(c) = Len(s) + Len(t)
      /\ \A i \in 1 .. Len(s) + Len(t) : c[i] = IF i <= Len(s) THEN s[i] ELSE t[i - Len(s)]
  BY ConcatProperties
<1> HIDE DEF c
<1>2. ASSUME NEW i \in 1 .. Len(s)  PROVE c[i] = s[i]
  BY <1>0, <1>1
<1>3. ASSUME NEW i \in 1 .. Len(t)  PROVE c[Len(s) + i] = t[i]
  <2>1. Len(s) + i \in 1 .. Len(s) + Len(t) /\ ~(Len(s) + i <= Len(s)) /\ Len(s) + i - Len(s) = i
    BY <1>0
  <2>2. c[Len(s) + i] = t[Len(s) + i - Len(s)]
    BY <2>1, <1>1
  <2> QED BY <2>1, <2>2
<1> QED BY <1>1, <1>2, <1>3 DEF c

-----------------------------------------------------------------------------
\* The bytes at an offset of a packet, as far as the packet goes.
HoldsAt(packet, o, w) ==
  \A i \in 1 .. Len(w) : o + i <= Len(packet) => packet[o + i] = w[i]

\* The walk over bytes at an offset ends behind them, or fails with the packet.
Skipped(packet, o, n) ==
  IF o + n <= Len(packet) THEN [ok |-> TRUE, offset |-> o + n] ELSE Failed

\* A name ends in a zero byte or in the two bytes of a pointer.
LEMMA NameEnd ==
  ASSUME NEW e, EndsName(e)
  PROVE  e \in Seq(Byte) /\ Len(e) \in 1 .. 2 /\ e[1] \in Byte
<1>1. CASE e = <<0>>
  BY <1>1 DEF Byte
<1>2. CASE e \in Seq(Byte) /\ Len(e) = 2
  BY <1>2
<1> QED BY <1>1, <1>2 DEF EndsName

\* skip_dns_name at the end of a name, as far as the packet goes.
LEMMA EndSkipped ==
  ASSUME NEW packet \in Seq(Byte), NEW skip, Skips(packet, skip), NEW e, EndsName(e),
         NEW o \in 0 .. Len(packet), NEW j \in 0 .. MaxJumps, HoldsAt(packet, o, e)
  PROVE  skip[o][j] = Skipped(packet, o, Len(e))
<1>0. Len(packet) \in Nat
  BY LenProperties
<1>1. e \in Seq(Byte) /\ Len(e) \in 1 .. 2 /\ e[1] \in Byte
  BY NameEnd
<1>2. CASE o = Len(packet)
  <2>1. skip[o][j] = Failed
    BY <1>2, Zenon DEF Skips
  <2>2. ~(o + Len(e) <= Len(packet))
    BY <1>0, <1>1, <1>2
  <2> QED BY <2>1, <2>2 DEF Skipped
<1>3. CASE o # Len(packet)
  <2>1. packet[o + 1] = e[1]
    <3>1. 1 \in 1 .. Len(e) /\ o + 1 <= Len(packet)
      BY <1>0, <1>1, <1>3
    <3> QED BY <3>1 DEF HoldsAt
  <2>2. /\ e[1] = 0 => skip[o][j] = [ok |-> TRUE, offset |-> o + 1]
        /\ e[1] >= 192 => skip[o][j] = IF o + 1 >= Len(packet) THEN Failed
                                       ELSE [ok |-> TRUE, offset |-> o + 2]
    BY <2>1, <1>3, Zenon DEF Skips
  <2>3. CASE e = <<0>>
    <3>1. Len(e) = 1 /\ e[1] = 0
      BY <2>3
    <3>2. o + 1 <= Len(packet)
      BY <1>0, <1>3
    <3> QED BY <3>1, <3>2, <2>2, Zenon DEF Skipped
  <2>4. CASE Len(e) = 2 /\ e[1] >= 192
    <3>1. (o + 1 >= Len(packet)) <=> ~(o + 2 <= Len(packet))
      BY <1>0
    <3> QED BY <3>1, <2>2, <2>4 DEF Skipped
  <2> QED BY <2>3, <2>4 DEF EndsName
<1> QED BY <1>2, <1>3

\* The labels from a place on and the end of the name, found at an offset of a
\* packet, are walked over, whatever the number of labels before them.
WalkedFrom(host, start, f, e, packet, skip) ==
  f.ok => \A o \in 0 .. Len(packet), j \in Nat :
    HoldsAt(packet, o, f.bytes \o e) /\ j + (Len(host) - start) <= MaxJumps
    => skip[o][j] = Skipped(packet, o, Len(f.bytes) + Len(e))

\* WalkedFrom, at every place of a host.
LEMMA Walked ==
  ASSUME WellFounded, NEW host \in Seq(Byte), NEW from,
         \A s \in 0 .. Len(host) : from[s] = Labels(host, from, s),
         NEW packet \in Seq(Byte), NEW skip, Skips(packet, skip), NEW e, EndsName(e)
  PROVE  \A start \in 0 .. Len(host) : WalkedFrom(host, start, from[start], e, packet, skip)
<1> DEFINE L == Len(host)
           W(s) == WalkedFrom(host, s, from[s], e, packet, skip)
           T == {k \in 0 .. L : ~W(L - k)}
<1>0. L \in Nat /\ Len(packet) \in Nat /\ MaxJumps \in Nat
  BY LenProperties DEF MaxJumps
<1>a. \A start \in 0 .. Len(host) : NamedFrom(host, start, from[start])
  BY Named, Zenon
<1>b. e \in Seq(Byte) /\ Len(e) \in Nat
  BY NameEnd
<1> HIDE DEF W
<1>1. ASSUME NEW k \in T, \A m \in T : k <= m  PROVE FALSE
  <2> DEFINE start == L - k
  <2>1. k \in 0 .. L /\ start \in Nat /\ start <= L /\ ~W(start)
    BY <1>0
  <2>2. ASSUME NEW s \in Nat, start < s, s <= L  PROVE W(s)
    <3> DEFINE m == L - s
    <3>1. m \in 0 .. L /\ L - m = s /\ ~(k <= m)
      BY <2>1, <2>2, <1>0
    <3>2. m \notin T
      BY <3>1, <1>1
    <3> HIDE DEF m
    <3> QED BY <3>1, <3>2
  <2> HIDE DEF start, T
  <2> DEFINE f == from[start]  n == Len(f.bytes)  w == f.bytes \o e
  <2>3. PICK o \in 0 .. Len(packet), j \in Nat :
          /\ f.ok
          /\ HoldsAt(packet, o, w)
          /\ j + (L - start) <= MaxJumps
          /\ skip[o][j] # Skipped(packet, o, n + Len(e))
    BY <2>1 DEF W, WalkedFrom
  <2>4. NamedFrom(host, start, f)
    BY <2>1, <1>0, <1>a
  <2>5. f.bytes \in Seq(Byte) /\ n \in Nat
    <3>1. f.bytes \in Seq(Byte)
      BY <2>3, <2>4 DEF NamedFrom
    <3> QED BY <3>1, LenProperties
  <2>6. o \in Nat /\ o <= Len(packet) /\ j \in 0 .. MaxJumps
    BY <2>1, <2>3, <1>0
  <2>7. CASE start = L
    <3>1. f = [ok |-> TRUE, bytes |-> <<>>]
      <4>1. start \in 0 .. Len(host) /\ start = Len(host)
        BY <2>1, <2>7, <1>0
      <4>2. from[start] = Labels(host, from, start)
        BY <4>1, Zenon
      <4> QED BY <4>1, <4>2 DEF Labels
    <3>2. n = 0 /\ w = e /\ n + Len(e) = Len(e)
      BY <3>1, <1>b
    <3>3. skip[o][j] = Skipped(packet, o, Len(e))
      BY <3>2, <2>3, <2>6, EndSkipped
    <3> QED BY <3>2, <3>3, <2>3
  <2>8. CASE start # L
    <3> DEFINE end == EndOfLabel(host, start)
               len == end - start
               next == Behind1(host, end)
               more == from[next]
               mb == more.bytes
               bytes == <<len>> \o SubSeq(host, start + 1, end) \o mb
    <3>0. start < Len(host)
      BY <2>1, <2>8, <1>0
    <3>1. end \in Nat /\ start <= end /\ end <= L
      BY <3>0, <2>1, LabelEnd
    <3>2. from[start] = IF BadLabel(len) \/ ~more.ok THEN NoAddress
                        ELSE [ok |-> TRUE, bytes |-> bytes]
      BY <3>0, <2>1, LabelTurn, Zenon
    <3> HIDE DEF end
    <3>3. next \in Nat /\ start < next /\ next <= L
      <4>1. CASE end = L
        <5>1. next = L
          BY <4>1 DEF Behind1
        <5> QED BY <5>1, <4>1, <3>0, <1>0
      <4>2. CASE end # L
        <5>1. next = end + 1
          BY <4>2 DEF Behind1
        <5> QED BY <5>1, <4>2, <3>1, <2>1, <1>0
      <4> QED BY <4>1, <4>2
    <3> HIDE DEF next, bytes
    <3>4. ~BadLabel(len) /\ more.ok /\ f.bytes = bytes
      <4>1. ~NoAddress.ok
        BY Zenon DEF NoAddress
      <4> QED BY <4>1, <3>2, <2>3
    <3>5. mb \in Seq(Byte) /\ Len(mb) \in Nat
      <4>1. NamedFrom(host, next, more)
        BY <3>3, <1>0, <1>a
      <4>2. mb \in Seq(Byte)
        BY <4>1, <3>4 DEF NamedFrom
      <4> QED BY <4>2, LenProperties
    <3>6. len \in Nat /\ len > 0 /\ len < 64 /\ len \in Byte /\ end = start + len
      <4>1. len \in Nat /\ len # 0 /\ len <= MaxLabel /\ end = start + len
        BY <3>1, <3>4, <2>1, LabelLength DEF BadLabel
      <4> HIDE DEF len
      <4> QED BY <4>1, LabelLength DEF Byte
    <3>7. W(next)
      BY <3>3, <2>2
    <3> HIDE DEF len, more
    <3>8. /\ n = 1 + len + Len(mb) /\ f.bytes[1] = len
          /\ \A i \in 1 .. Len(mb) : f.bytes[1 + len + i] = mb[i]
      <4> HIDE DEF mb
      <4> DEFINE b == <<len>> \o SubSeq(host, start + 1, start + len) \o mb
      <4>1. start + len <= Len(host)
        BY <3>1, <3>6
      <4>a. mb \in Seq(Byte) /\ len \in Nat /\ len \in Byte /\ start \in Nat
        BY <3>5, <3>6, <2>1
      <4>b. LabelAnd(b, host, start, len, mb)
        BY <4>1, <4>a, LabelBytes, ZenonT(40)
      <4>2. /\ b \in Seq(Byte) /\ Len(b) = 1 + len + Len(mb)
            /\ b[1] = len
            /\ \A i \in 1 .. len : b[1 + i] = host[start + i]
            /\ \A i \in 1 .. Len(mb) : b[1 + len + i] = mb[i]
        BY <4>b, Zenon DEF LabelAnd
      <4>3. f.bytes = b
        BY <3>4, <3>6 DEF bytes
      <4> HIDE DEF b, f
      <4> QED BY <4>2, <4>3
    <3> DEFINE fb == f.bytes  v == mb \o e
    <3>9. /\ fb \in Seq(Byte) /\ Len(fb) = n /\ w = fb \o e
      BY <2>5
    <3> HIDE DEF n, f, mb, fb
    <3>10. /\ w \in Seq(Byte) /\ Len(w) = n + Len(e)
           /\ \A i \in 1 .. n : w[i] = fb[i]
           /\ \A i \in 1 .. Len(e) : w[n + i] = e[i]
      <4> DEFINE u == fb \o e
      <4>1. /\ u \in Seq(Byte) /\ Len(u) = Len(fb) + Len(e)
            /\ \A i \in 1 .. Len(fb) : u[i] = fb[i]
            /\ \A i \in 1 .. Len(e) : u[Len(fb) + i] = e[i]
        <5>1. fb \in Seq(Byte) /\ e \in Seq(Byte)
          BY <3>9, <1>b, Zenon
        <5> QED BY <5>1, JoinedAt
      <4> HIDE DEF u, w
      <4>2. w = u
        BY <3>9 DEF u
      <4> QED BY <4>1, <4>2, <3>9, Zenon
    <3>11. /\ v \in Seq(Byte) /\ Len(v) = Len(mb) + Len(e)
           /\ \A i \in 1 .. Len(mb) : v[i] = mb[i]
           /\ \A i \in 1 .. Len(e) : v[Len(mb) + i] = e[i]
      BY <3>5, <1>b, JoinedAt
    <3>12. /\ n = 1 + len + Len(mb) /\ fb[1] = len
           /\ \A i \in 1 .. Len(mb) : fb[1 + len + i] = mb[i]
      BY <3>8 DEF fb
    <3>13. w[1] = len /\ \A i \in 1 .. Len(v) : w[1 + len + i] = v[i]
      <4> HIDE DEF w, v
      <4>1. w[1] = len
        <5>1. 1 \in 1 .. n
          BY <3>5, <3>6, <3>12
        <5> QED BY <5>1, <3>10, <3>12
      <4>2. ASSUME NEW i \in 1 .. Len(v)  PROVE w[1 + len + i] = v[i]
        <5>1. CASE i \in 1 .. Len(mb)
          <6>1. 1 + len + i \in 1 .. n
            BY <5>1, <3>5, <3>6, <3>12
          <6>2. w[1 + len + i] = fb[1 + len + i]
            BY <6>1, <3>10
          <6> QED BY <5>1, <6>2, <3>11, <3>12
        <5>2. CASE i \notin 1 .. Len(mb)
          <6> DEFINE m == i - Len(mb)
          <6>1. m \in 1 .. Len(e) /\ Len(mb) + m = i /\ n + m = 1 + len + i
            BY <5>2, <3>5, <3>6, <3>11, <3>12, <1>b
          <6> HIDE DEF m
          <6>2. w[n + m] = e[m] /\ v[Len(mb) + m] = e[m]
            BY <6>1, <3>10, <3>11
          <6> QED BY <6>1, <6>2
        <5> QED BY <5>1, <5>2
      <4> QED BY <4>1, <4>2
    <3>14. Len(w) = 1 + len + Len(v) /\ Len(v) \in Nat
      <4> HIDE DEF w, v
      <4> QED BY <3>5, <3>6, <3>10, <3>11, <3>12, <1>b
    <3> DEFINE p == o + 1 + len
    <3>p. p \in Nat /\ p = o + 1 + len
      BY <2>6, <3>6
    <3> HIDE DEF w, v, p
    <3>15. Len(w) = n + Len(e) /\ Len(v) = Len(mb) + Len(e)
      BY <3>10, <3>11
    <3>16. CASE o = Len(packet)
      <4>1. skip[o][j] = Failed
        BY <3>16, <2>6, Zenon DEF Skips
      <4>2. ~(o + (n + Len(e)) <= Len(packet))
        BY <3>14, <3>15, <3>16, <3>6, <1>0
      <4> QED BY <4>1, <4>2, <2>3 DEF Skipped
    <3>17. CASE o # Len(packet)
      <4>1. packet[o + 1] = len
        <5>1. 1 \in 1 .. Len(w) /\ o + 1 <= Len(packet)
          BY <3>14, <3>17, <3>6, <2>6, <1>0
        <5> QED BY <5>1, <3>13, <2>3 DEF HoldsAt
      <4>2. skip[o][j] = IF p > Len(packet) \/ j = MaxJumps THEN Failed ELSE skip[p][j + 1]
        BY <4>1, <3>17, <3>6, <3>p, <2>6, Zenon DEF Skips
      <4>3. j # MaxJumps /\ j + 1 \in Nat /\ (j + 1) + (L - next) <= MaxJumps
        <5>1. j + (L - start) <= MaxJumps
          BY <2>3, Zenon
        <5>2. start \in Nat /\ j \in Nat /\ MaxJumps \in Nat
          BY <2>1, <1>0
        <5> QED BY <5>1, <5>2, <3>3, <1>0
      <4>4. o + (n + Len(e)) = p + (Len(mb) + Len(e))
        <5>1. o + (n + Len(e)) = o + Len(w) /\ p + (Len(mb) + Len(e)) = p + Len(v)
          BY <3>15
        <5>2. o + Len(w) = p + Len(v)
          BY <3>14, <3>p, <3>6, <2>6
        <5> QED BY <5>1, <5>2
      <4>5. CASE p > Len(packet)
        <5>1. ~(o + (n + Len(e)) <= Len(packet))
          BY <4>4, <4>5, <3>14, <3>15, <3>p, <1>0
        <5> QED BY <5>1, <4>2, <4>5, <2>3 DEF Skipped
      <4>6. CASE ~(p > Len(packet))
        <5>1. p \in 0 .. Len(packet)
          BY <4>6, <3>p, <1>0
        <5>2. HoldsAt(packet, p, v)
          <6> SUFFICES ASSUME NEW i \in 1 .. Len(v), p + i <= Len(packet)  PROVE packet[p + i] = v[i]
            BY DEF HoldsAt
          <6>1. 1 + len + i \in 1 .. Len(w) /\ o + (1 + len + i) = p + i
            BY <3>14, <3>p, <3>6, <2>6
          <6>2. packet[o + (1 + len + i)] = w[1 + len + i]
            BY <6>1, <2>3 DEF HoldsAt
          <6> QED BY <6>1, <6>2, <3>13
        <5>3. skip[p][j + 1] = Skipped(packet, p, Len(mb) + Len(e))
          BY <5>1, <5>2, <4>3, <3>4, <3>7 DEF W, WalkedFrom, more, mb, v
        <5>4. Skipped(packet, p, Len(mb) + Len(e)) = Skipped(packet, o, n + Len(e))
          BY <4>4, Zenon DEF Skipped
        <5> QED BY <5>3, <5>4, <4>2, <4>3, <4>6, <2>3
      <4> QED BY <4>5, <4>6
    <3> QED BY <3>16, <3>17
  <2> QED BY <2>7, <2>8
<1>2. T = {}
  <2> SUFFICES ASSUME T # {}  PROVE FALSE
    BY Zenon
  <2>1. T \in SUBSET Nat
    BY <1>0
  <2> HIDE DEF T
  <2>2. PICK k \in T : \A m \in T : k <= m
    BY <2>1, Least, Zenon
  <2> QED BY <2>2, <1>1
<1>3. ASSUME NEW start \in 0 .. L  PROVE W(start)
  <2> DEFINE k == L - start
  <2>1. k \in 0 .. L /\ L - k = start
    BY <1>0
  <2> HIDE DEF k
  <2> QED BY <2>1, <1>2
<1> QED BY <1>3 DEF W

-----------------------------------------------------------------------------
\* append_u16 writes two bytes that spell the word.
LEMMA WordBytes ==
  ASSUME NEW value \in Word
  PROVE  /\ append_u16(value) \in Seq(Byte) /\ Len(append_u16(value)) = 2
         /\ 256 * append_u16(value)[1] + append_u16(value)[2] = value
<1>1. append_u16(value) = append_be16(value)
  BY Zenon DEF append_u16, append_be16
<1>2. /\ append_be16(value) \in Seq(Byte) /\ Len(append_be16(value)) = 2
      /\ read_be16(append_be16(value)) = value
  BY PortBytes
<1> QED BY <1>1, <1>2 DEF read_be16

\* A name between a header and what follows the zero behind it.
Asking(h, n, t, c) == h \o n \o <<0>> \o t \o c

LaidOut(b, h, n, t, c) ==
  /\ b \in Seq(Byte) /\ Len(b) = Len(h) + Len(n) + 1 + Len(t) + Len(c)
  /\ \A i \in 1 .. Len(h) : b[i] = h[i]
  /\ \A i \in 1 .. Len(n) : b[Len(h) + i] = n[i]
  /\ b[Len(h) + Len(n) + 1] = 0
  /\ After(b, Len(h) + Len(n) + 1) = t \o c

\* The parts of a query are at their places: header, name, type and class.
LEMMA QueryLayout ==
  ASSUME NEW h \in Seq(Byte), NEW n \in Seq(Byte), NEW t \in Seq(Byte), NEW c \in Seq(Byte)
  PROVE  LaidOut(Asking(h, n, t, c), h, n, t, c)
<1> DEFINE z == <<0>>
           hn == h \o n
           hnz == hn \o z
           tc == t \o c
           b == hnz \o tc
<1>0. Len(h) \in Nat /\ Len(n) \in Nat /\ Len(t) \in Nat /\ Len(c) \in Nat
  BY LenProperties
<1>1. z \in Seq(Byte) /\ Len(z) = 1 /\ z[1] = 0
  BY DEF Byte
<1> HIDE DEF z
<1>2. /\ hn \in Seq(Byte) /\ Len(hn) = Len(h) + Len(n)
      /\ \A i \in 1 .. Len(h) : hn[i] = h[i]
      /\ \A i \in 1 .. Len(n) : hn[Len(h) + i] = n[i]
  BY JoinedAt
<1> HIDE DEF hn
<1>3. /\ hnz \in Seq(Byte) /\ Len(hnz) = Len(hn) + Len(z)
      /\ \A i \in 1 .. Len(hn) : hnz[i] = hn[i]
      /\ \A i \in 1 .. Len(z) : hnz[Len(hn) + i] = z[i]
  <2>1. hn \in Seq(Byte) /\ z \in Seq(Byte)
    BY <1>1, <1>2
  <2> QED BY <2>1, JoinedAt
<1>a. /\ Len(hnz) = Len(h) + Len(n) + 1 /\ hnz[Len(h) + Len(n) + 1] = 0
      /\ \A i \in 1 .. Len(h) : hnz[i] = h[i]
      /\ \A i \in 1 .. Len(n) : hnz[Len(h) + i] = n[i]
  <2> HIDE DEF hnz
  <2>1. Len(hnz) = Len(h) + Len(n) + 1
    BY <1>0, <1>1, <1>2, <1>3
  <2>2. hnz[Len(h) + Len(n) + 1] = 0
    <3>1. 1 \in 1 .. Len(z) /\ Len(hn) + 1 = Len(h) + Len(n) + 1
      BY <1>1, <1>2
    <3>2. hnz[Len(hn) + 1] = z[1]
      BY <3>1, <1>3
    <3> QED BY <3>1, <3>2, <1>1
  <2>3. ASSUME NEW i \in 1 .. Len(h)  PROVE hnz[i] = h[i]
    <3>1. i \in 1 .. Len(hn)
      BY <1>0, <1>2
    <3> QED BY <3>1, <1>2, <1>3
  <2>4. ASSUME NEW i \in 1 .. Len(n)  PROVE hnz[Len(h) + i] = n[i]
    <3>1. Len(h) + i \in 1 .. Len(hn)
      BY <1>0, <1>2
    <3> QED BY <3>1, <1>2, <1>3, Zenon
  <2> QED BY <2>1, <2>2, <2>3, <2>4
<1> HIDE DEF hnz
<1>4. tc \in Seq(Byte) /\ Len(tc) = Len(t) + Len(c)
  BY Joined, Zenon
<1>5. (hnz \o t) \o c = hnz \o tc
  <2>1. hnz \in Seq(Byte)
    BY <1>3, Zenon
  <2> QED BY <2>1, Chained, ZenonT(40)
<1> HIDE DEF tc
<1>b. hnz \in Seq(Byte)
  BY <1>3
<1>6. b \in Seq(Byte) /\ Len(b) = Len(hnz) + Len(tc) /\ After(b, Len(hnz)) = tc
  BY <1>b, <1>4, Joined, ZenonT(40)
<1>c. \A i \in 1 .. Len(hnz) : b[i] = hnz[i]
  BY <1>b, <1>4, JoinedAt
<1>7. Asking(h, n, t, c) = b
  BY <1>5, Zenon DEF b, hnz, hn, z, Asking
<1> HIDE DEF b
<1>8. Len(b) = Len(h) + Len(n) + 1 + Len(t) + Len(c)
  BY <1>0, <1>a, <1>4, <1>6
<1>9. \A i \in 1 .. Len(h) : b[i] = h[i]
  <2> SUFFICES ASSUME NEW i \in 1 .. Len(h)  PROVE b[i] = h[i]
    BY Zenon
  <2>1. i \in 1 .. Len(hnz)
    BY <1>0, <1>a
  <2> QED BY <2>1, <1>a, <1>c, Zenon
<1>10. \A i \in 1 .. Len(n) : b[Len(h) + i] = n[i]
  <2> SUFFICES ASSUME NEW i \in 1 .. Len(n)  PROVE b[Len(h) + i] = n[i]
    BY Zenon
  <2>1. Len(h) + i \in 1 .. Len(hnz)
    BY <1>0, <1>a
  <2> QED BY <2>1, <1>a, <1>c
<1>11. b[Len(h) + Len(n) + 1] = 0
  <2>1. Len(h) + Len(n) + 1 \in 1 .. Len(hnz)
    BY <1>0, <1>a
  <2> QED BY <2>1, <1>a, <1>c
<1> QED BY <1>6, <1>7, <1>8, <1>9, <1>10, <1>11, <1>a DEF tc, LaidOut

\* Two bytes behind others.
LEMMA TwoMore ==
  ASSUME NEW s \in Seq(Byte), NEW t \in Seq(Byte), Len(t) = 2
  PROVE  /\ s \o t \in Seq(Byte) /\ Len(s \o t) = Len(s) + 2
         /\ \A i \in 1 .. Len(s) : (s \o t)[i] = s[i]
         /\ (s \o t)[Len(s) + 1] = t[1] /\ (s \o t)[Len(s) + 2] = t[2]
<1> DEFINE c == s \o t
<1>1. /\ c \in Seq(Byte) /\ Len(c) = Len(s) + Len(t)
      /\ \A i \in 1 .. Len(s) : c[i] = s[i]
      /\ \A i \in 1 .. Len(t) : c[Len(s) + i] = t[i]
  BY JoinedAt
<1> HIDE DEF c
<1>2. 1 \in 1 .. Len(t) /\ 2 \in 1 .. Len(t)
  OBVIOUS
<1> QED BY <1>1, <1>2, Zenon DEF c

\* The twelve bytes before a name.
HeaderOf(a, b, c, d, e, f) ==
  append_u16(a) \o append_u16(b) \o append_u16(c) \o append_u16(d) \o append_u16(e) \o append_u16(f)

Heads(h, a, b, c, d) ==
  /\ h \in Seq(Byte) /\ Len(h) = 12
  /\ 256 * h[1] + h[2] = a /\ 256 * h[3] + h[4] = b
  /\ 256 * h[5] + h[6] = c /\ 256 * h[7] + h[8] = d

\* The words of a header are at their places.
LEMMA Header ==
  ASSUME NEW a \in Word, NEW b \in Word, NEW c \in Word, NEW d \in Word, NEW e \in Word,
         NEW f \in Word
  PROVE  Heads(HeaderOf(a, b, c, d, e, f), a, b, c, d)
<1> DEFINE A == append_u16(a)  B == append_u16(b)  C == append_u16(c)
           D == append_u16(d)  E == append_u16(e)  F == append_u16(f)
<1>1. /\ A \in Seq(Byte) /\ B \in Seq(Byte) /\ C \in Seq(Byte) /\ Len(A) = 2 /\ Len(B) = 2
      /\ D \in Seq(Byte) /\ E \in Seq(Byte) /\ F \in Seq(Byte) /\ Len(C) = 2 /\ Len(D) = 2
      /\ Len(E) = 2 /\ Len(F) = 2
  BY WordBytes
<1>2. /\ 256 * A[1] + A[2] = a /\ 256 * B[1] + B[2] = b
      /\ 256 * C[1] + C[2] = c /\ 256 * D[1] + D[2] = d
  BY WordBytes
<1> HIDE DEF A, B, C, D, E, F
<1> DEFINE AB == A \o B  ABC == AB \o C  ABCD == ABC \o D  ABCDE == ABCD \o E  h == ABCDE \o F
<1>3. /\ AB \in Seq(Byte) /\ Len(AB) = Len(A) + 2
      /\ \A i \in 1 .. Len(A) : AB[i] = A[i]
      /\ AB[Len(A) + 1] = B[1] /\ AB[Len(A) + 2] = B[2]
  <2>1. A \in Seq(Byte) /\ B \in Seq(Byte) /\ Len(B) = 2
    BY <1>1, Zenon
  <2> QED BY <2>1, TwoMore
<1> HIDE DEF AB
<1>4. /\ ABC \in Seq(Byte) /\ Len(ABC) = Len(AB) + 2
      /\ \A i \in 1 .. Len(AB) : ABC[i] = AB[i]
      /\ ABC[Len(AB) + 1] = C[1] /\ ABC[Len(AB) + 2] = C[2]
  <2>1. AB \in Seq(Byte) /\ C \in Seq(Byte) /\ Len(C) = 2
    BY <1>1, <1>3
  <2> QED BY <2>1, TwoMore
<1> HIDE DEF ABC
<1>5. /\ ABCD \in Seq(Byte) /\ Len(ABCD) = Len(ABC) + 2
      /\ \A i \in 1 .. Len(ABC) : ABCD[i] = ABC[i]
      /\ ABCD[Len(ABC) + 1] = D[1] /\ ABCD[Len(ABC) + 2] = D[2]
  <2>1. ABC \in Seq(Byte) /\ D \in Seq(Byte) /\ Len(D) = 2
    BY <1>1, <1>4
  <2> QED BY <2>1, TwoMore
<1> HIDE DEF ABCD
<1>6. /\ ABCDE \in Seq(Byte) /\ Len(ABCDE) = Len(ABCD) + 2
      /\ \A i \in 1 .. Len(ABCD) : ABCDE[i] = ABCD[i]
      /\ ABCDE[Len(ABCD) + 1] = E[1] /\ ABCDE[Len(ABCD) + 2] = E[2]
  <2>1. ABCD \in Seq(Byte) /\ E \in Seq(Byte) /\ Len(E) = 2
    BY <1>1, <1>5
  <2> QED BY <2>1, TwoMore
<1> HIDE DEF ABCDE
<1>7. /\ h \in Seq(Byte) /\ Len(h) = Len(ABCDE) + 2
      /\ \A i \in 1 .. Len(ABCDE) : h[i] = ABCDE[i]
      /\ h[Len(ABCDE) + 1] = F[1] /\ h[Len(ABCDE) + 2] = F[2]
  <2>1. ABCDE \in Seq(Byte) /\ F \in Seq(Byte) /\ Len(F) = 2
    BY <1>1, <1>6
  <2> QED BY <2>1, TwoMore
<1> HIDE DEF h
<1>8. /\ Len(AB) = 4 /\ Len(ABC) = 6 /\ Len(ABCD) = 8 /\ Len(ABCDE) = 10 /\ Len(h) = 12
  BY <1>1, <1>3, <1>4, <1>5, <1>6, <1>7
<1>9. \A i \in 1 .. 8 : h[i] = ABCD[i]
  BY <1>6, <1>7, <1>8
<1>10. \A i \in 1 .. 6 : h[i] = ABC[i]
  BY <1>5, <1>8, <1>9
<1>11. \A i \in 1 .. 4 : h[i] = AB[i]
  BY <1>4, <1>8, <1>10
<1>12. h[1] = A[1] /\ h[2] = A[2] /\ h[3] = B[1] /\ h[4] = B[2]
  BY <1>1, <1>3, <1>11
<1>13. h[5] = C[1] /\ h[6] = C[2]
  BY <1>4, <1>8, <1>10
<1>14. h[7] = D[1] /\ h[8] = D[2]
  BY <1>5, <1>8, <1>9
<1>15. HeaderOf(a, b, c, d, e, f) = h
  BY Zenon DEF HeaderOf, h, ABCDE, ABCD, ABC, AB, A, B, C, D, E, F
<1> QED BY <1>2, <1>7, <1>8, <1>12, <1>13, <1>14, <1>15 DEF Heads

\* What QueryName makes of a host, and that skip_dns_name walks over it wherever
\* it is found.
Walks(name) ==
  \A packet \in Seq(Byte), o \in Nat : \A e :
    o <= Len(packet) /\ EndsName(e) /\ HoldsAt(packet, o, name \o e)
    => skip_dns_name(packet, o) = Skipped(packet, o, Len(name) + Len(e))

\* QueryName refuses exactly the unnameable hosts, and skip_dns_name walks over
\* the bytes it writes for the others.
LEMMA NameWalked ==
  ASSUME WellFounded, NEW host \in Seq(Byte), Len(host) <= 255
  PROVE  LET name == QueryName(host) IN
         /\ name.ok \in BOOLEAN /\ (name.ok <=> ~Unnameable(host))
         /\ name.ok => NamedFrom(host, 0, name) /\ Walks(name.bytes)
<1>0. Len(host) \in Nat /\ 0 \in 0 .. Len(host)
  BY LenProperties
<1>1. PICK from : /\ \A start \in 0 .. Len(host) : from[start] = Labels(host, from, start)
                  /\ QueryName(host) = from[0]
  BY NameLabels, Zenon
<1>2. NamedFrom(host, 0, from[0])
  BY <1>0, <1>1, Named
<1>3. BadFrom(host, 0) <=> Unnameable(host)
  BY DEF BadFrom, Unnameable
<1> DEFINE f == from[0]
<1>4. ASSUME f.ok  PROVE Walks(f.bytes)
  <2> SUFFICES ASSUME NEW packet \in Seq(Byte), NEW o \in Nat, NEW e,
                      o <= Len(packet), EndsName(e), HoldsAt(packet, o, f.bytes \o e)
               PROVE  skip_dns_name(packet, o) = Skipped(packet, o, Len(f.bytes) + Len(e))
    BY Zenon DEF Walks
  <2>1. PICK skip : /\ Skips(packet, skip)
                    /\ \A offset : skip_dns_name(packet, offset) = skip[offset][0]
    BY SkipTurns
  <2>2. \A start \in 0 .. Len(host) : WalkedFrom(host, start, from[start], e, packet, skip)
    BY <2>1, <1>1, Walked
  <2>3. WalkedFrom(host, 0, f, e, packet, skip)
    BY <2>2, <1>0
  <2>4. 0 \in Nat /\ 0 + (Len(host) - 0) <= MaxJumps /\ o \in 0 .. Len(packet)
    BY <1>0, LenProperties DEF MaxJumps
  <2> HIDE DEF f
  <2>5. skip[o][0] = Skipped(packet, o, Len(f.bytes) + Len(e))
    BY <2>3, <2>4, <1>4, Zenon DEF WalkedFrom
  <2> QED BY <2>1, <2>5
<1>5. f.ok \in BOOLEAN /\ (f.ok <=> ~Unnameable(host))
  BY <1>2, <1>3 DEF NamedFrom
<1> QED BY <1>1, <1>2, <1>4, <1>5

\* The query of a host that has a name.
LEMMA QueryBytes ==
  ASSUME WellFounded, NEW id \in Word, NEW host \in Seq(Byte), NEW qtype \in Word, Len(host) <= 255
  PROVE  LET query == make_dns_query(id, host, qtype)
             name == QueryName(host)
             end == 12 + Len(name.bytes) + 1
             kind == append_u16(qtype) \o append_u16(DnsClassIn)
         IN /\ query.ok \in BOOLEAN /\ (query.ok <=> name.ok)
            /\ query.ok => /\ query.bytes \in Seq(Byte) /\ Len(query.bytes) = end + 4
                           /\ HoldsAt(query.bytes, 12, name.bytes \o <<0>>)
                           /\ \A i \in 1 .. Len(name.bytes) : query.bytes[12 + i] = name.bytes[i]
                           /\ After(query.bytes, end) = kind
<1> DEFINE query == make_dns_query(id, host, qtype)
           name == QueryName(host)
           n == name.bytes
           t == append_u16(qtype)
           c == append_u16(DnsClassIn)
           h == HeaderOf(id, 256, 1, 0, 0, 0)
           b == Asking(h, n, t, c)
<1>1. query = IF ~name.ok THEN NoAddress ELSE [ok |-> TRUE, bytes |-> b]
  BY DEF make_dns_query, HeaderOf, Asking
<1>2. 0 \in Word /\ 1 \in Word /\ 256 \in Word /\ DnsClassIn \in Word
  BY DEF Word, DnsClassIn
<1>3. h \in Seq(Byte) /\ Len(h) = 12
  <2>1. Heads(h, id, 256, 1, 0)
    BY <1>2, Header
  <2> HIDE DEF h
  <2> QED BY <2>1, Zenon DEF Heads
<1>4. t \in Seq(Byte) /\ Len(t) = 2 /\ c \in Seq(Byte) /\ Len(c) = 2
  BY <1>2, WordBytes
<1>5. name.ok \in BOOLEAN /\ (name.ok => NamedFrom(host, 0, name))
  BY NameWalked, Zenon
<1> HIDE DEF h, t, c, name, query
<1>6. CASE name.ok
  <2>1. n \in Seq(Byte)
    BY <1>5, <1>6, Zenon DEF NamedFrom
  <2>2. Len(n) \in Nat
    BY <2>1, LenProperties, Zenon
  <2> HIDE DEF n
  <2>a. h \in Seq(Byte) /\ n \in Seq(Byte) /\ t \in Seq(Byte) /\ c \in Seq(Byte)
    BY <2>1, <1>3, <1>4, Zenon
  <2>3. /\ b \in Seq(Byte) /\ Len(b) = Len(h) + Len(n) + 1 + Len(t) + Len(c)
        /\ \A i \in 1 .. Len(h) : b[i] = h[i]
        /\ \A i \in 1 .. Len(n) : b[Len(h) + i] = n[i]
        /\ b[Len(h) + Len(n) + 1] = 0
        /\ After(b, Len(h) + Len(n) + 1) = t \o c
    <3>1. LaidOut(Asking(h, n, t, c), h, n, t, c)
      BY <2>a, QueryLayout, Zenon
    <3> HIDE DEF b
    <3> QED BY <3>1, Zenon DEF LaidOut, b
  <2> HIDE DEF b
  <2>4. query.ok /\ query.bytes = b /\ query.ok \in BOOLEAN
    BY <1>1, <1>6, Zenon
  <2>5. Len(b) = 12 + Len(n) + 1 + 4
    BY <2>2, <2>3, <1>3, <1>4
  <2>6. /\ \A i \in 1 .. Len(n) : b[12 + i] = n[i]
        /\ b[12 + Len(n) + 1] = 0 /\ After(b, 12 + Len(n) + 1) = t \o c
    BY <2>3, <1>3, Zenon
  <2>7. HoldsAt(b, 12, n \o <<0>>)
    <3> DEFINE z == <<0>>
    <3>1. z \in Seq(Byte) /\ Len(z) = 1 /\ z[1] = 0
      BY DEF Byte
    <3> HIDE DEF z
    <3> DEFINE w == n \o z
    <3>2. /\ w \in Seq(Byte) /\ Len(w) = Len(n) + Len(z)
          /\ \A i \in 1 .. Len(n) : w[i] = n[i]
          /\ \A i \in 1 .. Len(z) : w[Len(n) + i] = z[i]
      <4>1. n \in Seq(Byte) /\ z \in Seq(Byte)
        BY <2>1, <3>1, Zenon
      <4> QED BY <4>1, JoinedAt
    <3> HIDE DEF w
    <3>3. ASSUME NEW i \in 1 .. Len(w)  PROVE b[12 + i] = w[i]
      <4>1. CASE i \in 1 .. Len(n)
        BY <4>1, <3>2, <2>6
      <4>2. CASE i \notin 1 .. Len(n)
        <5>1. i = Len(n) + 1 /\ 12 + i = 12 + Len(n) + 1 /\ 1 \in 1 .. Len(z)
          BY <4>2, <3>1, <3>2, <2>2
        <5>2. w[Len(n) + 1] = 0
          BY <5>1, <3>1, <3>2
        <5> QED BY <5>1, <5>2, <2>6
      <4> QED BY <4>1, <4>2
    <3>4. HoldsAt(b, 12, w)
      BY <3>3, Zenon DEF HoldsAt
    <3> QED BY <3>4, Zenon DEF w, z
  <2> QED BY <2>3, <2>4, <2>5, <2>6, <2>7, <1>6, Zenon DEF n, t, c, query, name
<1>7. CASE ~name.ok
  <2>1. query = NoAddress /\ ~NoAddress.ok /\ NoAddress.ok \in BOOLEAN
    BY <1>1, <1>7, Zenon DEF NoAddress
  <2> QED BY <2>1, <1>7 DEF query, name
<1> QED BY <1>5, <1>6, <1>7, Zenon

\* A handled question was turned into a query by make_dns_query.
LEMMA GivenQuestion ==
  ASSUME Handled, Done("question")
  PROVE  /\ input.is \in Questions
         /\ output.query = make_dns_query(input.is.id, input.is.host, input.is.qtype)
<1>1. output # Nothing /\ input.kind = "question"
  BY DEF Done, Nothing
<1>2. input.is \in Questions
  BY <1>1, Zenon DEF Handled
<1>3. output = [ok |-> TRUE,
                query |-> make_dns_query(input.is.id, input.is.host, input.is.qtype)]
  BY <1>1, Zenon DEF Handled
<1> QED BY <1>2, <1>3, Zenon

\* A query that was made names its host.
LEMMA NamesHost ==
  ASSUME WellFounded, Handled
  PROVE  QueryNamesHost
<1> SUFFICES ASSUME Done("question")
             PROVE  LET q == input.is  bytes == output.query.bytes IN
                    /\ output.query.ok = ~Unnameable(q.host)
                    /\ output.query.ok =>
                         LET name == skip_dns_name(bytes, 12) IN
                         /\ name.ok /\ name.offset = Len(bytes) - 4
                         /\ After(bytes, name.offset) = append_u16(q.qtype) \o append_u16(DnsClassIn)
                         /\ \A k \in 1 .. Len(q.host) : q.host[k] # Dot => bytes[13 + k] = q.host[k]
  BY Zenon DEF QueryNamesHost
<1> DEFINE q == input.is  id == q.id  host == q.host  qtype == q.qtype
           query == make_dns_query(id, host, qtype)
           name == QueryName(host)
           n == name.bytes
           end == 12 + Len(n) + 1
           b == query.bytes
<1>1. q \in Questions /\ output.query = query
  BY GivenQuestion, Zenon
<1>2. id \in Word /\ host \in Seq(Byte) /\ qtype \in Word /\ Len(host) <= 255
  BY <1>1, LookupQuestions
<1> HIDE DEF id, host, qtype
<1>3. /\ query.ok \in BOOLEAN /\ (query.ok <=> name.ok)
      /\ query.ok => /\ b \in Seq(Byte) /\ Len(b) = end + 4
                     /\ HoldsAt(b, 12, n \o <<0>>)
                     /\ \A i \in 1 .. Len(n) : b[12 + i] = n[i]
                     /\ After(b, end) = append_u16(qtype) \o append_u16(DnsClassIn)
  BY <1>2, QueryBytes, Zenon
<1>4. /\ name.ok \in BOOLEAN /\ (name.ok <=> ~Unnameable(host))
      /\ name.ok => NamedFrom(host, 0, name) /\ Walks(n)
  BY <1>2, NameWalked
<1> HIDE DEF name, query
<1>5. query.ok = ~Unnameable(host)
  BY <1>3, <1>4, Zenon DEF Unnameable
<1>6. ASSUME query.ok
      PROVE  /\ skip_dns_name(b, 12) = [ok |-> TRUE, offset |-> end]
             /\ end = Len(b) - 4
             /\ \A k \in 1 .. Len(host) : host[k] # Dot => b[13 + k] = host[k]
  <2>1. n \in Seq(Byte) /\ \A k \in 0 + 1 .. Len(host) : host[k] # Dot =>
                /\ k - 0 + 1 \in 1 .. Len(n)
                /\ n[k - 0 + 1] = host[k]
    BY <1>3, <1>4, <1>6 DEF NamedFrom
  <2>2. Len(n) \in Nat /\ Len(host) \in Nat
    BY <2>1, <1>2, LenProperties
  <2>a. /\ b \in Seq(Byte) /\ Len(b) = end + 4 /\ HoldsAt(b, 12, n \o <<0>>)
        /\ \A i \in 1 .. Len(n) : b[12 + i] = n[i]
    BY <1>3, <1>6
  <2>b. Walks(n)
    BY <1>3, <1>4, <1>6
  <2> HIDE DEF n, b
  <2>3. end = Len(b) - 4 /\ 12 + (Len(n) + 1) <= Len(b) /\ 12 <= Len(b) /\ 12 \in Nat
    BY <2>2, <2>a
  <2>4. skip_dns_name(b, 12) = [ok |-> TRUE, offset |-> end]
    <3>1. EndsName(<<0>>) /\ Len(<<0>>) = 1
      BY Zenon DEF EndsName
    <3>2. skip_dns_name(b, 12) = Skipped(b, 12, Len(n) + Len(<<0>>))
      BY <3>1, <2>3, <2>a, <2>b, Zenon DEF Walks
    <3>3. 12 + (Len(n) + 1) = end
      BY <2>2
    <3> QED BY <3>1, <3>2, <3>3, <2>3 DEF Skipped
  <2>5. ASSUME NEW k \in 1 .. Len(host), host[k] # Dot  PROVE b[13 + k] = host[k]
    <3>1. k + 1 \in 1 .. Len(n) /\ n[k + 1] = host[k] /\ 12 + (k + 1) = 13 + k
      BY <2>1, <2>2, <2>5
    <3>2. b[12 + (k + 1)] = n[k + 1]
      BY <3>1, <2>a, Zenon
    <3> QED BY <3>1, <3>2, Zenon
  <2> QED BY <2>3, <2>4, <2>5
<1> HIDE DEF end, b
<1>7. ASSUME query.ok
      PROVE  LET w == skip_dns_name(b, 12) IN
             /\ w.ok /\ w.offset = Len(b) - 4
             /\ After(b, w.offset) = append_u16(qtype) \o append_u16(DnsClassIn)
             /\ \A k \in 1 .. Len(host) : host[k] # Dot => b[13 + k] = host[k]
  BY <1>3, <1>6, <1>7
<1> QED BY <1>1, <1>5, <1>7 DEF b, host, qtype, id


-----------------------------------------------------------------------------
(* The answer of a server. *)

\* The records of an answer, one behind the other, as far as the k-th.
RecordsWritten(a, k, records) ==
  records = [n \in 0 .. k |->
               IF n = 0 THEN <<>> ELSE records[n - 1] \o RecordBytes(a.records[n])]

\* The records of a message can be written one behind the other.
LEMMA RecordsWrittenExist ==
  ASSUME WellFounded, NEW a, NEW k \in Nat
  PROVE  \E records : RecordsWritten(a, k, records)
<1> DEFINE T == {m \in Nat : ~\E records : RecordsWritten(a, m, records)}
           Next1(g, n) == g[n - 1] \o RecordBytes(a.records[n])
           Z == <<>>
<1> SUFFICES ASSUME T # {}  PROVE FALSE
  BY Zenon
<1>1. PICK m \in T : \A l \in T : m <= l
  BY Least, Zenon
<1>2. m \in Nat /\ ~\E records : RecordsWritten(a, m, records)
  BY Zenon
<1> HIDE DEF Z
<1>3. CASE m = 0
  <2> DEFINE g == [n \in 0 .. 0 |-> Z]
  <2>1. g = [n \in 0 .. 0 |-> IF n = 0 THEN Z ELSE g[n - 1] \o RecordBytes(a.records[n])]
    OBVIOUS
  <2> QED BY <2>1, <1>2, <1>3, Zenon DEF RecordsWritten, Z
<1>4. CASE m # 0
  <2>1. m - 1 \in Nat /\ m - 1 \notin T
    BY <1>1, <1>2, <1>4
  <2>2. PICK h : RecordsWritten(a, m - 1, h)
    BY <2>1, Zenon
  <2> DEFINE last == Next1(h, m)
             g == [n \in 0 .. m |-> IF n = m THEN last ELSE h[n]]
             B(n) == IF n = 0 THEN Z ELSE Next1(g, n)
  <2>3. h = [n \in 0 .. m - 1 |-> IF n = 0 THEN Z ELSE Next1(h, n)]
    BY <2>2, Zenon DEF RecordsWritten, Z
  <2>4. \A n \in 0 .. m - 1 : h[n] = IF n = 0 THEN Z ELSE Next1(h, n)
    BY <2>3, Zenon
  <2>5. \A n \in 0 .. m : g[n] = IF n = m THEN last ELSE h[n]
    BY Zenon
  <2>6. g = [n \in 0 .. m |-> g[n]]
    BY Zenon
  <2> HIDE DEF g
  <2>7. ASSUME NEW n \in 0 .. m  PROVE g[n] = B(n)
    <3>1. CASE n = 0
      <4>1. n # m /\ n \in 0 .. m - 1
        BY <3>1, <1>2, <1>4
      <4> QED BY <3>1, <4>1, <2>4, <2>5
    <3>2. CASE n # 0 /\ n = m
      <4>1. m - 1 \in 0 .. m /\ m - 1 # m
        BY <1>2, <1>4
      <4> QED BY <3>2, <4>1, <2>5, Zenon
    <3>3. CASE n # 0 /\ n # m
      <4>1. n - 1 \in 0 .. m /\ n - 1 # m /\ n \in 0 .. m - 1
        BY <1>2, <3>3
      <4>2. g[n - 1] = h[n - 1] /\ g[n] = h[n]
        BY <4>1, <2>5, <3>3, Zenon
      <4> QED BY <3>3, <4>1, <4>2, <2>4, Zenon
    <3> QED BY <3>1, <3>2, <3>3
  <2>8. g = [n \in 0 .. m |-> B(n)]
    BY <2>6, <2>7, Zenon
  <2> QED BY <2>8, <1>2, Zenon DEF RecordsWritten, Z
<1> QED BY <1>3, <1>4, Zenon

\* The part of a message before its records.
Preface(a) ==
  HeaderOf(a.id, Flags(a), 1, Len(a.records), 0, 0)
  \o After(make_dns_query(a.question.id, a.question.host, a.question.qtype).bytes, 12)

\* A message is its header and question, and its records one after the other.
LEMMA MessageTurns ==
  ASSUME WellFounded, NEW a, Len(a.records) \in Nat
  PROVE  \E records :
           /\ records[0] = <<>>
           /\ \A k \in 1 .. Len(a.records) : records[k] = records[k - 1] \o RecordBytes(a.records[k])
           /\ \A k : Message(a, k) = Preface(a) \o records[k]
<1> DEFINE N == Len(a.records)
           f == CHOOSE records : RecordsWritten(a, N, records)
<1>1. RecordsWritten(a, N, f)
  BY RecordsWrittenExist, Zenon
<1>2. \A k : Message(a, k) = Preface(a) \o f[k]
  BY Zenon DEF Message, RecordsWritten, Preface, HeaderOf
<1> HIDE DEF f, N
<1>3. \A n \in 0 .. N : f[n] = IF n = 0 THEN <<>> ELSE f[n - 1] \o RecordBytes(a.records[n])
  BY <1>1, Zenon DEF RecordsWritten
<1>4. N \in Nat
  BY Zenon DEF N
<1>5. f[0] = <<>>
  BY <1>3, <1>4
<1>6. ASSUME NEW k \in 1 .. N  PROVE f[k] = f[k - 1] \o RecordBytes(a.records[k])
  <2>1. k \in 0 .. N /\ k # 0
    BY <1>4
  <2> QED BY <2>1, <1>3, Zenon
<1> QED BY <1>2, <1>5, <1>6, Zenon DEF N


\* skip_dns_name walks over the name of a record as far as the packet goes.
LEMMA NameSkipped ==
  ASSUME WellFounded, NEW name, name.labels \in Seq(Byte), Len(name.labels) <= 255,
         QueryName(name.labels).ok, EndsName(name.end)
  PROVE  /\ NameBytes(name) \in Seq(Byte)
         /\ \A packet \in Seq(Byte), o \in Nat :
              o <= Len(packet) /\ HoldsAt(packet, o, NameBytes(name))
              => skip_dns_name(packet, o) = Skipped(packet, o, Len(NameBytes(name)))
<1> DEFINE labels == name.labels  e == name.end
           n == QueryName(labels).bytes
           w == n \o e
<1>1. NameBytes(name) = w
  BY Zenon DEF NameBytes
<1>2. NamedFrom(labels, 0, QueryName(labels)) /\ Walks(n)
  BY NameWalked, Zenon
<1>3. n \in Seq(Byte) /\ e \in Seq(Byte)
  BY <1>2, NameEnd, Zenon DEF NamedFrom
<1>4. EndsName(e)
  BY Zenon
<1> HIDE DEF n, e
<1>5. w \in Seq(Byte) /\ Len(w) = Len(n) + Len(e)
  BY <1>3, Joined
<1>6. ASSUME NEW packet \in Seq(Byte), NEW o \in Nat, o <= Len(packet), HoldsAt(packet, o, w)
      PROVE  skip_dns_name(packet, o) = Skipped(packet, o, Len(w))
  <2>1. skip_dns_name(packet, o) = Skipped(packet, o, Len(n) + Len(e))
    BY <1>2, <1>4, <1>6 DEF Walks
  <2> HIDE DEF w
  <2> QED BY <2>1, <1>5, Zenon
<1> HIDE DEF w
<1> QED BY <1>1, <1>5, <1>6, Zenon

\* The fields of a record behind its name, and its data behind them.
RecordLaid(r, b) ==
  LET n == Len(NameBytes(r.name)) IN
  /\ b \in Seq(Byte) /\ Len(b) = n + 10 + Len(r.data)
  /\ \A i \in 1 .. n : b[i] = NameBytes(r.name)[i]
  /\ 256 * b[n + 1] + b[n + 2] = r.type
  /\ 256 * b[n + 3] + b[n + 4] = r.class
  /\ 256 * b[n + 9] + b[n + 10] = Len(r.data)
  /\ \A i \in 1 .. Len(r.data) : b[n + 10 + i] = r.data[i]

\* The fields of a record that is fine are at their places.
LEMMA RecordLayout ==
  ASSUME WellFounded, NEW r, Fine(r)
  PROVE  RecordLaid(r, RecordBytes(r))
<1> DEFINE N == NameBytes(r.name)  A == append_u16(r.type)  B == append_u16(r.class)
           C == <<0, 0, 0, 60>>  D == append_u16(Len(r.data))  E == r.data
           n == Len(N)
<1>1. N \in Seq(Byte) /\ E \in Seq(Byte)
  BY NameSkipped, Zenon DEF Fine
<1>2. /\ A \in Seq(Byte) /\ B \in Seq(Byte) /\ D \in Seq(Byte)
      /\ Len(A) = 2 /\ Len(B) = 2 /\ Len(D) = 2
      /\ 256 * A[1] + A[2] = r.type /\ 256 * B[1] + B[2] = r.class
      /\ 256 * D[1] + D[2] = Len(r.data)
  BY WordBytes DEF Fine
<1>3. C \in Seq(Byte) /\ Len(C) = 4
  BY DEF Byte
<1>4. n \in Nat /\ Len(E) \in Nat
  BY <1>1, LenProperties, Zenon
<1>5. RecordBytes(r) = N \o A \o B \o C \o D \o E
  BY Zenon DEF RecordBytes
<1> HIDE DEF N, A, B, C, D
<1> DEFINE NA == N \o A  NAB == NA \o B  NABC == NAB \o C  NABCD == NABC \o D
           b == NABCD \o E
<1>6. /\ NA \in Seq(Byte) /\ Len(NA) = n + 2
      /\ \A i \in 1 .. n : NA[i] = N[i]
      /\ NA[n + 1] = A[1] /\ NA[n + 2] = A[2]
  BY <1>1, <1>2, TwoMore, ZenonT(40)
<1> HIDE DEF NA
<1>7. /\ NAB \in Seq(Byte) /\ Len(NAB) = Len(NA) + 2
      /\ \A i \in 1 .. Len(NA) : NAB[i] = NA[i]
      /\ NAB[Len(NA) + 1] = B[1] /\ NAB[Len(NA) + 2] = B[2]
  <2>1. NA \in Seq(Byte) /\ B \in Seq(Byte) /\ Len(B) = 2
    BY <1>2, <1>6
  <2> QED BY <2>1, TwoMore, Zenon
<1> HIDE DEF NAB
<1>8. /\ NABC \in Seq(Byte) /\ Len(NABC) = Len(NAB) + Len(C)
      /\ \A i \in 1 .. Len(NAB) : NABC[i] = NAB[i]
      /\ \A i \in 1 .. Len(C) : NABC[Len(NAB) + i] = C[i]
  <2>1. NAB \in Seq(Byte) /\ C \in Seq(Byte)
    BY <1>3, <1>7, Zenon
  <2> QED BY <2>1, JoinedAt
<1> HIDE DEF NABC
<1>9. /\ NABCD \in Seq(Byte) /\ Len(NABCD) = Len(NABC) + 2
      /\ \A i \in 1 .. Len(NABC) : NABCD[i] = NABC[i]
      /\ NABCD[Len(NABC) + 1] = D[1] /\ NABCD[Len(NABC) + 2] = D[2]
  <2>1. NABC \in Seq(Byte) /\ D \in Seq(Byte) /\ Len(D) = 2
    BY <1>2, <1>8
  <2> QED BY <2>1, TwoMore
<1> HIDE DEF NABCD
<1>10. /\ b \in Seq(Byte) /\ Len(b) = Len(NABCD) + Len(E)
       /\ \A i \in 1 .. Len(NABCD) : b[i] = NABCD[i]
       /\ \A i \in 1 .. Len(E) : b[Len(NABCD) + i] = E[i]
  <2>1. NABCD \in Seq(Byte) /\ E \in Seq(Byte)
    BY <1>1, <1>9
  <2> HIDE DEF E
  <2> QED BY <2>1, JoinedAt
<1> HIDE DEF b, n
<1>11. Len(NA) = n + 2 /\ Len(NAB) = n + 4 /\ Len(NABC) = n + 8 /\ Len(NABCD) = n + 10
  BY <1>3, <1>4, <1>6, <1>7, <1>8, <1>9
<1>12. \A i \in 1 .. n + 8 : b[i] = NABC[i]
  <2> SUFFICES ASSUME NEW i \in 1 .. n + 8  PROVE b[i] = NABC[i]
    BY Zenon
  <2>1. i \in 1 .. Len(NABCD) /\ i \in 1 .. Len(NABC)
    BY <1>4, <1>11
  <2> QED BY <2>1, <1>9, <1>10, Zenon
<1>13. \A i \in 1 .. n + 4 : b[i] = NAB[i]
  <2> SUFFICES ASSUME NEW i \in 1 .. n + 4  PROVE b[i] = NAB[i]
    BY Zenon
  <2>1. i \in 1 .. n + 8 /\ i \in 1 .. Len(NAB)
    BY <1>4, <1>11
  <2> QED BY <2>1, <1>8, <1>12
<1>14. \A i \in 1 .. n + 2 : b[i] = NA[i]
  <2> SUFFICES ASSUME NEW i \in 1 .. n + 2  PROVE b[i] = NA[i]
    BY Zenon
  <2>1. i \in 1 .. n + 4 /\ i \in 1 .. Len(NA)
    BY <1>4, <1>11
  <2> QED BY <2>1, <1>7, <1>13
<1>15. \A i \in 1 .. n : b[i] = N[i]
  <2> SUFFICES ASSUME NEW i \in 1 .. n  PROVE b[i] = N[i]
    BY Zenon
  <2>1. i \in 1 .. n + 2
    BY <1>4
  <2> QED BY <2>1, <1>6, <1>14
<1>16. b[n + 1] = A[1] /\ b[n + 2] = A[2]
  <2>1. n + 1 \in 1 .. n + 2 /\ n + 2 \in 1 .. n + 2
    BY <1>4
  <2> QED BY <2>1, <1>6, <1>14
<1>17. b[n + 3] = B[1] /\ b[n + 4] = B[2]
  <2>1. n + 3 \in 1 .. n + 4 /\ n + 4 \in 1 .. n + 4 /\ Len(NA) + 1 = n + 3 /\ Len(NA) + 2 = n + 4
    BY <1>4, <1>11
  <2> QED BY <2>1, <1>7, <1>13
<1>18. b[n + 9] = D[1] /\ b[n + 10] = D[2]
  <2>1. /\ n + 9 \in 1 .. Len(NABCD) /\ n + 10 \in 1 .. Len(NABCD)
        /\ Len(NABC) + 1 = n + 9 /\ Len(NABC) + 2 = n + 10
    BY <1>4, <1>11
  <2> QED BY <2>1, <1>9, <1>10, ZenonT(40)
<1>19. RecordBytes(r) = b
  BY <1>5, Zenon DEF b, NABCD, NABC, NAB, NA
<1>20. /\ b \in Seq(Byte) /\ Len(b) = n + 10 + Len(E)
       /\ \A i \in 1 .. Len(E) : b[n + 10 + i] = E[i]
  BY <1>10, <1>11, Zenon
<1>21. /\ 256 * b[n + 1] + b[n + 2] = r.type
       /\ 256 * b[n + 3] + b[n + 4] = r.class
       /\ 256 * b[n + 9] + b[n + 10] = Len(r.data)
  BY <1>2, <1>16, <1>17, <1>18
<1>22. RecordLaid(r, b)
  BY <1>15, <1>20, <1>21, Zenon DEF RecordLaid, n, N
<1> QED BY <1>19, <1>22, Zenon

\* Sequences that grow at the end: each is the beginning of the last.
Grows(N, m, b) ==
  m[0] \in Seq(Byte) /\ \A k \in 1 .. N : b[k] \in Seq(Byte) /\ m[k] = m[k - 1] \o b[k]

\* Each of the growing sequences is the beginning of the last one.
LEMMA Growing ==
  ASSUME WellFounded, NEW N \in Nat, NEW m, NEW b, Grows(N, m, b)
  PROVE  \A k \in 0 .. N : /\ m[k] \in Seq(Byte) /\ Len(m[k]) <= Len(m[N])
                           /\ \A i \in 1 .. Len(m[k]) : m[N][i] = m[k][i]
<1>0. m[0] \in Seq(Byte) /\ \A k \in 1 .. N : b[k] \in Seq(Byte) /\ m[k] = m[k - 1] \o b[k]
  BY Zenon DEF Grows
<1> DEFINE T == {k \in 0 .. N : m[k] \notin Seq(Byte)}
<1>1. T = {}
  <2> SUFFICES ASSUME T # {}  PROVE FALSE
    BY Zenon
  <2>1. PICK k \in T : \A l \in T : k <= l
    <3>1. T \in SUBSET Nat
      OBVIOUS
    <3> HIDE DEF T
    <3> QED BY <3>1, Least, Zenon
  <2>2. k \in 0 .. N /\ m[k] \notin Seq(Byte) /\ k # 0
    BY <1>0, Zenon
  <2>3. k - 1 \in 0 .. N /\ k - 1 \notin T /\ k \in 1 .. N
    BY <2>1, <2>2
  <2>4. m[k - 1] \in Seq(Byte) /\ b[k] \in Seq(Byte) /\ m[k] = m[k - 1] \o b[k]
    BY <2>3, <1>0, Zenon
  <2>5. m[k - 1] \o b[k] \in Seq(Byte)
    BY <2>4, Joined
  <2> QED BY <2>2, <2>4, <2>5
<1>2. \A k \in 0 .. N : m[k] \in Seq(Byte) /\ Len(m[k]) \in Nat
  BY <1>1, LenProperties
<1> DEFINE Begins(k) == /\ Len(m[k]) <= Len(m[N])
                        /\ \A i \in 1 .. Len(m[k]) : m[N][i] = m[k][i]
           U == {k \in 0 .. N : ~Begins(N - k)}
<1> HIDE DEF T, Begins
<1>3. U = {}
  <2> SUFFICES ASSUME U # {}  PROVE FALSE
    OBVIOUS
  <2>1. PICK j \in U : \A l \in U : j <= l
    <3>1. U \in SUBSET Nat
      OBVIOUS
    <3> HIDE DEF U
    <3> QED BY <3>1, Least
  <2> DEFINE k == N - j
  <2>2. j \in 0 .. N /\ ~Begins(k) /\ k \in 0 .. N
    OBVIOUS
  <2>3. CASE j = 0
    <3>1. k = N
      BY <2>3
    <3>2. Begins(N)
      BY <1>2 DEF Begins
    <3> QED BY <3>1, <3>2, <2>2, Zenon
  <2>4. CASE j # 0
    <3>1. j - 1 \in 0 .. N /\ ~(j <= j - 1) /\ N - (j - 1) = k + 1
      BY <2>2, <2>4
    <3>2. j - 1 \notin U
      BY <3>1, <2>1
    <3> HIDE DEF k
    <3>3. Begins(k + 1)
      BY <3>1, <3>2, Zenon
    <3>4. k + 1 \in 1 .. N /\ k + 1 \in 0 .. N /\ (k + 1) - 1 = k
      <4>1. k = N - j /\ j \in 1 .. N
        BY <2>2, <2>4 DEF k
      <4> QED BY <4>1
    <3> DEFINE s == m[k]  t == b[k + 1]  w == m[k + 1]
    <3>5. s \in Seq(Byte) /\ t \in Seq(Byte) /\ w = s \o t
      BY <3>4, <2>2, <1>0, <1>2, Zenon
    <3>6. Len(s) \in Nat /\ Len(t) \in Nat /\ Len(m[N]) \in Nat
      BY <3>5, <1>2, LenProperties
    <3>7. Len(w) <= Len(m[N]) /\ \A i \in 1 .. Len(w) : m[N][i] = w[i]
      BY <3>3, Zenon DEF Begins
    <3> HIDE DEF s, t, w
    <3>8. /\ Len(s \o t) = Len(s) + Len(t) /\ \A i \in 1 .. Len(s) : (s \o t)[i] = s[i]
      BY <3>5, JoinedAt
    <3>9. Len(w) = Len(s) + Len(t) /\ \A i \in 1 .. Len(s) : w[i] = s[i]
      BY <3>5, <3>8, Zenon
    <3>10. Len(s) <= Len(m[N]) /\ \A i \in 1 .. Len(s) : i \in 1 .. Len(w)
      BY <3>6, <3>7, <3>9
    <3>11. \A i \in 1 .. Len(s) : m[N][i] = s[i]
      BY <3>7, <3>9, <3>10
    <3> QED BY <3>10, <3>11, <2>2 DEF Begins, s
  <2> QED BY <2>3, <2>4
<1>4. ASSUME NEW k \in 0 .. N  PROVE Begins(k)
  <2> DEFINE j == N - k
  <2>1. j \in 0 .. N /\ N - j = k
    OBVIOUS
  <2> HIDE DEF j
  <2> QED BY <2>1, <1>3, Zenon
<1> QED BY <1>2, <1>4 DEF Begins

\* The header of a message and the question behind it.
PrefaceHolds(a, p, n) ==
  /\ p \in Seq(Byte) /\ n \in Seq(Byte) /\ Len(p) = 12 + (Len(n) + 1) + 4
  /\ 256 * p[1] + p[2] = a.id /\ 256 * p[3] + p[4] = Flags(a)
  /\ 256 * p[5] + p[6] = 1 /\ 256 * p[7] + p[8] = Len(a.records)
  /\ HoldsAt(p, 12, n \o <<0>>)

\* The flags of a message are accepted when it is a response without error.
LEMMA FlagsWord ==
  ASSUME NEW a \in Answers
  PROVE  Flags(a) \in Word /\ (Accepts(Flags(a)) <=> a.response /\ a.rcode = 0)
<1> DEFINE b == a.bits  c == a.rcode
<1>1. b \in Nat /\ b < 2048 /\ c \in Nat /\ c < 16 /\ a.response \in BOOLEAN
  BY AnswerSent
<1> HIDE DEF b, c
<1>2. CASE a.response
  <2>1. Flags(a) = 32768 + 16 * b + c
    BY <1>2 DEF Flags, b, c
  <2>2. (32768 + 16 * b + c) % 16 = c
    BY <1>1
  <2> QED BY <2>1, <2>2, <1>1, <1>2 DEF Word, Accepts, c
<1>3. CASE ~a.response
  <2>1. Flags(a) = 0 + 16 * b + c
    BY <1>3 DEF Flags, b, c
  <2> QED BY <2>1, <1>1, <1>3 DEF Word, Accepts
<1> QED BY <1>1, <1>2, <1>3

\* The header and the question of a message are at their places, and
\* skip_dns_name walks over the question's name.
LEMMA PrefaceLaid ==
  ASSUME WellFounded, NEW a \in Answers
  PROVE  LET n == QueryName(a.question.host).bytes IN
         PrefaceHolds(a, Preface(a), n) /\ Walks(n)
<1> DEFINE q == a.question  id == q.id  host == q.host  qtype == q.qtype
           name == QueryName(host)
           n == name.bytes
           query == make_dns_query(id, host, qtype)
           b == query.bytes
           end == 12 + Len(n) + 1
           h == HeaderOf(a.id, Flags(a), 1, Len(a.records), 0, 0)
           t == After(b, 12)
           p == h \o t
<1>1. id \in Word /\ host \in Seq(Byte) /\ qtype \in Word /\ Len(host) <= 255 /\ name.ok
  BY AnswerSent
<1> HIDE DEF id, host, qtype
<1>2. /\ (query.ok <=> name.ok)
      /\ query.ok => /\ b \in Seq(Byte) /\ Len(b) = end + 4
                     /\ HoldsAt(b, 12, n \o <<0>>)
  BY <1>1, QueryBytes, Zenon
<1>3. name.ok => NamedFrom(host, 0, name) /\ Walks(n)
  BY <1>1, NameWalked, Zenon
<1> HIDE DEF name, query
<1>4. n \in Seq(Byte) /\ Walks(n)
  BY <1>1, <1>3, Zenon DEF NamedFrom
<1>5. b \in Seq(Byte) /\ Len(b) = end + 4 /\ HoldsAt(b, 12, n \o <<0>>)
  BY <1>1, <1>2, Zenon
<1>6. Heads(h, a.id, Flags(a), 1, Len(a.records))
  <2>1. a.id \in Word /\ Flags(a) \in Word /\ Len(a.records) \in Word /\ 0 \in Word /\ 1 \in Word
    BY AnswerSent, FlagsWord DEF Word
  <2> QED BY <2>1, Header, ZenonT(40)
<1> HIDE DEF n, b, h
<1>7. Len(n) \in Nat /\ Len(b) \in Nat /\ 12 \in 0 .. Len(b)
  <2>1. Len(n) \in Nat
    BY <1>4, LenProperties, Zenon
  <2> QED BY <2>1, <1>5
<1>8. /\ t \in Seq(Byte) /\ Len(t) = Len(b) - 12
      /\ \A i \in 1 .. Len(b) - 12 : t[i] = b[12 + i]
  BY <1>5, <1>7, Parted, ZenonT(40)
<1> HIDE DEF t
<1>9. h \in Seq(Byte) /\ Len(h) = 12
  BY <1>6, Zenon DEF Heads
<1>10. /\ p \in Seq(Byte) /\ Len(p) = Len(h) + Len(t)
       /\ \A i \in 1 .. Len(h) : p[i] = h[i]
       /\ \A i \in 1 .. Len(t) : p[Len(h) + i] = t[i]
  <2>1. h \in Seq(Byte) /\ t \in Seq(Byte)
    BY <1>8, <1>9, Zenon
  <2> QED BY <2>1, JoinedAt
<1>11. Preface(a) = p
  BY Zenon DEF Preface, p, h, t, b, query, id, host, qtype
<1> HIDE DEF p
<1>12. Len(p) = 12 + (Len(n) + 1) + 4
  BY <1>5, <1>7, <1>8, <1>9, <1>10
<1>13. \A i \in 1 .. 12 : p[i] = h[i]
  BY <1>9, <1>10, Zenon
<1>14. /\ 256 * p[1] + p[2] = a.id /\ 256 * p[3] + p[4] = Flags(a)
       /\ 256 * p[5] + p[6] = 1 /\ 256 * p[7] + p[8] = Len(a.records)
  BY <1>6, <1>13 DEF Heads
<1>15. HoldsAt(p, 12, n \o <<0>>)
  <2> DEFINE w == n \o <<0>>
  <2>1. w \in Seq(Byte) /\ Len(w) = Len(n) + 1
    <3> DEFINE z == <<0>>
    <3>1. z \in Seq(Byte) /\ Len(z) = 1
      BY DEF Byte
    <3> HIDE DEF z
    <3>2. n \o z \in Seq(Byte) /\ Len(n \o z) = Len(n) + Len(z)
      BY <3>1, <1>4, Joined, Zenon
    <3>3. w = n \o z
      BY Zenon DEF z
    <3> HIDE DEF w
    <3> QED BY <3>1, <3>2, <3>3, Zenon
  <2>2. HoldsAt(b, 12, w)
    BY <1>5, Zenon
  <2> HIDE DEF w
  <2>3. ASSUME NEW i \in 1 .. Len(w)  PROVE p[12 + i] = w[i]
    <3>1. i \in 1 .. Len(t) /\ i \in 1 .. Len(b) - 12 /\ 12 + i <= Len(b)
      BY <2>1, <1>5, <1>7, <1>8
    <3>2. p[12 + i] = t[i] /\ t[i] = b[12 + i]
      BY <3>1, <1>8, <1>9, <1>10, ZenonT(40)
    <3>3. b[12 + i] = w[i]
      BY <3>1, <2>2 DEF HoldsAt
    <3> QED BY <3>2, <3>3
  <2>4. HoldsAt(p, 12, w)
    BY <2>3, Zenon DEF HoldsAt
  <2> QED BY <2>4, Zenon DEF w
<1>16. PrefaceHolds(a, p, n)
  BY <1>4, <1>10, <1>12, <1>14, <1>15 DEF PrefaceHolds
<1> QED BY <1>4, <1>11, <1>16 DEF n, name, host

\* What dns_recv is handed of a message, and where its records are in it.
Arrived(a) == CutAt(Message(a, Len(a.records)), a.cut)
Offset(a, k) == Len(Message(a, k))

Received(a, packet) ==
  /\ packet \in Seq(Byte) /\ HoldsAt(packet, 0, Preface(a))
  /\ Offset(a, 0) = Len(Preface(a))
  /\ \A k \in 0 .. Len(a.records) :
       Offset(a, k) \in Nat /\ (Offset(a, k) <= Len(packet) <=> Offset(a, k) <= a.cut)
  /\ \A k \in 1 .. Len(a.records) :
       /\ Offset(a, k) = Offset(a, k - 1) + Len(RecordBytes(a.records[k]))
       /\ HoldsAt(packet, Offset(a, k - 1), RecordBytes(a.records[k]))

\* What dns_recv is handed is the message up to where it is cut, with its
\* records at their offsets.
LEMMA AnswerReceived ==
  ASSUME WellFounded, NEW a \in Answers
  PROVE  Received(a, Arrived(a))
<1> DEFINE N == Len(a.records)  p == Preface(a)
           m == [k \in 0 .. N |-> Message(a, k)]
           b == [k \in 1 .. N |-> RecordBytes(a.records[k])]
           packet == Arrived(a)
<1>1. N \in Nat /\ a.cut \in Nat
  BY AnswerSent
<1>2. PICK records :
           /\ records[0] = <<>>
           /\ \A k \in 1 .. N : records[k] = records[k - 1] \o RecordBytes(a.records[k])
           /\ \A k : Message(a, k) = p \o records[k]
  BY <1>1, MessageTurns, Zenon
<1>3. p \in Seq(Byte)
  BY PrefaceLaid DEF PrefaceHolds
<1>4. \A k \in 1 .. N : b[k] = RecordBytes(a.records[k]) /\ b[k] \in Seq(Byte)
  <2> SUFFICES ASSUME NEW k \in 1 .. N  PROVE RecordBytes(a.records[k]) \in Seq(Byte)
    BY Zenon
  <2>1. Fine(a.records[k])
    BY RecordSent, Zenon
  <2>2. RecordLaid(a.records[k], RecordBytes(a.records[k]))
    BY <2>1, RecordLayout, Zenon
  <2> QED BY <2>2 DEF RecordLaid
<1>5. \A k \in 0 .. N : m[k] = Message(a, k)
  BY Zenon
<1> HIDE DEF N, p, m, b
<1>6. 0 \in 0 .. N /\ N \in 0 .. N /\ \A k \in 1 .. N : k \in 0 .. N /\ k - 1 \in 0 .. N
  BY <1>1
<1>7. m[0] = p
  BY <1>2, <1>3, <1>5, <1>6
<1> DEFINE S == {k \in 0 .. N : records[k] \notin Seq(Byte)}
<1>8. S = {}
  <2> SUFFICES ASSUME S # {}  PROVE FALSE
    BY Zenon
  <2>1. PICK k \in S : \A l \in S : k <= l
    <3>1. S \in SUBSET Nat
      BY <1>1
    <3> HIDE DEF S
    <3> QED BY <3>1, Least
  <2>0. records[0] \in Seq(Byte)
    BY <1>2
  <2>2. k \in 0 .. N /\ records[k] \notin Seq(Byte) /\ k # 0
    BY <2>0, Zenon
  <2>3. k - 1 \in 0 .. N /\ k - 1 \notin S /\ k \in 1 .. N
    BY <2>1, <2>2, <1>1
  <2>4. records[k - 1] \in Seq(Byte) /\ b[k] \in Seq(Byte) /\ records[k] = records[k - 1] \o b[k]
    BY <2>3, <1>2, <1>4, Zenon
  <2>5. records[k - 1] \o b[k] \in Seq(Byte)
    BY <2>4, Joined
  <2> QED BY <2>2, <2>4, <2>5
<1>9. ASSUME NEW k \in 1 .. N  PROVE m[k] = m[k - 1] \o b[k]
  <2> DEFINE r == records[k - 1]  c == b[k]
  <2>1. r \in Seq(Byte) /\ c \in Seq(Byte)
    BY <1>4, <1>6, <1>8
  <2>2. m[k] = p \o records[k] /\ m[k - 1] = p \o r /\ records[k] = r \o c
    BY <1>2, <1>4, <1>5, <1>6, Zenon
  <2> HIDE DEF r, c
  <2>3. p \o (r \o c) = (p \o r) \o c
    BY <2>1, <1>3, Chained, ZenonT(40)
  <2> QED BY <2>2, <2>3, Zenon DEF c
<1> HIDE DEF S
<1>10. \A k \in 0 .. N : /\ m[k] \in Seq(Byte) /\ Len(m[k]) <= Len(m[N])
                         /\ \A i \in 1 .. Len(m[k]) : m[N][i] = m[k][i]
  <2>1. Grows(N, m, b)
    BY <1>3, <1>4, <1>7, <1>9, Zenon DEF Grows
  <2>2. N \in Nat
    BY <1>1
  <2> QED BY <2>1, <2>2, Growing
<1>11. \A k \in 0 .. N : Offset(a, k) = Len(m[k]) /\ Len(m[k]) \in Nat
  BY <1>5, <1>10, LenProperties DEF Offset
<1> DEFINE all == m[N]
<1>12. packet = CutAt(all, a.cut) /\ all \in Seq(Byte) /\ Len(all) \in Nat
  BY <1>5, <1>6, <1>10, <1>11 DEF Arrived, N
<1> HIDE DEF packet, all
<1>13. /\ packet \in Seq(Byte) /\ Len(packet) \in Nat /\ Len(packet) <= Len(all)
       /\ \A i \in 1 .. Len(packet) : packet[i] = all[i]
       /\ \A l \in Nat : l <= Len(all) => (l <= Len(packet) <=> l <= a.cut)
  <2>1. CASE a.cut < Len(all)
    <3>1. packet = First(all, a.cut) /\ a.cut \in 0 .. Len(all)
      BY <2>1, <1>1, <1>12 DEF CutAt
    <3> DEFINE f == First(all, a.cut)
    <3>2. /\ f \in Seq(Byte) /\ Len(f) = a.cut
          /\ \A i \in 1 .. a.cut : f[i] = all[i]
      BY <3>1, <1>12, Parted, Zenon
    <3> HIDE DEF f
    <3>3. packet = f
      BY <3>1, Zenon DEF f
    <3> QED BY <2>1, <3>2, <3>3, <1>1, <1>12
  <2>2. CASE ~(a.cut < Len(all))
    <3>1. packet = all
      BY <2>2, <1>12 DEF CutAt
    <3> QED BY <3>1, <2>2, <1>1, <1>12
  <2> QED BY <2>1, <2>2
<1>14. ASSUME NEW k \in 0 .. N
       PROVE  Offset(a, k) \in Nat /\ (Offset(a, k) <= Len(packet) <=> Offset(a, k) <= a.cut)
  <2>1. Offset(a, k) \in Nat /\ Offset(a, k) <= Len(all)
    BY <1>10, <1>11 DEF all
  <2> QED BY <2>1, <1>13
<1>15. HoldsAt(packet, 0, p)
  <2> SUFFICES ASSUME NEW i \in 1 .. Len(p), 0 + i <= Len(packet)  PROVE packet[0 + i] = p[i]
    BY Zenon DEF HoldsAt
  <2>1. Len(p) \in Nat /\ Len(p) = Len(m[0])
    BY <1>3, <1>7, LenProperties
  <2>2. 0 + i = i /\ i \in 1 .. Len(packet) /\ i \in 1 .. Len(m[0])
    BY <2>1, <1>13
  <2>3. packet[i] = all[i] /\ all[i] = m[0][i]
    BY <2>2, <1>6, <1>10, <1>13 DEF all
  <2> QED BY <2>2, <2>3, <1>7
<1>16. ASSUME NEW k \in 1 .. N
       PROVE  /\ Offset(a, k) = Offset(a, k - 1) + Len(RecordBytes(a.records[k]))
              /\ HoldsAt(packet, Offset(a, k - 1), RecordBytes(a.records[k]))
  <2> DEFINE s == m[k - 1]  t == b[k]  w == m[k]
  <2>1. /\ s \in Seq(Byte) /\ t \in Seq(Byte) /\ w = s \o t /\ t = RecordBytes(a.records[k])
        /\ Offset(a, k - 1) = Len(s) /\ Offset(a, k) = Len(w)
        /\ Len(w) <= Len(all) /\ \A i \in 1 .. Len(w) : all[i] = w[i]
    BY <1>4, <1>6, <1>9, <1>10, <1>11, ZenonT(40) DEF all
  <2>2. Len(s) \in Nat /\ Len(t) \in Nat
    BY <2>1, LenProperties
  <2> HIDE DEF s, t, w
  <2>3. /\ Len(s \o t) = Len(s) + Len(t)
        /\ \A i \in 1 .. Len(t) : (s \o t)[Len(s) + i] = t[i]
    BY <2>1, JoinedAt
  <2>4. Len(w) = Len(s) + Len(t) /\ \A i \in 1 .. Len(t) : w[Len(s) + i] = t[i]
    BY <2>1, <2>3, Zenon
  <2>5. HoldsAt(packet, Len(s), t)
    <3> SUFFICES ASSUME NEW i \in 1 .. Len(t), Len(s) + i <= Len(packet)
                 PROVE  packet[Len(s) + i] = t[i]
      BY Zenon DEF HoldsAt
    <3>1. Len(s) + i \in 1 .. Len(packet) /\ Len(s) + i \in 1 .. Len(w)
      BY <2>2, <2>4, <1>13
    <3>2. packet[Len(s) + i] = all[Len(s) + i] /\ all[Len(s) + i] = w[Len(s) + i]
      BY <3>1, <2>1, <1>13, Zenon
    <3> QED BY <3>2, <2>4
  <2> QED BY <2>1, <2>4, <2>5, Zenon
<1>17. Offset(a, 0) = Len(p)
  BY <1>6, <1>7, <1>11
<1> QED BY <1>13, <1>14, <1>15, <1>16, <1>17 DEF Received, packet, N, p

-----------------------------------------------------------------------------
(* parse_dns_response. *)

\* The body of the loop at the n-th answer, for every offset, and what the turns
\* behind it give.
AnswerAt(packet, ancount, qtype, behind, n) ==
  [offset \in 0 .. Len(packet) |->
     LET name == skip_dns_name(packet, offset)
         type == read_u16(packet, name.offset)
         class == read_u16(packet, name.offset + 2)
         rdlen == read_u16(packet, name.offset + 8)
         data == name.offset + 10
         ip == Address(packet, data, type, rdlen)
     IN IF n = ancount \/ ~name.ok \/ data > Len(packet) \/ data + rdlen > Len(packet)
        THEN NoAddress
        ELSE IF class = DnsClassIn /\ type = qtype /\ ip.ok THEN ip
        ELSE behind[data + rdlen]]

Answering(packet, ancount, qtype, answer) ==
  answer = [n \in 0 .. ancount |-> AnswerAt(packet, ancount, qtype, answer[n + 1], n)]

\* The turns of parse_dns_response's loop over the answers exist.
LEMMA AnswersExist ==
  ASSUME WellFounded, NEW packet, NEW ancount \in Nat, NEW qtype
  PROVE  \E answer : Answering(packet, ancount, qtype, answer)
<1> DEFINE L == ancount
           At(x, n) == AnswerAt(packet, L, qtype, x, n)
           Upto(k, g) == g = [n \in L - k .. L |-> At(g[n + 1], n)]
           T == {k \in 0 .. L : ~\E g : Upto(k, g)}
<1>l. \A x, y : At(x, L) = At(y, L)
  BY Zenon DEF AnswerAt
<1> HIDE DEF At
<1>1. T = {}
  <2> SUFFICES ASSUME T # {}  PROVE FALSE
    BY Zenon
  <2>1. PICK k \in T : \A m \in T : k <= m
    <3>1. T \in SUBSET Nat
      OBVIOUS
    <3> HIDE DEF T
    <3> QED BY <3>1, Least
  <2>2. k \in 0 .. L /\ ~\E g : Upto(k, g)
    BY Zenon
  <2>3. \E h : \A m \in L - k + 1 .. L : h[m] = At(h[m + 1], m)
    <3>1. CASE k = 0
      BY <3>1
    <3>2. CASE k # 0
      <4>1. k - 1 \in 0 .. L /\ ~(k <= k - 1)
        BY <3>2, <2>2
      <4>2. PICK h : Upto(k - 1, h)
        BY <4>1, <2>1, Zenon
      <4>3. L - (k - 1) = L - k + 1
        BY <2>2
      <4>4. \A m \in L - k + 1 .. L : h[m] = At(h[m + 1], m)
        BY <4>2, <4>3
      <4> QED BY <4>4, Zenon
    <3> QED BY <3>1, <3>2, Zenon
  <2>4. PICK h : \A m \in L - k + 1 .. L : h[m] = At(h[m + 1], m)
    BY <2>3, Zenon
  <2> DEFINE g == [n \in L - k .. L |-> At(h[n + 1], n)]
  <2>5. \A m \in L - k .. L : g[m] = At(h[m + 1], m)
    BY Zenon
  <2>6. \A m \in L - k + 1 .. L : g[m] = h[m]
    <3>1. \A m \in L - k + 1 .. L : m \in L - k .. L
      BY <2>2
    <3> QED BY <3>1, <2>4, <2>5, Zenon
  <2>f. g = [n \in L - k .. L |-> g[n]]
    BY Zenon
  <2> HIDE DEF g
  <2>7. ASSUME NEW n \in L - k .. L  PROVE g[n] = At(g[n + 1], n)
    <3>1. CASE n = L
      BY <3>1, <2>5, <1>l
    <3>2. CASE n # L
      <4>1. n + 1 \in L - k + 1 .. L
        BY <3>2, <2>2
      <4>2. g[n + 1] = h[n + 1]
        BY <4>1, <2>6
      <4> QED BY <4>2, <2>5
    <3> QED BY <3>1, <3>2, Zenon
  <2>8. Upto(k, g)
    BY <2>7, <2>f, ZenonT(40)
  <2> QED BY <2>8, <2>2
<1>2. L \in 0 .. L /\ L - L = 0
  OBVIOUS
<1>3. \E g : Upto(L, g)
  BY <1>1, <1>2, Zenon
<1>4. \E g : g = [n \in 0 .. L |-> At(g[n + 1], n)]
  BY <1>2, <1>3
<1> QED BY <1>4, Zenon DEF At, Answering

\* FindAnswer is a function of its turns.
Turning(packet, ancount, qtype, answer) ==
  /\ \A n \in 0 .. ancount : answer[n] = AnswerAt(packet, ancount, qtype, answer[n + 1], n)
  /\ \A first : FindAnswer(packet, ancount, first, qtype) = answer[0][first]

\* FindAnswer gives what the first of those turns gives.
LEMMA AnswerTurns ==
  ASSUME WellFounded, NEW packet, NEW ancount \in Nat, NEW qtype
  PROVE  \E answer : Turning(packet, ancount, qtype, answer)
<1> DEFINE f == CHOOSE answer : Answering(packet, ancount, qtype, answer)
<1>1. Answering(packet, ancount, qtype, f)
  BY AnswersExist, Zenon
<1>2. \A first : FindAnswer(packet, ancount, first, qtype) = f[0][first]
  BY Zenon DEF FindAnswer, AnswerAt, Answering
<1> HIDE DEF f
<1>3. \A n \in 0 .. ancount : f[n] = AnswerAt(packet, ancount, qtype, f[n + 1], n)
  BY <1>1, Zenon DEF Answering
<1> QED BY <1>2, <1>3 DEF Turning

\* Reading inside bytes that a packet holds.
LEMMA ReadsByte ==
  ASSUME NEW packet \in Seq(Byte), NEW b \in Seq(Byte), NEW o \in Nat, NEW i \in Nat,
         HoldsAt(packet, o, b), o + i < Len(packet), i < Len(b)
  PROVE  ByteAt(packet, o + i) = b[i + 1]
<1>0. Len(packet) \in Nat /\ Len(b) \in Nat
  BY LenProperties
<1>1. i + 1 \in 1 .. Len(b) /\ o + (i + 1) <= Len(packet) /\ o + (i + 1) = (o + i) + 1
  BY <1>0
<1>2. packet[o + (i + 1)] = b[i + 1]
  BY <1>1 DEF HoldsAt
<1>3. ByteAt(packet, o + i) = packet[(o + i) + 1]
  BY Zenon DEF ByteAt
<1> QED BY <1>1, <1>2, <1>3

WordIn(packet, o, b, i) ==
  /\ packet \in Seq(Byte) /\ b \in Seq(Byte) /\ o \in Nat /\ i \in Nat
  /\ HoldsAt(packet, o, b) /\ o + i + 1 < Len(packet) /\ i + 1 < Len(b)

\* read_u16 inside bytes that a packet holds.
LEMMA ReadsWord ==
  ASSUME NEW packet, NEW b, NEW o, NEW i, WordIn(packet, o, b, i)
  PROVE  read_u16(packet, o + i) = 256 * b[i + 1] + b[i + 2]
<1>a. /\ packet \in Seq(Byte) /\ b \in Seq(Byte) /\ o \in Nat /\ i \in Nat
      /\ HoldsAt(packet, o, b) /\ o + i + 1 < Len(packet) /\ i + 1 < Len(b)
  BY Zenon DEF WordIn
<1>0. Len(packet) \in Nat /\ Len(b) \in Nat
  BY <1>a, LenProperties
<1>1. /\ o + i < Len(packet) /\ i < Len(b) /\ i + 1 \in Nat /\ o + (i + 1) < Len(packet)
      /\ (i + 1) + 1 = i + 2 /\ o + (i + 1) = o + i + 1
  BY <1>0, <1>a
<1>2. ByteAt(packet, o + i) = b[i + 1]
  BY <1>1, <1>a, ReadsByte
<1>3. ByteAt(packet, o + (i + 1)) = b[(i + 1) + 1]
  BY <1>1, <1>a, ReadsByte
<1>4. ByteAt(packet, o + i + 1) = b[i + 2]
  BY <1>1, <1>3, Zenon
<1> QED BY <1>2, <1>4 DEF read_u16

\* The address in the data of a record that a packet holds whole.
LEMMA RecordAddress ==
  ASSUME NEW packet \in Seq(Byte), NEW p \in Nat, NEW r, Fine(r),
         HoldsAt(packet, p, r.data), p + Len(r.data) <= Len(packet),
         NEW qtype \in {DnsTypeA, DnsTypeAaaa}
  PROVE  LET ip == Address(packet, p, r.type, Len(r.data)) IN
         /\ Matches(r, qtype) => ip = [ok |-> TRUE, words |-> Kept(r)]
         /\ ~Matches(r, qtype) => ~(r.class = DnsClassIn /\ r.type = qtype /\ ip.ok)
<1> DEFINE d == r.data  l == Len(d)
<1>0. d \in Seq(Byte) /\ l \in Nat /\ Len(packet) \in Nat /\ DnsTypeA # DnsTypeAaaa
  BY LenProperties DEF Fine, DnsTypeA, DnsTypeAaaa
<1>a. HoldsAt(packet, p, d) /\ p + l <= Len(packet)
  BY Zenon
<1>b. ASSUME NEW j \in Nat, j + 4 <= l
      PROVE  read_u32(packet, p + j) = [i \in 1 .. 4 |-> d[j + i]]
  <2> HIDE DEF d, l
  <2>1. ASSUME NEW i \in 1 .. 4  PROVE ByteAt(packet, p + j + i - 1) = d[j + i]
    <3> DEFINE m == j + i - 1
    <3>1. m \in Nat /\ p + m < Len(packet) /\ m < Len(d) /\ m + 1 = j + i
          /\ p + m = p + j + i - 1
      BY <1>0, <1>a, <1>b DEF l
    <3> HIDE DEF m
    <3>2. ByteAt(packet, p + m) = d[m + 1]
      BY <3>1, <1>0, <1>a, ReadsByte
    <3> QED BY <3>1, <3>2
  <2> QED BY <2>1, Zenon DEF read_u32
<1>1. CASE Matches(r, qtype) /\ qtype = DnsTypeA
  <2>1. r.type = DnsTypeA /\ l = 4
    BY <1>1, Zenon DEF Matches
  <2> DEFINE w == [i \in 1 .. 4 |-> d[0 + i]]
  <2>2. read_u32(packet, p) = w
    <3>1. 0 \in Nat /\ 0 + 4 <= l /\ p + 0 = p
      BY <2>1
    <3>2. read_u32(packet, p + 0) = w
      BY <1>b, <3>1, Zenon
    <3> QED BY <3>1, <3>2
  <2>3. Words(r) = [k \in 1 .. l \div 4 |-> [i \in 1 .. 4 |-> d[4 * (k - 1) + i]]]
    BY Zenon DEF Words
  <2> HIDE DEF d, l
  <2>4. Words(r) = [k \in 1 .. 1 |-> w]
    <3>1. l \div 4 = 1
      BY <2>1
    <3>2. ASSUME NEW k \in 1 .. 1  PROVE [i \in 1 .. 4 |-> d[4 * (k - 1) + i]] = w
      BY k = 1, 4 * (1 - 1) = 0
    <3> QED BY <2>3, <3>1, <3>2, Zenon
  <2>5. Kept(r) = [k \in 1 .. 1 |-> w]
    BY <2>1, <2>4 DEF Kept
  <2>6. Address(packet, p, r.type, l) = [ok |-> TRUE, words |-> <<read_u32(packet, p)>>]
    BY <2>1, <1>0, Zenon DEF Address
  <2> HIDE DEF w
  <2>7. <<read_u32(packet, p)>> = [k \in 1 .. 1 |-> w]
    BY <2>2
  <2> QED BY <2>5, <2>6, <2>7, <1>1, ZenonT(40) DEF l, d
<1>2. CASE Matches(r, qtype) /\ qtype # DnsTypeA
  <2>1. r.type = DnsTypeAaaa /\ r.type # DnsTypeA /\ l = 16
    BY <1>0, <1>2 DEF Matches
  <2> DEFINE W(k) == [i \in 1 .. 4 |-> d[4 * (k - 1) + i]]
  <2>2. ASSUME NEW k \in 1 .. 4  PROVE read_u32(packet, p + 4 * (k - 1)) = W(k)
    <3> DEFINE j == 4 * (k - 1)
    <3>1. j \in Nat /\ j + 4 <= l
      BY <2>1
    <3> HIDE DEF j
    <3>2. read_u32(packet, p + j) = [i \in 1 .. 4 |-> d[j + i]]
      BY <1>b, <3>1, Zenon
    <3> QED BY <3>2, Zenon DEF j
  <2>3. Words(r) = [k \in 1 .. l \div 4 |-> W(k)]
    BY Zenon DEF Words
  <2>4. l \div 4 = 4
    BY <2>1
  <2> HIDE DEF d, l, W
  <2>5. \A k \in 1 .. 4 : Words(r)[k] = W(k)
    BY <2>3, <2>4, Zenon
  <2>6. Kept(r) = [k \in 1 .. 4 |-> InMemory(W(k))]
    BY <2>1, <2>5, Zenon DEF Kept
  <2>7. Address(packet, p, r.type, l)
          = [ok |-> TRUE,
             words |-> [k \in 1 .. 4 |-> InMemory(read_u32(packet, p + 4 * (k - 1)))]]
    BY <2>1, <1>0, Zenon DEF Address
  <2>8. [k \in 1 .. 4 |-> InMemory(read_u32(packet, p + 4 * (k - 1)))]
          = [k \in 1 .. 4 |-> InMemory(W(k))]
    BY <2>2, Zenon
  <2> QED BY <2>6, <2>7, <2>8, <1>2, Zenon DEF l, d
<1>3. CASE ~Matches(r, qtype)
  <2> SUFFICES ASSUME r.class = DnsClassIn, r.type = qtype
               PROVE  ~Address(packet, p, r.type, l).ok
    BY <1>3
  <2>1. l # IF qtype = DnsTypeA THEN 4 ELSE 16
    BY <1>3, Zenon DEF Matches
  <2>2. Address(packet, p, r.type, l) = NoAddress
    BY <2>1, <1>0, Zenon DEF Address
  <2> QED BY <2>2 DEF NoAddress
<1> QED BY <1>1, <1>2, <1>3

\* A record that ends at end is taken or, with what follows it, passed over.
TakenOrPassed(packet, r, qtype, end, v, behind) ==
  IF end <= Len(packet)
  THEN v = IF Matches(r, qtype) THEN [ok |-> TRUE, words |-> Kept(r)] ELSE behind[end]
  ELSE v = NoAddress

\* One turn: a record that arrived whole is taken or passed over, one that did
\* not ends the search.
LEMMA RecordTurn ==
  ASSUME WellFounded, NEW packet \in Seq(Byte), NEW o \in Nat, o <= Len(packet), NEW r, Fine(r),
         HoldsAt(packet, o, RecordBytes(r)), NEW qtype \in {DnsTypeA, DnsTypeAaaa},
         NEW ancount, NEW n, n # ancount, NEW behind
  PROVE  TakenOrPassed(packet, r, qtype, o + Len(RecordBytes(r)),
                       AnswerAt(packet, ancount, qtype, behind, n)[o], behind)
<1> DEFINE v == AnswerAt(packet, ancount, qtype, behind, n)[o]
           b == RecordBytes(r)
           nb == NameBytes(r.name)
           l == Len(nb)
           d == Len(r.data)
           end == o + Len(b)
           name == skip_dns_name(packet, o)
           type == read_u16(packet, name.offset)
           class == read_u16(packet, name.offset + 2)
           rdlen == read_u16(packet, name.offset + 8)
           data == name.offset + 10
           ip == Address(packet, data, type, rdlen)
<1>0. Len(packet) \in Nat /\ o \in 0 .. Len(packet)
  BY LenProperties
<1>1. v = IF ~name.ok \/ data > Len(packet) \/ data + rdlen > Len(packet) THEN NoAddress
          ELSE IF class = DnsClassIn /\ type = qtype /\ ip.ok THEN ip
          ELSE behind[data + rdlen]
  BY <1>0, Zenon DEF AnswerAt
<1>2. RecordLaid(r, b)
  BY RecordLayout, Zenon
<1>3. nb \in Seq(Byte) /\ l \in Nat /\ d \in Nat
  <2>1. nb \in Seq(Byte)
    BY NameSkipped, Zenon DEF Fine
  <2> QED BY <2>1, LenProperties DEF Fine, Word
<1>4. /\ b \in Seq(Byte) /\ Len(b) = l + 10 + d
      /\ \A i \in 1 .. l : b[i] = nb[i]
      /\ 256 * b[l + 1] + b[l + 2] = r.type
      /\ 256 * b[l + 3] + b[l + 4] = r.class
      /\ 256 * b[l + 9] + b[l + 10] = d
      /\ \A i \in 1 .. d : b[l + 10 + i] = r.data[i]
  BY <1>2, Zenon DEF RecordLaid
<1>5. HoldsAt(packet, o, b)
  BY Zenon
<1> HIDE DEF v, b, nb, l, d
<1>6. HoldsAt(packet, o, nb)
  <2> SUFFICES ASSUME NEW i \in 1 .. Len(nb), o + i <= Len(packet)  PROVE packet[o + i] = nb[i]
    BY Zenon DEF HoldsAt
  <2>1. i \in 1 .. l /\ i \in 1 .. Len(b)
    BY <1>3, <1>4 DEF l
  <2> QED BY <2>1, <1>4, <1>5 DEF HoldsAt
<1>7. name = Skipped(packet, o, l)
  BY <1>6, NameSkipped, Zenon DEF Fine, nb, l
<1> HIDE DEF name
<1>8. CASE ~(o + l <= Len(packet))
  <2>1. name = Failed /\ ~Failed.ok
    BY <1>7, <1>8, Zenon DEF Skipped, Failed
  <2>2. v = NoAddress
    BY <2>1, <1>1
  <2>3. ~(end <= Len(packet))
    BY <1>0, <1>3, <1>4, <1>8
  <2> QED BY <2>2, <2>3, Zenon DEF TakenOrPassed, v, b
<1>9. CASE o + l <= Len(packet)
  <2>1. name.ok /\ name.offset = o + l
    BY <1>7, <1>9 DEF Skipped
  <2>2. CASE data > Len(packet)
    <3>1. v = NoAddress
      BY <2>2, <1>1, Zenon
    <3>2. ~(end <= Len(packet))
      BY <2>1, <2>2, <1>0, <1>3, <1>4
    <3> QED BY <3>1, <3>2, Zenon DEF TakenOrPassed, v, b
  <2>3. CASE ~(data > Len(packet))
    <3>1. o + l + 10 <= Len(packet)
      BY <2>1, <2>3, <1>0, <1>3
    <3>2. type = r.type
      <4>1. l \in Nat /\ o + l + 1 < Len(packet) /\ l + 1 < Len(b)
        BY <3>1, <1>0, <1>3, <1>4
      <4>a. WordIn(packet, o, b, l)
        BY <4>1, <1>4, <1>5 DEF WordIn
      <4>2. read_u16(packet, o + l) = 256 * b[l + 1] + b[l + 2]
        BY <4>a, ReadsWord
      <4>3. read_u16(packet, name.offset) = 256 * b[l + 1] + b[l + 2]
        BY <4>2, <2>1, Zenon
      <4> QED BY <4>3, <1>4, Zenon
    <3>3. class = r.class
      <4> DEFINE i == l + 2
      <4>1. /\ i \in Nat /\ o + i + 1 < Len(packet) /\ i + 1 < Len(b)
            /\ o + i = o + l + 2 /\ i + 1 = l + 3 /\ i + 2 = l + 4
        BY <3>1, <1>0, <1>3, <1>4
      <4> HIDE DEF i
      <4>a. WordIn(packet, o, b, i)
        BY <4>1, <1>4, <1>5 DEF WordIn
      <4>2. read_u16(packet, o + i) = 256 * b[i + 1] + b[i + 2]
        BY <4>a, ReadsWord
      <4>3. read_u16(packet, name.offset + 2) = 256 * b[l + 3] + b[l + 4]
        <5>1. name.offset + 2 = o + i
          BY <4>1, <2>1, Zenon
        <5> QED BY <5>1, <4>1, <4>2, Zenon
      <4> QED BY <4>3, <1>4, Zenon
    <3>4. rdlen = d
      <4> DEFINE i == l + 8
      <4>1. /\ i \in Nat /\ o + i + 1 < Len(packet) /\ i + 1 < Len(b)
            /\ o + i = o + l + 8 /\ i + 1 = l + 9 /\ i + 2 = l + 10
        BY <3>1, <1>0, <1>3, <1>4
      <4> HIDE DEF i
      <4>a. WordIn(packet, o, b, i)
        BY <4>1, <1>4, <1>5 DEF WordIn
      <4>2. read_u16(packet, o + i) = 256 * b[i + 1] + b[i + 2]
        BY <4>a, ReadsWord
      <4>3. read_u16(packet, name.offset + 8) = 256 * b[l + 9] + b[l + 10]
        <5>1. name.offset + 8 = o + i
          BY <4>1, <2>1, Zenon
        <5> QED BY <5>1, <4>1, <4>2, Zenon
      <4> QED BY <4>3, <1>4, Zenon
    <3>5. data + rdlen = end /\ data = o + l + 10
      BY <3>4, <2>1, <1>0, <1>3, <1>4
    <3>6. CASE ~(end <= Len(packet))
      <4>1. data + rdlen > Len(packet)
        BY <3>5, <3>6, <1>0, <1>3, <1>4
      <4>2. v = NoAddress
        BY <4>1, <1>1
      <4> QED BY <4>2, <3>6, Zenon DEF TakenOrPassed, v, b
    <3>7. CASE end <= Len(packet)
      <4> DEFINE p == o + l + 10
      <4>a. p \in Nat /\ p + d = end /\ p = o + l + 10
        <5>1. Len(b) = l + 10 + d
          BY <1>4, Zenon
        <5>2. \A x, y, z \in Nat : x + y + 10 \in Nat /\ (x + y + 10) + z = x + (y + 10 + z)
          OBVIOUS
        <5> QED BY <5>1, <5>2, <1>3
      <4> HIDE DEF p, end, data, rdlen
      <4>1. p \in Nat /\ p + d <= Len(packet) /\ ~(data + rdlen > Len(packet))
        <5>1. end \in Nat
          BY <4>a, <1>3
        <5> QED BY <5>1, <4>a, <3>5, <3>7, <1>0
      <4>2. HoldsAt(packet, p, r.data)
        <5> SUFFICES ASSUME NEW i \in 1 .. Len(r.data)  PROVE packet[p + i] = r.data[i]
          BY DEF HoldsAt
        <5>1. l + 10 + i \in 1 .. Len(b) /\ o + (l + 10 + i) = p + i /\ i \in 1 .. d
              /\ o + (l + 10 + i) <= Len(packet)
          <6>1. i \in 1 .. d
            BY DEF d
          <6>a. Len(b) = l + 10 + d
            BY <1>4
          <6>2. Len(b) = l + 10 + d /\ o + (l + 10 + i) = p + i /\ p + i <= p + d
            BY <6>1, <6>a, <4>a, <1>3
          <6> QED BY <6>1, <6>2, <4>1, <1>0, <1>3
        <5>2. packet[o + (l + 10 + i)] = b[l + 10 + i]
          BY <5>1, <1>5 DEF HoldsAt
        <5> QED BY <5>1, <5>2, <1>4
      <4>3. ip = Address(packet, p, r.type, d)
        <5>1. data = p
          BY <4>a, <3>5
        <5> HIDE DEF type
        <5> QED BY <5>1, <3>2, <3>4
      <4> HIDE DEF ip, type, class
      <4>4. /\ Matches(r, qtype) => ip = [ok |-> TRUE, words |-> Kept(r)]
            /\ ~Matches(r, qtype) => ~(r.class = DnsClassIn /\ r.type = qtype /\ ip.ok)
        <5>1. p + Len(r.data) <= Len(packet)
          BY <4>1 DEF d
        <5>2. LET a == Address(packet, p, r.type, Len(r.data)) IN
              /\ Matches(r, qtype) => a = [ok |-> TRUE, words |-> Kept(r)]
              /\ ~Matches(r, qtype) => ~(r.class = DnsClassIn /\ r.type = qtype /\ a.ok)
          BY <5>1, <4>1, <4>2, RecordAddress
        <5> QED BY <5>2, <4>3 DEF d
      <4>5. v = IF class = DnsClassIn /\ type = qtype /\ ip.ok THEN ip ELSE behind[data + rdlen]
        BY <4>1, <3>1, <2>1, <2>3, <1>1 DEF ip, type, class, rdlen, data
      <4>6. CASE Matches(r, qtype)
        <5>1. ip = [ok |-> TRUE, words |-> Kept(r)] /\ r.class = DnsClassIn /\ r.type = qtype
          BY <4>4, <4>6 DEF Matches
        <5>2. v = ip
          BY <5>1, <4>5, <3>2, <3>3, ZenonT(40)
        <5> QED BY <5>1, <5>2, <4>6, <3>7, Zenon DEF TakenOrPassed, v, b, end
      <4>7. CASE ~Matches(r, qtype)
        <5>1. ~(class = DnsClassIn /\ type = qtype /\ ip.ok)
          BY <4>4, <4>7, <3>2, <3>3
        <5>2. v = behind[end]
          BY <5>1, <4>5, <3>5
        <5> QED BY <5>2, <4>7, <3>7, Zenon DEF TakenOrPassed, v, b, end
      <4> QED BY <4>6, <4>7
    <3> QED BY <3>6, <3>7, Zenon
  <2> QED BY <2>2, <2>3, Zenon
<1> QED BY <1>8, <1>9

\* The first record behind the n-th that matches, if it arrived.
WantedFrom(a, n) ==
  { k \in n + 1 .. Len(a.records) :
      /\ Matches(a.records[k], a.question.qtype)
      /\ \A j \in n + 1 .. k - 1 : ~Matches(a.records[j], a.question.qtype)
      /\ Offset(a, k) <= a.cut }

\* What the search from the n-th record on gives, when it gets that far.
FoundFrom(a, packet, n, v) ==
  IF Offset(a, n) <= Len(packet)
  THEN /\ v.ok <=> WantedFrom(a, n) # {}
       /\ v.ok => \A k \in WantedFrom(a, n) : v.words = Kept(a.records[k])
  ELSE \A k \in n .. Len(a.records) : ~(Offset(a, k) <= a.cut)

\* WantedFrom, one record earlier.
LEMMA WantedStep ==
  ASSUME NEW a, Len(a.records) \in Nat, NEW n \in 0 .. Len(a.records) - 1
  PROVE  /\ \A k \in WantedFrom(a, n) :
              k = n + 1 \/ (k \in WantedFrom(a, n + 1) /\ ~Matches(a.records[n + 1], a.question.qtype))
         /\ n + 1 \in WantedFrom(a, n)
              <=> Matches(a.records[n + 1], a.question.qtype) /\ Offset(a, n + 1) <= a.cut
         /\ ~Matches(a.records[n + 1], a.question.qtype) => WantedFrom(a, n) = WantedFrom(a, n + 1)
<1> DEFINE N == Len(a.records)
           M(k) == Matches(a.records[k], a.question.qtype)
           In(k) == Offset(a, k) <= a.cut
           W(m) == {k \in m + 1 .. N : M(k) /\ (\A j \in m + 1 .. k - 1 : ~M(j)) /\ In(k)}
<1>1. WantedFrom(a, n) = W(n) /\ WantedFrom(a, n + 1) = W(n + 1)
  BY DEF WantedFrom
<1> HIDE DEF M, In
<1>2. N \in Nat /\ n \in Nat /\ n + 1 \in Nat /\ n + 1 <= N
  OBVIOUS
<1> HIDE DEF N
<1>3. ASSUME NEW k \in W(n), k # n + 1  PROVE k \in W(n + 1) /\ ~M(n + 1)
  <2>1. k \in n + 1 .. N /\ M(k) /\ In(k) /\ \A j \in n + 1 .. k - 1 : ~M(j)
    OBVIOUS
  <2>2. k \in (n + 1) + 1 .. N /\ n + 1 \in n + 1 .. k - 1
    BY <2>1, <1>2, <1>3
  <2>3. \A j \in (n + 1) + 1 .. k - 1 : j \in n + 1 .. k - 1
    BY <1>2
  <2> QED BY <2>1, <2>2, <2>3
<1>4. n + 1 \in W(n) <=> M(n + 1) /\ In(n + 1)
  <2>1. n + 1 \in n + 1 .. N /\ \A j \in n + 1 .. (n + 1) - 1 : FALSE
    BY <1>2
  <2> QED BY <2>1
<1>5. ASSUME ~M(n + 1)  PROVE W(n) = W(n + 1)
  <2>1. ASSUME NEW k \in W(n)  PROVE k \in W(n + 1)
    <3>1. M(k)
      OBVIOUS
    <3>2. k # n + 1
      BY <3>1, <1>5
    <3> QED BY <3>2, <1>3
  <2>2. ASSUME NEW k \in W(n + 1)  PROVE k \in W(n)
    <3>1. /\ k \in (n + 1) + 1 .. N /\ M(k) /\ In(k)
          /\ \A j \in (n + 1) + 1 .. k - 1 : ~M(j)
      OBVIOUS
    <3>2. k \in n + 1 .. N
      BY <3>1, <1>2
    <3>3. ASSUME NEW j \in n + 1 .. k - 1  PROVE ~M(j)
      <4>1. CASE j = n + 1
        BY <4>1, <1>5
      <4>2. CASE j # n + 1
        <5>1. j \in (n + 1) + 1 .. k - 1
          BY <4>2, <1>2
        <5> QED BY <5>1, <3>1
      <4> QED BY <4>1, <4>2
    <3> QED BY <3>1, <3>2, <3>3
  <2> QED BY <2>1, <2>2
<1> HIDE DEF W
<1>6. \A k \in W(n) : k = n + 1 \/ (k \in W(n + 1) /\ ~M(n + 1))
  BY <1>3
<1> QED BY <1>1, <1>4, <1>5, <1>6 DEF M, In

\* What the search for an address gives from every record on.
LEMMA Search ==
  ASSUME WellFounded, NEW a \in Answers, NEW packet, Received(a, packet), NEW answer,
         \A n \in 0 .. Len(a.records) :
           answer[n] = AnswerAt(packet, Len(a.records), a.question.qtype, answer[n + 1], n)
  PROVE  \A n \in 0 .. Len(a.records) : FoundFrom(a, packet, n, answer[n][Offset(a, n)])
<1> DEFINE N == Len(a.records)  qtype == a.question.qtype
           v(n) == answer[n][Offset(a, n)]
           F(n) == FoundFrom(a, packet, n, v(n))
           T == {k \in 0 .. N : ~F(N - k)}
<1>0. N \in Nat /\ qtype \in {DnsTypeA, DnsTypeAaaa} /\ ~NoAddress.ok
  <2>1. N \in Nat /\ qtype \in {DnsTypeA, DnsTypeAaaa}
    BY AnswerSought, Zenon
  <2> QED BY <2>1 DEF NoAddress
<1>a. /\ packet \in Seq(Byte)
      /\ \A k \in 0 .. N :
           Offset(a, k) \in Nat /\ (Offset(a, k) <= Len(packet) <=> Offset(a, k) <= a.cut)
      /\ \A k \in 1 .. N :
           /\ Offset(a, k) = Offset(a, k - 1) + Len(RecordBytes(a.records[k]))
           /\ HoldsAt(packet, Offset(a, k - 1), RecordBytes(a.records[k]))
  BY DEF Received
<1>b. \A k \in 1 .. N : Fine(a.records[k])
  BY RecordSent
<1>c. Len(packet) \in Nat
  BY <1>a, LenProperties
<1> HIDE DEF F
<1>1. ASSUME NEW k \in T, \A m \in T : k <= m  PROVE FALSE
  <2> DEFINE n == N - k
  <2>1. k \in 0 .. N /\ n \in 0 .. N /\ ~F(n)
    BY <1>0
  <2>2. ASSUME n # N  PROVE F(n + 1)
    <3> DEFINE m == k - 1
    <3>1. m \in 0 .. N /\ N - m = n + 1 /\ ~(k <= m)
      BY <2>1, <2>2, <1>0
    <3>2. m \notin T
      BY <3>1, <1>1
    <3> HIDE DEF m, n
    <3> QED BY <3>1, <3>2
  <2> HIDE DEF n, T
  <2> DEFINE o == Offset(a, n)  x == v(n)
  <2>3. o \in Nat /\ (o <= Len(packet) <=> o <= a.cut)
    BY <2>1, <1>a, Zenon
  <2>4. answer[n] = AnswerAt(packet, N, qtype, answer[n + 1], n)
    BY <2>1
  <2>5. CASE n = N
    <3>1. CASE o <= Len(packet)
      <4>1. o \in 0 .. Len(packet)
        BY <3>1, <2>3, <1>c
      <4>2. x = NoAddress
        BY <4>1, <2>4, <2>5, ZenonT(40) DEF AnswerAt
      <4>3. WantedFrom(a, n) = {}
        <5>1. \A j \in n + 1 .. N : FALSE
          BY <2>5, <1>0
        <5> QED BY <5>1, Zenon DEF WantedFrom
      <4> HIDE DEF o, x
      <4> QED BY <3>1, <4>2, <4>3, <2>1, <1>0 DEF F, FoundFrom, o, x
    <3>2. CASE ~(o <= Len(packet))
      <4>1. \A k_1 \in n .. N : k_1 = n
        BY <2>5, <1>0
      <4>2. \A k_1 \in n .. N : ~(Offset(a, k_1) <= a.cut)
        BY <3>2, <4>1, <2>3
      <4> QED BY <3>2, <4>2, <2>1, Zenon DEF F, FoundFrom
    <3> QED BY <3>1, <3>2
  <2>6. CASE n # N
    <3> DEFINE r == a.records[n + 1]  end == Offset(a, n + 1)  b == RecordBytes(r)
    <3>1. n + 1 \in 1 .. N /\ n + 1 \in 0 .. N /\ (n + 1) - 1 = n /\ n \in 0 .. N - 1
      BY <2>1, <2>6, <1>0
    <3>2. end = o + Len(b) /\ HoldsAt(packet, o, b) /\ Fine(r) /\ end \in Nat
          /\ (end <= Len(packet) <=> end <= a.cut)
      BY <3>1, <1>a, <1>b, ZenonT(40)
    <3>3. Len(b) \in Nat
      <4>1. RecordLaid(r, b)
        BY <3>2, RecordLayout
      <4>2. b \in Seq(Byte)
        BY <4>1, Zenon DEF RecordLaid
      <4> QED BY <4>2, LenProperties
    <3>4. F(n + 1)
      BY <2>2, <2>6
    <3>5. /\ \A j \in WantedFrom(a, n) : j = n + 1 \/ (j \in WantedFrom(a, n + 1) /\ ~Matches(r, qtype))
          /\ n + 1 \in WantedFrom(a, n) <=> Matches(r, qtype) /\ end <= a.cut
          /\ ~Matches(r, qtype) => WantedFrom(a, n) = WantedFrom(a, n + 1)
      BY <3>1, <1>0, WantedStep, ZenonT(40)
    <3> HIDE DEF r, end, b
    <3>t. ASSUME o <= Len(packet)
          PROVE  TakenOrPassed(packet, r, qtype, o + Len(b), x, answer[n + 1])
      <4> DEFINE behind == answer[n + 1]
                 y == AnswerAt(packet, N, qtype, behind, n)[o]
      <4>1. /\ packet \in Seq(Byte) /\ o \in Nat /\ o <= Len(packet) /\ Fine(r)
            /\ HoldsAt(packet, o, RecordBytes(r)) /\ qtype \in {DnsTypeA, DnsTypeAaaa} /\ n # N
        BY <3>t, <3>2, <2>3, <2>6, <1>0, <1>a, ZenonT(40) DEF b
      <4>2. x = y
        BY <2>4
      <4> HIDE DEF behind, o, x, N, qtype
      <4>3. TakenOrPassed(packet, r, qtype, o + Len(RecordBytes(r)), y, behind)
        BY <4>1, RecordTurn, Zenon
      <4> HIDE DEF y
      <4> QED BY <4>2, <4>3, Zenon DEF b, behind
    <3>6. CASE ~(end <= Len(packet))
      <4>1. \A j \in n + 1 .. N : ~(Offset(a, j) <= a.cut)
        BY <3>4, <3>6, Zenon DEF F, FoundFrom, end
      <4>2. CASE o <= Len(packet)
        <5>1. WantedFrom(a, n) = {}
          BY <4>1, ZenonT(40) DEF WantedFrom
        <5>2. x = NoAddress
          BY <3>t, <3>2, <3>6, <4>2, Zenon DEF TakenOrPassed
        <5> HIDE DEF o, x
        <5> QED BY <5>1, <5>2, <4>2, <2>1, <1>0, Zenon DEF F, FoundFrom, o, x
      <4>3. CASE ~(o <= Len(packet))
        <5>1. ASSUME NEW j \in n .. N  PROVE ~(Offset(a, j) <= a.cut)
          <6>1. j = n \/ j \in n + 1 .. N
            BY <2>1, <1>0
          <6> QED BY <6>1, <4>1, <4>3, <2>3
        <5> QED BY <5>1, <4>3, <2>1, ZenonT(40) DEF F, FoundFrom
      <4> QED BY <4>2, <4>3
    <3>7. CASE end <= Len(packet)
      <4>1. o <= Len(packet)
        BY <3>2, <3>3, <3>7, <2>3, <1>c
      <4>2. x = IF Matches(r, qtype) THEN [ok |-> TRUE, words |-> Kept(r)] ELSE answer[n + 1][end]
        BY <3>t, <3>2, <3>7, <4>1, Zenon DEF TakenOrPassed
      <4> HIDE DEF o, x
      <4>3. CASE Matches(r, qtype)
        <5>1. x.ok /\ x.words = Kept(r)
          BY <4>2, <4>3
        <5>2. n + 1 \in WantedFrom(a, n) /\ \A j \in WantedFrom(a, n) : j = n + 1
          BY <3>2, <3>5, <3>7, <4>3
        <5>3. \A j \in WantedFrom(a, n) : x.words = Kept(a.records[j])
          BY <5>1, <5>2, Zenon DEF r
        <5> QED BY <5>1, <5>2, <5>3, <4>1, <2>1, ZenonT(40) DEF F, FoundFrom, o, x
      <4>4. CASE ~Matches(r, qtype)
        <5>1. x = v(n + 1) /\ WantedFrom(a, n) = WantedFrom(a, n + 1)
          BY <4>2, <4>4, <3>5, ZenonT(40) DEF end
        <5>2. /\ v(n + 1).ok <=> WantedFrom(a, n + 1) # {}
              /\ v(n + 1).ok => \A j \in WantedFrom(a, n + 1) : v(n + 1).words = Kept(a.records[j])
          BY <3>4, <3>7, Zenon DEF F, FoundFrom, end
        <5> QED BY <5>1, <5>2, <4>1, <2>1, ZenonT(40) DEF F, FoundFrom, o, x
      <4> QED BY <4>3, <4>4
    <3> QED BY <3>6, <3>7
  <2> QED BY <2>5, <2>6
<1>2. T = {}
  <2> SUFFICES ASSUME T # {}  PROVE FALSE
    OBVIOUS
  <2>1. T \in SUBSET Nat
    BY <1>0
  <2> HIDE DEF T
  <2>2. PICK k \in T : \A m \in T : k <= m
    BY <2>1, Least
  <2> QED BY <2>2, <1>1
<1>3. ASSUME NEW n \in 0 .. N  PROVE F(n)
  <2> DEFINE k == N - n
  <2>1. k \in 0 .. N /\ N - k = n
    BY <1>0
  <2> HIDE DEF k
  <2> QED BY <2>1, <1>2, Zenon
<1> QED BY <1>3 DEF F


-----------------------------------------------------------------------------
\* The body of SkipQuestions' loop.
QuestionsBehind(packet, count, behind) ==
  behind = [n \in 0 .. count |->
              IF n = 0 THEN [ok |-> TRUE, offset |-> 12]
              ELSE LET name == skip_dns_name(packet, behind[n - 1].offset) IN
                   IF behind[n - 1].ok /\ name.ok /\ name.offset + 4 <= Len(packet)
                   THEN [ok |-> TRUE, offset |-> name.offset + 4] ELSE Failed]

\* parse_dns_response skips the one question of a message it accepts.
LEMMA OneQuestion ==
  ASSUME NEW packet
  PROVE  LET name == skip_dns_name(packet, 12) IN
         SkipQuestions(packet, 1)
           = IF name.ok /\ name.offset + 4 <= Len(packet)
             THEN [ok |-> TRUE, offset |-> name.offset + 4] ELSE Failed
<1> DEFINE first == [ok |-> TRUE, offset |-> 12]
           Turn(x) == LET name == skip_dns_name(packet, x.offset) IN
                      IF x.ok /\ name.ok /\ name.offset + 4 <= Len(packet)
                      THEN [ok |-> TRUE, offset |-> name.offset + 4] ELSE Failed
           g == [n \in 0 .. 1 |-> IF n = 0 THEN first ELSE Turn(first)]
           f == CHOOSE behind : QuestionsBehind(packet, 1, behind)
<1>1. \A behind : QuestionsBehind(packet, 1, behind)
        <=> behind = [n \in 0 .. 1 |-> IF n = 0 THEN first ELSE Turn(behind[n - 1])]
  BY Zenon DEF QuestionsBehind
<1>2. SkipQuestions(packet, 1) = f[1]
  BY DEF SkipQuestions, QuestionsBehind
<1>3. first.ok /\ first.offset = 12
  OBVIOUS
<1>4. Turn(first) = LET name == skip_dns_name(packet, 12) IN
                    IF name.ok /\ name.offset + 4 <= Len(packet)
                    THEN [ok |-> TRUE, offset |-> name.offset + 4] ELSE Failed
  BY <1>3
<1> HIDE DEF first, Turn
<1>5. QuestionsBehind(packet, 1, g)
  <2>1. g = [n \in 0 .. 1 |-> IF n = 0 THEN first ELSE Turn(g[n - 1])]
    <3>1. g[0] = first
      OBVIOUS
    <3> HIDE DEF g
    <3>2. \A n \in 0 .. 1 : n # 0 => n - 1 = 0
      OBVIOUS
    <3>3. [n \in 0 .. 1 |-> IF n = 0 THEN first ELSE Turn(g[n - 1])]
            = [n \in 0 .. 1 |-> IF n = 0 THEN first ELSE Turn(first)]
      BY <3>1, <3>2
    <3> QED BY <3>3 DEF g
  <2> QED BY <2>1, <1>1
<1>6. QuestionsBehind(packet, 1, f)
  BY <1>5
<1> HIDE DEF f
<1>7. f[0] = first /\ f[1] = Turn(f[0])
  <2>1. f = [n \in 0 .. 1 |-> IF n = 0 THEN first ELSE Turn(f[n - 1])]
    BY <1>1, <1>6
  <2> QED BY <2>1
<1> QED BY <1>2, <1>4, <1>7

\* The header and the question of a message, as parse_dns_response reads them.
Headed(a, packet) ==
  /\ read_u16(packet, 0) = a.id /\ read_u16(packet, 2) = Flags(a)
  /\ read_u16(packet, 4) = 1 /\ read_u16(packet, 6) = Len(a.records)
  /\ SkipQuestions(packet, 1)
       = IF Offset(a, 0) <= Len(packet) THEN [ok |-> TRUE, offset |-> Offset(a, 0)] ELSE Failed

\* parse_dns_response reads a header that arrived whole as it was written.
LEMMA HeaderRead ==
  ASSUME WellFounded, NEW a \in Answers, NEW packet, Received(a, packet), 12 <= Len(packet)
  PROVE  Headed(a, packet)
<1> DEFINE p == Preface(a)  n == QueryName(a.question.host).bytes  w == n \o <<0>>
<1>1. PrefaceHolds(a, p, n) /\ Walks(n)
  BY PrefaceLaid
<1>2. packet \in Seq(Byte) /\ HoldsAt(packet, 0, p) /\ Offset(a, 0) = Len(p)
  BY DEF Received
<1> HIDE DEF p, n
<1>3. /\ p \in Seq(Byte) /\ n \in Seq(Byte) /\ Len(p) = 12 + (Len(n) + 1) + 4
      /\ 256 * p[1] + p[2] = a.id /\ 256 * p[3] + p[4] = Flags(a)
      /\ 256 * p[5] + p[6] = 1 /\ 256 * p[7] + p[8] = Len(a.records)
      /\ HoldsAt(p, 12, w)
  BY <1>1 DEF PrefaceHolds
<1>4. Len(packet) \in Nat /\ Len(n) \in Nat /\ Len(p) \in Nat
  BY <1>2, <1>3, LenProperties
<1>5. \A i \in {0, 2, 4, 6} : read_u16(packet, i) = 256 * p[i + 1] + p[i + 2]
  <2> SUFFICES ASSUME NEW i \in {0, 2, 4, 6}
               PROVE  read_u16(packet, i) = 256 * p[i + 1] + p[i + 2]
    OBVIOUS
  <2>1. i \in Nat /\ 0 + i + 1 < Len(packet) /\ i + 1 < Len(p) /\ 0 + i = i
    BY <1>3, <1>4
  <2>2. WordIn(packet, 0, p, i)
    BY <2>1, <1>2, <1>3 DEF WordIn
  <2>3. read_u16(packet, 0 + i) = 256 * p[i + 1] + p[i + 2]
    BY <2>2, ReadsWord
  <2> QED BY <2>1, <2>3
<1>6. /\ read_u16(packet, 0) = a.id /\ read_u16(packet, 2) = Flags(a)
      /\ read_u16(packet, 4) = 1 /\ read_u16(packet, 6) = Len(a.records)
  <2>1. read_u16(packet, 0) = 256 * p[1] + p[2] /\ read_u16(packet, 2) = 256 * p[3] + p[4]
    BY <1>5
  <2>2. read_u16(packet, 4) = 256 * p[5] + p[6] /\ read_u16(packet, 6) = 256 * p[7] + p[8]
    BY <1>5
  <2> QED BY <2>1, <2>2, <1>3, Zenon
<1>7. Len(w) = Len(n) + 1 /\ Len(<<0>>) = 1 /\ EndsName(<<0>>)
  BY <1>3 DEF EndsName
<1>8. HoldsAt(packet, 12, w)
  <2> SUFFICES ASSUME NEW i \in 1 .. Len(w), 12 + i <= Len(packet)
               PROVE  packet[12 + i] = w[i]
    BY DEF HoldsAt
  <2>1. 12 + i \in 1 .. Len(p) /\ 12 + i <= Len(p) /\ 0 + (12 + i) = 12 + i
    BY <1>3, <1>4, <1>7
  <2>2. packet[12 + i] = p[12 + i]
    BY <2>1, <1>2 DEF HoldsAt
  <2>3. p[12 + i] = w[i]
    BY <2>1, <1>3, ZenonT(40) DEF HoldsAt
  <2> QED BY <2>2, <2>3
<1>9. skip_dns_name(packet, 12) = Skipped(packet, 12, Len(n) + 1)
  <2>1. HoldsAt(packet, 12, n \o <<0>>) /\ 12 \in Nat
    BY <1>8
  <2>2. skip_dns_name(packet, 12) = Skipped(packet, 12, Len(n) + Len(<<0>>))
    BY <2>1, <1>1, <1>2, <1>7, ZenonT(40) DEF Walks
  <2> QED BY <2>2, <1>7
<1>10. SkipQuestions(packet, 1)
         = IF Offset(a, 0) <= Len(packet) THEN [ok |-> TRUE, offset |-> Offset(a, 0)] ELSE Failed
  <2> DEFINE name == skip_dns_name(packet, 12)  L == Len(n)  M == Len(packet)
  <2>1. SkipQuestions(packet, 1)
          = IF name.ok /\ name.offset + 4 <= Len(packet)
            THEN [ok |-> TRUE, offset |-> name.offset + 4] ELSE Failed
    BY OneQuestion
  <2>2. name = IF 12 + (L + 1) <= M THEN [ok |-> TRUE, offset |-> 12 + (L + 1)] ELSE Failed
    BY <1>9 DEF Skipped
  <2>3. Offset(a, 0) = 12 + (L + 1) + 4
    BY <1>2, <1>3
  <2> HIDE DEF name
  <2>4. CASE 12 + (L + 1) <= M
    BY <2>1, <2>2, <2>3, <2>4, <1>4
  <2>5. CASE ~(12 + (L + 1) <= M)
    <3>1. ~name.ok
      BY <2>2, <2>5 DEF Failed
    <3>2. ~(Offset(a, 0) <= M)
      BY <2>3, <2>5, <1>4
    <3> QED BY <2>1, <3>1, <3>2
  <2> QED BY <2>4, <2>5
<1> QED BY <1>6, <1>10 DEF Headed

\* What parse_dns_response gives for a message.
LEMMA AnswerFound ==
  ASSUME WellFounded, NEW a \in Answers, NEW packet, Received(a, packet)
  PROVE  LET ip == parse_dns_response(packet, a.question.id, a.question.qtype) IN
         /\ ip.ok <=> a.id = a.question.id /\ a.response /\ a.rcode = 0 /\ WantedFrom(a, 0) # {}
         /\ ip.ok => \A k \in WantedFrom(a, 0) : ip.words = Kept(a.records[k])
<1> DEFINE id == a.question.id  qtype == a.question.qtype  N == Len(a.records)
           ip == parse_dns_response(packet, id, qtype)
<1>1. N \in Nat /\ 0 \in 0 .. N /\ ~NoAddress.ok /\ ~Failed.ok
  BY AnswerSought DEF NoAddress, Failed
<1>a. PICK answer : Turning(packet, N, qtype, answer)
  BY <1>1, AnswerTurns, ZenonT(40)
<1>2. /\ \A n \in 0 .. N : answer[n] = AnswerAt(packet, N, qtype, answer[n + 1], n)
      /\ \A first : FindAnswer(packet, N, first, qtype) = answer[0][first]
  BY <1>a, Zenon DEF Turning
<1> DEFINE o == Offset(a, 0)  v == answer[0][o]
<1>3. FoundFrom(a, packet, 0, v)
  BY <1>1, <1>2, Search, Zenon
<1>4. ASSUME ~(o <= Len(packet))  PROVE WantedFrom(a, 0) = {}
  <2>1. \A k \in 0 .. N : ~(Offset(a, k) <= a.cut)
    BY <1>3, <1>4 DEF FoundFrom
  <2>2. \A k \in 0 + 1 .. N : k \in 0 .. N
    BY <1>1
  <2> QED BY <2>1, <2>2 DEF WantedFrom
<1>5. Len(packet) \in Nat /\ o \in Nat /\ 12 < o
  <2> DEFINE n == QueryName(a.question.host).bytes
  <2>1. packet \in Seq(Byte) /\ o = Len(Preface(a))
    BY DEF Received
  <2>2. n \in Seq(Byte) /\ Len(Preface(a)) = 12 + (Len(n) + 1) + 4
    BY PrefaceLaid DEF PrefaceHolds
  <2>3. Len(packet) \in Nat /\ Len(n) \in Nat
    BY <2>1, <2>2, LenProperties
  <2> HIDE DEF n
  <2> QED BY <2>1, <2>2, <2>3
<1>6. CASE Len(packet) < 12
  <2>1. ip = NoAddress
    BY <1>6 DEF parse_dns_response
  <2>2. WantedFrom(a, 0) = {}
    BY <1>4, <1>5, <1>6
  <2> QED BY <2>1, <2>2, <1>1
<1>7. CASE ~(Len(packet) < 12)
  <2> DEFINE good == a.id = id /\ a.response /\ a.rcode = 0
  <2>1. Headed(a, packet)
    BY <1>5, <1>7, HeaderRead
  <2>2. Accepts(Flags(a)) <=> a.response /\ a.rcode = 0
    BY FlagsWord
  <2>3. ip = IF ~good THEN NoAddress
             ELSE LET questions == SkipQuestions(packet, 1) IN
                  IF ~questions.ok THEN NoAddress
                  ELSE FindAnswer(packet, N, questions.offset, qtype)
    BY <2>1, <2>2, <1>7, ZenonT(40) DEF parse_dns_response, Headed
  <2>4. CASE ~good
    <3>1. ip = NoAddress
      BY <2>3, <2>4, Zenon
    <3> QED BY <3>1, <2>4, <1>1
  <2>5. CASE good /\ ~(o <= Len(packet))
    <3>1. SkipQuestions(packet, 1) = Failed
      BY <2>1, <2>5, Zenon DEF Headed
    <3>2. ip = NoAddress
      BY <2>3, <2>5, <3>1, <1>1, ZenonT(40)
    <3> QED BY <3>2, <2>5, <1>1, <1>4
  <2>6. CASE good /\ o <= Len(packet)
    <3>1. SkipQuestions(packet, 1) = [ok |-> TRUE, offset |-> o]
      BY <2>1, <2>6 DEF Headed
    <3>2. ip = v
      <4>1. ip = FindAnswer(packet, N, o, qtype)
        BY <2>3, <2>6, <3>1
      <4> QED BY <4>1, <1>2
    <3>3. /\ v.ok <=> WantedFrom(a, 0) # {}
          /\ v.ok => \A k \in WantedFrom(a, 0) : v.words = Kept(a.records[k])
      BY <1>3, <2>6, ZenonT(40) DEF FoundFrom
    <3> HIDE DEF v, ip
    <3>4. /\ ip.ok <=> good /\ WantedFrom(a, 0) # {}
          /\ ip.ok => \A k \in WantedFrom(a, 0) : ip.words = Kept(a.records[k])
      BY <3>2, <3>3, <2>6, Zenon
    <3> QED BY <3>4, ZenonT(40) DEF ip
  <2> QED BY <2>4, <2>5, <2>6, Zenon
<1> QED BY <1>6, <1>7, ZenonT(40)

\* A handled answer was parsed by parse_dns_response as it arrived.
LEMMA GivenAnswer ==
  ASSUME Handled, Done("answer")
  PROVE  /\ input.is \in Answers
         /\ output.ip = parse_dns_response(Arrived(input.is), input.is.question.id,
                                           input.is.question.qtype)
<1>1. output # Nothing /\ input.kind = "answer"
  BY DEF Done, Nothing
<1>2. input.is \in Answers
  BY <1>1, Zenon DEF Handled
<1>3. output = [ok |-> TRUE,
                ip |-> parse_dns_response(Arrived(input.is), input.is.question.id,
                                          input.is.question.qtype)]
  BY <1>1, ZenonT(40) DEF Handled, Arrived
<1> QED BY <1>2, <1>3

\* An answer that was read gave its first match.
LEMMA MatchesFirst ==
  ASSUME WellFounded, Handled
  PROVE  AnswerIsFirstMatch
<1> SUFFICES ASSUME Done("answer")
             PROVE  LET a == input.is IN
                    /\ output.ip.ok <=> a.id = a.question.id /\ a.response /\ a.rcode = 0
                                        /\ Wanted(a) # {}
                    /\ output.ip.ok => \A k \in Wanted(a) : output.ip.words = Kept(a.records[k])
  BY DEF AnswerIsFirstMatch
<1> DEFINE a == input.is
<1>1. a \in Answers /\ output.ip = parse_dns_response(Arrived(a), a.question.id, a.question.qtype)
  BY GivenAnswer
<1> HIDE DEF a
<1>2. Received(a, Arrived(a))
  BY <1>1, AnswerReceived
<1>3. Wanted(a) = WantedFrom(a, 0)
  BY DEF Wanted, WantedFrom, Offset
<1> DEFINE packet == Arrived(a)  ip == parse_dns_response(packet, a.question.id, a.question.qtype)
<1> HIDE DEF packet
<1>4. /\ ip.ok <=> a.id = a.question.id /\ a.response /\ a.rcode = 0 /\ WantedFrom(a, 0) # {}
      /\ ip.ok => \A k \in WantedFrom(a, 0) : ip.words = Kept(a.records[k])
  <2>1. Received(a, packet)
    BY <1>2 DEF packet
  <2> QED BY <1>1, <2>1, AnswerFound, Zenon
<1> QED BY <1>1, <1>3, <1>4, ZenonT(40) DEF packet, a

-----------------------------------------------------------------------------
(* The theorems. *)

WF == INSTANCE WellFoundedInduction

\* What the lemmas about loops assume.
LEMMA NaturalsWellFounded == WellFounded
<1> SUFFICES ASSUME NEW T \in SUBSET Nat, T # {}
             PROVE  \E n \in T : \A m \in T : n <= m
  BY Zenon DEF WellFounded
<1> DEFINE R == WF!OpToRel(<, Nat)
<1>1. WF!IsWellFoundedOn(R, Nat)
  BY WF!NatLessThanWellFounded, Zenon
<1>2. \A x, y \in Nat : y < x => <<y, x>> \in R
  BY Zenon DEF WF!OpToRel
<1> HIDE DEF R
<1>3. PICK x \in T : \A y \in T : ~(<<y, x>> \in R)
  BY <1>1, WF!WFMin, Zenon
<1>4. ASSUME NEW y \in T  PROVE x <= y
  <2>1. x \in Nat /\ y \in Nat
    BY Zenon
  <2>2. ~(y < x)
    BY <1>2, <1>3, <2>1, Zenon
  <2> QED BY <2>1, <2>2
<1> QED BY <1>4, Zenon

\* QueryNamesHost, for every host a client can name: make_dns_query refuses
\* exactly the hosts with an empty or an overlong label, its query keeps every
\* character in its place, and skip_dns_name finds the end of the name, whatever
\* the number and the lengths of the labels.
THEOREM QueryNames == Spec => []QueryNamesHost
<1>1. Handled => QueryNamesHost
  BY NaturalsWellFounded, NamesHost
<1> QED BY <1>1, EachHandled, PTL

\* AnswerIsFirstMatch, for every message a server sends and wherever it is cut
\* off: parse_dns_response walks the names, the lengths and the records of other
\* types, classes and sizes in front of the first record that matches and takes
\* exactly that one, or gives no address when the message ends before its end.
THEOREM FirstMatch == Spec => []AnswerIsFirstMatch
<1>1. Handled => AnswerIsFirstMatch
  BY NaturalsWellFounded, MatchesFirst
<1> QED BY <1>1, EachHandled, PTL

=============================================================================
