----------------------------- MODULE SsAddress -----------------------------
(***************************************************************************)
(* The Shadowsocks address and the UDP packet around it, as operators on   *)
(* sequences of bytes.  The lengths of the two address families, the salt  *)
(* and the tag are constants; the cipher is ideal.                         *)
(***************************************************************************)
EXTENDS Integers, Sequences

CONSTANTS
  V4Len, V6Len,    \* bytes of an address: 4 and 16
  SaltSize, TagSize  \* 32 and 16

ASSUME Lengths == {V4Len, V6Len, SaltSize, TagSize} \subseteq Nat \ {0}

\* AddressType.
Ipv4 == 1
Domain == 3
Ipv6 == 4

Nullopt == [ok |-> FALSE]

First(s, n) == SubSeq(s, 1, n)

After(s, n) == SubSeq(s, n + 1, Len(s))

read_be16(bytes) == 256 * bytes[1] + bytes[2]

append_be16(value) == <<value \div 256, value % 256>>

-----------------------------------------------------------------------------
\* The text of an IP address stands for its bytes; the parser spells every
\* digit group out, another spelling of the same address may be shorter.
Text(ip, spelling) == [ip |-> ip, spelling |-> spelling]

Name(chars) == [name |-> chars]

IsText(host) == "ip" \in DOMAIN host

Target(type, host, bytes) ==
  [ok |-> TRUE, type |-> type, host |-> host, port |-> read_be16(bytes),
   rest |-> After(bytes, 2)]

\* Variant: the port is not counted.
parse_ip_short(type, bytes, n) ==
  IF Len(bytes) < n THEN Nullopt
  ELSE Target(type, Text(First(bytes, n), "full"), After(bytes, n) \o <<0, 0>>)

parse_ip(type, bytes, n) ==
  IF Len(bytes) < n + 2 THEN Nullopt
  ELSE Target(type, Text(First(bytes, n), "full"), After(bytes, n))

parse_domain(bytes) ==
  IF bytes = <<>> THEN Nullopt
  ELSE LET len == bytes[1]  name == After(bytes, 1) IN
       IF Len(name) < len + 2 THEN Nullopt
       ELSE Target(Domain, Name(First(name, len)), After(name, len))

\* The target, and in rest what follows it: the payload.
parse_ss_address(bytes) ==
  IF bytes = <<>> THEN Nullopt
  ELSE LET after == After(bytes, 1) IN
       CASE bytes[1] = Ipv4 -> parse_ip(Ipv4, after, V4Len)
         [] bytes[1] = Ipv6 -> parse_ip(Ipv6, after, V6Len)
         [] bytes[1] = Domain -> parse_domain(after)
         [] OTHER -> Nullopt

\* Throws (not ok) on a long name and on a host that is no address of the type.
encode_ss_address(type, host, port) ==
  LET made(body) ==
        [ok |-> TRUE, bytes |-> <<type>> \o body \o append_be16(port)]
      is(n) == IsText(host) /\ Len(host.ip) = n
  IN CASE type = Domain /\ ~IsText(host) /\ Len(host.name) <= 255 ->
            made(<<Len(host.name)>> \o host.name)
       [] type = Ipv4 /\ is(V4Len) -> made(host.ip)
       [] type = Ipv6 /\ is(V6Len) -> made(host.ip)
       [] OTHER -> Nullopt

-----------------------------------------------------------------------------
(* Sealed bytes are symbolic: what they were sealed from and their place. *)

Symbols(of, n) == [i \in 1 .. n |-> [of |-> of, at |-> i]]

derive_subkey(master_key, salt) == <<master_key, salt>>

Cipher(key, plain) == Symbols(<<"cipher", key, plain>>, Len(plain))

Tag(key, plain) == Symbols(<<"tag", key, plain>>, TagSize)

\* The nonce is zero on both sides: client_salt resets it for every packet.
encrypt_udp_packet(master_key, salt, plain) ==
  LET key == derive_subkey(master_key, salt) IN
  salt \o Cipher(key, plain) \o Tag(key, plain)

\* The plain text for which the tag and the body fit the key, if there is one.
decrypt(key, body, tag) ==
  LET of == tag[1].of IN
  IF of[1] = "tag" /\ of[2] = key /\ tag = Tag(key, of[3])
     /\ body = Cipher(key, of[3])
  THEN [ok |-> TRUE, plain |-> of[3]] ELSE Nullopt

decrypt_udp_packet(master_key, encrypted) ==
  IF Len(encrypted) < SaltSize + TagSize THEN Nullopt
  ELSE LET sealed == After(encrypted, SaltSize)
           body_len == Len(sealed) - TagSize
       IN decrypt(derive_subkey(master_key, First(encrypted, SaltSize)),
                  First(sealed, body_len), After(sealed, body_len))
=============================================================================
