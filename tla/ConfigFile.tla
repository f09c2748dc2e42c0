----------------------------- MODULE ConfigFile -----------------------------
(***************************************************************************)
(* MultiInstanceManager::load_json_config.  A JSON value is a record of    *)
(* its kind and its value, an object a function from its keys.             *)
(***************************************************************************)
EXTENDS Integers, Sequences

CONSTANTS
  PortMax,     \* 65535
  IntModulus,  \* values of an int: 2^32
  Files        \* the paths of regular files

\* No file has an empty path.
ASSUME FilePaths == "" \notin Files

ASSUME Widths == PortMax \in Nat \ {0} /\ IntModulus \in Nat /\ IntModulus > 2 * PortMax

SupportedMethod == "chacha20-ietf-poly1305"

\* Port.ok is FALSE where the code throws.
NoPort == [ok |-> FALSE, port |-> 0]

\* get<int>() of a 64-bit integer.
Narrow(n) == ((n + IntModulus \div 2) % IntModulus) - IntModulus \div 2

\* get<int>(): a float, given in halves, loses its fraction; a boolean is 0 or 1;
\* anything else throws.
GetInt(json) ==
  CASE json.kind = "int"   -> [ok |-> TRUE, int |-> Narrow(json.value)]
    [] json.kind = "float" -> [ok |-> TRUE, int |-> json.value \div 2]
    [] json.kind = "bool"  -> [ok |-> TRUE, int |-> IF json.value THEN 1 ELSE 0]
    [] OTHER               -> [ok |-> FALSE, int |-> 0]

checked_port(json) ==
  LET n == GetInt(json) IN
  IF n.ok /\ n.int \in 1 .. PortMax THEN [ok |-> TRUE, port |-> n.int] ELSE NoPort

Contains(object, key) == key \in DOMAIN object

IsString(object, key) == Contains(object, key) /\ object[key].kind = "string"

required_string(object, key) == IsString(object, key) /\ object[key].value # ""

optional_string(object, key) == Contains(object, key) => IsString(object, key)

StringOr(object, key, fallback) ==
  IF Contains(object, key) THEN object[key].value ELSE fallback

TcpPort(object) ==
  IF Contains(object, "tcp_port") /\ object["tcp_port"].kind = "int"
  THEN checked_port(object["tcp_port"]) ELSE NoPort

UdpPort(object) ==
  IF Contains(object, "udp_port") THEN checked_port(object["udp_port"])
  ELSE TcpPort(object)

\* Variant: a port is taken for both protocols.
PortsFreeForBoth(instances, tcp, udp) ==
  \A n \in 1 .. Len(instances) :
    {tcp, udp} \cap {instances[n].tcp_port, instances[n].udp_port} = {}

\* Both inserts are of a new element; the second is left out for a udp_port of 0.
PortsFree(instances, tcp, udp) ==
  \A n \in 1 .. Len(instances) :
    instances[n].tcp_port # tcp /\ (udp # 0 => instances[n].udp_port # udp)

\* One turn of the loop over the array: the configuration so far with the
\* instance, or nothing where the code throws.
LoadInstance(config, object) ==
  LET tcp == TcpPort(object)  udp == UdpPort(object) IN
  IF /\ \A key \in {"name", "ovpn", "password"} : required_string(object, key)
     /\ \A key \in {"listen_host", "method", "vpn_username", "vpn_password"} :
          optional_string(object, key)
     /\ tcp.ok /\ udp.ok
     /\ object["ovpn"].value \in Files
     /\ StringOr(object, "method", SupportedMethod) = SupportedMethod
     /\ config.ok /\ PortsFree(config.instances, tcp.port, udp.port)
  THEN [ok |-> TRUE,
        instances |-> Append(config.instances,
          [name |-> object["name"].value, tcp_port |-> tcp.port, udp_port |-> udp.port,
           listen_host |-> StringOr(object, "listen_host", "127.0.0.1")])]
  ELSE [ok |-> FALSE, instances |-> <<>>]

\* The document's "instances" when it is an array of objects; any other document
\* is refused, whatever else it holds.
load_json_config(objects) ==
  LET config[n \in 0 .. Len(objects)] ==
        IF n = 0 THEN [ok |-> objects # <<>>, instances |-> <<>>]
        ELSE LoadInstance(config[n - 1], objects[n])
  IN config[Len(objects)]
=============================================================================
