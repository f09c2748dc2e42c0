---------------------------- MODULE MCVpnClient ----------------------------
(* An instance whose server pushes an address of each family, or an address *)
(* of one family that does not parse after one of the other that does.      *)
EXTENDS VpnClient

MCPushes ==
  { [families |-> {"v4", "v6"}, bad |-> FALSE], [families |-> {"v4"}, bad |-> TRUE] }
=============================================================================
