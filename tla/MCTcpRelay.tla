----------------------------- MODULE MCTcpRelay -----------------------------
(* TcpRelay for TLC: the configurations give the constants small values that *)
(* keep their order (low < high, low-water < chunk < send buffer).           *)
EXTENDS TcpRelay
=============================================================================
