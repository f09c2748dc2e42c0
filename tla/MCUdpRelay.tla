----------------------------- MODULE MCUdpRelay -----------------------------
EXTENDS UdpRelay
CONSTANTS literal, name
MCKinds == [k \in Keys |-> IF k = name THEN {"domain"} ELSE {"ip", "domain"}]
=============================================================================
