--------------------------- MODULE MCDnsResolver ---------------------------
EXTENDS DnsResolver
CONSTANTS l1, l2, l3
=============================================================================
