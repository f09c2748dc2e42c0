----------------------------- MODULE MCInbound -----------------------------
EXTENDS Inbound
=============================================================================
