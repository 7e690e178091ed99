----------------------------- MODULE MCSocketWire -----------------------------
EXTENDS SocketWire

MCMaxPut == 3
MCMaxBreaks == 2
=============================================================================
