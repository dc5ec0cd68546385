----------------------------- MODULE MCTransport -----------------------------
EXTENDS Transport
=============================================================================
