----------------------------- MODULE MCNetSession -----------------------------
EXTENDS NetSession
=============================================================================
