----------------------------- MODULE MCLogSession -----------------------------
\* A small instance of LogSession.
EXTENDS LogSession
==============================================================================
