--------------------------- MODULE MCClusterManager ---------------------------
EXTENDS ClusterManager

\* A small instance.  The definitions are interchangeable, so that any of them
\* may be the one at first.
MCInit == Init /\ file = CHOOSE d \in Defs : TRUE
MCSpec == MCInit /\ [][Next]_vars /\ Fairness
==============================================================================
