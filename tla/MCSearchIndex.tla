---------------------------- MODULE MCSearchIndex ----------------------------
EXTENDS SearchIndex

\* A kind that is there from the start is one that is installed before the
\* first search; and without HTTP/2 only the cluster that may get it back is of
\* interest.
MCInit ==
  /\ Init
  /\ \A k \in Custom : life[k] = 0 /\ (h2 \/ rbac[k] = "all")

\* The CRD is recreated only where nothing fails and everything is allowed.
MCNext ==
  /\ Next
  /\ \A k \in Custom : life'[k] + faults' <= 3 /\ (life'[k] = 3 => rbac[k] = "all")

MCSpec == MCInit /\ [][MCNext]_vars /\ Fairness
=============================================================================
