----------------------------- MODULE MCWatchWire -----------------------------
EXTENDS WatchWire

\* A small instance: of a second wire id, two more writes and a fault at most two.
MCNext == Next /\ ids' + Len(log') + faults' <= 4
MCSpec == Init /\ [][MCNext]_vars /\ WF_vars(Works)
==============================================================================
