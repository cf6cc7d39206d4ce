----------------------------- MODULE MCTerminal -----------------------------
EXTENDS Terminal

\* A small instance: two transfers or two chunks of output, not both.
MCNext == Next /\ (shell'.made < 2 \/ transfer'.id < 2)
MCSpec == Init /\ [][MCNext]_vars /\ WF_vars(Server \/ Browser)
==============================================================================
