-------------------------- MODULE MCWatcherRegistry --------------------------
\* A small instance of WatcherRegistry.
EXTENDS WatcherRegistry, TLC

HolderSymmetry == Permutations(Holders)
=============================================================================
