----------------------------- MODULE ObjectCache -----------------------------
(***************************************************************************)
(* The Map from uid to object that the watcher (server/src/kube/watcher.ts) *)
(* and the browser (client/src/api/ws/watch-client.ts) both keep: as a set  *)
(* of object versions with at most one of each uid.                        *)
(***************************************************************************)
EXTENDS ApiServer

SameUid(i, j) == log[i].uid = log[j].uid

\* Map.set for every object of a page or a batch.
Puts(c, p) == {i \in c : \A j \in p : ~SameUid(i, j)} \cup p

\* Mutant: a DELETED event is stored like any other.
ApplyKeepsDeleted(c, i) == {j \in c : ~SameUid(i, j)} \cup {i}

\* One watch event: Map.delete or Map.set.
Apply(c, i) ==
  {j \in c : ~SameUid(i, j)} \cup {j \in {i} : log[j].type = "SET"}

\* Mutant: of two events about one object the earlier one wins.
ApplyBatchReversed(v, D) ==
  {i \in v : \A j \in D : ~SameUid(i, j)}
  \cup {i \in D : /\ log[i].type = "SET"
                  /\ \A j \in D : j < i => ~SameUid(i, j)}

\* What a subscriber holds after a batch of watch events, in order.
ApplyBatch(v, D) ==
  {i \in v : \A j \in D : ~SameUid(i, j)}
  \cup {i \in D : /\ log[i].type = "SET"
                  /\ \A j \in D : j > i => ~SameUid(i, j)}
==============================================================================
