------------------------------ MODULE ApiServer ------------------------------
(***************************************************************************)
(* The Kubernetes API server as a list+watch client sees it: the history   *)
(* of writes to one resource type.  External to the repository: modelled    *)
(* from how server/src/kube/watcher.ts uses it.                            *)
(*                                                                         *)
(* The position of a write in the history is its resourceVersion, so an    *)
(* object version is named by its resourceVersion, and the content of a    *)
(* store or of a cache is a set of resourceVersions.                       *)
(***************************************************************************)
EXTENDS Naturals, Sequences

CONSTANTS Uids,   \* the objects of the watched type (metadata.uid)
          Other,  \* stands for any object of another type
          MaxRv   \* bound on the number of writes

ASSUME UidAssumption == Other \notin Uids
ASSUME MaxRvAssumption == MaxRv \in Nat

VARIABLES log,       \* the writes, in resourceVersion order
          compacted  \* oldest resourceVersion that is still served

serverVars == <<log, compacted>>

Entry == [type : {"SET", "DELETED"}, uid : Uids] \cup [type : {"OTHER"}, uid : {Other}]

ServerTypeOK ==
  /\ log \in Seq(Entry)
  /\ Len(log) > 0
  /\ compacted \in 1..Len(log)

Versions == 1..Len(log)

Own(i) == log[i].type # "OTHER"

\* The content of the store at resourceVersion r: the last write of every
\* object, unless it was its deletion.
StoreAt(r) ==
  {i \in 1..r : /\ log[i].type = "SET"
                /\ \A j \in (i + 1)..r : log[j].uid # log[i].uid}

Exists(u) == \E i \in StoreAt(Len(log)) : log[i].uid = u

Deleted(u) == \E i \in Versions : log[i].type = "DELETED" /\ log[i].uid = u

\* The cluster is not empty of writes when the program connects to it.
ServerInit ==
  /\ log = << [type |-> "OTHER", uid |-> Other] >>
  /\ compacted = 1

\* One write.  A uid is never reused after its deletion.
Write ==
  /\ Len(log) < MaxRv
  /\ \E e \in Entry :
       /\ e.type = "SET" => ~Deleted(e.uid)
       /\ e.type = "DELETED" => Exists(e.uid)
       /\ log' = Append(log, e)
  /\ UNCHANGED compacted

\* etcd compaction: the history before some version is forgotten.
Compact ==
  /\ \E r \in Versions : r > compacted /\ compacted' = r
  /\ UNCHANGED log
==============================================================================
