------------------------------ MODULE PodHistory ------------------------------
(***************************************************************************)
(* The pods of one namespace as the API server and the kubelets keep them, *)
(* and what a pods watcher (server/src/kube/watcher.ts) shows of them: a   *)
(* history of pod versions, of which the watcher's cache has reached one.  *)
(* Every pod has one container.                                            *)
(***************************************************************************)
EXTENDS Integers, SequencesExt

CONSTANTS Names,        \* pod names, numbered from 1
          MaxVersions   \* bound on the versions ever written

VARIABLES hist,  \* every version of every pod, in resourceVersion order
          seen   \* how much of it the watcher's cache shows

podVars == <<hist, seen>>

\* A pod's container: not started yet, running, exited, or waiting to be
\* restarted.  A run of it is named by the version that started it.
Pod == [name : Names, uid : 1..MaxVersions, gone : BOOLEAN, term : BOOLEAN,
        fin : BOOLEAN, run : 0..MaxVersions,
        st : {"none", "running", "exited", "backoff"}]

PodTypeOK == hist \in Seq(Pod) /\ seen \in 0..Len(hist)

\* The last of the first q versions that is about the name; 0 for none.
LastAbout(n, q) ==
  LET S == {i \in 1..q : hist[i].name = n} IN IF S = {} THEN 0 ELSE Max(S)

\* The pod of that name after q versions; 0 for none.
PodAt(n, q) ==
  LET i == LastAbout(n, q) IN IF i = 0 \/ hist[i].gone THEN 0 ELSE i

Stored(n) == PodAt(n, Len(hist))
Cached(n) == PodAt(n, seen)

PodInit ==
  /\ \/ hist = <<>>
     \/ hist = <<[name |-> 1, uid |-> 1, gone |-> FALSE, term |-> FALSE,
                  fin |-> FALSE, run |-> 1, st |-> "running"]>>
  /\ seen = 0

(***************************************************************************)
(* The kubelet and whoever deletes pods                                    *)
(***************************************************************************)
\* Names are alike: they come into use in their order.
Create(n) ==
  /\ Stored(n) = 0
  /\ n = 1 \/ LastAbout(n - 1, Len(hist)) # 0
  /\ hist' = Append(hist, [name |-> n, uid |-> Len(hist) + 1, gone |-> FALSE,
                           term |-> FALSE, fin |-> FALSE, run |-> 0, st |-> "none"])

Now(n) == hist[Stored(n)]

Start(n) ==
  /\ Now(n).st # "running" /\ ~Now(n).fin /\ ~Now(n).term
  /\ hist' = Append(hist, [Now(n) EXCEPT !.st = "running", !.run = Len(hist) + 1])

Exit(n) ==
  /\ Now(n).st = "running"
  /\ \E fin \in BOOLEAN :
       hist' = Append(hist, [Now(n) EXCEPT !.st = "exited", !.fin = fin])

Backoff(n) ==
  /\ Now(n).st = "exited" /\ ~Now(n).fin /\ ~Now(n).term
  /\ hist' = Append(hist, [Now(n) EXCEPT !.st = "backoff"])

Terminate(n) ==
  /\ ~Now(n).term
  /\ hist' = Append(hist, [Now(n) EXCEPT !.term = TRUE])

\* Also by force, without a deletionTimestamp before.
Delete(n) == hist' = Append(hist, [Now(n) EXCEPT !.gone = TRUE])

PodStep ==
  /\ Len(hist) < MaxVersions
  /\ \E n \in Names :
       \/ Create(n)
       \/ Stored(n) # 0 /\ (Start(n) \/ Exit(n) \/ Backoff(n) \/ Terminate(n) \/ Delete(n))
  /\ UNCHANGED seen

(***************************************************************************)
(* What the watcher delivers when its cache moves on to version q          *)
(***************************************************************************)
\* What s has at the positions in P, in order.
Picked(s, P) ==
  LET picked[k \in 0..Len(s)] ==
        IF k = 0 THEN <<>>
        ELSE IF k \in P THEN Append(picked[k - 1], s[k]) ELSE picked[k - 1]
  IN picked[Len(s)]

Versions(q) == [i \in 1..q |-> i]

Chunk(q) == Picked(Versions(q), (seen + 1)..q)

\* A relist reports the newest state of every uid, deletions last.
Relist(q) ==
  LET SameUid(i, j) == hist[i].uid = hist[j].uid
      newest == {i \in (seen + 1)..q : \A j \in (i + 1)..q : ~SameUid(i, j)}
      lost == {i \in newest : hist[i].gone /\ \E j \in 1..seen : SameUid(i, j)}
  IN Picked(Versions(q), {i \in newest : ~hist[i].gone}) \o Picked(Versions(q), lost)
===============================================================================
