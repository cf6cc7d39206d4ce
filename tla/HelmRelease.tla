----------------------------- MODULE HelmRelease -----------------------------
(***************************************************************************)
(* One Helm release and the mutations of it: install, upgrade and rollback *)
(* (install.ts, upgrade.ts, rollback.ts) in the background, uninstall      *)
(* (uninstall.ts) within its request, one at a time per Kubus process      *)
(* (operations.ts), and several processes on one cluster, which know of    *)
(* each other only by the release records there: an uninstall of one does  *)
(* not look at them, and may meet the operation of another.                *)
(*                                                                         *)
(* A manifest gives every resource its content or Absent; resources are    *)
(* numbered in manifest order.  Hooks and the wait for readiness change    *)
(* nothing here but may fail.  Every request to the API server may fail    *)
(* before or after it took effect, and a process may die between two.      *)
(***************************************************************************)
EXTENDS Naturals

CONSTANTS Processes,    \* Kubus servers, or contexts of one: an entry of
                        \* activeByRelease each
          Requests,     \* requests that can be under way together
          NumDocs,      \* resources a manifest of the release may have
          Charts,       \* what a chart and values render to
          Workloads,    \* the resources that have a pod template
          MaxRevision,  \* bound on the revisions
          MaxFaults     \* bound on failures and crashes

Docs == 1..NumDocs
\* What was rendered, and the revision whose rollback stamped the pod template.
Contents == Nat \X (0..MaxRevision)
Absent == <<0, 0>>
Manifest == [Docs -> Contents]
Nothing == [d \in Docs |-> Absent]
DocsOf(m) == {d \in Docs : m[d] # Absent}

ASSUME BoundsAssumption ==
  {NumDocs, MaxFaults} \subseteq Nat /\ MaxRevision \in Nat \ {0}
ASSUME ProcessesAssumption == "none" \notin Processes
ASSUME ChartsAssumption == Charts \subseteq Manifest
ASSUME WorkloadsAssumption == Workloads \subseteq Docs

VARIABLES
  records,     \* the release record of each revision
  live,        \* the resources in the cluster
  op,          \* what each request has come to
  active,      \* the processes whose activeByRelease has the release
  faults,
  \* history
  stranded,    \* revisions whose record stays pending with nobody at work on it
  leaked,      \* resources a failed revision no longer lists and left unpruned
  anchored,    \* an operation has succeeded since the last uninstall
  torn,        \* an uninstall has deleted resources and left the records
  crossed      \* an uninstall has been under way together with another request

histories == <<stranded, leaked, anchored, torn, crossed>>
vars == <<records, live, op, active, faults, histories>>

Revisions == 1..MaxRevision
NoRecord == [status |-> "none", manifest |-> Nothing]
Record == [status : {"none", "pending", "deployed", "superseded", "failed"},
           manifest : Manifest]

\* From the pending record on; "failing" has only its last update to make.
Working == {"preHooks", "apply", "persist", "prune", "wait", "postHooks", "finalize"}
Uninstalling == {"preDelete", "delete", "postDelete", "list", "forget"}
Phases == {"idle", "create", "failing", "supersede"} \cup Working \cup Uninstalling

\* target: the documents being applied, for an uninstall those to delete.
\* payload: the manifest of the record.  old: that of the latest revision before.
\* seen: the deployed revisions of the list read first, read: their manifests then.
\* left: what is still to be done of the loop the request is in, resources or
\* revisions.
Idle == [phase |-> "idle", kind |-> "none", home |-> "none", rev |-> 0,
         target |-> Nothing, payload |-> Nothing, old |-> Nothing,
         seen |-> {}, read |-> [r \in Revisions |-> Nothing], left |-> {}, failed |-> FALSE]

Op == [phase : Phases, kind : {"none", "install", "upgrade", "rollback", "uninstall"},
       home : Processes \cup {"none"}, rev : 0..MaxRevision, target : Manifest,
       payload : Manifest, old : Manifest,
       seen : SUBSET Revisions, read : [Revisions -> Manifest],
       left : SUBSET Nat, failed : BOOLEAN]

TypeOK ==
  /\ records \in [Revisions -> Record]
  /\ live \in Manifest
  /\ op \in [Requests -> Op]
  /\ active \subseteq Processes
  /\ faults \in 0..MaxFaults
  /\ stranded \subseteq Revisions /\ leaked \subseteq Docs
  /\ {anchored, torn, crossed} \subseteq BOOLEAN

Init ==
  /\ records = [r \in Revisions |-> NoRecord]
  /\ live = Nothing
  /\ op = [q \in Requests |-> Idle]
  /\ active = {} /\ faults = 0
  /\ stranded = {} /\ leaked = {}
  /\ anchored = FALSE /\ torn = FALSE /\ crossed = FALSE

-----------------------------------------------------------------------------
Revs == {r \in Revisions : records[r].status # "none"}
Latest(r) == r \in Revs /\ \A s \in Revs : s <= r

First(x, S) == x \in S /\ \A y \in S : x <= y
Last(x, S) == x \in S /\ \A y \in S : y <= x

Go(q, phase, left) == op' = [op EXCEPT ![q].phase = phase, ![q].left = left]
Did(q, x) == op' = [op EXCEPT ![q].left = @ \ {x}]

\* start() and runExclusive() refuse a release that has an entry already, and the
\* finally of execute() and of runExclusive() removes it.
Acquire(p) == p \notin active /\ active' = active \cup {p}

Leave(q) ==
  /\ op' = [op EXCEPT ![q] = Idle]
  /\ active' = active \ {op[q].home}

Fault == faults < MaxFaults /\ faults' = faults + 1
NoFault == UNCHANGED faults

\* What the revision before lists and this one does not, and still is there.
Dropped(q) == {d \in DocsOf(op[q].old) \ DocsOf(op[q].target) : live[d] # Absent}

\* A request that begins meets one in these phases, of another process.
Meets(phases) == crossed' = (crossed \/ \E q \in Requests : op[q].phase \in phases)

DeployedRevs == {r \in Revs : records[r].status = "deployed"}

-----------------------------------------------------------------------------
(* install.ts, upgrade.ts and rollback.ts                                  *)

\* Mutant: stamped with the revision after.
RestampedNext(m, rev) ==
  [d \in Docs |-> IF d \in Workloads /\ m[d] # Absent THEN <<m[d][1], rev + 1>> ELSE m[d]]

\* rollback.ts stamps the pod templates so that every workload rolls out.
Restamped(m, rev) ==
  [d \in Docs |-> IF d \in Workloads /\ m[d] # Absent THEN <<m[d][1], rev>> ELSE m[d]]

Prepared(p, kind, rev, payload, target, old) ==
  [phase |-> "create", kind |-> kind, home |-> p, rev |-> rev,
   target |-> target, payload |-> payload, old |-> old,
   seen |-> DeployedRevs,
   read |-> [r \in Revisions |-> IF r \in DeployedRevs THEN records[r].manifest ELSE Nothing],
   left |-> {}, failed |-> FALSE]

\* start(), and the operation up to its pending record: it reads the records and
\* renders.  One that is refused there, or whose chart does not render, has no
\* effect, and is left out.
Begin(q, p) ==
  /\ op[q] = Idle /\ Acquire(p) /\ Meets(Uninstalling)
  /\ \/ /\ Revs = {}
        /\ \E m \in Charts : op' = [op EXCEPT ![q] = Prepared(p, "install", 1, m, m, Nothing)]
     \/ \E latest \in Revisions :
          LET rev == latest + 1
              old == records[latest].manifest
          IN
          /\ Latest(latest) /\ records[latest].status # "pending"
          /\ rev <= MaxRevision
          /\ \/ \E m \in Charts :
                  op' = [op EXCEPT ![q] = Prepared(p, "upgrade", rev, m, m, old)]
             \/ \E to \in Revs \ {latest} :
                  LET m == records[to].manifest IN
                  op' = [op EXCEPT ![q] =
                           Prepared(p, "rollback", rev, m, Restamped(m, rev), old)]
  /\ UNCHANGED <<records, live, faults, stranded, leaked, anchored, torn>>

\* Mutant: the record is applied, not created.
CreateOrReplace(q) ==
  /\ op[q].phase = "create" /\ NoFault
  /\ records' = [records EXCEPT ![op[q].rev] = [status |-> "pending", manifest |-> op[q].payload]]
  /\ Go(q, "preHooks", {})
  /\ UNCHANGED <<live, active, histories>>

\* createReleaseRecord(): the API server refuses a second record of one name, and
\* an error here, whatever became of the record, ends the operation as it is.
CreateRecord(q) ==
  LET rev == op[q].rev
      created == [records EXCEPT ![rev] = [status |-> "pending", manifest |-> op[q].payload]]
  IN
  /\ op[q].phase = "create"
  /\ \/ /\ rev \notin Revs /\ NoFault
        /\ records' = created
        /\ Go(q, "preHooks", {})
        /\ UNCHANGED <<active, stranded, leaked>>
     \/ /\ rev \in Revs /\ NoFault
        /\ Leave(q) /\ UNCHANGED <<records, stranded, leaked>>
     \/ /\ Fault /\ Leave(q)
        /\ UNCHANGED <<records, stranded, leaked>>
     \/ /\ rev \notin Revs /\ Fault /\ Leave(q)
        /\ records' = created
        /\ stranded' = stranded \cup {rev}
        /\ leaked' = leaked \cup Dropped(q)
  /\ UNCHANGED <<live, anchored, torn, crossed>>

\* The hooks of the event, or the wait for readiness.
HooksOrWait(q) ==
  /\ op[q].phase \in {"preHooks", "wait", "postHooks"}
  /\ \/ /\ NoFault
        /\ CASE op[q].phase = "preHooks"  -> Go(q, "apply", DocsOf(op[q].target))
             [] op[q].phase = "wait"      -> Go(q, "postHooks", {})
             [] op[q].phase = "postHooks" -> Go(q, "finalize", {})
     \/ Fault /\ Go(q, "failing", {})
  /\ UNCHANGED <<records, live, active, histories>>

\* Server-side apply, in manifest order.
ApplyDoc(q) ==
  /\ op[q].phase = "apply"
  /\ \E d \in Docs :
       LET applied == [live EXCEPT ![d] = op[q].target[d]] IN
       /\ First(d, op[q].left)
       /\ \/ NoFault /\ live' = applied /\ Did(q, d)
          \/ Fault /\ live' \in {live, applied} /\ Go(q, "failing", {})
       /\ leaked' = leaked \ {x \in {d} : live'[d] = op[q].target[d]}
  /\ UNCHANGED <<records, active, stranded, anchored, torn, crossed>>

\* Mutant: the applied documents no longer match the keys they are kept by.
AppliedThenPruneAll(q) ==
  /\ op[q].phase = "apply" /\ op[q].left = {} /\ NoFault
  /\ Go(q, "prune", DocsOf(op[q].old))
  /\ UNCHANGED <<records, live, active, histories>>

\* All applied: a rollback stores what it applied next, whether it can or not.
Applied(q) ==
  /\ op[q].phase = "apply" /\ op[q].left = {} /\ NoFault
  /\ IF op[q].kind = "rollback"
     THEN op' = [op EXCEPT ![q].phase = "persist", ![q].payload = op[q].target]
     ELSE Go(q, IF op[q].kind = "install" THEN "wait" ELSE "prune",
             DocsOf(op[q].old) \ DocsOf(op[q].target))
  /\ UNCHANGED <<records, live, active, histories>>

\* patchReleaseRecord() of a record; one that an uninstall deleted is not there.
Patched(rev, status, manifest) ==
  IF rev \in Revs THEN [records EXCEPT ![rev] = [status |-> status, manifest |-> manifest]]
                  ELSE records

Persist(q) ==
  /\ op[q].phase = "persist"
  /\ \/ NoFault /\ records' = Patched(op[q].rev, "pending", op[q].payload)
     \/ Fault /\ UNCHANGED records
  /\ Go(q, "prune", DocsOf(op[q].old) \ DocsOf(op[q].target))
  /\ UNCHANGED <<live, active, histories>>

\* Obsolete resources, last first; one that is gone already counts as deleted.
PruneDoc(q) ==
  /\ op[q].phase = "prune"
  /\ \E d \in Docs :
       LET pruned == [live EXCEPT ![d] = Absent] IN
       /\ Last(d, op[q].left)
       /\ \/ NoFault /\ live' = pruned /\ Did(q, d)
          \/ Fault /\ live' \in {live, pruned} /\ Go(q, "failing", {})
       /\ leaked' = leaked \ {x \in {d} : live'[d] = Absent}
  /\ UNCHANGED <<records, active, stranded, anchored, torn, crossed>>

Pruned(q) ==
  /\ op[q].phase = "prune" /\ op[q].left = {} /\ NoFault
  /\ Go(q, "wait", {})
  /\ UNCHANGED <<records, live, active, histories>>

\* Mutant: the old revisions are superseded first.
FinalizeLast(q) ==
  LET superseded == [r \in Revisions |-> IF r \in op[q].seen
                       THEN [records[r] EXCEPT !.status = "superseded"] ELSE records[r]]
  IN
  /\ op[q].phase = "finalize"
  /\ \/ /\ NoFault
        /\ records' = [superseded EXCEPT ![op[q].rev].status = "deployed"]
        /\ Go(q, "supersede", {})
        /\ anchored' = TRUE /\ torn' = FALSE
     \/ /\ Fault /\ records' = superseded
        /\ Go(q, "failing", {})
        /\ UNCHANGED <<anchored, torn>>
  /\ UNCHANGED <<live, active, stranded, leaked, crossed>>

\* The new revision goes live before the old ones are superseded.
Finalize(q) ==
  LET deployed == Patched(op[q].rev, "deployed", op[q].payload) IN
  /\ op[q].phase = "finalize"
  /\ \/ /\ op[q].rev \in Revs /\ NoFault
        /\ records' = deployed
        /\ Go(q, "supersede", op[q].seen)
        /\ anchored' = TRUE /\ torn' = FALSE
     \/ /\ IF op[q].rev \in Revs THEN Fault ELSE NoFault
        /\ records' \in {records, deployed}
        /\ Go(q, "failing", {})
        /\ UNCHANGED <<anchored, torn>>
  /\ UNCHANGED <<live, active, stranded, leaked, crossed>>

\* fail(): the revision is marked as failed; that this may fail too is ignored.
Fail(q) ==
  LET rev == op[q].rev IN
  /\ op[q].phase = "failing"
  /\ \/ /\ NoFault
        /\ records' = Patched(rev, "failed", op[q].payload)
        /\ UNCHANGED stranded
     \/ /\ Fault /\ UNCHANGED records
        /\ stranded' = stranded \cup {r \in {rev} : records[r].status = "pending"}
  /\ leaked' = leaked \cup Dropped(q)
  /\ Leave(q)
  /\ UNCHANGED <<live, anchored, torn, crossed>>

\* Latest first, with what was read of them before; a failure is only logged.
Supersede(q) ==
  /\ op[q].phase = "supersede"
  /\ \/ /\ op[q].left = {} /\ NoFault
        /\ Leave(q) /\ UNCHANGED records
     \/ /\ \E rev \in Revisions :
           /\ Last(rev, op[q].left)
           /\ Did(q, rev)
           /\ \/ NoFault /\ records' = Patched(rev, "superseded", op[q].read[rev])
              \/ Fault /\ UNCHANGED records
        /\ UNCHANGED active
  /\ UNCHANGED <<live, histories>>

-----------------------------------------------------------------------------
(* uninstall.ts                                                            *)

BeginUninstall(q, p) ==
  /\ op[q] = Idle /\ Acquire(p) /\ Meets(Phases \ {"idle"})
  /\ \E latest \in Revisions :
       /\ Latest(latest)
       /\ op' = [op EXCEPT ![q] = [Idle EXCEPT !.phase = "preDelete", !.kind = "uninstall",
                                     !.home = p, !.target = records[latest].manifest]]
  /\ UNCHANGED <<records, live, faults, stranded, leaked, anchored, torn>>

PreDelete(q) ==
  /\ op[q].phase = "preDelete"
  /\ \/ NoFault /\ Go(q, "delete", DocsOf(op[q].target)) /\ UNCHANGED active
     \/ Fault /\ Leave(q)
  /\ UNCHANGED <<records, live, histories>>

\* In reverse manifest order; a failure does not stop it.
DeleteDoc(q) ==
  /\ op[q].phase = "delete"
  /\ \E d \in Docs :
       LET deleted == [live EXCEPT ![d] = Absent] IN
       /\ Last(d, op[q].left)
       /\ \/ NoFault /\ live' = deleted /\ Did(q, d)
          \/ /\ Fault /\ live' \in {live, deleted}
             /\ op' = [op EXCEPT ![q].left = @ \ {d}, ![q].failed = TRUE]
       /\ leaked' = leaked \ {x \in {d} : live'[d] = Absent}
  /\ torn' = TRUE
  /\ UNCHANGED <<records, active, stranded, anchored, crossed>>

\* The post-delete hooks; after any failure the records are kept.
PostDelete(q) ==
  /\ op[q].phase = "delete" /\ op[q].left = {}
  /\ \/ /\ NoFault /\ ~op[q].failed
        /\ Go(q, "list", {}) /\ UNCHANGED active
     \/ NoFault /\ op[q].failed /\ Leave(q)
     \/ Fault /\ Leave(q)
  /\ UNCHANGED <<records, live, histories>>

ListRecords(q) ==
  /\ op[q].phase = "list"
  /\ \/ NoFault /\ Go(q, "forget", Revs) /\ UNCHANGED active
     \/ Fault /\ Leave(q)
  /\ UNCHANGED <<records, live, histories>>

\* Oldest first, so that what is left of a failed uninstall is the latest.
ForgetRecord(q) ==
  /\ op[q].phase = "forget"
  /\ \E rev \in Revisions :
       LET forgotten == [records EXCEPT ![rev] = NoRecord] IN
       /\ First(rev, op[q].left)
       /\ \/ NoFault /\ records' = forgotten /\ Did(q, rev) /\ UNCHANGED active
          \/ Fault /\ records' \in {records, forgotten} /\ Leave(q)
  /\ stranded' = {r \in stranded : records'[r].status # "none"}
  /\ anchored' = FALSE
  /\ torn' = (\E r \in Revisions : records'[r].status # "none")
  /\ UNCHANGED <<live, leaked, crossed>>

Forgotten(q) ==
  /\ op[q].phase = "forget" /\ op[q].left = {} /\ NoFault
  /\ Leave(q)
  /\ UNCHANGED <<records, live, histories>>

-----------------------------------------------------------------------------
\* The process dies: its operations and activeByRelease were only in its memory.
Crash(p) ==
  LET dead == {q \in Requests : op[q].home = p}
      cut == {q \in dead : op[q].phase \in Working \cup {"failing"}}
  IN
  /\ dead # {} /\ Fault
  /\ op' = [q \in Requests |-> IF q \in dead THEN Idle ELSE op[q]]
  /\ active' = active \ {p}
  /\ stranded' = stranded \cup {r \in {op[q].rev : q \in cut} : records[r].status = "pending"}
  /\ leaked' = leaked \cup UNION {Dropped(q) : q \in cut}
  /\ UNCHANGED <<records, live, anchored, torn, crossed>>

Mutation(q) ==
  \/ CreateRecord(q) \/ HooksOrWait(q) \/ ApplyDoc(q) \/ Applied(q) \/ Persist(q)
  \/ PruneDoc(q) \/ Pruned(q) \/ Finalize(q) \/ Fail(q) \/ Supersede(q)

Uninstall(q) ==
  \/ PreDelete(q) \/ DeleteDoc(q) \/ PostDelete(q) \/ ListRecords(q)
  \/ ForgetRecord(q) \/ Forgotten(q)

Next ==
  \/ \E q \in Requests : Mutation(q) \/ Uninstall(q)
  \/ \E q \in Requests, p \in Processes : Begin(q, p) \/ BeginUninstall(q, p)
  \/ \E p \in Processes : Crash(p)

Spec == Init /\ [][Next]_vars

-----------------------------------------------------------------------------
\* A pending record is the lock of the release: one operation of all processes
\* is at work on its resources, and a record stays pending beyond its operation
\* only if the process died or the update that would say "failed" was lost.  Only
\* an uninstall that met an operation of another process takes the lock away, with
\* the record (uninstall.ts 80-95); the updates of that operation then find none.
PendingIsLock ==
  /\ \A q1, q2 \in Requests :
       {op[q1].phase, op[q2].phase} \subseteq Working => q1 = q2 \/ crossed
  /\ \A r \in Revs \ stranded : records[r].status = "pending" =>
       \E q \in Requests : op[q].phase \in Working \cup {"failing"} /\ op[q].rev = r

\* "Flip the new revision live before superseding old records so a storage patch
\* failure never leaves the release with no deployed revision": once an operation
\* has succeeded, some revision is deployed until an uninstall deletes records, or
\* met another request.
DeployedAnchor ==
  anchored /\ ~crossed => \E r \in Revs : records[r].status = "deployed"

\* While the latest revision is deployed, all its manifest lists is in the cluster
\* as listed, and of what earlier revisions brought nothing is but what a failed
\* revision left unpruned; after an uninstall only the latter is left.  "It must
\* never overlap an install, upgrade, or rollback of the same release"
\* (operations.ts 83-87) holds within a process; where an uninstall met a request of
\* another, neither is sure.
ManifestIsLive ==
  ~torn /\ ~crossed =>
    /\ \A r \in Revs : Latest(r) /\ records[r].status = "deployed" =>
         \A d \in Docs : \/ live[d] = records[r].manifest[d]
                        \/ (records[r].manifest[d] = Absent /\ d \in leaked)
    /\ Revs = {} => \A d \in Docs : live[d] = Absent \/ d \in leaked
-----------------------------------------------------------------------------
(* The inductive invariant behind these three.                             *)

\* Requests whose record exists, and is theirs.
Created == Working \cup {"failing", "supersede"}

\* The revision of an operation is one, from its reading of the records on.
RevInv == \A q \in Requests : op[q].phase \in Created \cup {"create"} => op[q].rev \in Revisions

\* A request that is under way holds the entry of its process, alone, and an
\* uninstall is alone among all.
AloneInv ==
  /\ \A q \in Requests : op[q].phase # "idle" => op[q].home \in active
  /\ \A q1, q2 \in Requests :
       q1 # q2 /\ "idle" \notin {op[q1].phase, op[q2].phase} => op[q1].home # op[q2].home
  /\ \A q1, q2 \in Requests :
       q1 # q2 /\ op[q1].phase \in Uninstalling => op[q2].phase = "idle"

\* The revisions are an interval, and only the latest can be pending.
HistoryInv ==
  /\ \A r, s \in Revs, t \in Revisions : r < t /\ t < s => t \in Revs
  /\ \A r \in Revs : records[r].status = "pending" => Latest(r)

\* What a request has read of the records is still so.
ReadInv(q) ==
  LET rev == op[q].rev IN
  /\ op[q].phase \in Created \cup {"create"} =>
       /\ rev \in Revisions
       /\ op[q].seen \subseteq {s \in Revs : s < rev}
       /\ \A s \in op[q].seen : DocsOf(op[q].read[s]) = DocsOf(records[s].manifest)
       /\ op[q].kind # "rollback" => op[q].payload = op[q].target
  /\ op[q].phase = "create" =>
       /\ rev = 1 => (Revs = {} \/ 1 \in Revs) /\ op[q].old = Nothing
       /\ rev # 1 => /\ rev - 1 \in Revs /\ records[rev - 1].status # "pending"
                     /\ DocsOf(op[q].old) = DocsOf(records[rev - 1].manifest)
       /\ DocsOf(op[q].payload) = DocsOf(op[q].target)
  /\ op[q].phase = "supersede" => op[q].left \subseteq op[q].seen
  /\ op[q].phase \in Uninstalling \ {"forget"} =>
       \E r \in Revs : Latest(r) /\ op[q].target = records[r].manifest
  /\ op[q].phase = "forget" => op[q].left = Revs

\* Its own record is there, and pending until it says otherwise.
OwnInv(q) ==
  LET rev == op[q].rev IN
  /\ op[q].phase \in Created => rev \in Revs
  /\ op[q].phase \in Working => records[rev].status = "pending"
  /\ op[q].phase \in Working \cup {"failing"} =>
       /\ DocsOf(op[q].payload) = DocsOf(op[q].target)
       /\ DocsOf(records[rev].manifest) = DocsOf(op[q].target)
  /\ op[q].phase \in {"persist", "prune", "wait", "postHooks", "finalize"} =>
       op[q].payload = op[q].target

RecordsInv ==
  /\ HistoryInv
  /\ \A q \in Requests : ReadInv(q) /\ OwnInv(q)
  /\ \A q1, q2 \in Requests :
       q1 # q2 /\ {op[q1].phase, op[q2].phase} \subseteq Created => op[q1].rev # op[q2].rev

\* A deployed record that no request under way is about to overwrite.
Solid(r) ==
  /\ r \in Revs /\ records[r].status = "deployed"
  /\ \A q \in Requests : /\ op[q].phase = "failing" => op[q].rev # r
                         /\ op[q].phase = "supersede" => r \notin op[q].left

AnchorInv == anchored => \E r \in Revisions : Solid(r)

\* What a request at work still has to prune.
Unpruned(q) ==
  IF op[q].phase = "prune" THEN op[q].left
  ELSE IF \/ op[q].phase \in {"preHooks", "apply", "persist"}
          \/ op[q].phase = "failing" /\ records[op[q].rev].status = "pending"
       THEN DocsOf(op[q].old) \ DocsOf(op[q].target)
       ELSE {}

\* Nothing is in the cluster that nobody lists, will prune or has leaked.
CoveredInv ==
  \A d \in DocsOf(live) \ leaked :
    \/ \E r \in Revs : Latest(r) /\ d \in DocsOf(records[r].manifest)
    \/ \E q \in Requests : d \in Unpruned(q)

\* How far the loop of a request has come.
LoopInv(q) ==
  /\ op[q].phase # "idle" /\ op[q].kind = "install" => op[q].old = Nothing
  /\ op[q].phase = "prune" => op[q].left \subseteq DocsOf(op[q].old) \ DocsOf(op[q].target)
  /\ op[q].phase = "apply" => \A d \in DocsOf(op[q].target) \ op[q].left : live[d] = op[q].target[d]
  /\ op[q].phase \in {"persist", "prune", "wait", "postHooks", "finalize"} =>
       \A d \in DocsOf(op[q].target) : live[d] = op[q].target[d]
  /\ op[q].phase = "delete" /\ ~op[q].failed => DocsOf(live) \subseteq leaked \cup op[q].left
  /\ op[q].phase \in {"list", "forget"} => DocsOf(live) \subseteq leaked

\* A pending record is held by the request at work on it, or stranded.
HeldInv ==
  \A r \in Revs \ stranded : records[r].status = "pending" =>
    \E q \in Requests : op[q].phase \in Working \cup {"failing"} /\ op[q].rev = r

\* What a deployed latest revision lists is there as listed.
LiveInv ==
  ~torn => \A r \in Revs : Latest(r) /\ records[r].status = "deployed" =>
             \A d \in DocsOf(records[r].manifest) : live[d] = records[r].manifest[d]

\* What holds until an uninstall meets another request.
CalmInv ==
  /\ AloneInv /\ RecordsInv /\ AnchorInv
  /\ CoveredInv /\ LiveInv /\ \A q \in Requests : LoopInv(q)

IInv == TypeOK /\ RevInv /\ HeldInv /\ (~crossed => CalmInv)
=============================================================================
