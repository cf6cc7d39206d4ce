-------------------------- MODULE HelmRelease_proofs --------------------------
(***************************************************************************)
(* The mutations of a Helm release keep each other out and keep the        *)
(* cluster and the records in step, for any number of processes, requests, *)
(* resources, revisions and failures, until an uninstall meets a request   *)
(* of another process: IInv is inductive.                                  *)
(***************************************************************************)
EXTENDS HelmRelease, TLAPS

USE BoundsAssumption, ProcessesAssumption, ChartsAssumption, WorkloadsAssumption

-----------------------------------------------------------------------------
(* Types                                                                   *)

LEMMA NothingIsManifest == Nothing \in Manifest
  BY DEF Nothing, Manifest, Contents, Absent

LEMMA RestampedIsManifest ==
  ASSUME NEW m \in Manifest, NEW rev \in 0..MaxRevision
  PROVE  Restamped(m, rev) \in Manifest
<1>1. \A d \in Docs : m[d][1] \in Nat /\ m[d] \in Contents
  BY DEF Manifest, Contents
<1>2. \A d \in Docs : <<m[d][1], rev>> \in Contents
  BY <1>1 DEF Contents
<1> QED
  BY <1>1, <1>2 DEF Restamped, Manifest

LEMMA RestampedKeepsDocs ==
  ASSUME NEW m \in Manifest, NEW rev \in 1..MaxRevision
  PROVE  DocsOf(Restamped(m, rev)) = DocsOf(m)
<1> DEFINE n == Restamped(m, rev)
<1>1. rev # 0
  OBVIOUS
<1>2. \A d \in Docs : <<m[d][1], rev>> # Absent
  BY <1>1, Zenon DEF Absent
<1>3. \A d \in Docs : n[d] = IF d \in Workloads /\ m[d] # Absent THEN <<m[d][1], rev>> ELSE m[d]
  BY DEF Restamped
<1>4. \A d \in Docs : n[d] # Absent <=> m[d] # Absent
  BY <1>2, <1>3
<1> HIDE DEF n
<1>5. DocsOf(n) = DocsOf(m)
  BY <1>4 DEF DocsOf
<1> QED
  BY <1>5 DEF n

LEMMA IdleIsOp == Idle \in Op
<1>1. {} \in SUBSET Revisions /\ {} \in SUBSET Nat /\ 0 \in 0..MaxRevision
  OBVIOUS
<1>2. [r \in Revisions |-> Nothing] \in [Revisions -> Manifest]
  BY NothingIsManifest
<1> QED
  BY <1>1, <1>2, NothingIsManifest DEF Idle, Op, Phases

\* The operation a request has become is one, whichever way it went.
LEMMA GoIsOp ==
  ASSUME NEW o \in Op, NEW phase \in Phases, NEW left \in SUBSET Nat
  PROVE  [[o EXCEPT !.phase = phase] EXCEPT !.left = left] \in Op
  BY DEF Op

LEMMA GoType ==
  ASSUME op \in [Requests -> Op], NEW q \in Requests, NEW phase \in Phases,
         NEW left \in SUBSET Nat, Go(q, phase, left)
  PROVE  op' \in [Requests -> Op]
<1>1. op' = [op EXCEPT ![q] = [[op[q] EXCEPT !.phase = phase] EXCEPT !.left = left]]
  BY DEF Go
<1> QED
  BY <1>1, GoIsOp

LEMMA DidType ==
  ASSUME op \in [Requests -> Op], NEW q \in Requests, NEW x, Did(q, x)
  PROVE  op' \in [Requests -> Op]
<1>1. ASSUME NEW o \in Op
      PROVE  [o EXCEPT !.left = o.left \ {x}] \in Op
  BY DEF Op
<1>2. op' = [op EXCEPT ![q] = [op[q] EXCEPT !.left = op[q].left \ {x}]]
  BY DEF Did
<1> QED
  BY <1>1, <1>2

LEMMA LeaveType ==
  ASSUME op \in [Requests -> Op], active \subseteq Processes, NEW q \in Requests, Leave(q)
  PROVE  op' \in [Requests -> Op] /\ active' \subseteq Processes
  BY IdleIsOp DEF Leave

LEMMA PatchedType ==
  ASSUME records \in [Revisions -> Record], NEW rev, NEW m \in Manifest,
         NEW s \in {"none", "pending", "deployed", "superseded", "failed"}
  PROVE  Patched(rev, s, m) \in [Revisions -> Record]
  BY DEF Patched, Record

LEMMA FaultsType ==
  ASSUME faults \in 0..MaxFaults, Fault \/ NoFault
  PROVE  faults' \in 0..MaxFaults
  BY DEF Fault, NoFault
LEMMA TypeInit == Init => TypeOK
<1> SUFFICES ASSUME Init PROVE TypeOK
  OBVIOUS
<1>1. NoRecord \in Record
  BY NothingIsManifest DEF NoRecord, Record
<1>2. records \in [Revisions -> Record] /\ live \in Manifest /\ op \in [Requests -> Op]
  BY <1>1, NothingIsManifest, IdleIsOp DEF Init
<1>3. faults \in 0..MaxFaults
  BY DEF Init
<1>4. /\ active \subseteq Processes /\ stranded \subseteq Revisions /\ leaked \subseteq Docs
      /\ {anchored, torn, crossed} \subseteq BOOLEAN
  BY DEF Init
<1> QED
  BY <1>2, <1>3, <1>4 DEF TypeOK

\* The sets a loop runs over are sets of numbers.
LEMMA LoopsAreNumbers ==
  /\ \A m : DocsOf(m) \in SUBSET Nat
  /\ Revs \in SUBSET Revisions /\ Revisions \in SUBSET Nat /\ {} \in SUBSET Nat
  BY DEF DocsOf, Revs, Revisions, Docs

LEMMA TypeStep ==
  ASSUME TypeOK, RevInv, [Next]_vars
  PROVE  TypeOK'
<1> USE DEF TypeOK
<1>1. ASSUME NEW q \in Requests, NEW p \in Processes, Begin(q, p)
      PROVE  TypeOK'
  <2>1. ASSUME NEW kind \in {"install", "upgrade", "rollback"}, NEW rev \in 1..MaxRevision,
               NEW m \in Manifest, NEW t \in Manifest, NEW old \in Manifest
        PROVE  Prepared(p, kind, rev, m, t, old) \in Op
    <3>1. DeployedRevs \in SUBSET Revisions /\ {} \in SUBSET Nat
      BY DEF DeployedRevs, Revs
    <3>2. [r \in Revisions |-> IF r \in DeployedRevs THEN records[r].manifest ELSE Nothing]
            \in [Revisions -> Manifest]
      BY NothingIsManifest DEF Record
    <3> QED
      BY <2>1, <3>1, <3>2 DEF Prepared, Op, Phases
  <2>2. \E o \in Op : op' = [op EXCEPT ![q] = o]
    <3>1. CASE Revs = {} /\ \E m \in Charts :
                 op' = [op EXCEPT ![q] = Prepared(p, "install", 1, m, m, Nothing)]
      <4>1. 1 \in 1..MaxRevision /\ Charts \subseteq Manifest
        OBVIOUS
      <4>2. \A m \in Charts : Prepared(p, "install", 1, m, m, Nothing) \in Op
        BY <4>1, <2>1, NothingIsManifest
      <4> QED
        BY <3>1, <4>2
    <3>2. ASSUME NEW latest \in Revisions, latest + 1 <= MaxRevision, NEW m \in Charts,
                 op' = [op EXCEPT ![q] = Prepared(p, "upgrade", latest + 1, m, m,
                                                  records[latest].manifest)]
          PROVE  \E o \in Op : op' = [op EXCEPT ![q] = o]
      <4>1. records[latest].manifest \in Manifest /\ latest + 1 \in 1..MaxRevision
        BY <3>2 DEF Record, Revisions
      <4> QED
        BY <3>2, <4>1, <2>1
    <3>3. ASSUME NEW latest \in Revisions, latest + 1 <= MaxRevision, NEW to \in Revs,
                 op' = [op EXCEPT ![q] =
                          Prepared(p, "rollback", latest + 1, records[to].manifest,
                                   Restamped(records[to].manifest, latest + 1),
                                   records[latest].manifest)]
          PROVE  \E o \in Op : op' = [op EXCEPT ![q] = o]
      <4>1. /\ records[latest].manifest \in Manifest /\ records[to].manifest \in Manifest
            /\ latest + 1 \in 1..MaxRevision /\ latest + 1 \in 0..MaxRevision
        BY <3>3 DEF Record, Revisions, Revs
      <4> QED
        BY <3>3, <4>1, <2>1, RestampedIsManifest
    <3> QED
      BY <1>1, <3>1, <3>2, <3>3 DEF Begin
  <2>3. active' \subseteq Processes
    BY <1>1 DEF Begin, Acquire
  <2>4. crossed' \in BOOLEAN
    BY <1>1 DEF Begin, Meets
  <2> QED
    BY <1>1, <2>2, <2>3, <2>4 DEF Begin
<1>2. ASSUME NEW q \in Requests, CreateRecord(q) PROVE TypeOK'
  <2>1. op[q] \in Op /\ op[q].payload \in Manifest
    BY DEF Op
  <2>2. [records EXCEPT ![op[q].rev] = [status |-> "pending", manifest |-> op[q].payload]]
          \in [Revisions -> Record]
    BY <2>1 DEF Record
  <2>3. records' \in [Revisions -> Record] /\ faults' \in 0..MaxFaults /\ live' \in Manifest
    BY <1>2, <2>2, FaultsType DEF CreateRecord
  <2>4. op' \in [Requests -> Op] /\ active' \subseteq Processes
    BY <1>2, GoType, LeaveType, LoopsAreNumbers DEF CreateRecord, Phases, Working
  <2>5. stranded' \subseteq Revisions /\ leaked' \subseteq Docs
    <3>1. op[q].phase = "create" => op[q].rev \in Revisions
      BY DEF RevInv
    <3>2. Dropped(q) \subseteq Docs
      BY DEF Dropped, DocsOf
    <3> QED
      BY <1>2, <3>1, <3>2 DEF CreateRecord
  <2> QED
    BY <1>2, <2>3, <2>4, <2>5 DEF CreateRecord
<1>3. ASSUME NEW q \in Requests, HooksOrWait(q) PROVE TypeOK'
  <2>1. op' \in [Requests -> Op]
    BY <1>3, GoType, LoopsAreNumbers DEF HooksOrWait, Phases, Working
  <2> QED
    BY <1>3, <2>1, FaultsType DEF HooksOrWait, histories
<1>4. ASSUME NEW q \in Requests, ApplyDoc(q) PROVE TypeOK'
  <2>1. op' \in [Requests -> Op]
    BY <1>4, GoType, DidType, LoopsAreNumbers DEF ApplyDoc, Phases, Working
  <2>2. live' \in Manifest
    <3>1. op[q].target \in Manifest
      BY DEF Op
    <3> QED
      BY <1>4, <3>1 DEF ApplyDoc, Manifest
  <2> QED
    BY <1>4, <2>1, <2>2, FaultsType DEF ApplyDoc
<1>5. ASSUME NEW q \in Requests, Applied(q) PROVE TypeOK'
  <2>1. op[q] \in Op /\ op[q].target \in Manifest
    BY DEF Op
  <2>2. [[op[q] EXCEPT !.phase = "persist"] EXCEPT !.payload = op[q].target] \in Op
    BY <2>1 DEF Op, Phases, Working
  <2>3. DocsOf(op[q].old) \ DocsOf(op[q].target) \in SUBSET Nat
    BY LoopsAreNumbers
  <2>4. CASE op[q].kind = "rollback"
    BY <1>5, <2>2, <2>4 DEF Applied, NoFault, histories
  <2>5. CASE op[q].kind # "rollback"
    <3>1. op' \in [Requests -> Op]
      BY <1>5, <2>3, <2>5, GoType DEF Applied, Phases, Working
    <3> QED
      BY <1>5, <3>1 DEF Applied, NoFault, histories
  <2> QED
    BY <2>4, <2>5
<1>6. ASSUME NEW q \in Requests, Persist(q) PROVE TypeOK'
  <2>1. op' \in [Requests -> Op]
    BY <1>6, GoType, LoopsAreNumbers DEF Persist, Phases, Working
  <2>2. op[q].payload \in Manifest
    BY DEF Op
  <2>3. records' \in [Revisions -> Record]
    BY <1>6, <2>2, PatchedType DEF Persist
  <2> QED
    BY <1>6, <2>1, <2>3, FaultsType DEF Persist, histories
<1>7. ASSUME NEW q \in Requests, PruneDoc(q) PROVE TypeOK'
  <2>1. op' \in [Requests -> Op]
    BY <1>7, GoType, DidType, LoopsAreNumbers DEF PruneDoc, Phases, Working
  <2>2. live' \in Manifest
    BY <1>7, NothingIsManifest DEF PruneDoc, Manifest, Nothing
  <2> QED
    BY <1>7, <2>1, <2>2, FaultsType DEF PruneDoc
<1>8. ASSUME NEW q \in Requests, Pruned(q) PROVE TypeOK'
  <2>1. op' \in [Requests -> Op]
    BY <1>8, GoType, LoopsAreNumbers DEF Pruned, Phases, Working
  <2> QED
    BY <1>8, <2>1, FaultsType DEF Pruned, histories
<1>9. ASSUME NEW q \in Requests, Finalize(q) PROVE TypeOK'
  <2>1. op[q].payload \in Manifest /\ op[q].seen \in SUBSET Nat
    BY DEF Op, Revisions
  <2>2. op' \in [Requests -> Op]
    BY <1>9, <2>1, GoType, LoopsAreNumbers DEF Finalize, Phases, Working
  <2>3. records' \in [Revisions -> Record]
    BY <1>9, <2>1, PatchedType DEF Finalize
  <2> QED
    BY <1>9, <2>2, <2>3, FaultsType DEF Finalize
<1>10. ASSUME NEW q \in Requests, Fail(q) PROVE TypeOK'
  <2>1. op[q].payload \in Manifest
    BY DEF Op
  <2>2. op' \in [Requests -> Op] /\ active' \subseteq Processes
    BY <1>10, LeaveType DEF Fail
  <2>3. records' \in [Revisions -> Record]
    BY <1>10, <2>1, PatchedType DEF Fail
  <2>4. op[q].rev \in Revisions
    BY <1>10 DEF Fail, RevInv, Created
  <2>5. Dropped(q) \subseteq Docs
    BY DEF Dropped, DocsOf
  <2> QED
    BY <1>10, <2>2, <2>3, <2>4, <2>5, FaultsType DEF Fail
<1>11. ASSUME NEW q \in Requests, Supersede(q) PROVE TypeOK'
  <2>1. op' \in [Requests -> Op] /\ active' \subseteq Processes
    BY <1>11, LeaveType, DidType DEF Supersede
  <2>2. records' \in [Revisions -> Record]
    <3>1. \A rev \in Revisions : op[q].read[rev] \in Manifest
      BY DEF Op
    <3> QED
      BY <1>11, <3>1, PatchedType DEF Supersede
  <2> QED
    BY <1>11, <2>1, <2>2, FaultsType DEF Supersede, histories
<1>12. ASSUME NEW q \in Requests, NEW p \in Processes, BeginUninstall(q, p)
       PROVE  TypeOK'
  <2>1. \A rev \in Revisions : records[rev].manifest \in Manifest
    BY DEF Record
  <2>2. ASSUME NEW m \in Manifest
        PROVE  [Idle EXCEPT !.phase = "preDelete", !.kind = "uninstall",
                            !.home = p, !.target = m] \in Op
    BY <2>2, IdleIsOp DEF Op, Phases, Uninstalling
  <2>3. op' \in [Requests -> Op]
    <3>1. PICK latest \in Revisions :
            op' = [op EXCEPT ![q] = [Idle EXCEPT !.phase = "preDelete", !.kind = "uninstall",
                                      !.home = p, !.target = records[latest].manifest]]
      BY <1>12 DEF BeginUninstall
    <3>2. [Idle EXCEPT !.phase = "preDelete", !.kind = "uninstall", !.home = p,
                       !.target = records[latest].manifest] \in Op
      BY <2>1, <2>2
    <3> QED
      BY <3>1, <3>2
  <2>4. active' \subseteq Processes /\ crossed' \in BOOLEAN
    BY <1>12 DEF BeginUninstall, Acquire, Meets
  <2> QED
    BY <1>12, <2>3, <2>4 DEF BeginUninstall
<1>13. ASSUME NEW q \in Requests, PreDelete(q) PROVE TypeOK'
  <2>1. op' \in [Requests -> Op] /\ active' \subseteq Processes
    BY <1>13, GoType, LeaveType, LoopsAreNumbers DEF PreDelete, Phases, Uninstalling
  <2> QED
    BY <1>13, <2>1, FaultsType DEF PreDelete, histories
<1>14. ASSUME NEW q \in Requests, DeleteDoc(q) PROVE TypeOK'
  <2>1. op' \in [Requests -> Op]
    <3>1. ASSUME NEW d \in Docs
          PROVE  [[op[q] EXCEPT !.left = @ \ {d}] EXCEPT !.failed = TRUE] \in Op
      BY <3>1, ZenonT(40) DEF Op
    <3> QED
      BY <1>14, <3>1, DidType DEF DeleteDoc
  <2>2. live' \in Manifest
    BY <1>14, NothingIsManifest DEF DeleteDoc, Manifest, Nothing
  <2> QED
    BY <1>14, <2>1, <2>2, FaultsType DEF DeleteDoc
<1>15. ASSUME NEW q \in Requests, PostDelete(q) PROVE TypeOK'
  <2>1. op' \in [Requests -> Op] /\ active' \subseteq Processes
    BY <1>15, GoType, LeaveType, LoopsAreNumbers DEF PostDelete, Phases, Uninstalling
  <2> QED
    BY <1>15, <2>1, FaultsType DEF PostDelete, histories
<1>16. ASSUME NEW q \in Requests, ListRecords(q) PROVE TypeOK'
  <2>1. Revs \in SUBSET Nat
    BY LoopsAreNumbers
  <2>2. op' \in [Requests -> Op] /\ active' \subseteq Processes
    BY <1>16, <2>1, GoType, LeaveType DEF ListRecords, Phases, Uninstalling
  <2> QED
    BY <1>16, <2>2, FaultsType DEF ListRecords, histories
<1>17. ASSUME NEW q \in Requests, ForgetRecord(q) PROVE TypeOK'
  <2>1. op' \in [Requests -> Op] /\ active' \subseteq Processes
    BY <1>17, DidType, LeaveType DEF ForgetRecord
  <2>2. records' \in [Revisions -> Record]
    <3>1. NoRecord \in Record
      BY NothingIsManifest DEF NoRecord, Record
    <3> QED
      BY <1>17, <3>1 DEF ForgetRecord
  <2>3. stranded' \subseteq Revisions /\ anchored' \in BOOLEAN /\ torn' \in BOOLEAN
    BY <1>17 DEF ForgetRecord
  <2> QED
    BY <1>17, <2>1, <2>2, <2>3, FaultsType DEF ForgetRecord
<1>18. ASSUME NEW q \in Requests, Forgotten(q) PROVE TypeOK'
  <2>1. op' \in [Requests -> Op] /\ active' \subseteq Processes
    BY <1>18, LeaveType DEF Forgotten
  <2> QED
    BY <1>18, <2>1, FaultsType DEF Forgotten, histories
<1>19. ASSUME NEW p \in Processes, Crash(p) PROVE TypeOK'
  <2>1. op' \in [Requests -> Op]
    BY <1>19, IdleIsOp DEF Crash
  <2>2. \A q \in Requests : op[q].phase \in Working \cup {"failing"} => op[q].rev \in Revisions
    BY DEF RevInv, Created
  <2>3. stranded' \subseteq Revisions
    BY <1>19, <2>2 DEF Crash
  <2>4. \A q \in Requests : Dropped(q) \subseteq Docs
    BY DEF Dropped, DocsOf
  <2>5. leaked' \subseteq Docs
    BY <1>19, <2>4 DEF Crash
  <2> QED
    BY <1>19, <2>1, <2>3, <2>5, FaultsType DEF Crash
<1>20. ASSUME UNCHANGED vars PROVE TypeOK'
  BY <1>20 DEF vars, histories
<1> QED
  BY <1>1, <1>2, <1>3, <1>4, <1>5, <1>6, <1>7, <1>8, <1>9, <1>10, <1>11, <1>12, <1>13,
     <1>14, <1>15, <1>16, <1>17, <1>18, <1>19, <1>20 DEF Next, Mutation, Uninstall
-----------------------------------------------------------------------------
(* Who is at work                                                          *)

Step(q) == Mutation(q) \/ Uninstall(q)

\* A step of a request leaves the others alone, and goes on or ends the request.
Moves(q) ==
  /\ op[q].phase # "idle"
  /\ \A r \in Requests \ {q} : op'[r] = op[r]
  /\ \/ /\ op'[q].phase # "idle" /\ active' = active
        /\ op'[q].home = op[q].home /\ op'[q].rev = op[q].rev
        /\ op'[q].seen = op[q].seen /\ op'[q].read = op[q].read
        /\ op'[q].old = op[q].old /\ op'[q].target = op[q].target /\ op'[q].kind = op[q].kind
        /\ op'[q].phase \in Uninstalling <=> op[q].phase \in Uninstalling
     \/ op'[q] = Idle /\ active' = active \ {op[q].home}

LEMMA GoMoves ==
  ASSUME TypeOK, NEW q \in Requests, NEW phase \in Phases \ {"idle"}, NEW left,
         Go(q, phase, left), active' = active, op[q].phase # "idle",
         phase \in Uninstalling <=> op[q].phase \in Uninstalling
  PROVE  /\ Moves(q) /\ op'[q].phase = phase /\ op'[q].left = left
         /\ op'[q].payload = op[q].payload /\ op'[q].failed = op[q].failed
  BY DEF TypeOK, Go, Moves, Op

LEMMA DidMoves ==
  ASSUME TypeOK, NEW q \in Requests, NEW x, Did(q, x), active' = active,
         op[q].phase # "idle"
  PROVE  /\ Moves(q) /\ op'[q] = [op[q] EXCEPT !.left = @ \ {x}]
         /\ op'[q].phase = op[q].phase /\ op'[q].left = op[q].left \ {x}
         /\ op'[q].payload = op[q].payload /\ op'[q].failed = op[q].failed
  BY DEF TypeOK, Did, Moves, Op

LEMMA LeaveMoves ==
  ASSUME TypeOK, NEW q \in Requests, Leave(q), op[q].phase # "idle"
  PROVE  Moves(q) /\ op'[q] = Idle
  BY DEF TypeOK, Leave, Moves

LEMMA StepMoves ==
  ASSUME TypeOK, NEW q \in Requests, Step(q)
  PROVE  Moves(q)
<1> USE GoMoves, DidMoves, LeaveMoves DEF Phases, Working, Uninstalling
<1>1. CASE CreateRecord(q)
  BY <1>1 DEF CreateRecord
<1>2. CASE HooksOrWait(q)
  BY <1>2 DEF HooksOrWait, histories
<1>3. CASE ApplyDoc(q)
  BY <1>3 DEF ApplyDoc
<1>4. CASE Applied(q)
  <2>1. CASE op[q].kind = "rollback"
    BY <1>4, <2>1 DEF Applied, Moves, TypeOK, Op
  <2>2. CASE op[q].kind # "rollback"
    BY <1>4, <2>2 DEF Applied
  <2> QED
    BY <2>1, <2>2
<1>5. CASE Persist(q)
  BY <1>5 DEF Persist, histories
<1>6. CASE PruneDoc(q)
  BY <1>6 DEF PruneDoc
<1>7. CASE Pruned(q)
  BY <1>7 DEF Pruned, histories
<1>8. CASE Finalize(q)
  BY <1>8 DEF Finalize
<1>9. CASE Fail(q)
  BY <1>9 DEF Fail
<1>10. CASE Supersede(q)
  BY <1>10 DEF Supersede, histories
<1>11. CASE PreDelete(q)
  BY <1>11 DEF PreDelete, histories
<1>12. CASE DeleteDoc(q)
  BY <1>12 DEF DeleteDoc, Moves, TypeOK, Op
<1>13. CASE PostDelete(q)
  BY <1>13 DEF PostDelete, histories
<1>14. CASE ListRecords(q)
  BY <1>14 DEF ListRecords, histories
<1>15. CASE ForgetRecord(q)
  BY <1>15 DEF ForgetRecord
<1>16. CASE Forgotten(q)
  BY <1>16 DEF Forgotten, histories
<1> QED
  BY <1>1, <1>2, <1>3, <1>4, <1>5, <1>6, <1>7, <1>8, <1>9, <1>10, <1>11, <1>12, <1>13,
     <1>14, <1>15, <1>16 DEF Step, Mutation, Uninstall

LEMMA RevStep ==
  ASSUME TypeOK, RevInv, [Next]_vars
  PROVE  RevInv'
<1> USE DEF RevInv
<1>1. ASSUME NEW q \in Requests, Step(q) PROVE RevInv'
  <2>1. Moves(q)
    BY <1>1, StepMoves
  <2>2. ASSUME op'[q].phase \in Created \cup {"create"} PROVE op'[q].rev \in Revisions
    <3>1. op'[q].phase \notin Uninstalling /\ op'[q] # Idle
      BY <2>2 DEF Created, Working, Uninstalling, Idle
    <3>2. op[q].phase \notin Uninstalling /\ op[q].phase # "idle" /\ op'[q].rev = op[q].rev
      BY <2>1, <3>1 DEF Moves
    <3>3. op[q].phase \in Created \cup {"create"}
      BY <3>2 DEF TypeOK, Op, Phases, Created
    <3> QED
      BY <3>2, <3>3
  <2> QED
    BY <2>1, <2>2 DEF Moves
<1>2. ASSUME NEW q \in Requests, NEW p \in Processes, Begin(q, p) PROVE RevInv'
  <2>1. \A r \in Requests \ {q} : op'[r] = op[r]
    BY <1>2 DEF Begin, TypeOK
  <2>2. op'[q].rev \in Revisions
    <3>1. 1 \in Revisions
      BY DEF Revisions
    <3>2. \A latest \in Revisions : latest + 1 <= MaxRevision => latest + 1 \in Revisions
      BY DEF Revisions
    <3>3. \A kind, rev, m, t, old :
            op' = [op EXCEPT ![q] = Prepared(p, kind, rev, m, t, old)] => op'[q].rev = rev
      BY DEF Prepared, TypeOK
    <3> QED
      BY <1>2, <3>1, <3>2, <3>3 DEF Begin
  <2> QED
    BY <2>1, <2>2
<1>3. ASSUME NEW q \in Requests, NEW p \in Processes, BeginUninstall(q, p) PROVE RevInv'
  <2>1. \A r \in Requests \ {q} : op'[r] = op[r]
    BY <1>3 DEF BeginUninstall
  <2>2. op'[q].phase = "preDelete"
    BY <1>3 DEF BeginUninstall, Idle, TypeOK
  <2> QED
    BY <2>1, <2>2 DEF Created, Working
<1>4. ASSUME NEW p \in Processes, Crash(p) PROVE RevInv'
  BY <1>4 DEF Crash, Idle, Created, Working
<1>5. ASSUME UNCHANGED vars PROVE RevInv'
  BY <1>5 DEF vars
<1> QED
  BY <1>1, <1>2, <1>3, <1>4, <1>5 DEF Next, Step

\* An uninstall that has met another request stays known.
LEMMA CalmBefore ==
  ASSUME TypeOK, [Next]_vars, ~crossed'
  PROVE  ~crossed
<1>1. ASSUME NEW q \in Requests, Step(q) PROVE crossed' = crossed
  BY <1>1 DEF Step, Mutation, Uninstall, CreateRecord, HooksOrWait, ApplyDoc, Applied, Persist,
     PruneDoc, Pruned, Finalize, Fail, Supersede, PreDelete, DeleteDoc, PostDelete, ListRecords,
     ForgetRecord, Forgotten, histories
<1>2. ASSUME NEW q \in Requests, NEW p \in Processes, Begin(q, p) \/ BeginUninstall(q, p)
      PROVE  ~crossed
  BY <1>2 DEF Begin, BeginUninstall, Meets
<1>3. ASSUME NEW p \in Processes, Crash(p) PROVE crossed' = crossed
  BY <1>3 DEF Crash
<1>4. UNCHANGED vars => crossed' = crossed
  BY DEF vars, histories
<1> QED
  BY <1>1, <1>2, <1>3, <1>4 DEF Next, Step

LEMMA AloneStep ==
  ASSUME TypeOK, AloneInv, [Next]_vars, ~crossed'
  PROVE  AloneInv'
<1> USE DEF AloneInv
<1>1. ASSUME NEW q \in Requests, Step(q) PROVE AloneInv'
  <2>1. Moves(q)
    BY <1>1, StepMoves
  <2>2. \A r \in Requests : op[r].phase # "idle" /\ r # q => op[r].home # op[q].home
    BY <2>1 DEF Moves
  <2> QED
    BY <2>1, <2>2 DEF Moves, Idle, Uninstalling
<1>2. ASSUME NEW q \in Requests, NEW p \in Processes, Begin(q, p) PROVE AloneInv'
  <2>1. /\ \A r \in Requests \ {q} : op'[r] = op[r]
        /\ op'[q].phase = "create" /\ op'[q].home = p /\ active' = active \cup {p}
        /\ op[q].phase = "idle" /\ p \notin active
    BY <1>2 DEF Begin, Prepared, Acquire, Idle, TypeOK
  <2>2. \A r \in Requests \ {q} : op[r].phase \notin Uninstalling
    BY <1>2 DEF Begin, Meets
  <2> QED
    BY <2>1, <2>2 DEF Uninstalling
<1>3. ASSUME NEW q \in Requests, NEW p \in Processes, BeginUninstall(q, p)
      PROVE  AloneInv'
  <2>1. /\ \A r \in Requests \ {q} : op'[r] = op[r]
        /\ op'[q].phase = "preDelete" /\ op'[q].home = p /\ active' = active \cup {p}
        /\ op[q].phase = "idle" /\ p \notin active
    BY <1>3 DEF BeginUninstall, Acquire, Idle, TypeOK
  <2>2. \A r \in Requests \ {q} : op[r].phase = "idle"
    BY <1>3 DEF BeginUninstall, Meets, TypeOK, Op
  <2> QED
    BY <2>1, <2>2 DEF Uninstalling
<1>4. ASSUME NEW p \in Processes, Crash(p) PROVE AloneInv'
  <2>1. \A r \in Requests : op'[r] = IF op[r].home = p THEN Idle ELSE op[r]
    BY <1>4 DEF Crash
  <2> QED
    BY <1>4, <2>1 DEF Crash, Idle, Uninstalling
<1>5. ASSUME UNCHANGED vars PROVE AloneInv'
  BY <1>5 DEF vars
<1> QED
  BY <1>1, <1>2, <1>3, <1>4, <1>5 DEF Next, Step
-----------------------------------------------------------------------------
(* The records                                                             *)

LEMMA IdleKeeps ==
  ASSUME NEW q \in Requests, op[q].phase = "idle"
  PROVE  ReadInv(q) /\ OwnInv(q) /\ LoopInv(q) /\ Unpruned(q) = {}
  BY DEF ReadInv, OwnInv, LoopInv, Unpruned, Created, Working, Uninstalling

\* No record comes or goes, none becomes pending, and only the request's own ceases
\* to be: the others may go on from what they have read.
Mild(q) ==
  /\ Revs' = Revs
  /\ \A s \in Revs : /\ DocsOf(records'[s].manifest) = DocsOf(records[s].manifest)
                     /\ records'[s].status = "pending" => records[s].status = "pending"
                     /\ \/ records'[s].status = records[s].status
                        \/ op[q].phase \in Created /\ s = op[q].rev
                        \/ records[s].status # "pending"

LEMMA OthersKeep ==
  ASSUME TypeOK, AloneInv, RecordsInv, NEW q \in Requests, Moves(q), Mild(q)
  PROVE  HistoryInv' /\ \A r \in Requests \ {q} : ReadInv(r)' /\ OwnInv(r)'
<1>1. HistoryInv'
  BY DEF RecordsInv, HistoryInv, Mild, Latest
<1>2. ASSUME NEW r \in Requests \ {q} PROVE ReadInv(r)'
  <2>1. op'[r] = op[r] /\ op[r].phase \notin Uninstalling
    BY DEF Moves, AloneInv
  <2>2. op[r].phase \notin {"forget"}
    BY <2>1 DEF Uninstalling
  <2>3. ReadInv(r)
    BY DEF RecordsInv
  <2> QED
    BY <2>1, <2>2, <2>3 DEF ReadInv, Mild
<1>3. ASSUME NEW r \in Requests \ {q} PROVE OwnInv(r)'
  <2>1. op'[r] = op[r] /\ OwnInv(r)
    BY DEF Moves, RecordsInv
  <2>2. op[r].phase \in Created /\ op[q].phase \in Created => op[r].rev # op[q].rev
    BY DEF RecordsInv
  <2> QED
    BY <2>1, <2>2 DEF OwnInv, Mild, Created
<1> QED
  BY <1>1, <1>2, <1>3

LEMMA RecordsKept ==
  ASSUME TypeOK, AloneInv, RecordsInv, NEW q \in Requests, Moves(q), Mild(q),
         op'[q].phase \in Created => op[q].phase \in Created,
         ReadInv(q)', OwnInv(q)'
  PROVE  RecordsInv'
<1>1. HistoryInv' /\ \A r \in Requests : ReadInv(r)' /\ OwnInv(r)'
  BY OthersKeep
<1>2. ASSUME NEW q1 \in Requests, NEW q2 \in Requests, q1 # q2,
             op'[q1].phase \in Created, op'[q2].phase \in Created
      PROVE  op'[q1].rev # op'[q2].rev
  <2>1. \A r \in Requests : op'[r].phase \in Created =>
          op[r].phase \in Created /\ op'[r].rev = op[r].rev
    BY DEF Moves, Idle, Created, Working
  <2> QED
    BY <1>2, <2>1 DEF RecordsInv
<1> QED
  BY <1>1, <1>2 DEF RecordsInv

LEMMA MildIfSame ==
  ASSUME NEW q \in Requests, UNCHANGED records
  PROVE  Mild(q)
  BY DEF Mild, Revs

\* patchReleaseRecord() by a request that owns the record.
LEMMA MildIfPatched ==
  ASSUME TypeOK, RecordsInv, NEW q \in Requests, op[q].phase \in Working \cup {"failing"},
         NEW status \in {"pending", "deployed", "failed"},
         records' = Patched(op[q].rev, status, op[q].payload),
         status = "pending" => op[q].phase \in Working
  PROVE  Mild(q)
<1>1. op[q].rev \in Revs /\ DocsOf(records[op[q].rev].manifest) = DocsOf(op[q].payload)
  BY DEF RecordsInv, OwnInv, Created
<1>2. op[q].phase \in Working => records[op[q].rev].status = "pending"
  BY DEF RecordsInv, OwnInv
<1>3. Revs' = Revs
  BY <1>1 DEF Revs, Patched, TypeOK
<1> QED
  BY <1>1, <1>2, <1>3 DEF Mild, Patched, TypeOK, Revs, Created

\* A new record is the latest.
LEMMA Creation ==
  ASSUME TypeOK, AloneInv, RecordsInv, NEW q \in Requests, op[q].phase = "create",
         op[q].rev \notin Revs, \A r \in Requests \ {q} : op'[r] = op[r],
         records' = [records EXCEPT ![op[q].rev] =
                       [status |-> "pending", manifest |-> op[q].payload]]
  PROVE  /\ Revs' = Revs \cup {op[q].rev} /\ \A s \in Revs : s < op[q].rev
         /\ \A s \in Revs : records'[s] = records[s]
         /\ HistoryInv' /\ \A r \in Requests \ {q} : ReadInv(r)' /\ OwnInv(r)'
<1> DEFINE rev == op[q].rev
<1>1. /\ rev \in Revisions
      /\ rev = 1 => Revs = {} \/ 1 \in Revs
      /\ rev # 1 => rev - 1 \in Revs /\ records[rev - 1].status # "pending"
  BY DEF RecordsInv, ReadInv
<1>2. Revs' = Revs \cup {rev} /\ \A s \in Revs : records'[s] = records[s]
  BY <1>1 DEF Revs, TypeOK
<1>3. \A s \in Revs : s < rev
  BY <1>1 DEF RecordsInv, HistoryInv, Revs, Revisions
<1>4. \A s \in Revs : records[s].status # "pending"
  BY <1>1, <1>3 DEF RecordsInv, HistoryInv, Latest, Revs, Revisions
<1>5. HistoryInv'
  <2>1. \A r, s \in Revs', t \in Revisions : r < t /\ t < s => t \in Revs'
    BY <1>1, <1>2, <1>3 DEF RecordsInv, HistoryInv, Revs, Revisions
  <2>2. \A r \in Revs' : records'[r].status = "pending" => Latest(r)'
    BY <1>1, <1>2, <1>3, <1>4 DEF Latest, Revs, Revisions
  <2> QED
    BY <2>1, <2>2 DEF HistoryInv
<1>6. ASSUME NEW r \in Requests \ {q} PROVE ReadInv(r)'
  <2>1. op'[r] = op[r] /\ op[r].phase \notin Uninstalling /\ op[r].phase # "forget"
    BY DEF AloneInv, Uninstalling
  <2>2. ReadInv(r)
    BY DEF RecordsInv
  <2>3. Revs = {} => rev = 1
    BY <1>1
  <2> QED
    BY <1>2, <2>1, <2>2, <2>3 DEF ReadInv
<1>7. ASSUME NEW r \in Requests \ {q} PROVE OwnInv(r)'
  <2>1. op'[r] = op[r] /\ OwnInv(r)
    BY DEF RecordsInv
  <2> QED
    BY <1>2, <2>1 DEF OwnInv, Created
<1> QED
  BY <1>2, <1>3, <1>5, <1>6, <1>7
\* An operation at work goes on, its record as it was or patched by it.
LEMMA WorkKept ==
  ASSUME TypeOK, AloneInv, RecordsInv, NEW q \in Requests, Moves(q),
         op[q].phase \in Working, op'[q].phase \in Working \cup {"failing"},
         op'[q].payload \in {op[q].payload, op[q].target},
         op'[q].phase \in {"persist", "prune", "wait", "postHooks", "finalize"} =>
           op'[q].payload = op[q].target,
         \/ UNCHANGED records
         \/ records' = Patched(op[q].rev, "pending", op[q].payload)
         \/ /\ op'[q].phase = "failing"
            /\ records' = Patched(op[q].rev, "deployed", op[q].payload)
  PROVE  RecordsInv'
<1> DEFINE rev == op[q].rev
<1>1. ReadInv(q) /\ OwnInv(q)
  BY DEF RecordsInv
<1>2. Mild(q)
  BY MildIfSame, MildIfPatched
<1>3. /\ rev \in Revs /\ rev \in Revisions /\ records[rev].status = "pending"
      /\ DocsOf(op[q].payload) = DocsOf(op[q].target)
      /\ DocsOf(records[rev].manifest) = DocsOf(op[q].target)
      /\ op[q].seen \subseteq {s \in Revs : s < rev}
      /\ \A s \in op[q].seen : DocsOf(op[q].read[s]) = DocsOf(records[s].manifest)
      /\ op[q].kind # "rollback" => op[q].payload = op[q].target
  BY <1>1 DEF ReadInv, OwnInv, Created
<1>4. /\ op'[q].rev = rev /\ op'[q].seen = op[q].seen /\ op'[q].read = op[q].read /\ op'[q].kind = op[q].kind
      /\ op'[q].target = op[q].target
  BY DEF Moves, Idle, Working
<1>5. ReadInv(q)'
  <2>1. op'[q].phase \notin Uninstalling \cup {"create", "supersede", "forget"}
    BY DEF Working, Uninstalling
  <2> QED
    BY <1>2, <1>3, <1>4, <2>1 DEF ReadInv, Mild, Revs
<1>6. OwnInv(q)'
  <2>1. rev \in Revs'
    BY <1>2, <1>3 DEF Mild
  <2>2. op'[q].phase \in Working => records'[rev].status = "pending"
    BY <1>3 DEF Patched, TypeOK, Working
  <2>3. DocsOf(records'[rev].manifest) = DocsOf(op[q].target)
    BY <1>2, <1>3 DEF Mild
  <2> QED
    BY <1>3, <1>4, <2>1, <2>2, <2>3 DEF OwnInv
<1> QED
  BY <1>2, <1>5, <1>6, RecordsKept DEF Created

LEMMA RecordsStep ==
  ASSUME TypeOK, AloneInv, RecordsInv, [Next]_vars
  PROVE  RecordsInv'
<1> DEFINE own(q) == ReadInv(q)' /\ OwnInv(q)'
<1>0. \A q \in Requests : ReadInv(q) /\ OwnInv(q)
  BY DEF RecordsInv
<1>a. ASSUME NEW q \in Requests, Moves(q), op'[q] = Idle, Mild(q) PROVE RecordsInv'
  <2>1. ReadInv(q)' /\ OwnInv(q)' /\ op'[q].phase \notin Created
    BY <1>a DEF Idle, ReadInv, OwnInv, Created, Working, Uninstalling
  <2> QED
    BY <1>a, <2>1, RecordsKept
<1>1. ASSUME NEW q \in Requests, CreateRecord(q) PROVE RecordsInv'
  <2>1. CASE op[q].rev \notin Revs /\ records' # records
    <3>1. records' = [records EXCEPT ![op[q].rev] =
                        [status |-> "pending", manifest |-> op[q].payload]]
      BY <1>1, <2>1 DEF CreateRecord
    <3>2. Moves(q) /\ op[q].phase = "create"
      BY <1>1, StepMoves DEF Step, Mutation, CreateRecord
    <3>3. \A r \in Requests \ {q} : op'[r] = op[r]
      BY <3>2 DEF Moves
    <3>4. /\ Revs' = Revs \cup {op[q].rev} /\ \A s \in Revs : s < op[q].rev
          /\ \A s \in Revs : records'[s] = records[s]
          /\ HistoryInv' /\ \A r \in Requests \ {q} : ReadInv(r)' /\ OwnInv(r)'
      BY <2>1, <3>1, <3>2, <3>3, Creation
    <3>5. ReadInv(q)' /\ OwnInv(q)'
      <4>1. CASE op'[q] = Idle
        BY <4>1 DEF Idle, ReadInv, OwnInv, Created, Working, Uninstalling
      <4>2. CASE Go(q, "preHooks", {}) /\ active' = active
        <5>1. /\ op'[q].phase = "preHooks" /\ op'[q].payload = op[q].payload
              /\ op'[q].rev = op[q].rev /\ op'[q].seen = op[q].seen
              /\ op'[q].read = op[q].read
              /\ op'[q].kind = op[q].kind /\ op'[q].target = op[q].target
          BY <3>2, <4>2, GoMoves DEF Phases, Working, Uninstalling, Moves, Idle
        <5>2. ReadInv(q)
          BY <1>0
        <5>3. ReadInv(q)'
          BY <5>1, <5>2, <3>2, <3>4 DEF ReadInv, Uninstalling
        <5>4. op[q].rev \in Revisions /\ DocsOf(op[q].payload) = DocsOf(op[q].target)
          BY <5>2, <3>2 DEF ReadInv
        <5>5. records'[op[q].rev] = [status |-> "pending", manifest |-> op[q].payload]
          BY <3>1, <5>4 DEF TypeOK
        <5>6. OwnInv(q)'
          BY <5>1, <5>4, <5>5, <3>4 DEF OwnInv
        <5> QED
          BY <5>3, <5>6
      <4> QED
        BY <1>1, <3>2, <4>1, <4>2, LeaveMoves DEF CreateRecord
    <3>6. ASSUME NEW q1 \in Requests, NEW q2 \in Requests, q1 # q2,
                 op'[q1].phase \in Created, op'[q2].phase \in Created
          PROVE  op'[q1].rev # op'[q2].rev
      <4>1. \A r \in Requests \ {q} : op[r].phase \in Created => op[r].rev \in Revs
        BY <1>0 DEF OwnInv
      <4>2. op'[q].phase \in Created => op'[q].rev = op[q].rev
        BY <3>2 DEF Moves, Idle, Created, Working
      <4> QED
        BY <2>1, <3>3, <3>6, <4>1, <4>2 DEF RecordsInv
    <3> QED
      BY <3>4, <3>5, <3>6 DEF RecordsInv
  <2>2. CASE op[q].rev \in Revs \/ records' = records
    <3>1. CASE Leave(q) /\ records' = records
      BY <1>1, <3>1, <1>a, LeaveMoves, MildIfSame DEF CreateRecord
    <3>2. CASE ~(Leave(q) /\ records' = records)
      <4>1. op[q].rev \notin Revs /\ records' = records
        BY <1>1, <2>2, <3>2 DEF CreateRecord
      <4>2. op[q].rev \in Revisions
        BY <1>0, <1>1 DEF ReadInv, CreateRecord
      <4>3. records[op[q].rev].status = "none"
        BY <4>1, <4>2 DEF Revs
      <4>4. records' = [records EXCEPT ![op[q].rev] =
                          [status |-> "pending", manifest |-> op[q].payload]]
        BY <1>1, <3>2, <4>1 DEF CreateRecord
      <4> QED
        BY <4>1, <4>2, <4>3, <4>4 DEF TypeOK
    <3> QED
      BY <3>1, <3>2
  <2> QED
    BY <2>1, <2>2
<1>2. ASSUME NEW q \in Requests, HooksOrWait(q) PROVE RecordsInv'
  <2>1. /\ Moves(q) /\ op[q].phase \in Working
        /\ op'[q].payload = op[q].payload
        /\ op'[q].phase \in {"apply", "postHooks", "finalize", "failing"}
        /\ op'[q].phase \in {"postHooks", "finalize"} => op[q].phase \in {"wait", "postHooks"}
    <3> USE <1>2, GoMoves DEF HooksOrWait, Phases, Working, Uninstalling
    <3>1. CASE Go(q, "failing", {})
      BY <3>1
    <3>2. CASE op[q].phase = "preHooks" /\ Go(q, "apply", DocsOf(op[q].target))
      BY <3>2
    <3>3. CASE op[q].phase = "wait" /\ Go(q, "postHooks", {})
      BY <3>3
    <3>4. CASE op[q].phase = "postHooks" /\ Go(q, "finalize", {})
      BY <3>4
    <3> QED
      BY <3>1, <3>2, <3>3, <3>4
  <2>2. op'[q].phase \in {"postHooks", "finalize"} => op[q].payload = op[q].target
    BY <1>0, <2>1 DEF OwnInv
  <2> QED
    BY <1>2, <2>1, <2>2, WorkKept DEF HooksOrWait, Working
<1>3. ASSUME NEW q \in Requests, ApplyDoc(q) PROVE RecordsInv'
  <2>1. /\ Moves(q) /\ op[q].phase \in Working /\ op'[q].payload = op[q].payload
        /\ op'[q].phase \in {"apply", "failing"} /\ UNCHANGED records
    BY <1>3, GoMoves, DidMoves DEF ApplyDoc, Phases, Working, Uninstalling
  <2> QED
    BY <2>1, WorkKept DEF Working
<1>4. ASSUME NEW q \in Requests, Applied(q) PROVE RecordsInv'
  <2>1. Moves(q) /\ op[q].phase = "apply" /\ UNCHANGED records
    BY <1>4, StepMoves DEF Step, Mutation, Applied
  <2>2. CASE op[q].kind = "rollback"
    <3>1. op'[q].phase = "persist" /\ op'[q].payload = op[q].target
      BY <1>4, <2>2 DEF Applied, TypeOK, Op
    <3> QED
      BY <2>1, <3>1, WorkKept DEF Working
  <2>3. CASE op[q].kind # "rollback"
    <3>1. op'[q].phase \in {"prune", "wait"} /\ op'[q].payload = op[q].payload
      BY <1>4, <2>3, GoMoves DEF Applied, Phases, Working, Uninstalling
    <3>2. op[q].payload = op[q].target
      BY <1>0, <2>1, <2>3 DEF ReadInv, Created, Working
    <3> QED
      BY <2>1, <3>1, <3>2, WorkKept DEF Working
  <2> QED
    BY <2>2, <2>3
<1>5. ASSUME NEW q \in Requests, Persist(q) PROVE RecordsInv'
  <2>1. /\ Moves(q) /\ op[q].phase = "persist" /\ op'[q].payload = op[q].payload
        /\ op'[q].phase = "prune"
    BY <1>5, GoMoves DEF Persist, Phases, Working, Uninstalling
  <2>2. op[q].payload = op[q].target
    BY <1>0, <2>1 DEF OwnInv
  <2> QED
    BY <1>5, <2>1, <2>2, WorkKept DEF Working, Persist
<1>6. ASSUME NEW q \in Requests, PruneDoc(q) PROVE RecordsInv'
  <2>1. /\ Moves(q) /\ op[q].phase = "prune" /\ op'[q].payload = op[q].payload
        /\ op'[q].phase \in {"prune", "failing"} /\ UNCHANGED records
    BY <1>6, GoMoves, DidMoves DEF PruneDoc, Phases, Working, Uninstalling
  <2>2. op[q].payload = op[q].target
    BY <1>0, <2>1 DEF OwnInv
  <2> QED
    BY <2>1, <2>2, WorkKept DEF Working
<1>7. ASSUME NEW q \in Requests, Pruned(q) PROVE RecordsInv'
  <2>1. /\ Moves(q) /\ op[q].phase = "prune" /\ op'[q].payload = op[q].payload
        /\ op'[q].phase = "wait" /\ UNCHANGED records
    BY <1>7, GoMoves DEF Pruned, Phases, Working, Uninstalling
  <2>2. op[q].payload = op[q].target
    BY <1>0, <2>1 DEF OwnInv
  <2> QED
    BY <2>1, <2>2, WorkKept DEF Working
<1>8. ASSUME NEW q \in Requests, Finalize(q) PROVE RecordsInv'
  <2>1. op[q].phase = "finalize" /\ op[q].phase \in Working
    BY <1>8 DEF Finalize, Working
  <2>2. CASE Go(q, "failing", {}) /\ active' = active
    <3>1. Moves(q) /\ op'[q].phase = "failing" /\ op'[q].payload = op[q].payload
      BY <2>1, <2>2, GoMoves DEF Phases, Working, Uninstalling
    <3> QED
      BY <1>8, <2>1, <3>1, WorkKept DEF Finalize
  <2>3. CASE /\ Go(q, "supersede", op[q].seen) /\ active' = active
             /\ records' = Patched(op[q].rev, "deployed", op[q].payload)
    <3>1. /\ Moves(q) /\ op'[q].phase = "supersede" /\ op'[q].left = op[q].seen
          /\ op'[q].payload = op[q].payload
      BY <2>1, <2>3, GoMoves DEF Phases, Working, Uninstalling
    <3>2. Mild(q)
      BY <2>1, <2>3, MildIfPatched
    <3>3. /\ op'[q].rev = op[q].rev /\ op'[q].seen = op[q].seen /\ op'[q].read = op[q].read
          /\ op'[q].kind = op[q].kind /\ op'[q].target = op[q].target
      BY <3>1 DEF Moves, Idle
    <3>4. ReadInv(q) /\ OwnInv(q)
      BY <1>0
    <3>5. ReadInv(q)'
      BY <2>1, <3>1, <3>2, <3>3, <3>4 DEF ReadInv, Mild, Created, Uninstalling
    <3>6. OwnInv(q)'
      BY <2>1, <3>1, <3>2, <3>3, <3>4 DEF OwnInv, Mild, Created, Working
    <3> QED
      BY <2>1, <3>1, <3>2, <3>5, <3>6, RecordsKept DEF Created
  <2> QED
    BY <1>8, <2>2, <2>3 DEF Finalize
<1>9. ASSUME NEW q \in Requests, Fail(q) PROVE RecordsInv'
  <2>1. Moves(q) /\ op'[q] = Idle
    BY <1>9, LeaveMoves DEF Fail
  <2>2. Mild(q)
    BY <1>9, MildIfSame, MildIfPatched DEF Fail
  <2> QED
    BY <2>1, <2>2, <1>a
<1>10. ASSUME NEW q \in Requests, Supersede(q) PROVE RecordsInv'
  <2>1. op[q].phase = "supersede" /\ ReadInv(q) /\ OwnInv(q)
    BY <1>0, <1>10 DEF Supersede
  <2>2. CASE Leave(q) /\ UNCHANGED records
    BY <2>1, <2>2, <1>a, LeaveMoves, MildIfSame
  <2>3. ASSUME NEW rev \in Revisions, rev \in op[q].left, Did(q, rev), active' = active,
               \/ records' = Patched(rev, "superseded", op[q].read[rev])
               \/ UNCHANGED records
        PROVE  RecordsInv'
    <3>1. /\ Moves(q) /\ op'[q] = [op[q] EXCEPT !.left = @ \ {rev}]
          /\ op'[q].phase = "supersede" /\ op'[q].left = op[q].left \ {rev}
          /\ op'[q].payload = op[q].payload
      BY <2>1, <2>3, DidMoves
    <3>2. /\ rev \in Revs /\ op[q].rev \in Revs /\ rev < op[q].rev
          /\ DocsOf(op[q].read[rev]) = DocsOf(records[rev].manifest)
      BY <2>1, <2>3 DEF ReadInv, OwnInv, Created
    <3>3. records[rev].status # "pending"
      BY <3>2 DEF RecordsInv, HistoryInv, Latest, Revs, Revisions
    <3>4. Revs' = Revs
      BY <2>3, <3>2 DEF Revs, Patched, TypeOK
    <3>5. Mild(q)
      BY <2>3, <3>2, <3>3, <3>4 DEF Mild, Patched, TypeOK, Revs
    <3>6. /\ op'[q].rev = op[q].rev /\ op'[q].seen = op[q].seen /\ op'[q].read = op[q].read
          /\ op'[q].kind = op[q].kind /\ op'[q].target = op[q].target
      BY <3>1 DEF Moves, Idle
    <3>7. ReadInv(q)'
      BY <2>1, <3>1, <3>4, <3>5, <3>6 DEF Mild, ReadInv, Created, Uninstalling
    <3>8. OwnInv(q)'
      BY <2>1, <3>1, <3>4, <3>6 DEF OwnInv, Created, Working
    <3> QED
      BY <2>1, <3>1, <3>5, <3>7, <3>8, RecordsKept DEF Created
  <2> QED
    BY <1>10, <2>2, <2>3 DEF Supersede, Last, histories
<1>11. ASSUME NEW q \in Requests,
              PreDelete(q) \/ DeleteDoc(q) \/ PostDelete(q) \/ ListRecords(q) \/ Forgotten(q)
       PROVE  RecordsInv'
  <2>1. Moves(q) /\ UNCHANGED records /\ op[q].phase \in Uninstalling
    BY <1>11, StepMoves DEF Step, Uninstall, PreDelete, DeleteDoc, PostDelete, ListRecords,
                            Forgotten, Uninstalling
  <2>2. CASE op'[q] = Idle
    BY <2>1, <2>2, <1>a, MildIfSame
  <2>3. CASE op'[q] # Idle
    <3>1. op'[q].phase \in Uninstalling /\ op'[q].target = op[q].target
      BY <2>1, <2>3 DEF Moves
    <3>2. op'[q].phase = "forget" => op[q].phase = "list" /\ op'[q].left = Revs
      <4>1. CASE ListRecords(q)
        BY <2>1, <2>3, <4>1, GoMoves, LeaveMoves DEF ListRecords, Phases, Uninstalling
      <4>2. CASE PreDelete(q)
        BY <2>1, <2>3, <4>2, GoMoves, LeaveMoves DEF PreDelete, Phases, Uninstalling
      <4>3. CASE DeleteDoc(q)
        BY <2>1, <4>3 DEF DeleteDoc, Did, TypeOK, Op
      <4>4. CASE PostDelete(q)
        BY <2>1, <2>3, <4>4, GoMoves, LeaveMoves DEF PostDelete, Phases, Uninstalling
      <4>5. CASE Forgotten(q)
        BY <2>1, <2>3, <4>5, LeaveMoves DEF Forgotten
      <4> QED
        BY <1>11, <4>1, <4>2, <4>3, <4>4, <4>5
    <3>3. op'[q].phase # "forget" => op[q].phase # "forget"
      <4>1. CASE op[q].phase = "forget"
        BY <1>11, <2>3, <4>1, LeaveMoves
           DEF PreDelete, DeleteDoc, PostDelete, ListRecords, Forgotten
      <4> QED
        BY <4>1
    <3>4. Revs' = Revs /\ \A r \in Revs : Latest(r)' <=> Latest(r)
      BY <2>1 DEF Revs, Latest
    <3>5. op[q].phase # "forget" => \E r \in Revs : Latest(r) /\ op[q].target = records[r].manifest
      BY <1>0, <2>1 DEF ReadInv
    <3>6. ReadInv(q)'
      BY <2>1, <3>1, <3>2, <3>3, <3>4, <3>5 DEF ReadInv, Created, Working, Uninstalling
    <3>7. OwnInv(q)' /\ op'[q].phase \notin Created
      BY <3>1 DEF OwnInv, Created, Working, Uninstalling
    <3> QED
      BY <2>1, <3>6, <3>7, RecordsKept, MildIfSame
  <2> QED
    BY <2>2, <2>3
<1>12. ASSUME NEW q \in Requests, ForgetRecord(q) PROVE RecordsInv'
  <2>1. Moves(q) /\ op[q].phase = "forget" /\ op[q].phase \in Uninstalling
    BY <1>12, StepMoves DEF Step, Uninstall, ForgetRecord, Uninstalling
  <2>2. op[q].left = Revs
    BY <1>0, <2>1 DEF ReadInv
  <2>3. \A r \in Requests \ {q} : op'[r].phase = "idle"
    BY <2>1 DEF Moves, AloneInv
  <2>4. PICK rev \in Revisions :
          /\ First(rev, Revs)
          /\ \/ /\ records' = [records EXCEPT ![rev] = NoRecord]
                /\ Did(q, rev) /\ UNCHANGED active
             \/ records' \in {records, [records EXCEPT ![rev] = NoRecord]} /\ Leave(q)
    BY <1>12, <2>2 DEF ForgetRecord
  <2>5. CASE records' = records
    <3>1. records' # [records EXCEPT ![rev] = NoRecord]
      BY <2>4, <2>5 DEF TypeOK, First, Revs, NoRecord
    <3>2. Leave(q)
      BY <2>4, <3>1
    <3> QED
      BY <2>1, <2>5, <3>2, <1>a, LeaveMoves, MildIfSame
  <2>6. CASE records' = [records EXCEPT ![rev] = NoRecord]
    <3>1. Revs' = Revs \ {rev} /\ \A s \in Revs' : records'[s] = records[s]
      BY <2>6 DEF Revs, TypeOK, NoRecord
    <3>2. HistoryInv'
      <4>1. \A r, s \in Revs', t \in Revisions : r < t /\ t < s => t \in Revs'
        BY <2>4, <3>1 DEF RecordsInv, HistoryInv, First, Revs, Revisions
      <4>2. \A r \in Revs' : records'[r].status = "pending" => Latest(r)'
        BY <3>1 DEF RecordsInv, HistoryInv, Latest
      <4> QED
        BY <4>1, <4>2 DEF HistoryInv
    <3>3. CASE op'[q] = Idle
      <4>1. \A r \in Requests : op'[r].phase = "idle"
        BY <2>3, <3>3 DEF Idle
      <4>2. \A r \in Requests : ReadInv(r)' /\ OwnInv(r)'
        BY <4>1 DEF ReadInv, OwnInv, Created, Working, Uninstalling
      <4> QED
        BY <3>2, <4>1, <4>2 DEF RecordsInv, Created, Working
    <3>4. CASE op'[q].phase = "forget" /\ op'[q].left = op[q].left \ {rev}
      <4>1. \A r \in Requests : ReadInv(r)' /\ OwnInv(r)'
        BY <2>2, <2>3, <3>1, <3>4 DEF ReadInv, OwnInv, Created, Working, Uninstalling
      <4> QED
        BY <2>3, <3>2, <3>4, <4>1 DEF RecordsInv, Created, Working
    <3> QED
      BY <2>1, <2>4, <3>3, <3>4, LeaveMoves, DidMoves
  <2> QED
    BY <2>4, <2>5, <2>6
<1>13. ASSUME NEW q \in Requests, NEW p \in Processes, Begin(q, p) PROVE RecordsInv'
  <2>1. /\ \A r \in Requests \ {q} : op'[r] = op[r]
        /\ UNCHANGED records /\ op[q].phase = "idle" /\ op'[q].phase = "create"
    BY <1>13 DEF Begin, Prepared, Idle, TypeOK
  <2>2. HistoryInv' /\ \A r \in Requests \ {q} : ReadInv(r)' /\ OwnInv(r)'
    BY <1>0, <2>1 DEF RecordsInv, HistoryInv, ReadInv, OwnInv, Latest, Revs
  <2>3. OwnInv(q)'
    BY <2>1 DEF OwnInv, Created, Working
  <2>4. ASSUME NEW kind \in {"install", "upgrade", "rollback"}, NEW rev \in Revisions,
               NEW m \in Manifest, NEW t \in Manifest, NEW old \in Manifest,
               op' = [op EXCEPT ![q] = Prepared(p, kind, rev, m, t, old)],
               DocsOf(m) = DocsOf(t), kind # "rollback" => m = t,
               \A s \in Revs : s < rev,
               rev = 1 => Revs = {} /\ old = Nothing,
               rev # 1 => /\ rev - 1 \in Revs /\ records[rev - 1].status # "pending"
                          /\ old = records[rev - 1].manifest
        PROVE  ReadInv(q)'
    <3>1. op'[q] = Prepared(p, kind, rev, m, t, old)
      BY <2>4 DEF TypeOK
    <3>2. /\ op'[q].phase = "create" /\ op'[q].rev = rev /\ op'[q].kind = kind
          /\ op'[q].target = t /\ op'[q].payload = m /\ op'[q].old = old
          /\ op'[q].seen = DeployedRevs
          /\ \A s \in DeployedRevs : s \in Revs /\ op'[q].read[s] = records[s].manifest
      BY <3>1 DEF Prepared, DeployedRevs, Revs
    <3>3. Revs' = Revs /\ UNCHANGED records
      BY <2>1 DEF Revs
    <3> QED
      BY <2>4, <3>2, <3>3 DEF ReadInv, Uninstalling, Created, Working
  <2>5. ASSUME Revs = {}, \E m \in Charts :
                 op' = [op EXCEPT ![q] = Prepared(p, "install", 1, m, m, Nothing)]
        PROVE  ReadInv(q)'
    <3>1. 1 \in Revisions /\ Charts \subseteq Manifest
      BY DEF Revisions
    <3>2. PICK m \in Charts : op' = [op EXCEPT ![q] = Prepared(p, "install", 1, m, m, Nothing)]
      BY <2>5
    <3>3. m \in Manifest /\ "install" \in {"install", "upgrade", "rollback"}
      BY <3>1
    <3>4. \A s \in Revs : s < 1
      BY <2>5
    <3> QED
      BY <2>4, <2>5, <3>1, <3>2, <3>3, <3>4, NothingIsManifest
  <2>6. ASSUME NEW latest \in Revisions, Latest(latest), records[latest].status # "pending",
               latest + 1 <= MaxRevision,
               NEW m \in Manifest, NEW t \in Manifest, NEW kind \in {"upgrade", "rollback"},
               op' = [op EXCEPT ![q] =
                        Prepared(p, kind, latest + 1, m, t, records[latest].manifest)],
               DocsOf(m) = DocsOf(t), kind # "rollback" => m = t
        PROVE  ReadInv(q)'
    <3>1. /\ latest + 1 \in Revisions /\ latest + 1 # 1 /\ (latest + 1) - 1 = latest
          /\ records[latest].manifest \in Manifest
      BY <2>6 DEF Revisions, TypeOK, Record
    <3>2. latest \in Revs /\ \A s \in Revs : s < latest + 1
      BY <2>6 DEF Latest, Revs, Revisions
    <3> QED
      BY <2>4, <2>6, <3>1, <3>2
  <2>7. \A to \in Revs : records[to].manifest \in Manifest
    BY DEF Revs, TypeOK, Record
  <2>8. ReadInv(q)'
    <3>1. CASE Revs # {}
      <4>1. PICK latest \in Revisions :
              /\ Latest(latest) /\ records[latest].status # "pending"
              /\ latest + 1 <= MaxRevision
              /\ \/ \E m \in Charts :
                      op' = [op EXCEPT ![q] = Prepared(p, "upgrade", latest + 1, m, m,
                                                       records[latest].manifest)]
                 \/ \E to \in Revs \ {latest} :
                      op' = [op EXCEPT ![q] =
                               Prepared(p, "rollback", latest + 1, records[to].manifest,
                                        Restamped(records[to].manifest, latest + 1),
                                        records[latest].manifest)]
        BY <1>13, <3>1 DEF Begin
      <4>2. latest + 1 \in 1..MaxRevision /\ latest + 1 \in 0..MaxRevision
        BY <4>1 DEF Revisions
      <4>3. ASSUME NEW to \in Revs
            PROVE  /\ Restamped(records[to].manifest, latest + 1) \in Manifest
                   /\ DocsOf(Restamped(records[to].manifest, latest + 1))
                        = DocsOf(records[to].manifest)
        BY <2>7, <4>2, RestampedIsManifest, RestampedKeepsDocs
      <4> QED
        BY <2>6, <2>7, <4>1, <4>3
    <3>2. CASE Revs = {}
      <4>1. ~ \E latest \in Revisions : Latest(latest)
        BY <3>2 DEF Latest
      <4>2. \E m \in Charts : op' = [op EXCEPT ![q] = Prepared(p, "install", 1, m, m, Nothing)]
        BY <1>13, <4>1 DEF Begin
      <4> QED
        BY <2>5, <3>2, <4>2
    <3> QED
      BY <3>1, <3>2
  <2>9. \A q1, q2 \in Requests : q1 # q2 /\ {op'[q1].phase, op'[q2].phase} \subseteq Created
                                => op'[q1].rev # op'[q2].rev
    BY <2>1 DEF RecordsInv, Created, Working
  <2> QED
    BY <2>2, <2>3, <2>8, <2>9 DEF RecordsInv
<1>14. ASSUME NEW q \in Requests, NEW p \in Processes, BeginUninstall(q, p) PROVE RecordsInv'
  <2>1. PICK latest \in Revisions :
          /\ Latest(latest)
          /\ op' = [op EXCEPT ![q] = [Idle EXCEPT !.phase = "preDelete", !.kind = "uninstall",
                                        !.home = p, !.target = records[latest].manifest]]
    BY <1>14 DEF BeginUninstall
  <2>2. /\ \A r \in Requests \ {q} : op'[r] = op[r]
        /\ op'[q].phase = "preDelete" /\ op'[q].target = records[latest].manifest
    BY <2>1 DEF Idle, TypeOK
  <2>3. UNCHANGED records /\ Revs' = Revs /\ latest \in Revs /\ Latest(latest)'
    BY <1>14, <2>1 DEF BeginUninstall, Revs, Latest
  <2>4. HistoryInv' /\ \A r \in Requests \ {q} : ReadInv(r)' /\ OwnInv(r)'
    BY <1>0, <2>2, <2>3 DEF RecordsInv, HistoryInv, ReadInv, OwnInv, Latest, Revs
  <2>5. ReadInv(q)' /\ OwnInv(q)'
    BY <2>2, <2>3 DEF ReadInv, OwnInv, Created, Working, Uninstalling
  <2>6. \A q1, q2 \in Requests : q1 # q2 /\ {op'[q1].phase, op'[q2].phase} \subseteq Created
                                => op'[q1].rev # op'[q2].rev
    BY <2>2 DEF RecordsInv, Created, Working
  <2> QED
    BY <2>4, <2>5, <2>6 DEF RecordsInv
<1>15. ASSUME NEW p \in Processes, Crash(p) PROVE RecordsInv'
  <2>1. UNCHANGED records /\ Revs' = Revs /\ \A q \in Requests : op'[q] = op[q] \/ op'[q] = Idle
    BY <1>15 DEF Crash, Revs
  <2>2. HistoryInv' /\ \A q \in Requests : ReadInv(q)' /\ OwnInv(q)'
    <3>1. ASSUME NEW q \in Requests, op'[q] = op[q] PROVE ReadInv(q)' /\ OwnInv(q)'
      BY <1>0, <2>1, <3>1 DEF ReadInv, OwnInv, Latest
    <3>2. ASSUME NEW q \in Requests, op'[q] = Idle PROVE ReadInv(q)' /\ OwnInv(q)'
      BY <3>2 DEF Idle, ReadInv, OwnInv, Created, Working, Uninstalling
    <3> QED
      BY <2>1, <3>1, <3>2 DEF RecordsInv, HistoryInv, Latest
  <2>3. \A q1, q2 \in Requests : q1 # q2 /\ {op'[q1].phase, op'[q2].phase} \subseteq Created
                                => op'[q1].rev # op'[q2].rev
    BY <2>1 DEF RecordsInv, Idle, Created, Working
  <2> QED
    BY <2>2, <2>3 DEF RecordsInv
<1>16. ASSUME UNCHANGED vars PROVE RecordsInv'
  BY <1>16 DEF vars, RecordsInv, HistoryInv, ReadInv, OwnInv, Latest, Revs
<1> QED
  BY <1>1, <1>2, <1>3, <1>4, <1>5, <1>6, <1>7, <1>8, <1>9, <1>10, <1>11, <1>12, <1>13,
     <1>14, <1>15, <1>16 DEF Next, Mutation, Uninstall
-----------------------------------------------------------------------------
(* The lock, and the anchor                                                *)

\* One operation is at work: its record is pending, and only the latest can be.
LEMMA OneAtWork ==
  ASSUME RecordsInv, NEW q1 \in Requests, NEW q2 \in Requests,
         op[q1].phase \in Working, op[q2].phase \in Working
  PROVE  q1 = q2
<1>1. \A q \in {q1, q2} : op[q].rev \in Revs /\ records[op[q].rev].status = "pending"
  BY DEF RecordsInv, OwnInv, Created
<1>2. op[q1].rev \in Nat /\ op[q2].rev \in Nat
  BY <1>1 DEF Revs, Revisions
<1>3. op[q1].rev <= op[q2].rev /\ op[q2].rev <= op[q1].rev
  BY <1>1 DEF RecordsInv, HistoryInv, Latest
<1>4. op[q1].rev = op[q2].rev
  BY <1>2, <1>3
<1> QED
  BY <1>4 DEF RecordsInv, Created

\* A record that is pending was so before, or is that of the request, which goes on.
Pends(q) ==
  \A r \in Revs' : records'[r].status = "pending" =>
    \/ r \in Revs /\ records[r].status = "pending"
    \/ r = op[q].rev /\ op'[q].phase \in Working

LEMMA PendsIfSame ==
  ASSUME NEW q \in Requests, UNCHANGED records
  PROVE  Pends(q)
  BY DEF Pends, Revs

\* patchReleaseRecord() makes none of another revision pending.
LEMMA PendsIfPatched ==
  ASSUME TypeOK, NEW q \in Requests, NEW rev, NEW status, NEW m,
         records' = Patched(rev, status, m), status # "none",
         status = "pending" => rev = op[q].rev /\ op'[q].phase \in Working
  PROVE  Pends(q)
<1>1. \A r \in Revs' : r \in Revs /\ (records'[r] = records[r] \/ r = rev)
  BY DEF Patched, Revs, TypeOK
<1>2. rev \in Revs => records'[rev].status = status
  BY DEF Patched, Revs, TypeOK
<1> QED
  BY <1>1, <1>2 DEF Pends

\* A request lets go of its record only when that no longer is pending, is gone, or
\* is stranded.
LEMMA HeldKept ==
  ASSUME HeldInv, NEW q \in Requests, Moves(q), Pends(q),
         stranded \cap Revs' \subseteq stranded',
         op[q].phase \in Working \cup {"failing"} =>
           \/ op'[q].phase \in Working \cup {"failing"}
           \/ op[q].rev \in Revs' => records'[op[q].rev].status # "pending"
           \/ op[q].rev \in stranded'
  PROVE  HeldInv'
<1> SUFFICES ASSUME NEW r \in Revs' \ stranded', records'[r].status = "pending"
             PROVE  \E x \in Requests : op'[x].phase \in Working \cup {"failing"}
                                      /\ op'[x].rev = r
  BY DEF HeldInv
<1>1. CASE r = op[q].rev /\ op'[q].phase \in Working
  BY <1>1 DEF Moves, Idle, Working
<1>2. CASE r \in Revs /\ records[r].status = "pending"
  <2>1. PICK x \in Requests : op[x].phase \in Working \cup {"failing"} /\ op[x].rev = r
    BY <1>2 DEF HeldInv
  <2>2. CASE x = q
    BY <2>1, <2>2 DEF Moves, Idle, Working
  <2>3. CASE x # q
    BY <2>1, <2>3 DEF Moves
  <2> QED
    BY <2>2, <2>3
<1> QED
  BY <1>1, <1>2 DEF Pends

LEMMA HeldStep ==
  ASSUME TypeOK, RevInv, HeldInv, [Next]_vars
  PROVE  HeldInv'
<1>1. ASSUME NEW q \in Requests, CreateRecord(q) PROVE HeldInv'
  <2>1. Moves(q) /\ op[q].phase = "create" /\ op[q].rev \in Revisions
    BY <1>1, StepMoves DEF Step, Mutation, CreateRecord, RevInv
  <2>2. stranded \subseteq stranded'
    BY <1>1 DEF CreateRecord
  <2>3. CASE records' = records
    BY <2>1, <2>2, <2>3, PendsIfSame, HeldKept DEF Working
  <2>4. CASE records' # records
    <3>1. /\ op[q].rev \notin Revs
          /\ records' = [records EXCEPT ![op[q].rev] =
                          [status |-> "pending", manifest |-> op[q].payload]]
      BY <1>1, <2>4 DEF CreateRecord
    <3>2. Revs' = Revs \cup {op[q].rev} /\ \A s \in Revs : records'[s] = records[s]
      BY <2>1, <3>1 DEF Revs, TypeOK
    <3>3. \/ op'[q].phase = "preHooks" /\ op'[q].rev = op[q].rev
          \/ op[q].rev \in stranded'
      BY <1>1, <2>1, <2>4, GoMoves DEF CreateRecord, Phases, Working, Uninstalling, Moves, Idle
    <3>4. ASSUME NEW r \in Revs \ stranded', records'[r].status = "pending"
          PROVE  \E x \in Requests : op'[x].phase \in Working \cup {"failing"} /\ op'[x].rev = r
      <4>1. PICK x \in Requests : op[x].phase \in Working \cup {"failing"} /\ op[x].rev = r
        BY <2>2, <3>2, <3>4 DEF HeldInv
      <4> QED
        BY <2>1, <4>1 DEF Moves, Working
    <3> QED
      BY <3>2, <3>3, <3>4 DEF HeldInv, Working
  <2> QED
    BY <2>3, <2>4
<1>2. ASSUME NEW q \in Requests, HooksOrWait(q) PROVE HeldInv'
  <2>1. op'[q].phase \in Working \cup {"failing"}
    <3> USE <1>2, GoMoves DEF HooksOrWait, Phases, Working, Uninstalling
    <3>1. CASE Go(q, "failing", {})
      BY <3>1
    <3>2. CASE op[q].phase = "preHooks" /\ Go(q, "apply", DocsOf(op[q].target))
      BY <3>2
    <3>3. CASE op[q].phase = "wait" /\ Go(q, "postHooks", {})
      BY <3>3
    <3>4. CASE op[q].phase = "postHooks" /\ Go(q, "finalize", {})
      BY <3>4
    <3> QED
      BY <3>1, <3>2, <3>3, <3>4
  <2> QED
    BY <1>2, <2>1, StepMoves, PendsIfSame, HeldKept DEF HooksOrWait, histories, Step, Mutation
<1>3. ASSUME NEW q \in Requests, ApplyDoc(q) \/ PruneDoc(q) PROVE HeldInv'
  <2>1. Moves(q) /\ op'[q].phase \in Working \cup {"failing"}
    BY <1>3, GoMoves, DidMoves DEF ApplyDoc, PruneDoc, Phases, Working, Uninstalling
  <2> QED
    BY <1>3, <2>1, PendsIfSame, HeldKept DEF ApplyDoc, PruneDoc
<1>4. ASSUME NEW q \in Requests, Applied(q) PROVE HeldInv'
  <2>1. Moves(q) /\ op'[q].phase \in Working
    <3>1. CASE op[q].kind = "rollback"
      BY <1>4, <3>1, StepMoves, ZenonT(40) DEF Applied, TypeOK, Op, Working, Step, Mutation
    <3>2. CASE op[q].kind # "rollback"
      BY <1>4, <3>2, GoMoves DEF Applied, Phases, Working, Uninstalling
    <3> QED
      BY <3>1, <3>2
  <2> QED
    BY <1>4, <2>1, PendsIfSame, HeldKept DEF Applied, histories
<1>5. ASSUME NEW q \in Requests, Persist(q) \/ Pruned(q) PROVE HeldInv'
  <2>1. Moves(q) /\ op'[q].phase \in Working /\ stranded' = stranded
    BY <1>5, GoMoves DEF Persist, Pruned, Phases, Working, Uninstalling, histories
  <2>2. \/ UNCHANGED records
        \/ records' = Patched(op[q].rev, "pending", op[q].payload)
    BY <1>5 DEF Persist, Pruned
  <2>3. Pends(q)
    BY <2>1, <2>2, PendsIfSame, PendsIfPatched
  <2> QED
    BY <2>1, <2>3, HeldKept
<1>6. ASSUME NEW q \in Requests, Finalize(q) PROVE HeldInv'
  <2>1. Moves(q) /\ op[q].phase = "finalize" /\ stranded' = stranded
    BY <1>6, StepMoves DEF Step, Mutation, Finalize
  <2>2. UNCHANGED records \/ records' = Patched(op[q].rev, "deployed", op[q].payload)
    BY <1>6 DEF Finalize
  <2>3. Pends(q)
    BY <2>2, PendsIfSame, PendsIfPatched
  <2>4. op'[q].phase = "failing" \/ records'[op[q].rev].status # "pending"
    <3>1. CASE Go(q, "failing", {}) /\ active' = active
      BY <2>1, <3>1, GoMoves DEF Phases, Working, Uninstalling
    <3>2. CASE op[q].rev \in Revs /\ records' = Patched(op[q].rev, "deployed", op[q].payload)
      BY <3>2 DEF Patched, TypeOK, Revs
    <3> QED
      BY <1>6, <3>1, <3>2 DEF Finalize
  <2> QED
    BY <2>1, <2>3, <2>4, HeldKept DEF Working
<1>7. ASSUME NEW q \in Requests, Fail(q) PROVE HeldInv'
  <2>1. Moves(q) /\ op[q].phase = "failing" /\ op[q].rev \in Revisions
    BY <1>7, StepMoves DEF Step, Mutation, Fail, Created, RevInv
  <2>2. UNCHANGED records \/ records' = Patched(op[q].rev, "failed", op[q].payload)
    BY <1>7 DEF Fail
  <2>3. Pends(q)
    BY <2>2, PendsIfSame, PendsIfPatched
  <2>4. stranded \subseteq stranded'
    BY <1>7 DEF Fail
  <2>5. \/ op[q].rev \in Revs' => records'[op[q].rev].status # "pending"
        \/ op[q].rev \in stranded'
    BY <1>7, <2>1 DEF Fail, Patched, TypeOK, Revs
  <2> QED
    BY <2>1, <2>3, <2>4, <2>5, HeldKept
<1>8. ASSUME NEW q \in Requests, Supersede(q) PROVE HeldInv'
  <2>1. /\ Moves(q) /\ op[q].phase \notin Working \cup {"failing"} /\ stranded' = stranded
    BY <1>8, StepMoves DEF Step, Mutation, Supersede, Working, histories
  <2>2. \/ UNCHANGED records
        \/ \E rev \in Revisions : records' = Patched(rev, "superseded", op[q].read[rev])
    BY <1>8 DEF Supersede
  <2>3. Pends(q)
    BY <2>2, PendsIfSame, PendsIfPatched
  <2> QED
    BY <2>1, <2>3, HeldKept
<1>9. ASSUME NEW q \in Requests,
             PreDelete(q) \/ DeleteDoc(q) \/ PostDelete(q) \/ ListRecords(q) \/ Forgotten(q)
      PROVE  HeldInv'
  <2>1. /\ Moves(q) /\ UNCHANGED <<records, stranded>>
        /\ op[q].phase \notin Working \cup {"failing"}
    BY <1>9, StepMoves DEF Step, Uninstall, PreDelete, DeleteDoc, PostDelete, ListRecords,
                           Forgotten, Working, histories
  <2> QED
    BY <2>1, PendsIfSame, HeldKept
<1>10. ASSUME NEW q \in Requests, ForgetRecord(q) PROVE HeldInv'
  <2>1. Moves(q) /\ op[q].phase \notin Working \cup {"failing"}
    BY <1>10, StepMoves DEF Step, Uninstall, ForgetRecord, Working
  <2>2. \A r \in Revs' : r \in Revs /\ records'[r] = records[r]
    BY <1>10 DEF ForgetRecord, Revs, TypeOK, NoRecord
  <2>3. Pends(q)
    BY <2>2 DEF Pends
  <2>4. stranded \cap Revs' \subseteq stranded'
    BY <1>10 DEF ForgetRecord, Revs
  <2> QED
    BY <2>1, <2>3, <2>4, HeldKept
<1>11. ASSUME NEW q \in Requests, NEW p \in Processes, Begin(q, p) \/ BeginUninstall(q, p)
       PROVE  HeldInv'
  <2>1. /\ \A r \in Requests \ {q} : op'[r] = op[r]
        /\ UNCHANGED <<records, stranded>> /\ op[q].phase = "idle"
    <3>1. CASE Begin(q, p)
      BY <3>1 DEF Begin, Idle, TypeOK
    <3>2. CASE BeginUninstall(q, p)
      BY <3>2 DEF BeginUninstall, Idle, TypeOK
    <3> QED
      BY <1>11, <3>1, <3>2
  <2> QED
    BY <2>1 DEF HeldInv, Revs, Working
<1>12. ASSUME NEW p \in Processes, Crash(p) PROVE HeldInv'
  <2>1. UNCHANGED records /\ Revs' = Revs
    BY <1>12 DEF Crash, Revs
  <2>2. ASSUME NEW r \in Revs, r \notin stranded', records[r].status = "pending"
        PROVE  \E x \in Requests : op'[x].phase \in Working \cup {"failing"} /\ op'[x].rev = r
    <3>1. PICK x \in Requests : op[x].phase \in Working \cup {"failing"} /\ op[x].rev = r
      BY <1>12, <2>2 DEF Crash, HeldInv
    <3>2. op[x].home # p
      BY <1>12, <2>2, <3>1 DEF Crash
    <3> QED
      BY <1>12, <3>1, <3>2 DEF Crash
  <2> QED
    BY <2>1, <2>2 DEF HeldInv
<1>13. ASSUME UNCHANGED vars PROVE HeldInv'
  BY <1>13 DEF vars, histories, HeldInv, Revs
<1> QED
  BY <1>1, <1>2, <1>3, <1>4, <1>5, <1>6, <1>7, <1>8, <1>9, <1>10, <1>11, <1>12, <1>13
     DEF Next, Mutation, Uninstall

\* What is deployed stays so, but for the records of which a request under way has
\* still to say otherwise.
LEMMA AnchorKept ==
  ASSUME AnchorInv, NEW q \in Requests, Moves(q), anchored' => anchored,
         \A r \in Revisions : Solid(r) => records'[r] = records[r],
         op'[q].phase = "failing" =>
           \/ op[q].phase = "failing"
           \/ records[op[q].rev].status = "pending",
         op'[q].phase = "supersede" => op[q].phase = "supersede" /\ op'[q].left \subseteq op[q].left
  PROVE  AnchorInv'
<1> SUFFICES ASSUME anchored' PROVE \E r \in Revisions : Solid(r)'
  BY DEF AnchorInv
<1>1. PICK r \in Revisions : Solid(r)
  BY DEF AnchorInv
<1>2. records'[r] = records[r]
  BY <1>1
<1>3. r \in Revs' /\ records'[r].status = "deployed"
  BY <1>1, <1>2 DEF Solid, Revs
<1>4. ASSUME NEW x \in Requests \ {q}
      PROVE  /\ op'[x].phase = "failing" => op'[x].rev # r
             /\ op'[x].phase = "supersede" => r \notin op'[x].left
  BY <1>1 DEF Moves, Solid
<1>5. op'[q].phase = "failing" => op'[q].rev # r
  BY <1>1 DEF Moves, Solid, Idle
<1>6. op'[q].phase = "supersede" => r \notin op'[q].left
  BY <1>1 DEF Solid
<1> QED
  BY <1>3, <1>4, <1>5, <1>6 DEF Solid

LEMMA AnchorStep ==
  ASSUME TypeOK, AloneInv, RecordsInv, AnchorInv, [Next]_vars
  PROVE  AnchorInv'
<1>0. \A q \in Requests : ReadInv(q) /\ OwnInv(q)
  BY DEF RecordsInv
<1>a. ASSUME NEW q \in Requests, op[q].phase \in Working
      PROVE  /\ op[q].rev \in Revs /\ records[op[q].rev].status = "pending"
             /\ ~Solid(op[q].rev)
  BY <1>0, <1>a DEF OwnInv, Created, Solid
<1>b. ASSUME NEW q \in Requests, op[q].phase \in Working, Moves(q), op'[q].phase # "supersede",
             anchored' = anchored,
             \/ UNCHANGED records
             \/ \E s : records' = Patched(op[q].rev, s, op[q].payload)
      PROVE  AnchorInv'
  <2>1. \A r \in Revisions : Solid(r) => records'[r] = records[r]
    BY <1>a, <1>b DEF Patched, TypeOK
  <2> QED
    BY <1>a, <1>b, <2>1, AnchorKept
<1>1. ASSUME NEW q \in Requests, CreateRecord(q) PROVE AnchorInv'
  <2>1. Moves(q)
    BY <1>1, StepMoves DEF Step, Mutation
  <2>2. \A r \in Revs : records'[r] = records[r]
    BY <1>1 DEF CreateRecord, TypeOK, Revs
  <2>3. op'[q].phase \notin {"failing", "supersede"}
    BY <1>1, GoMoves, LeaveMoves DEF CreateRecord, Idle, Phases, Working, Uninstalling
  <2> QED
    BY <1>1, <2>1, <2>2, <2>3, AnchorKept DEF CreateRecord, Solid
<1>2. ASSUME NEW q \in Requests, HooksOrWait(q) PROVE AnchorInv'
  <2>1. Moves(q) /\ op[q].phase \in Working /\ UNCHANGED <<records, anchored>>
    BY <1>2, StepMoves DEF Step, Mutation, HooksOrWait, Working, histories
  <2>2. op'[q].phase # "supersede"
    <3> USE <1>2, GoMoves DEF HooksOrWait, Phases, Working, Uninstalling
    <3>1. CASE Go(q, "failing", {})
      BY <3>1
    <3>2. CASE op[q].phase = "preHooks" /\ Go(q, "apply", DocsOf(op[q].target))
      BY <3>2
    <3>3. CASE op[q].phase = "wait" /\ Go(q, "postHooks", {})
      BY <3>3
    <3>4. CASE op[q].phase = "postHooks" /\ Go(q, "finalize", {})
      BY <3>4
    <3> QED
      BY <3>1, <3>2, <3>3, <3>4
  <2> QED
    BY <2>1, <2>2, <1>b
<1>3. ASSUME NEW q \in Requests, ApplyDoc(q) \/ PruneDoc(q) PROVE AnchorInv'
  <2>1. /\ Moves(q) /\ op[q].phase \in Working /\ op'[q].phase # "supersede"
        /\ UNCHANGED <<records, anchored>>
    <3>1. CASE ApplyDoc(q)
      <4>1. /\ Moves(q) /\ op[q].phase \in Working /\ op'[q].phase \in {"apply", "failing"}
        BY <3>1, GoMoves, DidMoves DEF ApplyDoc, Phases, Working, Uninstalling
      <4> QED
        BY <3>1, <4>1 DEF ApplyDoc
    <3>2. CASE PruneDoc(q)
      <4>1. /\ Moves(q) /\ op[q].phase \in Working /\ op'[q].phase \in {"prune", "failing"}
        BY <3>2, GoMoves, DidMoves DEF PruneDoc, Phases, Working, Uninstalling
      <4> QED
        BY <3>2, <4>1 DEF PruneDoc
    <3> QED
      BY <1>3, <3>1, <3>2
  <2> QED
    BY <2>1, <1>b
<1>4. ASSUME NEW q \in Requests, Applied(q) PROVE AnchorInv'
  <2>1. Moves(q) /\ op[q].phase \in Working /\ UNCHANGED <<records, anchored>>
    BY <1>4, StepMoves DEF Step, Mutation, Applied, Working, histories
  <2>2. op'[q].phase # "supersede"
    <3>1. CASE op[q].kind = "rollback"
      BY <1>4, <3>1 DEF Applied, TypeOK, Op
    <3>2. CASE op[q].kind # "rollback"
      BY <1>4, <3>2, GoMoves DEF Applied, Phases, Working, Uninstalling
    <3> QED
      BY <3>1, <3>2
  <2> QED
    BY <2>1, <2>2, <1>b
<1>5. ASSUME NEW q \in Requests, Persist(q) \/ Pruned(q) PROVE AnchorInv'
  <2>1. /\ Moves(q) /\ op[q].phase \in Working /\ op'[q].phase # "supersede"
        /\ UNCHANGED anchored
    BY <1>5, GoMoves DEF Persist, Pruned, Phases, Working, Uninstalling, histories
  <2> QED
    BY <1>5, <2>1, <1>b DEF Persist, Pruned
<1>6. ASSUME NEW q \in Requests, Finalize(q) PROVE AnchorInv'
  <2>1. Moves(q) /\ op[q].phase \in Working
    BY <1>6, StepMoves DEF Step, Mutation, Finalize, Working
  <2>2. CASE Go(q, "failing", {}) /\ active' = active /\ anchored' = anchored
    <3>1. op'[q].phase # "supersede"
      BY <2>1, <2>2, GoMoves DEF Phases, Working, Uninstalling
    <3> QED
      BY <1>6, <2>1, <2>2, <3>1, <1>b DEF Finalize
  <2>3. CASE /\ Go(q, "supersede", op[q].seen) /\ active' = active
             /\ records' = Patched(op[q].rev, "deployed", op[q].payload)
    <3>0. PICK rev \in Revisions : rev = op[q].rev
      BY <1>a, <2>1 DEF Revs
    <3>1. rev \in Revs /\ records[rev].status = "pending"
      BY <1>a, <2>1, <3>0
    <3>2. records'[rev].status = "deployed" /\ rev \in Revs'
      BY <2>3, <3>0, <3>1 DEF Patched, TypeOK, Revs
    <3>3. op'[q].phase = "supersede" /\ op'[q].left = op[q].seen
      BY <2>1, <2>3, GoMoves DEF Phases, Working, Uninstalling
    <3>4. rev \notin op[q].seen
      <4>1. op[q].seen \subseteq {s \in Revs : s < rev}
        BY <1>0, <2>1, <3>0 DEF ReadInv, Created
      <4> QED
        BY <4>1, <3>0 DEF Revisions
    <3>5. ASSUME NEW x \in Requests \ {q}, op[x].phase \in Created
          PROVE  op[x].rev # rev /\ (op[x].phase = "supersede" => rev \notin op[x].left)
      <4>1. op[x].rev # rev
        BY <2>1, <3>0, <3>5 DEF RecordsInv, Created
      <4>2. op[x].rev \in Revs /\ op[x].rev \in Revisions /\ op[x].rev <= rev
        BY <1>0, <3>1, <3>5 DEF OwnInv, RecordsInv, HistoryInv, Latest, Revs
      <4>3. op[x].phase = "supersede" => op[x].left \subseteq {s \in Revs : s < op[x].rev}
        BY <1>0, <3>5 DEF ReadInv
      <4> QED
        BY <4>1, <4>2, <4>3 DEF Revisions
    <3>6. \A x \in Requests \ {q} : op'[x] = op[x]
      BY <2>1 DEF Moves
    <3>7. Solid(rev)'
      BY <3>2, <3>3, <3>4, <3>5, <3>6 DEF Solid, Created
    <3> QED
      BY <3>7 DEF AnchorInv
  <2> QED
    BY <1>6, <2>2, <2>3 DEF Finalize
<1>7. ASSUME NEW q \in Requests, Fail(q) PROVE AnchorInv'
  <2>1. Moves(q) /\ op[q].phase = "failing" /\ op'[q] = Idle
    BY <1>7, LeaveMoves DEF Fail
  <2>2. \A r \in Revisions : Solid(r) => r # op[q].rev
    BY <2>1 DEF Solid
  <2>3. \A r \in Revisions : Solid(r) => records'[r] = records[r]
    BY <1>7, <2>2 DEF Fail, Patched, TypeOK
  <2> QED
    BY <1>7, <2>1, <2>3, AnchorKept DEF Fail, Idle
<1>8. ASSUME NEW q \in Requests, Supersede(q) PROVE AnchorInv'
  <2>1. Moves(q) /\ op[q].phase = "supersede" /\ UNCHANGED anchored
    BY <1>8, StepMoves DEF Step, Mutation, Supersede, histories
  <2>2. op'[q].phase # "failing" /\ (op'[q].phase = "supersede" => op'[q].left \subseteq op[q].left)
    <3>1. CASE Leave(q)
      BY <2>1, <3>1, LeaveMoves DEF Idle
    <3>2. ASSUME NEW rev, Did(q, rev), UNCHANGED active
          PROVE  op'[q].phase = "supersede" /\ op'[q].left \subseteq op[q].left
      BY <2>1, <3>2, DidMoves
    <3> QED
      BY <1>8, <3>1, <3>2 DEF Supersede
  <2>3. \A r \in Revisions : Solid(r) => records'[r] = records[r]
    <3>1. \A r \in Revisions : Solid(r) => r \notin op[q].left
      BY <2>1 DEF Solid
    <3> QED
      BY <1>8, <3>1 DEF Supersede, Last, Patched, TypeOK
  <2> QED
    BY <2>1, <2>2, <2>3, AnchorKept
<1>9. ASSUME NEW q \in Requests,
             PreDelete(q) \/ DeleteDoc(q) \/ PostDelete(q) \/ ListRecords(q) \/ Forgotten(q)
      PROVE  AnchorInv'
  <2>1. Moves(q) /\ UNCHANGED <<records, anchored>> /\ op[q].phase \in Uninstalling
    BY <1>9, StepMoves DEF Step, Uninstall, PreDelete, DeleteDoc, PostDelete, ListRecords,
                           Forgotten, Uninstalling, histories
  <2>2. op'[q].phase \notin {"failing", "supersede"}
    BY <2>1 DEF Moves, Idle, Uninstalling
  <2> QED
    BY <2>1, <2>2, AnchorKept
<1>10. ASSUME NEW q \in Requests, ForgetRecord(q) PROVE AnchorInv'
  BY <1>10 DEF ForgetRecord, AnchorInv
<1>11. ASSUME NEW q \in Requests, NEW p \in Processes, Begin(q, p) \/ BeginUninstall(q, p)
       PROVE  AnchorInv'
  <2>1. /\ \A r \in Requests \ {q} : op'[r] = op[r]
        /\ UNCHANGED <<records, anchored>> /\ op'[q].phase \notin {"failing", "supersede"}
    <3>1. CASE Begin(q, p)
      BY <3>1 DEF Begin, Prepared, TypeOK
    <3>2. CASE BeginUninstall(q, p)
      BY <3>2 DEF BeginUninstall, Idle, TypeOK
    <3> QED
      BY <1>11, <3>1, <3>2
  <2>2. \A r \in Revisions : Solid(r) => Solid(r)'
    BY <2>1 DEF Solid, Revs
  <2> QED
    BY <2>1, <2>2 DEF AnchorInv
<1>12. ASSUME NEW p \in Processes, Crash(p) PROVE AnchorInv'
  <2>1. /\ \A r \in Requests : op'[r] = op[r] \/ op'[r] = Idle
        /\ UNCHANGED <<records, anchored>>
    BY <1>12 DEF Crash
  <2>2. \A r \in Revisions : Solid(r) => Solid(r)'
    BY <2>1 DEF Solid, Revs, Idle
  <2> QED
    BY <2>1, <2>2 DEF AnchorInv
<1>13. ASSUME UNCHANGED vars PROVE AnchorInv'
  BY <1>13 DEF vars, histories, AnchorInv, Solid, Revs
<1> QED
  BY <1>1, <1>2, <1>3, <1>4, <1>5, <1>6, <1>7, <1>8, <1>9, <1>10, <1>11, <1>12, <1>13
     DEF Next, Mutation, Uninstall
-----------------------------------------------------------------------------
(* The cluster                                                             *)

\* How far a request has come does not depend on the others: what they change of
\* the cluster is not its, and nobody is about when an uninstall is.
LEMMA OthersLoop ==
  ASSUME AloneInv, RecordsInv, NEW q \in Requests, Moves(q),
         \A x \in Requests : LoopInv(x), live' = live \/ op[q].phase \in Working \cup Uninstalling
  PROVE  \A x \in Requests \ {q} : LoopInv(x)'
<1> SUFFICES ASSUME NEW x \in Requests \ {q} PROVE LoopInv(x)'
  OBVIOUS
<1>1. op'[x] = op[x] /\ LoopInv(x) /\ op[x].phase \notin Uninstalling
  BY DEF Moves, AloneInv
<1>2. CASE live' = live
  BY <1>1, <1>2 DEF LoopInv, Uninstalling
<1>3. CASE live' # live
  <2>1. op[x].phase \notin Working
    <3>1. CASE op[q].phase \in Working
      BY <3>1, OneAtWork
    <3>2. CASE op[q].phase \in Uninstalling
      BY <3>2 DEF AloneInv, Working
    <3> QED
      BY <1>3, <3>1, <3>2
  <2> QED
    BY <1>1, <2>1 DEF LoopInv, Working, Uninstalling
<1> QED
  BY <1>2, <1>3

LEMMA IdleLoop ==
  ASSUME NEW q \in Requests, op'[q] = Idle
  PROVE  LoopInv(q)'
  BY DEF LoopInv, Idle

LEMMA LoopStep ==
  ASSUME TypeOK, AloneInv, RecordsInv, CoveredInv, \A q \in Requests : LoopInv(q), [Next]_vars
  PROVE  \A q \in Requests : LoopInv(q)'
<1>0. \A q \in Requests : ReadInv(q) /\ OwnInv(q) /\ LoopInv(q)
  BY DEF RecordsInv
\* An operation goes on to a phase of which LoopInv says no more.
<1>a. ASSUME NEW q \in Requests, Moves(q), live' = live,
             op'[q].phase \notin {"prune", "apply", "persist", "wait", "postHooks", "finalize",
                                 "delete", "list", "forget"}
      PROVE  \A x \in Requests : LoopInv(x)'
  <2>1. LoopInv(q)'
    BY <1>0, <1>a DEF LoopInv, Moves, Idle
  <2> QED
    BY <1>a, <2>1, OthersLoop
<1>1. ASSUME NEW q \in Requests, CreateRecord(q) PROVE \A x \in Requests : LoopInv(x)'
  <2>1. Moves(q) /\ live' = live
    BY <1>1, StepMoves DEF Step, Mutation, CreateRecord
  <2>2. op'[q].phase \in {"preHooks", "idle"}
    BY <1>1, GoMoves, LeaveMoves DEF CreateRecord, Idle, Phases, Working, Uninstalling
  <2> QED
    BY <2>1, <2>2, <1>a
<1>2. ASSUME NEW q \in Requests, HooksOrWait(q) PROVE \A x \in Requests : LoopInv(x)'
  <2>1. Moves(q) /\ live' = live
    BY <1>2, StepMoves DEF Step, Mutation, HooksOrWait
  <2> USE GoMoves DEF Phases, Working, Uninstalling
  <2>2. CASE Go(q, "failing", {}) /\ UNCHANGED active
    <3>1. op'[q].phase = "failing"
      BY <1>2, <2>2 DEF HooksOrWait
    <3> QED
      BY <2>1, <3>1, <1>a
  <2>3. CASE op[q].phase = "preHooks" /\ Go(q, "apply", DocsOf(op[q].target)) /\ UNCHANGED active
    <3>1. op'[q].phase = "apply" /\ op'[q].left = DocsOf(op[q].target)
      BY <2>3
    <3>2. op'[q].target = op[q].target /\ op'[q].kind = op[q].kind /\ op'[q].old = op[q].old
      BY <2>1, <3>1 DEF Moves, Idle
    <3>3. LoopInv(q)'
      BY <1>0, <2>3, <3>1, <3>2 DEF LoopInv
    <3> QED
      BY <2>1, <3>3, OthersLoop
  <2>4. CASE \/ op[q].phase = "wait" /\ Go(q, "postHooks", {}) /\ UNCHANGED active
             \/ op[q].phase = "postHooks" /\ Go(q, "finalize", {}) /\ UNCHANGED active
    <3>1. op'[q].phase \in {"postHooks", "finalize"} /\ op[q].phase \in {"wait", "postHooks"}
      BY <2>4
    <3>2. op'[q].target = op[q].target /\ op'[q].kind = op[q].kind /\ op'[q].old = op[q].old
      BY <2>1, <3>1 DEF Moves, Idle
    <3>3. LoopInv(q)'
      BY <1>0, <2>1, <3>1, <3>2 DEF LoopInv
    <3> QED
      BY <2>1, <3>3, OthersLoop
  <2>5. UNCHANGED active
    BY <1>2 DEF HooksOrWait
  <2>6. \/ Go(q, "failing", {})
        \/ op[q].phase = "preHooks" /\ Go(q, "apply", DocsOf(op[q].target))
        \/ op[q].phase = "wait" /\ Go(q, "postHooks", {})
        \/ op[q].phase = "postHooks" /\ Go(q, "finalize", {})
    BY <1>2 DEF HooksOrWait
  <2> QED
    BY <2>2, <2>3, <2>4, <2>5, <2>6
<1>3. ASSUME NEW q \in Requests, ApplyDoc(q) PROVE \A x \in Requests : LoopInv(x)'
  <2>1. Moves(q) /\ op[q].phase = "apply" /\ op[q].phase \in Working
    BY <1>3, StepMoves DEF Step, Mutation, ApplyDoc, Working
  <2>2. PICK d \in Docs :
          LET applied == [live EXCEPT ![d] = op[q].target[d]] IN
          /\ First(d, op[q].left)
          /\ \/ NoFault /\ live' = applied /\ Did(q, d)
             \/ Fault /\ live' \in {live, applied} /\ Go(q, "failing", {})
    BY <1>3 DEF ApplyDoc
  <2>3. LoopInv(q)'
    <3>1. CASE live' = [live EXCEPT ![d] = op[q].target[d]] /\ Did(q, d)
      <4>1. op'[q].phase = "apply" /\ op'[q].left = op[q].left \ {d}
        BY <1>3, <2>1, <3>1, DidMoves DEF ApplyDoc
      <4>2. op'[q].target = op[q].target /\ op'[q].kind = op[q].kind /\ op'[q].old = op[q].old
        BY <2>1, <4>1 DEF Moves, Idle
      <4>3. live'[d] = op[q].target[d] /\ \A e \in Docs \ {d} : live'[e] = live[e]
        BY <3>1 DEF TypeOK, Manifest
      <4> QED
        BY <1>0, <2>1, <4>1, <4>2, <4>3 DEF LoopInv, DocsOf
    <3>2. CASE Go(q, "failing", {})
      <4>1. op'[q].phase = "failing"
        BY <1>3, <2>1, <3>2, GoMoves DEF ApplyDoc, Phases, Uninstalling
      <4>2. op'[q].kind = op[q].kind /\ op'[q].old = op[q].old
        BY <2>1, <4>1 DEF Moves, Idle
      <4> QED
        BY <1>0, <2>1, <4>1, <4>2 DEF LoopInv
    <3> QED
      BY <2>2, <3>1, <3>2
  <2> QED
    BY <2>1, <2>3, OthersLoop
<1>4. ASSUME NEW q \in Requests, Applied(q) PROVE \A x \in Requests : LoopInv(x)'
  <2>1. /\ Moves(q) /\ op[q].phase = "apply" /\ op[q].left = {} /\ live' = live
        /\ \A d \in DocsOf(op[q].target) : live[d] = op[q].target[d]
    BY <1>0, <1>4, StepMoves DEF Step, Mutation, Applied, LoopInv
  <2>2. /\ op'[q].phase \in {"persist", "prune", "wait"}
        /\ op'[q].phase = "prune" => op'[q].left = DocsOf(op[q].old) \ DocsOf(op[q].target)
    <3>1. CASE op[q].kind = "rollback"
      BY <1>4, <3>1 DEF Applied, TypeOK, Op
    <3>2. CASE op[q].kind # "rollback"
      BY <1>4, <3>2, GoMoves DEF Applied, Phases, Working, Uninstalling
    <3> QED
      BY <3>1, <3>2
  <2>3. op'[q].target = op[q].target /\ op'[q].kind = op[q].kind /\ op'[q].old = op[q].old
    BY <2>1, <2>2 DEF Moves, Idle
  <2>4. LoopInv(q)'
    BY <1>0, <2>1, <2>2, <2>3 DEF LoopInv
  <2> QED
    BY <2>1, <2>4, OthersLoop
<1>5. ASSUME NEW q \in Requests, Persist(q) \/ Pruned(q) PROVE \A x \in Requests : LoopInv(x)'
  <2>1. /\ Moves(q) /\ op[q].phase \in {"persist", "prune"} /\ live' = live
        /\ op'[q].phase \in {"prune", "wait"}
        /\ op'[q].phase = "prune" => op'[q].left = DocsOf(op[q].old) \ DocsOf(op[q].target)
    <3>1. CASE Persist(q)
      BY <3>1, GoMoves DEF Persist, Phases, Working, Uninstalling
    <3>2. CASE Pruned(q)
      BY <3>2, GoMoves DEF Pruned, Phases, Working, Uninstalling
    <3> QED
      BY <1>5, <3>1, <3>2
  <2>2. op'[q].target = op[q].target /\ op'[q].kind = op[q].kind /\ op'[q].old = op[q].old
    BY <2>1 DEF Moves, Idle
  <2>3. LoopInv(q)'
    BY <1>0, <2>1, <2>2 DEF LoopInv
  <2> QED
    BY <2>1, <2>3, OthersLoop
<1>6. ASSUME NEW q \in Requests, PruneDoc(q) PROVE \A x \in Requests : LoopInv(x)'
  <2>1. Moves(q) /\ op[q].phase = "prune" /\ op[q].phase \in Working
    BY <1>6, StepMoves DEF Step, Mutation, PruneDoc, Working
  <2>2. PICK d \in Docs :
          LET pruned == [live EXCEPT ![d] = Absent] IN
          /\ Last(d, op[q].left)
          /\ \/ NoFault /\ live' = pruned /\ Did(q, d)
             \/ Fault /\ live' \in {live, pruned} /\ Go(q, "failing", {})
    BY <1>6 DEF PruneDoc
  <2>3. LoopInv(q)'
    <3>1. CASE live' = [live EXCEPT ![d] = Absent] /\ Did(q, d)
      <4>1. op'[q].phase = "prune" /\ op'[q].left = op[q].left \ {d}
        BY <1>6, <2>1, <3>1, DidMoves DEF PruneDoc
      <4>2. op'[q].target = op[q].target /\ op'[q].kind = op[q].kind /\ op'[q].old = op[q].old
        BY <2>1, <4>1 DEF Moves, Idle
      <4>3. d \notin DocsOf(op[q].target)
        BY <1>0, <2>1, <2>2 DEF LoopInv, Last
      <4>4. \A e \in Docs \ {d} : live'[e] = live[e]
        BY <3>1 DEF TypeOK, Manifest
      <4> QED
        BY <1>0, <2>1, <4>1, <4>2, <4>3, <4>4 DEF LoopInv, DocsOf
    <3>2. CASE Go(q, "failing", {})
      <4>1. op'[q].phase = "failing"
        BY <1>6, <2>1, <3>2, GoMoves DEF PruneDoc, Phases, Uninstalling
      <4>2. op'[q].kind = op[q].kind /\ op'[q].old = op[q].old
        BY <2>1, <4>1 DEF Moves, Idle
      <4> QED
        BY <1>0, <2>1, <4>1, <4>2 DEF LoopInv
    <3> QED
      BY <2>2, <3>1, <3>2
  <2> QED
    BY <2>1, <2>3, OthersLoop
<1>7. ASSUME NEW q \in Requests, Finalize(q) PROVE \A x \in Requests : LoopInv(x)'
  <2>1. Moves(q) /\ live' = live /\ op'[q].phase \in {"failing", "supersede"}
    BY <1>7, GoMoves DEF Finalize, Phases, Working, Uninstalling
  <2> QED
    BY <2>1, <1>a
<1>8. ASSUME NEW q \in Requests, Fail(q) PROVE \A x \in Requests : LoopInv(x)'
  <2>1. Moves(q) /\ live' = live /\ op'[q].phase = "idle"
    BY <1>8, LeaveMoves DEF Fail, Idle
  <2> QED
    BY <2>1, <1>a
<1>9. ASSUME NEW q \in Requests, Supersede(q) PROVE \A x \in Requests : LoopInv(x)'
  <2>1. Moves(q) /\ live' = live /\ op[q].phase = "supersede"
    BY <1>9, StepMoves DEF Step, Mutation, Supersede
  <2>2. op'[q].phase \in {"idle", "supersede"}
    <3>1. CASE Leave(q)
      BY <2>1, <3>1, LeaveMoves DEF Idle
    <3>2. ASSUME NEW rev, Did(q, rev), UNCHANGED active PROVE op'[q].phase = "supersede"
      BY <2>1, <3>2, DidMoves
    <3> QED
      BY <1>9, <3>1, <3>2 DEF Supersede
  <2> QED
    BY <2>1, <2>2, <1>a
<1>10. ASSUME NEW q \in Requests, PreDelete(q) PROVE \A x \in Requests : LoopInv(x)'
  <2>1. /\ Moves(q) /\ live' = live /\ leaked' = leaked
        /\ op[q].phase = "preDelete" /\ op[q].phase \in Uninstalling
    BY <1>10, StepMoves DEF Step, Uninstall, PreDelete, histories, Uninstalling
  <2>2. CASE op'[q] = Idle
    BY <2>1, <2>2, IdleLoop, OthersLoop
  <2>3. CASE Go(q, "delete", DocsOf(op[q].target)) /\ UNCHANGED active
    <3>1. op'[q].phase = "delete" /\ op'[q].left = DocsOf(op[q].target)
      BY <2>1, <2>3, GoMoves DEF Phases, Uninstalling
    <3>2. op'[q].kind = op[q].kind /\ op'[q].old = op[q].old
      BY <2>1, <3>1 DEF Moves, Idle
    <3>3. \A x \in Requests : Unpruned(x) = {}
      BY <2>1, IdleKeeps DEF AloneInv, Unpruned
    <3>4. PICK r \in Revs : Latest(r) /\ op[q].target = records[r].manifest
      BY <1>0, <2>1 DEF ReadInv
    <3>5. \A s \in Revs : Latest(s) => s = r
      BY <3>4 DEF Latest, Revs, Revisions
    <3>6. DocsOf(live) \subseteq leaked \cup DocsOf(op[q].target)
      BY <3>3, <3>4, <3>5 DEF CoveredInv
    <3>7. LoopInv(q)'
      BY <1>0, <2>1, <3>1, <3>2, <3>6 DEF LoopInv
    <3> QED
      BY <2>1, <3>7, OthersLoop
  <2> QED
    BY <1>10, <2>1, <2>2, <2>3, LeaveMoves DEF PreDelete
<1>11. ASSUME NEW q \in Requests, DeleteDoc(q) PROVE \A x \in Requests : LoopInv(x)'
  <2>1. /\ Moves(q) /\ op[q].phase = "delete" /\ op[q].phase \in Uninstalling
    BY <1>11, StepMoves DEF Step, Uninstall, DeleteDoc, Uninstalling
  <2>2. PICK d \in Docs :
          LET deleted == [live EXCEPT ![d] = Absent] IN
          /\ Last(d, op[q].left)
          /\ \/ NoFault /\ live' = deleted /\ Did(q, d)
             \/ /\ Fault /\ live' \in {live, deleted}
                /\ op' = [op EXCEPT ![q].left = @ \ {d}, ![q].failed = TRUE]
          /\ leaked' = leaked \ {x \in {d} : live'[d] = Absent}
    BY <1>11 DEF DeleteDoc
  <2>3. /\ op'[q].phase = "delete" /\ op'[q].left = op[q].left \ {d}
        /\ op'[q].kind = op[q].kind /\ op'[q].old = op[q].old
        /\ ~op'[q].failed => ~op[q].failed /\ live' = [live EXCEPT ![d] = Absent]
    BY <2>1, <2>2 DEF Did, TypeOK, Op
  <2>4. ~op'[q].failed => DocsOf(live') \subseteq leaked' \cup op'[q].left
    <3> SUFFICES ASSUME ~op'[q].failed, NEW e \in DocsOf(live')
                 PROVE  e \in leaked' \cup op'[q].left
      OBVIOUS
    <3>1. e # d /\ live'[e] = live[e]
      BY <2>3 DEF DocsOf, TypeOK, Manifest
    <3>2. e \in DocsOf(live)
      BY <3>1 DEF DocsOf
    <3> QED
      BY <1>0, <2>1, <2>2, <2>3, <3>1, <3>2 DEF LoopInv
  <2>5. LoopInv(q)'
    BY <1>0, <2>1, <2>3, <2>4 DEF LoopInv
  <2> QED
    BY <2>1, <2>5, OthersLoop
<1>12. ASSUME NEW q \in Requests, PostDelete(q) \/ ListRecords(q) \/ Forgotten(q)
       PROVE  \A x \in Requests : LoopInv(x)'
  <2>1. /\ Moves(q) /\ live' = live /\ leaked' = leaked /\ op[q].phase \in Uninstalling
    BY <1>12, StepMoves DEF Step, Uninstall, PostDelete, ListRecords, Forgotten, histories,
                            Uninstalling
  <2>2. CASE op'[q] = Idle
    BY <2>1, <2>2, IdleLoop, OthersLoop
  <2>3. CASE op'[q] # Idle
    <3>1. /\ op'[q].phase \in {"list", "forget"}
          /\ \/ op[q].phase = "list"
             \/ op[q].phase = "delete" /\ op[q].left = {} /\ ~op[q].failed
      <4>1. CASE PostDelete(q)
        BY <2>1, <2>3, <4>1, GoMoves, LeaveMoves DEF PostDelete, Phases, Uninstalling
      <4>2. CASE ListRecords(q)
        BY <2>1, <2>3, <4>2, GoMoves, LeaveMoves DEF ListRecords, Phases, Uninstalling
      <4>3. CASE Forgotten(q)
        BY <2>1, <2>3, <4>3, LeaveMoves DEF Forgotten
      <4> QED
        BY <1>12, <4>1, <4>2, <4>3
    <3>2. op'[q].kind = op[q].kind /\ op'[q].old = op[q].old
      BY <2>1, <3>1 DEF Moves, Idle
    <3>3. LoopInv(q)'
      BY <1>0, <2>1, <3>1, <3>2 DEF LoopInv
    <3> QED
      BY <2>1, <3>3, OthersLoop
  <2> QED
    BY <2>2, <2>3
<1>13. ASSUME NEW q \in Requests, ForgetRecord(q) PROVE \A x \in Requests : LoopInv(x)'
  <2>1. /\ Moves(q) /\ live' = live /\ leaked' = leaked
        /\ op[q].phase = "forget" /\ op[q].phase \in Uninstalling
    BY <1>13, StepMoves DEF Step, Uninstall, ForgetRecord, Uninstalling
  <2>2. CASE op'[q] = Idle
    BY <2>1, <2>2, IdleLoop, OthersLoop
  <2>3. CASE op'[q].phase = "forget"
    <3>1. op'[q].kind = op[q].kind /\ op'[q].old = op[q].old
      BY <2>1, <2>3 DEF Moves, Idle
    <3>2. LoopInv(q)'
      BY <1>0, <2>1, <2>3, <3>1 DEF LoopInv
    <3> QED
      BY <2>1, <3>2, OthersLoop
  <2> QED
    BY <1>13, <2>1, <2>2, <2>3, DidMoves, LeaveMoves DEF ForgetRecord
<1>14. ASSUME NEW q \in Requests, NEW p \in Processes, Begin(q, p) \/ BeginUninstall(q, p)
       PROVE  \A x \in Requests : LoopInv(x)'
  <2>1. /\ \A r \in Requests \ {q} : op'[r] = op[r]
        /\ UNCHANGED <<live, leaked>> /\ op'[q].phase \in {"create", "preDelete"}
        /\ op'[q].kind = "install" => op'[q].old = Nothing
    <3>1. CASE Begin(q, p)
      BY <3>1 DEF Begin, Prepared, TypeOK
    <3>2. CASE BeginUninstall(q, p)
      BY <3>2 DEF BeginUninstall, Idle, TypeOK
    <3> QED
      BY <1>14, <3>1, <3>2
  <2>2. LoopInv(q)'
    BY <2>1 DEF LoopInv
  <2>3. \A x \in Requests \ {q} : LoopInv(x)'
    BY <1>0, <2>1 DEF LoopInv
  <2> QED
    BY <2>2, <2>3
<1>15. ASSUME NEW p \in Processes, Crash(p) PROVE \A x \in Requests : LoopInv(x)'
  <2>1. /\ \A r \in Requests : op'[r] = op[r] \/ op'[r] = Idle
        /\ live' = live /\ leaked \subseteq leaked'
    BY <1>15 DEF Crash
  <2>2. ASSUME NEW x \in Requests, op'[x] = op[x] PROVE LoopInv(x)'
    BY <1>0, <2>1, <2>2 DEF LoopInv
  <2> QED
    BY <2>1, <2>2, IdleLoop
<1>16. ASSUME UNCHANGED vars PROVE \A x \in Requests : LoopInv(x)'
  BY <1>0, <1>16 DEF vars, histories, LoopInv
<1> QED
  BY <1>1, <1>2, <1>3, <1>4, <1>5, <1>6, <1>7, <1>8, <1>9, <1>10, <1>11, <1>12, <1>13,
     <1>14, <1>15, <1>16 DEF Next, Mutation, Uninstall

\* What others still have to prune they still have; the latest revision lists what it did.
LEMMA CoveredKept ==
  ASSUME RecordsInv, CoveredInv, NEW q \in Requests, Moves(q), Mild(q),
         \A d \in DocsOf(live') \ leaked' :
           \/ d \in DocsOf(live) \ leaked /\ (d \in Unpruned(q) => d \in Unpruned(q)')
           \/ op[q].phase \in Working /\ d \in DocsOf(op[q].target)
  PROVE  CoveredInv'
<1>0. \A x \in Requests : OwnInv(x)
  BY DEF RecordsInv
<1>1. ASSUME NEW r \in Revs, Latest(r), NEW d \in DocsOf(records[r].manifest)
      PROVE  \E s \in Revs' : Latest(s)' /\ d \in DocsOf(records'[s].manifest)
  BY <1>1 DEF Mild, Latest
<1>2. ASSUME NEW x \in Requests \ {q} PROVE Unpruned(x) \subseteq Unpruned(x)'
  <2>1. op'[x] = op[x]
    BY DEF Moves
  <2>2. CASE op[x].phase = "failing" /\ records[op[x].rev].status = "pending"
    <3>1. op[x].rev \in Revs
      BY <1>0, <2>2 DEF OwnInv, Created
    <3>2. op[q].phase \in Created => op[x].rev # op[q].rev
      BY <2>2 DEF RecordsInv, Created
    <3>3. records'[op[x].rev].status = "pending"
      BY <2>2, <3>1, <3>2 DEF Mild
    <3> QED
      BY <2>1, <2>2, <3>3 DEF Unpruned
  <2>3. CASE ~(op[x].phase = "failing" /\ records[op[x].rev].status = "pending")
    BY <2>1, <2>3 DEF Unpruned
  <2> QED
    BY <2>2, <2>3
<1>3. ASSUME NEW d \in DocsOf(live') \ leaked',
             d \in DocsOf(live) \ leaked, d \in Unpruned(q) => d \in Unpruned(q)'
      PROVE  \/ \E r \in Revs' : Latest(r)' /\ d \in DocsOf(records'[r].manifest)
             \/ \E x \in Requests : d \in Unpruned(x)'
  <2>1. CASE \E r \in Revs : Latest(r) /\ d \in DocsOf(records[r].manifest)
    BY <1>1, <2>1
  <2>2. CASE \E x \in Requests : d \in Unpruned(x)
    BY <1>2, <1>3, <2>2
  <2> QED
    BY <1>3, <2>1, <2>2 DEF CoveredInv
<1>4. ASSUME NEW d \in DocsOf(op[q].target), op[q].phase \in Working
      PROVE  \E r \in Revs' : Latest(r)' /\ d \in DocsOf(records'[r].manifest)
  <2>1. /\ op[q].rev \in Revs /\ records[op[q].rev].status = "pending"
        /\ DocsOf(records[op[q].rev].manifest) = DocsOf(op[q].target)
    BY <1>0, <1>4 DEF OwnInv, Created
  <2>2. Latest(op[q].rev)
    BY <2>1 DEF RecordsInv, HistoryInv
  <2> QED
    BY <1>1, <1>4, <2>1, <2>2
<1> QED
  BY <1>3, <1>4 DEF CoveredInv

\* Superseding a revision read before leaves the latest and the pending ones alone.
LEMMA SupersedeIsMild ==
  ASSUME TypeOK, RecordsInv, NEW q \in Requests, Supersede(q)
  PROVE  /\ Mild(q) /\ \A r \in Revs : Latest(r) => records'[r] = records[r]
<1>1. op[q].phase = "supersede" /\ ReadInv(q) /\ OwnInv(q)
  BY DEF Supersede, RecordsInv
<1>2. \/ UNCHANGED records
      \/ \E rev \in op[q].left : rev \in Revisions
            /\ records' = Patched(rev, "superseded", op[q].read[rev])
  BY DEF Supersede, Last
<1>3. ASSUME NEW rev \in op[q].left, rev \in Revisions,
             records' = Patched(rev, "superseded", op[q].read[rev])
      PROVE  Mild(q) /\ \A r \in Revs : Latest(r) => records'[r] = records[r]
  <2>1. /\ rev \in Revs /\ op[q].rev \in Revs /\ rev < op[q].rev
        /\ DocsOf(op[q].read[rev]) = DocsOf(records[rev].manifest)
    BY <1>1, <1>3 DEF ReadInv, OwnInv, Created
  <2>2. records[rev].status # "pending" /\ ~Latest(rev)
    BY <2>1 DEF RecordsInv, HistoryInv, Latest, Revs, Revisions
  <2> QED
    BY <1>3, <2>1, <2>2 DEF Mild, Patched, TypeOK, Revs
<1> QED
  BY <1>2, <1>3, MildIfSame

LEMMA CoveredStep ==
  ASSUME TypeOK, AloneInv, RecordsInv, CoveredInv, \A q \in Requests : LoopInv(q), [Next]_vars
  PROVE  CoveredInv'
<1>0. \A q \in Requests : ReadInv(q) /\ OwnInv(q) /\ LoopInv(q)
  BY DEF RecordsInv
<1>1. ASSUME NEW q \in Requests, CreateRecord(q) PROVE CoveredInv'
  <2>1. Moves(q) /\ op[q].phase = "create" /\ live' = live /\ leaked \subseteq leaked'
    BY <1>1, StepMoves DEF Step, Mutation, CreateRecord
  <2>2. Unpruned(q) = {}
    BY <2>1 DEF Unpruned
  <2>3. CASE records' = records
    BY <2>1, <2>2, <2>3, MildIfSame, CoveredKept
  <2>4. CASE records' # records
    <3>1. /\ op[q].rev \notin Revs
          /\ records' = [records EXCEPT ![op[q].rev] =
                          [status |-> "pending", manifest |-> op[q].payload]]
      BY <1>1, <2>4 DEF CreateRecord
    <3>2. \A x \in Requests \ {q} : op'[x] = op[x]
      BY <2>1 DEF Moves
    <3>3. PICK rev \in Revisions : rev = op[q].rev
      BY <1>0, <2>1 DEF ReadInv
    <3>4. /\ Revs' = Revs \cup {rev} /\ \A s \in Revs : s < rev
          /\ \A s \in Revs : records'[s] = records[s]
      BY <2>1, <3>1, <3>2, <3>3, Creation
    <3>5. rev \in Revs' /\ Latest(rev)' /\ DocsOf(records'[rev].manifest) = DocsOf(op[q].target)
      <4>1. Latest(rev)'
        BY <3>3, <3>4 DEF Latest, Revs, Revisions
      <4>2. records'[rev].manifest = op[q].payload
        BY <3>1, <3>3 DEF TypeOK
      <4> QED
        BY <1>0, <2>1, <3>4, <4>1, <4>2 DEF ReadInv
    <3>6. ASSUME NEW d \in DocsOf(live') \ leaked'
          PROVE  \/ d \in DocsOf(records'[rev].manifest)
                 \/ \E x \in Requests : d \in Unpruned(x)'
      <4>1. d \in DocsOf(live) \ leaked
        BY <2>1, <3>6
      <4>2. CASE \E x \in Requests : d \in Unpruned(x)
        <5>1. PICK x \in Requests : d \in Unpruned(x)
          BY <4>2
        <5>2. x # q /\ op'[x] = op[x]
          BY <2>2, <3>2, <5>1
        <5>3. op[x].phase = "failing" => records'[op[x].rev] = records[op[x].rev]
          BY <1>0, <3>4 DEF OwnInv, Created
        <5> QED
          BY <5>1, <5>2, <5>3 DEF Unpruned
      <4>3. CASE \E r \in Revs : Latest(r) /\ d \in DocsOf(records[r].manifest)
        <5>1. PICK r \in Revs : Latest(r) /\ d \in DocsOf(records[r].manifest)
          BY <4>3
        <5>2. rev # 1 /\ rev - 1 \in Revs /\ DocsOf(op[q].old) = DocsOf(records[rev - 1].manifest)
          BY <1>0, <2>1, <3>1, <3>3, <5>1 DEF ReadInv
        <5>3. r = rev - 1
          BY <3>4, <5>1, <5>2 DEF Latest, Revs, Revisions
        <5>4. d \in DocsOf(op[q].old)
          BY <5>1, <5>2, <5>3
        <5>5. CASE d \in DocsOf(op[q].target)
          BY <3>5, <5>5
        <5>6. CASE d \notin DocsOf(op[q].target)
          <6>1. d \notin Dropped(q) \/ d \in leaked' \/ Go(q, "preHooks", {})
            BY <1>1, <2>4 DEF CreateRecord
          <6>2. d \in Dropped(q)
            BY <4>1, <5>4, <5>6 DEF Dropped, DocsOf
          <6>3. Go(q, "preHooks", {}) /\ active' = active
            BY <1>1, <2>4, <3>6, <6>1, <6>2 DEF CreateRecord
          <6>4. op'[q].phase = "preHooks"
            BY <2>1, <6>3, GoMoves DEF Phases, Working, Uninstalling
          <6>5. op'[q].old = op[q].old /\ op'[q].target = op[q].target
            BY <2>1, <6>4 DEF Moves, Idle
          <6> QED
            BY <5>4, <5>6, <6>4, <6>5 DEF Unpruned
        <5> QED
          BY <5>5, <5>6
      <4> QED
        BY <4>1, <4>2, <4>3 DEF CoveredInv
    <3> QED
      BY <3>5, <3>6 DEF CoveredInv
  <2> QED
    BY <2>3, <2>4
\* The operation goes on, with as much to prune as before.
<1>a. ASSUME NEW q \in Requests, Moves(q), Mild(q), live' = live, leaked' = leaked,
             Unpruned(q) \subseteq Unpruned(q)'
      PROVE  CoveredInv'
  BY <1>a, CoveredKept
\* An operation that was at work and fails has all to prune that the old manifest had more.
<1>b. ASSUME NEW q \in Requests, Moves(q), Mild(q), op[q].phase \in Working,
             op'[q].phase = "failing", records' = records
      PROVE  Unpruned(q) \subseteq Unpruned(q)'
  <2>1. op'[q].old = op[q].old /\ op'[q].target = op[q].target /\ op'[q].rev = op[q].rev
    BY <1>b DEF Moves, Idle
  <2>2. records'[op[q].rev].status = "pending"
    BY <1>0, <1>b DEF OwnInv
  <2>3. Unpruned(q)' = DocsOf(op[q].old) \ DocsOf(op[q].target)
    BY <1>b, <2>1, <2>2 DEF Unpruned
  <2> QED
    BY <1>0, <2>3 DEF Unpruned, LoopInv
<1>2. ASSUME NEW q \in Requests, HooksOrWait(q) PROVE CoveredInv'
  <2>1. /\ Moves(q) /\ live' = live /\ leaked' = leaked /\ records' = records
        /\ op[q].phase \in Working /\ active' = active
    BY <1>2, StepMoves DEF Step, Mutation, HooksOrWait, histories, Working
  <2>2. Mild(q)
    BY <2>1, MildIfSame
  <2>3. CASE Go(q, "failing", {})
    <3>1. op'[q].phase = "failing"
      BY <2>1, <2>3, GoMoves DEF Phases, Working, Uninstalling
    <3> QED
      BY <2>1, <2>2, <3>1, <1>a, <1>b
  <2>4. CASE op[q].phase = "preHooks" /\ Go(q, "apply", DocsOf(op[q].target))
    <3>1. op'[q].phase = "apply"
      BY <2>1, <2>4, GoMoves DEF Phases, Working, Uninstalling
    <3>2. op'[q].old = op[q].old /\ op'[q].target = op[q].target
      BY <2>1, <3>1 DEF Moves, Idle
    <3>3. Unpruned(q)' = Unpruned(q)
      BY <2>4, <3>1, <3>2 DEF Unpruned
    <3> QED
      BY <2>1, <2>2, <3>3, <1>a
  <2>5. CASE op[q].phase \in {"wait", "postHooks"}
    <3>1. Unpruned(q) = {}
      BY <2>5 DEF Unpruned
    <3> QED
      BY <2>1, <2>2, <3>1, <1>a
  <2> QED
    BY <1>2, <2>3, <2>4, <2>5 DEF HooksOrWait
<1>3. ASSUME NEW q \in Requests, ApplyDoc(q) PROVE CoveredInv'
  <2>1. /\ Moves(q) /\ op[q].phase = "apply" /\ op[q].phase \in Working /\ records' = records
    BY <1>3, StepMoves DEF Step, Mutation, ApplyDoc, Working
  <2>2. Mild(q)
    BY <2>1, MildIfSame
  <2>3. PICK d \in Docs :
          LET applied == [live EXCEPT ![d] = op[q].target[d]] IN
          /\ First(d, op[q].left)
          /\ \/ NoFault /\ live' = applied /\ Did(q, d)
             \/ Fault /\ live' \in {live, applied} /\ Go(q, "failing", {})
          /\ leaked' = leaked \ {x \in {d} : live'[d] = op[q].target[d]}
    BY <1>3 DEF ApplyDoc
  <2>4. Unpruned(q) \subseteq Unpruned(q)'
    <3>1. CASE Did(q, d)
      <4>1. op'[q].phase = "apply"
        BY <1>3, <2>1, <3>1, DidMoves DEF ApplyDoc
      <4>2. op'[q].old = op[q].old /\ op'[q].target = op[q].target
        BY <2>1, <4>1 DEF Moves, Idle
      <4> QED
        BY <2>1, <4>1, <4>2 DEF Unpruned
    <3>2. CASE Go(q, "failing", {})
      <4>1. op'[q].phase = "failing"
        BY <1>3, <2>1, <3>2, GoMoves DEF ApplyDoc, Phases, Uninstalling
      <4> QED
        BY <2>1, <2>2, <4>1, <1>b
    <3> QED
      BY <2>3, <3>1, <3>2
  <2>5. ASSUME NEW e \in DocsOf(live') \ leaked'
        PROVE  e \in DocsOf(live) \ leaked \/ e \in DocsOf(op[q].target)
    <3>1. CASE live'[e] = op[q].target[e]
      BY <3>1, <2>5 DEF DocsOf
    <3>2. CASE live'[e] # op[q].target[e]
      <4>0. live' \in {live, [live EXCEPT ![d] = op[q].target[d]]}
        BY <2>3
      <4>1. live'[e] = live[e]
        BY <3>2, <4>0 DEF TypeOK, Manifest, DocsOf
      <4>2. e \notin leaked
        BY <2>3, <2>5, <3>2
      <4> QED
        BY <2>5, <4>1, <4>2 DEF DocsOf
    <3> QED
      BY <3>1, <3>2
  <2> QED
    BY <2>1, <2>2, <2>4, <2>5, CoveredKept
<1>4. ASSUME NEW q \in Requests, Applied(q) PROVE CoveredInv'
  <2>1. /\ Moves(q) /\ op[q].phase = "apply" /\ live' = live /\ leaked' = leaked
        /\ records' = records
    BY <1>4, StepMoves DEF Step, Mutation, Applied, histories
  <2>2. \/ op'[q].phase = "persist"
        \/ /\ op'[q].phase = "prune"
           /\ op'[q].left = DocsOf(op[q].old) \ DocsOf(op[q].target)
        \/ op'[q].phase = "wait" /\ op[q].kind = "install"
    <3>1. CASE op[q].kind = "rollback"
      BY <1>4, <3>1 DEF Applied, TypeOK, Op
    <3>2. CASE op[q].kind # "rollback"
      BY <1>4, <3>2, GoMoves DEF Applied, Phases, Working, Uninstalling
    <3> QED
      BY <3>1, <3>2
  <2>3. op'[q].old = op[q].old /\ op'[q].target = op[q].target
    BY <2>1, <2>2 DEF Moves, Idle
  <2>4. op[q].kind = "install" => DocsOf(op[q].old) = {}
    BY <1>0, <2>1 DEF LoopInv, DocsOf, Nothing
  <2>5. Unpruned(q) \subseteq Unpruned(q)'
    BY <2>1, <2>2, <2>3, <2>4 DEF Unpruned
  <2> QED
    BY <2>1, <2>5, <1>a, MildIfSame
<1>5. ASSUME NEW q \in Requests, Persist(q) PROVE CoveredInv'
  <2>1. /\ Moves(q) /\ op[q].phase = "persist" /\ live' = live /\ leaked' = leaked
        /\ op'[q].phase = "prune" /\ op'[q].left = DocsOf(op[q].old) \ DocsOf(op[q].target)
    BY <1>5, GoMoves DEF Persist, histories, Phases, Working, Uninstalling
  <2>2. Mild(q)
    BY <1>5, <2>1, MildIfSame, MildIfPatched DEF Persist, Working
  <2>3. Unpruned(q)' = Unpruned(q)
    BY <2>1 DEF Unpruned
  <2> QED
    BY <2>1, <2>2, <2>3, <1>a
<1>6. ASSUME NEW q \in Requests, PruneDoc(q) PROVE CoveredInv'
  <2>1. /\ Moves(q) /\ op[q].phase = "prune" /\ op[q].phase \in Working /\ records' = records
    BY <1>6, StepMoves DEF Step, Mutation, PruneDoc, Working
  <2>2. Mild(q)
    BY <2>1, MildIfSame
  <2>3. PICK d \in Docs :
          LET pruned == [live EXCEPT ![d] = Absent] IN
          /\ \/ NoFault /\ live' = pruned /\ Did(q, d)
             \/ Fault /\ live' \in {live, pruned} /\ Go(q, "failing", {})
          /\ leaked' = leaked \ {x \in {d} : live'[d] = Absent}
    BY <1>6 DEF PruneDoc
  <2>4. ASSUME NEW e \in DocsOf(live') \ leaked'
        PROVE  e \in DocsOf(live) \ leaked
    <3>1. live'[e] = live[e] /\ e \notin leaked
      BY <2>3, <2>4 DEF DocsOf, TypeOK, Manifest
    <3> QED
      BY <2>4, <3>1 DEF DocsOf
  <2>5. ASSUME NEW e \in DocsOf(live') \ leaked', e \in Unpruned(q)
        PROVE  e \in Unpruned(q)'
    <3>1. CASE live' = [live EXCEPT ![d] = Absent] /\ Did(q, d)
      <4>1. op'[q].phase = "prune" /\ op'[q].left = op[q].left \ {d}
        BY <1>6, <2>1, <3>1, DidMoves DEF PruneDoc
      <4>2. e # d
        BY <2>5, <3>1 DEF DocsOf, TypeOK, Manifest
      <4> QED
        BY <2>1, <2>5, <4>1, <4>2 DEF Unpruned
    <3>2. CASE Go(q, "failing", {})
      <4>1. op'[q].phase = "failing"
        BY <1>6, <2>1, <3>2, GoMoves DEF PruneDoc, Phases, Uninstalling
      <4> QED
        BY <2>1, <2>2, <2>5, <4>1, <1>b
    <3> QED
      BY <2>3, <3>1, <3>2
  <2> QED
    BY <2>1, <2>2, <2>4, <2>5, CoveredKept
<1>7. ASSUME NEW q \in Requests, Pruned(q) PROVE CoveredInv'
  <2>1. /\ Moves(q) /\ op[q].phase = "prune" /\ op[q].left = {} /\ live' = live
        /\ leaked' = leaked /\ records' = records
    BY <1>7, StepMoves DEF Step, Mutation, Pruned, histories
  <2>2. Unpruned(q) = {}
    BY <2>1 DEF Unpruned
  <2> QED
    BY <2>1, <2>2, <1>a, MildIfSame
<1>8. ASSUME NEW q \in Requests, Finalize(q) PROVE CoveredInv'
  <2>1. /\ Moves(q) /\ op[q].phase = "finalize" /\ live' = live /\ leaked' = leaked
    BY <1>8, StepMoves DEF Step, Mutation, Finalize
  <2>2. Unpruned(q) = {}
    BY <2>1 DEF Unpruned
  <2>3. Mild(q)
    BY <1>8, <2>1, MildIfSame, MildIfPatched DEF Finalize, Working
  <2> QED
    BY <2>1, <2>2, <2>3, <1>a
<1>9. ASSUME NEW q \in Requests, Fail(q) PROVE CoveredInv'
  <2>1. /\ Moves(q) /\ op[q].phase = "failing" /\ live' = live
        /\ leaked' = leaked \cup Dropped(q)
    BY <1>9, StepMoves DEF Step, Mutation, Fail
  <2>2. Mild(q)
    BY <1>9, <2>1, MildIfSame, MildIfPatched DEF Fail
  <2>3. Unpruned(q) \subseteq DocsOf(op[q].old) \ DocsOf(op[q].target)
    BY <2>1 DEF Unpruned
  <2>4. ASSUME NEW d \in DocsOf(live') \ leaked'
        PROVE  d \in DocsOf(live) \ leaked /\ d \notin Unpruned(q)
    BY <2>1, <2>3, <2>4 DEF Dropped, DocsOf
  <2> QED
    BY <2>1, <2>2, <2>4, CoveredKept
<1>10. ASSUME NEW q \in Requests, Supersede(q) PROVE CoveredInv'
  <2>1. /\ Moves(q) /\ op[q].phase = "supersede" /\ live' = live /\ leaked' = leaked
    BY <1>10, StepMoves DEF Step, Mutation, Supersede, histories
  <2>2. Unpruned(q) = {}
    BY <2>1 DEF Unpruned
  <2> QED
    BY <1>10, <2>1, <2>2, <1>a, SupersedeIsMild
<1>11. ASSUME NEW q \in Requests, PreDelete(q) \/ PostDelete(q) \/ ListRecords(q) \/ Forgotten(q)
       PROVE  CoveredInv'
  <2>1. /\ Moves(q) /\ live' = live /\ leaked' = leaked /\ records' = records
        /\ op[q].phase \in Uninstalling
    BY <1>11, StepMoves DEF Step, Uninstall, PreDelete, PostDelete, ListRecords, Forgotten,
                            histories, Uninstalling
  <2>2. Unpruned(q) = {}
    BY <2>1 DEF Unpruned, Uninstalling
  <2> QED
    BY <2>1, <2>2, <1>a, MildIfSame
<1>12. ASSUME NEW q \in Requests, DeleteDoc(q) PROVE CoveredInv'
  <2>1. Moves(q) /\ op[q].phase = "delete" /\ records' = records
    BY <1>12, StepMoves DEF Step, Uninstall, DeleteDoc
  <2>2. Unpruned(q) = {}
    BY <2>1 DEF Unpruned
  <2>3. PICK d \in Docs : /\ live' \in {live, [live EXCEPT ![d] = Absent]}
                         /\ leaked' = leaked \ {x \in {d} : live'[d] = Absent}
    BY <1>12 DEF DeleteDoc
  <2>4. ASSUME NEW e \in DocsOf(live') \ leaked' PROVE e \in DocsOf(live) \ leaked
    <3>1. live'[e] = live[e] /\ e \notin leaked
      BY <2>3, <2>4 DEF DocsOf, TypeOK, Manifest
    <3> QED
      BY <2>4, <3>1 DEF DocsOf
  <2> QED
    BY <2>1, <2>2, <2>4, CoveredKept, MildIfSame
<1>13. ASSUME NEW q \in Requests, ForgetRecord(q) PROVE CoveredInv'
  <2>1. /\ op[q].phase = "forget" /\ live' = live /\ leaked' = leaked
        /\ DocsOf(live) \subseteq leaked
    BY <1>0, <1>13 DEF ForgetRecord, LoopInv
  <2> QED
    BY <2>1 DEF CoveredInv
<1>14. ASSUME NEW q \in Requests, NEW p \in Processes, Begin(q, p) \/ BeginUninstall(q, p)
       PROVE  CoveredInv'
  <2>1. /\ \A r \in Requests \ {q} : op'[r] = op[r]
        /\ UNCHANGED <<live, leaked, records>> /\ op[q].phase = "idle"
    <3>1. CASE Begin(q, p)
      BY <3>1 DEF Begin, Idle, TypeOK
    <3>2. CASE BeginUninstall(q, p)
      BY <3>2 DEF BeginUninstall, Idle, TypeOK
    <3> QED
      BY <1>14, <3>1, <3>2
  <2>2. Unpruned(q) = {} /\ \A x \in Requests \ {q} : Unpruned(x)' = Unpruned(x)
    BY <2>1 DEF Unpruned
  <2> QED
    BY <2>1, <2>2 DEF CoveredInv, Latest, Revs
<1>15. ASSUME NEW p \in Processes, Crash(p) PROVE CoveredInv'
  <2>1. /\ live' = live /\ leaked \subseteq leaked' /\ records' = records
    BY <1>15 DEF Crash
  <2>2. ASSUME NEW d \in DocsOf(live') \ leaked', NEW x \in Requests, d \in Unpruned(x)
        PROVE  d \in Unpruned(x)'
    <3>1. op[x].phase \in Working \cup {"failing"}
      BY <2>2 DEF Unpruned, Working
    <3>2. d \in DocsOf(op[x].old) \ DocsOf(op[x].target)
      BY <1>0, <2>2 DEF Unpruned, LoopInv
    <3>3. d \in Dropped(x)
      BY <2>1, <2>2, <3>2 DEF Dropped, DocsOf
    <3>4. op[x].home # p
      BY <1>15, <2>2, <3>1, <3>3 DEF Crash
    <3>5. op'[x] = op[x]
      BY <1>15, <3>4 DEF Crash
    <3> QED
      BY <2>1, <2>2, <3>5 DEF Unpruned
  <2> QED
    BY <2>1, <2>2 DEF CoveredInv, Latest, Revs
<1>16. ASSUME UNCHANGED vars PROVE CoveredInv'
  BY <1>16 DEF vars, histories, CoveredInv, Unpruned, Latest, Revs
<1> QED
  BY <1>1, <1>2, <1>3, <1>4, <1>5, <1>6, <1>7, <1>8, <1>9, <1>10, <1>11, <1>12, <1>13,
     <1>14, <1>15, <1>16 DEF Next, Mutation, Uninstall

\* The cluster changes, and a record comes, only while the latest revision is pending.
LEMMA LiveStep ==
  ASSUME TypeOK, AloneInv, RecordsInv, LiveInv, \A q \in Requests : LoopInv(q), [Next]_vars
  PROVE  LiveInv'
<1>0. \A q \in Requests : ReadInv(q) /\ OwnInv(q) /\ LoopInv(q)
  BY DEF RecordsInv
<1>a. ASSUME UNCHANGED <<live, records>>, torn \in {FALSE, torn'} PROVE LiveInv'
  BY <1>a DEF LiveInv, Latest, Revs
\* At work on a revision that stays pending, or fails.
<1>b. ASSUME NEW q \in Requests, op[q].phase \in Working \cup {"failing"}, torn' = torn,
             \/ records' = records
             \/ \E s \in {"pending", "failed"} :
                   records' = Patched(op[q].rev, s, op[q].payload),
             live' # live => op[q].phase \in Working /\ records' = records
      PROVE  LiveInv'
  <2>1. op[q].rev \in Revs /\ op[q].rev \in Revisions
    BY <1>0, <1>b DEF OwnInv, Created, Revs
  <2>2. CASE live' = live
    <3>1. CASE records' = records
      BY <1>a, <1>b, <2>2, <3>1
    <3>2. CASE \E s \in {"pending", "failed"} : records' = Patched(op[q].rev, s, op[q].payload)
      <4>1. /\ \A r \in Revs' : r # op[q].rev => records'[r] = records[r]
            /\ Revs' = Revs /\ records'[op[q].rev].status # "deployed"
        BY <2>1, <3>2 DEF Patched, TypeOK, Revs
      <4> QED
        BY <1>b, <2>2, <4>1 DEF LiveInv, Latest
    <3> QED
      BY <1>b, <3>1, <3>2
  <2>3. CASE live' # live
    <3>1. records' = records /\ records[op[q].rev].status = "pending"
      BY <1>0, <1>b, <2>3 DEF OwnInv
    <3>2. \A r \in Revs : Latest(r) => r = op[q].rev
      BY <2>1, <3>1 DEF RecordsInv, HistoryInv, Latest, Revs, Revisions
    <3> QED
      BY <3>1, <3>2 DEF LiveInv, Latest, Revs
  <2> QED
    BY <2>2, <2>3
<1>1. ASSUME NEW q \in Requests, CreateRecord(q) PROVE LiveInv'
  <2>1. Moves(q) /\ op[q].phase = "create" /\ live' = live /\ torn' = torn
    BY <1>1, StepMoves DEF Step, Mutation, CreateRecord
  <2>2. CASE records' = records
    BY <2>1, <2>2, <1>a
  <2>3. CASE records' # records
    <3>1. /\ op[q].rev \notin Revs
          /\ records' = [records EXCEPT ![op[q].rev] =
                          [status |-> "pending", manifest |-> op[q].payload]]
      BY <1>1, <2>3 DEF CreateRecord
    <3>2. \A x \in Requests \ {q} : op'[x] = op[x]
      BY <2>1 DEF Moves
    <3>3. PICK rev \in Revisions : rev = op[q].rev
      BY <1>0, <2>1 DEF ReadInv
    <3>4. Revs' = Revs \cup {rev} /\ \A s \in Revs : s < rev
      BY <2>1, <3>1, <3>2, <3>3, Creation
    <3>5. \A r \in Revs' : Latest(r)' => r = rev
      BY <3>3, <3>4 DEF Latest, Revs, Revisions
    <3>6. records'[rev].status = "pending"
      BY <3>1, <3>3 DEF TypeOK
    <3> QED
      BY <3>5, <3>6 DEF LiveInv
  <2> QED
    BY <2>2, <2>3
<1>2. ASSUME NEW q \in Requests,
             HooksOrWait(q) \/ ApplyDoc(q) \/ Applied(q) \/ PruneDoc(q) \/ Pruned(q)
      PROVE  LiveInv'
  <2>1. op[q].phase \in Working /\ records' = records /\ torn' = torn
    BY <1>2 DEF HooksOrWait, ApplyDoc, Applied, PruneDoc, Pruned, histories, Working
  <2> QED
    BY <2>1, <1>b
<1>3. ASSUME NEW q \in Requests, Persist(q) \/ Fail(q) PROVE LiveInv'
  <2>1. op[q].phase \in Working \cup {"failing"} /\ live' = live /\ torn' = torn
    BY <1>3 DEF Persist, Fail, histories, Working
  <2> QED
    BY <1>3, <2>1, <1>b DEF Persist, Fail
<1>4. ASSUME NEW q \in Requests, Finalize(q) PROVE LiveInv'
  <2>1. op[q].phase = "finalize" /\ live' = live
    BY <1>4 DEF Finalize
  <2>2. CASE records' = records
    <3>1. torn' = torn \/ records' = Patched(op[q].rev, "deployed", op[q].payload)
      BY <1>4 DEF Finalize
    <3>2. CASE torn' = torn
      BY <2>1, <2>2, <3>2, <1>a
    <3>3. CASE records' = Patched(op[q].rev, "deployed", op[q].payload)
      <4>1. /\ op[q].rev \in Revs /\ op[q].rev \in Revisions
            /\ records[op[q].rev].status = "pending"
        BY <1>0, <2>1 DEF OwnInv, Created, Working, Revs
      <4> QED
        BY <2>2, <3>3, <4>1 DEF Patched, TypeOK
    <3> QED
      BY <3>1, <3>2, <3>3
  <2>3. CASE records' = Patched(op[q].rev, "deployed", op[q].payload)
    <3>1. /\ op[q].rev \in Revs /\ op[q].rev \in Revisions
          /\ records[op[q].rev].status = "pending" /\ op[q].payload = op[q].target
      BY <1>0, <2>1 DEF OwnInv, Created, Working, Revs
    <3>2. Revs' = Revs /\ records'[op[q].rev].manifest = op[q].target
      BY <2>3, <3>1 DEF Patched, TypeOK, Revs
    <3>3. \A r \in Revs' : Latest(r)' => r = op[q].rev
      BY <3>1, <3>2 DEF RecordsInv, HistoryInv, Latest, Revs, Revisions
    <3>4. \A d \in DocsOf(op[q].target) : live[d] = op[q].target[d]
      BY <1>0, <2>1 DEF LoopInv
    <3> QED
      BY <2>1, <3>2, <3>3, <3>4 DEF LiveInv
  <2> QED
    BY <1>4, <2>2, <2>3 DEF Finalize
<1>5. ASSUME NEW q \in Requests, Supersede(q) PROVE LiveInv'
  <2>1. Mild(q) /\ \A r \in Revs : Latest(r) => records'[r] = records[r]
    BY <1>5, SupersedeIsMild
  <2>2. live' = live /\ torn' = torn
    BY <1>5 DEF Supersede, histories
  <2> QED
    BY <2>1, <2>2 DEF LiveInv, Mild, Latest
<1>6. ASSUME NEW q \in Requests, PreDelete(q) \/ PostDelete(q) \/ ListRecords(q) \/ Forgotten(q)
      PROVE  LiveInv'
  BY <1>6, <1>a DEF PreDelete, PostDelete, ListRecords, Forgotten, histories
<1>7. ASSUME NEW q \in Requests, DeleteDoc(q) PROVE LiveInv'
  BY <1>7 DEF DeleteDoc, LiveInv
<1>8. ASSUME NEW q \in Requests, ForgetRecord(q) PROVE LiveInv'
  BY <1>8 DEF ForgetRecord, LiveInv, Revs
<1>9. ASSUME NEW q \in Requests, NEW p \in Processes, Begin(q, p) \/ BeginUninstall(q, p)
      PROVE  LiveInv'
  BY <1>9, <1>a DEF Begin, BeginUninstall
<1>10. ASSUME NEW p \in Processes, Crash(p) PROVE LiveInv'
  BY <1>10, <1>a DEF Crash
<1>11. ASSUME UNCHANGED vars PROVE LiveInv'
  BY <1>11, <1>a DEF vars, histories
<1> QED
  BY <1>1, <1>2, <1>3, <1>4, <1>5, <1>6, <1>7, <1>8, <1>9, <1>10, <1>11
     DEF Next, Mutation, Uninstall
-----------------------------------------------------------------------------
(* What holds in every reachable state                                     *)

LEMMA InitIInv == Init => IInv
<1> SUFFICES ASSUME Init PROVE IInv
  OBVIOUS
<1>1. TypeOK
  BY TypeInit
<1>2. Revs = {} /\ \A q \in Requests : op[q].phase = "idle"
  BY DEF Init, Revs, NoRecord, Idle
<1>3. \A q \in Requests : ReadInv(q) /\ OwnInv(q) /\ LoopInv(q)
  BY <1>2, IdleKeeps
<1>a. RevInv
  BY <1>2 DEF RevInv, Created, Working
<1>4. AloneInv /\ RecordsInv
  BY <1>2, <1>3 DEF AloneInv, RecordsInv, HistoryInv, Uninstalling, Created, Working
<1>5. DocsOf(live) = {} /\ ~anchored
  BY DEF Init, Nothing, DocsOf
<1>6. AnchorInv /\ HeldInv /\ CoveredInv /\ LiveInv
  BY <1>2, <1>5 DEF AnchorInv, HeldInv, CoveredInv, LiveInv
<1> QED
  BY <1>1, <1>a, <1>3, <1>4, <1>6 DEF IInv, CalmInv

LEMMA IInvStep == IInv /\ [Next]_vars => IInv'
<1> SUFFICES ASSUME IInv, [Next]_vars PROVE IInv'
  OBVIOUS
<1> USE DEF IInv
<1>1. TypeOK'
  BY TypeStep
<1>2. RevInv'
  BY RevStep
<1>3. HeldInv'
  BY HeldStep
<1>4. ASSUME ~crossed' PROVE CalmInv'
  <2> USE DEF CalmInv
  <2>0. CalmInv
    BY <1>4, CalmBefore
  <2>1. AloneInv'
    BY <1>4, <2>0, AloneStep
  <2>2. RecordsInv'
    BY <2>0, RecordsStep
  <2>3. AnchorInv'
    BY <2>0, AnchorStep
  <2>4. CoveredInv'
    BY <2>0, CoveredStep
  <2>5. LiveInv'
    BY <2>0, LiveStep
  <2>6. \A q \in Requests : LoopInv(q)'
    BY <2>0, LoopStep
  <2> QED
    BY <2>1, <2>2, <2>3, <2>4, <2>5, <2>6
<1> QED
  BY <1>1, <1>2, <1>3, <1>4

LEMMA Always == Spec => []IInv
  BY InitIInv, IInvStep, PTL DEF Spec

\* The records, the cluster, the requests and the entries of activeByRelease keep
\* their types, whatever fails and whoever crashes.
THEOREM TypeCorrect == Spec => []TypeOK
<1>1. IInv => TypeOK
  BY DEF IInv
<1> QED
  BY <1>1, Always, PTL

\* createReleaseRecord() is a lock: one operation of all processes is at work on the
\* release, unless an uninstall, which does not look at the lock, has met a request of
\* another process; and, whatever it met, a record stays pending only while the
\* operation of its revision is at work, or when it was stranded.
THEOREM Locked == Spec => []PendingIsLock
<1>1. IInv => PendingIsLock
  <2> SUFFICES ASSUME IInv PROVE PendingIsLock
    OBVIOUS
  <2>1. ASSUME NEW q1 \in Requests, NEW q2 \in Requests,
               {op[q1].phase, op[q2].phase} \subseteq Working
        PROVE  q1 = q2 \/ crossed
    BY <2>1, OneAtWork DEF IInv, CalmInv
  <2> QED
    BY <2>1 DEF IInv, HeldInv, PendingIsLock
<1> QED
  BY <1>1, Always, PTL

\* The order of the final updates: once an operation has succeeded, some revision is
\* deployed until an uninstall deletes the records, whichever updates fail, and
\* whichever operations of other processes but an uninstall come between.
THEOREM Anchored == Spec => []DeployedAnchor
<1>1. IInv => DeployedAnchor
  BY DEF IInv, CalmInv, AnchorInv, Solid, DeployedAnchor
<1> QED
  BY <1>1, Always, PTL

\* A deployed latest revision says what is in the cluster, but for what failed
\* revisions left there, and after an uninstall only that is left, as long as no
\* uninstall has met a request of another process.
THEOREM LiveCorrect == Spec => []ManifestIsLive
<1>1. IInv => ManifestIsLive
  <2> SUFFICES ASSUME IInv, ~torn, ~crossed PROVE ManifestIsLive
    BY DEF ManifestIsLive
  <2>1. \A q \in Requests : Unpruned(q) # {} =>
          op[q].rev \in Revs /\ records[op[q].rev].status = "pending"
    BY DEF IInv, CalmInv, RecordsInv, OwnInv, Unpruned, Created, Working
  <2>2. ASSUME NEW r \in Revs, Latest(r), records[r].status = "deployed", NEW d \in Docs,
               live[d] # records[r].manifest[d]
        PROVE  records[r].manifest[d] = Absent /\ d \in leaked
    <3>1. d \notin DocsOf(records[r].manifest)
      BY <2>2 DEF IInv, CalmInv, LiveInv
    <3>2. records[r].manifest[d] = Absent /\ d \in DocsOf(live)
      BY <2>2, <3>1 DEF DocsOf
    <3>3. \A s \in Revs : Latest(s) => s = r
      BY <2>2 DEF Latest, Revs, Revisions
    <3>4. \A q \in Requests : Unpruned(q) = {}
      <4>1. \A s \in Revs : records[s].status = "pending" => s = r
        BY <3>3 DEF IInv, CalmInv, RecordsInv, HistoryInv
      <4> QED
        BY <2>1, <2>2, <4>1
    <3> QED
      BY <3>1, <3>2, <3>3, <3>4 DEF IInv, CalmInv, CoveredInv
  <2>3. ASSUME Revs = {}, NEW d \in Docs, live[d] # Absent PROVE d \in leaked
    <3>1. d \in DocsOf(live) /\ \A q \in Requests : Unpruned(q) = {}
      BY <2>1, <2>3 DEF DocsOf
    <3> QED
      BY <2>3, <3>1 DEF IInv, CalmInv, CoveredInv
  <2> QED
    BY <2>2, <2>3 DEF ManifestIsLive
<1> QED
  BY <1>1, Always, PTL
=============================================================================
