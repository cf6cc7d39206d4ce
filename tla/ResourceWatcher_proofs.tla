------------------------ MODULE ResourceWatcher_proofs ------------------------
(***************************************************************************)
(* Proofs about ResourceWatcher, for any number of objects, subscribers,   *)
(* writes and faults, where continue tokens do not expire and an ERROR     *)
(* line does not share a chunk with events.  The two runs that drop these  *)
(* assumptions show that they are needed.                                  *)
(***************************************************************************)
EXTENDS ResourceWatcher, WellFoundedInduction, TLAPS

(***************************************************************************)
(* Lemmas about the history and the operators on caches                    *)
(***************************************************************************)
\* A store holds one version of an object.
LEMMA StoreAtUnique ==
  ASSUME ServerTypeOK, NEW r \in 0..Len(log), NEW i \in StoreAt(r),
         NEW j \in StoreAt(r), SameUid(i, j)
  PROVE  i = j
BY DEF StoreAt, SameUid

\* A store consists of versions that have been written.
LEMMA StoreAtVersions ==
  ASSUME ServerTypeOK, NEW r \in 0..Len(log)
  PROVE  StoreAt(r) \subseteq Versions
BY DEF StoreAt, ServerTypeOK, Versions

LEMMA EntryType ==
  ASSUME ServerTypeOK, NEW i \in Versions
  PROVE  /\ log[i] \in Entry
         /\ log[i].type \in {"SET", "DELETED", "OTHER"}
         /\ Own(i) <=> log[i].uid \in Uids
         /\ ~Own(i) <=> log[i].uid = Other
BY UidAssumption DEF ServerTypeOK, Versions, Entry, Own

\* Writes to other types do not change the store.
LEMMA StoreAtBookmark ==
  ASSUME ServerTypeOK, NEW r \in 0..Len(log), NEW b \in Versions, r <= b,
         \A j \in (r + 1)..b : ~Own(j)
  PROVE  StoreAt(b) = StoreAt(r)
<1> SUFFICES ASSUME NEW i \in 1..b
             PROVE  i \in StoreAt(b) <=> i \in StoreAt(r)
  BY DEF StoreAt, ServerTypeOK, Versions
<1>1. \A j \in (r + 1)..b : j \in Versions /\ log[j].type = "OTHER" /\ log[j].uid = Other
  BY EntryType DEF Own, Versions, ServerTypeOK
<1>2. i \in Versions
  BY DEF Versions, ServerTypeOK
<1>3. CASE i \in (r + 1)..b
  BY <1>1, <1>3 DEF StoreAt
<1>4. CASE i \in 1..r
  <2>1. CASE log[i].type = "SET"
    <3>1. log[i].uid # Other
      BY <1>2, <2>1, EntryType DEF Own
    <3>2. \A j \in (r + 1)..b : log[j].uid # log[i].uid
      BY <1>1, <3>1
    <3> QED
      BY <1>4, <2>1, <3>2 DEF StoreAt, ServerTypeOK, Versions
  <2>2. CASE log[i].type # "SET"
    BY <2>2 DEF StoreAt
  <2> QED
    BY <2>1, <2>2
<1> QED
  BY <1>3, <1>4 DEF ServerTypeOK, Versions

\* One own write after r changes the store as Apply changes a cache.
LEMMA StoreAtApply ==
  ASSUME ServerTypeOK, NEW r \in 0..Len(log), NEW i \in Versions, r < i, Own(i),
         \A j \in (r + 1)..(i - 1) : ~Own(j)
  PROVE  StoreAt(i) = Apply(StoreAt(r), i)
<1>1. StoreAt(i) = Apply(StoreAt(i - 1), i)
  <2> SUFFICES ASSUME NEW k \in 1..i
               PROVE  k \in StoreAt(i) <=> k \in Apply(StoreAt(i - 1), i)
    BY SMTT(30) DEF StoreAt, Apply, Versions, ServerTypeOK
  <2>1. CASE k = i
    BY <2>1 DEF StoreAt, Apply, SameUid, Versions, ServerTypeOK
  <2>2. CASE k \in 1..(i - 1)
    BY <2>2 DEF StoreAt, Apply, SameUid, Versions, ServerTypeOK
  <2> QED
    BY <2>1, <2>2 DEF Versions, ServerTypeOK
<1>2. CASE r = i - 1
  BY <1>1, <1>2
<1>3. CASE r # i - 1
  <2>1. i - 1 \in Versions /\ r <= i - 1
    BY <1>3 DEF Versions, ServerTypeOK
  <2>2. StoreAt(i - 1) = StoreAt(r)
    BY <2>1, StoreAtBookmark DEF ServerTypeOK
  <2> QED
    BY <1>1, <2>2
<1> QED
  BY <1>2, <1>3

\* The pages of one list put together make the store they were taken from.
LEMMA PutsPage ==
  ASSUME ServerTypeOK, NEW r \in 0..Len(log), NEW c, NEW p,
         c \subseteq StoreAt(r), p \subseteq StoreAt(r)
  PROVE  Puts(c, p) = c \cup p
BY StoreAtUnique DEF Puts

\* The synthetic deltas turn the old cache into the fresh one.
LEMMA DiffIsComplete ==
  ASSUME ServerTypeOK, NEW r \in 0..Len(log), NEW q \in 0..Len(log)
  PROVE  ApplyDiff(StoreAt(r), StoreAt(r), StoreAt(q)) = StoreAt(q)
<1> DEFINE old == StoreAt(r)
           fresh == StoreAt(q)
           changed == fresh \ old
           lost == {i \in old : \A j \in fresh : ~SameUid(i, j)}
<1>1. \A i \in old : i \in fresh => \A j \in changed \cup lost : ~SameUid(i, j)
  BY StoreAtUnique DEF SameUid
<1>2. \A i \in old : i \notin fresh => \E j \in changed \cup lost : SameUid(i, j)
  BY StoreAtUnique DEF SameUid
<1> QED
  BY <1>1, <1>2 DEF ApplyDiff

\* Emitting a chunk at its end equals applying its events one by one.
LEMMA BatchStep ==
  ASSUME NEW v, NEW D \in SUBSET Nat, NEW i \in Nat, \A j \in D : j < i
  PROVE  ApplyBatch(v, D \cup {i}) = Apply(ApplyBatch(v, D), i)
<1> DEFINE B == ApplyBatch(v, D)
<1>1. ASSUME NEW k
      PROVE  k \in ApplyBatch(v, D \cup {i}) <=> k \in Apply(B, i)
  <2>1. CASE k = i
    BY <2>1 DEF ApplyBatch, Apply, SameUid
  <2>2. CASE k # i /\ k \in D
    BY <2>2 DEF ApplyBatch, Apply, SameUid
  <2>3. CASE k # i /\ k \notin D
    BY <2>3 DEF ApplyBatch, Apply, SameUid
  <2> QED
    BY <2>1, <2>2, <2>3
<1> QED
  BY <1>1

LEMMA BatchEmpty == ASSUME NEW v PROVE ApplyBatch(v, {}) = v
BY DEF ApplyBatch

\* A write leaves every earlier version of the store as it was.
LEMMA StoreAtStable ==
  ASSUME ServerTypeOK, NEW e \in Entry, log' = Append(log, e)
  PROVE  /\ Len(log') = Len(log) + 1
         /\ \A i \in Versions : log'[i] = log[i]
         /\ \A r \in 0..Len(log) : StoreAt(r)' = StoreAt(r)
<1>1. Len(log') = Len(log) + 1 /\ \A i \in Versions : log'[i] = log[i]
  BY DEF ServerTypeOK, Versions
<1>2. ASSUME NEW r \in 0..Len(log)
      PROVE  StoreAt(r)' = StoreAt(r)
  <2>1. \A i \in 1..r : i \in Versions
    BY DEF Versions, ServerTypeOK
  <2>2. \A i \in 1..r : \A j \in (i + 1)..r : j \in Versions
    BY DEF Versions, ServerTypeOK
  <2> QED
    BY <1>1, <2>1, <2>2 DEF StoreAt
<1> QED
  BY <1>1, <1>2

(***************************************************************************)
(* Type correctness                                                        *)
(***************************************************************************)
LEMMA ServedType ==
  ASSUME ServerTypeOK, NEW l, l.snap \in 0..Len(log), l.todo \subseteq Versions,
         NEW snaps, snaps \subseteq Versions, NEW k \in Served(l, snaps)
  PROVE  /\ k = [snap |-> k.snap, todo |-> k.todo]
         /\ k.snap \in Versions
         /\ k.todo \subseteq Versions
<1>1. CASE l.snap = 0
  <2>1. PICK r \in snaps : k = [snap |-> r, todo |-> StoreAt(r)]
    BY <1>1 DEF Served
  <2>2. r \in 0..Len(log)
    BY DEF Versions, ServerTypeOK
  <2> QED
    BY <2>1, <2>2, StoreAtVersions
<1>2. CASE l.snap # 0
  BY <1>2 DEF Served, Versions
<1> QED
  BY <1>1, <1>2

LEMMA SnapsType ==
  ASSUME ServerTypeOK
  PROVE  InitialSnaps \subseteq Versions /\ RelistSnaps \subseteq Versions
BY DEF ServerTypeOK, InitialSnaps, RelistSnaps, Versions

LEMMA NewListType ==
  ASSUME ServerTypeOK, NEW pc \in {"off", "list", "backoff"}
  PROVE  NewList(pc) \in [pc : {"off", "list", "backoff"}, own : BOOLEAN,
                          snap : 0..Len(log), todo : SUBSET Versions]
BY DEF NewList, ServerTypeOK

LEMMA InitTypeOK == Init => TypeOK
<1> SUFFICES ASSUME Init PROVE TypeOK
  OBVIOUS
<1>1. ServerTypeOK
  BY DEF Init, ServerInit, ServerTypeOK, Entry
<1>2. Len(log) \in Nat
  BY DEF Init, ServerInit
<1>3. il \in [pc : {"off", "list", "backoff"}, own : BOOLEAN,
              snap : 0..Len(log), todo : SUBSET Versions]
  BY <1>1, NewListType DEF Init
<1>4. rl \in [snap : 0..Len(log), todo : SUBSET Versions, fresh : SUBSET Versions]
  BY <1>2 DEF Init, NoRelist
<1>5. /\ view \in [Subs -> SUBSET Versions]
      /\ sub \in [Subs -> {"out", "waiting", "in", "failed"}]
  BY DEF Init
<1>6. rv \in 0..Len(log) /\ pos \in 0..Len(log) /\ faults \in 0..MaxFaults
  BY <1>2, MaxFaultsAssumption DEF Init
<1> QED
  BY <1>1, <1>3, <1>4, <1>5, <1>6 DEF Init, TypeOK, LoopPcs

\* More versions on the server leave the watcher well typed.
LEMMA MoreVersionsType ==
  ASSUME TypeOK, ServerTypeOK', Len(log) <= Len(log'), UNCHANGED watcherVars
  PROVE  TypeOK'
<1>1. Versions \subseteq Versions' /\ 0..Len(log) \subseteq 0..Len(log')
  BY DEF TypeOK, ServerTypeOK, Versions
<1>2. il \in [pc : {"off", "list", "backoff"}, own : BOOLEAN,
              snap : 0..Len(log'), todo : SUBSET Versions']
  BY <1>1 DEF TypeOK
<1>3. rl \in [snap : 0..Len(log'), todo : SUBSET Versions', fresh : SUBSET Versions']
  BY <1>1 DEF TypeOK
<1>4. view \in [Subs -> SUBSET Versions']
  BY <1>1 DEF TypeOK
<1> QED
  BY <1>1, <1>2, <1>3, <1>4 DEF TypeOK, watcherVars, life, list, stream, subs

LEMMA ServerStepType ==
  ASSUME TypeOK, ServerStep
  PROVE  TypeOK'
<1>1. CASE Write
  <2>1. PICK e \in Entry : log' = Append(log, e)
    BY <1>1 DEF Write
  <2>2. log' \in Seq(Entry) /\ Len(log') = Len(log) + 1
    BY <2>1 DEF TypeOK, ServerTypeOK
  <2> QED
    BY <1>1, <2>2, MoreVersionsType DEF TypeOK, ServerStep, Write, ServerTypeOK
<1>2. CASE Compact
  <2>1. ServerTypeOK' /\ Len(log') = Len(log)
    BY <1>2 DEF Compact, TypeOK, ServerTypeOK, Versions
  <2> QED
    BY <2>1, MoreVersionsType DEF TypeOK, ServerStep, ServerTypeOK
<1> QED
  BY <1>1, <1>2 DEF ServerStep

LEMMA ListStepType ==
  ASSUME TypeOK, ListStep \/ ListFault
  PROVE  TypeOK'
<1> USE MaxFaultsAssumption DEF serverVars, life, list, stream, subs, others, Fault, LoopPcs
<1>0. ServerTypeOK /\ il.snap \in 0..Len(log) /\ il.todo \subseteq Versions
  BY DEF TypeOK
<1>a. \A k \in Served(il, InitialSnaps) :
        k.snap \in Versions /\ k.snap \in 0..Len(log) /\ k.todo \subseteq Versions
  BY <1>0, ServedType, SnapsType DEF Versions, ServerTypeOK
<1>b. UNCHANGED serverVars => ServerTypeOK' /\ Versions' = Versions
  BY <1>0 DEF ServerTypeOK, Versions
<1>c. \A pc \in {"off", "list", "backoff"} :
        NewList(pc) \in [pc : {"off", "list", "backoff"}, own : BOOLEAN,
                         snap : 0..Len(log), todo : SUBSET Versions]
  BY <1>0, NewListType
<1>1. CASE InitialPage
  <2>0. PICK l \in Served(il, InitialSnaps) : \E p \in Pages(l.todo) :
          /\ il' = [il EXCEPT !.snap = l.snap, !.todo = l.todo \ p]
          /\ cache' = IF il.own THEN Puts(cache, p) ELSE cache
    BY <1>1 DEF InitialPage
  <2>1. PICK p \in Pages(l.todo) :
          /\ il' = [il EXCEPT !.snap = l.snap, !.todo = l.todo \ p]
          /\ cache' = IF il.own THEN Puts(cache, p) ELSE cache
    BY <2>0
  <2>2. il' \in [pc : {"off", "list", "backoff"}, own : BOOLEAN,
                 snap : 0..Len(log), todo : SUBSET Versions]
    BY <2>1, <1>a DEF TypeOK
  <2>3. cache' \subseteq Versions
    BY <2>1, <1>a DEF TypeOK, Pages, Puts
  <2> QED
    BY <1>1, <1>b, <2>2, <2>3 DEF TypeOK, InitialPage
<1>2. CASE InitialListed
  BY <1>2, <1>a, <1>b, <1>c DEF TypeOK, InitialListed, Attach, Puts
<1>3. CASE InitialBackoffEnds
  BY <1>3, <1>b, <1>c DEF TypeOK, InitialBackoffEnds, RejectInitial, RejectWaiting
<1>4. CASE InitialExpires
  BY <1>4, <1>b, <1>c
  DEF TypeOK, InitialExpires, RejectInitial, RejectWaiting, NoRelist
<1>5. CASE InitialFailsStopped
  BY <1>5, <1>b, <1>c DEF TypeOK, InitialFailsStopped, RejectInitial, RejectWaiting
<1>6. CASE InitialRetries
  BY <1>6, <1>b, <1>c DEF TypeOK, InitialRetries
<1>7. CASE InitialFails
  BY <1>7, <1>b, <1>c DEF TypeOK, InitialFails, RejectInitial, RejectWaiting
<1>8. CASE InitialUnavailable
  <2>1. view' \in [Subs -> SUBSET Versions]
    BY <1>8 DEF TypeOK, InitialUnavailable, WithoutCached
  <2>2. sub' \in [Subs -> {"out", "waiting", "in", "failed"}]
    BY <1>8 DEF TypeOK, InitialUnavailable
  <2>3. rv' \in 0..Len(log)
    BY <1>0, <1>8 DEF InitialUnavailable, MarkUnavailable, ServerTypeOK
  <2>4. running' \in BOOLEAN /\ unavailable' \in BOOLEAN
    BY <1>8 DEF InitialUnavailable, MarkUnavailable
  <2> QED
    BY <1>8, <1>b, <1>c, <2>1, <2>2, <2>3, <2>4
    DEF TypeOK, InitialUnavailable, MarkUnavailable
<1> QED
  BY <1>1, <1>2, <1>3, <1>4, <1>5, <1>6, <1>7, <1>8 DEF ListStep, ListFault

LEMMA LoopStepType ==
  ASSUME TypeOK,
         \/ LoopStep \/ LoopFault \/ WatchGone \/ RelistGoneFails
         \/ Bookmark \/ WatchCloses
  PROVE  TypeOK'
<1> USE MaxFaultsAssumption DEF serverVars, life, list, stream, subs, others, Fault, LoopPcs
<1>0. ServerTypeOK /\ rl.snap \in 0..Len(log) /\ rl.todo \subseteq Versions
  BY DEF TypeOK
<1>a. \A k \in Served(rl, RelistSnaps) :
        k.snap \in Versions /\ k.snap \in 0..Len(log) /\ k.todo \subseteq Versions
  BY <1>0, ServedType, SnapsType DEF Versions, ServerTypeOK
<1>b. UNCHANGED serverVars => ServerTypeOK' /\ Versions' = Versions
  BY <1>0 DEF ServerTypeOK, Versions
<1>1. CASE LoopBackoffEnds
  <2>1. NewList("list")
          \in [pc : {"off", "list", "backoff"}, own : BOOLEAN,
               snap : 0..Len(log), todo : SUBSET Versions]
    BY <1>0, NewListType
  <2> QED
    BY <1>1, <1>b, <2>1 DEF TypeOK, LoopBackoffEnds, StartInitialList
<1>2. CASE WatchOpens
  BY <1>2, <1>b DEF TypeOK, WatchOpens
<1>3. CASE WatchEvent
  <2>1. PICK i \in Versions :
          rv' = i /\ pos' = i /\ cache' = Apply(cache, i) /\ deltas' = deltas \cup {i}
    BY <1>3 DEF WatchEvent
  <2>2. rv' \in 0..Len(log) /\ pos' \in 0..Len(log)
    BY <2>1 DEF Versions
  <2>3. cache' \subseteq Versions /\ deltas' \subseteq Versions
    BY <2>1 DEF TypeOK, Apply
  <2> QED
    BY <1>3, <1>b, <2>2, <2>3 DEF TypeOK, WatchEvent
<1>4. CASE ChunkEnds
  BY <1>4, <1>b DEF TypeOK, ChunkEnds, Emit, ApplyBatch
<1>5. CASE RelistPage
  BY <1>5, <1>a, <1>b DEF TypeOK, RelistPage, Pages, Puts
<1>6. CASE Relisted
  <2>1. PICK l \in Served(rl, RelistSnaps) :
          rv' = l.snap /\ pos' = l.snap /\ cache' = Puts(rl.fresh, l.todo)
    BY <1>6 DEF Relisted
  <2>2. cache' \subseteq Versions /\ rv' \in 0..Len(log) /\ pos' \in 0..Len(log)
    BY <2>1, <1>a DEF TypeOK, Puts
  <2>3. view' \in [Subs -> SUBSET Versions]
    BY <1>6, <2>2 DEF TypeOK, Relisted, Emit, ApplyDiff
  <2>4. il' \in [pc : {"off", "list", "backoff"}, own : BOOLEAN,
                 snap : 0..Len(log), todo : SUBSET Versions]
    BY <1>6 DEF TypeOK, Relisted
  <2>5. NoRelist \in [snap : 0..Len(log), todo : SUBSET Versions, fresh : SUBSET Versions]
    BY <1>0 DEF NoRelist, ServerTypeOK
  <2> QED
    BY <1>6, <1>b, <2>2, <2>3, <2>4, <2>5 DEF TypeOK, Relisted
<1>7. CASE RelistBackoffEnds
  BY <1>7, <1>b DEF TypeOK, RelistBackoffEnds, NoRelist
<1>8. CASE RelistExpires
  BY <1>8, <1>b DEF TypeOK, RelistExpires, StartRelist, NoRelist
<1>9. CASE WatchBreaks
  BY <1>9, <1>b DEF TypeOK, WatchBreaks, BackOff
<1>10. CASE WatchUnavailable
  <2>1. view' \in [Subs -> SUBSET Versions]
    BY <1>10 DEF TypeOK, WatchUnavailable, Emit, WithoutCached
  <2>2. rv' \in 0..Len(log)
    BY <1>0, <1>10 DEF WatchUnavailable, MarkUnavailable, ServerTypeOK
  <2>3. running' \in BOOLEAN /\ unavailable' \in BOOLEAN
    BY <1>10 DEF WatchUnavailable, MarkUnavailable
  <2> QED
    BY <1>10, <1>b, <2>1, <2>2, <2>3
    DEF TypeOK, WatchUnavailable, MarkUnavailable
<1>11. CASE RelistRetries
  BY <1>11, <1>b DEF TypeOK, RelistRetries
<1>12. CASE RelistFails
  BY <1>12, <1>b DEF TypeOK, RelistFails, BackOff
<1>13. CASE RelistUnavailable
  <2>1. view' \in [Subs -> SUBSET Versions]
    BY <1>13 DEF TypeOK, RelistUnavailable, Emit, WithoutCached
  <2>2. rv' \in 0..Len(log)
    BY <1>0, <1>13 DEF RelistUnavailable, MarkUnavailable, ServerTypeOK
  <2>3. running' \in BOOLEAN /\ unavailable' \in BOOLEAN
    BY <1>13 DEF RelistUnavailable, MarkUnavailable
  <2> QED
    BY <1>13, <1>b, <2>1, <2>2, <2>3
    DEF TypeOK, RelistUnavailable, MarkUnavailable
<1>14. CASE WatchGone
  BY <1>14, <1>b DEF TypeOK, WatchGone, StartRelist, NoRelist
<1>15. CASE RelistGoneFails
  BY <1>15, <1>b DEF TypeOK, RelistGoneFails
<1>16. CASE Bookmark
  BY <1>16, <1>b DEF TypeOK, Bookmark, Versions, ServerTypeOK
<1>17. CASE WatchCloses
  BY <1>17, <1>b DEF TypeOK, WatchCloses, StartRelist, NoRelist
<1> QED
  BY <1>1, <1>2, <1>3, <1>4, <1>5, <1>6, <1>7, <1>8, <1>9, <1>10, <1>11, <1>12,
     <1>13, <1>14, <1>15, <1>16, <1>17 DEF LoopStep, LoopFault

LEMMA OwnerStepType ==
  ASSUME TypeOK, SubStep \/ Stop
  PROVE  TypeOK'
<1> USE DEF serverVars, life, list, stream, subs, others, LoopPcs
<1>b. UNCHANGED serverVars => ServerTypeOK' /\ Versions' = Versions
  BY DEF TypeOK, ServerTypeOK, Versions
<1>1. ASSUME NEW s \in Subs, Subscribe(s)
      PROVE  TypeOK'
  <2>1. NewList("list")
          \in [pc : {"off", "list", "backoff"}, own : BOOLEAN,
               snap : 0..Len(log), todo : SUBSET Versions]
    BY NewListType DEF TypeOK
  <2>2. view' \in [Subs -> SUBSET Versions]
    BY <1>1 DEF TypeOK, Subscribe
  <2>3. sub' \in [Subs -> {"out", "waiting", "in", "failed"}]
    BY <1>1 DEF TypeOK, Subscribe
  <2>4. cache' \subseteq Versions /\ initialList' \in {"none", "pending", "done"}
    BY <1>1 DEF TypeOK, Subscribe, StartInitialList
  <2>5. il' \in [pc : {"off", "list", "backoff"}, own : BOOLEAN,
                 snap : 0..Len(log), todo : SUBSET Versions]
    BY <1>1, <2>1 DEF TypeOK, Subscribe, StartInitialList
  <2> QED
    BY <1>1, <1>b, <2>2, <2>3, <2>4, <2>5 DEF TypeOK, Subscribe
<1>2. ASSUME NEW s \in Subs, Unsubscribe(s)
      PROVE  TypeOK'
  BY <1>2, <1>b DEF TypeOK, Unsubscribe
<1>3. CASE Stop
  BY <1>3, <1>b DEF TypeOK, Stop
<1> QED
  BY <1>1, <1>2, <1>3 DEF SubStep

LEMMA StutterType ==
  ASSUME TypeOK, UNCHANGED vars
  PROVE  TypeOK'
BY DEF TypeOK, vars, watcherVars, serverVars, life, list, stream, subs,
       ServerTypeOK, Versions

\* Every variable of the watcher keeps its type: in particular the cache and
\* the views hold versions that the API server has written, and rv never runs
\* ahead of the server.
THEOREM TypeCorrect == Spec => []TypeOK
<1>1. TypeOK /\ [Next]_vars => TypeOK'
  BY ServerStepType, ListStepType, LoopStepType, OwnerStepType, StutterType DEF Next
<1> QED
  BY InitTypeOK, <1>1, PTL DEF Spec

(***************************************************************************)
(* The inductive invariant                                                 *)
(***************************************************************************)
\* IInv but for the types.
SInv == ListInv /\ CacheInv /\ RelistInv /\ ViewInv /\ UnavailableInv

\* What the operators mean in the next state of a step of the watcher.
LEMMA Frame ==
  ASSUME UNCHANGED serverVars
  PROVE  /\ StoreAt(rv)' = StoreAt(rv')
         /\ StoreAt(il.snap)' = StoreAt(il'.snap)
         /\ StoreAt(rl.snap)' = StoreAt(rl'.snap)
         /\ \A s \in Subs : ApplyBatch(view[s], deltas)' = ApplyBatch(view'[s], deltas')
BY DEF serverVars, StoreAt, ApplyBatch, SameUid

LEMMA InitInv == Init => IInv
<1> SUFFICES ASSUME Init PROVE SInv
  BY InitTypeOK DEF IInv, SInv
<1> QED
  BY DEF Init, SInv, ListInv, CacheInv, RelistInv, ViewInv, UnavailableInv, NewList,
         NoRelist, Idle, Relisting

\* A page of a list adds to the part of the snapshot received so far.
LEMMA PageKept ==
  ASSUME ServerTypeOK, NEW c, NEW l, NEW p, l.snap \in 0..Len(log),
         c \cup l.todo = StoreAt(l.snap), p \subseteq l.todo
  PROVE  /\ Puts(c, p) = c \cup p
         /\ Puts(c, p) \cup (l.todo \ p) = StoreAt(l.snap)
<1>1. Puts(c, p) = c \cup p
  BY PutsPage
<1> QED
  BY <1>1

\* The snapshot a list is served from, as its pages see it.
LEMMA ServedStore ==
  ASSUME TypeOK, NEW l, l.snap \in 0..Len(log), l.todo \subseteq Versions, NEW c,
         IF l.snap = 0 THEN c = {} /\ l.todo = {} ELSE c \cup l.todo = StoreAt(l.snap),
         NEW snaps, snaps \subseteq Versions, NEW k \in Served(l, snaps)
  PROVE  /\ c \cup k.todo = StoreAt(k.snap)
         /\ k.snap \in Versions
         /\ k.snap \in 0..Len(log)
         /\ k.snap # 0
         /\ l.snap # 0 => k.snap = l.snap
         /\ l.snap = 0 => k.snap \in snaps
<1>1. k.snap \in Versions
  BY ServedType DEF TypeOK
<1>2. k.snap \in 0..Len(log) /\ k.snap # 0
  BY <1>1 DEF Versions
<1>3. CASE l.snap = 0
  <2>1. PICK r \in snaps : k = [snap |-> r, todo |-> StoreAt(r)]
    BY <1>3 DEF Served
  <2> QED
    BY <1>1, <1>2, <1>3, <2>1
<1>4. CASE l.snap # 0
  <2>1. k = [snap |-> l.snap, todo |-> l.todo]
    BY <1>4 DEF Served
  <2> QED
    BY <1>1, <1>2, <1>4, <2>1
<1> QED
  BY <1>3, <1>4

\* While the initial list runs nobody is attached and nothing was watched yet.
LEMMA ListFacts ==
  ASSUME TypeOK, SInv, il.pc # "off"
  PROVE  /\ initialList = "pending" /\ rv = 0 /\ il.own /\ ~unavailable
         /\ loop \in {"awaitReady", "backoff", "exited"}
         /\ deltas = {}
         /\ \A s \in Subs : sub[s] # "in"
BY DEF SInv, ListInv, CacheInv, ViewInv, UnavailableInv, Idle

LEMMA InitialPageInv ==
  ASSUME TypeOK, SInv, InitialPage
  PROVE  SInv'
<1> USE DEF serverVars, stream, life, subs
<1>1. PICK l \in Served(il, InitialSnaps) : \E p \in Pages(l.todo) :
        /\ il' = [il EXCEPT !.snap = l.snap, !.todo = l.todo \ p]
        /\ cache' = IF il.own THEN Puts(cache, p) ELSE cache
  BY DEF InitialPage
<1>2. PICK p \in Pages(l.todo) :
        /\ il' = [il EXCEPT !.snap = l.snap, !.todo = l.todo \ p]
        /\ cache' = IF il.own THEN Puts(cache, p) ELSE cache
  BY <1>1
<1>3. /\ il.pc = "list"
      /\ UNCHANGED <<serverVars, stream, life, state, rv, initialList, loop, subs>>
  BY DEF InitialPage
<1>4. /\ initialList = "pending" /\ rv = 0 /\ il.own /\ ~unavailable
      /\ loop \in {"awaitReady", "backoff", "exited"}
      /\ deltas = {}
      /\ \A s \in Subs : sub[s] # "in"
  BY <1>3, ListFacts
<1>5. /\ il.snap \in 0..Len(log) /\ il.todo \subseteq Versions
      /\ IF il.snap = 0 THEN cache = {} /\ il.todo = {}
                        ELSE cache \cup il.todo = StoreAt(il.snap)
  BY <1>3 DEF TypeOK, SInv, ListInv
<1>6. /\ cache \cup l.todo = StoreAt(l.snap) /\ l.snap \in 0..Len(log) /\ l.snap # 0
  BY <1>1, <1>5, ServedStore, SnapsType DEF TypeOK
<1>7. cache' \cup (l.todo \ p) = StoreAt(l.snap)
  BY <1>2, <1>4, <1>6, PageKept DEF Pages, TypeOK
<1>8. il'.pc = "list" /\ il'.own /\ il'.snap = l.snap /\ il'.todo = l.todo \ p
  BY <1>2, <1>3, <1>4 DEF TypeOK
<1>9. ListInv'
  BY <1>3, <1>4, <1>6, <1>7, <1>8, Frame DEF ListInv
<1>10. CacheInv' /\ RelistInv'
  BY <1>3, <1>4, Frame DEF SInv, CacheInv, RelistInv, Relisting
<1>11. ViewInv' /\ UnavailableInv'
  BY <1>3, <1>4 DEF SInv, ViewInv, UnavailableInv
<1> QED
  BY <1>9, <1>10, <1>11 DEF SInv

LEMMA InitialListedInv ==
  ASSUME TypeOK, SInv, InitialListed
  PROVE  SInv'
<1> USE DEF serverVars, life
<1>1. PICK l \in Served(il, InitialSnaps) :
        /\ rv' = l.snap
        /\ cache' = IF il.own THEN Puts(cache, l.todo) ELSE cache
  BY DEF InitialListed
<1>3. /\ il.pc = "list" /\ initialList' = "done" /\ il' = NewList("off")
      /\ IF loop = "awaitReady" THEN loop' = "open" /\ pos' = rv'
                                ELSE UNCHANGED <<loop, pos>>
      /\ Attach(cache')
      /\ UNCHANGED <<serverVars, life, rl, deltas>>
  BY DEF InitialListed
<1>4. /\ initialList = "pending" /\ rv = 0 /\ il.own /\ ~unavailable
      /\ loop \in {"awaitReady", "backoff", "exited"}
      /\ deltas = {}
      /\ \A s \in Subs : sub[s] # "in"
  BY <1>3, ListFacts
<1>5. /\ il.snap \in 0..Len(log) /\ il.todo \subseteq Versions
      /\ IF il.snap = 0 THEN cache = {} /\ il.todo = {}
                        ELSE cache \cup il.todo = StoreAt(il.snap)
  BY <1>3 DEF TypeOK, SInv, ListInv
<1>6. cache \cup l.todo = StoreAt(l.snap) /\ l.snap \in 0..Len(log) /\ l.snap # 0
  BY <1>1, <1>5, ServedStore, SnapsType DEF TypeOK
<1>7. cache' = StoreAt(rv') /\ rv' # 0
  <2>1. cache' = Puts(cache, l.todo)
    BY <1>1, <1>4
  <2>2. cache \subseteq StoreAt(l.snap) /\ l.todo \subseteq StoreAt(l.snap)
    BY <1>6
  <2>3. Puts(cache, l.todo) = cache \cup l.todo
    BY <1>6, <2>2, PutsPage DEF TypeOK
  <2> QED
    BY <1>1, <1>6, <2>1, <2>3
<1>8. loop' \in {"open", "backoff", "exited"}
  BY <1>3, <1>4
<1>9. ListInv'
  BY <1>3, <1>8 DEF ListInv, NewList
<1>10. CacheInv' /\ RelistInv'
  BY <1>3, <1>4, <1>7, <1>8, Frame DEF SInv, CacheInv, RelistInv, Relisting
<1>11. ViewInv'
  BY <1>3, <1>4, Frame, BatchEmpty DEF ViewInv, Attach, TypeOK
<1>12. UnavailableInv'
  BY <1>3, <1>4, <1>7 DEF UnavailableInv
<1> QED
  BY <1>9, <1>10, <1>11, <1>12 DEF SInv

\* The initial list ends without a result.
LEMMA RejectInitialInv ==
  ASSUME TypeOK, SInv, il.pc # "off",
         NEW pc \in {"backoff", "exited"}, NEW st,
         RejectInitial(pc, st),
         UNCHANGED <<serverVars, stream, life, cache, rv>>
  PROVE  SInv'
<1> USE DEF serverVars, life, stream, RejectInitial, RejectWaiting
<1>1. /\ initialList = "pending" /\ rv = 0 /\ il.own /\ ~unavailable
      /\ loop \in {"awaitReady", "backoff", "exited"}
      /\ deltas = {}
      /\ \A s \in Subs : sub[s] # "in"
  BY ListFacts
<1>2. loop' \in {"backoff", "exited"}
  BY <1>1
<1>3. ListInv'
  BY <1>1, <1>2 DEF ListInv, NewList
<1>4. CacheInv' /\ RelistInv'
  BY <1>1, <1>2, Frame DEF SInv, CacheInv, RelistInv, Relisting
<1>5. ViewInv' /\ UnavailableInv'
  BY <1>1 DEF ViewInv, UnavailableInv, TypeOK
<1> QED
  BY <1>3, <1>4, <1>5 DEF SInv

\* The initial list is about to start over, with an empty cache.
LEMMA InitialAgainInv ==
  ASSUME TypeOK, SInv, il.pc # "off",
         NEW pc \in {"list", "backoff"}, il' = NewList(pc),
         pc = "list" => cache' = {},
         UNCHANGED <<serverVars, stream, life, rv, initialList, loop, subs>>
  PROVE  SInv'
<1> USE DEF serverVars, life, stream, subs
<1>1. /\ initialList = "pending" /\ rv = 0 /\ il.own /\ ~unavailable
      /\ loop \in {"awaitReady", "backoff", "exited"}
      /\ deltas = {}
      /\ \A s \in Subs : sub[s] # "in"
  BY ListFacts
<1>3. ListInv'
  BY <1>1 DEF ListInv, NewList
<1>4. CacheInv' /\ RelistInv'
  BY <1>1, Frame DEF SInv, CacheInv, RelistInv, Relisting
<1>5. ViewInv' /\ UnavailableInv'
  BY <1>1 DEF SInv, ViewInv, UnavailableInv
<1> QED
  BY <1>3, <1>4, <1>5 DEF SInv

LEMMA InitialUnavailableInv ==
  ASSUME TypeOK, SInv, InitialUnavailable
  PROVE  SInv'
<1> USE DEF serverVars, stream, MarkUnavailable
<1>1. /\ initialList = "pending" /\ rv = 0 /\ il.own /\ ~unavailable
      /\ loop \in {"awaitReady", "backoff", "exited"}
      /\ deltas = {}
      /\ \A s \in Subs : sub[s] # "in"
  BY ListFacts DEF InitialUnavailable
<1>2. loop' \in {"backoff", "exited"} /\ initialList' = "done" /\ rv' = 0 /\ cache' = {}
  BY <1>1 DEF InitialUnavailable
<1>3. ListInv'
  BY <1>2 DEF ListInv, NewList, InitialUnavailable
<1>4. CacheInv' /\ RelistInv'
  BY <1>1, <1>2, Frame DEF SInv, CacheInv, RelistInv, Relisting, InitialUnavailable
<1>5. \A s \in Subs : sub'[s] # "waiting" /\ (sub'[s] = "in" => view'[s] = {})
  BY <1>1 DEF TypeOK, InitialUnavailable
<1>6. ViewInv'
  BY <1>1, <1>2, <1>5, Frame, BatchEmpty DEF ViewInv, InitialUnavailable
<1>7. UnavailableInv'
  BY <1>2 DEF UnavailableInv, InitialUnavailable
<1> QED
  BY <1>3, <1>4, <1>6, <1>7 DEF SInv

LEMMA ListStepInv ==
  ASSUME TypeOK, SInv, ~TokensExpire, ListStep \/ ListFault
  PROVE  SInv'
<1>1. CASE InitialPage
  BY <1>1, InitialPageInv
<1>2. CASE InitialListed
  BY <1>2, InitialListedInv
<1>3. CASE InitialBackoffEnds
  <2>1. CASE running
    BY <1>3, <2>1, InitialAgainInv DEF InitialBackoffEnds, subs
  <2>2. CASE ~running
    BY <1>3, <2>2, RejectInitialInv DEF InitialBackoffEnds
  <2> QED
    BY <2>1, <2>2
<1>4. CASE InitialExpires
  BY <1>4 DEF InitialExpires, TokenExpired
<1>5. CASE InitialFailsStopped
  BY <1>5, RejectInitialInv DEF InitialFailsStopped
<1>6. CASE InitialRetries
  BY <1>6, InitialAgainInv DEF InitialRetries
<1>7. CASE InitialFails
  BY <1>7, RejectInitialInv DEF InitialFails
<1>8. CASE InitialUnavailable
  BY <1>8, InitialUnavailableInv
<1> QED
  BY <1>1, <1>2, <1>3, <1>4, <1>5, <1>6, <1>7, <1>8 DEF ListStep, ListFault

\* What holds while the loop watches or relists.
LEMMA LoopFacts ==
  ASSUME TypeOK, SInv, loop \notin {"awaitReady", "backoff", "exited"}
  PROVE  /\ rv # 0 /\ cache = StoreAt(rv)
         /\ initialList = "done" /\ il.pc = "off" /\ ~unavailable
         /\ \A s \in Subs : sub[s] # "waiting"
         /\ loop # "chunk" => /\ deltas = {}
                              /\ \A s \in Subs : sub[s] = "in" => view[s] = cache
BY BatchEmpty DEF SInv, ListInv, CacheInv, ViewInv, UnavailableInv, Idle

\* The loop moves on without touching what it and its subscribers hold.
LEMMA LoopMovesInv ==
  ASSUME TypeOK, SInv, loop # "chunk", loop # "awaitReady",
         UNCHANGED <<serverVars, list, subs, cache, rv, unavailable>>,
         deltas' = {},
         unavailable => UNCHANGED <<running, state>>,
         UNCHANGED pos, rl' \in {rl, NoRelist},
         \/ loop' \in {"backoff", "exited"}
         \/ /\ loop' \in {"stream", "relist", "relistGone", "relistBackoff"}
            /\ loop \notin {"awaitReady", "backoff", "exited"},
         loop' \in {"relist", "relistGone"} => rl' = NoRelist,
         loop' = "stream" => pos = rv
  PROVE  SInv'
<1> USE DEF serverVars, list, subs
<1>1. deltas = {}
  BY DEF SInv, CacheInv, Idle
<1>2. loop' # "chunk" /\ loop' # "awaitReady"
  OBVIOUS
<1>3. il.pc # "off" => loop' \in {"backoff", "exited"}
  BY LoopFacts
<1>4. ListInv'
  BY <1>2, <1>3, Frame DEF SInv, ListInv
<1>5. CacheInv'
  <2>1. loop' \notin {"awaitReady", "backoff", "exited"} => rv # 0
    BY LoopFacts
  <2> QED
    BY <1>1, <2>1, Frame DEF SInv, CacheInv
<1>6. RelistInv'
  <2>1. rl' = NoRelist => rl'.snap = 0
    BY DEF NoRelist
  <2> QED
    BY <1>2, <2>1, Frame DEF SInv, RelistInv, Relisting
<1>7. ViewInv'
  BY <1>1, Frame DEF SInv, ViewInv
<1>8. UnavailableInv'
  BY LoopFacts DEF SInv, UnavailableInv
<1> QED
  BY <1>4, <1>5, <1>6, <1>7, <1>8 DEF SInv

\* A 404 on a watch or a relist.
LEMMA LoopUnavailableInv ==
  ASSUME TypeOK, SInv, loop \in {"open", "relist"}, MarkUnavailable,
         Emit([s \in Subs |-> WithoutCached(view[s])]),
         loop' = "exited",
         UNCHANGED <<serverVars, stream, list, sub>>
  PROVE  SInv'
<1> USE DEF serverVars, stream, list, MarkUnavailable
<1>1. /\ rv # 0 /\ initialList = "done" /\ il.pc = "off" /\ deltas = {}
      /\ \A s \in Subs : sub[s] # "waiting" /\ (sub[s] = "in" => view[s] = cache)
  BY LoopFacts
<1>2. WithoutCached(cache) = {}
  BY DEF WithoutCached, SameUid
<1>3. \A s \in Subs : sub'[s] = "in" => view'[s] = {}
  BY <1>1, <1>2 DEF Emit
<1>4. ViewInv'
  BY <1>1, <1>3, Frame, BatchEmpty DEF ViewInv
<1>5. ListInv'
  BY <1>1 DEF ListInv
<1>6. CacheInv' /\ RelistInv' /\ UnavailableInv'
  BY <1>1, Frame DEF SInv, CacheInv, RelistInv, Relisting, UnavailableInv
<1> QED
  BY <1>4, <1>5, <1>6 DEF SInv

LEMMA LoopBackoffEndsInv ==
  ASSUME TypeOK, SInv, LoopBackoffEnds
  PROVE  SInv'
<1> USE DEF serverVars, life, list, subs
<1>1. /\ loop = "backoff" /\ deltas = {}
      /\ UNCHANGED <<serverVars, life, rv, rl, deltas, subs>>
  BY DEF LoopBackoffEnds, SInv, CacheInv, Idle
<1>2. CASE ~running /\ loop' = "exited" /\ UNCHANGED <<list, cache, state, pos>>
  BY <1>1, <1>2, LoopMovesInv
<1>3. CASE /\ running /\ rv = 0 /\ initialList = "none"
           /\ StartInitialList
           /\ loop' = "awaitReady"
           /\ UNCHANGED <<state, pos>>
  <2>1. \A s \in Subs : sub[s] \notin {"in", "waiting"}
    BY <1>3 DEF SInv, ViewInv
  <2>2. ListInv' /\ ViewInv'
    BY <1>1, <1>3, <2>1 DEF ListInv, ViewInv, StartInitialList, NewList
  <2>3. CacheInv' /\ RelistInv' /\ UnavailableInv'
    BY <1>1, <1>3, Frame DEF SInv, CacheInv, RelistInv, Relisting, UnavailableInv, StartInitialList
  <2> QED
    BY <2>2, <2>3 DEF SInv
<1>4. CASE /\ running /\ rv = 0 /\ initialList = "pending"
           /\ loop' = "awaitReady"
           /\ UNCHANGED <<list, cache, state, pos>>
  <2>1. ListInv' /\ ViewInv'
    BY <1>1, <1>4, Frame DEF SInv, ListInv, ViewInv
  <2>2. CacheInv' /\ RelistInv' /\ UnavailableInv'
    BY <1>1, <1>4, Frame DEF SInv, CacheInv, RelistInv, Relisting, UnavailableInv
  <2> QED
    BY <2>1, <2>2 DEF SInv
<1>5. CASE /\ running /\ rv # 0
           /\ loop' = "open" /\ pos' = rv
           /\ UNCHANGED <<list, cache>>
  <2>1. initialList = "done" /\ il.pc = "off"
    BY <1>5 DEF SInv, ListInv
  <2>2. ListInv' /\ ViewInv'
    BY <1>1, <1>5, <2>1, Frame DEF SInv, ListInv, ViewInv
  <2>3. CacheInv' /\ RelistInv' /\ UnavailableInv'
    BY <1>1, <1>5, Frame DEF SInv, CacheInv, RelistInv, Relisting, UnavailableInv
  <2> QED
    BY <2>2, <2>3 DEF SInv
<1> QED
  BY <1>2, <1>3, <1>4, <1>5 DEF LoopBackoffEnds

\* cache and rv take one event; the subscribers will be told by deltas.
LEMMA WatchEventInv ==
  ASSUME TypeOK, SInv, WatchEvent
  PROVE  SInv'
<1> USE DEF serverVars, life, list, subs, others
<1>1. PICK i \in Versions :
        /\ i > pos /\ Own(i)
        /\ \A j \in (pos + 1)..(i - 1) : ~Own(j)
        /\ rv' = i /\ pos' = i
        /\ cache' = Apply(cache, i)
        /\ deltas' = deltas \cup {i}
  BY DEF WatchEvent
<1>2. /\ loop \in {"stream", "chunk"} /\ loop' = "chunk"
      /\ UNCHANGED <<serverVars, life, list, subs, state, rl>>
  BY DEF WatchEvent
<1>3. /\ rv # 0 /\ cache = StoreAt(rv) /\ pos = rv
      /\ initialList = "done" /\ il.pc = "off" /\ ~unavailable
      /\ \A s \in Subs : sub[s] # "waiting"
      /\ \A j \in deltas : j <= rv
  BY <1>2, LoopFacts DEF SInv, CacheInv
<1>4. /\ rv \in 0..Len(log) /\ Len(log) \in Nat /\ deltas \subseteq Nat
      /\ ServerTypeOK /\ i \in Nat /\ i > rv
  BY <1>1, <1>3 DEF TypeOK, ServerTypeOK, Versions
<1>5. cache' = StoreAt(i)
  BY <1>1, <1>3, <1>4, StoreAtApply
<1>6. \A j \in deltas' : j <= i
  BY <1>1, <1>3, <1>4
<1>7. ASSUME NEW s \in Subs, sub[s] = "in"
      PROVE  ApplyBatch(view[s], deltas') = cache'
  <2>1. ApplyBatch(view[s], deltas) = cache
    BY <1>7 DEF SInv, ViewInv
  <2>2. \A j \in deltas : j < i
    BY <1>3, <1>4
  <2>4. deltas \in SUBSET Nat /\ i \in Nat
    BY <1>4
  <2>3. ApplyBatch(view[s], deltas \cup {i}) = Apply(ApplyBatch(view[s], deltas), i)
    BY ONLY <2>2, <2>4, BatchStep
  <2> QED
    BY <1>1, <2>1, <2>3
<1>8. ListInv' /\ UnavailableInv'
  BY <1>1, <1>2, <1>3, <1>4 DEF ListInv, UnavailableInv
<1>9. CacheInv'
  BY <1>1, <1>2, <1>4, <1>5, <1>6, Frame DEF CacheInv, Idle
<1>10. RelistInv'
  BY <1>2, Frame DEF SInv, RelistInv, Relisting
<1>11. ViewInv'
  BY <1>2, <1>3, <1>7, Frame DEF ViewInv
<1> QED
  BY <1>8, <1>9, <1>10, <1>11 DEF SInv

LEMMA BookmarkInv ==
  ASSUME TypeOK, SInv, Bookmark
  PROVE  SInv'
<1> USE DEF serverVars, life, list, subs, others
<1>1. PICK b \in Versions :
        /\ b > pos
        /\ \A j \in (pos + 1)..b : ~Own(j)
        /\ rv' = b /\ pos' = b
  BY DEF Bookmark
<1>2. /\ loop \in {"stream", "chunk"} /\ loop' = "chunk"
      /\ UNCHANGED <<serverVars, life, list, subs, state, rl, cache, deltas>>
  BY DEF Bookmark
<1>3. /\ rv # 0 /\ cache = StoreAt(rv) /\ pos = rv
      /\ initialList = "done" /\ il.pc = "off" /\ ~unavailable
      /\ \A s \in Subs : sub[s] # "waiting"
      /\ \A j \in deltas : j <= rv
  BY <1>2, LoopFacts DEF SInv, CacheInv
<1>4. /\ rv \in 0..Len(log) /\ Len(log) \in Nat /\ deltas \subseteq Nat
      /\ ServerTypeOK /\ b \in Nat /\ b > rv
  BY <1>1, <1>3 DEF TypeOK, ServerTypeOK, Versions
<1>5. cache' = StoreAt(b)
  BY <1>1, <1>2, <1>3, <1>4, StoreAtBookmark
<1>6. \A j \in deltas' : j <= b
  BY <1>2, <1>3, <1>4
<1>7. ListInv' /\ UnavailableInv'
  BY <1>1, <1>2, <1>3, <1>4 DEF ListInv, UnavailableInv
<1>8. CacheInv'
  BY <1>1, <1>2, <1>4, <1>5, <1>6, Frame DEF CacheInv, Idle
<1>9. RelistInv' /\ ViewInv'
  BY <1>2, Frame DEF SInv, RelistInv, Relisting, ViewInv
<1> QED
  BY <1>7, <1>8, <1>9 DEF SInv

LEMMA ChunkEndsInv ==
  ASSUME TypeOK, SInv, ChunkEnds
  PROVE  SInv'
<1> USE DEF serverVars, life, list
<1>1. /\ loop = "chunk" /\ loop' = "stream" /\ deltas' = {}
      /\ Emit([s \in Subs |-> ApplyBatch(view[s], deltas)])
      /\ UNCHANGED <<serverVars, pos, life, state, cache, rv, list, rl, sub>>
  BY DEF ChunkEnds
<1>2. /\ rv # 0 /\ cache = StoreAt(rv) /\ pos = rv
      /\ initialList = "done" /\ il.pc = "off" /\ ~unavailable
      /\ \A s \in Subs : sub[s] # "waiting"
  BY <1>1, LoopFacts DEF SInv, CacheInv
<1>3. \A s \in Subs : sub'[s] = "in" => view'[s] = cache'
  BY <1>1 DEF Emit, SInv, ViewInv
<1>4. ListInv' /\ UnavailableInv'
  BY <1>1, <1>2 DEF ListInv, UnavailableInv
<1>5. CacheInv' /\ RelistInv'
  BY <1>1, <1>2, Frame DEF SInv, CacheInv, RelistInv, Relisting
<1>6. ViewInv'
  BY <1>1, <1>2, <1>3, Frame, BatchEmpty DEF ViewInv
<1> QED
  BY <1>4, <1>5, <1>6 DEF SInv

\* The relist in progress, for RelistPage and Relisted.
LEMMA RelistServed ==
  ASSUME TypeOK, SInv, Relisting, NEW l \in Served(rl, RelistSnaps)
  PROVE  /\ rl.fresh \cup l.todo = StoreAt(l.snap)
         /\ l.snap \in 0..Len(log) /\ l.snap # 0
         /\ l.snap >= rv
<1>1. /\ rl.snap \in 0..Len(log) /\ rl.todo \subseteq Versions
      /\ IF rl.snap = 0 THEN rl.fresh = {} /\ rl.todo = {}
                        ELSE rl.fresh \cup rl.todo = StoreAt(rl.snap)
  BY DEF TypeOK, SInv, RelistInv, NoRelist
<1>2. /\ rl.fresh \cup l.todo = StoreAt(l.snap)
      /\ l.snap \in 0..Len(log) /\ l.snap # 0
      /\ rl.snap # 0 => l.snap = rl.snap
      /\ rl.snap = 0 => l.snap \in RelistSnaps
  BY <1>1, ServedStore, SnapsType DEF TypeOK
<1>3. l.snap >= rv
  BY <1>2 DEF RelistSnaps, TypeOK, SInv, RelistInv
<1> QED
  BY <1>2, <1>3

LEMMA RelistPageInv ==
  ASSUME TypeOK, SInv, RelistPage
  PROVE  SInv'
<1> USE DEF serverVars, life, list, subs, others
<1>1. PICK l \in Served(rl, RelistSnaps) : \E p \in Pages(l.todo) :
        rl' = [snap |-> l.snap, todo |-> l.todo \ p, fresh |-> Puts(rl.fresh, p)]
  BY DEF RelistPage
<1>2. PICK p \in Pages(l.todo) :
        rl' = [snap |-> l.snap, todo |-> l.todo \ p, fresh |-> Puts(rl.fresh, p)]
  BY <1>1
<1>3. /\ Relisting
      /\ UNCHANGED <<serverVars, life, list, subs, pos, state, cache, rv, loop, deltas>>
  BY DEF RelistPage
<1>4. /\ rl.fresh \cup l.todo = StoreAt(l.snap)
      /\ l.snap \in 0..Len(log) /\ l.snap # 0 /\ l.snap >= rv
  BY <1>3, RelistServed
<1>5. Puts(rl.fresh, p) \cup (l.todo \ p) = StoreAt(l.snap)
  BY <1>4, PageKept DEF Pages, TypeOK
<1>6. rl'.snap = l.snap /\ rl'.fresh \cup rl'.todo = StoreAt(rl'.snap)
  BY <1>2, <1>5
<1>7. RelistInv'
  BY <1>3, <1>4, <1>6, Frame DEF RelistInv
<1>8. ListInv' /\ CacheInv' /\ ViewInv' /\ UnavailableInv'
  BY <1>3, Frame DEF SInv, ListInv, CacheInv, ViewInv, UnavailableInv, Idle
<1> QED
  BY <1>7, <1>8 DEF SInv

LEMMA RelistedInv ==
  ASSUME TypeOK, SInv, Relisted
  PROVE  SInv'
<1> USE DEF serverVars, life
<1>1. PICK l \in Served(rl, RelistSnaps) :
        rv' = l.snap /\ pos' = l.snap /\ cache' = Puts(rl.fresh, l.todo)
  BY DEF Relisted
<1>2. /\ Relisting
      /\ Emit([s \in Subs |-> ApplyDiff(view[s], cache, cache')])
      /\ loop' \in {"open", "exited"} /\ rl' = NoRelist
      /\ il' = IF il.pc = "list" THEN [il EXCEPT !.own = FALSE] ELSE il
      /\ UNCHANGED <<serverVars, life, initialList, deltas, sub>>
  BY DEF Relisted
<1>3. /\ rv # 0 /\ cache = StoreAt(rv) /\ deltas = {}
      /\ initialList = "done" /\ il.pc = "off" /\ ~unavailable
      /\ \A s \in Subs : sub[s] # "waiting" /\ (sub[s] = "in" => view[s] = cache)
  BY <1>2, LoopFacts DEF Relisting
<1>4. /\ rl.fresh \cup l.todo = StoreAt(l.snap)
      /\ l.snap \in 0..Len(log) /\ l.snap # 0
  BY <1>2, RelistServed
<1>5. cache' = StoreAt(l.snap)
  <2>1. Puts(rl.fresh, l.todo) = rl.fresh \cup l.todo
    BY <1>4, PutsPage DEF TypeOK
  <2> QED
    BY <1>1, <1>4, <2>1
<1>6. \A s \in Subs : sub'[s] = "in" => view'[s] = cache'
  <2>1. ApplyDiff(cache, cache, cache') = cache'
    BY <1>3, <1>4, <1>5, DiffIsComplete DEF TypeOK
  <2> QED
    BY <1>2, <1>3, <2>1 DEF Emit
<1>7. il' = il
  BY <1>2, <1>3
<1>8. ListInv' /\ UnavailableInv'
  BY <1>1, <1>2, <1>3, <1>4, <1>7 DEF ListInv, UnavailableInv
<1>9. CacheInv' /\ RelistInv'
  BY <1>1, <1>2, <1>3, <1>4, <1>5, Frame DEF CacheInv, RelistInv, Relisting, NoRelist, Idle
<1>10. ViewInv'
  BY <1>2, <1>3, <1>6, Frame, BatchEmpty DEF ViewInv
<1> QED
  BY <1>8, <1>9, <1>10 DEF SInv

LEMMA LoopStepInv ==
  ASSUME TypeOK, SInv, ~TokensExpire, ~ErrorJoinsChunk,
         \/ LoopStep \/ LoopFault \/ WatchGone \/ RelistGoneFails
         \/ Bookmark \/ WatchCloses
  PROVE  SInv'
<1> USE DEF others, stream, StartRelist, BackOff, life
<1>0. loop \in {"open", "stream", "relist", "relistGone", "relistBackoff"} =>
        deltas = {} /\ ~unavailable /\ rv # 0
  BY LoopFacts
<1>1. CASE LoopBackoffEnds
  BY <1>1, LoopBackoffEndsInv
<1>2. CASE WatchOpens
  <2>1. pos = rv
    BY <1>2 DEF SInv, CacheInv, WatchOpens
  <2> QED
    BY <1>0, <1>2, <2>1, LoopMovesInv DEF WatchOpens
<1>3. CASE WatchEvent
  BY <1>3, WatchEventInv
<1>4. CASE ChunkEnds
  BY <1>4, ChunkEndsInv
<1>5. CASE RelistPage
  BY <1>5, RelistPageInv
<1>6. CASE Relisted
  BY <1>6, RelistedInv
<1>7. CASE RelistBackoffEnds
  <2>1. rl' = NoRelist /\ loop = "relistBackoff" /\ loop' \in {"relist", "exited"}
    BY <1>7 DEF RelistBackoffEnds
  <2>2. CASE loop' = "relist"
    BY <1>0, <1>7, <2>1, <2>2, LoopMovesInv DEF RelistBackoffEnds
  <2>3. CASE loop' = "exited"
    BY <1>0, <1>7, <2>1, <2>3, LoopMovesInv DEF RelistBackoffEnds
  <2> QED
    BY <2>1, <2>2, <2>3
<1>8. CASE RelistExpires
  BY <1>8 DEF RelistExpires, TokenExpired
<1>9. CASE WatchBreaks
  BY <1>0, <1>9, LoopMovesInv DEF WatchBreaks
<1>10. CASE WatchUnavailable
  BY <1>10, LoopUnavailableInv DEF WatchUnavailable
<1>11. CASE RelistRetries
  BY <1>0, <1>11, LoopMovesInv DEF RelistRetries
<1>12. CASE RelistFails
  BY <1>0, <1>12, LoopMovesInv DEF RelistFails
<1>13. CASE RelistUnavailable
  BY <1>13, LoopUnavailableInv DEF RelistUnavailable
<1>14. CASE WatchGone
  <2>1. loop \in {"open", "stream"}
    BY <1>14 DEF WatchGone
  <2>2. /\ deltas' = {} /\ UNCHANGED <<others, pos, state, cache, rv>>
        /\ \/ loop' = "relistGone" /\ rl' = NoRelist
           \/ loop' = "exited" /\ rl' = rl
    BY <1>14 DEF WatchGone
  <2> QED
    BY <1>0, <2>1, <2>2, LoopMovesInv
<1>15. CASE RelistGoneFails
  BY <1>0, <1>15, LoopMovesInv DEF RelistGoneFails
<1>16. CASE Bookmark
  BY <1>16, BookmarkInv
<1>17. CASE WatchCloses
  <2>1. /\ loop = "stream" /\ UNCHANGED <<others, pos, state, cache, rv, deltas>>
        /\ \/ loop' = "relist" /\ rl' = NoRelist
           \/ loop' = "exited" /\ rl' = rl
    BY <1>17 DEF WatchCloses
  <2> QED
    BY <1>0, <2>1, LoopMovesInv
<1> QED
  BY <1>1, <1>2, <1>3, <1>4, <1>5, <1>6, <1>7, <1>8, <1>9, <1>10, <1>11, <1>12,
     <1>13, <1>14, <1>15, <1>16, <1>17 DEF LoopStep, LoopFault

LEMMA SubscribeInv ==
  ASSUME TypeOK, SInv, NEW s \in Subs, Subscribe(s) \/ Unsubscribe(s)
  PROVE  SInv'
<1> USE DEF serverVars, life, list, stream
<1>1. /\ loop # "chunk" /\ deltas = {}
      /\ UNCHANGED <<serverVars, stream, life, state, rv, loop>>
  BY DEF SInv, CacheInv, Subscribe, Unsubscribe, Idle
<1>2. CASE /\ UNCHANGED <<list, cache>>
           /\ \A t \in Subs : sub'[t] = "in" =>
                initialList = "done" /\ view'[t] = cache
           /\ \A t \in Subs : sub'[t] = "waiting" => initialList = "pending"
  <2>1. ViewInv'
    BY <1>1, <1>2, Frame, BatchEmpty DEF ViewInv
  <2>2. ListInv' /\ CacheInv' /\ RelistInv' /\ UnavailableInv'
    BY <1>1, <1>2, Frame DEF SInv, ListInv, CacheInv, RelistInv, Relisting, UnavailableInv, Idle
  <2> QED
    BY <2>1, <2>2 DEF SInv
<1>3. \A t \in Subs : /\ sub[t] = "in" => initialList = "done" /\ view[t] = cache
                      /\ sub[t] = "waiting" => initialList = "pending"
  BY <1>1, BatchEmpty DEF SInv, ViewInv
<1>4. CASE Unsubscribe(s)
  BY <1>2, <1>3, <1>4 DEF Unsubscribe, TypeOK
<1>5. CASE Subscribe(s) /\ ~(initialList = "none" /\ running)
  BY <1>2, <1>3, <1>5 DEF Subscribe, TypeOK
<1>6. CASE Subscribe(s) /\ initialList = "none" /\ running
  <2>1. /\ StartInitialList
        /\ sub' = [sub EXCEPT ![s] = "waiting"]
        /\ UNCHANGED view
    BY <1>6 DEF Subscribe
  <2>2. rv = 0 /\ loop \in {"backoff", "exited"} /\ ~unavailable
    BY <1>6 DEF SInv, ListInv, CacheInv, UnavailableInv
  <2>3. \A t \in Subs : sub'[t] # "in"
    BY <1>3, <1>6, <2>1 DEF TypeOK
  <2>4. ListInv' /\ ViewInv'
    BY <1>1, <2>1, <2>2, <2>3 DEF ListInv, ViewInv, StartInitialList, NewList
  <2>5. CacheInv' /\ RelistInv' /\ UnavailableInv'
    BY <1>1, <2>1, <2>2, Frame DEF SInv, CacheInv, RelistInv, Relisting, UnavailableInv, StartInitialList
  <2> QED
    BY <2>4, <2>5 DEF SInv
<1> QED
  BY <1>4, <1>5, <1>6

LEMMA StopInv ==
  ASSUME TypeOK, SInv, Stop
  PROVE  SInv'
<1> USE DEF serverVars, list, stream, subs
<1>1. /\ loop # "chunk" /\ ~running'
      /\ loop' \in {loop, "exited"}
      /\ loop = "awaitReady" => loop' = loop
      /\ UNCHANGED <<serverVars, stream, unavailable, state, cache, rv, list, subs>>
  BY DEF Stop, Idle
<1>2. CacheInv' /\ RelistInv'
  BY <1>1, Frame DEF SInv, CacheInv, RelistInv, Relisting, Idle
<1>3. ListInv' /\ ViewInv' /\ UnavailableInv'
  BY <1>1, Frame DEF SInv, ListInv, ViewInv, UnavailableInv
<1> QED
  BY <1>2, <1>3 DEF SInv

\* A write or a compaction leaves the versions the watcher knows alone.
LEMMA ServerStepInv ==
  ASSUME TypeOK, SInv, ServerStep
  PROVE  SInv'
<1> USE DEF watcherVars, life, list, stream, subs
<1>1. \A r \in 0..Len(log) : StoreAt(r)' = StoreAt(r)
  <2>1. CASE Write
    BY <2>1, StoreAtStable DEF Write, TypeOK
  <2>2. CASE Compact
    BY <2>2 DEF Compact, StoreAt
  <2> QED
    BY <2>1, <2>2 DEF ServerStep
<1>2. /\ StoreAt(rv)' = StoreAt(rv)
      /\ StoreAt(il.snap)' = StoreAt(il.snap)
      /\ StoreAt(rl.snap)' = StoreAt(rl.snap)
  BY <1>1 DEF ServerStep, TypeOK
<1>3. \A i \in Versions : log'[i] = log[i]
  <2>1. CASE Write
    BY <2>1, StoreAtStable DEF Write, TypeOK
  <2>2. CASE Compact
    BY <2>2 DEF Compact
  <2> QED
    BY <2>1, <2>2 DEF ServerStep
<1>4. \A s \in Subs : ApplyBatch(view[s], deltas)' = ApplyBatch(view[s], deltas)
  <2> TAKE s \in Subs
  <2>1. view[s] \subseteq Versions /\ deltas \subseteq Versions
    BY DEF TypeOK
  <2>2. UNCHANGED <<view, deltas>>
    BY DEF ServerStep
  <2> QED
    BY <1>3, <2>1, <2>2 DEF ApplyBatch, SameUid
<1>5. UNCHANGED watcherVars
  BY DEF ServerStep
<1>6. ListInv' /\ CacheInv' /\ RelistInv'
  BY <1>2, <1>5 DEF SInv, ListInv, CacheInv, RelistInv, Relisting, Idle
<1>7. ViewInv' /\ UnavailableInv'
  BY <1>4, <1>5 DEF SInv, ViewInv, UnavailableInv
<1> QED
  BY <1>6, <1>7 DEF SInv

LEMMA StutterInv ==
  ASSUME SInv, UNCHANGED vars
  PROVE  SInv'
<1> USE DEF vars, watcherVars, life, list, stream, subs
<1>1. ListInv' /\ CacheInv' /\ RelistInv'
  BY Frame DEF SInv, ListInv, CacheInv, RelistInv, Relisting, Idle
<1>2. ViewInv' /\ UnavailableInv'
  BY Frame DEF SInv, ViewInv, UnavailableInv
<1> QED
  BY <1>1, <1>2 DEF SInv

(***************************************************************************)
(* The theorems, for an API server whose continue tokens do not expire and *)
(* that sends an ERROR line in a chunk of its own.                         *)
(***************************************************************************)
THEOREM Inductive ==
  ASSUME ~TokensExpire, ~ErrorJoinsChunk
  PROVE  Spec => []IInv
<1>1. ASSUME IInv, [Next]_vars PROVE IInv'
  <2>1. TypeOK /\ SInv
    BY <1>1 DEF IInv, SInv
  <2>2. TypeOK'
    BY <1>1, <2>1, ServerStepType, ListStepType, LoopStepType, OwnerStepType, StutterType
    DEF Next
  <2> SUFFICES SInv'
    BY <2>2 DEF IInv, SInv
  <2>3. CASE ServerStep
    BY <2>1, <2>3, ServerStepInv
  <2>4. CASE ListStep \/ ListFault
    BY <2>1, <2>4, ListStepInv
  <2>5. CASE \/ LoopStep \/ LoopFault \/ WatchGone \/ RelistGoneFails
             \/ Bookmark \/ WatchCloses
    BY <2>1, <2>5, LoopStepInv
  <2>6. CASE SubStep
    BY <2>1, <2>6, SubscribeInv DEF SubStep
  <2>7. CASE Stop
    BY <2>1, <2>7, StopInv
  <2>8. CASE UNCHANGED vars
    BY <2>1, <2>8, StutterInv
  <2> QED
    BY <1>1, <2>3, <2>4, <2>5, <2>6, <2>7, <2>8 DEF Next
<1> QED
  BY <1>1, InitInv, PTL DEF Spec

\* The cache is the store at the version the next watch resumes from.
THEOREM CacheCorrect ==
  ASSUME ~TokensExpire, ~ErrorJoinsChunk
  PROVE  Spec => []CacheIsServerState
<1>1. IInv => CacheIsServerState
  BY DEF IInv, CacheInv, CacheIsServerState
<1> QED
  BY <1>1, Inductive, PTL

\* Every subscriber holds what the cache holds, although it only gets deltas.
THEOREM ViewCorrect ==
  ASSUME ~TokensExpire, ~ErrorJoinsChunk
  PROVE  Spec => []ViewMatchesCache
<1>1. IInv => ViewMatchesCache
  BY BatchEmpty DEF IInv, CacheInv, ViewInv, ViewMatchesCache
<1> QED
  BY <1>1, Inductive, PTL

LEMMA RvStep ==
  ASSUME IInv, [Next]_vars
  PROVE  rv' >= rv \/ (unavailable' /\ rv' = 0)
<1> USE DEF stream, list, life, subs, others, watcherVars
<1>0. TypeOK /\ SInv /\ rv \in Nat
  BY DEF IInv, SInv, TypeOK, ServerTypeOK
<1> DEFINE Goal == rv' >= rv \/ (unavailable' /\ rv' = 0)
<1>1. rv' = rv => Goal
  BY <1>0
<1>2. MarkUnavailable => Goal
  BY DEF MarkUnavailable
<1>3. CASE InitialListed
  <2>1. rv = 0
    BY <1>0, <1>3, ListFacts DEF InitialListed
  <2>2. rv' \in Nat
    <3>1. PICK l \in Served(il, InitialSnaps) : rv' = l.snap
      BY <1>3 DEF InitialListed
    <3>2. l.snap \in Versions
      BY <1>0, ServedType, SnapsType DEF TypeOK
    <3> QED
      BY <3>1, <3>2 DEF Versions
  <2> QED
    BY <2>1, <2>2
<1>4. CASE WatchEvent
  <2>1. pos = rv
    BY <1>0, <1>4 DEF WatchEvent, SInv, CacheInv
  <2> QED
    BY <1>0, <1>4, <2>1 DEF WatchEvent, Versions
<1>5. CASE Bookmark
  <2>1. pos = rv
    BY <1>0, <1>5 DEF Bookmark, SInv, CacheInv
  <2> QED
    BY <1>0, <1>5, <2>1 DEF Bookmark, Versions
<1>6. CASE Relisted
  BY <1>0, <1>6, RelistServed DEF Relisted
<1>7. CASE ServerStep \/ SubStep \/ Stop
  BY <1>1, <1>7 DEF ServerStep, SubStep, Subscribe, Unsubscribe, Stop
<1>8. CASE InitialPage \/ InitialBackoffEnds \/ InitialExpires \/ ListFault
  BY <1>1, <1>2, <1>8 DEF InitialPage, InitialBackoffEnds, InitialExpires, ListFault,
     InitialFailsStopped, InitialRetries, InitialFails, InitialUnavailable
<1>9. CASE \/ LoopBackoffEnds \/ WatchOpens \/ ChunkEnds
           \/ RelistPage \/ RelistBackoffEnds \/ RelistExpires
  BY <1>1, <1>9 DEF LoopBackoffEnds, WatchOpens, ChunkEnds, RelistPage,
     RelistBackoffEnds, RelistExpires
<1>10. CASE LoopFault \/ WatchGone \/ RelistGoneFails \/ WatchCloses
  BY <1>1, <1>2, <1>10 DEF LoopFault, WatchBreaks, WatchUnavailable, RelistRetries,
     RelistFails, RelistUnavailable, WatchGone, RelistGoneFails, WatchCloses
<1>11. CASE UNCHANGED vars
  BY <1>1, <1>11 DEF vars
<1> QED
  BY <1>3, <1>4, <1>5, <1>6, <1>7, <1>8, <1>9, <1>10, <1>11
  DEF Next, ListStep, LoopStep

\* rv moves forward only, until a 404.
THEOREM RvCorrect ==
  ASSUME ~TokensExpire, ~ErrorJoinsChunk
  PROVE  Spec => RvNeverRegresses
<1>1. IInv /\ [Next]_vars => [rv' >= rv \/ (unavailable' /\ rv' = 0)]_vars
  BY RvStep
<1> QED
  BY <1>1, Inductive, PTL DEF RvNeverRegresses, Spec

\* A late answer does not bring an unavailable resource type back.
THEOREM UnavailableCorrect ==
  ASSUME ~TokensExpire, ~ErrorJoinsChunk
  PROVE  Spec => UnavailableIsFinal
<1>1. ASSUME IInv, [Next]_vars, unavailable
      PROVE  cache' = {} /\ state' = "unavailable"
  <2> USE DEF stream, list, life, subs, others, watcherVars
  <2>1. /\ cache = {} /\ state = "unavailable" /\ ~running
        /\ initialList = "done" /\ il.pc = "off" /\ loop \in {"backoff", "exited"}
    BY <1>1 DEF IInv, UnavailableInv, ListInv
  <2>2. ~(ListStep \/ ListFault)
    BY <2>1 DEF ListStep, ListFault, InitialPage, InitialListed, InitialBackoffEnds,
       InitialExpires, InitialFailsStopped, InitialRetries, InitialFails, InitialUnavailable
  <2>3. LoopStep => UNCHANGED <<cache, state>>
    BY <2>1 DEF LoopStep, LoopBackoffEnds, WatchOpens, WatchEvent, ChunkEnds, RelistPage,
       Relisted, RelistBackoffEnds, RelistExpires, Relisting
  <2>4. ~(LoopFault \/ WatchGone \/ RelistGoneFails \/ WatchCloses \/ Bookmark)
    <3>1. ~LoopFault
      BY <2>1 DEF LoopFault, WatchBreaks, WatchUnavailable, RelistRetries,
         RelistFails, RelistUnavailable
    <3>2. ~(WatchGone \/ RelistGoneFails \/ WatchCloses \/ Bookmark)
      BY <2>1 DEF WatchGone, RelistGoneFails, WatchCloses, Bookmark
    <3> QED
      BY <3>1, <3>2
  <2>5. (SubStep \/ Stop \/ ServerStep \/ UNCHANGED vars) => UNCHANGED <<cache, state>>
    BY <2>1 DEF SubStep, Subscribe, Unsubscribe, Stop, ServerStep, vars
  <2> QED
    BY <1>1, <2>1, <2>2, <2>3, <2>4, <2>5 DEF Next
<1>2. IInv /\ [Next]_vars => [unavailable => cache' = {} /\ state' = "unavailable"]_vars
  BY <1>1
<1> QED
  BY <1>2, Inductive, PTL DEF UnavailableIsFinal, Spec

\* No late or lagging answer takes the watcher back: not to an older version,
\* and not from having no such resource type (watcher.ts 146-155, 326-345).
THEOREM NeverBack ==
  ASSUME ~TokensExpire, ~ErrorJoinsChunk
  PROVE  Spec => NeverGoesBack
BY RvCorrect, UnavailableCorrect DEF NeverGoesBack

(***************************************************************************)
(* Every subscriber's view implements ObjectFeed                           *)
(***************************************************************************)
LEMMA LeastExists ==
  ASSUME NEW D \in SUBSET Nat, D # {}
  PROVE  Least(D) \in D /\ \A j \in D : Least(D) <= j
<1> DEFINE R == {ss \in Nat \X Nat : ss[1] < ss[2]}
<1>0. IsWellFoundedOn(R, Nat)
  BY NatLessThanWellFounded, Zenon DEF OpToRel
<1>1. PICK x \in D : \A y \in D : <<y, x>> \notin R
  <2> HIDE DEF R
  <2> QED
    BY <1>0, WFMin
<1>2. \A y \in D : x <= y
  <2> TAKE y \in D
  <2>1. x \in Nat /\ y \in Nat
    OBVIOUS
  <2>2. ~(y < x)
    BY <1>1, <2>1, Zenon
  <2> QED
    BY <2>1, <2>2
<1> QED
  BY <1>2 DEF Least

LEMMA LeastAdd ==
  ASSUME NEW D \in SUBSET Nat, NEW i \in Nat, \A j \in D : j < i
  PROVE  Least(D \cup {i}) = IF D = {} THEN i ELSE Least(D)
<1>1. D \cup {i} \in SUBSET Nat /\ D \cup {i} # {}
  OBVIOUS
<1>2. /\ Least(D \cup {i}) \in D \cup {i}
      /\ \A j \in D \cup {i} : Least(D \cup {i}) <= j
  BY <1>1, LeastExists
<1>3. CASE D = {}
  BY <1>2, <1>3
<1>4. CASE D # {}
  <2>1. Least(D) \in D /\ \A j \in D : Least(D) <= j
    BY <1>4, LeastExists
  <2>2. Least(D \cup {i}) <= Least(D)
    BY <1>2, <2>1
  <2>3. Least(D \cup {i}) \in D
    <3>1. Least(D) \in Nat /\ Least(D) < i
      BY <2>1
    <3>2. ~(i <= Least(D))
      BY <3>1
    <3>3. Least(D \cup {i}) # i
      BY <2>2, <3>2
    <3> QED
      BY <1>2, <3>3
  <2>4. Least(D) <= Least(D \cup {i})
    BY <2>1, <2>3
  <2>5. Least(D) \in Int /\ Least(D \cup {i}) \in Int
    <3>1. D \subseteq Int
      OBVIOUS
    <3> QED
      BY <2>1, <2>3, <3>1
  <2>6. Least(D) = Least(D \cup {i})
    BY <2>2, <2>4, <2>5
  <2> QED
    BY <1>4, <2>6
<1> QED
  BY <1>3, <1>4

\* What counts as one step of the feed.
LEMMA ShowStep ==
  ASSUME NEW s \in Subs, UNCHANGED log,
         ShownVersion(s)' \in ShownVersion(s)..Len(log), ShownVersion(s)' > 0,
         view'[s] = StoreAt(ShownVersion(s)')
  PROVE  FeedStep(s)
<1>1. Feed(s)!Show
  BY DEF Feed!Show, Feed!StoreAt, StoreAt
<1> QED
  BY <1>1 DEF FeedStep, Feed!Next

LEMMA DetachStep ==
  ASSUME NEW s \in Subs, UNCHANGED log, ShownVersion(s)' = 0, view'[s] = {}
  PROVE  FeedStep(s)
BY DEF FeedStep, Feed!Next, Feed!Detach

\* A step outside a chunk shows the new cache, or nothing.
LEMMA SettledStep ==
  ASSUME IInv, IInv', [Next]_vars, UNCHANGED log, NEW s \in Subs,
         deltas = {}, deltas' = {},
         \/ sub'[s] = "in"
         \/ view'[s] = {}
         \/ sub[s] # "in" /\ view'[s] = view[s]
  PROVE  FeedStep(s)
<1>1. rv \in 0..Len(log) /\ rv' \in 0..Len(log) /\ Len(log) \in Nat
  BY DEF IInv, TypeOK, ServerTypeOK
<1>2. /\ ShownVersion(s) = IF sub[s] # "in" THEN 0 ELSE rv
      /\ ShownVersion(s)' = IF sub'[s] # "in" THEN 0 ELSE rv'
  BY DEF ShownVersion
<1>3. rv' >= rv \/ (unavailable' /\ rv' = 0)
  BY RvStep
<1>4. CASE sub'[s] = "in"
  <2>1. initialList' = "done" /\ view'[s] = cache'
    <3>1. initialList' = "done" /\ ApplyBatch(view[s], deltas)' = cache'
      BY <1>4 DEF IInv, ViewInv
    <3>2. ApplyBatch(view[s], deltas)' = view'[s]
      BY DEF ApplyBatch
    <3> QED
      BY <3>1, <3>2
  <2>2. CASE rv' = 0
    <3>1. cache' = {}
      BY <2>1, <2>2 DEF IInv, UnavailableInv
    <3> QED
      BY <1>2, <2>1, <2>2, <3>1, DetachStep
  <2>3. CASE rv' # 0
    <3>1. cache' = StoreAt(rv)' /\ StoreAt(rv)' = StoreAt(rv')
      BY <2>3 DEF IInv, CacheInv, StoreAt
    <3>2. rv' >= rv
      BY <1>3, <2>3
    <3>3. ShownVersion(s)' = rv' /\ ShownVersion(s) \in {0, rv}
      BY <1>2, <1>4
    <3>4. ShownVersion(s)' \in ShownVersion(s)..Len(log) /\ ShownVersion(s)' > 0
      BY <1>1, <2>3, <3>2, <3>3
    <3> QED
      BY <2>1, <3>1, <3>3, <3>4, ShowStep
  <2> QED
    BY <2>2, <2>3
<1>5. CASE sub'[s] # "in" /\ view'[s] = {}
  BY <1>2, <1>5, DetachStep
<1>6. CASE sub'[s] # "in" /\ sub[s] # "in" /\ view'[s] = view[s]
  BY <1>2, <1>6 DEF FeedStep
<1> QED
  BY <1>4, <1>5, <1>6

LEMMA Predecessor ==
  ASSUME NEW r \in Nat, NEW q \in Nat, NEW n \in Nat, r # 0, q > r, q <= n
  PROVE  q - 1 \in 1..n /\ r <= q - 1 /\ q - 1 > 0 /\ q - 1 <= n /\ q - 1 \in Int
OBVIOUS

\* An event that is not emitted yet: the view stands still, and is known to be
\* the store just before the first of the events that are pending.
LEMMA PendingStep ==
  ASSUME IInv, IInv', WatchEvent \/ Bookmark, NEW s \in Subs
  PROVE  FeedStep(s)
<1> USE DEF serverVars, life, list, subs, others
<1>1. /\ UNCHANGED <<log, sub, view>> /\ loop \in {"stream", "chunk"}
      /\ rv # 0 /\ pos = rv /\ cache = StoreAt(rv)
      /\ sub[s] = "in" => ApplyBatch(view[s], deltas) = cache
      /\ rv' > rv /\ rv' \in Versions
  <2>1. pos = rv /\ rv # 0 /\ cache = StoreAt(rv)
    BY DEF WatchEvent, Bookmark, IInv, CacheInv
  <2>2. sub[s] = "in" => ApplyBatch(view[s], deltas) = cache
    BY DEF IInv, ViewInv
  <2> QED
    BY <2>1, <2>2 DEF WatchEvent, Bookmark
<1>2. /\ rv \in Nat /\ Len(log) \in Nat /\ rv <= Len(log) /\ deltas \in SUBSET Nat
      /\ rv' \in Nat /\ rv' <= Len(log)
      /\ \A j \in deltas : j < rv'
      /\ ServerTypeOK
  BY <1>1 DEF IInv, TypeOK, ServerTypeOK, CacheInv, Versions
<1>3. CASE sub[s] # "in"
  BY <1>1, <1>3 DEF FeedStep, ShownVersion
<1>4. CASE sub[s] = "in" /\ deltas # {}
  <2>1. Least(deltas') = Least(deltas) /\ deltas' # {}
    <3>1. CASE Bookmark
      BY <1>4, <3>1 DEF Bookmark
    <3>2. CASE WatchEvent
      <4>1. deltas' = deltas \cup {rv'}
        BY <3>2 DEF WatchEvent
      <4> QED
        BY <1>2, <1>4, <4>1, LeastAdd
    <3> QED
      BY <3>1, <3>2
  <2>2. ShownVersion(s) = Least(deltas) - 1 /\ ShownVersion(s)' = Least(deltas') - 1
    BY <1>1, <1>2, <1>4, <2>1 DEF ShownVersion, Least
  <2> QED
    BY <1>1, <2>1, <2>2 DEF FeedStep
<1>5. CASE sub[s] = "in" /\ deltas = {}
  <2>1. ShownVersion(s) = rv /\ view'[s] = StoreAt(rv)
    BY <1>1, <1>5, BatchEmpty DEF ShownVersion
  <2>2. CASE Bookmark
    <3>1. ShownVersion(s)' = rv'
      BY <1>1, <1>2, <1>5, <2>2 DEF ShownVersion, Bookmark
    <3>2. StoreAt(rv') = StoreAt(rv)
      BY <1>1, <1>2, <2>2, StoreAtBookmark DEF Bookmark
    <3>3. ShownVersion(s)' \in ShownVersion(s)..Len(log) /\ ShownVersion(s)' > 0
      BY <1>1, <1>2, <2>1, <3>1
    <3> QED
      BY <1>1, <2>1, <3>1, <3>2, <3>3, ShowStep
  <2>3. CASE WatchEvent
    <3>1. deltas' = {rv'} /\ \A j \in (rv + 1)..(rv' - 1) : ~Own(j)
      BY <1>1, <1>5, <2>3 DEF WatchEvent
    <3>2. Least(deltas') = rv'
      BY <1>2, <3>1, LeastAdd
    <3>3. ShownVersion(s)' = rv' - 1
      BY <1>1, <1>2, <1>5, <3>1, <3>2 DEF ShownVersion, Least
    <3> DEFINE b == rv' - 1
    <3>4. b \in Versions /\ rv <= b /\ b > 0 /\ b <= Len(log) /\ b \in Int
      BY <1>1, <1>2, Predecessor DEF Versions
    <3>a. rv \in 0..Len(log)
      BY <1>2
    <3>b. \A j \in (rv + 1)..b : ~Own(j)
      BY <3>1
    <3>c. ShownVersion(s)' = b
      BY <3>3
    <3> HIDE DEF b
    <3>d. StoreAt(b) = StoreAt(rv)
      BY <1>2, <3>4, <3>a, <3>b, StoreAtBookmark
    <3>5. StoreAt(rv' - 1) = StoreAt(rv)
      BY <3>d DEF b
    <3>6. ShownVersion(s)' \in ShownVersion(s)..Len(log) /\ ShownVersion(s)' > 0
      BY <1>2, <2>1, <3>c, <3>4
    <3> QED
      BY <1>1, <2>1, <3>3, <3>5, <3>6, ShowStep
  <2> QED
    BY <2>2, <2>3
<1> QED
  BY <1>3, <1>4, <1>5

LEMMA EmitStep ==
  ASSUME IInv, IInv', ChunkEnds, NEW s \in Subs
  PROVE  FeedStep(s)
<1> USE DEF serverVars, life, list
<1>1. /\ UNCHANGED <<log, sub, rv, cache>> /\ deltas' = {} /\ loop = "chunk"
      /\ view' = [t \in Subs |-> IF sub[t] = "in" THEN ApplyBatch(view[t], deltas) ELSE view[t]]
  BY DEF ChunkEnds, Emit
<1>2. rv # 0 /\ cache = StoreAt(rv) /\ (sub[s] = "in" => ApplyBatch(view[s], deltas) = cache)
  BY <1>1 DEF IInv, CacheInv, ViewInv
<1>3. /\ rv \in Nat /\ Len(log) \in Nat /\ rv <= Len(log) /\ deltas \in SUBSET Nat
      /\ \A j \in deltas : j <= rv
  BY SMTT(30) DEF IInv, TypeOK, ServerTypeOK, CacheInv, Versions
<1>4. CASE sub[s] # "in"
  BY <1>1, <1>4 DEF FeedStep, ShownVersion
<1>5. CASE sub[s] = "in"
  <2>1. ShownVersion(s)' = rv /\ view'[s] = StoreAt(rv)
    BY <1>1, <1>2, <1>5 DEF ShownVersion
  <2>2. ShownVersion(s) = IF deltas # {} THEN Least(deltas) - 1 ELSE rv
    BY <1>2, <1>5 DEF ShownVersion
  <2>3. ShownVersion(s) \in Int /\ ShownVersion(s) <= rv
    <3>1. deltas # {} => Least(deltas) \in deltas
      BY <1>3, LeastExists
    <3>2. deltas # {} => Least(deltas) \in Nat /\ Least(deltas) <= rv
      BY <1>3, <3>1
    <3> QED
      BY <1>3, <2>2, <3>2
  <2> QED
    BY <1>1, <1>2, <1>3, <2>1, <2>3, ShowStep
<1> QED
  BY <1>4, <1>5

\* Every other step of the watcher starts and ends outside a chunk, and changes
\* a view only for a subscriber that is attached, or detaches it.
LEMMA OtherSteps ==
  ASSUME IInv, IInv', ~TokensExpire, ~ErrorJoinsChunk, [Next]_vars,
         ~ServerStep, ~WatchEvent, ~Bookmark, ~ChunkEnds, ~UNCHANGED vars, NEW s \in Subs
  PROVE  /\ UNCHANGED log
         /\ deltas = {} /\ deltas' = {}
         /\ \/ sub'[s] = "in"
            \/ view'[s] = {}
            \/ sub[s] # "in" /\ view'[s] = view[s]
<1> USE DEF serverVars, life, list, stream, subs, others, Idle
<1> DEFINE Viewed == \/ sub'[s] = "in"
                     \/ view'[s] = {}
                     \/ sub[s] # "in" /\ view'[s] = view[s]
           Quiet == UNCHANGED log /\ loop # "chunk" /\ loop' # "chunk"
<1>1. UNCHANGED subs => Viewed
  OBVIOUS
<1>2. ASSUME NEW seen, Emit(seen), UNCHANGED sub
      PROVE  Viewed
  BY <1>2 DEF Emit
<1>3. RejectWaiting => Viewed
  BY DEF RejectWaiting
<1>4. ASSUME InitialListed \/ InitialPage
      PROVE  Quiet /\ Viewed
  BY <1>1, <1>4 DEF InitialListed, InitialPage, Attach
<1>5. ASSUME InitialBackoffEnds \/ ListFault
      PROVE  Quiet /\ Viewed
  <2>1. CASE InitialUnavailable
    BY <2>1 DEF InitialUnavailable, TypeOK, IInv
  <2>2. CASE InitialBackoffEnds
    BY <1>1, <1>3, <2>2 DEF InitialBackoffEnds, RejectInitial
  <2>3. CASE InitialFailsStopped \/ InitialRetries \/ InitialFails
    BY <1>1, <1>3, <2>3 DEF InitialFailsStopped, InitialRetries, InitialFails, RejectInitial
  <2> QED
    BY <1>5, <2>1, <2>2, <2>3 DEF ListFault
<1>6. ~InitialExpires /\ ~RelistExpires
  BY DEF InitialExpires, RelistExpires, TokenExpired
<1>7. ASSUME \/ LoopBackoffEnds \/ WatchOpens \/ RelistPage \/ RelistBackoffEnds
             \/ WatchBreaks \/ RelistRetries \/ RelistFails
             \/ WatchGone \/ RelistGoneFails \/ WatchCloses
      PROVE  Quiet /\ Viewed
  <2>1. CASE LoopBackoffEnds \/ WatchOpens \/ RelistPage \/ RelistBackoffEnds
    BY <1>1, <2>1 DEF LoopBackoffEnds, WatchOpens, RelistPage, RelistBackoffEnds, Relisting
  <2>2. CASE WatchBreaks \/ RelistRetries \/ RelistFails
    BY <1>1, <2>2 DEF WatchBreaks, RelistRetries, RelistFails, BackOff
  <2>3. CASE WatchGone \/ RelistGoneFails \/ WatchCloses
    BY <1>1, <2>3 DEF WatchGone, RelistGoneFails, WatchCloses, StartRelist
  <2> QED
    BY <1>7, <2>1, <2>2, <2>3
<1>8. ASSUME Relisted \/ WatchUnavailable \/ RelistUnavailable
      PROVE  Quiet /\ Viewed
  BY <1>2, <1>8 DEF Relisted, WatchUnavailable, RelistUnavailable, Relisting
<1>9. ASSUME NEW t \in Subs, Subscribe(t) \/ Unsubscribe(t)
      PROVE  Quiet /\ Viewed
  BY <1>9 DEF Subscribe, Unsubscribe, TypeOK, IInv
<1>10. ASSUME Stop PROVE Quiet /\ Viewed
  BY <1>1, <1>10 DEF Stop
<1>11. Quiet /\ Viewed
  BY <1>4, <1>5, <1>6, <1>7, <1>8, <1>9, <1>10
  DEF Next, ListStep, LoopStep, LoopFault, SubStep, vars
<1>12. deltas = {} /\ deltas' = {}
  BY <1>11 DEF IInv, CacheInv
<1> QED
  BY <1>11, <1>12

\* A write of the API server is one of the feed's.
LEMMA WriteStep ==
  ASSUME ServerStep, NEW s \in Subs
  PROVE  FeedStep(s)
<1>1. UNCHANGED <<sub, rv, deltas, view>>
  BY DEF ServerStep, watcherVars, stream, subs
<1>2. UNCHANGED <<ShownVersion(s), view[s]>>
  BY <1>1 DEF ShownVersion
<1>3. CASE Compact
  BY <1>2, <1>3 DEF Compact, FeedStep
<1>4. CASE Write
  <2>1. Feed(s)!ServerWrites
    BY <1>2, <1>4 DEF Write, Feed!ServerWrites, Feed!Entry, Entry
  <2> QED
    BY <2>1 DEF FeedStep, Feed!Next
<1> QED
  BY <1>3, <1>4 DEF ServerStep

\* Whatever fails, a subscriber always sees a state the store really had, and
\* never goes back to an older one while it is attached.
THEOREM FeedImplemented ==
  ASSUME ~TokensExpire, ~ErrorJoinsChunk
  PROVE  Spec => SubscribersImplementFeed
<1>1. Init => \A s \in Subs : Feed(s)!Init
  BY DEF Init, ServerInit, ShownVersion, Feed!Init
<1>2. ASSUME IInv, IInv', [Next]_vars
      PROVE  [\A s \in Subs : FeedStep(s)]_vars
  <2> SUFFICES ASSUME NEW s \in Subs, ~UNCHANGED vars PROVE FeedStep(s)
    OBVIOUS
  <2>1. CASE ServerStep
    BY <2>1, WriteStep
  <2>2. CASE WatchEvent \/ Bookmark
    BY <1>2, <2>2, PendingStep
  <2>3. CASE ChunkEnds
    BY <1>2, <2>3, EmitStep
  <2>4. CASE ~(ServerStep \/ WatchEvent \/ Bookmark \/ ChunkEnds)
    <3>1. /\ UNCHANGED log
          /\ deltas = {} /\ deltas' = {}
          /\ \/ sub'[s] = "in"
             \/ view'[s] = {}
             \/ sub[s] # "in" /\ view'[s] = view[s]
      BY <1>2, <2>4, OtherSteps
    <3> QED
      BY <1>2, <3>1, SettledStep
  <2> QED
    BY <2>1, <2>2, <2>3, <2>4
<1>3. IInv /\ IInv' /\ [Next]_vars => [\A s \in Subs : FeedStep(s)]_vars
  BY <1>2
<1> QED
  BY <1>1, <1>3, Inductive, PTL DEF SubscribersImplementFeed, Spec
=============================================================================
