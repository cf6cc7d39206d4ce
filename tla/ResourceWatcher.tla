--------------------------- MODULE ResourceWatcher ---------------------------
(***************************************************************************)
(* One ResourceWatcher of server/src/kube/watcher.ts: it lists a resource  *)
(* type, keeps an in-memory cache, follows the API server's watch stream,  *)
(* and hands deltas to its subscribers.                                    *)
(*                                                                         *)
(* Two asynchronous activities share the cache: the initial list           *)
(* (listUntilReady, started by ready()) and the loop (watch, relist, back  *)
(* off).  Every await is a point where other actions interleave; a chunk   *)
(* of watch events is processed without one, which loop = "chunk" marks.   *)
(***************************************************************************)
EXTENDS ObjectCache

CONSTANTS Subs,            \* the subscribers
          MaxFaults,       \* bound on failed requests and broken streams
          FromWatchCache,  \* the listFromWatchCache option
          TokensExpire,    \* a continue token may expire between two pages
          ErrorJoinsChunk  \* an ERROR line may arrive in a chunk of events

ASSUME MaxFaultsAssumption == MaxFaults \in Nat
ASSUME OptionsAssumption ==
  {FromWatchCache, TokensExpire, ErrorJoinsChunk} \subseteq BOOLEAN

VARIABLES running,      \* this.running
          unavailable,  \* this.unavailable
          state,        \* this.state
          cache,        \* this.cache: the object versions it holds
          rv,           \* this.rv; 0 for the empty string
          initialList,  \* this.initialList: no promise, pending, or resolved
          il,           \* the listUntilReady activity
          loop,         \* where loop() is
          rl,           \* the list request of relistAndDiff
          pos,          \* what the watch asked for, then how far it has been read
          deltas,       \* the events of the chunk being processed
          sub,          \* what each subscriber is doing
          view,         \* the object versions each subscriber holds
          faults        \* failures so far

life == <<running, unavailable>>
list == <<initialList, il>>
stream == <<pos, rl, deltas>>
subs == <<sub, view>>
watcherVars == <<life, state, cache, rv, list, loop, stream, subs, faults>>
\* What most steps of loop() leave alone.
others == <<serverVars, life, list, subs>>
vars == <<serverVars, watcherVars>>

LoopPcs == {"awaitReady", "open", "stream", "chunk", "relist", "relistBackoff",
            "relistGone", "backoff", "exited"}

TypeOK ==
  /\ ServerTypeOK
  /\ running \in BOOLEAN /\ unavailable \in BOOLEAN
  /\ state \in {"reconnecting", "live", "error", "unavailable"}
  /\ cache \subseteq Versions
  /\ rv \in 0..Len(log)
  /\ initialList \in {"none", "pending", "done"}
  /\ il \in [pc : {"off", "list", "backoff"}, own : BOOLEAN,
             snap : 0..Len(log), todo : SUBSET Versions]
  /\ loop \in LoopPcs
  /\ rl \in [snap : 0..Len(log), todo : SUBSET Versions, fresh : SUBSET Versions]
  /\ pos \in 0..Len(log)
  /\ deltas \subseteq Versions
  /\ sub \in [Subs -> {"out", "waiting", "in", "failed"}]
  /\ view \in [Subs -> SUBSET Versions]
  /\ faults \in 0..MaxFaults

(***************************************************************************)
(* What relistAndDiff reports                                              *)
(***************************************************************************)
\* Mutants: the objects that the fresh list lacks are not reported; nothing is.
ApplyDiffNoDeletes(v, old, fresh) == Puts(v, fresh \ old)
ApplyDiffSilent(v, old, fresh) == v

\* What a subscriber holds after the synthetic deltas of relistAndDiff:
\* the changed objects are set, those the fresh list lacks are deleted.
ApplyDiff(v, old, fresh) ==
  LET changed == fresh \ old
      lost    == {i \in old : \A j \in fresh : ~SameUid(i, j)}
  IN {i \in v : \A j \in changed \cup lost : ~SameUid(i, j)} \cup changed

(***************************************************************************)
(* List requests: a consistent snapshot served page by page                *)
(***************************************************************************)
\* The initial list before a page of it is served; it fills this.cache.
NewList(pc) == [pc |-> pc, own |-> TRUE, snap |-> 0, todo |-> {}]

NoRelist == [snap |-> 0, todo |-> {}, fresh |-> {}]

\* Mutant: the list is taken for one version more than it shows.
ServedAhead(l, snaps) ==
  IF l.snap = 0 THEN {[snap |-> r + 1, todo |-> StoreAt(r)] : r \in snaps}
                ELSE {[snap |-> l.snap, todo |-> l.todo]}

\* The snapshot the server answers from: the first page chooses it.
Served(l, snaps) ==
  IF l.snap = 0 THEN {[snap |-> r, todo |-> StoreAt(r)] : r \in snaps}
                ELSE {[snap |-> l.snap, todo |-> l.todo]}

\* Without listFromWatchCache the list is a quorum read, with it the answer
\* may lag behind.
InitialSnaps == IF FromWatchCache THEN compacted..Len(log) ELSE {Len(log)}

\* Mutant: the relist after a failure is served from the watch cache too.
RelistSnapsCached == compacted..Len(log)

\* relistAndDiff always reads from quorum.
RelistSnaps == {Len(log)}

Pages(todo) == {p \in SUBSET todo : p = {} => todo = {}}

TokenExpired(l) == TokensExpire /\ l.snap > 0 /\ l.snap < compacted

\* The JavaScript thread is not inside a chunk.
Idle == loop # "chunk"

Fault == faults < MaxFaults /\ faults' = faults + 1

(***************************************************************************)
(* Waking those who await ready()                                          *)
(***************************************************************************)
Attach(c) ==
  /\ sub' = [s \in Subs |-> IF sub[s] = "waiting" THEN "in" ELSE sub[s]]
  /\ view' = [s \in Subs |-> IF sub[s] = "waiting" THEN c ELSE view[s]]

RejectWaiting ==
  /\ sub' = [s \in Subs |-> IF sub[s] = "waiting" THEN "failed" ELSE sub[s]]
  /\ UNCHANGED view

\* emitDeltas: every subscriber comes to hold seen[s].
Emit(seen) ==
  view' = [s \in Subs |-> IF sub[s] = "in" THEN seen[s] ELSE view[s]]

\* listUntilReady clears the cache it is about to fill.
StartInitialList ==
  /\ initialList' = "pending"
  /\ il' = NewList("list")
  /\ cache' = {}

-----------------------------------------------------------------------------
\* WatcherRegistry.acquire has just created and started the watcher: loop()
\* ran up to the first page request of the initial list.
Init ==
  /\ ServerInit
  /\ running = TRUE /\ unavailable = FALSE /\ state = "reconnecting"
  /\ cache = {} /\ rv = 0
  /\ initialList = "pending"
  /\ il = NewList("list")
  /\ loop = "awaitReady"
  /\ rl = NoRelist
  /\ pos = 0 /\ deltas = {}
  /\ sub = [s \in Subs |-> "out"]
  /\ view = [s \in Subs |-> {}]
  /\ faults = 0

ServerStep == (Write \/ Compact) /\ UNCHANGED watcherVars

(***************************************************************************)
(* listUntilReady                                                          *)
(***************************************************************************)
\* A page that is not the last one.
InitialPage ==
  /\ Idle /\ il.pc = "list" /\ ~TokenExpired(il)
  /\ \E l \in Served(il, InitialSnaps) : \E p \in Pages(l.todo) :
       /\ p # l.todo
       /\ il' = [il EXCEPT !.snap = l.snap, !.todo = l.todo \ p]
       /\ cache' = IF il.own THEN Puts(cache, p) ELSE cache
  /\ UNCHANGED <<serverVars, stream, life, state, rv, initialList, loop, subs,
                 faults>>

\* The last page: ready() resolves, which wakes the loop and the sockets.
\* The loop does not look at `running` before it goes live.
InitialListed ==
  /\ Idle /\ il.pc = "list" /\ ~TokenExpired(il)
  /\ \E l \in Served(il, InitialSnaps) :
       /\ rv' = l.snap
       /\ cache' = IF il.own THEN Puts(cache, l.todo) ELSE cache
  /\ Attach(cache')
  /\ initialList' = "done"
  /\ il' = NewList("off")
  /\ IF loop = "awaitReady" THEN loop' = "open" /\ state' = "live" /\ pos' = rv'
                            ELSE UNCHANGED <<loop, state, pos>>
  /\ UNCHANGED <<serverVars, life, rl, deltas, faults>>

\* The promise of ready() rejects: it is forgotten, the sockets give up, the
\* loop handles the error as one of its own.
RejectInitial(loopPc, loopState) ==
  /\ initialList' = "none"
  /\ il' = NewList("off")
  /\ RejectWaiting
  /\ IF loop = "awaitReady" THEN loop' = loopPc /\ state' = loopState
                            ELSE UNCHANGED <<loop, state>>

InitialFailsStopped ==
  /\ Idle /\ il.pc = "list" /\ ~running /\ Fault
  /\ RejectInitial("exited", state)
  /\ UNCHANGED <<serverVars, stream, life, cache, rv>>

\* A retryable failure (transport, 408, 429, 5xx).
InitialRetries ==
  /\ Idle /\ il.pc = "list" /\ running /\ Fault
  /\ il' = NewList("backoff")
  /\ state' = "reconnecting"
  /\ UNCHANGED <<serverVars, stream, life, cache, rv, initialList, loop, subs>>

InitialBackoffEnds ==
  /\ Idle /\ il.pc = "backoff"
  /\ \/ /\ running
        /\ il' = NewList("list")
        /\ cache' = {}
        /\ UNCHANGED <<initialList, subs, loop, state>>
     \/ /\ ~running
        /\ RejectInitial("exited", state)
        /\ UNCHANGED cache
  /\ UNCHANGED <<serverVars, stream, life, rv, faults>>

\* Any other failure, such as 403.
InitialFails ==
  /\ Idle /\ il.pc = "list" /\ running /\ Fault
  /\ RejectInitial("backoff", "reconnecting")
  /\ UNCHANGED <<serverVars, stream, life, cache, rv>>

\* The continue token expired: 410, which listUntilReady does not retry; a loop
\* that awaits the list recovers from it as from an expired watch.
InitialExpires ==
  /\ Idle /\ il.pc = "list" /\ TokenExpired(il)
  /\ RejectInitial(IF running THEN "relistGone" ELSE "exited", state)
  /\ rl' = IF loop = "awaitReady" THEN NoRelist ELSE rl
  /\ UNCHANGED <<serverVars, pos, life, cache, rv, deltas, faults>>

\* markUnavailable: everything is deleted for the subscribers.
MarkUnavailable ==
  /\ cache' = {} /\ rv' = 0
  /\ unavailable' = TRUE /\ running' = FALSE
  /\ state' = "unavailable"

WithoutCached(v) == {i \in v : \A j \in cache : ~SameUid(i, j)}

\* A 404 on the initial list: ready() resolves, and a subscriber that waited
\* for it gets an empty snapshot.
InitialUnavailable ==
  /\ Idle /\ il.pc = "list" /\ running /\ Fault
  /\ MarkUnavailable
  /\ view' = [s \in Subs |-> CASE sub[s] = "in" -> WithoutCached(view[s])
                               [] sub[s] = "waiting" -> {}
                               [] OTHER -> view[s]]
  /\ sub' = [s \in Subs |-> IF sub[s] = "waiting" THEN "in" ELSE sub[s]]
  /\ initialList' = "done"
  /\ il' = NewList("off")
  /\ loop' = IF loop \in {"awaitReady", "open", "stream"} THEN "exited" ELSE loop
  /\ UNCHANGED <<serverVars, stream>>

(***************************************************************************)
(* loop                                                                    *)
(***************************************************************************)
\* After an error or a close: what loop() does next, unless it was stopped.
StartRelist(pc) ==
  IF running THEN loop' = pc /\ rl' = NoRelist
             ELSE loop' = "exited" /\ UNCHANGED rl

BackOff ==
  IF running THEN loop' = "backoff" /\ state' = "reconnecting"
             ELSE loop' = "exited" /\ UNCHANGED state

\* The end of `await delay(backoff)` in loop(), then the top of the loop.
LoopBackoffEnds ==
  /\ loop = "backoff"
  /\ \/ /\ ~running
        /\ loop' = "exited"
        /\ UNCHANGED <<list, cache, state, pos>>
     \/ /\ running /\ rv = 0 /\ initialList = "none"
        /\ StartInitialList
        /\ loop' = "awaitReady"
        /\ UNCHANGED <<state, pos>>
     \/ /\ running /\ rv = 0 /\ initialList = "pending"
        /\ loop' = "awaitReady"
        /\ UNCHANGED <<list, cache, state, pos>>
     \/ /\ running /\ rv # 0
        /\ loop' = "open" /\ state' = "live" /\ pos' = rv
        /\ UNCHANGED <<list, cache>>
  /\ UNCHANGED <<serverVars, life, rv, rl, deltas, subs, faults>>

\* watchOnce: the API server accepts a version it still has ...
WatchOpens ==
  /\ loop = "open" /\ pos >= compacted
  /\ loop' = "stream"
  /\ UNCHANGED <<others, stream, state, cache, rv, faults>>

\* Mutant: an expired watch is retried from the same version.
WatchGoneRetried ==
  /\ loop = "open" /\ pos < compacted
  /\ loop' = "backoff" /\ state' = "reconnecting"
  /\ UNCHANGED <<others, stream, cache, rv, faults>>

\* ... and refuses, or later cuts off, one that it has forgotten.
WatchGone ==
  /\ \/ loop = "open" /\ pos < compacted /\ UNCHANGED faults
     \/ loop = "stream" /\ Fault
     \/ loop = "chunk" /\ ErrorJoinsChunk /\ Fault
  /\ StartRelist("relistGone")
  /\ deltas' = {}
  /\ UNCHANGED <<others, pos, state, cache, rv>>

\* A refused request, a broken stream, or an ERROR line other than 410.
WatchBreaks ==
  /\ loop \in {"open", "stream"} \/ (loop = "chunk" /\ ErrorJoinsChunk)
  /\ Fault
  /\ BackOff
  /\ deltas' = {}
  /\ UNCHANGED <<others, pos, cache, rv, rl>>

\* 404: the resource type is gone.
WatchUnavailable ==
  /\ loop = "open" /\ running /\ Fault
  /\ MarkUnavailable
  /\ Emit([s \in Subs |-> WithoutCached(view[s])])
  /\ loop' = "exited"
  /\ UNCHANGED <<serverVars, stream, list, sub>>

\* One event of a chunk: cache and rv move, the subscribers are told later.
WatchEvent ==
  /\ loop \in {"stream", "chunk"}
  /\ \E i \in Versions :
       /\ i > pos /\ Own(i)
       /\ \A j \in (pos + 1)..(i - 1) : ~Own(j)
       /\ rv' = i /\ pos' = i
       /\ cache' = Apply(cache, i)
       /\ deltas' = deltas \cup {i}
  /\ loop' = "chunk"
  /\ UNCHANGED <<others, state, rl, faults>>

\* A BOOKMARK: nothing of this type was written up to version b.
Bookmark ==
  /\ loop \in {"stream", "chunk"}
  /\ \E b \in Versions :
       /\ b > pos
       /\ \A j \in (pos + 1)..b : ~Own(j)
       /\ rv' = b /\ pos' = b
  /\ loop' = "chunk"
  /\ UNCHANGED <<others, state, cache, rl, deltas, faults>>

\* The chunk is used up: emitDeltas.
ChunkEnds ==
  /\ loop = "chunk"
  /\ Emit([s \in Subs |-> ApplyBatch(view[s], deltas)])
  /\ deltas' = {}
  /\ loop' = "stream"
  /\ UNCHANGED <<serverVars, pos, life, state, cache, rv, list, rl, sub,
                 faults>>

\* Mutant: the loop does not look at `running` after a watch.
WatchClosesReopens ==
  /\ loop = "stream"
  /\ loop' = "open"
  /\ UNCHANGED <<others, stream, state, cache, rv, faults>>

\* The API server ends the watch after its timeout: relistWithRetry.
WatchCloses ==
  /\ loop = "stream"
  /\ StartRelist("relist")
  /\ UNCHANGED <<others, pos, state, cache, rv, deltas, faults>>

(***************************************************************************)
(* relistAndDiff, within relistWithRetry ("relist") or after a 410         *)
(* ("relistGone")                                                          *)
(***************************************************************************)
Relisting == loop \in {"relist", "relistGone"}

RelistPage ==
  /\ Relisting /\ ~TokenExpired(rl)
  /\ \E l \in Served(rl, RelistSnaps) : \E p \in Pages(l.todo) :
       /\ p # l.todo
       /\ rl' = [snap |-> l.snap, todo |-> l.todo \ p, fresh |-> Puts(rl.fresh, p)]
  /\ UNCHANGED <<others, pos, state, cache, rv, loop, deltas, faults>>

\* The last page: the diff against the old cache is emitted and the fresh map
\* replaces it; an initial list still running goes on filling the old one.
Relisted ==
  /\ Relisting /\ ~TokenExpired(rl)
  /\ \E l \in Served(rl, RelistSnaps) :
       /\ rv' = l.snap /\ pos' = l.snap
       /\ cache' = Puts(rl.fresh, l.todo)
  /\ Emit([s \in Subs |-> ApplyDiff(view[s], cache, cache')])
  /\ state' = "live"
  /\ loop' = IF running THEN "open" ELSE "exited"
  /\ rl' = NoRelist
  /\ il' = IF il.pc = "list" THEN [il EXCEPT !.own = FALSE] ELSE il
  /\ UNCHANGED <<serverVars, life, initialList, deltas, sub, faults>>

\* A retryable failure inside relistWithRetry.
RelistRetries ==
  /\ loop = "relist" /\ running /\ Fault
  /\ loop' = "relistBackoff" /\ state' = "reconnecting"
  /\ UNCHANGED <<others, stream, cache, rv>>

RelistBackoffEnds ==
  /\ loop = "relistBackoff"
  /\ loop' = IF running THEN "relist" ELSE "exited"
  /\ rl' = NoRelist
  /\ UNCHANGED <<others, pos, state, cache, rv, deltas, faults>>

\* A failure that relistWithRetry passes on to loop().
RelistFails ==
  /\ loop = "relist" /\ Fault
  /\ BackOff
  /\ UNCHANGED <<others, stream, cache, rv>>

RelistUnavailable ==
  /\ loop = "relist" /\ running /\ Fault
  /\ MarkUnavailable
  /\ Emit([s \in Subs |-> WithoutCached(view[s])])
  /\ loop' = "exited"
  /\ UNCHANGED <<serverVars, stream, list, sub>>

\* Any failure of the relist after a 410, a 404 included.
RelistGoneFails ==
  /\ loop = "relistGone" /\ ((TokenExpired(rl) /\ UNCHANGED faults) \/ Fault)
  /\ loop' = "backoff" /\ state' = "error"
  /\ UNCHANGED <<others, stream, cache, rv>>

\* The continue token of a relist expired: 410 again.
RelistExpires ==
  /\ loop = "relist" /\ TokenExpired(rl)
  /\ StartRelist("relistGone")
  /\ UNCHANGED <<others, pos, state, cache, rv, deltas, faults>>

(***************************************************************************)
(* Subscribers and the owner                                               *)
(***************************************************************************)
\* A socket acquires the watcher and awaits ready().  The registry hands out
\* no stopped watcher, except one whose resource type is unavailable.
Subscribe(s) ==
  /\ Idle /\ sub[s] = "out" /\ (running \/ unavailable)
  /\ \/ /\ initialList = "done"
        /\ sub' = [sub EXCEPT ![s] = "in"]
        /\ view' = [view EXCEPT ![s] = cache]
        /\ UNCHANGED <<list, cache>>
     \/ /\ initialList = "pending"
        /\ sub' = [sub EXCEPT ![s] = "waiting"]
        /\ UNCHANGED <<list, cache, view>>
     \/ /\ initialList = "none" /\ running
        /\ StartInitialList
        /\ sub' = [sub EXCEPT ![s] = "waiting"]
        /\ UNCHANGED view
     \/ /\ initialList = "none" /\ ~running
        /\ sub' = [sub EXCEPT ![s] = "failed"]
        /\ UNCHANGED <<list, cache, view>>
  /\ UNCHANGED <<serverVars, stream, life, state, rv, loop, faults>>

Unsubscribe(s) ==
  /\ Idle /\ sub[s] # "out"
  /\ sub' = [sub EXCEPT ![s] = "out"]
  /\ view' = [view EXCEPT ![s] = {}]
  /\ UNCHANGED <<serverVars, stream, life, state, cache, rv, list, loop,
                 faults>>

\* stop() aborts a watch that is open; a list request is not aborted.
Stop ==
  /\ Idle /\ running
  /\ running' = FALSE
  /\ loop' = IF loop \in {"open", "stream"} THEN "exited" ELSE loop
  /\ UNCHANGED <<serverVars, stream, unavailable, state, cache, rv, list, subs,
                 faults>>

-----------------------------------------------------------------------------
ListStep == InitialPage \/ InitialListed \/ InitialBackoffEnds \/ InitialExpires

ListFault == InitialFailsStopped \/ InitialRetries \/ InitialFails \/ InitialUnavailable

LoopStep == \/ LoopBackoffEnds \/ WatchOpens \/ WatchEvent \/ ChunkEnds
            \/ RelistPage \/ Relisted \/ RelistBackoffEnds \/ RelistExpires

LoopFault == \/ WatchBreaks \/ WatchUnavailable \/ RelistRetries
             \/ RelistFails \/ RelistUnavailable

SubStep == \E s \in Subs : Subscribe(s) \/ Unsubscribe(s)

Next ==
  \/ ServerStep
  \/ ListStep \/ ListFault
  \/ LoopStep \/ LoopFault \/ WatchGone \/ RelistGoneFails
  \/ Bookmark \/ WatchCloses
  \/ SubStep \/ Stop

Spec == Init /\ [][Next]_vars

\* Requests are answered, timers fire, a chunk ends, and the API server ends
\* a watch after its timeout (timeoutSeconds=300).  Nobody has to write, fail,
\* subscribe or stop.
Fairness ==
  /\ WF_vars(ListStep)
  /\ WF_vars(LoopStep \/ WatchGone \/ RelistGoneFails)
  /\ WF_vars(WatchCloses)

FairSpec == Spec /\ Fairness

(***************************************************************************)
(* Properties                                                              *)
(***************************************************************************)
\* The cache is the store of the API server at exactly the version the next
\* watch resumes from: nothing between the two is skipped or applied twice.
CacheIsServerState ==
  (rv # 0 /\ il.pc = "off") => cache = StoreAt(rv)

\* A subscriber holds what the cache holds whenever no chunk is in progress,
\* through reconnects, relists and 410s, although it only ever gets deltas
\* (class comment, watcher.ts:49-54).
ViewMatchesCache ==
  \A s \in Subs : (sub[s] = "in" /\ Idle) => view[s] = cache

(* The inductive invariant behind these two, where TokensExpire and         *)
(* ErrorJoinsChunk are FALSE.                                              *)

\* The initial list runs only while nothing depends on the cache, and its
\* pages so far and to come make up the store it reads.
ListInv ==
  /\ il.pc # "off" =>
       /\ initialList = "pending" /\ rv = 0 /\ il.own
       /\ loop \in {"awaitReady", "backoff", "exited"}
  /\ il.pc = "list" =>
       IF il.snap = 0 THEN cache = {} /\ il.todo = {}
                      ELSE cache \cup il.todo = StoreAt(il.snap)
  /\ initialList = "pending" => il.pc # "off"
  /\ rv # 0 => initialList = "done"
  /\ loop = "awaitReady" => initialList = "pending"

\* The loop watches and relists with a cache that is the store at rv.
CacheInv ==
  /\ rv # 0 => cache = StoreAt(rv)
  /\ loop \notin {"awaitReady", "backoff", "exited"} => rv # 0
  /\ loop \in {"open", "stream", "chunk"} => pos = rv
  /\ Idle => deltas = {}
  /\ \A i \in deltas : i <= rv

RelistInv ==
  /\ IF rl.snap = 0 THEN rl = NoRelist
                    ELSE rl.fresh \cup rl.todo = StoreAt(rl.snap)
  /\ (Relisting /\ rl.snap # 0) => rl.snap >= rv

\* A subscriber is the events of the current chunk behind the cache.
ViewInv ==
  \A s \in Subs :
    /\ sub[s] = "in" => initialList = "done" /\ ApplyBatch(view[s], deltas) = cache
    /\ sub[s] = "waiting" => initialList = "pending"

\* Once listed, only a 404 takes the version away, and then everything else.
UnavailableInv ==
  /\ unavailable =>
       /\ cache = {} /\ rv = 0 /\ ~running /\ state = "unavailable"
       /\ initialList = "done" /\ loop \in {"backoff", "exited"}
  /\ (initialList = "done" /\ rv = 0) => unavailable

IInv == TypeOK /\ ListInv /\ CacheInv /\ RelistInv /\ ViewInv /\ UnavailableInv

\* The version the watcher resumes from never moves back; it is reset only
\* when the resource type disappears.
RvNeverRegresses ==
  [][rv' >= rv \/ (unavailable' /\ rv' = 0)]_vars

\* Once the type is unavailable no late list or watch answer brings objects or
\* a live status back.
UnavailableIsFinal ==
  [][unavailable => cache' = {} /\ state' = "unavailable"]_vars

\* Both: no late or lagging answer takes the watcher back (watcher.ts 146-155,
\* 326-345).
NeverGoesBack == RvNeverRegresses /\ UnavailableIsFinal

\* Once the API server is quiet every attached subscriber of a running watcher
\* ends up with exactly the objects of the store, whatever failed before.
EventuallyFresh ==
  \A s \in Subs :
    <>[](sub[s] = "in" /\ running => view[s] = StoreAt(Len(log)))

\* The same of the cache itself, which peek() and items() read.
CacheEventuallyFresh == <>[](running => cache = StoreAt(Len(log)))

\* A stopped watcher's loop ends: no connection is kept for ever.
StoppedLoopExits == ~running ~> loop = "exited"

\* Each subscriber's view implements ObjectFeed: the version it shows is rv,
\* except while a chunk's events are applied and not yet emitted.
Least(D) == CHOOSE i \in D : \A j \in D : i <= j

ShownVersion(s) ==
  IF sub[s] # "in" \/ rv = 0 THEN 0
  ELSE IF deltas # {} THEN Least(deltas) - 1
  ELSE rv

Feed(s) == INSTANCE ObjectFeed WITH pos <- ShownVersion(s), view <- view[s]

FeedStep(s) == Feed(s)!Next \/ UNCHANGED <<log, ShownVersion(s), view[s]>>

SubscribersImplementFeed ==
  (\A s \in Subs : Feed(s)!Init) /\ [][\A s \in Subs : FeedStep(s)]_vars
=============================================================================
