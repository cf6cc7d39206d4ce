# Kubus: a TLA+ verification project

Kubus is a local, single-user Kubernetes dashboard: a React single-page app in
the browser, a Fastify server on 127.0.0.1 that holds every connection to the
clusters, and an Electron shell that runs the same server in process. These
modules model the parts of it where the order of asynchronous steps matters,
check them with TLC on small instances and prove theorems about them with TLAPS.

The server is one Node.js process: JavaScript runs on one thread, so the code
between two `await`s is atomic and everything else interleaves. That is the
grain of every module here: one action is what runs between two awaits, timer
callbacks or incoming messages, with every call it makes.

## 1. Inventory

### How the parts interact

```
 browser                     server (one process)                     outside
 -------                     --------------------                     -------
 pages, stores               HTTP routes ------------+
     |                                               v
 WatchClient <== WebSocket ==> watch-socket --> ClusterManager --> kubeconfig files
 log pane    <== WebSocket ==> LogSession   --> ClusterHandle  --> SshTunnelManager -> ssh
 terminal    <== WebSocket ==> Transferable-     |    |             ExecCredentials -> plugins
                               ExecSocket        |    +-- RawClient, pollers, search index
                                                 v
                                         WatcherRegistry --> ResourceWatcher ==> API server
```

* `ClusterManager` owns at most one `ClusterHandle` (session) per context. A
  handle owns the clients, the `WatcherRegistry`, pollers and indexes. When a
  session is dropped or built, `context-reset` goes to every watch socket.
* A watch socket subscribes through the registry of the current handle; a
  `WatcherRegistry` shares one `ResourceWatcher` per resource type, by counting.
* A `ResourceWatcher` lists, then watches, and hands deltas to its subscribers:
  watch sockets, log sessions, the Helm record watcher, the reference index.
* `WatchClient` in the browser keeps a list's rows from one snapshot and the
  event batches after it; it resubscribes when its socket or the session is
  replaced.
* Sessions, probes and port forwards ask `SshTunnelManager.ensure` for a SOCKS
  port, and `ExecCredentialManager` for a token, before each request.

### The components

| Component (source) | State it keeps | Operations | What is hard | What makes it correct | Module |
|---|---|---|---|---|---|
| ResourceWatcher (`kube/watcher.ts` 56-378) | cache, resourceVersion, the promise of the initial list, the loop, subscribers | subscribe, ready, list, watch, relist and diff, back off, 404, stop | two activities on one cache; 410 and compaction; pages and chunks; failures between any two | the cache is a state of the store; subscribers never need to refetch; nothing moves back | `ResourceWatcher`, `ObjectCache`, `ApiServer`, `ObjectFeed` |
| WatcherRegistry (`watcher.ts` 386-439) | entries with a count and a linger timer | acquire, release, timer, stopAll | stale releases and timers of forgotten entries | the count is right, what is held runs, what is not held stops | `WatcherRegistry` |
| Watch wire (`client api/ws/watch-client.ts`, `ws/watch-socket.ts`) | client: rows, batches, ids, status; socket: subscriptions by id | subscribe, unsubscribe, linger, flush, reconnect, reset | messages under way across reconnects and resets; late answers | rows plus messages under way are the watcher's cache; no subscription is orphaned | `WatchWire` |
| ClusterManager (`kube/cluster-manager.ts`) | the kubeconfig, handles, attempts, probe clients, cached health | connect, disconnect, reconnect, reload, edit, remove, set jump host, probe, test | awaits on ssh and probes while the configuration changes | a session matches the configuration; none is left over; health ends up right | `ClusterManager` |
| LogSession (`ws/log-session.ts`) | pods, sources (container runs), timers, a queue of deltas | initial load, deltas, stream ends, grace, Job check, dispose | deltas queued behind awaits, restarts, pods replaced under a name | every run is read, the session ends when and only when nothing more can come | `LogSession`, `PodHistory` |
| TransferableExec, exec bridge, terminal panes, tab transfer (`ws/transferable-exec.ts`, `exec-bridge.ts`, `node-shell-socket.ts`, client `TerminalPaneImpl.tsx`, `tab-transfer.ts`) | the browser socket, a bounded buffer, the reattach timer; the upstream and its pod; the panes and the claim | attach, prepare or cancel a transfer, output, close, grace | two windows, two sockets, a timer and the upstream end in any order | output is shown in order, once; the shell ends when nobody can claim it | `Terminal` |
| Helm mutations (`helm/install.ts`, `upgrade.ts`, `rollback.ts`, `uninstall.ts`) with HelmOperationManager (`helm/operations.ts`) | release records in the cluster; the active operation per release | the steps of one revision | a failure or a crash at each step; other processes | one mutation per release; what is deployed is what the record lists; there is a revision to go back to | `HelmRelease` |
| DiscoveryCache, CrdTracker, ResourceSearchIndex (`kube/discovery.ts`, `crd-tracker.ts`, `search-index.ts`) | cached kinds, the request in flight, a fingerprint; kinds with their watch loops; two indexes of entries | discover, invalidate, poll, reconcile, list, watch, replace, demote, dispose | invalidation during a request; a stopped loop that still answers; reconciles queued behind one another | the index is what was read last; a noticed CRD is indexed | `SearchIndex` |
| SshTunnelManager (`ssh/tunnel-manager.ts`) | mapping, tunnels, ssh children, hold-off | ensure, set or move a mapping, stop, child exits, port poll | stop while starting; a reused port that somebody else has taken | one child per host, none outlives its mapping | not modelled |
| ExecCredentialManager (`kube/exec-credentials.ts`) | logins by configuration, the pending one, the last failure | attach, get, retry, retain, dispose, run, cancel | retry, reload and timeout against a running process | one process per login; paused after a failure until a retry | not modelled |
| PortForwardManager (`kube/portforward-manager.ts`) | listeners, local sockets | start, connection, stop | local close against upstream connect | no upstream without a local peer | not modelled |
| DesktopUpdater (`electron/src/updater.ts`) | one state, pending check and download | check, download, install, fail | several windows, late events | no download or install out of order | not modelled |
| ReferenceIndex, pollers (`kube/reference-index.ts`, `metrics-poller.ts`, `network-poller.ts`) | a cache of watchers, ring buffers | acquire, evict, poll | eviction during an await, late answers | as WatcherRegistry | not modelled |
| Client stores (`client/src/state/*`), settings, log ring, routes, analyses, HTTP transport, Helm engine, Electron main, pages | | | little that interleaves, or pure data | | not modelled |

`PROJECT.json` lists them all with what is left out of each and why, and the
hazards with their lines.

### What is taken as given

The Kubernetes API server (`ApiServer.tla`) is external: a log of writes whose
index is the resourceVersion. A read returns the store at some version, a watch
the entries after one, in order, unless they are compacted. Requests end: they
answer, fail or are aborted. WebSockets deliver in order until they break, and
then lose what is under way.
Time is not modelled: a timer may fire at any moment it is armed, except where
the code's own delays rule an order out (a linger of 30 seconds is longer than a
request is under way, a page reload longer than a WebSocket handshake), which the
comment of the action says.

## 2. The modules

### ApiServer, ObjectCache, ObjectFeed

`ApiServer` holds `log`, the history of writes: an object of the watched type is
created, modified or deleted, or something else of the cluster is written. An
object version is named by the index of the entry that wrote it, so "newer" is
`>`, and `StoreAt(v)` is what a list at version `v` returns. `ObjectCache` says
what a cache keyed by uid does with an event and with a batch of them, which the
server's watcher (`watcher.ts` 292-322) and the browser (`watch-client.ts`
269-285) both do. `ObjectFeed` is the abstract specification: a subscriber's view is
at all times a state the store really had, and only moves forward.

### ResourceWatcher

One watcher with two activities on one cache: `il` is `listUntilReady` (started by
`ready()`), `loop` says where `loop()` is. A list arrives in pages from one
snapshot (`InitialPage`, `RelistPage`), each an await; a chunk of watch events is
applied event by event to `cache` and `rv` and told to subscribers at its end
(`WatchEvent`, `ChunkEnds`), with no await in between, which `loop = "chunk"`
marks by disabling everything else. `Fail*`, `*Gone`, `*Unavailable` and
`*Retries` are the error paths: network failures, 410 as a status or as an ERROR
line, 404, and those at a stopped watcher. `Subscribe` and `Unsubscribe` follow
`watch-socket.ts`: snapshot from the cache after `ready()`, deltas from then on.

### WatcherRegistry

All entries one key ever has (`created` counts them): `current` is the one in the
Map, earlier ones survive in release functions and timers. `StopAll`
is the disposal of the session, after which a route that kept the handle can still
acquire.

### WatchWire

The browser's `WatchClient` with one subscription, two directed queues of messages,
the watch socket, and the watchers it gets from the session's registry.
A watcher is reduced to the version it shows: what its subscribers hold
is the store at that version, which is what `ResourceWatcher` shows
(`SubscribersImplementFeed`). `SessionEnds/Starts/Ready` are the three moments of
`ClusterManager` the wire sees. A snapshot replaces the rows at once, and the batches
that wait for the 100 ms flush are applied over it afterwards, as in
`watch-client.ts` 181-187 and 278-289. `overtaken` is the history of that: the uids of
the batches that waited when a snapshot came, until another event about them comes.
The properties of the rows exempt these and nothing else, so that they say of every other
object in the same list that it is right.

### ClusterManager

One context: its entry in the file and as loaded, its jump host, every handle ever
built, the attempt (`connectFresh`) with its two awaits (`tunnel`, `probe`),
one subscriber, the probe client and the two probes that may run at once (the
background run and "Test connection"). `up` is the set of definitions whose
API server answers. `Reload`, `EditCluster`, `RemoveContext` and `SetSshHost` end
with `refreshCachedHealth()`, which is part of those actions (`Refresh`).
Which of several files supplies an entry, and how files are parsed and
patched, is not modelled: a definition is a model value.

### PodHistory, LogSession

`PodHistory` is external: a history of pod versions (created, started, exited,
backing off, terminating, deleted, replaced under the name) and how far the
watcher's cache has come in it. `LogSession` is one `/ws/logs` socket with the
promise queue its work runs on: `session.queue` holds the tasks, `await` what the
one at the head waits for, and nothing else happens before a task that waits for
nothing is done, as in the code, where it is one turn of the event loop. `OnDelta`,
`OnStreamFinished`, `OnGraceExpired`, `OnCheckDone` and `FinishIfJobDone` are the
tasks; `Advance` is what a source does when its pod is at some run. The
viewer's end, with its replay cursor, is not modelled.

### Terminal

One terminal: `shell` (the bridge with the exec handshake or the node shell's
pod), `facade` (`TransferableExecSocket`), `links` (every browser connection, with
two queues), `panes` (what each window has of the tab) and `transfer` (the hand-off
through the windows' shared channel). Output is numbered; `lost` collects what
a full buffer, a broken connection or a reload may cost the screen that is
attached, so that `Conserved` can say that nothing else is lost.

### HelmRelease

One release: its `records` in the cluster, the `live` resources, and requests of
several processes, of which `active` holds those whose `activeByRelease` has the
release. Every request to the API server is an action of its own that may fail
before or after its effect; a process may crash between any two. A manifest maps
resources to contents; the apply, prune, delete and forget loops take one resource
or record a step, in the code's order. `stranded`, `leaked`, `anchored` and `torn`
are history: they name what a failure has left behind. An uninstall does not look at
pending records (`uninstall.ts` 26-29), and `activeByRelease` belongs to one process, so an
uninstall may begin beside an operation of another process and an operation beside an
uninstall; `crossed` records that it happened. An update of a record that was deleted
meanwhile is refused, and `Supersede` writes back the manifest it read with the list.

### SearchIndex

The CRD poll, the discovery cache with its request in flight, `reconcileKinds()`
with its queued rerun, and each kind's list and watch loop with the two maps of
entries. A kind has an object or has none, of one name; the count of its writes
is its version. A request in flight carries in `may` every state that the server
may have answered from. A kind that is stopped and started again leaves loops of
earlier states behind, one per slot. What a discovery answers is cached even if
`invalidate()` came while it was under way. Three parts of the state are history:
`tracker.noticed` says that no CRD has changed since `onChange()` was last called,
`disc.poor` that the kinds cached or under way were asked for before that call, or
lack a group that was down, and `rec.misled` that the last reconcile went by such kinds, by
none, or by a wrong answer about the transport.

## 3. The runs

| Run | Question | Bounds | States |
|---|---|---|---|
| `watcher` | cache, views, versions, refinement of `ObjectFeed`, convergence, end of a stopped loop; in the second instance `Faulty`, convergence of the cache when continue tokens expire between pages and ERROR lines share a chunk with events | 2 objects, 4 log entries, 1 failure, 1 subscriber, lists from the watch cache (in `Faulty` quorum lists) | 221 000 |
| `watcher_error_in_chunk` | violation: an ERROR line behind events of its chunk (`watcher.ts:304`) loses their deltas | 3 entries | |
| `registry` | counting, sharing, lingering, nothing leaked | 3 holders, 3 successive entries | 9 000 |
| `wire` | rows against the watcher's cache while sessions are replaced, sockets break and lists fail late | 2 objects, 2 watchers, 5 subscriptions; of a second wire id, two more writes and a fault at most two | 985 000 |
| `wire_late_rejection` | violation: the late failure of an old list removes the newer subscription (`watch-socket.ts:144`) | 2 entries, 1 break, 1 reset | |
| `sessions` | sessions against the configuration, zombies, subscribers, health | 2 definitions, 1 jump host, 2 handles, 1 edit, 1 outage | 555 000 |
| `sessions_edit_mid_tunnel` | violation: a jump host set while a connect awaits the old one (`cluster-manager.ts:746`) | as above | |
| `log_session` | does a session read every run, end rightly, leave nothing | 2 names, 4 pod versions, 1 failure, 1 Job recheck, relists | 984 000 |
| `terminal` | output through moves between windows, orphaned shells, frozen or unattended terminals | 2 windows, 2 chunks, a buffer of 1, 2 transfers (two chunks or two transfers, not both), 1 broken connection, reload or closed window | 525 000 |
| `terminal_late_ready` | violation: a `transfer-ready` of an earlier preparation settles the next one (`TerminalPaneImpl.tsx:228`) | 2 transfers | |
| `helm` | the lock, the anchor, the live resources | 2 processes, 2 requests, 2 resources, 3 charts, 3 revisions, 3 failures or crashes; after an uninstall has met a request, no failures and no second meeting | 2 046 000 |
| `search_index` | the index against what was read, noticed CRDs, convergence | 1 custom kind, 2 slots, 2 writes, its CRD comes, goes and comes back, 1 failure; of a third change, a restricted role and a failure only one | 487 000 |

Why the bounds are enough to be interesting: four entries let an object be created,
deleted and another one changed around a page, a chunk or a relist; one
failure can hit each request and each retry of it; three registry entries let a
timer of a forgotten entry meet two successors; two handles and one edit let every
operation meet a session, an attempt and a probe from before it, and one edit on
top of the file's own makes old and new definition differ. Two pod names and four
versions let one pod restart, or be replaced under its name, while the other is
still asked about. Two transfers move a terminal there and back, and a buffer of
one is full at the second chunk. Three revisions are an install, an upgrade and
a rollback of it, with a second process at any step of each. One
custom kind that comes, goes and comes back gives the reconcile a kind to start, to stop
and to start again while its loop still runs, and the poll a change that it misses.

A larger instance that also held: `sessions` with two edits (5.5 million states).

`MC` modules make the instances: `MCInit` of the sessions starts with one of the
definitions, which are interchangeable; `MCInit` of the search index leaves out
clusters that differ in nothing that matters; `MCNext` of the wire, the terminal, the
releases and the search index bounds combinations. What they cut are writes, users and faults, to which no
fairness is due, never a step that must come. The races that the violation runs
show are switched on by constants (`ErrorJoinsChunk`, `LateRejections` with two
faults, `EditsWhileTunneling`, `LateReplies`).

Deadlock is not checked, except for `helm`: a stopped watcher, a disposed registry,
a closed list or terminal, a finished log session and a removed context have
nothing left to do.

### Fairness

Requests end and timers fire: requests have deadlines and fail otherwise, and
Node's timers fire. Writers, users, failures and editors owe nothing; failures are
bounded in number, which is what "once failures cease" needs.

* `ResourceWatcher`: `WF` of each of its activities, which have one next step at a
  time. `WatcherRegistry`: of each linger timer. `ClusterManager`: of the attempt, of
  each probe, and of the reload timer.
* `WatchWire` and `Terminal`: `WF` of the whole of what server and browser do by
  themselves (`Works`, `Server \/ Browser`): while any of it is left, some is done. That
  is weaker than fairness of each step, and enough, because nothing there can
  repeat for ever.
* `SearchIndex`: `WF` of the safety timer, the poll, the discovery, the probe, and of
  each loop of a kind.
* `LogSession` and `HelmRelease` have no liveness property: `RestsRightly` says of
  every state in which a log session has come to rest that it may rest there, which is a
  safety property and stronger than progress for one fair scheduler.

`HealthSettles` speaks of contexts without a jump host, because a tunnel may fail
for ever.

### What the passing properties say

* `CacheIsServerState`, `ViewMatchesCache`, `SubscribersImplementFeed`: no delta is
  skipped or doubled between the store and a subscriber, across 410s, relists,
  failed relists and clean closes; `NeverGoesBack`: no late answer takes the watcher
  back, nor revives a type that is gone; `EventuallyFresh`,
  `FaultyCacheEventuallyFresh`, `StoppedLoopExits`: it gets there, and it ends.
* `RefsCountHolders`, `HeldIsRunning`, `OneWatcherPerType`, `UnheldStops`: the
  counting survives double releases, stale timers, disposal and 404s.
* `InFlightConverges`: at any moment the rows on screen plus the messages under way
  make up the watcher's cache, and `RowsNeverRegress`: no row goes back, in both cases
  but for an object of which an event waited for the flush when a snapshot came, with none
  since (see below); `NoOrphans`; `Settles`: an open list ends up fresh, with the same
  exemption, and is said to be live, unless a late close event was the last it was told.
* `SessionMatchesConfig`, `NobodyOnDisposed`, `NoZombies`, `HealthSettles`.
* `DisposedIsQuiet`: dispose() leaves no lease, timer or request, whatever it meets;
  `CompleteIsHonest`: a session over fixed pods says that it is complete only when every
  pod is and its last run was read; `RestsRightly`: a session at rest has nothing left
  to read and something to wait for.
* `Conserved`: a moved terminal loses, repeats and reorders nothing;
  `NoOrphanShell`, `EndsUnattended`, `NothingLingers`: the shell ends when nobody can have
  it, not while somebody has, and its output is not held back for ever.
* `PendingIsLock`: one mutation is at work on a release, over all processes;
  `DeployedAnchor`: there is a revision to go back to; `ManifestIsLive`: what the deployed
  revision lists is what is in the cluster, but for what is named in the history
  variables. All three until an uninstall meets a request of another process
  (`crossed`, see below), except that no record stays pending without its operation or a
  lost update, which holds after that too.
* `IndexIsServerState`: an entry is what the kind's loop read last, whatever loops of
  earlier states still answer; `NoticedIsIndexed`: a CRD that the poll noticed needs
  no safety timer, unless the last reconcile was misled (see below); `Settles`: a search
  comes to find what there is, also after that.

Each property has a mutant in its module (an operator with "Mutant" in its
comment, used nowhere): a plausible bug that the property catches.

### Findings

1. `watcher.ts:304`: an ERROR line behind events of one chunk throws before
   `emitDeltas`; the events are in the cache, so the relist's diff omits them, and
   the subscribers never learn (`watcher_error_in_chunk`).
2. `watch-socket.ts:144`: the catch handler of an old subscription deletes whatever
   the Map holds under the id; the newer subscription cannot be stopped any more
   (`wire_late_rejection`).
3. `cluster-manager.ts:746`: `connectFresh` reads the jump host before it awaits the
   tunnel; a jump host set meanwhile is ignored by the session
   (`sessions_edit_mid_tunnel`). The same window lets a context be removed under a
   session that is then disposed of without `context-reset`.
4. `TerminalPaneImpl.tsx:228`: `transfer-ready` names no preparation; one that comes
   after its timeout settles the next one, before the server holds the output
   back for it (`terminal_late_ready`).

Three races are steps of the passing runs and theorems, and break what the code means to
guarantee. The properties hold of everything but these, which a history variable
names; without its exemption TLC finds each property violated:

* Rows behind the flush (`overtaken`; `watch-client.ts` 181-187, 278-289). The rows have
  version 1 of an object, version 2 waits for the flush. The session is replaced, the list
  resubscribes under the same id, and the new snapshot has version 3. It replaces the rows at
  once, and the flush puts version 2 over it: `RowsNeverRegress` fails in 19 states,
  `InFlightConverges` in 18. Nothing asks again, so the row stays as it is until the object
  changes: `Settles` fails in a lasso of 22 states. The cause is that a snapshot
  leaves `sub.pending` as it is.
* An uninstall beside an operation of another process (`crossed`; `uninstall.ts` 26-29). The
  comment at `operations.ts` 83-87 says that it "must never overlap an install, upgrade, or
  rollback of the same release"; the exclusion is a `Map` of one process, keyed by the name of
  the context, so that two processes, or two contexts of one cluster, do overlap. `p1` is in
  its install, past its pending record. `p2` uninstalls, finds nothing to delete yet, and
  deletes the records, the pending one with them. `p1` then applies a resource that no
  record lists: `ManifestIsLive` fails in 11 states. Or `p2` installs the release again
  beside `p1`, with a record of the same name: `PendingIsLock` fails in 12 states. When
  `p1` then finds its record gone and goes to `fail()`, and `p2` has deployed its own of that
  name meanwhile, `p1` marks that one as failed: `DeployedAnchor` fails in 25 states.
* A discovery that `invalidate()` does not recall (`disc.poor`, `rec.misled`;
  `discovery.ts` 80-91). The comment at `search-index.ts:341` says that a "CRD change
  mid-reconcile must not be lost until the safety interval". The first reconcile asks for the
  kinds, the CRD comes, and the poll notices it. The reconcile is queued behind the
  first one and the cache is invalidated; then the request from before the CRD answers,
  its answer is cached, and the queued reconcile goes by it: `NoticedIsIndexed` fails in 10
  states, without any failure. `Settles` shows that the safety timer repairs it.

Other things seen while modelling, without a run of their own. Most are excluded by a
constant or exempted by a history variable, which says so where it is declared:

* Watch wire: a close event later than the next connection, which marks a live list as
  reconnecting until its next status (`lateClose`, `watch-client.ts:234`).
  ResourceWatcher: a 410 on the initial list (`watcher.ts:80`) and a stop during it
  (`watcher.ts:229`), which costs one more watch but still ends. After such a 410 a new
  subscriber's `ready()` lists beside the recovering loop; if that list is answered by a 404,
  the answer to the loop's relist still fills the cache of the type that is marked
  unavailable (`UnavailableIsFinal` fails in 10 states with `TokensExpire`, which the
  instance that checks it does not have).
* LogSession: `checkDone()` reads the cache, which is ahead of deltas of the same
  batch, so a session may say that it is complete without the last run of a restarted
  container (`log-session.ts:577`, the exemption `Unheard`); `finishIfJobDone()` finishes
  after its await although a pod joined meanwhile (605); a read that failed leaves an
  entry waiting for a pod that is not there (`unsure`); a Job that is done after
  the last recheck never closes its session.
* Terminal: output that is held back is dropped when the shell exits during a
  transfer; a token that expires late releases the output of a transfer that is
  complete; a source that is reloaded during a transfer leaves the tab in two windows; a
  claimed tab that is closed before its session frame leaves the source frozen until
  its token expires.
* Helm: a failed upgrade or rollback whose manifest drops a resource leaves it in the
  cluster unlisted (`leaked`, `upgrade.ts:199`); a partly failed uninstall leaves the
  latest record deployed although resources are gone (`torn`); a lost reply to the last
  record update marks a revision failed that is applied.
* Search index: a CRD that is removed and recreated between two polls keeps its
  fingerprint; if its kind was given up for a 404 in between, it stays so
  (`search-index.ts:616`, `CameBack`); a list that is under way when its kind is stopped still
  writes its entries (`spoiled`).

## 4. The proofs

| Module | Theorem | For every |
|---|---|---|
| `ResourceWatcher_proofs` | `TypeCorrect`, `Inductive`, `CacheCorrect`, `ViewCorrect`, `RvCorrect`, `UnavailableCorrect`, `NeverBack`, `FeedImplemented` | number of objects, subscribers, writes, failures |
| `WatcherRegistry_proofs` | `Inductive`, `TypeCorrect`, `CountCorrect`, `HeldCorrect`, `SharedCorrect` | number of holders and entries |
| `ClusterManager_proofs` | `TypeCorrect`, `NoneLeftOver`, `SessionInvariant`, `SessionsMatch`, `NobodyStranded` | set of definitions and hosts, number of sessions and edits |
| `HelmRelease_proofs` | `TypeCorrect`, `Locked`, `Anchored`, `LiveCorrect` | number of processes, requests, resources, revisions, failures |
| `SearchIndex_proofs` | `TypeCorrect`, `IndexCorrect`, `NoticedCorrect` | set of kinds, number of slots, writes, CRD changes, failures |
| `Terminal_proofs` | `TypeCorrect`, `NoneOrphaned`, `NotEndedAttached`, `NothingLost` | set of windows, number of chunks, size of the buffer, number of transfers and faults |
| `LogSession_proofs` | `TypeCorrect`, `Quiet`, `FinishIsHonest`, `RestsAlways` | set of names, number of versions, faults and rechecks |
| `WatchWire_proofs` | `TypeCorrect`, `NeverOrphaned`, `Converges`, `NeverBack` | number of wire ids, watchers, subscriptions, writes, faults |

Every inductive invariant was first checked by TLC on an instance of its module.

**ResourceWatcher.** `CacheIsServerState` is not inductive: between two pages, in a
relist or in a chunk the cache is behind or ahead of what it will be. `IInv` adds
what each activity has in hand: `ListInv` (the pages so far and those to come are
one snapshot), `RelistInv` (the same for the fresh list, which is never older than
`rv`), `CacheInv` (inside a chunk the deltas are the events between what was told
and `rv`), `ViewInv` (a subscriber is the deltas of the chunk behind the cache) and
`UnavailableInv`. It is proved under `~TokensExpire` and `~ErrorJoinsChunk`; without
these the code does not have it (finding 1; the instance `Faulty` of the run
`watcher` shows what is left). The refinement follows from `IInv`:
the version a view shows is `rv`, or the last one before the chunk in progress.
`NeverGoesBack` is an action property: each action either raises `rv`, or marks the type
unavailable.

**WatcherRegistry.** `LingerInv` ties an armed timer to an entry without holders,
`CurrentInv` ties holders and timers to the entry in the Map until disposal;
cardinalities come from `FiniteSetTheorems`.

**ClusterManager.** `HandlesInv` is what holds whatever is edited and when: the types
of the sessions, that there is no session while an attempt awaits its tunnel, and
`NoZombies`, which is only inductive with that. `SessionInv` adds, for
`SessionMatchesConfig`, the sessions not yet activated (`CurrentFresh`) and the attempt that
will build one (`TunnelFresh`), and ties subscribers to the session in the Map
(`AttachedToCurrent`). These need `~EditsWhileTunneling`: `TunnelFresh` is exactly what
finding 3 breaks.

**HelmRelease.** The heart is that the pending record is a lock. `AloneInv` says that an
operation under way has its process in `active`, that a process has one, and that nobody is
beside an uninstall; `HistoryInv` that the revisions are an interval of which only the
latest may be pending; `HeldInv` that a pending record belongs to the request at
work on it, or is stranded. All but `HeldInv` and the types (`CalmInv`) hold until an
uninstall meets another request; that step is in the specification, and the proof shows
which actions can make it: `Begin` and `BeginUninstall`. So two operations at work would
each have a pending record, both would be the latest, and one revision would have been
created twice. From there
`AnchorInv` follows the order of the final updates (the new record is deployed before
the old ones are superseded), and `ManifestIsLive` needs for each step of the loops
what is done and what is left: `LoopInv`, `LiveInv` and `CoveredInv` (nothing is in the
cluster that nobody lists, will prune or has leaked).

**SearchIndex.** `IndexInv` is for `IndexIsServerState`: `OwnerInv` says that
each state of a kind is where its loop may be, that it runs exactly as long as the Map
holds it, and that a stopped one under way can at most spoil its kind; `EntryInv` ties both
maps of entries to that state's version.
`ReconcileInv` is for `NoticedIsIndexed`: `StartInv` (a kind that is started belongs to the
reconcile in progress), `CurrentInv` (what the discovery cache or the request in flight
holds is poor or current as long as the last change is noticed) and `NoticedInv` (a kind
there is, is in the Map, or the reconcile in progress brings it in, starts again or was
misled).
`NoticedCorrect` has no assumption: CRDs come and go as often as `MaxLife` says, answers
lag, and discoveries fail.

**Terminal.** `SafeInv` is what each step keeps, `LateReplies` or not. `BaseInv` ties the parts
together: a connection belongs to one pane (`PanesInv`), an armed reattach timer to
the loss of the current connection, and a connection that says that it is going to one
that is broken (`LinksInv`, from which `EndsUnattended` follows), and what is left of the shell
to a facade that has not ended (`ShellInv`, for `NoOrphanShell`). `TransferInv` says that a
transfer has one source, one claim and one adopter; the arrival of a session needs it.

The theorem `NothingLost` is about the output: `Conserved` compares the screen of the attached window with all that was
written. Beside `SafeInv` it needs `OrderInv` (what was shown or sent comes before what
is held back), `HeldInv` (output is held back only in a transfer or without a
window), `WaitingInv` (the source of an adopter that waits stays the source) and
`CoverInv` (the screen that is attached, or waits to be, lacks only what is on its way, held
or lost). The key step is the arrival of `ready`: by then nothing is under way to the
window that gives the terminal up, so its screen has all that was sent. `ArrivedInv` says that
no reply of an earlier transfer meets this one; it is the only part that needs
`~LateReplies`, and finding 4 is what breaks it.

**WatchWire.** `NoOrphans` alone is not inductive, because a list that fails deletes what
the Map holds under an id by then. `ServedInv` adds two orders: a subscription that holds a
watcher is the last of its id, and later subscriptions are never on earlier
watchers. With `CurrentInv` (only the watcher created last runs) a newer subscription
under the id of one that still waits is on the same watcher and waits too, so it is
rejected with it. `UpInv` gives every id that the browser has let go an `unsub` under way.
A watcher that was stopped breaks the argument when its list fails: `~LateRejections`,
finding 2. The rest builds on that:

* `TypeInv` (`TypeCorrect`, without any assumption) is what the types need of the link, the
  tables, the requests (in the order of their ids, none behind the tables), the messages
  and the rows.
* `BoundInv` says that whoever is served is on the newest watcher, and that nothing under way is
  newer than what it shows; `ChainInv` that the rows and each snapshot have one version of
  an object, that waiting batches and messages go up, and that messages are newer than
  the rows, which a waiting batch need not be. Each write, batch, relist and snapshot extends such a chain at its end; a
  flush or a message that is received shortens it at its head.
* `WaitInv` says of each row that what waits about its object ends with something no older,
  unless the object is `overtaken`. `NeverBack` is read off it and `ChainInv`.
* `ConvInv` is `InFlightConverges`, object by object, until a reset or an `unsub` for the list
  is under way (`Settled`): then the rows belong to a watcher that is given up. It speaks of the
  objects that are not overtaken, and of those of which a message under way still tells
  (`Sure`): a snapshot or an event about an object that is received makes it right
  again. A batch that has each object's last write since version `p` leads from the store
  at `p` to the store at `q` (`Chunk` and `Diff` both do).

`Converges` and `NeverBack` assume `~LateRejections`, and nothing about the flush: the snapshot
that overtakes it is a step like the others. The assumption is needed: a
subscription that nobody can stop any more goes on sending under the id of
its successor, and if its watcher is stopped during a relist, the rows get ahead of the watcher
that serves the list. That takes three faults; the run `wire` allows one, so it
has both properties with `LateRejections` switched on.

`ApplyAll`, `AfterAll` and `Sends` go through sequences; they are recursive functions, and what
they compute for every length is proved by induction over the length, which
`WellFoundedInduction` gives for sets of numbers (a least counterexample) without
an operator for the provers to instantiate.

**LogSession.** `Base` has what a session is in each of its phases: before its tasks (`Before`),
in its initial load (`Loading`: the load is the head of the queue and may await, behind it are
only deltas) and after it (`Ready`), and `QuietInv` once it is disposed. `HistInv` and
`OrderInv` say what the history of the pods and the deltas in the queue look like; that a
relist's deltas keep them (`RelistBrings`) rests on what `Picked` returns, by induction over
its length. Each task is shown to leave such a queue (`Mostly`, `Turned`), whatever `Advance`
made of its source.

`RestsRightly` and `CompleteIsHonest` need what is done and what is due, `Opened` on top of
`Base`. With d the versions that queued deltas tell of (`Told`), every entry fits its pod
(`Fits`): it shows the run that the cache shows, or that version is in d, or its stream is
open (`AtLatest`); if its pod is deleted, the deletion is in d (`Leaves`); a pod of the
workload without an entry is in d (`Listed`). An open stream or grace period has its request
or timer, or the task that the end of one queued (`Attended`), and when all entries have ended
on finished pods with nothing of them in d, the socket is closed or, for a Job, one more look
at it is due (`DueInv`). d itself has to be closed: of a pod it tells of it has all that
follows (`Follow`), or a session would add a pod from an old delta and never hear that it
left. During the initial load the same holds of what was found so far (`LoadInv`). It is an
invariant because the cache moves and the deltas are queued in one step (`Deliver`),
`onDelta` takes from d only what the entry then shows, and every task that can
end an entry goes on to `checkDone` (a pod that joins is read or waited for). Names whose one-off read or matcher request failed, or
found what the watcher had not shown, are left out (`unsure`): for these the
properties do not hold either. At rest d is empty, so what the cache shows
is what the entries show. `FinishIsHonest` takes `Opened` after the step: over
fixed pods only `checkDone` sets `finishing`, and it reads the cache of the same step.

**Only model-checked:** every liveness property (fairness and `ENABLED` are out of the
prover's reach). Every other property of the passing runs is the statement of a theorem. No
module with a theorem reaches a `RECURSIVE` operator.

## 5. What is left

1. `SshTunnel`, to be composed with `ClusterManager` through `ensure`: one child per host; a
   child outlives no mapping, which is expected to fail for a stop during
   `findFreePort`. `ExecCredentials`, `PortForward` and `DesktopUpdater` after it.
2. Of what is modelled in part: several subscriptions of one wire, the scans of custom
   resources in the search index, the progress history of Helm operations.
