------------------------------ MODULE WatchWire ------------------------------
(***************************************************************************)
(* One watch subscription on its way to the screen: the browser's          *)
(* WatchClient (client/src/api/ws/watch-client.ts), the WebSocket and the  *)
(* server's watch socket (server/src/ws/watch-socket.ts), over the         *)
(* watchers of the connected cluster.                                      *)
(*                                                                         *)
(* A watcher is what ObjectFeed promises: its cache is the store at some   *)
(* version and moves forward by batches of deltas.  Sockets break, the     *)
(* cluster session is torn down and rebuilt (which the server announces    *)
(* with context-reset), components subscribe and leave.                    *)
(***************************************************************************)
EXTENDS ObjectCache, SequencesExt

CONSTANTS MaxIds,       \* bound on the wire ids the client uses up
          MaxWatchers,  \* bound on the watchers ever created
          MaxServed,    \* bound on the subscriptions the server ever accepts
          MaxFaults,    \* bound on broken connections, rejected lists and
                        \* sessions torn down, taken together
          LateRejections,  \* the list of a stopped watcher may fail later
          LateCloses       \* a close event may come after the reconnection

ASSUME BoundsAssumption ==
  {MaxIds, MaxWatchers, MaxServed, MaxFaults} \subseteq Nat
ASSUME RacesAssumption ==
  {LateRejections, LateCloses} \subseteq BOOLEAN

VARIABLES
  session,   \* the ClusterHandle: none, probing (reachable already), or ready
  current,   \* the watcher its registry holds for the type; 0 for none
  watchers,  \* every watcher created: what it does, the version it shows
  served,    \* every subscription accepted, in order
  byId,      \* the socket's `subscriptions`: index into served; 0 for none
  conn,      \* the number of the current connection
  up, down,  \* what is under way to the server, to the browser
  ws,        \* this.ws
  lateClose, \* the close event of a socket that was replaced: none, due, or
             \* came, and no status since
  ids,       \* this.counter
  wire,      \* the wire id of the subscription; 0 for none
  attached,  \* some component is subscribed
  linger,    \* lingerTimer is armed
  cache,     \* sub.cache
  cached,    \* sub.cache is defined
  pending,   \* sub.pending: batches, oldest first
  flush,     \* flushTimer is armed
  overtaken, \* history: the uids whose last event, of those the browser received
             \* since the snapshot or had waiting then, was waiting then
  status,    \* sub.lastStatus
  faults

sessions == <<session, current>>
sockets == <<served, byId>>
link == <<conn, ws, lateClose>>
ui == <<ids, wire, attached, linger>>
rows == <<cache, cached, pending, flush, overtaken>>
clientVars == <<link, ui, rows, status>>
vars == <<serverVars, sessions, watchers, sockets, up, down, clientVars, faults>>

Ids == 1..MaxIds
NoId == 0

Message == [op : {"sub", "unsub", "snapshot", "events", "status", "reset"},
            id : 0..MaxIds, objects : SUBSET Versions,
            state : {"", "live", "error"}]

Msg(op, id, objects, state) ==
  [op |-> op, id |-> id, objects |-> objects, state |-> state]

UidsOf(objects) == {log[i].uid : i \in objects}

TypeOK ==
  /\ ServerTypeOK
  /\ session \in {"none", "probing", "ready"}
  /\ current \in 0..Len(watchers)
  /\ watchers \in Seq([life : {"running", "listing", "watching", "relisting", "stopped"},
                       shows : 0..Len(log)])
  /\ served \in Seq([id : Ids, watcher : 1..Len(watchers), conn : 1..(MaxFaults + 1),
                     st : {"waiting", "cancelled", "in", "stopped"}])
  /\ byId \in [Ids -> 0..Len(served)]
  /\ conn \in 0..(MaxFaults + 1)
  /\ up \in Seq(Message) /\ down \in Seq(Message)
  /\ ws \in {"closed", "closing", "connecting", "open"}
  /\ lateClose \in {"none", "due", "came"}
  /\ ids \in 0..MaxIds /\ wire \in 0..ids
  /\ attached \in BOOLEAN /\ linger \in BOOLEAN
  /\ cache \subseteq Versions /\ cached \in BOOLEAN
  /\ pending \in Seq(SUBSET Versions)
  /\ flush \in BOOLEAN /\ overtaken \subseteq UidsOf(Versions)
  /\ status \in {"none", "live", "reconnecting", "error"}
  /\ faults \in 0..MaxFaults

\* The list holds an object to begin with.
Init ==
  /\ \E u \in Uids : log = <<[type |-> "SET", uid |-> u]>>
  /\ compacted = 1
  /\ session = "none" /\ current = 0
  /\ watchers = <<>> /\ served = <<>>
  /\ byId = [i \in Ids |-> 0]
  /\ conn = 0 /\ up = <<>> /\ down = <<>>
  /\ ws = "closed" /\ lateClose = "none"
  /\ ids = 0 /\ wire = NoId /\ attached = FALSE /\ linger = FALSE
  /\ cache = {} /\ cached = FALSE /\ pending = <<>> /\ flush = FALSE
  /\ overtaken = {}
  /\ status = "none"
  /\ faults = 0

Fault == faults < MaxFaults /\ faults' = faults + 1

\* A write to the list; one to another type would reach no watcher.
ApiWrite ==
  /\ Write /\ log'[Len(log')].type # "OTHER"
  /\ UNCHANGED <<sessions, watchers, sockets, up, down, clientVars, faults>>

(***************************************************************************)
(* WatchClient                                                             *)
(***************************************************************************)
Sub(id) == Msg("sub", id, {}, "")
Unsub(id) == Msg("unsub", id, {}, "")

SendIfOpen(messages) == up' = IF ws = "open" THEN up \o messages ELSE up

\* ensureConnected, with whatever close event is still to come.
Connecting ==
  /\ ws' = "connecting"
  /\ lateClose' = IF ws = "closing" THEN "due" ELSE lateClose
  /\ UNCHANGED conn

MayConnect == ws = "closed" \/ (ws = "closing" /\ LateCloses)

NoRows ==
  /\ cache' = {} /\ cached' = FALSE /\ pending' = <<>> /\ flush' = FALSE
  /\ overtaken' = {}

\* The first component subscribes.
SubscribeNew ==
  /\ ~attached /\ wire = NoId /\ ids < MaxIds
  /\ ids' = ids + 1 /\ wire' = ids + 1
  /\ attached' = TRUE
  /\ NoRows
  /\ status' = "none"
  /\ IF MayConnect THEN Connecting ELSE UNCHANGED link
  /\ SendIfOpen(<<Sub(ids + 1)>>)
  /\ UNCHANGED <<serverVars, sessions, watchers, sockets, down, linger, faults>>

\* A component subscribes within 30 seconds of the last one's leaving.
SubscribeAgain ==
  /\ ~attached /\ wire # NoId
  /\ attached' = TRUE /\ linger' = FALSE
  /\ UNCHANGED <<serverVars, sessions, watchers, sockets, up, down, link, ids,
                 wire, rows, status, faults>>

\* The last component leaves.
Leave ==
  /\ attached
  /\ attached' = FALSE /\ linger' = TRUE
  /\ UNCHANGED <<serverVars, sessions, watchers, sockets, up, down, link, ids,
                 wire, rows, status, faults>>

\* Mutant: the server is not told.
TeardownSilent ==
  /\ linger
  /\ linger' = FALSE /\ wire' = NoId
  /\ NoRows
  /\ status' = "none"
  /\ UNCHANGED <<serverVars, sessions, watchers, sockets, up, down, link, ids,
                 attached, faults>>

Teardown ==
  /\ linger
  /\ linger' = FALSE /\ wire' = NoId
  /\ NoRows
  /\ status' = "none"
  /\ SendIfOpen(<<Unsub(wire)>>)
  /\ UNCHANGED <<serverVars, sessions, watchers, sockets, down, link, ids,
                 attached, faults>>

\* The retry timer, another subscription, or reconnectNow.  A failed attempt
\* only delays the next one.
Reconnect ==
  /\ MayConnect
  /\ Connecting
  /\ UNCHANGED <<serverVars, sessions, watchers, sockets, up, down, ui, rows,
                 status, faults>>

\* Mutant: only a subscription made since is sent, not all of them again.
OpensSilent ==
  /\ ws = "connecting"
  /\ ws' = "open" /\ conn' = conn + 1
  /\ up' = IF wire # NoId /\ ~cached THEN <<Sub(wire)>> ELSE <<>>
  /\ UNCHANGED <<serverVars, sessions, watchers, sockets, down, lateClose, ui,
                 rows, status, faults>>

\* onopen: resubscribe all.
Opens ==
  /\ ws = "connecting"
  /\ ws' = "open" /\ conn' = conn + 1
  /\ up' = IF wire # NoId THEN <<Sub(wire)>> ELSE <<>>
  /\ UNCHANGED <<serverVars, sessions, watchers, sockets, down, lateClose, ui,
                 rows, status, faults>>

Stopped(s) == [s EXCEPT !.st = IF @ = "waiting" THEN "cancelled" ELSE
                               IF @ = "in" THEN "stopped" ELSE @]

\* The connection is lost with everything under way; the server stops the
\* subscriptions of the socket's Map.
Breaks ==
  /\ ws = "open" /\ Fault
  /\ ws' = "closing"
  /\ up' = <<>> /\ down' = <<>>
  /\ served' = [k \in DOMAIN served |->
                  IF k \in Range(byId) THEN Stopped(served[k]) ELSE served[k]]
  /\ byId' = [i \in Ids |-> 0]
  /\ UNCHANGED <<serverVars, sessions, watchers, conn, lateClose, ui, rows, status>>

Lost == IF wire = NoId THEN status ELSE "reconnecting"

\* onclose.
Closes ==
  /\ ws = "closing"
  /\ ws' = "closed" /\ status' = Lost
  /\ UNCHANGED <<serverVars, sessions, watchers, sockets, up, down, conn,
                 lateClose, ui, rows, faults>>

\* onclose of a socket that was replaced meanwhile.
ClosesLate ==
  /\ lateClose = "due"
  /\ lateClose' = "came" /\ status' = Lost
  /\ UNCHANGED <<serverVars, sessions, watchers, sockets, up, down, conn, ws, ui,
                 rows, faults>>

Incoming(op) == ws = "open" /\ down # <<>> /\ Head(down).op = op /\ down' = Tail(down)

\* Nothing is known of a wire id that was torn down.
ReceiveUnknown ==
  /\ \E op \in {"snapshot", "events", "status"} : Incoming(op)
  /\ Head(down).id # wire
  /\ UNCHANGED <<serverVars, sessions, watchers, sockets, up, link, ui, rows,
                 status, faults>>

\* The snapshot replaces the rows at once, also when older batches wait for the
\* flush: those are applied over it.
ReceiveSnapshot ==
  /\ Incoming("snapshot") /\ Head(down).id = wire
  /\ cache' = Head(down).objects /\ cached' = TRUE
  /\ overtaken' = UidsOf(UNION Range(pending))
  /\ UNCHANGED <<serverVars, sessions, watchers, sockets, up, link, ui, pending,
                 flush, status, faults>>

\* queueEvents.
ReceiveEvents ==
  /\ Incoming("events") /\ Head(down).id = wire
  /\ pending' = Append(pending, Head(down).objects) /\ flush' = TRUE
  /\ overtaken' = overtaken \ UidsOf(Head(down).objects)
  /\ UNCHANGED <<serverVars, sessions, watchers, sockets, up, link, ui, cache,
                 cached, status, faults>>

ReceiveStatus ==
  /\ Incoming("status") /\ Head(down).id = wire
  /\ status' = Head(down).state
  /\ lateClose' = IF lateClose = "came" THEN "none" ELSE lateClose
  /\ UNCHANGED <<serverVars, sessions, watchers, sockets, up, conn, ws, ui, rows,
                 faults>>

\* context-reset: subscribe again, keep the rows.
ReceiveReset ==
  /\ Incoming("reset")
  /\ IF wire = NoId THEN UNCHANGED <<up, pending>>
     ELSE /\ pending' = <<>>
          /\ up' = up \o <<Unsub(wire), Sub(wire)>>
  /\ UNCHANGED <<serverVars, sessions, watchers, sockets, link, ui, cache, cached,
                 flush, overtaken, status, faults>>

\* Batches are applied in the order of their arrival.
ApplyAll(shown, batches) ==
  LET after[n \in 0..Len(batches)] ==
        IF n = 0 THEN shown ELSE ApplyBatch(after[n - 1], batches[n])
  IN after[Len(batches)]

\* The flush timer.
Flush ==
  /\ flush
  /\ flush' = FALSE /\ pending' = <<>>
  /\ cache' = ApplyAll(cache, pending)
  /\ cached' = (cached \/ pending # <<>>)
  /\ UNCHANGED <<serverVars, sessions, watchers, sockets, up, down, link, ui,
                 overtaken, status, faults>>

(***************************************************************************)
(* The watch socket                                                        *)
(***************************************************************************)
Request(op) == ws = "open" /\ up # <<>> /\ Head(up).op = op /\ up' = Tail(up)

HandleUnsub ==
  /\ Request("unsub")
  /\ LET k == byId[Head(up).id] IN
       served' = [j \in DOMAIN served |-> IF j = k THEN Stopped(served[j]) ELSE served[j]]
  /\ byId' = [byId EXCEPT ![Head(up).id] = 0]
  /\ UNCHANGED <<serverVars, sessions, watchers, down, clientVars, faults>>

\* ctx.clusters.get throws.
HandleNotConnected ==
  /\ Request("sub") /\ byId[Head(up).id] = 0 /\ session = "none"
  /\ down' = Append(down, Msg("status", Head(up).id, {}, "error"))
  /\ UNCHANGED <<serverVars, sessions, watchers, sockets, clientVars, faults>>

\* Mutants: a snapshot that was serialized for another version; rows stamped
\* with a version that is not theirs.
AnswerStale(id, version) ==
  <<Msg("snapshot", id, StoreAt(version - 1), ""), Msg("status", id, {}, "live")>>
AnswerStamped(id, version) ==
  <<Msg("snapshot", id, {i + 1 : i \in StoreAt(version)}, ""), Msg("status", id, {}, "live")>>

\* What a subscription is told when its watcher is ready.
Answer(id, version) ==
  <<Msg("snapshot", id, StoreAt(version), ""), Msg("status", id, {}, "live")>>

\* Acquire the shared watcher, or a new one, and await ready().  The socket
\* ignores an id it has already; the client never sends one again.
HandleSub ==
  /\ Request("sub") /\ byId[Head(up).id] = 0 /\ session # "none"
  /\ Len(served) < MaxServed
  /\ current = 0 => Len(watchers) < MaxWatchers
  /\ LET id == Head(up).id
         w == IF current = 0 THEN Len(watchers) + 1 ELSE current
         ready == current # 0 /\ watchers[current].shows # 0
     IN /\ current' = w
        /\ watchers' = IF current # 0 THEN watchers
                       ELSE Append(watchers, [life |-> "running", shows |-> 0])
        /\ served' = Append(served, [id |-> id, watcher |-> w, conn |-> conn,
                                     st |-> IF ready THEN "in" ELSE "waiting"])
        /\ byId' = [byId EXCEPT ![id] = Len(served) + 1]
        /\ down' = IF ready THEN down \o Answer(id, watchers[w].shows) ELSE down
  /\ UNCHANGED <<serverVars, session, clientVars, faults>>

Listening(w, st) == {k \in DOMAIN served : served[k].watcher = w /\ served[k].st = st}

\* Whether sends of subscription k reach the browser.
Reaches(k) == ws = "open" /\ served[k].conn = conn

\* Every subscription of S whose socket is open is sent its messages.
Sends(S, messages) ==
  LET sent[k \in 0..Len(served)] ==
        IF k = 0 THEN down
        ELSE IF k \in S /\ Reaches(k) THEN sent[k - 1] \o messages[k] ELSE sent[k - 1]
  IN down' = sent[Len(served)]

\* ready() resolves.
WatcherListed(w) ==
  /\ watchers[w].life \in {"running", "listing"} /\ watchers[w].shows = 0
  /\ LET life == IF watchers[w].life = "listing" THEN "watching" ELSE "running" IN
       watchers' = [watchers EXCEPT ![w] = [life |-> life, shows |-> Len(log)]]
  /\ LET S == Listening(w, "waiting") IN
       /\ served' = [k \in DOMAIN served |->
                       IF k \in S THEN [served[k] EXCEPT !.st = "in"] ELSE served[k]]
       /\ Sends(S, [k \in S |-> Answer(served[k].id, Len(log))])
  /\ UNCHANGED <<serverVars, sessions, byId, up, clientVars, faults>>

\* ready() rejects: everyone who awaited it deletes its id from the Map of its
\* socket, whatever the Map holds under the id by now.  The loop of a watcher
\* that still runs lists again.
WatcherRejects(w) ==
  /\ watchers[w].shows = 0
  /\ Fault
  /\ \/ watchers[w].life = "running" /\ UNCHANGED watchers
     \/ /\ watchers[w].life = "listing" /\ LateRejections
        /\ watchers' = [watchers EXCEPT ![w].life = "stopped"]
  /\ LET S == Listening(w, "waiting") \cup Listening(w, "cancelled")
         here == {k \in S : served[k].conn = conn}
     IN /\ served' = [k \in DOMAIN served |->
                        IF k \in S THEN [served[k] EXCEPT !.st = "stopped"] ELSE served[k]]
        /\ byId' = [i \in Ids |-> IF \E k \in here : served[k].id = i THEN 0 ELSE byId[i]]
        /\ Sends(S, [k \in S |-> <<Msg("status", served[k].id, {}, "error")>>])
  /\ UNCHANGED <<serverVars, sessions, up, clientVars>>

(***************************************************************************)
(* The watchers and the session                                            *)
(***************************************************************************)
\* The deltas of watch events, and those of a relist's diff.
Chunk(p, q) == {i \in (p + 1)..q : Own(i)}

\* Mutant: what the fresh list lacks is not reported.
DiffNoDeletes(p, q) ==
  {i \in Chunk(p, q) : log[i].type = "SET" /\ \A j \in (i + 1)..q : ~SameUid(i, j)}

Diff(p, q) ==
  {i \in Chunk(p, q) : /\ \A j \in (i + 1)..q : ~SameUid(i, j)
                       /\ log[i].type = "DELETED" =>
                            \E j \in StoreAt(p) : SameUid(i, j)}

Emits(w, batch, q, life) ==
  /\ watchers' = [watchers EXCEPT ![w] = [life |-> life, shows |-> q]]
  /\ IF batch = {} THEN UNCHANGED down
     ELSE Sends(Listening(w, "in"),
                [k \in Listening(w, "in") |-> <<Msg("events", served[k].id, batch, "")>>])
  /\ UNCHANGED <<serverVars, sessions, sockets, up, clientVars, faults>>

\* A chunk of watch events.
WatcherEmits(w) ==
  /\ watchers[w].life \in {"running", "watching"} /\ watchers[w].shows # 0
  /\ \E q \in (watchers[w].shows + 1)..Len(log) :
       Emits(w, Chunk(watchers[w].shows, q), q, watchers[w].life)

\* A relist, whose answer comes although the watcher was stopped meanwhile.
WatcherRelists(w) ==
  /\ \/ watchers[w].life = "running" /\ watchers[w].shows \notin {0, Len(log)}
     \/ watchers[w].life = "relisting"
  /\ Emits(w, Diff(watchers[w].shows, Len(log)), Len(log),
           IF watchers[w].life = "running" THEN "running" ELSE "stopped")

\* The watch that a watcher stopped during its initial list opened ends.
WatchEnds(w) ==
  /\ watchers[w].life = "watching"
  /\ watchers' = [watchers EXCEPT ![w].life = "stopped"]
  /\ UNCHANGED <<serverVars, sessions, sockets, up, down, clientVars, faults>>

\* stop(): a list request is not aborted.
StopCurrent ==
  IF current = 0 THEN UNCHANGED watchers
  ELSE \E life \in IF watchers[current].shows = 0 THEN {"listing"}
                   ELSE {"relisting", "stopped"} :
         watchers' = [watchers EXCEPT ![current].life = life]

\* 30 seconds after its last holder released it, longer than a request is
\* under way.
LingerStops ==
  /\ current # 0 /\ up = <<>> /\ Len(watchers) < MaxWatchers
  /\ Listening(current, "waiting") \cup Listening(current, "in") = {}
  /\ StopCurrent
  /\ current' = 0
  /\ UNCHANGED <<serverVars, session, sockets, up, down, clientVars, faults>>

Broadcast ==
  down' = IF ws = "open" THEN Append(down, Msg("reset", NoId, {}, "")) ELSE down

\* Disconnect, reconnect, or a kubeconfig reload that drops the handle.
SessionEnds ==
  /\ session # "none" /\ Fault
  /\ current # 0 => Len(watchers) < MaxWatchers
  /\ session' = "none"
  /\ StopCurrent
  /\ current' = 0
  /\ Broadcast
  /\ UNCHANGED <<serverVars, sockets, up, clientVars>>

\* connectFresh puts the handle into the Map, probes the cluster ...
SessionStarts ==
  /\ session = "none"
  /\ session' = "probing"
  /\ UNCHANGED <<serverVars, current, watchers, sockets, up, down,
                 clientVars, faults>>

\* ... and announces the session.
SessionReady ==
  /\ session = "probing"
  /\ session' = "ready"
  /\ Broadcast
  /\ UNCHANGED <<serverVars, current, watchers, sockets, up, clientVars,
                 faults>>

-----------------------------------------------------------------------------
Components == SubscribeNew \/ SubscribeAgain \/ Leave \/ Teardown

Receive == ReceiveUnknown \/ ReceiveSnapshot \/ ReceiveEvents \/ ReceiveStatus \/ ReceiveReset

Handle == HandleUnsub \/ HandleNotConnected \/ HandleSub

WatcherStep == \E w \in DOMAIN watchers :
                 WatcherListed(w) \/ WatcherEmits(w) \/ WatcherRelists(w) \/ WatchEnds(w)

Next ==
  \/ ApiWrite
  \/ Components \/ Reconnect \/ Opens \/ Breaks \/ Closes \/ ClosesLate
  \/ Receive \/ Flush \/ Handle
  \/ WatcherStep \/ \E w \in DOMAIN watchers : WatcherRejects(w)
  \/ LingerStops \/ SessionEnds \/ SessionStarts \/ SessionReady

Spec == Init /\ [][Next]_vars

\* Messages arrive, timers fire, requests are answered, a watcher catches up
\* (EventuallyFresh of ResourceWatcher): while any of this is left to do, some of
\* it is done.  Nobody has to subscribe, connect a cluster or break anything.
Works == Receive \/ Handle \/ Flush \/ Reconnect \/ Opens \/ Closes \/ ClosesLate \/ WatcherStep

FairSpec == Spec /\ WF_vars(Works)

(***************************************************************************)
(* Properties                                                              *)
(***************************************************************************)
\* The subscription the socket serves for the client's wire id; 0 for none.
Serving == IF wire = NoId THEN 0 ELSE byId[wire]

BeingServed == Serving # 0 /\ served[Serving].st = "in"

\* The rows after one more message.
After(shown, m) ==
  CASE m.id # wire -> shown
    [] m.id = wire /\ m.op = "snapshot" -> m.objects
    [] m.id = wire /\ m.op = "events" -> ApplyBatch(shown, m.objects)
    [] OTHER -> shown

AfterAll(shown, messages) ==
  LET after[n \in 0..Len(messages)] ==
        IF n = 0 THEN shown ELSE After(after[n - 1], messages[n])
  IN after[Len(messages)]

\* What the rows come to when all that is under way has arrived.
Arrived == AfterAll(ApplyAll(cache, pending), down)

\* The rows of every object but the overtaken ones.
Sound(objects) == {i \in objects : log[i].uid \notin overtaken}

\* Nothing is lost or applied twice between a watcher and the screen: through
\* reconnections, resets and lingering, the rows plus what is under way are
\* exactly the watcher's cache (watch-client.ts:34: "Current objects by uid,
\* maintained from snapshot + events").  It fails for one kind of object alone:
\* one of which an event was waiting for the flush when a snapshot came, with
\* none since, is left as that older event has it.
InFlightConverges ==
  (BeingServed /\ up = <<>> /\ \A i \in DOMAIN down : down[i].op # "reset")
    => Sound(Arrived) = Sound(StoreAt(watchers[served[Serving].watcher].shows))

\* A row never goes back to an older version of its object while the list is
\* open, although sessions and sockets are replaced under it, but in the flush
\* of a batch that a snapshot overtook.
RowsNeverRegress ==
  [][wire' = wire =>
       \A i \in cache', j \in cache :
         SameUid(i, j)' => \/ i >= j
                           \/ flush /\ ~flush' /\ log[i].uid \in overtaken]_vars

\* Every subscription that holds a watcher can still be stopped: it is in the
\* Map of the open socket, and it is the one the client has, once the client's
\* requests have arrived.
NoOrphans ==
  \A k \in DOMAIN served : served[k].st \in {"waiting", "in"} =>
    /\ ws = "open" /\ served[k].conn = conn
    /\ byId[served[k].id] = k
    /\ up = <<>> => served[k].id = wire

\* An open list of a connected cluster ends up with exactly the objects of the
\* store, overtaken ones excepted, unless it was told that its initial list
\* failed.
SettlesFresh ==
  <>[](attached /\ session = "ready" /\ status # "error" =>
         cached /\ Sound(cache) = Sound(StoreAt(Len(log))))

\* What the status bar says of a subscription that works ends up being live,
\* unless the last thing it was told is the close event of a replaced socket.
StatusSettles == <>[](BeingServed /\ lateClose # "came" => status = "live")

\* Both: fresh, and said to be.
Settles == SettlesFresh /\ StatusSettles
=============================================================================
