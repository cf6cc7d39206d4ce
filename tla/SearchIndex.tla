------------------------------ MODULE SearchIndex ------------------------------
(***************************************************************************)
(* How the kinds of one cluster get into its search index: CrdTracker      *)
(* (crd-tracker.ts) polls the CRDs, DiscoveryCache (discovery.ts) caches   *)
(* the kinds that are served, and ResourceSearchIndex (search-index.ts)    *)
(* reconciles its kinds with them and lists and watches each.  Custom      *)
(* kinds are indexed only while watches multiplex over HTTP/2.             *)
(*                                                                         *)
(* A kind has at most one object at a time, always of the same name: the   *)
(* odd writes create it, the even ones delete it, and the number of the    *)
(* write that created it is its uid.  A custom kind is installed and       *)
(* removed by turns, and its number of changes is odd while it is there.   *)
(* A request in flight carries what the server may have read for it: the   *)
(* state when it was sent and every later one.                             *)
(***************************************************************************)
EXTENDS Integers

CONSTANTS Builtin,    \* BUILTIN_RESOURCE_SEARCH_KINDS
          Custom,     \* kinds that CRDs define
          Slots,      \* room for the states a kind has at once: one in the Map,
                      \* and stopped ones with a request under way
          MaxWrites,  \* bound on the writes to a kind's objects
          MaxLife,    \* bound on the changes of a CRD
          MaxFaults   \* bound on failures, lagging answers and lost transports

ASSUME KindsAssumption == Builtin \cap Custom = {}
ASSUME BoundsAssumption == {MaxWrites, MaxLife, MaxFaults} \subseteq Nat
ASSUME SlotsAssumption == Slots \subseteq Nat \ {0}

VARIABLES
  life, ver,     \* cluster: changes of each CRD, writes to each kind
  h2,            \* cluster: the transport multiplexes watches
  rbac,          \* cluster: what may be done with a kind: all, only listing, nothing
  faults,
  tracker,       \* CrdTracker: the fingerprint, the check under way and, as
                 \* history, that no CRD changed since it last called onChange()
  disc,          \* DiscoveryCache: the kinds cached, the request under way and, as
                 \* history, that they are poor: asked for before the last change
                 \* was noticed, or without the kinds of a group that was down
  started, disposed,
  rec,           \* reconcileInFlight, what it discovered, reconcileQueued and, as
                 \* history, that the last one was misled: by poor kinds or none, or
                 \* about the transport
  cur,           \* the Map `kinds`: the slot of a kind's state, or 0
  st,            \* the states (IndexedKindState) with their loops
  byId, byName,  \* entriesById and idByNameKey
  spoiled        \* kinds for which a stopped state wrote entries

cluster == <<life, ver, h2, rbac>>
index == <<started, disposed>>
entries == <<byId, byName, spoiled>>
vars == <<cluster, faults, tracker, disc, index, rec, cur, st, entries>>

Kinds == Builtin \cup Custom
Nothing == -1
Versions == {Nothing} \cup Nat
Listing == {"initial", "list", "quorum", "poll"}

\* phase: startKind's list, the loop's lists (without a version, after a 410,
\* without the right to watch), opening a watch, watching, waitForRetry before
\* another try or another poll, or no loop.  may: see above.
State == [phase : Listing \cup {"open", "watch", "retry", "pause", "ended"},
          running : BOOLEAN, unavailable : BOOLEAN, rv : Versions,
          ids : SUBSET Nat, may : SUBSET Versions]

Ended == [phase |-> "ended", running |-> FALSE, unavailable |-> FALSE, rv |-> Nothing,
          ids |-> {}, may |-> {}]

TypeOK ==
  /\ life \in [Custom -> Nat] /\ ver \in [Kinds -> Nat]
  /\ h2 \in BOOLEAN /\ rbac \in [Kinds -> {"all", "list", "none"}]
  /\ faults \in 0..MaxFaults
  /\ tracker \in [seen : SUBSET SUBSET Custom, may : SUBSET SUBSET Custom, noticed : BOOLEAN]
  /\ disc \in [cached : SUBSET SUBSET Custom, may : SUBSET SUBSET Custom, poor : BOOLEAN]
  /\ started \in BOOLEAN /\ disposed \in BOOLEAN
  /\ rec \in [phase : {"idle", "discover", "probe", "start"}, found : SUBSET Custom,
              queued : BOOLEAN, misled : BOOLEAN]
  /\ cur \in [Kinds -> Slots \cup {0}] /\ st \in [Kinds -> [Slots -> State]]
  /\ byId \subseteq Kinds \X Nat /\ byName \in [Kinds -> Nat] /\ spoiled \subseteq Kinds

There(l) == {k \in Custom : l[k] % 2 = 1}
Crds == There(life)

\* What a list of the kind answers: its version, or that there is no such kind.
Answer(k, l, v) == IF k \in Builtin \cup There(l) THEN v[k] ELSE Nothing
Now(k) == Answer(k, life, ver)
Objects(v) == IF v > 0 /\ v % 2 = 1 THEN {v} ELSE {}
Entries(k) == {e[2] : e \in {x \in byId : x[1] = k}}

Init ==
  /\ life \in [Custom -> {0, 1}] /\ ver = [k \in Kinds |-> 0]
  /\ h2 \in BOOLEAN /\ rbac \in [Kinds -> {"all", "list", "none"}]
  /\ faults = 0
  /\ tracker = [seen |-> {}, may |-> {}, noticed |-> FALSE]
  /\ disc = [cached |-> {}, may |-> {}, poor |-> FALSE]
  /\ started = FALSE /\ disposed = FALSE
  /\ rec = [phase |-> "idle", found |-> {}, queued |-> FALSE, misled |-> FALSE]
  /\ cur = [k \in Kinds |-> 0] /\ st = [k \in Kinds |-> [i \in Slots |-> Ended]]
  /\ byId = {} /\ byName = [k \in Kinds |-> 0] /\ spoiled = {}

Fault == faults < MaxFaults /\ faults' = faults + 1

-----------------------------------------------------------------------------
(* The cluster.                                                            *)

\* A change widens what the requests in flight may still read.
Widened(k, v) ==
  [st EXCEPT ![k] = [i \in Slots |-> IF st[k][i].may = {} THEN st[k][i]
                                     ELSE [st[k][i] EXCEPT !.may = st[k][i].may \cup {v}]]]

Write(k) ==
  /\ Now(k) # Nothing /\ ver[k] < MaxWrites
  /\ ver' = [ver EXCEPT ![k] = @ + 1]
  /\ st' = Widened(k, ver[k] + 1)
  /\ UNCHANGED <<life, h2, rbac, faults, tracker, disc, index, rec, cur, entries>>

\* A CRD is installed, or removed with its objects.
ChangeCrd(k) ==
  /\ life[k] < MaxLife
  /\ life' = [life EXCEPT ![k] = @ + 1]
  /\ ver' = [ver EXCEPT ![k] = IF k \in Crds /\ @ % 2 = 1 THEN @ + 1 ELSE @]
  /\ st' = Widened(k, Answer(k, life', ver'))
  /\ tracker' = [tracker EXCEPT !.may = IF @ = {} THEN {} ELSE @ \cup {There(life')},
                                !.noticed = FALSE]
  /\ disc' = [disc EXCEPT !.may = IF @ = {} THEN {} ELSE @ \cup {There(life')}]
  /\ UNCHANGED <<h2, rbac, faults, index, rec, cur, entries>>

\* A proxy or load balancer comes or goes in front of the API server.
SwitchTransport ==
  /\ Fault /\ h2' = ~h2
  /\ rec' = [rec EXCEPT !.misled = TRUE]
  /\ UNCHANGED <<life, ver, rbac, tracker, disc, index, cur, st, entries>>

-----------------------------------------------------------------------------
(* reconcileKinds() and the discovery it reads.                            *)

\* getResources(): the cache, or the request all callers share, also one that was
\* sent before invalidate().
Asked(d) == IF d.may = {} THEN [d EXCEPT !.may = {Crds}, !.poor = FALSE] ELSE d

\* Mutant: a change during a reconcile is not remembered.
ForgetfulReconcile(r, d) ==
  IF r.phase # "idle" THEN rec' = r /\ disc' = d
  ELSE IF d.cached = {}
    THEN rec' = [r EXCEPT !.phase = "discover"] /\ disc' = Asked(d)
    ELSE \E found \in d.cached :
           /\ rec' = [r EXCEPT !.phase = "probe", !.found = found, !.misled = d.poor]
           /\ disc' = d

Reconcile(r, d) ==
  IF r.phase # "idle" THEN rec' = [r EXCEPT !.queued = TRUE] /\ disc' = d
  ELSE IF d.cached = {}
    THEN rec' = [r EXCEPT !.phase = "discover"] /\ disc' = Asked(d)
    ELSE \E found \in d.cached :
           /\ rec' = [r EXCEPT !.phase = "probe", !.found = found, !.misled = d.poor]
           /\ disc' = d

\* The finally of reconcileKinds().
Done(r, d) ==
  LET idle == [r EXCEPT !.phase = "idle", !.queued = FALSE] IN
  IF r.queued /\ ~disposed THEN Reconcile(idle, d)
  ELSE rec' = [r EXCEPT !.phase = "idle"] /\ disc' = d

\* warm(), by the first search.
Warm ==
  /\ ~started /\ ~disposed
  /\ started' = TRUE
  /\ Reconcile(rec, disc)
  /\ UNCHANGED <<cluster, faults, tracker, disposed, cur, st, entries>>

\* Mutant: the timer reconciles with the cached kinds.
SafetyTickOnCache ==
  /\ started /\ ~disposed
  /\ Reconcile(rec, disc)
  /\ UNCHANGED <<cluster, faults, tracker, index, cur, st, entries>>

SafetyTick ==
  /\ started /\ ~disposed
  /\ Reconcile(rec, [disc EXCEPT !.cached = {}])
  /\ UNCHANGED <<cluster, faults, tracker, index, cur, st, entries>>

\* A route asks for the kinds.
RouteAsks ==
  /\ ~disposed /\ disc.cached = {} /\ disc.may = {}
  /\ disc' = Asked(disc)
  /\ UNCHANGED <<cluster, faults, tracker, index, rec, cur, st, entries>>

\* CACHE_TTL_MS passes.
Expire ==
  /\ disc.cached # {} /\ disc' = [disc EXCEPT !.cached = {}]
  /\ UNCHANGED <<cluster, faults, tracker, index, rec, cur, st, entries>>

\* The answer is cached, whatever was invalidated since the request was sent.  A
\* group that is down is left out of it.
DiscoveryAnswers ==
  /\ disc.may # {}
  /\ \E answer \in disc.may, down \in SUBSET Custom :
       /\ IF down = {} THEN UNCHANGED faults ELSE down \subseteq answer /\ Fault
       /\ disc' = [cached |-> {answer \ down}, may |-> {}, poor |-> disc.poor \/ down # {}]
       /\ rec' = IF rec.phase # "discover" THEN rec
                 ELSE [rec EXCEPT !.phase = "probe", !.found = answer \ down,
                                  !.misled = disc.poor \/ down # {}]
  /\ UNCHANGED <<cluster, tracker, index, cur, st, entries>>

DiscoveryFails ==
  /\ disc.may # {} /\ Fault
  /\ IF rec.phase = "discover"
     THEN Done([rec EXCEPT !.misled = TRUE], [disc EXCEPT !.may = {}])
     ELSE disc' = [disc EXCEPT !.may = {}] /\ UNCHANGED rec
  /\ UNCHANGED <<cluster, tracker, index, cur, st, entries>>

-----------------------------------------------------------------------------
(* CrdTracker.                                                             *)

\* Its timer, or checkNow() after a Helm operation.
Check ==
  /\ ~disposed /\ tracker.may = {}
  /\ tracker' = [tracker EXCEPT !.may = {Crds}]
  /\ UNCHANGED <<cluster, faults, disc, index, rec, cur, st, entries>>

\* onChange(): discovery.invalidate() and searchIndex.onCrdChange().
Notify ==
  LET d == [disc EXCEPT !.cached = {}, !.poor = TRUE] IN
  IF started /\ ~disposed THEN Reconcile(rec, d) ELSE disc' = d /\ UNCHANGED rec

CheckAnswers ==
  /\ \E crds \in tracker.may :
       /\ tracker' = [seen |-> {crds}, may |-> {},
                      noticed |-> tracker.noticed \/ ~ (tracker.seen \subseteq {crds})]
       /\ IF tracker.seen \subseteq {crds} THEN UNCHANGED <<disc, rec>> ELSE Notify
  /\ UNCHANGED <<cluster, faults, index, cur, st, entries>>

CheckFails ==
  /\ tracker.may # {} /\ Fault
  /\ tracker' = [tracker EXCEPT !.may = {}]
  /\ UNCHANGED <<cluster, disc, index, rec, cur, st, entries>>

-----------------------------------------------------------------------------
(* The entries of a kind.                                                  *)

\* Mutant: the name is left without an entry, as an undefined one.
NameUndefined(k, ids) == IF ({k} \X ids) \cap byId = {} THEN byName[k] ELSE Nothing

\* removeKindEntries() of a state with these ids.
Without(k, ids) == byId \ ({k} \X ids)
NameWithout(k, ids) == IF ({k} \X ids) \cap byId = {} THEN byName[k] ELSE 0

\* Mutant: a kind that is given up keeps its entries.
KeepEntries(k, i) == UNCHANGED <<byId, byName>>

RemoveEntries(k, i) ==
  /\ byId' = Without(k, st[k][i].ids)
  /\ byName' = [byName EXCEPT ![k] = NameWithout(k, st[k][i].ids)]

\* replaceKindEntries() with what there is at version v.
Replace(k, i, v) ==
  LET ids == st[k][i].ids
      name == NameWithout(k, ids)
      namesake == IF Objects(v) = {} THEN {} ELSE {<<k, name>>} IN
  /\ byId' = (Without(k, ids) \ namesake) \cup ({k} \X Objects(v))
  /\ byName' = [byName EXCEPT ![k] = IF Objects(v) = {} THEN name ELSE v]

\* upsertEntry() and deleteEntry() for the event that is write v.
Upsert(k, i, v) ==
  /\ byId' = (byId \ {<<k, byName[k]>>}) \cup {<<k, v>>}
  /\ byName' = [byName EXCEPT ![k] = v]
  /\ st' = [st EXCEPT ![k][i] = [st[k][i] EXCEPT !.rv = v,
                                 !.ids = (st[k][i].ids \ {byName[k]}) \cup {v}]]

Delete(k, i, v) ==
  LET id == IF byName[k] # 0 THEN byName[k] ELSE v - 1 IN
  /\ byId' = byId \ {<<k, id>>}
  /\ byName' = [byName EXCEPT ![k] = 0]
  /\ st' = [st EXCEPT ![k][i] = [st[k][i] EXCEPT !.rv = v, !.ids = st[k][i].ids \ {id}]]

\* What a stopped state still writes is owned by no kind of the Map.
Spoil(k, i, v) ==
  spoiled' = IF st[k][i].running \/ Objects(v) = {} THEN spoiled ELSE spoiled \cup {k}

-----------------------------------------------------------------------------
(* reconcileKindsNow(), startKind() and stopKind().                        *)

To(k, s, phase) ==
  IF phase = "ended" /\ ~s.running THEN Ended
  ELSE [s EXCEPT !.phase = phase, !.may = IF phase \in Listing THEN {Now(k)} ELSE {}]

\* A watch is aborted and a timer finds the state stopped; a list is waited for.
Stopped(s) ==
  IF s.phase \in Listing THEN [s EXCEPT !.running = FALSE, !.ids = {}] ELSE Ended

Started(k) == To(k, [Ended EXCEPT !.running = TRUE], "initial")
Free(k) == {i \in Slots : st[k][i] = Ended}
Desired(m) == Builtin \cup (IF m THEN rec.found ELSE {})
Leaving(m) == {k \in Kinds \ Desired(m) : cur[k] # 0}
Arriving(m) == {k \in Desired(m) : cur[k] = 0 /\ ~disposed}

CurAfter(m) ==
  [k \in Kinds |-> IF k \in Leaving(m) THEN 0
                   ELSE IF k \in Arriving(m) THEN CHOOSE i \in Free(k) : TRUE ELSE cur[k]]

ProbeAnswers ==
  /\ rec.phase = "probe"
  /\ \E m \in BOOLEAN :
       /\ IF m = h2 THEN UNCHANGED faults ELSE ~m /\ Fault
       /\ \A k \in Arriving(m) : Free(k) # {}
       /\ cur' = CurAfter(m)
       /\ st' = [k \in Kinds |-> [i \in Slots |->
                   IF k \in Leaving(m) /\ i = cur[k] THEN Stopped(st[k][i])
                   ELSE IF k \in Arriving(m) /\ i = cur'[k] THEN Started(k)
                   ELSE st[k][i]]]
       /\ byId' = byId \ {e \in byId : e[1] \in Leaving(m) /\ e[2] \in st[e[1]][cur[e[1]]].ids}
       /\ byName' = [k \in Kinds |-> IF k \in Leaving(m)
                                     THEN NameWithout(k, st[k][cur[k]].ids) ELSE byName[k]]
       /\ LET r == [rec EXCEPT !.phase = "start", !.found = {}, !.misled = @ \/ m # h2] IN
          IF Arriving(m) = {} THEN Done(r, disc) ELSE rec' = r /\ UNCHANGED disc
  /\ UNCHANGED <<cluster, tracker, index, spoiled>>

-----------------------------------------------------------------------------
(* The lists.                                                              *)

Move(k, i, s) == st' = [st EXCEPT ![k][i] = s]

AfterList(s) ==
  IF s.phase = "list" \/ (s.running /\ s.phase # "poll") THEN "open"
  ELSE IF s.running THEN "pause" ELSE "ended"

AfterFailure(s) ==
  CASE ~s.running -> "ended"
    [] s.running /\ s.phase = "initial" -> "list"
    [] s.running /\ s.phase = "poll" -> "pause"
    [] OTHER -> "retry"

\* The reconcile ends with the last initial list.
StartEnds(k, i) ==
  IF st[k][i].phase = "initial" /\ \A k2 \in Kinds, i2 \in Slots :
       st[k2][i2].phase = "initial" => k2 = k /\ i2 = i
  THEN Done(rec, disc) ELSE UNCHANGED <<rec, disc>>

\* Only a quorum list is sure to be current: the watch cache may lag.
ListAnswers(k, i) ==
  LET s == st[k][i] IN
  /\ s.may # {} /\ rbac[k] # "none"
  /\ \E v \in 0..ver[k] :
       /\ IF v \in s.may THEN UNCHANGED faults
          ELSE s.phase # "quorum" /\ Fault /\ \E now \in s.may : v < now
       /\ Replace(k, i, v)
       /\ Move(k, i, IF AfterList(s) = "ended" THEN Ended
                     ELSE [To(k, s, AfterList(s)) EXCEPT !.rv = v, !.ids = Objects(v)])
       /\ Spoil(k, i, v)
  /\ StartEnds(k, i)
  /\ UNCHANGED <<cluster, tracker, index, cur>>

\* 403 or 404: it is given up, unless it is the list after a 410.
Unavailable(k, i) ==
  LET s == st[k][i] IN
  /\ RemoveEntries(k, i)
  /\ Move(k, i, IF s.running THEN [s EXCEPT !.phase = "ended", !.unavailable = TRUE,
                                            !.ids = {}, !.may = {}] ELSE Ended)
  /\ UNCHANGED spoiled

ListRefused(k, i) ==
  LET s == st[k][i] IN
  /\ s.may # {} /\ (rbac[k] = "none" \/ Nothing \in s.may)
  /\ IF s.phase = "quorum" THEN Move(k, i, To(k, s, AfterFailure(s))) /\ UNCHANGED entries
     ELSE Unavailable(k, i)
  /\ StartEnds(k, i)
  /\ UNCHANGED <<cluster, faults, tracker, index, cur>>

ListFails(k, i) ==
  LET s == st[k][i] IN
  /\ s.may # {} /\ Fault
  /\ Move(k, i, To(k, s, AfterFailure(s)))
  /\ StartEnds(k, i)
  /\ UNCHANGED <<cluster, tracker, index, cur, entries>>

-----------------------------------------------------------------------------
(* kindLoop() and watchKindOnce().                                         *)

Multiplexed(k) == k \in Builtin \/ h2
Caught(s, phase) == IF s.running THEN phase ELSE "ended"

\* The transport is gone: this kind is dropped and a reconcile demotes the others.
Demote(k, i) ==
  /\ RemoveEntries(k, i) /\ UNCHANGED spoiled
  /\ Move(k, i, Ended)
  /\ IF st[k][i].running THEN cur' = [cur EXCEPT ![k] = 0] /\ Reconcile(rec, disc)
     ELSE UNCHANGED <<cur, rec, disc>>

Open(k, i) ==
  LET s == st[k][i] IN
  /\ s.phase = "open"
  /\ \/ ~Multiplexed(k) /\ Demote(k, i)
     \/ /\ Multiplexed(k) /\ Now(k) = Nothing
        /\ Unavailable(k, i) /\ UNCHANGED <<cur, rec, disc>>
     \/ /\ Multiplexed(k) /\ Now(k) # Nothing
        /\ Move(k, i, To(k, s, IF rbac[k] = "all" THEN "watch" ELSE Caught(s, "pause")))
        /\ UNCHANGED <<cur, rec, disc, entries>>
  /\ UNCHANGED <<cluster, faults, tracker, index>>

WatchEvent(k, i) ==
  LET s == st[k][i] IN
  /\ s.phase = "watch" /\ Multiplexed(k) /\ s.rv < ver[k]
  /\ IF Objects(s.rv + 1) = {} THEN Delete(k, i, s.rv + 1) ELSE Upsert(k, i, s.rv + 1)
  /\ Spoil(k, i, s.rv + 1)
  /\ UNCHANGED <<cluster, faults, tracker, disc, index, rec, cur>>

\* At timeoutSeconds, or when the connection it runs over is gone.
WatchEnds(k, i) ==
  LET s == st[k][i] IN
  /\ s.phase = "watch" /\ (s.rv = ver[k] \/ ~Multiplexed(k))
  /\ Move(k, i, To(k, s, Caught(s, IF Multiplexed(k) THEN "open" ELSE "retry")))
  /\ UNCHANGED <<cluster, faults, tracker, disc, index, rec, cur, entries>>

\* A network failure, or a 410 as a status or as an ERROR line.
WatchFails(k, i) ==
  LET s == st[k][i] IN
  /\ s.phase \in {"open", "watch"} /\ Fault
  /\ \E phase \in {"retry", "quorum"} : Move(k, i, To(k, s, Caught(s, phase)))
  /\ UNCHANGED <<cluster, tracker, disc, index, rec, cur, entries>>

\* waitForRetry() ends.
Retry(k, i) ==
  LET s == st[k][i] IN
  /\ s.phase \in {"retry", "pause"}
  /\ Move(k, i, To(k, s, CASE s.phase = "pause" -> "poll"
                           [] s.phase = "retry" /\ s.rv = Nothing -> "list"
                           [] OTHER -> "open"))
  /\ UNCHANGED <<cluster, faults, tracker, disc, index, rec, cur, entries>>

\* dispose(): lists and watches are aborted and leave nothing behind.
Dispose ==
  /\ ~disposed /\ disposed' = TRUE
  /\ st' = [k \in Kinds |-> [i \in Slots |-> Ended]]
  /\ cur' = [k \in Kinds |-> 0]
  /\ byId' = {} /\ byName' = [k \in Kinds |-> 0]
  /\ rec' = IF rec.phase = "start" THEN [rec EXCEPT !.phase = "idle"] ELSE rec
  /\ UNCHANGED <<cluster, faults, tracker, disc, started, spoiled>>

-----------------------------------------------------------------------------
LoopStep(k, i) ==
  \/ ListAnswers(k, i) \/ ListRefused(k, i) \/ Open(k, i)
  \/ WatchEvent(k, i) \/ WatchEnds(k, i) \/ Retry(k, i)

Next ==
  \/ \E k \in Kinds : Write(k)
  \/ \E k \in Custom : ChangeCrd(k)
  \/ SwitchTransport \/ Warm \/ SafetyTick \/ RouteAsks \/ Expire
  \/ DiscoveryAnswers \/ DiscoveryFails
  \/ Check \/ CheckAnswers \/ CheckFails
  \/ ProbeAnswers \/ Dispose
  \/ \E k \in Kinds, i \in Slots : LoopStep(k, i) \/ ListFails(k, i) \/ WatchFails(k, i)

Spec == Init /\ [][Next]_vars

\* Requests end, timers fire; nobody needs to search, write or fail.
Fairness ==
  /\ WF_vars(SafetyTick) /\ WF_vars(Check \/ CheckAnswers)
  /\ WF_vars(DiscoveryAnswers) /\ WF_vars(ProbeAnswers)
  /\ \A k \in Kinds, i \in Slots : WF_vars(LoopStep(k, i))

FairSpec == Spec /\ Fairness

-----------------------------------------------------------------------------
\* What the index has of a kind is what the server had at the version its state
\* shows, under one name, whatever other states of the kind were stopped
\* before; a kind that is not in the Map, was given up or has not been listed
\* has nothing (search-index.ts 527-585, 695-708).
IndexIsServerState ==
  \A k \in Kinds \ spoiled :
    LET s == IF cur[k] = 0 THEN Ended ELSE st[k][cur[k]]
        shown == IF s.unavailable THEN {} ELSE Objects(s.rv) IN
    /\ Entries(k) = shown /\ s.ids = shown
    /\ byName[k] = IF shown = {} THEN 0 ELSE s.rv

\* As long as no CRD changes after CrdTracker called onChange(), every CRD there is
\* is in the Map as soon as no reconcile is under way, without waiting for the
\* safety timer, whatever the calls of onChange() met and however often CRDs came
\* and went before ("A CRD change mid-reconcile must not be lost until the safety
\* interval", search-index.ts 341).  Only poor kinds, a discovery that failed or a
\* transport that was not what the probe said keep one out: above all a discovery
\* request that invalidate() does not recall, whose answer is cached afterwards
\* (discovery.ts 80-91).
NoticedIsIndexed ==
  h2 /\ started /\ ~disposed /\ rec.phase = "idle" /\ tracker.noticed /\ ~rec.misled
    => \A k \in Builtin \cup Crds : cur[k] # 0

\* Once the cluster rests, a search comes to find exactly what there is: the
\* objects of every kind that may be read and watched, and none of the others.
\* Only a kind that was given up for a 404 and whose CRD came back with the same
\* fingerprint, between two polls, is left out (crd-tracker.ts 60-67,
\* search-index.ts 616).
Wanted(k) ==
  IF k \in Builtin \cup (IF h2 THEN Crds ELSE {}) /\ rbac[k] # "none" THEN Objects(ver[k]) ELSE {}

CameBack == {k \in Custom : life[k] > 2 /\ cur[k] # 0 /\ st[k][cur[k]].unavailable}

Settles ==
  <>[](started /\ ~disposed => \A k \in Kinds \ (spoiled \cup CameBack) : Entries(k) = Wanted(k))
=============================================================================
