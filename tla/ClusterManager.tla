---------------------------- MODULE ClusterManager ----------------------------
(***************************************************************************)
(* ClusterManager of server/src/kube/cluster-manager.ts for one context:   *)
(* its kubeconfig entry, its SSH jump host, the session (ClusterHandle)    *)
(* that serves it, the attempt to build one, and the health probes.        *)
(*                                                                         *)
(* Everything between two awaits is one step; the awaits are the SSH       *)
(* tunnel and the request for /version, of connectFresh and of a probe.    *)
(***************************************************************************)
EXTENDS Naturals, Sequences

CONSTANTS Defs,        \* definitions the kubeconfig entry can have
          Hosts,       \* SSH jump hosts
          None,        \* no entry, no jump host
          MaxHandles,  \* bound on the sessions ever built
          MaxEdits,    \* bound on edits of the entry and of the jump host
          MaxFlips,    \* bound on how often an API server goes down or up
          EditsWhileTunneling  \* edits may happen while a connect awaits ssh

ASSUME NoneAssumption == None \notin Defs \cup Hosts
ASSUME BoundsAssumption == {MaxHandles, MaxEdits, MaxFlips} \subseteq Nat
ASSUME RaceAssumption == EditsWhileTunneling \in BOOLEAN

VARIABLES
  file,       \* the entry in the kubeconfig file
  kc,         \* the entry in this.kc
  reloadDue,  \* reloadDebounce is armed
  jump,       \* the jump host the settings map the context to
  up,         \* the definitions whose API server answers
  handles,    \* every ClusterHandle built
  current,    \* this.handles.get(name); 0 for undefined
  attempt,    \* this.connecting.get(name): where connectFresh is
  attached,   \* the handle the browser's subscriptions are attached to
  client,     \* this.probeClients.get(name)
  probes,     \* the background run and a "Test connection"
  health,     \* this.healthCache.get(name)
  edits, flips

config == <<file, kc, reloadDue, jump, edits>>
session == <<handles, current, attempt, attached>>
checks == <<client, probes, health>>
server == <<up, flips>>
vars == <<config, session, checks, server>>

Vias == Hosts \cup {None}
Handle == [def : Defs \cup {None}, via : Vias, activated : BOOLEAN,
           disposed : BOOLEAN, health : {"connecting", "connected", "error"}]
Client == [def : Defs \cup {None}, via : Vias]
NoClient == [def |-> None, via |-> None]
Idle == [pc |-> "none", via |-> None, used |-> NoClient, cut |-> FALSE]
NoAttempt == [pc |-> "none", via |-> None, handle |-> 0]
Probers == {"run", "test"}

SessionTypeOK ==
  /\ {file, kc} \subseteq Defs \cup {None}
  /\ reloadDue \in BOOLEAN
  /\ jump \in Vias
  /\ up \in SUBSET Defs
  /\ handles \in Seq(Handle) /\ Len(handles) <= MaxHandles
  /\ {current, attached} \subseteq 0..Len(handles)
  /\ attempt \in [pc : {"none", "tunnel", "probe"}, via : Vias, handle : 0..Len(handles)]
  /\ attempt.pc = "probe" <=> attempt.handle # 0
  /\ edits \in 0..MaxEdits /\ flips \in 0..MaxFlips

ChecksTypeOK ==
  /\ client \in [known : BOOLEAN, used : Client]
  /\ probes \in [Probers -> [pc : {"none", "tunnel", "request"}, via : Vias,
                             used : Client, cut : BOOLEAN]]
  /\ health \in {"unknown", "connecting", "connected", "error"}

TypeOK == SessionTypeOK /\ ChecksTypeOK

Forgotten == [known |-> FALSE, used |-> NoClient]

\* The context exists and nothing is connected.
Init ==
  /\ file \in Defs /\ kc = file /\ reloadDue = FALSE
  /\ jump \in Vias
  /\ up \in SUBSET Defs
  /\ handles = <<>> /\ current = 0 /\ attempt = NoAttempt /\ attached = 0
  /\ client = Forgotten
  /\ probes = [p \in Probers |-> Idle]
  /\ health = "unknown"
  /\ edits = 0 /\ flips = 0

Edit ==
  /\ edits < MaxEdits /\ edits' = edits + 1
  /\ attempt.pc = "tunnel" => EditsWhileTunneling

(***************************************************************************)
(* The session                                                             *)
(***************************************************************************)
\* handle.dispose() and the deletion from the Map, where subscriptions are
\* told by context-reset; they attach again through get(), or fail.
DisposedAt(h) == [handles EXCEPT ![h].disposed = TRUE]

\* Mutant: subscribers are not told that their session is gone.
DropCurrentSilently ==
  /\ current' = 0
  /\ handles' = IF current = 0 THEN handles ELSE DisposedAt(current)
  /\ UNCHANGED attached

DropCurrent ==
  /\ current' = 0
  /\ handles' = IF current = 0 THEN handles ELSE DisposedAt(current)
  /\ attached' = IF current = 0 THEN attached ELSE 0

\* connectFresh up to `await handle.probe()`.
Build(via) ==
  /\ Len(handles) < MaxHandles
  /\ handles' = Append(handles, [def |-> kc, via |-> via, activated |-> FALSE,
                                 disposed |-> FALSE, health |-> "connecting"])
  /\ current' = Len(handles) + 1
  /\ attempt' = [pc |-> "probe", via |-> via, handle |-> Len(handles) + 1]

\* connect(): an existing session or an attempt in flight is shared.
Connect ==
  /\ current = 0 /\ attempt.pc = "none" /\ kc # None
  /\ IF jump = None
     THEN Build(None)
     ELSE /\ attempt' = [pc |-> "tunnel", via |-> jump, handle |-> 0]
          /\ UNCHANGED <<handles, current>>
  /\ UNCHANGED <<config, attached, checks, server>>

TunnelUp ==
  /\ attempt.pc = "tunnel"
  /\ Build(attempt.via)
  /\ UNCHANGED <<config, attached, checks, server>>

TunnelFails ==
  /\ attempt.pc = "tunnel"
  /\ attempt' = NoAttempt
  /\ UNCHANGED <<config, handles, current, attached, checks, server>>

\* Mutant: the attempt does not ask whether its handle was dropped meanwhile,
\* and activation starts the pollers of a disposed handle again.
ConnectedUnasked ==
  /\ attempt.pc = "probe"
  /\ handles' = [handles EXCEPT ![attempt.handle].disposed = FALSE,
                                ![attempt.handle].activated = handles[attempt.handle].def \in up]
  /\ attached' = 0
  /\ attempt' = NoAttempt
  /\ UNCHANGED <<config, current, checks, server>>

\* handle.probe() answers and the handle is still the one: activate it if the
\* API server answered, and announce the session.
Connected ==
  LET answers == handles[current].def \in up IN
  /\ attempt.pc = "probe" /\ kc # None /\ current = attempt.handle
  /\ handles' = [handles EXCEPT ![current].health = IF answers THEN "connected" ELSE "error",
                                ![current].activated = answers]
  /\ attached' = 0
  /\ attempt' = NoAttempt
  /\ UNCHANGED <<config, current, checks, server>>

\* The context is gone, or the handle was dropped: no zombie is activated, and
\* nobody is told.
ConnectOverruled ==
  /\ attempt.pc = "probe" /\ (kc = None \/ current # attempt.handle)
  /\ handles' = DisposedAt(attempt.handle)
  /\ current' = IF current = attempt.handle THEN 0 ELSE current
  /\ attempt' = NoAttempt
  /\ UNCHANGED <<config, attached, checks, server>>

Disconnect ==
  /\ current # 0
  /\ DropCurrent
  /\ UNCHANGED <<config, attempt, checks, server>>

\* Probe clients are disposed of: requests under way may fail.
Cut(ps) == [p \in Probers |-> [ps[p] EXCEPT !.cut = @ \/ ps[p].pc = "request"]]

\* Without an attempt in flight, reconnect() connects anew; otherwise it joins
\* that attempt, which then finds its handle dropped.
Reconnect ==
  /\ current # 0
  /\ IF attempt.pc = "none" /\ kc # None
     THEN /\ Len(handles) < MaxHandles
          /\ IF jump = None
             THEN /\ handles' = Append(DisposedAt(current),
                       [def |-> kc, via |-> None, activated |-> FALSE,
                        disposed |-> FALSE, health |-> "connecting"])
                  /\ current' = Len(handles) + 1
                  /\ attempt' = [pc |-> "probe", via |-> None, handle |-> Len(handles) + 1]
             ELSE /\ handles' = DisposedAt(current) /\ current' = 0
                  /\ attempt' = [pc |-> "tunnel", via |-> jump, handle |-> 0]
          /\ attached' = 0
     ELSE DropCurrent /\ UNCHANGED attempt
  /\ client' = Forgotten /\ probes' = Cut(probes)
  /\ UNCHANGED <<config, health, server>>

\* A watch socket subscribes: get() hands out whatever handle the Map holds.
Attach ==
  /\ current # 0 /\ attached = 0
  /\ attached' = current
  /\ UNCHANGED <<config, handles, current, attempt, checks, server>>

(***************************************************************************)
(* The kubeconfig and the jump host                                        *)
(***************************************************************************)
\* kubectl, or another program, writes the file.
EditFile ==
  /\ Edit
  /\ \E d \in (Defs \cup {None}) \ {file} : file' = d
  /\ reloadDue' = TRUE
  /\ UNCHANGED <<kc, jump, session, checks, server>>

\* refreshCachedHealth(), once the probe client is forgotten: a run starts,
\* unless one is in progress. h and ps are the health cache and the probes.
Refresh(h, ps) ==
  LET starts == ps["run"].pc = "none" /\ kc' # None
      fresh == [def |-> kc', via |-> None]
  IN /\ health' = IF starts /\ h = "unknown" /\ current' = 0 THEN "connecting" ELSE h
     /\ client' = IF starts /\ jump' = None THEN [known |-> TRUE, used |-> fresh] ELSE Forgotten
     /\ probes' = IF ~starts THEN ps
                  ELSE [ps EXCEPT !["run"] =
                          IF jump' = None
                          THEN [pc |-> "request", via |-> None, used |-> fresh, cut |-> FALSE]
                          ELSE [Idle EXCEPT !.pc = "tunnel", !.via = jump']]

\* reload() from the debounce timer: an entry that changed takes its session
\* and its cached health with it, one that is gone its cached health.
Reload ==
  /\ reloadDue /\ reloadDue' = FALSE
  /\ attempt.pc = "tunnel" => EditsWhileTunneling
  /\ kc' = file
  /\ IF file # kc THEN DropCurrent ELSE UNCHANGED <<handles, current, attached>>
  /\ UNCHANGED <<file, jump, edits, attempt, server>>
  /\ Refresh(IF file = None \/ (file # kc /\ current # 0) THEN "unknown" ELSE health, Cut(probes))

\* Edit of the entry in Kubus: the file is written, the session dropped in any
\* case, and only then the file reloaded, which so leaves the cached health.
EditCluster ==
  /\ kc # None /\ file # None /\ Edit
  /\ \E d \in Defs : file' = d /\ kc' = d
  /\ reloadDue' = TRUE
  /\ UNCHANGED <<jump, attempt, server>>
  /\ DropCurrent
  /\ Refresh(health, Cut(probes))

\* Removal in Kubus, with the mapping to its jump host. Its probe client is
\* forgotten before reload() could dispose of it.
RemoveContext ==
  /\ kc # None /\ Edit
  /\ file' = None /\ kc' = None /\ jump' = None
  /\ reloadDue' = TRUE
  /\ DropCurrent
  /\ UNCHANGED <<attempt, server>>
  /\ Refresh("unknown", probes)

\* Mutant: the session keeps going through the old jump host.
SetSshHostKeeps ==
  /\ kc # None /\ Edit
  /\ \E h \in Vias \ {jump} : jump' = h
  /\ UNCHANGED <<file, kc, reloadDue, session, server>>
  /\ Refresh(health, probes)

SetSshHost ==
  /\ kc # None /\ Edit
  /\ \E h \in Vias \ {jump} : jump' = h
  /\ UNCHANGED <<file, kc, reloadDue, attempt, server>>
  /\ DropCurrent
  /\ Refresh(health, probes)

(***************************************************************************)
(* Health probes                                                           *)
(***************************************************************************)
\* probeClient after its await: the cached client, if its proxy still matches,
\* or a new one of the entry as it is now.
Ask(p, via) ==
  LET used == IF client.known /\ client.used.via = via THEN client.used
              ELSE [def |-> kc, via |-> via]
  IN /\ client' = [known |-> TRUE, used |-> used]
     /\ probes' = [q \in Probers |->
                     IF q = p THEN [pc |-> "request", via |-> via, used |-> used, cut |-> FALSE]
                     ELSE IF client.known /\ client.used # used /\ probes[q].pc = "request"
                     THEN [probes[q] EXCEPT !.cut = TRUE]
                     ELSE probes[q]]

\* The 60 second interval, unless a run is in progress, or "Test connection".
ProbeStarts(p) ==
  /\ probes[p].pc = "none" /\ kc # None
  /\ IF jump = None THEN Ask(p, None)
     ELSE /\ probes' = [probes EXCEPT ![p] = [Idle EXCEPT !.pc = "tunnel", !.via = jump]]
          /\ UNCHANGED client
  /\ health' = IF p = "run" /\ health = "unknown" /\ current = 0 THEN "connecting" ELSE health
  /\ UNCHANGED <<config, session, server>>

ProbeTunnelUp(p) ==
  /\ probes[p].pc = "tunnel"
  /\ Ask(p, probes[p].via)
  /\ UNCHANGED <<config, session, health, server>>

\* Mutant: only the cache learns of the outcome.
SetCachedHealthOnly(result) == health' = result /\ UNCHANGED handles

\* Mutant: the session is shown what the cache held before.
SetCachedHealthLate(result) ==
  /\ health' = result
  /\ handles' = IF current # 0 /\ handles[current].activated
                THEN [handles EXCEPT ![current].health = health]
                ELSE handles

\* An activated session shows what the latest probe of its context found.
SetCachedHealth(result) ==
  /\ health' = result
  /\ handles' = IF current # 0 /\ handles[current].activated
                THEN [handles EXCEPT ![current].health = result]
                ELSE handles

Outcome(p, result) ==
  /\ probes' = [probes EXCEPT ![p] = Idle]
  /\ IF p = "run" /\ kc = None
     THEN UNCHANGED <<health, handles>>
     ELSE SetCachedHealth(result)
  /\ UNCHANGED <<config, current, attempt, attached, client, server>>

ProbeTunnelFails(p) == probes[p].pc = "tunnel" /\ Outcome(p, "error")

ProbeAnswers(p) ==
  /\ probes[p].pc = "request"
  /\ \/ Outcome(p, IF probes[p].used.def \in up THEN "connected" ELSE "error")
     \/ probes[p].cut /\ Outcome(p, "error")

ServerFlips ==
  /\ flips < MaxFlips /\ flips' = flips + 1
  /\ \E d \in Defs : up' = IF d \in up THEN up \ {d} ELSE up \cup {d}
  /\ UNCHANGED <<config, session, checks>>

-----------------------------------------------------------------------------
ConnectStep == TunnelUp \/ TunnelFails \/ Connected \/ ConnectOverruled

RunStep == ProbeStarts("run") \/ ProbeTunnelUp("run") \/ ProbeTunnelFails("run") \/ ProbeAnswers("run")
TestStep == ProbeTunnelUp("test") \/ ProbeTunnelFails("test") \/ ProbeAnswers("test")

User == Connect \/ Disconnect \/ Reconnect \/ Attach \/ EditCluster
        \/ RemoveContext \/ SetSshHost \/ ProbeStarts("test")

Next == ConnectStep \/ RunStep \/ TestStep \/ User \/ EditFile \/ Reload \/ ServerFlips

Spec == Init /\ [][Next]_vars

\* Requests and tunnels end, one way or the other, and timers fire; users and
\* editors owe nothing.
Fairness ==
  WF_vars(ConnectStep) /\ WF_vars(RunStep) /\ WF_vars(TestStep) /\ WF_vars(Reload)

FairSpec == Spec /\ Fairness

(***************************************************************************)
(* Properties                                                              *)
(***************************************************************************)
\* A session in use was built from the entry as it is loaded, and goes through
\* the jump host the settings name (cluster-manager.ts:337 and :605).
SessionMatchesConfig ==
  (current # 0 /\ handles[current].activated) =>
    handles[current].def = kc /\ handles[current].via = jump

\* No subscription stays on a disposed session without being told
\* (watch-client.ts:215: "instead of silently going stale on the disposed one").
NobodyOnDisposed == attached # 0 => ~handles[attached].disposed

\* A handle the Map forgot is disposed of, unless its attempt still has to see
\* to that: no poller, watcher or connection of an old session is left over.
NoZombies ==
  \A h \in DOMAIN handles :
    ~handles[h].disposed => h = current \/ (attempt.pc = "probe" /\ attempt.handle = h)

\* The health of an active session ends up telling whether the API server of
\* its entry answers, whatever late answers of probes of an earlier definition
\* or through an earlier client arrived (cluster-manager.ts:466).
HealthSettles ==
  <>[](current # 0 /\ handles[current].activated /\ jump = None =>
         handles[current].health = IF kc \in up THEN "connected" ELSE "error")
=============================================================================
