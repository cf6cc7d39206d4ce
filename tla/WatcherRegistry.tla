---------------------------- MODULE WatcherRegistry ----------------------------
(***************************************************************************)
(* WatcherRegistry of server/src/kube/watcher.ts for one key, that is, one *)
(* resource type and namespace: sockets, indexes and routes share one      *)
(* ResourceWatcher by reference counting, and it lingers for 30 seconds    *)
(* after its last holder released it.                                      *)
(*                                                                         *)
(* An entry is one object the Map held under the key at some time.  The    *)
(* release function and the linger timer keep a reference to their entry   *)
(* after the Map has forgotten it.                                         *)
(***************************************************************************)
EXTENDS Integers, FiniteSets

CONSTANTS Holders,     \* the callers of acquire()
          MaxEntries   \* bound on the entries ever created

ASSUME HoldersAssumption == IsFiniteSet(Holders)
ASSUME MaxEntriesAssumption == MaxEntries \in Nat

VARIABLES created,   \* entries created so far
          current,   \* this.watchers.get(key); 0 for undefined
          refs,      \* entry.refs
          linger,    \* entry.linger is armed
          watcher,   \* entry.watcher: running, stopped, or stopped by a 404
          holds,     \* what each holder acquired: its entry, and whether its
                     \* release function was called
          disposed   \* stopAll() was called

vars == <<created, current, refs, linger, watcher, holds, disposed>>

Entries == 1..MaxEntries
NoEntry == 0
Nothing == [entry |-> NoEntry, released |-> TRUE]

TypeOK ==
  /\ created \in 0..MaxEntries
  /\ current \in 0..created
  /\ refs \in [Entries -> Nat]
  /\ linger \in [Entries -> BOOLEAN]
  /\ watcher \in [Entries -> {"running", "stopped", "unavailable"}]
  /\ holds \in [Holders -> [entry : 0..created, released : BOOLEAN]]
  /\ disposed \in BOOLEAN

Init ==
  /\ created = 0 /\ current = NoEntry
  /\ refs = [e \in Entries |-> 0]
  /\ linger = [e \in Entries |-> FALSE]
  /\ watcher = [e \in Entries |-> "stopped"]
  /\ holds = [h \in Holders |-> Nothing]
  /\ disposed = FALSE

\* ResourceWatcher.start(), for which 404 is final.
Start(e) ==
  watcher' = [watcher EXCEPT ![e] = IF @ = "stopped" THEN "running" ELSE @]

\* Mutant: a lingering entry is handed out with its timer still armed.
TakeLingering(h, e) ==
  /\ refs' = [refs EXCEPT ![e] = @ + 1]
  /\ UNCHANGED linger
  /\ Start(e)
  /\ holds' = [holds EXCEPT ![h] = [entry |-> e, released |-> FALSE]]

\* The part of acquire() that a new and an existing entry have in common.
Take(h, e) ==
  /\ refs' = [refs EXCEPT ![e] = @ + 1]
  /\ linger' = [linger EXCEPT ![e] = FALSE]
  /\ Start(e)
  /\ holds' = [holds EXCEPT ![h] = [entry |-> e, released |-> FALSE]]

Acquire(h) ==
  /\ holds[h].released
  /\ \/ /\ current # NoEntry
        /\ Take(h, current)
        /\ UNCHANGED <<created, current>>
     \/ /\ current = NoEntry /\ created < MaxEntries
        /\ created' = created + 1 /\ current' = created + 1
        /\ Take(h, created + 1)
  /\ UNCHANGED disposed

\* Mutant: a second call of a release function counts again.
ReleaseTwice(h) ==
  LET e == holds[h].entry IN
  /\ e # NoEntry
  /\ refs[e] > -2
  /\ holds' = [holds EXCEPT ![h].released = TRUE]
  /\ refs' = [refs EXCEPT ![e] = @ - 1]
  /\ linger' = [linger EXCEPT ![e] = @ \/ refs[e] <= 1]
  /\ UNCHANGED <<created, current, watcher, disposed>>

\* Mutant: the timer is armed only when the last holder but one leaves.
ReleaseForgetsLinger(h) ==
  LET e == holds[h].entry IN
  /\ ~holds[h].released
  /\ holds' = [holds EXCEPT ![h].released = TRUE]
  /\ refs' = [refs EXCEPT ![e] = @ - 1]
  /\ linger' = [linger EXCEPT ![e] = @ \/ refs[e] = 2]
  /\ UNCHANGED <<created, current, watcher, disposed>>

\* The release function; calling it again has no effect.
Release(h) ==
  LET e == holds[h].entry IN
  /\ ~holds[h].released
  /\ holds' = [holds EXCEPT ![h].released = TRUE]
  /\ refs' = [refs EXCEPT ![e] = @ - 1]
  /\ linger' = [linger EXCEPT ![e] = @ \/ refs[e] <= 1]
  /\ UNCHANGED <<created, current, watcher, disposed>>

Stopped(e) == IF watcher[e] = "unavailable" THEN "unavailable" ELSE "stopped"

\* Mutant: the Map forgets the entry but its watcher keeps running.
LingerFiresOnly(e) ==
  /\ linger[e]
  /\ linger' = [linger EXCEPT ![e] = FALSE]
  /\ current' = NoEntry
  /\ UNCHANGED <<created, refs, watcher, holds, disposed>>

\* The 30 second timer: it deletes the key, whatever entry the Map holds now.
LingerFires(e) ==
  /\ linger[e]
  /\ linger' = [linger EXCEPT ![e] = FALSE]
  /\ watcher' = [watcher EXCEPT ![e] = Stopped(e)]
  /\ current' = NoEntry
  /\ UNCHANGED <<created, refs, holds, disposed>>

\* ClusterHandle.dispose(); a route that kept the handle across an await may
\* still acquire afterwards.
StopAll ==
  /\ ~disposed /\ disposed' = TRUE
  /\ IF current = NoEntry
     THEN UNCHANGED <<linger, watcher>>
     ELSE /\ linger' = [linger EXCEPT ![current] = FALSE]
          /\ watcher' = [watcher EXCEPT ![current] = Stopped(current)]
  /\ current' = NoEntry
  /\ UNCHANGED <<created, refs, holds>>

\* markUnavailable: the resource type answered 404.
Disappears(e) ==
  /\ watcher[e] = "running"
  /\ watcher' = [watcher EXCEPT ![e] = "unavailable"]
  /\ UNCHANGED <<created, current, refs, linger, holds, disposed>>

Next ==
  \/ \E h \in Holders : Acquire(h) \/ Release(h)
  \/ \E e \in Entries : LingerFires(e) \/ Disappears(e)
  \/ StopAll

\* Timers fire; nobody has to release what it holds.
Spec == Init /\ [][Next]_vars /\ \A e \in Entries : WF_vars(LingerFires(e))

(***************************************************************************)
(* Properties                                                              *)
(***************************************************************************)
HoldersOf(e) == {h \in Holders : holds[h].entry = e /\ ~holds[h].released}

\* entry.refs is the number of holders that did not release yet, whatever the
\* order of acquisitions, releases, timers and disposal (watcher.ts:409-417).
RefsCountHolders == \A e \in Entries : refs[e] = Cardinality(HoldersOf(e))

\* Nobody's watcher is stopped behind its back by a timer armed before it was
\* acquired (watcher.ts:405-408); only a disposed cluster stops them.
HeldIsRunning ==
  \A h \in Holders :
    (~holds[h].released /\ ~disposed) => watcher[holds[h].entry] # "stopped"

\* Two watchers never watch the same type: whoever acquires shares the one
\* that runs (the registry's purpose, watcher.ts:385).
OneWatcherPerType ==
  ~disposed => \A e \in Entries : watcher[e] = "running" => e = current

\* A watcher that nobody holds stops, the ones of a disposed cluster too: no
\* connection to the API server is leaked.
UnheldStops ==
  \A e \in Entries :
    (HoldersOf(e) = {} /\ watcher[e] = "running")
      ~> (HoldersOf(e) # {} \/ watcher[e] # "running")

(***************************************************************************)
(* The inductive invariant behind the first three                          *)
(***************************************************************************)
LingerInv ==
  \A e \in Entries :
    /\ linger[e] => HoldersOf(e) = {}
    /\ (watcher[e] = "running" /\ HoldersOf(e) = {}) => linger[e]

CurrentInv ==
  \A e \in Entries :
    /\ (~disposed /\ (linger[e] \/ HoldersOf(e) # {})) => e = current
    /\ e > created => ~linger[e] /\ watcher[e] = "stopped" /\ HoldersOf(e) = {}

HoldsInv == \A h \in Holders : ~holds[h].released => holds[h].entry \in Entries

IInv ==
  /\ TypeOK /\ RefsCountHolders /\ HeldIsRunning /\ OneWatcherPerType
  /\ LingerInv /\ CurrentInv /\ HoldsInv
=============================================================================
