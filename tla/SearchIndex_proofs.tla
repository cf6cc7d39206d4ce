-------------------------- MODULE SearchIndex_proofs --------------------------
(***************************************************************************)
(* The search index, for any kinds, writes, CRD changes, faults and room   *)
(* for stopped states: what is indexed is what each kind's state last      *)
(* read, and once a change of the CRDs is noticed, every CRD is indexed.   *)
(***************************************************************************)
EXTENDS SearchIndex, TLAPS

USE KindsAssumption, BoundsAssumption, SlotsAssumption

Phases == Listing \cup {"open", "watch", "retry", "pause", "ended"}
States == [Kinds -> [Slots -> State]]
Recs == [phase : {"idle", "discover", "probe", "start"}, found : SUBSET Custom,
         queued : BOOLEAN, misled : BOOLEAN]
Trackers == [seen : SUBSET SUBSET Custom, may : SUBSET SUBSET Custom, noticed : BOOLEAN]
Discs == [cached : SUBSET SUBSET Custom, may : SUBSET SUBSET Custom, poor : BOOLEAN]

-----------------------------------------------------------------------------
(* Types.                                                                  *)

LEMMA CrdsType == \A l : There(l) \in SUBSET Custom /\ Crds \in SUBSET Custom
  BY DEF There, Crds

LEMMA AnswerType ==
  ASSUME NEW k \in Kinds, NEW l, NEW v \in [Kinds -> Nat]
  PROVE Answer(k, l, v) \in Versions
  BY DEF Answer, Versions, Nothing

LEMMA NowType == ASSUME TypeOK, NEW k \in Kinds PROVE Now(k) \in Versions
  BY AnswerType DEF Now, TypeOK

LEMMA EndedType == Ended \in State
  BY DEF Ended, State, Versions, Nothing, Listing

LEMMA ToType ==
  ASSUME TypeOK, NEW k \in Kinds, NEW s \in State, NEW phase \in Phases
  PROVE To(k, s, phase) \in State
  BY NowType, EndedType, ZenonT(40) DEF To, State, Phases, Listing

LEMMA PhaseType ==
  ASSUME NEW s \in State
  PROVE /\ s.phase \in Phases
        /\ AfterList(s) \in Phases \ {"initial"}
        /\ AfterFailure(s) \in Phases \ {"initial"}
        /\ \A phase \in Phases : Caught(s, phase) \in Phases
  BY DEF State, Phases, Listing, AfterList, AfterFailure, Caught

LEMMA AskedType == ASSUME NEW d \in Discs PROVE Asked(d) \in Discs /\ Asked(d).cached = d.cached
  BY CrdsType DEF Asked, Discs

\* What a call of reconcileKinds() leaves behind.
LEMMA ReconcileType ==
  ASSUME NEW r \in Recs, NEW d \in Discs, Reconcile(r, d)
  PROVE /\ rec' \in Recs /\ disc' \in Discs /\ disc'.cached = d.cached
        /\ r.phase # "idle" => rec' = [r EXCEPT !.queued = TRUE]
        /\ r.phase = "idle" =>
             \/ rec'.phase = "discover"
             \/ rec'.phase = "probe" /\ rec'.found \in d.cached /\ rec'.misled = d.poor
<1>1. CASE r.phase # "idle"
  BY <1>1 DEF Reconcile, Recs
<1>2. CASE r.phase = "idle" /\ d.cached = {}
  BY <1>2, AskedType DEF Reconcile, Recs
<1>3. CASE r.phase = "idle" /\ d.cached # {}
  <2>1. PICK found \in d.cached :
          rec' = [r EXCEPT !.phase = "probe", !.found = found, !.misled = d.poor] /\ disc' = d
    BY <1>3 DEF Reconcile
  <2>2. found \in SUBSET Custom /\ d.poor \in BOOLEAN
    BY <2>1 DEF Discs
  <2> QED BY <1>3, <2>1, <2>2 DEF Recs
<1> QED BY <1>1, <1>2, <1>3

LEMMA DoneType ==
  ASSUME disposed \in BOOLEAN, NEW r \in Recs, NEW d \in Discs, Done(r, d)
  PROVE /\ rec' \in Recs /\ disc' \in Discs /\ disc'.cached = d.cached
        /\ \/ rec'.phase = "idle" /\ (r.queued => disposed)
           \/ rec'.phase = "discover"
           \/ rec'.phase = "probe" /\ rec'.found \in d.cached /\ rec'.misled = d.poor
<1> DEFINE idle == [r EXCEPT !.phase = "idle", !.queued = FALSE]
<1>1. CASE r.queued /\ ~disposed
  <2>1. idle \in Recs /\ idle.phase = "idle"
    BY DEF Recs
  <2>2. Reconcile(idle, d)
    BY <1>1 DEF Done
  <2> HIDE DEF idle
  <2> QED BY <2>1, <2>2, ReconcileType
<1>2. CASE ~(r.queued /\ ~disposed)
  BY <1>2 DEF Done, Recs
<1> QED BY <1>1, <1>2

\* A change of the cluster widens requests and nothing else of a state.
LEMMA WidenedType ==
  ASSUME st \in States, NEW k \in Kinds, NEW v \in Versions
  PROVE /\ Widened(k, v) \in States
        /\ \A k2 \in Kinds, i \in Slots :
             \/ Widened(k, v)[k2][i] = st[k2][i]
             \/ /\ st[k2][i].may # {}
                /\ Widened(k, v)[k2][i] = [st[k2][i] EXCEPT !.may = st[k2][i].may \cup {v}]
<1> DEFINE wide(i) == IF st[k][i].may = {} THEN st[k][i]
                      ELSE [st[k][i] EXCEPT !.may = st[k][i].may \cup {v}]
<1>1. \A i \in Slots : st[k][i] \in State
  BY DEF States
<1>2. \A i \in Slots : wide(i) \in State
  BY <1>1 DEF State
<1>3. Widened(k, v) = [st EXCEPT ![k] = [i \in Slots |-> wide(i)]]
  BY DEF Widened
<1>4. [i \in Slots |-> wide(i)] \in [Slots -> State]
  BY <1>2
<1>5. \A i \in Slots : Widened(k, v)[k][i] = wide(i)
  BY <1>3 DEF States
<1>6. \A k2 \in Kinds : k2 # k => Widened(k, v)[k2] = st[k2]
  BY <1>3 DEF States
<1>7. Widened(k, v) \in States
  BY <1>3, <1>4 DEF States
<1> QED BY <1>5, <1>6, <1>7

\* TypeOK by the sets above.
TypeInv ==
  /\ life \in [Custom -> Nat] /\ ver \in [Kinds -> Nat]
  /\ h2 \in BOOLEAN /\ rbac \in [Kinds -> {"all", "list", "none"}]
  /\ faults \in 0..MaxFaults
  /\ tracker \in Trackers /\ disc \in Discs
  /\ started \in BOOLEAN /\ disposed \in BOOLEAN
  /\ rec \in Recs /\ cur \in [Kinds -> Slots \cup {0}] /\ st \in States
  /\ byId \subseteq Kinds \X Nat /\ byName \in [Kinds -> Nat] /\ spoiled \subseteq Kinds

LEMMA TypeParts == (TypeOK <=> TypeInv) /\ (TypeOK' <=> TypeInv')
  BY DEF TypeOK, TypeInv, Trackers, Discs, Recs, States

LEMMA InitType == Init => TypeOK
<1> SUFFICES ASSUME Init PROVE TypeOK
  OBVIOUS
<1>1. st \in States
  BY EndedType DEF Init, States
<1>2. disc \in Discs /\ rec \in Recs
  BY DEF Init, Discs, Recs
<1>3. tracker \in Trackers
  BY CrdsType DEF Init, Trackers
<1>4. byId \subseteq Kinds \X Nat
  BY DEF Init
<1>5. life \in [Custom -> Nat] /\ ver \in [Kinds -> Nat] /\ byName \in [Kinds -> Nat]
  BY DEF Init
<1>6. faults \in 0..MaxFaults
  BY DEF Init
<1>7. cur \in [Kinds -> Slots \cup {0}] /\ spoiled \subseteq Kinds
  BY DEF Init
<1>8. TypeInv
  BY <1>1, <1>2, <1>3, <1>4, <1>5, <1>6, <1>7 DEF Init, TypeInv
<1> QED BY <1>8, TypeParts

LEMMA FaultType == ASSUME faults \in 0..MaxFaults, Fault PROVE faults' \in 0..MaxFaults
  BY DEF Fault

\* What goes on about the kinds that are served.
LEMMA ClusterType ==
  ASSUME TypeOK,
         \/ \E k \in Kinds : Write(k)
         \/ \E k \in Custom : ChangeCrd(k)
         \/ SwitchTransport \/ Warm \/ SafetyTick \/ RouteAsks \/ Expire
         \/ DiscoveryAnswers \/ DiscoveryFails \/ Check \/ CheckAnswers \/ CheckFails
  PROVE TypeOK'
<1> USE TypeParts DEF TypeInv
<1>1. ASSUME NEW k \in Kinds, Write(k) PROVE TypeOK'
  <2>1. ver' \in [Kinds -> Nat] /\ ver[k] + 1 \in Versions
    BY <1>1 DEF Write, Versions
  <2>2. st' \in States
    BY <1>1, <2>1, WidenedType DEF Write
  <2> QED BY <1>1, <2>1, <2>2 DEF Write, cluster, index, entries
<1>2. ASSUME NEW k \in Custom, ChangeCrd(k) PROVE TypeOK'
  <2>1. life' \in [Custom -> Nat] /\ ver' \in [Kinds -> Nat] /\ k \in Kinds
    BY <1>2 DEF ChangeCrd, Kinds
  <2>2. st' \in States
    BY <1>2, <2>1, AnswerType, WidenedType DEF ChangeCrd
  <2>3. tracker' \in Trackers
    <3>1. There(life') \in SUBSET Custom
      BY CrdsType
    <3>2. tracker.may \in SUBSET SUBSET Custom
      BY DEF Trackers
    <3>3. tracker' = [tracker EXCEPT !.may = IF @ = {} THEN {} ELSE @ \cup {There(life')},
                                     !.noticed = FALSE]
      BY <1>2 DEF ChangeCrd
    <3> QED BY <3>1, <3>2, <3>3 DEF Trackers
  <2>4. disc' \in Discs
    BY <1>2, CrdsType DEF ChangeCrd, Discs
  <2> QED BY <1>2, <2>1, <2>2, <2>3, <2>4 DEF ChangeCrd, index, entries
<1>3. CASE SwitchTransport
  <2>1. rec' \in Recs /\ h2' \in BOOLEAN
    BY <1>3 DEF SwitchTransport, Recs
  <2> QED BY <1>3, <2>1, FaultType DEF SwitchTransport, index, entries
<1>4. CASE Warm
  <2>1. rec' \in Recs /\ disc' \in Discs
    BY <1>4, ReconcileType DEF Warm
  <2> QED BY <1>4, <2>1 DEF Warm, cluster, entries
<1>5. CASE SafetyTick
  <2>1. [disc EXCEPT !.cached = {}] \in Discs
    BY DEF Discs
  <2>2. rec' \in Recs /\ disc' \in Discs
    BY <1>5, <2>1, ReconcileType DEF SafetyTick
  <2> QED BY <1>5, <2>2 DEF SafetyTick, cluster, index, entries
<1>6. CASE RouteAsks
  BY <1>6, AskedType DEF RouteAsks, cluster, index, entries
<1>7. CASE Expire
  <2>1. disc' \in Discs
    BY <1>7 DEF Expire, Discs
  <2> QED BY <1>7, <2>1 DEF Expire, cluster, index, entries
<1>8. CASE DiscoveryAnswers
  <2>1. PICK answer \in disc.may, down \in SUBSET Custom :
          /\ IF down = {} THEN UNCHANGED faults ELSE down \subseteq answer /\ Fault
          /\ disc' = [cached |-> {answer \ down}, may |-> {}, poor |-> disc.poor \/ down # {}]
          /\ rec' = IF rec.phase # "discover" THEN rec
                    ELSE [rec EXCEPT !.phase = "probe", !.found = answer \ down,
                                     !.misled = disc.poor \/ down # {}]
    BY <1>8 DEF DiscoveryAnswers
  <2>2. answer \ down \in SUBSET Custom
    BY <2>1, CrdsType DEF Discs
  <2>3. disc' \in Discs /\ rec' \in Recs
    BY <2>1, <2>2 DEF Discs, Recs
  <2>4. faults' \in 0..MaxFaults
    BY <2>1, FaultType
  <2> QED BY <1>8, <2>3, <2>4 DEF DiscoveryAnswers, cluster, index, entries
<1>9. CASE DiscoveryFails
  <2>1. [disc EXCEPT !.may = {}] \in Discs /\ [rec EXCEPT !.misled = TRUE] \in Recs
    BY DEF Discs, Recs
  <2>2. rec' \in Recs /\ disc' \in Discs
    BY <1>9, <2>1, DoneType DEF DiscoveryFails
  <2> QED BY <1>9, <2>2, FaultType DEF DiscoveryFails, cluster, index, entries
<1>10. CASE Check
  <2>1. tracker' \in Trackers
    BY <1>10, CrdsType DEF Check, Trackers
  <2> QED BY <1>10, <2>1 DEF Check, cluster, index, entries
<1>11. CASE CheckAnswers
  <2>1. tracker' \in Trackers
    BY <1>11 DEF CheckAnswers, Trackers
  <2>2. [disc EXCEPT !.cached = {}, !.poor = TRUE] \in Discs
    BY DEF Discs
  <2>3. rec' \in Recs /\ disc' \in Discs
    BY <1>11, <2>2, ReconcileType DEF CheckAnswers, Notify
  <2> QED BY <1>11, <2>1, <2>3 DEF CheckAnswers, cluster, index, entries
<1>12. CASE CheckFails
  BY <1>12, FaultType DEF CheckFails, Trackers, cluster, index, entries
<1> QED BY <1>1, <1>2, <1>3, <1>4, <1>5, <1>6, <1>7, <1>8, <1>9, <1>10, <1>11, <1>12

\* What the lists and watches do to the entries keeps their types.
LEMMA RemoveType ==
  ASSUME TypeInv, NEW k \in Kinds, NEW i \in Slots, RemoveEntries(k, i)
  PROVE byId' \subseteq Kinds \X Nat /\ byName' \in [Kinds -> Nat]
  BY DEF TypeInv, RemoveEntries, Without, NameWithout

LEMMA ReplaceType ==
  ASSUME TypeInv, NEW k \in Kinds, NEW i \in Slots, NEW v \in Nat, Replace(k, i, v)
  PROVE byId' \subseteq Kinds \X Nat /\ byName' \in [Kinds -> Nat]
<1>1. Objects(v) \subseteq Nat
  BY DEF Objects
<1>2. NameWithout(k, st[k][i].ids) \in Nat
  BY DEF NameWithout, TypeInv
<1>3. Without(k, st[k][i].ids) \subseteq Kinds \X Nat
  BY DEF TypeInv, Without
<1> QED BY <1>1, <1>2, <1>3 DEF Replace, TypeInv

LEMMA SpoilType ==
  ASSUME TypeInv, NEW k \in Kinds, NEW i \in Slots, NEW v, Spoil(k, i, v)
  PROVE spoiled' \subseteq Kinds /\ spoiled \subseteq spoiled' /\ spoiled' \subseteq spoiled \cup {k}
  BY DEF TypeInv, Spoil

\* The parts that depend on the reconcile.
LEMMA StartEndsType ==
  ASSUME TypeInv, NEW k \in Kinds, NEW i \in Slots, StartEnds(k, i)
  PROVE rec' \in Recs /\ disc' \in Discs
  BY DoneType DEF StartEnds, TypeInv

LEMMA StateType ==
  ASSUME TypeInv, NEW k \in Kinds, NEW i \in Slots
  PROVE st[k][i] \in State
  BY DEF TypeInv, States

-----------------------------------------------------------------------------
(* The entries.                                                            *)

\* A state in itself: given up only while it is in the Map, a request only in
\* a list phase, a version before a watch.  A stopped one does not wait for a
\* timer and, unless its kind is spoiled, has and had nothing.
Fit(s, isSpoiled) ==
  /\ s.unavailable => s.running /\ s.phase = "ended"
  /\ s.phase \notin Listing => s.may = {}
  /\ s.phase \in {"open", "watch"} => s.rv # Nothing
  /\ ~s.running => s.phase \notin {"retry", "pause"}
  /\ ~s.running /\ ~isSpoiled =>
       s.ids = {} /\ (s.phase \in {"open", "watch"} => Objects(s.rv) = {})

\* The state in the Map is the one that runs.
OwnerInv ==
  \A k \in Kinds, i \in Slots :
    Fit(st[k][i], k \in spoiled) /\ (st[k][i].running <=> cur[k] = i)

\* The entries of a kind, in the two maps, are these.
Shown(s) == IF s.unavailable THEN {} ELSE Objects(s.rv)
Has(ids, name, k, shown) ==
  /\ \A x \in Nat : <<k, x>> \in ids <=> x \in shown
  /\ shown = {} <=> name = 0
  /\ name # 0 => shown = {name}

EntryInv ==
  \A k \in Kinds \ spoiled :
    /\ cur[k] = 0 => Has(byId, byName[k], k, {})
    /\ \A i \in Slots : cur[k] = i =>
         st[k][i].ids = Shown(st[k][i]) /\ Has(byId, byName[k], k, Shown(st[k][i]))

IndexInv == TypeOK /\ OwnerInv /\ EntryInv

LEMMA ObjectsParity ==
  /\ Objects(Nothing) = {} /\ Objects(0) = {}
  /\ \A v \in Versions : Objects(v) \subseteq Nat /\ Objects(v) \in {{}, {v}} /\ 0 \notin Objects(v)
  /\ \A v \in Nat : Objects(v) = {} <=> Objects(v + 1) # {}
  BY DEF Objects, Nothing, Versions

LEMMA EndedFit == \A isSpoiled : Fit(Ended, isSpoiled) /\ Shown(Ended) = {} /\ Ended.ids = {}
                                 /\ ~Ended.running
  BY ObjectsParity DEF Fit, Shown, Ended, Listing

Kept(k) ==
  byName'[k] = byName[k] /\ \A x \in Nat : <<k, x>> \in byId' <=> <<k, x>> \in byId

\* What the state in the Map has, and that one that was stopped has nothing.
LEMMA OwnsEntries ==
  ASSUME IndexInv, NEW k \in Kinds, NEW i \in Slots, k \notin spoiled
  PROVE /\ st[k][i].running =>
             /\ st[k][i].ids = Shown(st[k][i])
             /\ Has(byId, byName[k], k, Shown(st[k][i]))
        /\ ~st[k][i].running => st[k][i].ids = {}
  BY DEF IndexInv, OwnerInv, EntryInv, Fit

LEMMA RemoveHas ==
  ASSUME IndexInv, NEW k \in Kinds, NEW i \in Slots, RemoveEntries(k, i)
  PROVE /\ \A k2 \in Kinds \ {k} : Kept(k2)
        /\ k \notin spoiled /\ st[k][i].running => Has(byId', byName'[k], k, {})
        /\ k \notin spoiled /\ ~st[k][i].running => Kept(k)
<1> USE TypeParts DEF IndexInv, TypeInv
<1> DEFINE ids == st[k][i].ids
<1>1. /\ \A k2 \in Kinds, x \in Nat : <<k2, x>> \in byId' <=>
               <<k2, x>> \in byId /\ ~(k2 = k /\ x \in ids)
      /\ \A k2 \in Kinds \ {k} : byName'[k2] = byName[k2]
      /\ byName'[k] = NameWithout(k, ids)
  BY DEF RemoveEntries, Without
<1>2. \A k2 \in Kinds \ {k} : Kept(k2)
  BY <1>1 DEF Kept
<1>3. ASSUME k \notin spoiled, st[k][i].running PROVE Has(byId', byName'[k], k, {})
  <2>1. Has(byId, byName[k], k, ids)
    BY <1>3, OwnsEntries
  <2>2. \A x \in Nat : <<k, x>> \notin byId'
    BY <1>1, <2>1 DEF Has
  <2>3. CASE ids = {}
    BY <1>1, <2>1, <2>2, <2>3 DEF NameWithout, Has
  <2>4. CASE ids # {}
    <3>1. byName[k] \in ids /\ <<k, byName[k]>> \in byId
      BY <2>1, <2>4 DEF Has
    <3>2. byName'[k] = 0
      BY <1>1, <3>1 DEF NameWithout
    <3> QED BY <2>2, <3>2 DEF Has
  <2> QED BY <2>3, <2>4
<1>4. ASSUME k \notin spoiled, ~st[k][i].running PROVE Kept(k)
  <2>1. ids = {}
    BY <1>4, OwnsEntries
  <2>2. ({k} \X ids) \cap byId = {}
    BY <2>1
  <2> QED BY <1>1, <2>1, <2>2 DEF Kept, NameWithout
<1> QED BY <1>2, <1>3, <1>4

LEMMA ReplaceHas ==
  ASSUME IndexInv, NEW k \in Kinds, NEW i \in Slots, NEW v \in Nat, Replace(k, i, v)
  PROVE /\ \A k2 \in Kinds \ {k} : Kept(k2)
        /\ k \notin spoiled /\ st[k][i].running => Has(byId', byName'[k], k, Objects(v))
        /\ k \notin spoiled /\ ~st[k][i].running /\ Objects(v) = {} => Kept(k)
<1> USE TypeParts DEF IndexInv, TypeInv
<1> DEFINE ids == st[k][i].ids
           name == NameWithout(k, ids)
           namesake == IF Objects(v) = {} THEN {} ELSE {<<k, name>>}
<1>1. /\ byId' = (Without(k, ids) \ namesake) \cup ({k} \X Objects(v))
      /\ byName' = [byName EXCEPT ![k] = IF Objects(v) = {} THEN name ELSE v]
  BY DEF Replace
<1>2. \A k2 \in Kinds \ {k} : Kept(k2)
  BY <1>1 DEF Kept, Without
<1>3. ASSUME k \notin spoiled, st[k][i].running PROVE Has(byId', byName'[k], k, Objects(v))
  <2>1. Has(byId, byName[k], k, ids)
    BY <1>3, OwnsEntries
  <2>2. \A x \in Nat : <<k, x>> \notin Without(k, ids)
    BY <2>1 DEF Has, Without
  <2>3. name = 0
    <3>1. CASE ids = {}
      BY <2>1, <3>1 DEF NameWithout, Has
    <3>2. CASE ids # {}
      BY <2>1, <3>2 DEF NameWithout, Has
    <3> QED BY <3>1, <3>2
  <2>4. \A x \in Nat : <<k, x>> \in byId' <=> x \in Objects(v)
    BY <1>1, <2>2
  <2>5. Objects(v) = {} => byName'[k] = 0
    BY <1>1, <2>3
  <2>6. Objects(v) # {} => byName'[k] = v /\ v # 0 /\ Objects(v) = {v}
    BY <1>1, ObjectsParity DEF Versions
  <2> QED BY <2>4, <2>5, <2>6 DEF Has
<1>4. ASSUME k \notin spoiled, ~st[k][i].running, Objects(v) = {} PROVE Kept(k)
  <2>1. ids = {}
    BY <1>4, OwnsEntries
  <2>2. name = byName[k] /\ Without(k, ids) = byId
    BY <2>1 DEF NameWithout, Without
  <2> QED BY <1>1, <1>4, <2>2 DEF Kept
<1> QED BY <1>2, <1>3, <1>4

\* A step of the loop of one state, which becomes s.
Turn(k, i, s) ==
  /\ st' = [st EXCEPT ![k][i] = s] /\ s \in State /\ s.phase # "initial"
  /\ Fit(s, k \in spoiled')
  /\ byId' \subseteq Kinds \X Nat /\ byName' \in [Kinds -> Nat]
  /\ spoiled' \subseteq Kinds /\ spoiled \subseteq spoiled' /\ spoiled' \subseteq spoiled \cup {k}
  /\ \A k2 \in Kinds \ {k} : Kept(k2)
  /\ \/ cur' = cur /\ s.running = st[k][i].running
     \/ st[k][i].running /\ ~s.running /\ cur' = [cur EXCEPT ![k] = 0]
  /\ k \notin spoiled' =>
       /\ st[k][i].running => s.ids = Shown(s) /\ Has(byId', byName'[k], k, Shown(s))
       /\ ~s.running => Shown(s) = {} \/ ~st[k][i].running
       /\ ~st[k][i].running => Kept(k)

LEMMA TurnKeeps ==
  ASSUME IndexInv, NEW k \in Kinds, NEW i \in Slots, NEW s, Turn(k, i, s)
  PROVE st' \in States /\ cur' \in [Kinds -> Slots \cup {0}] /\ OwnerInv' /\ EntryInv'
<1>0. st' = [st EXCEPT ![k][i] = s] /\ s \in State /\ st \in States
  BY TypeParts DEF IndexInv, TypeInv, Turn
<1>1. /\ st' \in States /\ st'[k][i] = s
      /\ \A k2 \in Kinds, i2 \in Slots : k2 # k \/ i2 # i => st'[k2][i2] = st[k2][i2]
  BY <1>0 DEF States
<1> USE TypeParts DEF IndexInv, TypeInv
<1>2. cur' \in [Kinds -> Slots \cup {0}] /\ \A k2 \in Kinds \ {k} : cur'[k2] = cur[k2]
  BY DEF Turn
<1>3. OwnerInv'
  <2> SUFFICES ASSUME NEW k2 \in Kinds, NEW i2 \in Slots
               PROVE Fit(st'[k2][i2], k2 \in spoiled') /\ (st'[k2][i2].running <=> cur'[k2] = i2)
    BY DEF OwnerInv
  <2>1. Fit(st[k2][i2], k2 \in spoiled) /\ (st[k2][i2].running <=> cur[k2] = i2)
    BY DEF OwnerInv
  <2>2. CASE k2 = k /\ i2 = i
    <3>1. Fit(s, k \in spoiled')
      BY DEF Turn
    <3>2. s.running <=> cur'[k] = i
      BY <2>1, <2>2 DEF Turn
    <3> QED BY <1>1, <2>2, <3>1, <3>2
  <2>3. CASE k2 # k \/ i2 # i
    <3>1. Fit(st[k2][i2], k2 \in spoiled')
      BY <2>1 DEF Turn, Fit
    <3>2. st[k2][i2].running <=> cur'[k2] = i2
      <4>1. CASE k2 # k
        BY <1>2, <2>1, <4>1
      <4>2. CASE k2 = k /\ cur' = cur
        BY <2>1, <4>2
      <4>3. CASE k2 = k /\ st[k][i].running /\ cur' = [cur EXCEPT ![k] = 0]
        <5>1. cur[k] = i
          BY <4>3 DEF OwnerInv
        <5> QED BY <2>1, <2>3, <4>3, <5>1
      <4> QED BY <4>1, <4>2, <4>3 DEF Turn
    <3> QED BY <1>1, <2>3, <3>1, <3>2
  <2> QED BY <2>2, <2>3
<1>4. EntryInv'
  <2> SUFFICES ASSUME NEW k2 \in Kinds, k2 \notin spoiled'
               PROVE /\ cur'[k2] = 0 => Has(byId', byName'[k2], k2, {})
                     /\ \A i2 \in Slots : cur'[k2] = i2 =>
                          /\ st'[k2][i2].ids = Shown(st'[k2][i2])
                          /\ Has(byId', byName'[k2], k2, Shown(st'[k2][i2]))
    BY DEF EntryInv
  <2>1. k2 \notin spoiled
    BY DEF Turn
  <2>2. /\ cur[k2] = 0 => Has(byId, byName[k2], k2, {})
        /\ \A i2 \in Slots : cur[k2] = i2 =>
             st[k2][i2].ids = Shown(st[k2][i2]) /\ Has(byId, byName[k2], k2, Shown(st[k2][i2]))
    BY <2>1 DEF EntryInv
  <2>3. ASSUME Kept(k2), NEW shown, Has(byId, byName[k2], k2, shown)
        PROVE Has(byId', byName'[k2], k2, shown)
    BY <2>3 DEF Kept, Has
  <2>4. CASE k2 # k
    <3>1. Kept(k2) /\ cur'[k2] = cur[k2]
      BY <1>2, <2>4 DEF Turn
    <3> QED BY <1>1, <2>2, <2>3, <2>4, <3>1
  <2>5. CASE k2 = k /\ ~st[k][i].running
    <3>1. Kept(k) /\ cur' = cur
      BY <2>5 DEF Turn
    <3>2. cur[k] # i
      BY <2>5 DEF OwnerInv
    <3> QED BY <1>1, <2>2, <2>3, <2>5, <3>1, <3>2
  <2>6. CASE k2 = k /\ st[k][i].running
    <3>1. s.ids = Shown(s) /\ Has(byId', byName'[k], k, Shown(s)) /\ cur[k] = i
      BY <2>6 DEF Turn, OwnerInv
    <3>2. CASE cur' = cur
      BY <1>1, <2>6, <3>1, <3>2
    <3>3. CASE ~s.running /\ cur' = [cur EXCEPT ![k] = 0]
      <4>1. Shown(s) = {} /\ cur'[k] = 0
        BY <2>6, <3>3 DEF Turn
      <4> QED BY <2>6, <3>1, <4>1
    <3> QED BY <2>6, <3>2, <3>3 DEF Turn
  <2> QED BY <2>4, <2>5, <2>6
<1> QED BY <1>1, <1>2, <1>3, <1>4

\* A step of a loop that leaves the entries and the Map alone.
LEMMA QuietTurn ==
  ASSUME IndexInv, NEW k \in Kinds, NEW i \in Slots, NEW s \in State,
         Move(k, i, s), UNCHANGED entries, cur' = cur,
         s.phase # "initial", Fit(s, k \in spoiled), s.running = st[k][i].running,
         s.running => s.ids = st[k][i].ids /\ Shown(s) = Shown(st[k][i])
  PROVE Turn(k, i, s)
<1> USE TypeParts DEF IndexInv, TypeInv
<1>1. byId' = byId /\ byName' = byName /\ spoiled' = spoiled
  BY DEF entries
<1>2. \A k2 \in Kinds : Kept(k2)
  BY <1>1 DEF Kept
<1>3. ASSUME k \notin spoiled', st[k][i].running
      PROVE s.ids = Shown(s) /\ Has(byId', byName'[k], k, Shown(s))
  BY <1>1, <1>3, OwnsEntries
<1> QED BY <1>1, <1>2, <1>3 DEF Turn, Move

\* A loop goes on, fails, or ends because it was stopped.
LEMMA CaughtTurn ==
  ASSUME IndexInv, NEW k \in Kinds, NEW i \in Slots, NEW phase \in Phases,
         phase # "initial", Move(k, i, To(k, st[k][i], phase)), UNCHANGED entries, cur' = cur,
         ~st[k][i].unavailable,
         phase \in {"open", "watch"} => st[k][i].rv # Nothing,
         ~st[k][i].running => phase \in {"ended", "watch"}
           /\ (phase = "watch" => st[k][i].phase = "open")
  PROVE \E s : Turn(k, i, s)
<1> USE TypeParts DEF IndexInv, TypeInv
<1> DEFINE s == st[k][i]
           t == To(k, s, phase)
<1>1. s \in State /\ Fit(s, k \in spoiled)
  BY StateType DEF OwnerInv
<1>2. t \in State
  BY <1>1, ToType
<1>3. CASE phase = "ended" /\ ~s.running
  <2>1. t = Ended
    BY <1>3 DEF To
  <2>2. Ended.phase = "ended" /\ Ended.running = s.running
    BY <1>1, <1>3 DEF Ended, State
  <2>3. Move(k, i, Ended) /\ Fit(Ended, k \in spoiled)
    BY <2>1, EndedFit
  <2>4. Turn(k, i, Ended)
    BY <1>3, <2>2, <2>3, EndedType, QuietTurn
  <2> QED BY <2>4
<1>4. CASE ~(phase = "ended" /\ ~s.running)
  <2>1. t = [s EXCEPT !.phase = phase, !.may = IF phase \in Listing THEN {Now(k)} ELSE {}]
    BY <1>4 DEF To
  <2>2. t.phase = phase /\ t.running = s.running /\ t.ids = s.ids /\ t.rv = s.rv
        /\ t.unavailable = s.unavailable /\ (phase \notin Listing => t.may = {})
    BY <1>1, <2>1 DEF State
  <2>3. Fit(t, k \in spoiled)
    BY <1>1, <1>4, <2>2 DEF Fit
  <2>4. Shown(t) = Shown(s)
    BY <2>2 DEF Shown
  <2> HIDE DEF t
  <2> QED BY <1>2, <2>2, <2>3, <2>4, QuietTurn DEF t
<1> QED BY <1>3, <1>4

LEMMA UnavailableTurn ==
  ASSUME IndexInv, NEW k \in Kinds, NEW i \in Slots, cur' = cur, Unavailable(k, i)
  PROVE \E s : Turn(k, i, s)
<1> USE TypeParts DEF IndexInv, TypeInv
<1> DEFINE s == st[k][i]
           t == IF s.running THEN [s EXCEPT !.phase = "ended", !.unavailable = TRUE,
                                            !.ids = {}, !.may = {}] ELSE Ended
<1>1. s \in State /\ Move(k, i, t) /\ RemoveEntries(k, i) /\ spoiled' = spoiled
  BY StateType DEF Unavailable
<1>2. /\ t \in State /\ t.running = s.running /\ t.phase = "ended" /\ t.ids = {}
      /\ Shown(t) = {} /\ Fit(t, k \in spoiled)
  <2>1. CASE s.running
    <3>1. t = [s EXCEPT !.phase = "ended", !.unavailable = TRUE, !.ids = {}, !.may = {}]
      BY <2>1
    <3>2. t \in State /\ t.running /\ t.phase = "ended" /\ t.ids = {} /\ t.unavailable /\ t.may = {}
      BY <1>1, <2>1, <3>1 DEF State, Listing
    <3> QED BY <2>1, <3>2 DEF Shown, Fit
  <2>2. CASE ~s.running
    <3>1. t = Ended
      BY <2>2
    <3> QED BY <1>1, <2>2, <3>1, EndedType, EndedFit DEF Ended, State
  <2> QED BY <2>1, <2>2
<1>3. byId' \subseteq Kinds \X Nat /\ byName' \in [Kinds -> Nat]
  BY <1>1, RemoveType
<1>4. /\ \A k2 \in Kinds \ {k} : Kept(k2)
      /\ k \notin spoiled /\ s.running => Has(byId', byName'[k], k, {})
      /\ k \notin spoiled /\ ~s.running => Kept(k)
  BY <1>1, RemoveHas
<1> HIDE DEF t
<1>5. Turn(k, i, t)
  BY <1>1, <1>2, <1>3, <1>4 DEF Turn, Move
<1> QED BY <1>5

LEMMA ListAnswersTurn ==
  ASSUME IndexInv, NEW k \in Kinds, NEW i \in Slots, ListAnswers(k, i)
  PROVE faults' \in 0..MaxFaults /\ \E s : Turn(k, i, s)
<1> USE TypeParts DEF IndexInv, TypeInv
<1> DEFINE s == st[k][i]
<1>1. s \in State /\ Fit(s, k \in spoiled) /\ s.phase \in Listing /\ s.running \in BOOLEAN
  BY StateType DEF OwnerInv, Fit, ListAnswers, State
<1>2. PICK v \in 0..ver[k] :
        /\ IF v \in s.may THEN UNCHANGED faults
           ELSE s.phase # "quorum" /\ Fault /\ \E now \in s.may : v < now
        /\ Replace(k, i, v)
        /\ Move(k, i, IF AfterList(s) = "ended" THEN Ended
                      ELSE [To(k, s, AfterList(s)) EXCEPT !.rv = v, !.ids = Objects(v)])
        /\ Spoil(k, i, v)
  BY DEF ListAnswers
<1>3. v \in Nat /\ v \in Versions /\ v # Nothing /\ cur' = cur
  BY DEF Versions, Nothing, ListAnswers, TypeInv
<1>4. faults' \in 0..MaxFaults
  BY <1>2, FaultType
<1>5. /\ byId' \subseteq Kinds \X Nat /\ byName' \in [Kinds -> Nat]
      /\ spoiled' \subseteq Kinds /\ spoiled \subseteq spoiled' /\ spoiled' \subseteq spoiled \cup {k}
  BY <1>2, <1>3, ReplaceType, SpoilType
<1>6. /\ \A k2 \in Kinds \ {k} : Kept(k2)
      /\ k \notin spoiled /\ s.running => Has(byId', byName'[k], k, Objects(v))
      /\ k \notin spoiled /\ ~s.running /\ Objects(v) = {} => Kept(k)
  BY <1>2, <1>3, ReplaceHas
<1>7. k \notin spoiled' => k \notin spoiled /\ (s.running \/ Objects(v) = {})
  BY <1>2 DEF Spoil
<1>8. CASE AfterList(s) = "ended"
  <2>1. ~s.running
    BY <1>8 DEF AfterList
  <2>2. Move(k, i, Ended)
    BY <1>2, <1>8
  <2>3. Ended.phase = "ended" /\ Ended.running = s.running
    BY <1>1, <2>1 DEF Ended
  <2>4. Turn(k, i, Ended)
    BY <1>3, <1>5, <1>6, <1>7, <2>1, <2>2, <2>3, EndedType, EndedFit DEF Turn, Move
  <2> QED BY <1>4, <2>4
<1>9. CASE AfterList(s) # "ended"
  <2> DEFINE t == [To(k, s, AfterList(s)) EXCEPT !.rv = v, !.ids = Objects(v)]
  <2>1. AfterList(s) \in {"open", "pause"} /\ (~s.running => AfterList(s) = "open")
    BY <1>9 DEF AfterList
  <2>2. To(k, s, AfterList(s)) = [s EXCEPT !.phase = AfterList(s), !.may = {}]
    BY <2>1 DEF To, Listing
  <2>3. t \in State /\ t.phase = AfterList(s) /\ t.running = s.running /\ t.may = {}
        /\ t.rv = v /\ t.ids = Objects(v) /\ t.unavailable = s.unavailable
    BY <1>1, <1>3, <2>1, <2>2, ObjectsParity DEF State
  <2>4. ~t.unavailable /\ Shown(t) = Objects(v)
    BY <1>1, <2>3 DEF Fit, Shown, Listing
  <2>5. Move(k, i, t)
    BY <1>2, <1>9
  <2> HIDE DEF t
  <2>6. Fit(t, k \in spoiled')
    BY <1>3, <1>7, <2>1, <2>3, <2>4 DEF Fit, Listing
  <2>7. Turn(k, i, t)
    BY <1>3, <1>5, <1>6, <1>7, <2>1, <2>3, <2>4, <2>5, <2>6 DEF Turn, Move
  <2> QED BY <1>4, <2>7
<1> QED BY <1>8, <1>9

LEMMA FailureTurn ==
  ASSUME IndexInv, NEW k \in Kinds, NEW i \in Slots, st[k][i].may # {},
         Move(k, i, To(k, st[k][i], AfterFailure(st[k][i]))), UNCHANGED entries, cur' = cur
  PROVE \E s : Turn(k, i, s)
<1> USE TypeParts DEF IndexInv, TypeInv
<1> DEFINE s == st[k][i]
<1>1. s \in State /\ Fit(s, k \in spoiled) /\ s.phase \in Listing
  BY StateType DEF OwnerInv, Fit
<1>2. ~s.unavailable
  BY <1>1 DEF Fit, Listing
<1>3. AfterFailure(s) \in Phases /\ AfterFailure(s) \notin {"initial", "open", "watch"}
      /\ (~s.running => AfterFailure(s) = "ended")
  BY DEF AfterFailure, Phases, Listing
<1> QED BY <1>2, <1>3, CaughtTurn

LEMMA ListRefusedTurn ==
  ASSUME IndexInv, NEW k \in Kinds, NEW i \in Slots, ListRefused(k, i)
  PROVE \E s : Turn(k, i, s)
<1>1. cur' = cur
  BY DEF ListRefused
<1> QED BY <1>1, FailureTurn, UnavailableTurn DEF ListRefused

LEMMA ListFailsTurn ==
  ASSUME IndexInv, NEW k \in Kinds, NEW i \in Slots, ListFails(k, i)
  PROVE \E s : Turn(k, i, s)
<1>1. cur' = cur
  BY DEF ListFails
<1> QED BY <1>1, FailureTurn DEF ListFails

LEMMA DemoteTurn ==
  ASSUME IndexInv, NEW k \in Kinds, NEW i \in Slots, Demote(k, i)
  PROVE Turn(k, i, Ended)
<1> USE TypeParts DEF IndexInv, TypeInv
<1>1. Move(k, i, Ended) /\ RemoveEntries(k, i) /\ spoiled' = spoiled
      /\ cur' = (IF st[k][i].running THEN [cur EXCEPT ![k] = 0] ELSE cur)
  BY DEF Demote
<1>2. st[k][i].running \in BOOLEAN
  BY StateType DEF State
<1>3. byId' \subseteq Kinds \X Nat /\ byName' \in [Kinds -> Nat]
  BY <1>1, RemoveType
<1>4. /\ \A k2 \in Kinds \ {k} : Kept(k2)
      /\ k \notin spoiled /\ st[k][i].running => Has(byId', byName'[k], k, {})
      /\ k \notin spoiled /\ ~st[k][i].running => Kept(k)
  BY <1>1, RemoveHas
<1>5. Ended.phase = "ended" /\ Ended.running = FALSE
  BY DEF Ended
<1> QED BY <1>1, <1>2, <1>3, <1>4, <1>5, EndedType, EndedFit DEF Turn, Move

LEMMA OpenTurn ==
  ASSUME IndexInv, NEW k \in Kinds, NEW i \in Slots, Open(k, i)
  PROVE /\ rec' \in Recs /\ disc' \in Discs
        /\ \E s : Turn(k, i, s)
<1> USE TypeParts DEF IndexInv, TypeInv
<1> DEFINE s == st[k][i]
<1>1. CASE Demote(k, i)
  <2>1. rec' \in Recs /\ disc' \in Discs
    BY <1>1, ReconcileType DEF Demote
  <2> QED BY <1>1, <2>1, DemoteTurn
<1>2. CASE Unavailable(k, i) /\ UNCHANGED <<cur, rec, disc>>
  BY <1>2, UnavailableTurn
<1>3. CASE /\ Move(k, i, To(k, s, IF rbac[k] = "all" THEN "watch" ELSE Caught(s, "pause")))
           /\ UNCHANGED <<cur, rec, disc, entries>>
  <2> DEFINE phase == IF rbac[k] = "all" THEN "watch" ELSE Caught(s, "pause")
  <2>1. s \in State /\ Fit(s, k \in spoiled) /\ s.phase = "open"
    BY StateType DEF OwnerInv, Open
  <2>2. ~s.unavailable /\ s.rv # Nothing
    BY <2>1 DEF Fit
  <2>3. phase \in Phases /\ phase \in {"watch", "pause", "ended"}
        /\ (~s.running => phase \in {"watch", "ended"})
    BY DEF Caught, Phases
  <2> QED BY <1>3, <2>1, <2>2, <2>3, CaughtTurn
<1> QED BY <1>1, <1>2, <1>3 DEF Open

LEMMA WatchEndsTurn ==
  ASSUME IndexInv, NEW k \in Kinds, NEW i \in Slots,
         WatchEnds(k, i) \/ WatchFails(k, i) \/ Retry(k, i)
  PROVE \E s : Turn(k, i, s)
<1> USE TypeParts DEF IndexInv, TypeInv
<1> DEFINE s == st[k][i]
<1>1. s \in State /\ Fit(s, k \in spoiled) /\ cur' = cur /\ UNCHANGED entries
      /\ s.phase \in {"open", "watch", "retry", "pause"}
  BY StateType DEF OwnerInv, WatchEnds, WatchFails, Retry
<1>2. ~s.unavailable
  BY <1>1 DEF Fit
<1>3. \E phase \in Phases :
        /\ Move(k, i, To(k, s, phase)) /\ phase # "initial"
        /\ phase \in {"open", "watch"} => s.rv # Nothing
        /\ ~s.running => phase = "ended"
  <2>1. CASE WatchEnds(k, i)
    BY <1>1, <2>1 DEF WatchEnds, Caught, Phases, Fit
  <2>2. CASE WatchFails(k, i)
    BY <1>1, <2>2 DEF WatchFails, Caught, Phases, Listing, Fit
  <2>3. CASE Retry(k, i)
    BY <1>1, <2>3 DEF Retry, Phases, Listing, Fit
  <2> QED BY <2>1, <2>2, <2>3
<1> QED BY <1>1, <1>2, <1>3, CaughtTurn

LEMMA WatchEventTurn ==
  ASSUME IndexInv, NEW k \in Kinds, NEW i \in Slots, WatchEvent(k, i)
  PROVE \E s : Turn(k, i, s)
<1> USE TypeParts DEF IndexInv, TypeInv
<1> DEFINE s == st[k][i]
           v == s.rv + 1
<1>1. s \in State /\ Fit(s, k \in spoiled) /\ s.phase = "watch" /\ cur' = cur
  BY StateType DEF OwnerInv, WatchEvent
<1>2. s.rv \in Nat /\ v \in Nat /\ v \in Versions /\ v # Nothing /\ ~s.unavailable
  BY <1>1 DEF Fit, State, Versions, Nothing
<1>3. Spoil(k, i, v)
  BY DEF WatchEvent
<1>4. spoiled' \subseteq Kinds /\ spoiled \subseteq spoiled' /\ spoiled' \subseteq spoiled \cup {k}
  BY <1>3, SpoilType
<1>5. k \notin spoiled' => k \notin spoiled /\ (s.running \/ Objects(v) = {})
  BY <1>3 DEF Spoil
<1>6. s.running /\ k \notin spoiled =>
        s.ids = Objects(s.rv) /\ Has(byId, byName[k], k, Objects(s.rv))
  BY <1>2, OwnsEntries DEF Shown
<1>7. Objects(s.rv) = {} <=> Objects(v) # {}
  BY <1>2, ObjectsParity
<1>8. \A ids \in SUBSET Nat : [s EXCEPT !.rv = v, !.ids = ids] \in State
  BY <1>1, <1>2 DEF State
<1>9. ASSUME NEW ids \in SUBSET Nat, st' = [st EXCEPT ![k][i] = [s EXCEPT !.rv = v, !.ids = ids]],
             \A k2 \in Kinds \ {k} : Kept(k2),
             byId' \subseteq Kinds \X Nat, byName' \in [Kinds -> Nat],
             s.running /\ k \notin spoiled => ids = Objects(v) /\ Has(byId', byName'[k], k, Objects(v)),
             ~s.running => k \in spoiled'
      PROVE \E t : Turn(k, i, t)
  <2> DEFINE t == [s EXCEPT !.rv = v, !.ids = ids]
  <2>1. t \in State /\ t.phase = "watch" /\ t.rv = v /\ t.ids = ids /\ t.running = s.running
        /\ t.unavailable = s.unavailable /\ t.may = s.may
    BY <1>1, <1>8 DEF State
  <2>2. Shown(t) = Objects(v)
    BY <1>2, <2>1 DEF Shown
  <2>3. st' = [st EXCEPT ![k][i] = t]
    BY <1>9
  <2> HIDE DEF t
  <2>4. Fit(t, k \in spoiled')
    BY <1>1, <1>2, <1>9, <2>1 DEF Fit, Listing
  <2>5. Turn(k, i, t)
    BY <1>1, <1>4, <1>5, <1>9, <2>1, <2>2, <2>3, <2>4 DEF Turn
  <2> QED BY <2>5
<1>10. CASE Objects(v) # {}
  <2> DEFINE ids == (s.ids \ {byName[k]}) \cup {v}
  <2>1. /\ byId' = (byId \ {<<k, byName[k]>>}) \cup {<<k, v>>}
        /\ byName' = [byName EXCEPT ![k] = v]
        /\ st' = [st EXCEPT ![k][i] = [s EXCEPT !.rv = v, !.ids = ids]]
    BY <1>1, <1>10 DEF WatchEvent, Upsert, State
  <2>3. ids \in SUBSET Nat
    BY <1>1, <1>2 DEF State
  <2>4. byId' \subseteq Kinds \X Nat /\ byName' \in [Kinds -> Nat]
        /\ \A k2 \in Kinds \ {k} : Kept(k2)
    BY <1>2, <2>1 DEF Kept
  <2>5. ~s.running => k \in spoiled'
    BY <1>5, <1>10
  <2>6. ASSUME s.running, k \notin spoiled
        PROVE ids = Objects(v) /\ Has(byId', byName'[k], k, Objects(v))
    <3>1. Objects(v) = {v} /\ v # 0
      BY <1>2, <1>10, ObjectsParity
    <3>2. s.ids = {} /\ byName[k] = 0 /\ \A x \in Nat : <<k, x>> \notin byId
      BY <1>6, <1>7, <1>10, <2>6 DEF Has
    <3>3. \A x \in Nat : <<k, x>> \in byId' <=> x = v
      BY <2>1, <3>2
    <3>4. byName'[k] = v
      BY <2>1
    <3> QED BY <3>1, <3>2, <3>3, <3>4 DEF Has
  <2> QED BY <1>9, <2>1, <2>3, <2>4, <2>5, <2>6
<1>11. CASE Objects(v) = {}
  <2> DEFINE id == IF byName[k] # 0 THEN byName[k] ELSE v - 1
             ids == s.ids \ {id}
  <2>1. /\ byId' = byId \ {<<k, id>>}
        /\ byName' = [byName EXCEPT ![k] = 0]
        /\ st' = [st EXCEPT ![k][i] = [s EXCEPT !.rv = v, !.ids = ids]]
    BY <1>1, <1>11 DEF WatchEvent, Delete, State
  <2>3. ids \in SUBSET Nat
    BY <1>1 DEF State
  <2>4. byId' \subseteq Kinds \X Nat /\ byName' \in [Kinds -> Nat]
        /\ \A k2 \in Kinds \ {k} : Kept(k2)
    BY <2>1 DEF Kept
  <2>5. ~s.running => k \in spoiled'
    BY <1>1, <1>4, <1>7, <1>11 DEF Fit
  <2>6. ASSUME s.running, k \notin spoiled
        PROVE ids = Objects(v) /\ Has(byId', byName'[k], k, Objects(v))
    <3>1. s.ids = {byName[k]} /\ byName[k] # 0 /\ \A x \in Nat : <<k, x>> \in byId <=> x = byName[k]
      BY <1>6, <1>7, <1>11, <2>6 DEF Has
    <3>2. id = byName[k] /\ ids = {}
      BY <3>1
    <3>3. \A x \in Nat : <<k, x>> \notin byId'
      BY <2>1, <3>1, <3>2
    <3>4. byName'[k] = 0
      BY <2>1
    <3> QED BY <1>11, <3>2, <3>3, <3>4 DEF Has
  <2> QED BY <1>9, <2>1, <2>3, <2>4, <2>5, <2>6
<1> QED BY <1>10, <1>11

LEMMA LoopKeeps ==
  ASSUME IndexInv, NEW k \in Kinds, NEW i \in Slots,
         LoopStep(k, i) \/ ListFails(k, i) \/ WatchFails(k, i)
  PROVE IndexInv'
<1>1. TypeInv
  BY TypeParts DEF IndexInv
<1>2. ASSUME NEW s, Turn(k, i, s), rec' \in Recs, disc' \in Discs, faults' \in 0..MaxFaults,
             UNCHANGED cluster, UNCHANGED tracker, UNCHANGED index
      PROVE IndexInv'
  <2>1. st' \in States /\ cur' \in [Kinds -> Slots \cup {0}] /\ OwnerInv' /\ EntryInv'
    BY <1>2, TurnKeeps
  <2>2. byId' \subseteq Kinds \X Nat /\ byName' \in [Kinds -> Nat] /\ spoiled' \subseteq Kinds
    BY <1>2 DEF Turn
  <2>3. TypeInv'
    BY <1>1, <1>2, <2>1, <2>2 DEF TypeInv, cluster, index
  <2> QED BY <2>1, <2>3, TypeParts DEF IndexInv
<1>3. rec \in Recs /\ disc \in Discs /\ faults \in 0..MaxFaults
  BY <1>1 DEF TypeInv
<1>4. CASE ListAnswers(k, i)
  <2>1. rec' \in Recs /\ disc' \in Discs
    BY <1>1, <1>4, StartEndsType DEF ListAnswers
  <2> QED BY <1>2, <1>4, <2>1, ListAnswersTurn DEF ListAnswers
<1>5. CASE ListRefused(k, i)
  <2>1. rec' \in Recs /\ disc' \in Discs
    BY <1>1, <1>5, StartEndsType DEF ListRefused
  <2> QED BY <1>2, <1>3, <1>5, <2>1, ListRefusedTurn DEF ListRefused
<1>6. CASE ListFails(k, i)
  <2>1. rec' \in Recs /\ disc' \in Discs
    BY <1>1, <1>6, StartEndsType DEF ListFails
  <2>2. faults' \in 0..MaxFaults
    BY <1>3, <1>6, FaultType DEF ListFails
  <2> QED BY <1>2, <1>6, <2>1, <2>2, ListFailsTurn DEF ListFails
<1>7. CASE Open(k, i)
  BY <1>2, <1>3, <1>7, OpenTurn DEF Open
<1>8. CASE WatchEvent(k, i)
  BY <1>2, <1>3, <1>8, WatchEventTurn DEF WatchEvent
<1>9. CASE WatchEnds(k, i)
  BY <1>2, <1>3, <1>9, WatchEndsTurn DEF WatchEnds
<1>10. CASE WatchFails(k, i)
  <2>1. faults' \in 0..MaxFaults
    BY <1>3, <1>10, FaultType DEF WatchFails
  <2> QED BY <1>2, <1>3, <1>10, <2>1, WatchEndsTurn DEF WatchFails
<1>11. CASE Retry(k, i)
  BY <1>2, <1>3, <1>11, WatchEndsTurn DEF Retry
<1> QED BY <1>4, <1>5, <1>6, <1>7, <1>8, <1>9, <1>10, <1>11 DEF LoopStep

\* What moves no state and no entry, but may widen requests.
Wider(s, t) ==
  \/ t = s
  \/ s.may # {} /\ \E v \in Versions : t = [s EXCEPT !.may = s.may \cup {v}]

LEMMA FrameKeeps ==
  ASSUME IndexInv, cur' = cur, UNCHANGED entries,
         \A k \in Kinds, i \in Slots : Wider(st[k][i], st'[k][i])
  PROVE OwnerInv' /\ EntryInv'
<1>1. \A k \in Kinds, i \in Slots :
        /\ st'[k][i].phase = st[k][i].phase /\ st'[k][i].running = st[k][i].running
        /\ st'[k][i].unavailable = st[k][i].unavailable
        /\ st'[k][i].rv = st[k][i].rv /\ st'[k][i].ids = st[k][i].ids
        /\ st[k][i].may = {} => st'[k][i].may = {}
  <2> TAKE k \in Kinds, i \in Slots
  <2>1. st[k][i] \in State
    BY StateType, TypeParts DEF IndexInv
  <2>2. Wider(st[k][i], st'[k][i])
    OBVIOUS
  <2>3. ASSUME NEW v \in Versions, st[k][i].may # {},
               st'[k][i] = [st[k][i] EXCEPT !.may = st[k][i].may \cup {v}]
        PROVE /\ st'[k][i].phase = st[k][i].phase /\ st'[k][i].running = st[k][i].running
              /\ st'[k][i].unavailable = st[k][i].unavailable
              /\ st'[k][i].rv = st[k][i].rv /\ st'[k][i].ids = st[k][i].ids
    BY <2>1, <2>3 DEF State
  <2>4. CASE st'[k][i] = st[k][i]
    BY <2>4
  <2>5. CASE st'[k][i] # st[k][i]
    <3>1. st[k][i].may # {} /\ \E v \in Versions : st'[k][i] = [st[k][i] EXCEPT !.may = st[k][i].may \cup {v}]
      BY <2>2, <2>5 DEF Wider
    <3> QED BY <2>3, <3>1
  <2> QED BY <2>4, <2>5
<1>2. OwnerInv'
  <2> SUFFICES ASSUME NEW k \in Kinds, NEW i \in Slots
               PROVE Fit(st'[k][i], k \in spoiled') /\ (st'[k][i].running <=> cur'[k] = i)
    BY DEF OwnerInv
  <2>1. Fit(st[k][i], k \in spoiled) /\ (st[k][i].running <=> cur[k] = i)
    BY DEF IndexInv, OwnerInv
  <2>2. spoiled' = spoiled
    BY DEF entries
  <2>3. Fit(st'[k][i], k \in spoiled')
    BY <1>1, <2>1, <2>2 DEF Fit
  <2> QED BY <1>1, <2>1, <2>3
<1>3. \A k \in Kinds, i \in Slots : Shown(st'[k][i]) = Shown(st[k][i])
  BY <1>1 DEF Shown
<1>4. EntryInv'
  <2> SUFFICES ASSUME NEW k \in Kinds, k \notin spoiled'
               PROVE /\ cur'[k] = 0 => Has(byId', byName'[k], k, {})
                     /\ \A i \in Slots : cur'[k] = i =>
                          /\ st'[k][i].ids = Shown(st'[k][i])
                          /\ Has(byId', byName'[k], k, Shown(st'[k][i]))
    BY DEF EntryInv
  <2>1. k \notin spoiled /\ byId' = byId /\ byName' = byName
    BY DEF entries
  <2>2. /\ cur[k] = 0 => Has(byId, byName[k], k, {})
        /\ \A i \in Slots : cur[k] = i =>
             st[k][i].ids = Shown(st[k][i]) /\ Has(byId, byName[k], k, Shown(st[k][i]))
    BY <2>1 DEF IndexInv, EntryInv
  <2> QED BY <1>1, <1>3, <2>1, <2>2
<1> QED BY <1>2, <1>4

LEMMA ClusterKeeps ==
  ASSUME IndexInv,
         \/ \E k \in Kinds : Write(k)
         \/ \E k \in Custom : ChangeCrd(k)
         \/ SwitchTransport \/ Warm \/ SafetyTick \/ RouteAsks \/ Expire
         \/ DiscoveryAnswers \/ DiscoveryFails \/ Check \/ CheckAnswers \/ CheckFails
  PROVE IndexInv'
<1>1. TypeOK' /\ TypeInv
  BY ClusterType, TypeParts DEF IndexInv
<1>2. cur' = cur /\ UNCHANGED entries
  BY DEF Write, ChangeCrd, SwitchTransport, Warm, SafetyTick, RouteAsks, Expire,
         DiscoveryAnswers, DiscoveryFails, Check, CheckAnswers, CheckFails, entries
<1>3. \A k \in Kinds, i \in Slots : Wider(st[k][i], st'[k][i])
  <2>1. ASSUME NEW k \in Kinds, Write(k)
        PROVE \E v \in Versions : st' = Widened(k, v)
    BY <1>1, <2>1 DEF Write, Versions, TypeInv
  <2>2. ASSUME NEW k \in Custom, ChangeCrd(k)
        PROVE \E v \in Versions : st' = Widened(k, v)
    <3>1. ver' \in [Kinds -> Nat] /\ k \in Kinds
      BY <1>1, <2>2 DEF ChangeCrd, TypeInv, Kinds
    <3> QED BY <2>2, <3>1, AnswerType DEF ChangeCrd
  <2>3. ASSUME NEW k \in Kinds, NEW v \in Versions, st' = Widened(k, v),
               NEW k2 \in Kinds, NEW i \in Slots
        PROVE Wider(st[k2][i], st'[k2][i])
    <3>1. st \in States
      BY <1>1 DEF TypeInv
    <3>2. \/ Widened(k, v)[k2][i] = st[k2][i]
          \/ /\ st[k2][i].may # {}
             /\ Widened(k, v)[k2][i] = [st[k2][i] EXCEPT !.may = st[k2][i].may \cup {v}]
      BY <3>1, WidenedType
    <3>3. st'[k2][i] = Widened(k, v)[k2][i]
      BY <2>3
    <3> QED BY <3>2, <3>3 DEF Wider
  <2>4. CASE st' = st
    <3> TAKE k \in Kinds, i \in Slots
    <3>1. st'[k][i] = st[k][i]
      BY <2>4
    <3> QED BY <3>1 DEF Wider
  <2>5. Custom \subseteq Kinds
    BY DEF Kinds
  <2>6. CASE \E k \in Kinds : Write(k)
    BY <2>1, <2>3, <2>6
  <2>7. CASE \E k \in Custom : ChangeCrd(k)
    BY <2>2, <2>3, <2>5, <2>7
  <2> QED BY <2>4, <2>6, <2>7
          DEF SwitchTransport, Warm, SafetyTick, RouteAsks, Expire,
              DiscoveryAnswers, DiscoveryFails, Check, CheckAnswers, CheckFails
<1> QED BY <1>1, <1>2, <1>3, FrameKeeps DEF IndexInv

LEMMA StoppedFit ==
  ASSUME NEW s \in State, NEW k, Fit(s, k \in spoiled)
  PROVE Stopped(s) \in State /\ Fit(Stopped(s), k \in spoiled) /\ ~Stopped(s).running
<1>1. CASE s.phase \in Listing
  <2>1. Stopped(s) = [s EXCEPT !.running = FALSE, !.ids = {}]
    BY <1>1 DEF Stopped
  <2>2. Stopped(s) \in State /\ Stopped(s).phase = s.phase /\ ~Stopped(s).running
        /\ Stopped(s).ids = {} /\ Stopped(s).unavailable = s.unavailable
    BY <2>1 DEF State
  <2> QED BY <1>1, <2>2 DEF Fit, Listing
<1>2. CASE s.phase \notin Listing
  BY <1>2, EndedType, EndedFit DEF Stopped
<1> QED BY <1>1, <1>2

LEMMA StartedFit ==
  ASSUME TypeOK, NEW k \in Kinds
  PROVE /\ Started(k) \in State /\ Started(k).running /\ Started(k).phase = "initial"
        /\ Started(k).ids = {} /\ Shown(Started(k)) = {} /\ \A isSpoiled : Fit(Started(k), isSpoiled)
<1> DEFINE s == [Ended EXCEPT !.running = TRUE]
<1>1. s \in State
  BY EndedType DEF State
<1>2. Started(k) = [s EXCEPT !.phase = "initial", !.may = {Now(k)}]
  BY DEF Started, To, Listing
<1>3. Started(k) \in State
  BY <1>1, ToType DEF Started, Phases, Listing
<1>4. /\ Started(k).running /\ Started(k).phase = "initial" /\ Started(k).ids = {}
      /\ Started(k).rv = Nothing /\ ~Started(k).unavailable
  BY <1>2 DEF Ended
<1> QED BY <1>3, <1>4, ObjectsParity DEF Shown, Fit, Listing

\* What a reconcile does to one kind.
LEMMA ProbeKind ==
  ASSUME IndexInv, NEW m \in BOOLEAN, NEW k \in Kinds,
         \A a \in Arriving(m) : Free(a) # {}, cur' = CurAfter(m)
  PROVE \/ k \in Leaving(m) /\ k \notin Arriving(m) /\ cur[k] \in Slots /\ cur'[k] = 0
        \/ /\ k \in Arriving(m) /\ k \notin Leaving(m) /\ cur[k] = 0
           /\ cur'[k] \in Slots /\ st[k][cur'[k]] = Ended
        \/ k \notin Leaving(m) /\ k \notin Arriving(m) /\ cur'[k] = cur[k]
<1>1. cur \in [Kinds -> Slots \cup {0}] /\ 0 \notin Slots
  BY TypeParts DEF IndexInv, TypeInv
<1>2. cur'[k] = IF k \in Leaving(m) THEN 0
                ELSE IF k \in Arriving(m) THEN CHOOSE i \in Free(k) : TRUE ELSE cur[k]
  BY DEF CurAfter
<1>3. k \in Leaving(m) => k \notin Arriving(m) /\ cur[k] \in Slots
  BY <1>1 DEF Leaving, Arriving
<1>4. ASSUME k \in Arriving(m)
      PROVE cur[k] = 0 /\ (CHOOSE i \in Free(k) : TRUE) \in Free(k)
  <2>1. cur[k] = 0 /\ Free(k) # {}
    BY <1>4 DEF Arriving
  <2> QED BY <2>1
<1>5. \A i \in Free(k) : i \in Slots /\ st[k][i] = Ended
  BY DEF Free
<1> QED BY <1>2, <1>3, <1>4, <1>5

LEMMA ProbeKeeps == ASSUME IndexInv, ProbeAnswers PROVE IndexInv'
<1>1. TypeInv
  BY TypeParts DEF IndexInv
<1>2. PICK m \in BOOLEAN :
        /\ IF m = h2 THEN UNCHANGED faults ELSE ~m /\ Fault
        /\ \A k \in Arriving(m) : Free(k) # {}
        /\ cur' = CurAfter(m)
        /\ st' = [k \in Kinds |-> [i \in Slots |->
                    IF k \in Leaving(m) /\ i = cur[k] THEN Stopped(st[k][i])
                    ELSE IF k \in Arriving(m) /\ i = cur'[k] THEN Started(k)
                    ELSE st[k][i]]]
        /\ byId' = byId \ {e \in byId : e[1] \in Leaving(m) /\ e[2] \in st[e[1]][cur[e[1]]].ids}
        /\ byName' = [k \in Kinds |-> IF k \in Leaving(m)
                                      THEN NameWithout(k, st[k][cur[k]].ids) ELSE byName[k]]
        /\ LET r == [rec EXCEPT !.phase = "start", !.found = {}, !.misled = @ \/ m # h2] IN
           IF Arriving(m) = {} THEN Done(r, disc) ELSE rec' = r /\ UNCHANGED disc
  BY DEF ProbeAnswers
<1>3. /\ \A k \in Kinds, i \in Slots : st[k][i] \in State /\ Fit(st[k][i], k \in spoiled)
                                       /\ (st[k][i].running <=> cur[k] = i)
      /\ cur \in [Kinds -> Slots \cup {0}] /\ 0 \notin Slots
      /\ UNCHANGED <<cluster, tracker, index, spoiled>>
  BY <1>1, StateType DEF IndexInv, OwnerInv, TypeInv, ProbeAnswers
<1>4. \A k \in Kinds :
        \/ k \in Leaving(m) /\ k \notin Arriving(m) /\ cur[k] \in Slots /\ cur'[k] = 0
        \/ /\ k \in Arriving(m) /\ k \notin Leaving(m) /\ cur[k] = 0
           /\ cur'[k] \in Slots /\ st[k][cur'[k]] = Ended
        \/ k \notin Leaving(m) /\ k \notin Arriving(m) /\ cur'[k] = cur[k]
  BY <1>2, ProbeKind
<1>5. \A k \in Kinds, i \in Slots :
        st'[k][i] = IF k \in Leaving(m) /\ i = cur[k] THEN Stopped(st[k][i])
                    ELSE IF k \in Arriving(m) /\ i = cur'[k] THEN Started(k)
                    ELSE st[k][i]
  BY <1>2
<1>6. \A k \in Kinds, i \in Slots :
        st'[k][i] \in State /\ Fit(st'[k][i], k \in spoiled') /\ (st'[k][i].running <=> cur'[k] = i)
  <2> TAKE k \in Kinds, i \in Slots
  <2>1. spoiled' = spoiled /\ i # 0
    BY <1>3
  <2>2. CASE k \in Leaving(m) /\ i = cur[k]
    <3>1. st'[k][i] = Stopped(st[k][i]) /\ cur'[k] = 0
      BY <1>4, <1>5, <2>2
    <3>2. Stopped(st[k][i]) \in State /\ Fit(Stopped(st[k][i]), k \in spoiled)
          /\ ~Stopped(st[k][i]).running
      BY <1>3, StoppedFit
    <3> QED BY <2>1, <3>1, <3>2
  <2>3. CASE k \in Arriving(m) /\ i = cur'[k]
    <3>1. st'[k][i] = Started(k)
      BY <1>4, <1>5, <2>3
    <3>2. Started(k) \in State /\ Started(k).running /\ Fit(Started(k), k \in spoiled)
      BY <1>1, TypeParts, StartedFit
    <3> QED BY <2>1, <2>3, <3>1, <3>2
  <2>4. CASE ~(k \in Leaving(m) /\ i = cur[k]) /\ ~(k \in Arriving(m) /\ i = cur'[k])
    <3>1. st'[k][i] = st[k][i]
      BY <1>5, <2>4
    <3>2. cur[k] = i <=> cur'[k] = i
      BY <1>4, <2>1, <2>4
    <3> QED BY <1>3, <2>1, <3>1, <3>2
  <2> QED BY <2>2, <2>3, <2>4
<1>7. OwnerInv'
  BY <1>6 DEF OwnerInv
<1>8. \A k \in Kinds :
        /\ byName'[k] = IF k \in Leaving(m) THEN NameWithout(k, st[k][cur[k]].ids) ELSE byName[k]
        /\ \A x \in Nat : <<k, x>> \in byId' <=>
             <<k, x>> \in byId /\ ~(k \in Leaving(m) /\ x \in st[k][cur[k]].ids)
  BY <1>2
<1>9. EntryInv'
  <2> SUFFICES ASSUME NEW k \in Kinds, k \notin spoiled'
               PROVE /\ cur'[k] = 0 => Has(byId', byName'[k], k, {})
                     /\ \A i \in Slots : cur'[k] = i =>
                          /\ st'[k][i].ids = Shown(st'[k][i])
                          /\ Has(byId', byName'[k], k, Shown(st'[k][i]))
    BY DEF EntryInv
  <2>1. k \notin spoiled
    BY <1>3
  <2>2. /\ cur[k] = 0 => Has(byId, byName[k], k, {})
        /\ \A i \in Slots : cur[k] = i =>
             st[k][i].ids = Shown(st[k][i]) /\ Has(byId, byName[k], k, Shown(st[k][i]))
    BY <2>1 DEF IndexInv, EntryInv
  <2>3. ASSUME k \notin Leaving(m), NEW shown, Has(byId, byName[k], k, shown)
        PROVE Has(byId', byName'[k], k, shown)
    BY <1>8, <2>3 DEF Has
  <2>4. CASE k \in Leaving(m)
    <3> DEFINE ids == st[k][cur[k]].ids
    <3>1. cur[k] \in Slots /\ cur'[k] = 0
      BY <1>4, <2>4
    <3>2. Has(byId, byName[k], k, ids)
      BY <2>2, <3>1
    <3>3. \A x \in Nat : <<k, x>> \notin byId'
      BY <1>8, <2>4, <3>2 DEF Has
    <3>4. byName'[k] = 0
      <4>1. byName'[k] = NameWithout(k, ids)
        BY <1>8, <2>4
      <4>2. CASE ids = {}
        BY <3>2, <4>1, <4>2 DEF NameWithout, Has
      <4>3. CASE ids # {}
        <5>1. byName[k] \in ids /\ byName[k] \in Nat
          BY <1>1, <3>2, <4>3 DEF Has, TypeInv
        <5>2. <<k, byName[k]>> \in byId
          BY <3>2, <5>1 DEF Has
        <5> QED BY <4>1, <5>1, <5>2 DEF NameWithout
      <4> QED BY <4>2, <4>3
    <3>5. Has(byId', byName'[k], k, {})
      BY <3>3, <3>4 DEF Has
    <3> QED BY <1>3, <3>1, <3>5
  <2>5. CASE k \in Arriving(m)
    <3>1. cur[k] = 0 /\ cur'[k] \in Slots /\ st'[k][cur'[k]] = Started(k) /\ k \notin Leaving(m)
      BY <1>4, <1>5, <2>5
    <3>2. Started(k).ids = {} /\ Shown(Started(k)) = {}
      BY <1>1, TypeParts, StartedFit
    <3>3. Has(byId', byName'[k], k, {})
      BY <2>2, <2>3, <3>1
    <3>4. cur'[k] # 0
      BY <1>3, <3>1
    <3>5. ASSUME NEW i \in Slots, cur'[k] = i
          PROVE st'[k][i].ids = Shown(st'[k][i]) /\ Has(byId', byName'[k], k, Shown(st'[k][i]))
      <4>1. st'[k][i] = Started(k)
        BY <3>1, <3>5
      <4> QED BY <3>2, <3>3, <4>1
    <3> QED BY <3>4, <3>5
  <2>6. CASE k \notin Leaving(m) /\ k \notin Arriving(m)
    <3>1. cur'[k] = cur[k] /\ \A i \in Slots : st'[k][i] = st[k][i]
      BY <1>4, <1>5, <2>6
    <3> QED BY <2>2, <2>3, <2>6, <3>1
  <2> QED BY <2>4, <2>5, <2>6
<1>10. rec' \in Recs /\ disc' \in Discs
  <2>1. [rec EXCEPT !.phase = "start", !.found = {}, !.misled = @ \/ m # h2] \in Recs /\ disc \in Discs
        /\ disposed \in BOOLEAN
    BY <1>1 DEF TypeInv, Recs
  <2> QED BY <1>2, <2>1, DoneType
<1>11. faults' \in 0..MaxFaults
  BY <1>1, <1>2, FaultType DEF TypeInv
<1>12. st' \in States
  BY <1>2, <1>6 DEF States
<1>13. cur' \in [Kinds -> Slots \cup {0}]
  <2>1. \A k \in Kinds : cur'[k] \in Slots \cup {0}
    BY <1>3, <1>4
  <2> QED BY <1>2, <2>1 DEF CurAfter
<1>14. byId' \subseteq Kinds \X Nat
  BY <1>1, <1>2 DEF TypeInv
<1>15. byName' \in [Kinds -> Nat]
  BY <1>1, <1>2 DEF TypeInv, NameWithout
<1>16. TypeInv'
  BY <1>1, <1>3, <1>10, <1>11, <1>12, <1>13, <1>14, <1>15 DEF TypeInv, cluster, index
<1> QED BY <1>7, <1>9, <1>16, TypeParts DEF IndexInv

LEMMA DisposeKeeps == ASSUME IndexInv, Dispose PROVE IndexInv'
<1>1. TypeInv
  BY TypeParts DEF IndexInv
<1>2. /\ \A k \in Kinds, i \in Slots : st'[k][i] = Ended
      /\ \A k \in Kinds : cur'[k] = 0 /\ byName'[k] = 0
      /\ byId' = {} /\ 0 \notin Slots
  BY DEF Dispose
<1>3. OwnerInv'
  BY <1>2, EndedFit DEF OwnerInv
<1>4. EntryInv'
  <2>1. \A k \in Kinds : Has(byId', byName'[k], k, {})
    BY <1>2 DEF Has
  <2> QED BY <1>2, <2>1 DEF EntryInv
<1>5. st' \in States /\ cur' \in [Kinds -> Slots \cup {0}] /\ byName' \in [Kinds -> Nat]
      /\ byId' \subseteq Kinds \X Nat
  BY EndedType DEF Dispose, States
<1>6. rec' \in Recs
  BY <1>1 DEF Dispose, TypeInv, Recs
<1>7. TypeInv'
  BY <1>1, <1>5, <1>6 DEF Dispose, TypeInv, cluster
<1> QED BY <1>3, <1>4, <1>7, TypeParts DEF IndexInv

LEMMA IndexInit == Init => IndexInv
<1> SUFFICES ASSUME Init PROVE IndexInv
  OBVIOUS
<1>1. TypeOK
  BY InitType
<1>2. /\ \A k \in Kinds, i \in Slots : st[k][i] = Ended
      /\ \A k \in Kinds : cur[k] = 0 /\ byName[k] = 0
      /\ byId = {} /\ 0 \notin Slots
  BY DEF Init
<1>3. OwnerInv
  BY <1>2, EndedFit DEF OwnerInv
<1>4. EntryInv
  <2>1. \A k \in Kinds : Has(byId, byName[k], k, {})
    BY <1>2 DEF Has
  <2> QED BY <1>2, <2>1 DEF EntryInv
<1> QED BY <1>1, <1>3, <1>4 DEF IndexInv

LEMMA IndexNext == IndexInv /\ [Next]_vars => IndexInv'
<1> SUFFICES ASSUME IndexInv, [Next]_vars PROVE IndexInv'
  OBVIOUS
<1>1. CASE UNCHANGED vars
  BY <1>1 DEF IndexInv, TypeOK, OwnerInv, EntryInv, vars, cluster, index, entries, Crds
<1>2. CASE Next
  BY <1>2, ClusterKeeps, LoopKeeps, ProbeKeeps, DisposeKeeps DEF Next
<1> QED BY <1>1, <1>2

\* Every variable of the cluster, the discovery, the CRD poll, the reconcile
\* and the entries keeps its type.
THEOREM TypeCorrect == Spec => []TypeOK
<1>1. IndexInv => TypeOK
  BY DEF IndexInv
<1> QED BY <1>1, IndexInit, IndexNext, PTL DEF Spec

\* Each kind's entries, under both keys, are the objects the server had at the
\* version the kind's state in the Map last read, for any kinds, states that
\* were stopped before, writes, CRD changes and faults (search-index.ts 527-585,
\* 695-708).
THEOREM IndexCorrect == Spec => []IndexIsServerState
<1>1. IndexInv => IndexIsServerState
  <2> SUFFICES ASSUME IndexInv, NEW k \in Kinds, k \notin spoiled
               PROVE LET s == IF cur[k] = 0 THEN Ended ELSE st[k][cur[k]]
                         shown == IF s.unavailable THEN {} ELSE Objects(s.rv) IN
                     /\ Entries(k) = shown /\ s.ids = shown
                     /\ byName[k] = IF shown = {} THEN 0 ELSE s.rv
    BY DEF IndexIsServerState
  <2> DEFINE s == IF cur[k] = 0 THEN Ended ELSE st[k][cur[k]]
  <2>1. TypeInv
    BY TypeParts DEF IndexInv
  <2>2. s \in State /\ s.ids = Shown(s) /\ Has(byId, byName[k], k, Shown(s))
    <3>1. CASE cur[k] = 0
      BY <3>1, EndedType, EndedFit DEF IndexInv, EntryInv
    <3>2. CASE cur[k] # 0
      <4>1. cur[k] \in Slots
        BY <2>1, <3>2 DEF TypeInv
      <4> QED BY <2>1, <3>2, <4>1, StateType DEF IndexInv, EntryInv
    <3> QED BY <3>1, <3>2
  <2> HIDE DEF s
  <2>3. Entries(k) = Shown(s)
    <3>1. \A x : x \in Entries(k) <=> \E e \in byId : e[1] = k /\ e[2] = x
      BY DEF Entries
    <3>2. \A e \in byId : e = <<e[1], e[2]>> /\ e[2] \in Nat
      BY <2>1 DEF TypeInv
    <3>3. \A x \in Nat : x \in Entries(k) <=> <<k, x>> \in byId
      BY <3>1, <3>2
    <3>4. Entries(k) \subseteq Nat
      BY <3>1, <3>2
    <3>5. Shown(s) \subseteq Nat
      BY <2>2, ObjectsParity DEF Shown, State
    <3> QED BY <2>2, <3>3, <3>4, <3>5 DEF Has
  <2>4. byName[k] = IF Shown(s) = {} THEN 0 ELSE s.rv
    <3>1. Shown(s) # {} => Shown(s) = {s.rv}
      BY <2>2, ObjectsParity DEF Shown, State
    <3>2. Shown(s) # {} => Shown(s) = {byName[k]}
      BY <2>2 DEF Has
    <3>3. Shown(s) = {} => byName[k] = 0
      BY <2>2 DEF Has
    <3> QED BY <3>1, <3>2, <3>3
  <2> QED BY <2>2, <2>3, <2>4 DEF Shown, s
<1> QED BY <1>1, IndexInit, IndexNext, PTL DEF Spec

-----------------------------------------------------------------------------
(* The reconcile.                                                          *)

\* A kind's first list is part of a reconcile.
StartInv == \A k \in Kinds, i \in Slots : st[k][i].phase = "initial" => rec.phase = "start"

\* What discovery has or waits for is poor, or the CRDs there are.
Current(d, crds) == \A found \in d.cached \cup d.may : d.poor \/ found = crds

CurrentInv == tracker.noticed => Current(disc, Crds)

\* A kind there is is in the Map, or the reconcile under way brings it in, starts
\* again, or was misled.
Reached(k) ==
  \/ rec.phase # "idle" /\ rec.queued
  \/ rec.phase = "discover"
  \/ rec.misled
  \/ rec.phase = "probe" /\ k \in Builtin \cup rec.found
  \/ rec.phase \in {"start", "idle"} /\ cur[k] # 0

NoticedInv ==
  tracker.noticed /\ h2 /\ started /\ ~disposed => \A k \in Builtin \cup Crds : Reached(k)

ReconcileInv == StartInv /\ CurrentInv /\ NoticedInv

\* A reconcile asks discovery anew or takes what it has.
LEMMA ReconcileCurrent ==
  ASSUME NEW r \in Recs, NEW d \in Discs, Reconcile(r, d), Current(d, Crds)
  PROVE Current(disc', Crds)
<1>1. Current(Asked(d), Crds) \/ d.cached # {}
  BY DEF Asked, Current, Discs
<1>2. disc' = d \/ (d.cached = {} /\ disc' = Asked(d))
  BY DEF Reconcile
<1> QED BY <1>1, <1>2

LEMMA ReconcileReaches ==
  ASSUME NEW r \in Recs, NEW d \in Discs, Reconcile(r, d), Current(d, Crds),
         NEW k \in Builtin \cup Crds
  PROVE Reached(k)'
<1>1. CASE r.phase # "idle"
  <2>1. rec' = [r EXCEPT !.queued = TRUE]
    BY <1>1, ReconcileType
  <2>2. rec'.phase = r.phase /\ rec'.queued
    BY <2>1 DEF Recs
  <2> QED BY <1>1, <2>2 DEF Reached
<1>2. CASE r.phase = "idle"
  <2>1. CASE rec'.phase = "discover"
    BY <2>1 DEF Reached
  <2>2. CASE rec'.phase = "probe" /\ rec'.found \in d.cached /\ rec'.misled = d.poor
    BY <2>2 DEF Reached, Current
  <2> QED BY <1>2, <2>1, <2>2, ReconcileType
<1> QED BY <1>1, <1>2

LEMMA DoneReaches ==
  ASSUME disposed = FALSE, NEW r \in Recs, NEW d \in Discs, Done(r, d), Current(d, Crds),
         NEW k \in Builtin \cup Crds, r.queued \/ r.misled \/ cur'[k] # 0
  PROVE Reached(k)'
<1> DEFINE idle == [r EXCEPT !.phase = "idle", !.queued = FALSE]
<1>1. CASE r.queued
  <2>1. idle \in Recs
    BY DEF Recs
  <2>2. Reconcile(idle, d)
    BY <1>1 DEF Done
  <2> HIDE DEF idle
  <2> QED BY <2>1, <2>2, ReconcileReaches
<1>2. CASE ~r.queued
  <2>1. rec' = [r EXCEPT !.phase = "idle"]
    BY <1>2 DEF Done
  <2>2. rec'.phase = "idle" /\ rec'.misled = r.misled
    BY <2>1 DEF Recs
  <2> QED BY <1>2, <2>2 DEF Reached
<1> QED BY <1>1, <1>2

LEMMA DoneCurrent ==
  ASSUME NEW r \in Recs, NEW d \in Discs, Done(r, d), Current(d, Crds)
  PROVE Current(disc', Crds)
<1> DEFINE idle == [r EXCEPT !.phase = "idle", !.queued = FALSE]
<1>1. CASE r.queued /\ ~disposed
  <2>1. idle \in Recs
    BY DEF Recs
  <2>2. Reconcile(idle, d)
    BY <1>1 DEF Done
  <2> HIDE DEF idle
  <2> QED BY <2>1, <2>2, ReconcileCurrent
<1>2. CASE ~(r.queued /\ ~disposed)
  BY <1>2 DEF Done
<1> QED BY <1>1, <1>2

\* What the loops leave alone.
LEMMA LoopRest ==
  ASSUME NEW k \in Kinds, NEW i \in Slots, LoopStep(k, i) \/ ListFails(k, i) \/ WatchFails(k, i)
  PROVE UNCHANGED cluster /\ UNCHANGED tracker /\ UNCHANGED index
<1>1. CASE ListAnswers(k, i)
  BY <1>1 DEF ListAnswers
<1>2. CASE ListRefused(k, i)
  BY <1>2 DEF ListRefused
<1>3. CASE ListFails(k, i)
  BY <1>3 DEF ListFails
<1>4. CASE Open(k, i)
  BY <1>4 DEF Open
<1>5. CASE WatchEvent(k, i)
  BY <1>5 DEF WatchEvent
<1>6. CASE WatchEnds(k, i)
  BY <1>6 DEF WatchEnds
<1>7. CASE WatchFails(k, i)
  BY <1>7 DEF WatchFails
<1>8. CASE Retry(k, i)
  BY <1>8 DEF Retry
<1> QED BY <1>1, <1>2, <1>3, <1>4, <1>5, <1>6, <1>7, <1>8 DEF LoopStep

\* What a step of a loop means to the reconcile.
LoopRec(k, i) ==
  \/ UNCHANGED <<rec, disc>>
  \/ StartEnds(k, i)
  \/ ~h2 /\ Reconcile(rec, disc)

LEMMA LoopEffect ==
  ASSUME IndexInv, NEW k \in Kinds, NEW i \in Slots,
         LoopStep(k, i) \/ ListFails(k, i) \/ WatchFails(k, i)
  PROVE LoopRec(k, i) /\ \E s : Turn(k, i, s)
<1>1. CASE ListAnswers(k, i)
  BY <1>1, ListAnswersTurn DEF ListAnswers, LoopRec
<1>2. CASE ListRefused(k, i)
  BY <1>2, ListRefusedTurn DEF ListRefused, LoopRec
<1>3. CASE ListFails(k, i)
  BY <1>3, ListFailsTurn DEF ListFails, LoopRec
<1>4. CASE Open(k, i)
  BY <1>4, OpenTurn DEF Open, Demote, Multiplexed, LoopRec
<1>5. CASE WatchEvent(k, i)
  BY <1>5, WatchEventTurn DEF WatchEvent, LoopRec
<1>6. CASE WatchEnds(k, i)
  BY <1>6, WatchEndsTurn DEF WatchEnds, LoopRec
<1>7. CASE WatchFails(k, i)
  BY <1>7, WatchEndsTurn DEF WatchFails, LoopRec
<1>8. CASE Retry(k, i)
  BY <1>8, WatchEndsTurn DEF Retry, LoopRec
<1> QED BY <1>1, <1>2, <1>3, <1>4, <1>5, <1>6, <1>7, <1>8 DEF LoopStep

LEMMA StartKeepsLoop ==
  ASSUME IndexInv, StartInv, NEW k \in Kinds, NEW i \in Slots,
         LoopStep(k, i) \/ ListFails(k, i) \/ WatchFails(k, i)
  PROVE StartInv'
<1>1. TypeInv /\ LoopRec(k, i)
  BY TypeParts, LoopEffect DEF IndexInv
<1>2. PICK s : Turn(k, i, s)
  BY LoopEffect
<1>3. st' = [st EXCEPT ![k][i] = s] /\ s.phase # "initial" /\ st \in States
  BY <1>1, <1>2 DEF Turn, TypeInv
<1>4. \A k2 \in Kinds, i2 \in Slots : st'[k2][i2].phase = "initial" =>
        st[k2][i2].phase = "initial" /\ (k2 # k \/ i2 # i)
  BY <1>3 DEF States
<1>5. CASE rec' = rec
  BY <1>4, <1>5 DEF StartInv
<1>6. CASE StartEnds(k, i)
  <2>1. rec' = rec \/ \A k2 \in Kinds, i2 \in Slots :
                        st[k2][i2].phase = "initial" => k2 = k /\ i2 = i
    BY <1>6 DEF StartEnds
  <2> QED BY <1>4, <1>5, <2>1 DEF StartInv
<1>7. CASE Reconcile(rec, disc)
  <2>1. rec \in Recs /\ disc \in Discs
    BY <1>1 DEF TypeInv
  <2>2. rec.phase = "start" => rec'.phase = "start"
    <3>1. ASSUME rec.phase = "start" PROVE rec'.phase = "start"
      <4>1. rec' = [rec EXCEPT !.queued = TRUE]
        BY <1>7, <2>1, <3>1, ReconcileType
      <4> QED BY <2>1, <3>1, <4>1 DEF Recs
    <3> QED BY <3>1
  <2> QED BY <1>4, <2>2 DEF StartInv
<1> QED BY <1>1, <1>5, <1>6, <1>7 DEF LoopRec

LEMMA StartKeepsReconcile ==
  ASSUME NEW r \in Recs, NEW d \in Discs, Reconcile(r, d), r.phase = "start"
  PROVE rec'.phase = "start"
<1>1. rec' = [r EXCEPT !.queued = TRUE]
  BY ReconcileType
<1> QED BY <1>1 DEF Recs

LEMMA StartKeeps == ASSUME IndexInv, StartInv, Next PROVE StartInv'
<1>1. TypeInv /\ rec \in Recs /\ disc \in Discs
  BY TypeParts DEF IndexInv, TypeInv
<1>2. ASSUME \A k \in Kinds, i \in Slots : st'[k][i].phase = st[k][i].phase,
             rec.phase = "start" => rec'.phase = "start"
      PROVE StartInv'
  BY <1>2 DEF StartInv
<1>3. CASE \/ \E k \in Kinds : Write(k)
           \/ \E k \in Custom : ChangeCrd(k)
  <2>1. rec' = rec
    BY <1>3 DEF Write, ChangeCrd
  <2>2. \E k \in Kinds, v \in Versions : st' = Widened(k, v)
    <3>1. CASE \E k \in Kinds : Write(k)
      BY <1>1, <3>1 DEF Write, Versions, TypeInv
    <3>2. CASE \E k \in Custom : ChangeCrd(k)
      <4>1. PICK k \in Custom : ChangeCrd(k)
        BY <3>2
      <4>2. ver' \in [Kinds -> Nat] /\ k \in Kinds
        BY <1>1, <4>1 DEF ChangeCrd, TypeInv, Kinds
      <4> QED BY <4>1, <4>2, AnswerType DEF ChangeCrd
    <3> QED BY <1>3, <3>1, <3>2
  <2>3. PICK k \in Kinds, v \in Versions : st' = Widened(k, v)
    BY <2>2
  <2>4. \A k2 \in Kinds, i \in Slots : st'[k2][i].phase = st[k2][i].phase
    <3> TAKE k2 \in Kinds, i \in Slots
    <3>1. st \in States /\ st[k2][i] \in State
      BY <1>1, StateType DEF TypeInv
    <3>2. \/ Widened(k, v)[k2][i] = st[k2][i]
          \/ Widened(k, v)[k2][i] = [st[k2][i] EXCEPT !.may = st[k2][i].may \cup {v}]
      BY <3>1, WidenedType
    <3>3. st'[k2][i] = Widened(k, v)[k2][i]
      BY <2>3
    <3> QED BY <3>1, <3>2, <3>3 DEF State
  <2> QED BY <1>2, <2>1, <2>4
<1>4. CASE \/ SwitchTransport \/ RouteAsks \/ Expire \/ Check \/ CheckFails
  BY <1>1, <1>2, <1>4 DEF SwitchTransport, RouteAsks, Expire, Check, CheckFails, Recs
<1>5. CASE Warm
  BY <1>1, <1>2, <1>5, StartKeepsReconcile DEF Warm
<1>6. CASE SafetyTick
  <2>1. [disc EXCEPT !.cached = {}] \in Discs
    BY <1>1 DEF Discs
  <2> QED BY <1>1, <1>2, <1>6, <2>1, StartKeepsReconcile DEF SafetyTick
<1>7. CASE DiscoveryAnswers
  BY <1>2, <1>7 DEF DiscoveryAnswers
<1>8. CASE DiscoveryFails
  <2>1. rec.phase = "start" => rec' = rec
    BY <1>8 DEF DiscoveryFails
  <2>2. st' = st
    BY <1>8 DEF DiscoveryFails
  <2> QED BY <1>2, <2>1, <2>2
<1>9. CASE CheckAnswers
  <2>1. [disc EXCEPT !.cached = {}, !.poor = TRUE] \in Discs
    BY <1>1 DEF Discs
  <2>2. rec.phase = "start" => rec'.phase = "start"
    BY <1>1, <1>9, <2>1, StartKeepsReconcile DEF CheckAnswers, Notify
  <2>3. st' = st
    BY <1>9 DEF CheckAnswers
  <2> QED BY <1>2, <2>2, <2>3
<1>10. CASE ProbeAnswers
  <2>1. \A k \in Kinds, i \in Slots : st[k][i].phase # "initial"
    BY <1>10 DEF ProbeAnswers, StartInv
  <2>2. PICK m \in BOOLEAN :
          /\ st' = [k \in Kinds |-> [i \in Slots |->
                      IF k \in Leaving(m) /\ i = cur[k] THEN Stopped(st[k][i])
                      ELSE IF k \in Arriving(m) /\ i = cur'[k] THEN Started(k)
                      ELSE st[k][i]]]
          /\ LET r == [rec EXCEPT !.phase = "start", !.found = {}, !.misled = @ \/ m # h2] IN
             IF Arriving(m) = {} THEN Done(r, disc) ELSE rec' = r /\ UNCHANGED disc
    BY <1>10 DEF ProbeAnswers
  <2>3. \A k \in Kinds, i \in Slots : Stopped(st[k][i]).phase # "initial"
    <3> TAKE k \in Kinds, i \in Slots
    <3>1. st[k][i] \in State
      BY <1>1, StateType
    <3> QED BY <2>1, <3>1 DEF Stopped, Ended, State
  <2>4. CASE Arriving(m) = {}
    <3>1. \A k \in Kinds, i \in Slots : st'[k][i] \in {Stopped(st[k][i]), st[k][i]}
      BY <2>2, <2>4
    <3> QED BY <2>1, <2>3, <3>1 DEF StartInv
  <2>5. CASE Arriving(m) # {}
    <3>1. rec' = [rec EXCEPT !.phase = "start", !.found = {}, !.misled = @ \/ m # h2]
      BY <2>2, <2>5
    <3>2. rec'.phase = "start"
      BY <1>1, <3>1 DEF Recs
    <3> QED BY <3>2 DEF StartInv
  <2> QED BY <2>4, <2>5
<1>11. CASE Dispose
  BY <1>11 DEF Dispose, StartInv, Ended
<1>12. CASE \E k \in Kinds, i \in Slots : LoopStep(k, i) \/ ListFails(k, i) \/ WatchFails(k, i)
  BY <1>12, StartKeepsLoop
<1> QED BY <1>3, <1>4, <1>5, <1>6, <1>7, <1>8, <1>9, <1>10, <1>11, <1>12 DEF Next

\* A check that begins or fails notices nothing.
LEMMA SameNoticed ==
  ASSUME NEW t \in Trackers, NEW x
  PROVE [t EXCEPT !.may = x].noticed = t.noticed
  BY DEF Trackers

\* What discovery has stays poor or the CRDs there are until a CRD changes.
LEMMA CurrentKeeps ==
  ASSUME IndexInv, CurrentInv, Next
  PROVE CurrentInv'
<1>1. TypeInv /\ rec \in Recs /\ disc \in Discs
  BY TypeParts DEF IndexInv, TypeInv
<1> SUFFICES ASSUME tracker'.noticed PROVE Current(disc', Crds')
  BY DEF CurrentInv
<1> DEFINE Old == tracker.noticed /\ Crds' = Crds
<1>2. Old => Current(disc, Crds)
  BY DEF CurrentInv
<1>3. ASSUME Old, disc'.cached \cup disc'.may \subseteq disc.cached \cup disc.may,
             disc'.poor = disc.poor
      PROVE Current(disc', Crds')
  BY <1>2, <1>3 DEF Current
<1>4. ASSUME life' = life, tracker' = tracker PROVE Old
  BY <1>4 DEF Crds, There
<1>5. CASE \/ \E k \in Kinds : Write(k)
           \/ SwitchTransport
  BY <1>3, <1>4, <1>5 DEF Write, SwitchTransport
<1>6. CASE \E k \in Custom : ChangeCrd(k)
  BY <1>1, <1>6 DEF ChangeCrd, TypeInv, Trackers
<1>7. CASE Warm
  BY <1>1, <1>2, <1>4, <1>7, ReconcileCurrent DEF Warm, cluster
<1>8. CASE SafetyTick
  <2> DEFINE d == [disc EXCEPT !.cached = {}]
  <2>1. d \in Discs /\ (Current(disc, Crds) => Current(d, Crds))
    BY <1>1 DEF Discs, Current
  <2>2. Reconcile(rec, d) /\ Old
    BY <1>4, <1>8 DEF SafetyTick, cluster
  <2> HIDE DEF d
  <2> QED BY <1>1, <1>2, <2>1, <2>2, ReconcileCurrent
<1>9. CASE RouteAsks
  <2>1. disc' = Asked(disc) /\ disc.cached = {} /\ Old
    BY <1>4, <1>9 DEF RouteAsks, cluster
  <2> QED BY <1>1, <1>2, <2>1 DEF Asked, Current, Discs
<1>10. CASE Expire
  <2>1. disc' = [disc EXCEPT !.cached = {}] /\ Old
    BY <1>4, <1>10 DEF Expire, cluster
  <2> QED BY <1>1, <1>3, <2>1 DEF Discs
<1>11. CASE DiscoveryAnswers
  <2>1. \E answer \in disc.may, down \in SUBSET Custom :
          disc' = [cached |-> {answer \ down}, may |-> {}, poor |-> disc.poor \/ down # {}]
    BY <1>11 DEF DiscoveryAnswers
  <2>2. Old
    BY <1>4, <1>11 DEF DiscoveryAnswers, cluster
  <2>3. PICK answer \in disc.may, down \in SUBSET Custom :
          disc' = [cached |-> {answer \ down}, may |-> {}, poor |-> disc.poor \/ down # {}]
    BY <2>1
  <2>4. disc.poor \/ answer = Crds
    BY <1>2, <2>2 DEF Current
  <2>5. disc'.cached \cup disc'.may = {answer \ down} /\ disc'.poor = (disc.poor \/ down # {})
    BY <2>3
  <2>6. disc'.poor \/ answer \ down = Crds
    BY <2>4, <2>5
  <2> QED BY <2>2, <2>5, <2>6 DEF Current
<1>12. CASE DiscoveryFails
  <2> DEFINE d == [disc EXCEPT !.may = {}]
             r == [rec EXCEPT !.misled = TRUE]
  <2>1. d \in Discs /\ r \in Recs /\ (Current(disc, Crds) => Current(d, Crds))
    BY <1>1 DEF Discs, Recs, Current
  <2>2. (Done(r, d) \/ disc' = d) /\ Old
    BY <1>4, <1>12 DEF DiscoveryFails, cluster
  <2> HIDE DEF d, r
  <2> QED BY <1>2, <2>1, <2>2, DoneCurrent
<1>13. CASE Check \/ CheckFails
  <2>1. tracker'.noticed = tracker.noticed /\ disc' = disc /\ life' = life
    <3>1. \/ tracker' = [tracker EXCEPT !.may = {Crds}]
          \/ tracker' = [tracker EXCEPT !.may = {}]
      BY <1>13 DEF Check, CheckFails
    <3>2. tracker \in Trackers
      BY <1>1 DEF TypeInv
    <3>3. tracker'.noticed = tracker.noticed
      BY <3>1, <3>2, SameNoticed
    <3> QED BY <1>13, <3>3 DEF Check, CheckFails, cluster
  <2> QED BY <1>3, <2>1 DEF Crds, There
<1>14. CASE CheckAnswers
  <2>1. PICK crds \in tracker.may :
          /\ tracker' = [seen |-> {crds}, may |-> {},
                         noticed |-> tracker.noticed \/ ~ (tracker.seen \subseteq {crds})]
          /\ IF tracker.seen \subseteq {crds} THEN UNCHANGED <<disc, rec>> ELSE Notify
    BY <1>14 DEF CheckAnswers
  <2>2. Crds' = Crds
    BY <1>14 DEF CheckAnswers, cluster, Crds, There
  <2>3. CASE tracker.seen \subseteq {crds}
    BY <1>3, <2>1, <2>2, <2>3
  <2>4. CASE Notify
    <3> DEFINE d == [disc EXCEPT !.cached = {}, !.poor = TRUE]
    <3>1. d \in Discs /\ Current(d, Crds)
      BY <1>1 DEF Discs, Current
    <3>2. Reconcile(rec, d) \/ disc' = d
      BY <2>4 DEF Notify
    <3> HIDE DEF d
    <3> QED BY <1>1, <2>2, <3>1, <3>2, ReconcileCurrent
  <2> QED BY <2>1, <2>3, <2>4
<1>15. CASE ProbeAnswers
  <2>1. PICK m \in BOOLEAN :
          LET r == [rec EXCEPT !.phase = "start", !.found = {}, !.misled = @ \/ m # h2] IN
          IF Arriving(m) = {} THEN Done(r, disc) ELSE rec' = r /\ UNCHANGED disc
    BY <1>15 DEF ProbeAnswers
  <2> DEFINE r == [rec EXCEPT !.phase = "start", !.found = {}, !.misled = @ \/ m # h2]
  <2>2. r \in Recs
    BY <1>1 DEF Recs
  <2>3. Done(r, disc) \/ disc' = disc
    BY <2>1
  <2>4. Old
    BY <1>4, <1>15 DEF ProbeAnswers, cluster
  <2> HIDE DEF r
  <2> QED BY <1>1, <1>2, <2>2, <2>3, <2>4, DoneCurrent
<1>16. CASE Dispose
  BY <1>3, <1>4, <1>16 DEF Dispose, cluster
<1>17. CASE \E k \in Kinds, i \in Slots : LoopStep(k, i) \/ ListFails(k, i) \/ WatchFails(k, i)
  <2>1. PICK k \in Kinds, i \in Slots : LoopStep(k, i) \/ ListFails(k, i) \/ WatchFails(k, i)
    BY <1>17
  <2>2. LoopRec(k, i)
    BY <2>1, LoopEffect
  <2>3. Old
    BY <1>4, <2>1, LoopRest DEF cluster
  <2>4. CASE Done(rec, disc)
    BY <1>1, <1>2, <2>3, <2>4, DoneCurrent
  <2>5. CASE Reconcile(rec, disc)
    BY <1>1, <1>2, <2>3, <2>5, ReconcileCurrent
  <2> QED BY <1>2, <2>2, <2>3, <2>4, <2>5 DEF LoopRec, StartEnds
<1> QED BY <1>5, <1>6, <1>7, <1>8, <1>9, <1>10, <1>11, <1>12, <1>13, <1>14, <1>15, <1>16, <1>17
        DEF Next

LEMMA LoopCur ==
  ASSUME h2, NEW k \in Kinds, NEW i \in Slots,
         LoopStep(k, i) \/ ListFails(k, i) \/ WatchFails(k, i)
  PROVE cur' = cur
<1>1. CASE Open(k, i)
  BY <1>1 DEF Open, Multiplexed
<1>2. CASE ListAnswers(k, i)
  BY <1>2 DEF ListAnswers
<1>3. CASE ListRefused(k, i)
  BY <1>3 DEF ListRefused
<1>4. CASE ListFails(k, i)
  BY <1>4 DEF ListFails
<1>5. CASE WatchEvent(k, i) \/ WatchEnds(k, i) \/ WatchFails(k, i) \/ Retry(k, i)
  BY <1>5 DEF WatchEvent, WatchEnds, WatchFails, Retry
<1> QED BY <1>1, <1>2, <1>3, <1>4, <1>5 DEF LoopStep

LEMMA NoticedKeeps ==
  ASSUME IndexInv, ReconcileInv, Next
  PROVE NoticedInv'
<1>1. TypeInv /\ rec \in Recs /\ disc \in Discs
  BY TypeParts DEF IndexInv, TypeInv
<1> SUFFICES ASSUME tracker'.noticed, h2', started', ~disposed', NEW k \in Builtin \cup Crds'
             PROVE Reached(k)'
  BY DEF NoticedInv
<1>2. ASSUME tracker.noticed PROVE Current(disc, Crds)
  BY <1>2 DEF ReconcileInv, CurrentInv
<1>3. ASSUME life' = life PROVE k \in Builtin \cup Crds
  BY <1>3 DEF Crds, There
<1>4. ASSUME tracker.noticed, life' = life, h2, started, ~disposed
      PROVE Reached(k) /\ Current(disc, Crds) /\ k \in Builtin \cup Crds
  BY <1>2, <1>3, <1>4 DEF ReconcileInv, NoticedInv
<1>5. ASSUME UNCHANGED <<life, h2>>, tracker'.noticed = tracker.noticed, UNCHANGED index,
             rec' = rec, cur' = cur
      PROVE Reached(k)'
  BY <1>4, <1>5 DEF Reached, index
<1>6. CASE \/ \E a \in Kinds : Write(a)
           \/ RouteAsks \/ Expire
  BY <1>5, <1>6 DEF Write, RouteAsks, Expire, cluster
<1>7. CASE \E a \in Custom : ChangeCrd(a)
  BY <1>1, <1>7 DEF ChangeCrd, TypeInv, Trackers
<1>8. CASE SwitchTransport
  <2>1. rec'.misled
    BY <1>1, <1>8 DEF SwitchTransport, Recs
  <2> QED BY <2>1 DEF Reached
<1>9. CASE Warm
  <2>1. life' = life /\ tracker' = tracker /\ Reconcile(rec, disc)
    BY <1>9 DEF Warm, cluster
  <2> QED BY <1>1, <1>2, <1>3, <2>1, ReconcileReaches
<1>10. CASE SafetyTick
  <2> DEFINE d == [disc EXCEPT !.cached = {}]
  <2>1. d \in Discs /\ (Current(disc, Crds) => Current(d, Crds))
    BY <1>1 DEF Discs, Current
  <2>2. life' = life /\ tracker' = tracker /\ Reconcile(rec, d)
    BY <1>10 DEF SafetyTick, cluster
  <2> HIDE DEF d
  <2> QED BY <1>1, <1>2, <1>3, <2>1, <2>2, ReconcileReaches
<1>11. CASE DiscoveryAnswers
  <2>1. PICK answer \in disc.may, down \in SUBSET Custom :
          rec' = IF rec.phase # "discover" THEN rec
                 ELSE [rec EXCEPT !.phase = "probe", !.found = answer \ down,
                                  !.misled = disc.poor \/ down # {}]
    BY <1>11 DEF DiscoveryAnswers
  <2>2. UNCHANGED <<life, h2, tracker, cur>> /\ UNCHANGED index
    BY <1>11 DEF DiscoveryAnswers, cluster
  <2>3. CASE rec.phase # "discover"
    BY <1>5, <2>1, <2>2, <2>3
  <2>4. CASE rec.phase = "discover"
    <3>1. rec' = [rec EXCEPT !.phase = "probe", !.found = answer \ down,
                             !.misled = disc.poor \/ down # {}]
      BY <2>1, <2>4
    <3>2. rec'.phase = "probe" /\ rec'.found = answer \ down
          /\ rec'.misled = (disc.poor \/ down # {})
      BY <1>1, <3>1 DEF Recs
    <3>3. disc.poor \/ answer = Crds
      BY <1>2, <2>2 DEF Current
    <3>4. k \in Builtin \cup Crds
      BY <1>3, <2>2
    <3>5. CASE disc.poor \/ down # {}
      BY <3>2, <3>5 DEF Reached
    <3>6. CASE ~disc.poor /\ down = {}
      BY <3>2, <3>3, <3>4, <3>6 DEF Reached
    <3> QED BY <3>5, <3>6
  <2> QED BY <2>3, <2>4
<1>12. CASE DiscoveryFails
  <2> DEFINE d == [disc EXCEPT !.may = {}]
             r == [rec EXCEPT !.misled = TRUE]
  <2>1. d \in Discs /\ r \in Recs /\ r.misled /\ (Current(disc, Crds) => Current(d, Crds))
    BY <1>1 DEF Discs, Recs, Current
  <2>2. UNCHANGED <<life, h2, tracker, cur>> /\ UNCHANGED index
        /\ IF rec.phase = "discover" THEN Done(r, d) ELSE UNCHANGED rec
    BY <1>12 DEF DiscoveryFails, cluster
  <2>3. disposed = FALSE
    BY <1>1, <2>2 DEF index, TypeInv
  <2> HIDE DEF d, r
  <2> QED BY <1>2, <1>3, <1>5, <2>1, <2>2, <2>3, DoneReaches
<1>13. CASE Check \/ CheckFails
  <2>1. tracker'.noticed = tracker.noticed
    <3>1. \/ tracker' = [tracker EXCEPT !.may = {Crds}]
          \/ tracker' = [tracker EXCEPT !.may = {}]
      BY <1>13 DEF Check, CheckFails
    <3>2. tracker \in Trackers
      BY <1>1 DEF TypeInv
    <3> QED BY <3>1, <3>2, SameNoticed
  <2> QED BY <1>5, <1>13, <2>1 DEF Check, CheckFails, cluster
<1>14. CASE CheckAnswers
  <2>1. PICK crds \in tracker.may :
          /\ tracker' = [seen |-> {crds}, may |-> {},
                         noticed |-> tracker.noticed \/ ~ (tracker.seen \subseteq {crds})]
          /\ IF tracker.seen \subseteq {crds} THEN UNCHANGED <<disc, rec>> ELSE Notify
    BY <1>14 DEF CheckAnswers
  <2>2. UNCHANGED <<life, h2, cur>> /\ UNCHANGED index
    BY <1>14 DEF CheckAnswers, cluster
  <2>3. CASE tracker.seen \subseteq {crds}
    <3>1. tracker'.noticed = tracker.noticed /\ rec' = rec
      BY <1>1, <2>1, <2>3 DEF TypeInv, Trackers
    <3> QED BY <1>5, <2>2, <3>1
  <2>4. CASE Notify
    <3> DEFINE d == [disc EXCEPT !.cached = {}, !.poor = TRUE]
    <3>1. d \in Discs /\ Current(d, Crds)
      BY <1>1 DEF Discs, Current
    <3>2. Reconcile(rec, d)
      BY <2>2, <2>4 DEF Notify, index
    <3> HIDE DEF d
    <3> QED BY <1>1, <1>3, <2>2, <3>1, <3>2, ReconcileReaches
  <2> QED BY <2>1, <2>3, <2>4
<1>15. CASE ProbeAnswers
  <2>1. PICK m \in BOOLEAN :
          /\ cur' = CurAfter(m) /\ \A a \in Arriving(m) : Free(a) # {}
          /\ LET r == [rec EXCEPT !.phase = "start", !.found = {}, !.misled = @ \/ m # h2] IN
             IF Arriving(m) = {} THEN Done(r, disc) ELSE rec' = r /\ UNCHANGED disc
    BY <1>15 DEF ProbeAnswers
  <2> DEFINE r == [rec EXCEPT !.phase = "start", !.found = {}, !.misled = @ \/ m # h2]
  <2>2. UNCHANGED <<life, h2, tracker>> /\ UNCHANGED index /\ rec.phase = "probe"
    BY <1>15 DEF ProbeAnswers, cluster
  <2>3. r \in Recs /\ r.queued = rec.queued /\ r.phase = "start"
        /\ r.misled = (rec.misled \/ m # h2) /\ disposed = FALSE /\ h2 = TRUE
    BY <1>1, <2>2 DEF Recs, TypeInv, index
  <2>4. Reached(k) /\ Current(disc, Crds) /\ k \in Builtin \cup Crds
    BY <1>4, <2>2 DEF index
  <2>5. r.queued \/ r.misled \/ (m /\ k \in Builtin \cup rec.found)
    BY <2>2, <2>3, <2>4 DEF Reached
  <2>6. ASSUME m, k \in Builtin \cup rec.found PROVE cur'[k] # 0
    <3>1. k \in Desired(m)
      BY <2>6 DEF Desired
    <3>2. k \notin Leaving(m) /\ (k \in Arriving(m) <=> cur[k] = 0)
      BY <2>3, <3>1 DEF Leaving, Arriving
    <3>3. 0 \notin Slots /\ k \in Kinds
      BY <2>4 DEF Kinds, Crds, There
    <3> QED BY <2>1, <3>2, <3>3, ProbeKind
  <2>7. r.queued \/ r.misled \/ cur'[k] # 0
    BY <2>5, <2>6
  <2>8. IF Arriving(m) = {} THEN Done(r, disc) ELSE rec' = r
    BY <2>1
  <2> HIDE DEF r
  <2>9. CASE Arriving(m) = {}
    BY <1>1, <2>3, <2>4, <2>7, <2>8, <2>9, DoneReaches
  <2>10. CASE Arriving(m) # {}
    BY <2>3, <2>7, <2>8, <2>10 DEF Reached
  <2> QED BY <2>9, <2>10
<1>16. CASE Dispose
  BY <1>16 DEF Dispose
<1>17. CASE \E a \in Kinds, i \in Slots : LoopStep(a, i) \/ ListFails(a, i) \/ WatchFails(a, i)
  <2>1. PICK a \in Kinds, i \in Slots : LoopStep(a, i) \/ ListFails(a, i) \/ WatchFails(a, i)
    BY <1>17
  <2>2. UNCHANGED <<life, h2, tracker>> /\ UNCHANGED index
    BY <2>1, LoopRest DEF cluster
  <2>3. cur' = cur
    BY <2>1, <2>2, LoopCur
  <2>4. rec' = rec \/ StartEnds(a, i)
    BY <2>1, <2>2, LoopEffect DEF LoopRec
  <2>5. CASE rec' = rec
    BY <1>5, <2>2, <2>3, <2>5
  <2>6. CASE rec' # rec
    <3>1. Done(rec, disc) /\ st[a][i].phase = "initial"
      BY <2>4, <2>6 DEF StartEnds
    <3>2. rec.phase = "start"
      BY <3>1 DEF ReconcileInv, StartInv
    <3>3. Reached(k) /\ Current(disc, Crds) /\ k \in Builtin \cup Crds
      BY <1>4, <2>2 DEF index
    <3>4. rec.queued \/ rec.misled \/ cur'[k] # 0
      BY <2>3, <3>2, <3>3 DEF Reached
    <3>5. disposed = FALSE
      BY <1>1, <2>2 DEF TypeInv, index
    <3> QED BY <1>1, <3>1, <3>3, <3>4, <3>5, DoneReaches
  <2> QED BY <2>5, <2>6
<1> QED BY <1>6, <1>7, <1>8, <1>9, <1>10, <1>11, <1>12, <1>13, <1>14, <1>15, <1>16, <1>17
        DEF Next

LEMMA ReconcileInit == Init => ReconcileInv
<1> SUFFICES ASSUME Init PROVE ReconcileInv
  OBVIOUS
<1>1. StartInv
  BY DEF Init, StartInv, Ended
<1>2. CurrentInv /\ NoticedInv
  BY DEF Init, CurrentInv, NoticedInv
<1> QED BY <1>1, <1>2 DEF ReconcileInv

LEMMA ReconcileNext == IndexInv /\ ReconcileInv /\ [Next]_vars => ReconcileInv'
<1> SUFFICES ASSUME IndexInv, ReconcileInv, [Next]_vars PROVE ReconcileInv'
  OBVIOUS
<1>1. CASE Next
  BY <1>1, StartKeeps, CurrentKeeps, NoticedKeeps DEF ReconcileInv
<1>2. CASE UNCHANGED vars
  BY <1>2 DEF ReconcileInv, StartInv, CurrentInv, NoticedInv, Current, Reached,
              Crds, There, vars, cluster, index, entries
<1> QED BY <1>1, <1>2

\* As long as no CRD changes after onChange() was called, every CRD there is is in
\* the Map as soon as no reconcile is under way, without the safety timer,
\* whatever was cached, in flight or queued when it was called, and however often
\* CRDs came and went: unless the last reconcile was misled by kinds asked for
\* before, or partial, by no answer, or about the transport; for any kinds,
\* writes, faults and states (search-index.ts 341-377, discovery.ts 80-91).
THEOREM NoticedCorrect == Spec => []NoticedIsIndexed
<1>1. ReconcileInv => NoticedIsIndexed
  <2> SUFFICES ASSUME ReconcileInv, h2, started, ~disposed, rec.phase = "idle",
                      tracker.noticed, ~rec.misled, NEW k \in Builtin \cup Crds
               PROVE cur[k] # 0
    BY DEF NoticedIsIndexed
  <2>1. Reached(k)
    BY DEF ReconcileInv, NoticedInv
  <2> QED BY <2>1 DEF Reached
<1>2. Init => IndexInv /\ ReconcileInv
  BY IndexInit, ReconcileInit
<1>3. IndexInv /\ ReconcileInv /\ [Next]_vars => (IndexInv /\ ReconcileInv)'
  BY IndexNext, ReconcileNext
<1> QED BY <1>1, <1>2, <1>3, PTL DEF Spec
=============================================================================
