------------------------ MODULE WatcherRegistry_proofs ------------------------
(***************************************************************************)
(* The reference counting of WatcherRegistry is right for any number of    *)
(* holders and entries: IInv is inductive.                                 *)
(***************************************************************************)
EXTENDS WatcherRegistry, FiniteSetTheorems, TLAPS

USE HoldersAssumption, MaxEntriesAssumption

\* One more holder of e, one fewer, and the holders of the other entries.
LEMMA HoldersAfterTake ==
  ASSUME TypeOK, RefsCountHolders, NEW h \in Holders, NEW e \in Entries,
         holds[h].released,
         holds' = [holds EXCEPT ![h] = [entry |-> e, released |-> FALSE]]
  PROVE  /\ HoldersOf(e)' = HoldersOf(e) \cup {h}
         /\ Cardinality(HoldersOf(e)') = refs[e] + 1
         /\ \A f \in Entries \ {e} : HoldersOf(f)' = HoldersOf(f)
<1>1. HoldersOf(e)' = HoldersOf(e) \cup {h}
  BY DEF TypeOK, HoldersOf
<1>2. \A f \in Entries \ {e} : HoldersOf(f)' = HoldersOf(f)
  BY DEF TypeOK, HoldersOf
<1>3. IsFiniteSet(HoldersOf(e)) /\ h \notin HoldersOf(e)
  BY FS_Subset DEF HoldersOf
<1>4. Cardinality(HoldersOf(e) \cup {h}) = Cardinality(HoldersOf(e)) + 1
  BY <1>3, FS_AddElement
<1> QED
  BY <1>1, <1>2, <1>4 DEF RefsCountHolders

LEMMA HoldersAfterRelease ==
  ASSUME TypeOK, RefsCountHolders, HoldsInv, NEW h \in Holders,
         ~holds[h].released,
         holds' = [holds EXCEPT ![h].released = TRUE]
  PROVE  LET e == holds[h].entry IN
         /\ e \in Entries
         /\ h \in HoldersOf(e)
         /\ HoldersOf(e)' = HoldersOf(e) \ {h}
         /\ refs[e] \in Nat \ {0}
         /\ Cardinality(HoldersOf(e)') = refs[e] - 1
         /\ refs[e] = 1 <=> HoldersOf(e)' = {}
         /\ \A f \in Entries \ {e} : HoldersOf(f)' = HoldersOf(f)
<1> DEFINE e == holds[h].entry
<1>1. e \in Entries /\ h \in HoldersOf(e)
  BY DEF HoldsInv, HoldersOf
<1>2. /\ HoldersOf(e)' = HoldersOf(e) \ {h}
      /\ \A f \in Entries \ {e} : HoldersOf(f)' = HoldersOf(f)
  BY DEF TypeOK, HoldersOf
<1>3. IsFiniteSet(HoldersOf(e)) /\ IsFiniteSet(HoldersOf(e) \ {h})
  BY FS_Subset DEF HoldersOf
<1>4. Cardinality(HoldersOf(e) \ {h}) = Cardinality(HoldersOf(e)) - 1
  BY <1>1, <1>3, FS_RemoveElement
<1>5. refs[e] = Cardinality(HoldersOf(e)) /\ refs[e] \in Nat
  BY <1>1 DEF RefsCountHolders, TypeOK
<1>6. Cardinality(HoldersOf(e) \ {h}) \in Nat
  BY <1>3, FS_CardinalityType
<1>7. Cardinality(HoldersOf(e) \ {h}) = 0 <=> HoldersOf(e) \ {h} = {}
  BY <1>3, FS_EmptySet
<1> QED
  BY <1>1, <1>2, <1>4, <1>5, <1>6, <1>7

LEMMA InitIInv == Init => IInv
<1> SUFFICES ASSUME Init PROVE IInv
  OBVIOUS
<1>1. \A e \in Entries : HoldersOf(e) = {} /\ Cardinality(HoldersOf(e)) = 0
  BY FS_EmptySet DEF Init, HoldersOf, Nothing
<1>2. TypeOK
  <2>1. holds \in [Holders -> [entry : 0..created, released : BOOLEAN]]
    BY DEF Init, Nothing, NoEntry
  <2>2. created \in 0..MaxEntries /\ current \in 0..created
    <3>1. created = 0 /\ current = 0
      BY DEF Init, NoEntry
    <3> QED
      BY <3>1
  <2>4. refs \in [Entries -> Nat] /\ disposed \in BOOLEAN
    BY DEF Init
  <2>3. /\ linger \in [Entries -> BOOLEAN]
        /\ watcher \in [Entries -> {"running", "stopped", "unavailable"}]
    BY DEF Init
  <2> QED
    BY <2>1, <2>2, <2>3, <2>4 DEF TypeOK
<1>3. \A h \in Holders : holds[h].released
  BY DEF Init, Nothing
<1> QED
  BY <1>1, <1>2, <1>3 DEF Init, IInv, RefsCountHolders, HeldIsRunning, OneWatcherPerType,
                          LingerInv, CurrentInv, HoldsInv, Entries

LEMMA AcquireIInv ==
  ASSUME IInv, NEW h \in Holders, Acquire(h)
  PROVE  IInv'
<1> USE DEF IInv
<1>1. PICK e \in Entries :
        /\ holds[h].released
        /\ Take(h, e)
        /\ current' = e /\ disposed' = disposed
        /\ \/ current = e /\ created' = created
           \/ current = NoEntry /\ e = created + 1 /\ created' = created + 1
  BY DEF Acquire, TypeOK, Entries, NoEntry
<1>2. holds' = [holds EXCEPT ![h] = [entry |-> e, released |-> FALSE]]
  BY <1>1 DEF Take
<1>3. /\ HoldersOf(e)' = HoldersOf(e) \cup {h}
      /\ Cardinality(HoldersOf(e)') = refs[e] + 1
      /\ \A f \in Entries \ {e} : HoldersOf(f)' = HoldersOf(f)
  BY <1>1, <1>2, HoldersAfterTake
<1>4. created' \in 0..MaxEntries /\ created <= created' /\ current' \in 0..created'
  BY <1>1 DEF TypeOK, Entries, NoEntry
<1>5. TypeOK'
  BY <1>1, <1>2, <1>4 DEF TypeOK, Take, Start, Entries
<1>6. RefsCountHolders'
  BY <1>1, <1>3 DEF RefsCountHolders, Take, TypeOK
<1>7. watcher'[e] # "stopped" /\ \A f \in Entries \ {e} : watcher'[f] = watcher[f]
  BY <1>1 DEF Take, Start, TypeOK
<1>8. ~linger'[e] /\ \A f \in Entries \ {e} : linger'[f] = linger[f]
  BY <1>1 DEF Take, TypeOK
<1>9. HoldsInv'
  BY <1>1, <1>2 DEF HoldsInv, TypeOK
<1>10. HeldIsRunning'
  BY <1>1, <1>2, <1>7 DEF HeldIsRunning, HoldsInv, TypeOK
<1>11. ~disposed => \A f \in Entries \ {e} :
         watcher[f] # "running" /\ ~linger[f] /\ HoldersOf(f) = {}
  BY <1>1 DEF OneWatcherPerType, CurrentInv, NoEntry, Entries
<1>12. OneWatcherPerType'
  BY <1>1, <1>7, <1>11 DEF OneWatcherPerType
<1>13. LingerInv'
  BY <1>3, <1>7, <1>8 DEF LingerInv
<1>14. CurrentInv'
  BY <1>1, <1>3, <1>4, <1>7, <1>8, <1>11 DEF CurrentInv, Entries, TypeOK
<1> QED
  BY <1>5, <1>6, <1>9, <1>10, <1>12, <1>13, <1>14

LEMMA ReleaseIInv ==
  ASSUME IInv, NEW h \in Holders, Release(h)
  PROVE  IInv'
<1> USE DEF IInv
<1> DEFINE e == holds[h].entry
<1>1. /\ ~holds[h].released
      /\ holds' = [holds EXCEPT ![h].released = TRUE]
      /\ refs' = [refs EXCEPT ![e] = @ - 1]
      /\ linger' = [linger EXCEPT ![e] = @ \/ refs[e] <= 1]
      /\ UNCHANGED <<created, current, watcher, disposed>>
  BY DEF Release
<1>2. /\ e \in Entries
      /\ h \in HoldersOf(e)
      /\ HoldersOf(e)' = HoldersOf(e) \ {h}
      /\ refs[e] \in Nat \ {0}
      /\ Cardinality(HoldersOf(e)') = refs[e] - 1
      /\ refs[e] = 1 <=> HoldersOf(e)' = {}
      /\ \A f \in Entries \ {e} : HoldersOf(f)' = HoldersOf(f)
  BY <1>1, HoldersAfterRelease
<1>3. TypeOK'
  <2>1. linger' \in [Entries -> BOOLEAN]
    BY <1>1 DEF TypeOK
  <2>2. refs' \in [Entries -> Nat]
    BY <1>1, <1>2 DEF TypeOK
  <2>3. holds' \in [Holders -> [entry : 0..created, released : BOOLEAN]]
    BY <1>1 DEF TypeOK
  <2> QED
    BY <1>1, <2>1, <2>2, <2>3 DEF TypeOK
<1>4. RefsCountHolders'
  BY <1>1, <1>2 DEF RefsCountHolders, TypeOK
<1>5. HoldsInv' /\ HeldIsRunning'
  BY <1>1, <1>2 DEF HoldsInv, HeldIsRunning, TypeOK
<1>6. OneWatcherPerType'
  BY <1>1 DEF OneWatcherPerType
<1>7. ~linger[e]
  BY <1>2 DEF LingerInv
<1>8. linger'[e] <=> HoldersOf(e)' = {}
  <2>1. linger'[e] = (linger[e] \/ refs[e] <= 1)
    BY <1>1, <1>2, Zenon DEF TypeOK
  <2>2. refs[e] <= 1 <=> refs[e] = 1
    BY <1>2
  <2> QED
    BY <1>2, <1>7, <2>1, <2>2
<1>9. \A f \in Entries \ {e} : linger'[f] = linger[f]
  BY <1>1 DEF TypeOK
<1>10. LingerInv'
  BY <1>1, <1>2, <1>8, <1>9 DEF LingerInv
<1>11. e <= created /\ (~disposed => e = current)
  BY <1>2 DEF CurrentInv, TypeOK, Entries
<1>12. CurrentInv'
  BY <1>1, <1>2, <1>9, <1>11 DEF CurrentInv, Entries, TypeOK
<1> QED
  BY <1>3, <1>4, <1>5, <1>6, <1>10, <1>12

LEMMA LingerFiresIInv ==
  ASSUME IInv, NEW e \in Entries, LingerFires(e)
  PROVE  IInv'
<1> USE DEF IInv
<1>1. /\ linger[e] /\ ~linger'[e]
      /\ \A f \in Entries \ {e} : linger'[f] = linger[f] /\ watcher'[f] = watcher[f]
      /\ watcher'[e] # "running"
      /\ watcher'[e] \in {"stopped", "unavailable"}
      /\ current' = NoEntry
      /\ UNCHANGED <<created, refs, holds, disposed>>
  BY DEF LingerFires, Stopped, TypeOK
<1>2. \A f \in Entries : HoldersOf(f)' = HoldersOf(f)
  BY <1>1 DEF HoldersOf
<1>3. HoldersOf(e) = {}
  BY <1>1 DEF LingerInv
<1>4. TypeOK'
  BY <1>1 DEF TypeOK, LingerFires, Stopped, NoEntry
<1>5. RefsCountHolders' /\ HoldsInv'
  BY <1>1, <1>2 DEF RefsCountHolders, HoldsInv
<1>6. HeldIsRunning'
  BY <1>1, <1>3 DEF HeldIsRunning, HoldsInv, HoldersOf
<1>7. ~disposed => \A f \in Entries \ {e} :
         watcher[f] # "running" /\ ~linger[f] /\ HoldersOf(f) = {}
  BY <1>1 DEF OneWatcherPerType, CurrentInv
<1>8. OneWatcherPerType'
  BY <1>1, <1>7 DEF OneWatcherPerType
<1>9. LingerInv'
  BY <1>1, <1>2 DEF LingerInv
<1>10. e <= created
  BY <1>1 DEF CurrentInv, TypeOK, Entries
<1>11. CurrentInv'
  BY <1>1, <1>2, <1>3, <1>7, <1>10 DEF CurrentInv, Entries, TypeOK
<1> QED
  BY <1>4, <1>5, <1>6, <1>8, <1>9, <1>11

LEMMA StopAllIInv ==
  ASSUME IInv, StopAll
  PROVE  IInv'
<1> USE DEF IInv
<1>1. /\ ~disposed /\ disposed' = TRUE /\ current' = NoEntry
      /\ UNCHANGED <<created, refs, holds>>
  BY DEF StopAll
<1>2. \A f \in Entries : HoldersOf(f)' = HoldersOf(f)
  BY <1>1 DEF HoldersOf
<1>3. TypeOK'
  <2>1. CASE current = NoEntry
    BY <1>1, <2>1 DEF TypeOK, StopAll, NoEntry
  <2>2. CASE current # NoEntry
    <3>1. linger' \in [Entries -> BOOLEAN]
      BY <2>2 DEF TypeOK, StopAll
    <3>2. watcher' \in [Entries -> {"running", "stopped", "unavailable"}]
      BY <2>2 DEF TypeOK, StopAll, Stopped
    <3> QED
      BY <1>1, <3>1, <3>2 DEF TypeOK, NoEntry
  <2> QED
    BY <2>1, <2>2
<1>4. RefsCountHolders' /\ HoldsInv' /\ HeldIsRunning' /\ OneWatcherPerType'
  BY <1>1, <1>2 DEF RefsCountHolders, HoldsInv, HeldIsRunning, OneWatcherPerType
<1>5. \A f \in Entries : /\ linger'[f] => linger[f]
                         /\ watcher'[f] # "running"
                         /\ watcher[f] = "stopped" => watcher'[f] = "stopped"
  <2>1. CASE current = NoEntry
    BY <2>1 DEF StopAll, OneWatcherPerType, NoEntry, Entries
  <2>2. CASE current # NoEntry
    BY <2>2, <1>1 DEF StopAll, OneWatcherPerType, Stopped, TypeOK
  <2> QED
    BY <2>1, <2>2
<1>6. LingerInv'
  BY <1>2, <1>5 DEF LingerInv
<1>7. CurrentInv'
  BY <1>1, <1>2, <1>5 DEF CurrentInv
<1> QED
  BY <1>3, <1>4, <1>6, <1>7

LEMMA DisappearsIInv ==
  ASSUME IInv, NEW e \in Entries, Disappears(e)
  PROVE  IInv'
<1> USE DEF IInv
<1>1. /\ watcher[e] = "running" /\ watcher'[e] = "unavailable"
      /\ \A f \in Entries \ {e} : watcher'[f] = watcher[f]
      /\ UNCHANGED <<created, current, refs, linger, holds, disposed>>
  BY DEF Disappears, TypeOK
<1>2. \A f \in Entries : HoldersOf(f)' = HoldersOf(f)
  BY <1>1 DEF HoldersOf
<1>3. TypeOK'
  BY <1>1 DEF TypeOK, Disappears
<1>4. RefsCountHolders' /\ HoldsInv'
  BY <1>1, <1>2 DEF RefsCountHolders, HoldsInv
<1>5. HeldIsRunning'
  BY <1>1 DEF HeldIsRunning, HoldsInv
<1>6. OneWatcherPerType' /\ LingerInv'
  BY <1>1, <1>2 DEF OneWatcherPerType, LingerInv
<1>7. CurrentInv'
  BY <1>1, <1>2 DEF CurrentInv
<1> QED
  BY <1>3, <1>4, <1>5, <1>6, <1>7

(***************************************************************************)
(* What the registry keeps at all times: every conjunct of IInv, the three *)
(* properties of the module among them.                                    *)
(***************************************************************************)
THEOREM Inductive == Spec => []IInv
<1>1. ASSUME IInv, [Next]_vars PROVE IInv'
  <2>1. ASSUME NEW h \in Holders, Acquire(h) PROVE IInv'
    BY <1>1, <2>1, AcquireIInv
  <2>2. ASSUME NEW h \in Holders, Release(h) PROVE IInv'
    BY <1>1, <2>2, ReleaseIInv
  <2>3. ASSUME NEW e \in Entries, LingerFires(e) PROVE IInv'
    BY <1>1, <2>3, LingerFiresIInv
  <2>4. ASSUME NEW e \in Entries, Disappears(e) PROVE IInv'
    BY <1>1, <2>4, DisappearsIInv
  <2>5. CASE StopAll
    BY <1>1, <2>5, StopAllIInv
  <2>6. CASE UNCHANGED vars
    BY <1>1, <2>6 DEF vars, IInv, TypeOK, RefsCountHolders, HeldIsRunning,
       OneWatcherPerType, LingerInv, CurrentInv, HoldsInv, HoldersOf
  <2> QED
    BY <1>1, <2>1, <2>2, <2>3, <2>4, <2>5, <2>6 DEF Next
<1> QED
  BY <1>1, InitIInv, PTL DEF Spec

\* Every variable keeps its type; in particular the Map holds nothing or an
\* entry that was made.
THEOREM TypeCorrect == Spec => []TypeOK
BY Inductive, PTL DEF IInv

\* entry.refs counts the holders.
THEOREM CountCorrect == Spec => []RefsCountHolders
BY Inductive, PTL DEF IInv

\* A held watcher is never stopped by a linger timer.
THEOREM HeldCorrect == Spec => []HeldIsRunning
BY Inductive, PTL DEF IInv

\* A resource type has one running watcher.
THEOREM SharedCorrect == Spec => []OneWatcherPerType
BY Inductive, PTL DEF IInv
=============================================================================
