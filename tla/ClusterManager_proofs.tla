------------------------ MODULE ClusterManager_proofs ------------------------
(***************************************************************************)
(* Sessions of ClusterManager, for any definitions, jump hosts and numbers *)
(* of sessions, edits and probes: none is left over, and as long as        *)
(* nothing is edited while a connect awaits its tunnel, a session matches  *)
(* the configuration and nobody stays on a disposed one.                   *)
(***************************************************************************)
EXTENDS ClusterManager, SequenceTheorems, TLAPS

USE NoneAssumption, BoundsAssumption, RaceAssumption

\* While connectFresh awaits the tunnel, there is no session.
TunnelAlone == attempt.pc = "tunnel" => current = 0

\* What holds of the handles, whatever is edited and when.
HandlesInv == SessionTypeOK /\ TunnelAlone /\ NoZombies

\* While connectFresh awaits the tunnel, what it will build the session from is
\* still the configuration.
TunnelFresh == attempt.pc = "tunnel" => kc # None /\ attempt.via = jump

\* The session in the Map, activated or not, matches the configuration.
CurrentFresh ==
  current # 0 => /\ kc # None
                 /\ handles[current].def = kc
                 /\ handles[current].via = jump
                 /\ ~handles[current].disposed

AttachedToCurrent == attached # 0 => attached = current

FreshInv == TunnelFresh /\ CurrentFresh /\ AttachedToCurrent

SessionInv == HandlesInv /\ FreshInv

\* Disposing of a handle changes nothing else of the sequence.
LEMMA DisposedAtSeq ==
  ASSUME SessionTypeOK, NEW h \in DOMAIN handles
  PROVE  /\ DisposedAt(h) \in Seq(Handle)
         /\ Len(DisposedAt(h)) = Len(handles)
         /\ DOMAIN DisposedAt(h) = DOMAIN handles
         /\ DisposedAt(h)[h].disposed
         /\ \A g \in DOMAIN handles \ {h} : DisposedAt(h)[g] = handles[g]
<1>1. handles \in Seq(Handle) /\ handles[h] \in Handle
  BY DEF SessionTypeOK
<1>2. [handles[h] EXCEPT !.disposed = TRUE] \in Handle
  BY <1>1 DEF Handle
<1>3. DisposedAt(h) = [handles EXCEPT ![h] = [handles[h] EXCEPT !.disposed = TRUE]]
  BY DEF DisposedAt
<1>4. DisposedAt(h) \in Seq(Handle) /\ Len(DisposedAt(h)) = Len(handles)
  BY <1>1, <1>2, <1>3, ExceptSeq
<1>5. DisposedAt(h)[h].disposed
  BY <1>1, <1>3 DEF Handle
<1> QED
  BY <1>1, <1>3, <1>4, <1>5

\* Whatever becomes of the configuration, a session dropped with it leaves
\* none behind.
LEMMA DropCurrentHandles ==
  ASSUME HandlesInv, DropCurrent, UNCHANGED attempt,
         {file', kc'} \subseteq Defs \cup {None}, reloadDue' \in BOOLEAN,
         jump' \in Vias, up' \in SUBSET Defs,
         edits' \in 0..MaxEdits, flips' \in 0..MaxFlips
  PROVE  HandlesInv'
<1>1. SessionTypeOK'
  <2>1. handles' \in Seq(Handle) /\ Len(handles') = Len(handles)
    BY DisposedAtSeq DEF HandlesInv, SessionTypeOK, DropCurrent
  <2> QED
    BY <2>1 DEF HandlesInv, SessionTypeOK, DropCurrent
<1>2. TunnelAlone'
  BY DEF HandlesInv, TunnelAlone, DropCurrent
<1>3. NoZombies'
  <2>1. CASE current = 0
    BY <2>1 DEF HandlesInv, NoZombies, DropCurrent
  <2>2. CASE current # 0
    <3>1. current \in DOMAIN handles
      BY <2>2 DEF HandlesInv, SessionTypeOK
    <3> QED
      BY <2>2, <3>1, DisposedAtSeq DEF HandlesInv, NoZombies, DropCurrent
  <2> QED
    BY <2>1, <2>2
<1> QED
  BY <1>1, <1>2, <1>3 DEF HandlesInv

\* The handle that Build appends; the others stay as they are.
LEMMA BuildSeq ==
  ASSUME SessionTypeOK, NEW via \in Vias, Build(via)
  PROVE  /\ handles' \in Seq(Handle) /\ Len(handles') = Len(handles) + 1
         /\ handles'[Len(handles) + 1].def = kc
         /\ handles'[Len(handles) + 1].via = via
         /\ ~handles'[Len(handles) + 1].disposed
         /\ \A g \in DOMAIN handles : handles'[g] = handles[g]
         /\ DOMAIN handles' = DOMAIN handles \cup {Len(handles) + 1}
<1> DEFINE new == [def |-> kc, via |-> via, activated |-> FALSE,
                   disposed |-> FALSE, health |-> "connecting"]
<1>1. new \in Handle
  BY DEF SessionTypeOK, Handle
<1> QED
  BY <1>1 DEF SessionTypeOK, Build

\* A handle is built when there is none and no other attempt has one.
LEMMA BuildHandles ==
  ASSUME HandlesInv, NEW via \in Vias, Build(via), current = 0, attempt.pc # "probe",
         UNCHANGED <<config, attached, server>>
  PROVE  HandlesInv'
<1>2. /\ handles' \in Seq(Handle) /\ Len(handles') = Len(handles) + 1
      /\ \A g \in DOMAIN handles : handles'[g] = handles[g]
      /\ DOMAIN handles' = DOMAIN handles \cup {Len(handles) + 1}
  BY BuildSeq DEF HandlesInv
<1>3. SessionTypeOK'
  BY <1>2 DEF HandlesInv, SessionTypeOK, Build, config, server
<1>4. TunnelAlone'
  BY DEF TunnelAlone, Build
<1>5. NoZombies'
  BY <1>2 DEF HandlesInv, SessionTypeOK, NoZombies, Build
<1> QED
  BY <1>3, <1>4, <1>5 DEF HandlesInv

\* A handle that is changed in its health and activation keeps its identity.
LEMMA ToldSeq ==
  ASSUME SessionTypeOK, current # 0,
         NEW result \in {"connecting", "connected", "error"}, NEW a \in BOOLEAN,
         handles' = [handles EXCEPT ![current].health = result, ![current].activated = a]
  PROVE  /\ handles' \in Seq(Handle) /\ Len(handles') = Len(handles)
         /\ DOMAIN handles' = DOMAIN handles
         /\ \A g \in DOMAIN handles : /\ handles'[g].disposed = handles[g].disposed
                                      /\ handles'[g].def = handles[g].def
                                      /\ handles'[g].via = handles[g].via
<1> DEFINE told == [handles[current] EXCEPT !.health = result, !.activated = a]
<1>1. current \in DOMAIN handles /\ handles \in Seq(Handle) /\ handles[current] \in Handle
  BY DEF SessionTypeOK
<1>2. /\ told \in Handle /\ told.disposed = handles[current].disposed
      /\ told.def = handles[current].def /\ told.via = handles[current].via
  BY <1>1 DEF Handle
<1>3. handles' = [handles EXCEPT ![current] = told]
  OBVIOUS
<1> HIDE DEF told
<1>4. /\ [handles EXCEPT ![current] = told] \in Seq(Handle)
      /\ Len([handles EXCEPT ![current] = told]) = Len(handles)
  BY <1>1, <1>2, ExceptSeq
<1>5. handles' \in Seq(Handle) /\ Len(handles') = Len(handles)
  BY <1>3, <1>4
<1> QED
  BY <1>1, <1>2, <1>3, <1>5

\* Probes change nothing of a session but its health.
LEMMA OutcomeSeq ==
  ASSUME SessionTypeOK, NEW result \in {"connected", "error"}, SetCachedHealth(result)
  PROVE  /\ handles' \in Seq(Handle) /\ Len(handles') = Len(handles)
         /\ DOMAIN handles' = DOMAIN handles
         /\ \A g \in DOMAIN handles : /\ handles'[g].disposed = handles[g].disposed
                                      /\ handles'[g].def = handles[g].def
                                      /\ handles'[g].via = handles[g].via
<1>1. CASE handles' = handles
  BY <1>1 DEF SessionTypeOK
<1>2. CASE current # 0 /\ handles' = [handles EXCEPT ![current].health = result]
  <2> DEFINE told == [handles[current] EXCEPT !.health = result]
  <2>1. current \in DOMAIN handles /\ handles \in Seq(Handle) /\ handles[current] \in Handle
    BY <1>2 DEF SessionTypeOK
  <2>2. told \in Handle
    BY <2>1 DEF Handle
  <2>3. handles' = [handles EXCEPT ![current] = told]
    BY <1>2
  <2>4. handles' \in Seq(Handle) /\ Len(handles') = Len(handles)
    BY <2>1, <2>2, <2>3, ExceptSeq
  <2> QED
    BY <2>1, <2>3, <2>4 DEF Handle
<1> QED
  BY <1>1, <1>2 DEF SetCachedHealth

LEMMA NoAttemptType ==
  ASSUME SessionTypeOK
  PROVE  NoAttempt \in [pc : {"none", "tunnel", "probe"}, via : Vias, handle : 0..Len(handles)]
  BY DEF NoAttempt, Vias, SessionTypeOK

LEMMA InitHandles == Init => HandlesInv
<1> SUFFICES ASSUME Init PROVE HandlesInv
  OBVIOUS
<1>1. handles \in Seq(Handle) /\ Len(handles) = 0
  BY DEF Init
<1>2. /\ attempt \in [pc : {"none", "tunnel", "probe"}, via : Vias, handle : 0..Len(handles)]
      /\ attempt.pc = "none" /\ attempt.handle = 0
  BY <1>1 DEF Init, NoAttempt, Vias
<1>3. SessionTypeOK
  <2>1. MaxHandles \in Nat /\ MaxEdits \in Nat /\ MaxFlips \in Nat
    OBVIOUS
  <2>2. edits \in 0..MaxEdits /\ flips \in 0..MaxFlips /\ Len(handles) <= MaxHandles
    BY <1>1, <2>1 DEF Init
  <2>3. {file, kc} \subseteq Defs \cup {None} /\ jump \in Vias /\ up \in SUBSET Defs
    BY DEF Init
  <2>4. {current, attached} \subseteq 0..Len(handles)
    BY <1>1 DEF Init
  <2>5. reloadDue \in BOOLEAN
    BY DEF Init
  <2> QED
    BY <1>1, <1>2, <2>2, <2>3, <2>4, <2>5 DEF SessionTypeOK
<1> QED
  BY <1>1, <1>2, <1>3 DEF Init, HandlesInv, TunnelAlone, NoZombies

\* Every step of Next, one action at a time.
LEMMA NextHandles ==
  ASSUME HandlesInv, Next
  PROVE  HandlesInv'
<1> USE DEF HandlesInv
<1>1. CASE Connect
  <2>1. CASE jump = None
    BY <1>1, <2>1, BuildHandles DEF Connect, Vias
  <2>2. CASE jump # None
    BY <1>1, <2>2 DEF Connect, SessionTypeOK, TunnelAlone, NoZombies, config, server
  <2> QED
    BY <2>1, <2>2
<1>2. CASE TunnelUp
  <2>1. attempt.via \in Vias /\ current = 0
    BY <1>2 DEF TunnelUp, TunnelAlone, SessionTypeOK
  <2> QED
    BY <1>2, <2>1, BuildHandles DEF TunnelUp
<1>3. CASE TunnelFails
  BY <1>3, NoAttemptType DEF TunnelFails, NoAttempt, SessionTypeOK, TunnelAlone, NoZombies, config, server
<1>4. CASE Connected
  <2> DEFINE answers == handles[current].def \in up
             result == IF answers THEN "connected" ELSE "error"
  <2>1. /\ attempt' = NoAttempt /\ attached' = 0 /\ current' = current
        /\ current = attempt.handle /\ current # 0 /\ UNCHANGED <<config, server>>
    BY <1>4 DEF Connected, SessionTypeOK, checks
  <2>2. handles' = [handles EXCEPT ![current].health = result, ![current].activated = answers]
    BY <1>4 DEF Connected
  <2>3. answers \in BOOLEAN /\ result \in {"connecting", "connected", "error"}
    OBVIOUS
  <2> HIDE DEF answers, result
  <2>4. /\ handles' \in Seq(Handle) /\ Len(handles') = Len(handles)
        /\ DOMAIN handles' = DOMAIN handles
        /\ \A g \in DOMAIN handles : handles'[g].disposed = handles[g].disposed
    BY <2>1, <2>2, <2>3, ToldSeq
  <2>5. SessionTypeOK'
    BY <2>1, <2>4, NoAttemptType DEF SessionTypeOK, NoAttempt, config, server
  <2> QED
    BY <2>1, <2>4, <2>5 DEF TunnelAlone, NoZombies, NoAttempt
<1>5. CASE ConnectOverruled
  <2>1. /\ attempt.handle \in DOMAIN handles
        /\ handles' = DisposedAt(attempt.handle)
        /\ current' = IF current = attempt.handle THEN 0 ELSE current
        /\ attempt' = NoAttempt /\ UNCHANGED <<config, attached, server>>
    BY <1>5 DEF ConnectOverruled, SessionTypeOK
  <2>2. /\ handles' \in Seq(Handle) /\ Len(handles') = Len(handles)
        /\ DOMAIN handles' = DOMAIN handles
        /\ handles'[attempt.handle].disposed
        /\ \A g \in DOMAIN handles \ {attempt.handle} : handles'[g] = handles[g]
    BY <2>1, DisposedAtSeq
  <2>3. SessionTypeOK'
    BY <2>1, <2>2, NoAttemptType DEF SessionTypeOK, NoAttempt, config, server
  <2>4. NoZombies'
    BY <1>5, <2>1, <2>2 DEF NoZombies, ConnectOverruled
  <2> QED
    BY <2>1, <2>3, <2>4 DEF TunnelAlone, NoAttempt
<1>6. CASE Disconnect
  BY <1>6, DropCurrentHandles DEF Disconnect, SessionTypeOK, config, server
<1>7. CASE Reconnect
  <2> DEFINE new == [def |-> kc, via |-> None, activated |-> FALSE,
                     disposed |-> FALSE, health |-> "connecting"]
             rest == DisposedAt(current)
  <2>1. current \in DOMAIN handles /\ current # 0
    BY <1>7 DEF Reconnect, SessionTypeOK
  <2>2. /\ rest \in Seq(Handle) /\ Len(rest) = Len(handles)
        /\ DOMAIN rest = DOMAIN handles /\ rest[current].disposed
        /\ \A g \in DOMAIN handles \ {current} : rest[g] = handles[g]
    BY <2>1, DisposedAtSeq
  <2>3. \A g \in DOMAIN rest : attempt.pc = "none" => rest[g].disposed
    BY <2>1, <2>2 DEF NoZombies
  <2>4. new \in Handle
    BY DEF SessionTypeOK, Handle, Vias
  <2>5. UNCHANGED <<config, server>>
    BY <1>7 DEF Reconnect
  <2>6. CASE attempt.pc = "none" /\ kc # None /\ jump = None
    <3>1. /\ handles' = Append(rest, new) /\ current' = Len(handles) + 1 /\ attached' = 0
          /\ attempt' = [pc |-> "probe", via |-> None, handle |-> Len(handles) + 1]
          /\ Len(handles) < MaxHandles
      BY <1>7, <2>6 DEF Reconnect
    <3> HIDE DEF rest, new
    <3>2. /\ handles' \in Seq(Handle) /\ Len(handles') = Len(handles) + 1
          /\ \A g \in DOMAIN rest : handles'[g] = rest[g]
          /\ DOMAIN handles' = DOMAIN rest \cup {Len(handles) + 1}
      BY <2>2, <2>4, <3>1
    <3>3. SessionTypeOK'
      BY <2>5, <3>1, <3>2 DEF SessionTypeOK, Vias, config, server
    <3>4. NoZombies'
      BY <2>3, <2>6, <3>1, <3>2 DEF NoZombies
    <3> QED
      BY <3>1, <3>3, <3>4 DEF TunnelAlone
  <2>7. CASE attempt.pc = "none" /\ kc # None /\ jump # None
    <3>1. /\ handles' = rest /\ current' = 0 /\ attached' = 0
          /\ attempt' = [pc |-> "tunnel", via |-> jump, handle |-> 0]
      BY <1>7, <2>7 DEF Reconnect
    <3> HIDE DEF rest
    <3>2. SessionTypeOK'
      BY <2>2, <2>5, <3>1 DEF SessionTypeOK, config, server
    <3> QED
      BY <2>2, <2>3, <2>7, <3>1, <3>2 DEF TunnelAlone, NoZombies
  <2>8. CASE ~(attempt.pc = "none" /\ kc # None)
    BY <1>7, <2>8, DropCurrentHandles DEF Reconnect, SessionTypeOK, config, server
  <2> QED
    BY <2>6, <2>7, <2>8
<1>8. CASE Attach
  BY <1>8 DEF Attach, SessionTypeOK, TunnelAlone, NoZombies, config, server
<1>9. CASE EditFile
  BY <1>9 DEF EditFile, Edit, SessionTypeOK, TunnelAlone, NoZombies, session, server
<1>10. CASE Reload
  <2>1. CASE file # kc
    BY <1>10, <2>1, DropCurrentHandles DEF Reload, SessionTypeOK, server
  <2>2. CASE file = kc
    BY <1>10, <2>2 DEF Reload, SessionTypeOK, TunnelAlone, NoZombies, server
  <2> QED
    BY <2>1, <2>2
<1>11. CASE EditCluster
  BY <1>11, DropCurrentHandles DEF EditCluster, Edit, SessionTypeOK, server
<1>12. CASE RemoveContext
  BY <1>12, DropCurrentHandles DEF RemoveContext, Edit, SessionTypeOK, Vias, server
<1>13. CASE SetSshHost
  BY <1>13, DropCurrentHandles DEF SetSshHost, Edit, SessionTypeOK, server
<1>14. CASE ServerFlips
  BY <1>14 DEF ServerFlips, SessionTypeOK, TunnelAlone, NoZombies, config, session
<1>15. CASE \E p \in Probers : ProbeStarts(p) \/ ProbeTunnelUp(p)
  BY <1>15 DEF ProbeStarts, ProbeTunnelUp, SessionTypeOK, TunnelAlone, NoZombies, config, session, server
<1>16. ASSUME NEW p \in Probers, ProbeTunnelFails(p) \/ ProbeAnswers(p)
       PROVE  HandlesInv'
  <2>1. CASE UNCHANGED <<config, handles, current, attempt, attached, server>>
    BY <2>1 DEF SessionTypeOK, TunnelAlone, NoZombies, config, server
  <2>2. ASSUME NEW result \in {"connected", "error"}, SetCachedHealth(result),
               UNCHANGED <<config, current, attempt, attached, server>>
        PROVE  HandlesInv'
    <3>1. /\ handles' \in Seq(Handle) /\ Len(handles') = Len(handles)
          /\ DOMAIN handles' = DOMAIN handles
          /\ \A g \in DOMAIN handles : handles'[g].disposed = handles[g].disposed
      BY <2>2, OutcomeSeq
    <3>2. SessionTypeOK'
      BY <2>2, <3>1 DEF SessionTypeOK, config, server
    <3> QED
      BY <2>2, <3>1, <3>2 DEF TunnelAlone, NoZombies
  <2>3. ASSUME NEW result \in {"connected", "error"}, Outcome(p, result)
        PROVE  HandlesInv'
    BY <2>1, <2>2, <2>3 DEF Outcome
  <2> QED
    BY <1>16, <2>3 DEF ProbeTunnelFails, ProbeAnswers
<1> QED
  BY <1>1, <1>2, <1>3, <1>4, <1>5, <1>6, <1>7, <1>8, <1>9, <1>10, <1>11, <1>12, <1>13,
     <1>14, <1>15, <1>16 DEF Next, ConnectStep, RunStep, TestStep, User, Probers

\* A dropped session takes what is attached to it along.
LEMMA DropCurrentFresh ==
  ASSUME SessionInv, DropCurrent, UNCHANGED attempt,
         attempt.pc = "tunnel" => kc' = kc /\ jump' = jump
  PROVE  FreshInv'
  BY DEF SessionInv, HandlesInv, TunnelAlone, FreshInv, TunnelFresh, CurrentFresh,
         AttachedToCurrent, DropCurrent

\* A handle built from the configuration is fresh.
LEMMA BuildFresh ==
  ASSUME SessionInv, NEW via \in Vias, Build(via), via = jump, kc # None, current = 0,
         UNCHANGED <<config, attached>>
  PROVE  FreshInv'
  BY BuildSeq DEF SessionInv, HandlesInv, FreshInv, TunnelFresh, CurrentFresh,
                  AttachedToCurrent, Build, config

LEMMA InitSessionInv == Init => SessionInv
  BY InitHandles DEF Init, SessionInv, FreshInv, TunnelFresh, CurrentFresh, AttachedToCurrent, NoAttempt

LEMMA NextFresh ==
  ASSUME ~EditsWhileTunneling, SessionInv, Next
  PROVE  FreshInv'
<1> USE DEF SessionInv, HandlesInv, FreshInv
<1>1. CASE Connect
  <2>1. CASE jump = None
    BY <1>1, <2>1, BuildFresh DEF Connect, Vias
  <2>2. CASE jump # None
    BY <1>1, <2>2 DEF Connect, TunnelFresh, CurrentFresh, AttachedToCurrent, config
  <2> QED
    BY <2>1, <2>2
<1>2. CASE TunnelUp
  <2>1. attempt.via \in Vias /\ attempt.via = jump /\ kc # None /\ current = 0
    BY <1>2 DEF TunnelUp, TunnelAlone, TunnelFresh, SessionTypeOK
  <2> QED
    BY <1>2, <2>1, BuildFresh DEF TunnelUp
<1>3. CASE TunnelFails
  BY <1>3 DEF TunnelFails, NoAttempt, TunnelFresh, CurrentFresh, AttachedToCurrent, config
<1>4. CASE Connected
  <2> DEFINE answers == handles[current].def \in up
             result == IF answers THEN "connected" ELSE "error"
  <2>1. /\ attempt' = NoAttempt /\ attached' = 0 /\ current' = current
        /\ current # 0 /\ UNCHANGED config
    BY <1>4 DEF Connected, SessionTypeOK
  <2>2. handles' = [handles EXCEPT ![current].health = result, ![current].activated = answers]
    BY <1>4 DEF Connected
  <2>3. answers \in BOOLEAN /\ result \in {"connecting", "connected", "error"}
    OBVIOUS
  <2> HIDE DEF answers, result
  <2>4. \A g \in DOMAIN handles : /\ handles'[g].disposed = handles[g].disposed
                                  /\ handles'[g].def = handles[g].def
                                  /\ handles'[g].via = handles[g].via
    BY <2>1, <2>2, <2>3, ToldSeq
  <2>5. current \in DOMAIN handles
    BY <2>1 DEF SessionTypeOK
  <2> QED
    BY <2>1, <2>4, <2>5 DEF TunnelFresh, CurrentFresh, AttachedToCurrent, NoAttempt, config
<1>5. CASE ConnectOverruled
  <2>1. /\ attempt.handle \in DOMAIN handles /\ current # attempt.handle
        /\ handles' = DisposedAt(attempt.handle) /\ current' = current
        /\ attempt' = NoAttempt /\ UNCHANGED <<config, attached>>
    BY <1>5 DEF ConnectOverruled, SessionTypeOK, CurrentFresh
  <2>2. \A g \in DOMAIN handles \ {attempt.handle} : handles'[g] = handles[g]
    BY <2>1, DisposedAtSeq
  <2>3. current # 0 => current \in DOMAIN handles
    BY DEF SessionTypeOK
  <2> QED
    BY <2>1, <2>2, <2>3 DEF TunnelFresh, CurrentFresh, AttachedToCurrent, NoAttempt, config
<1>6. CASE Disconnect
  BY <1>6, DropCurrentFresh DEF Disconnect, config
<1>7. CASE Reconnect
  <2>1. current \in DOMAIN handles /\ current # 0 /\ UNCHANGED config
    BY <1>7 DEF Reconnect, SessionTypeOK
  <2>2. CASE attempt.pc = "none" /\ kc # None /\ jump = None
    <3> DEFINE new == [def |-> kc, via |-> None, activated |-> FALSE,
                       disposed |-> FALSE, health |-> "connecting"]
               rest == DisposedAt(current)
    <3>1. /\ handles' = Append(rest, new) /\ current' = Len(handles) + 1 /\ attached' = 0
          /\ attempt'.pc = "probe"
      BY <1>7, <2>2 DEF Reconnect
    <3>2. rest \in Seq(Handle) /\ Len(rest) = Len(handles)
      BY <2>1, DisposedAtSeq
    <3> HIDE DEF rest
    <3>3. handles'[current'] = new
      BY <3>1, <3>2
    <3>4. kc' = kc /\ jump' = jump
      BY <2>1 DEF config
    <3>5. TunnelFresh' /\ AttachedToCurrent'
      BY <3>1 DEF TunnelFresh, AttachedToCurrent
    <3>6. CurrentFresh'
      <4> HIDE DEF SessionInv, HandlesInv, FreshInv
      <4> QED
        BY <2>2, <3>3, <3>4 DEF CurrentFresh
    <3> QED
      BY <3>5, <3>6
  <2>3. CASE attempt.pc = "none" /\ kc # None /\ jump # None
    BY <1>7, <2>1, <2>3 DEF Reconnect, TunnelFresh, CurrentFresh, AttachedToCurrent, config
  <2>4. CASE ~(attempt.pc = "none" /\ kc # None)
    BY <1>7, <2>4, DropCurrentFresh DEF Reconnect, config
  <2> QED
    BY <2>2, <2>3, <2>4
<1>8. CASE Attach
  BY <1>8 DEF Attach, TunnelFresh, CurrentFresh, AttachedToCurrent, config
<1>9. CASE EditFile
  BY <1>9 DEF EditFile, TunnelFresh, CurrentFresh, AttachedToCurrent, session
<1>10. CASE Reload
  <2>1. CASE file # kc
    BY <1>10, <2>1, DropCurrentFresh DEF Reload
  <2>2. CASE file = kc
    BY <1>10, <2>2 DEF Reload, TunnelFresh, CurrentFresh, AttachedToCurrent
  <2> QED
    BY <2>1, <2>2
<1>11. CASE EditCluster
  BY <1>11, DropCurrentFresh DEF EditCluster, Edit
<1>12. CASE RemoveContext
  BY <1>12, DropCurrentFresh DEF RemoveContext, Edit
<1>13. CASE SetSshHost
  BY <1>13, DropCurrentFresh DEF SetSshHost, Edit
<1>14. CASE ServerFlips
  BY <1>14 DEF ServerFlips, TunnelFresh, CurrentFresh, AttachedToCurrent, config, session
<1>15. CASE \E p \in Probers : ProbeStarts(p) \/ ProbeTunnelUp(p)
  BY <1>15 DEF ProbeStarts, ProbeTunnelUp, TunnelFresh, CurrentFresh, AttachedToCurrent, config, session
<1>16. ASSUME NEW p \in Probers, ProbeTunnelFails(p) \/ ProbeAnswers(p)
       PROVE  FreshInv'
  <2>1. current # 0 => current \in DOMAIN handles
    BY DEF SessionTypeOK
  <2>2. CASE UNCHANGED <<config, handles, current, attempt, attached>>
    BY <2>2 DEF TunnelFresh, CurrentFresh, AttachedToCurrent, config
  <2>3. ASSUME NEW result \in {"connected", "error"}, SetCachedHealth(result),
               UNCHANGED <<config, current, attempt, attached>>
        PROVE  FreshInv'
    BY <2>1, <2>3, OutcomeSeq DEF TunnelFresh, CurrentFresh, AttachedToCurrent, config
  <2>4. ASSUME NEW result \in {"connected", "error"}, Outcome(p, result)
        PROVE  FreshInv'
    BY <2>2, <2>3, <2>4 DEF Outcome
  <2> QED
    BY <1>16, <2>4 DEF ProbeTunnelFails, ProbeAnswers
<1> QED
  BY <1>1, <1>2, <1>3, <1>4, <1>5, <1>6, <1>7, <1>8, <1>9, <1>10, <1>11, <1>12, <1>13,
     <1>14, <1>15, <1>16 DEF Next, ConnectStep, RunStep, TestStep, User, Probers

-----------------------------------------------------------------------------
(* Types of the probes.                                                    *)

Probe == [pc : {"none", "tunnel", "request"}, via : Vias, used : Client, cut : BOOLEAN]

LEMMA EmptyTypes == Idle \in Probe /\ Forgotten \in [known : BOOLEAN, used : Client]
  BY DEF Idle, Forgotten, NoClient, Probe, Client, Vias

\* refreshCachedHealth().
LEMMA RefreshTypes ==
  ASSUME NEW h \in {"unknown", "connecting", "connected", "error"},
         NEW ps \in [Probers -> Probe],
         kc' \in Defs \cup {None}, jump' \in Vias, Refresh(h, ps)
  PROVE  ChecksTypeOK'
<1> DEFINE fresh == [def |-> kc', via |-> None]
<1>1. fresh \in Client /\ "run" \in Probers
  BY DEF Client, Vias, Probers
<1>2. client' = [known |-> TRUE, used |-> fresh] \/ client' = Forgotten
  BY DEF Refresh
<1>3. health' \in {"unknown", "connecting", "connected", "error"}
  BY DEF Refresh
<1>4. \/ probes' = ps
      \/ probes' = [ps EXCEPT !["run"] =
           [pc |-> "request", via |-> None, used |-> fresh, cut |-> FALSE]]
      \/ probes' = [ps EXCEPT !["run"] = [Idle EXCEPT !.pc = "tunnel", !.via = jump']]
  BY DEF Refresh
<1> HIDE DEF fresh
<1>5. client' \in [known : BOOLEAN, used : Client]
  <2>1. [known |-> TRUE, used |-> fresh] \in [known : BOOLEAN, used : Client]
    BY <1>1
  <2> QED
    BY <1>2, <2>1, EmptyTypes
<1>6. /\ [Idle EXCEPT !.pc = "tunnel", !.via = jump'] \in Probe
      /\ [pc |-> "request", via |-> None, used |-> fresh, cut |-> FALSE] \in Probe
  BY <1>1, EmptyTypes DEF Probe, Vias
<1>7. probes' \in [Probers -> Probe]
  BY <1>1, <1>4, <1>6
<1> QED
  BY <1>3, <1>5, <1>7 DEF ChecksTypeOK, Probe

\* Probes that are cut off are probes.
LEMMA CutTypes ==
  ASSUME ChecksTypeOK
  PROVE  /\ Cut(probes) \in [Probers -> Probe]
         /\ \A q \in Probers : [probes[q] EXCEPT !.cut = TRUE] \in Probe
<1>1. probes \in [Probers -> Probe]
  BY DEF ChecksTypeOK, Probe
<1>2. ASSUME NEW p \in Probers, NEW b \in BOOLEAN PROVE [probes[p] EXCEPT !.cut = b] \in Probe
  BY <1>1 DEF Probe
<1>3. ASSUME NEW p \in Probers
      PROVE  [probes[p] EXCEPT !.cut = probes[p].cut \/ probes[p].pc = "request"] \in Probe
  <2>1. (probes[p].cut \/ probes[p].pc = "request") \in BOOLEAN
    OBVIOUS
  <2> QED
    BY <1>2, <2>1
<1> QED
  BY <1>2, <1>3 DEF Cut

\* probeClient().
LEMMA AskTypes ==
  ASSUME ChecksTypeOK, NEW p \in Probers, NEW via \in Vias, Ask(p, via),
         kc \in Defs \cup {None}, health' \in {"unknown", "connecting", "connected", "error"}
  PROVE  ChecksTypeOK'
<1> DEFINE used == IF client.known /\ client.used.via = via THEN client.used
                   ELSE [def |-> kc, via |-> via]
<1>1. used \in Client
  BY DEF ChecksTypeOK, Client
<1>2. /\ client' = [known |-> TRUE, used |-> used]
      /\ probes' = [q \in Probers |->
                     IF q = p THEN [pc |-> "request", via |-> via, used |-> used, cut |-> FALSE]
                     ELSE IF client.known /\ client.used # used /\ probes[q].pc = "request"
                     THEN [probes[q] EXCEPT !.cut = TRUE]
                     ELSE probes[q]]
  BY DEF Ask
<1> HIDE DEF used
<1>3. \A q \in Probers : probes[q] \in Probe
  BY DEF ChecksTypeOK, Probe
<1>4. [pc |-> "request", via |-> via, used |-> used, cut |-> FALSE] \in Probe
  BY <1>1 DEF Probe
<1>5. probes' \in [Probers -> Probe]
  BY <1>2, <1>3, <1>4, CutTypes
<1> QED
  BY <1>1, <1>2, <1>5 DEF ChecksTypeOK, Probe

LEMMA NextChecks ==
  ASSUME TypeOK, SessionTypeOK', Next
  PROVE  ChecksTypeOK'
<1> USE DEF TypeOK
<1>1. kc \in Defs \cup {None} /\ kc' \in Defs \cup {None} /\ jump \in Vias /\ jump' \in Vias
  BY DEF SessionTypeOK
<1>2. /\ probes \in [Probers -> Probe] /\ client \in [known : BOOLEAN, used : Client]
      /\ health \in {"unknown", "connecting", "connected", "error"}
  BY DEF ChecksTypeOK, Probe
<1>3. CASE UNCHANGED checks
  BY <1>3 DEF checks, ChecksTypeOK
<1>4. CASE Reconnect
  BY <1>2, <1>4, CutTypes, EmptyTypes DEF Reconnect, ChecksTypeOK, Probe
<1>5. CASE Reload \/ EditCluster \/ RemoveContext \/ SetSshHost
  <2>1. /\ Cut(probes) \in [Probers -> Probe] /\ probes \in [Probers -> Probe]
        /\ "unknown" \in {"unknown", "connecting", "connected", "error"}
    BY <1>2, CutTypes
  <2>2. PICK h \in {"unknown", "connecting", "connected", "error"},
             ps \in [Probers -> Probe] : Refresh(h, ps)
    BY <1>2, <1>5, <2>1 DEF Reload, EditCluster, RemoveContext, SetSshHost
  <2> QED
    BY <1>1, <2>2, RefreshTypes
<1>6. ASSUME NEW p \in Probers, ProbeStarts(p) PROVE ChecksTypeOK'
  <2>1. health' \in {"unknown", "connecting", "connected", "error"}
    BY <1>2, <1>6 DEF ProbeStarts
  <2>2. CASE jump = None
    BY <1>1, <1>6, <2>1, <2>2, AskTypes DEF ProbeStarts
  <2>3. CASE jump # None
    <3>1. [Idle EXCEPT !.pc = "tunnel", !.via = jump] \in Probe
      BY <1>1, EmptyTypes DEF Probe
    <3> QED
      BY <1>2, <1>6, <2>1, <2>3, <3>1, ZenonT(40) DEF ProbeStarts, ChecksTypeOK, Probe
  <2> QED
    BY <2>2, <2>3
<1>7. ASSUME NEW p \in Probers, ProbeTunnelUp(p) PROVE ChecksTypeOK'
  BY <1>1, <1>2, <1>7, AskTypes DEF ProbeTunnelUp, Probe
<1>8. ASSUME NEW p \in Probers, ProbeTunnelFails(p) \/ ProbeAnswers(p) PROVE ChecksTypeOK'
  <2>1. ASSUME NEW result \in {"connected", "error"}, Outcome(p, result) PROVE ChecksTypeOK'
    BY <1>2, <2>1, EmptyTypes DEF Outcome, SetCachedHealth, ChecksTypeOK, Probe
  <2> QED
    BY <1>8, <2>1 DEF ProbeTunnelFails, ProbeAnswers
<1>9. CASE ConnectStep \/ Connect \/ Disconnect \/ Attach \/ EditFile \/ ServerFlips
  BY <1>3, <1>9 DEF ConnectStep, TunnelUp, TunnelFails, Connected, ConnectOverruled, Connect,
                    Disconnect, Attach, EditFile, ServerFlips
<1> QED
  BY <1>4, <1>5, <1>6, <1>7, <1>8, <1>9 DEF Next, RunStep, TestStep, User, Probers

-----------------------------------------------------------------------------
LEMMA HandlesInvariant == Spec => []HandlesInv
<1>1. HandlesInv /\ [Next]_vars => HandlesInv'
  <2> SUFFICES ASSUME HandlesInv, [Next]_vars PROVE HandlesInv'
    OBVIOUS
  <2>1. CASE UNCHANGED vars
    BY <2>1 DEF vars, config, session, server, HandlesInv, SessionTypeOK, TunnelAlone, NoZombies
  <2> QED
    BY <2>1, NextHandles
<1> QED
  BY <1>1, InitHandles, PTL DEF Spec

\* Every variable keeps its type: in particular the Map, the attempt and the
\* browser name handles that were built.
THEOREM TypeCorrect == Spec => []TypeOK
<1>1. Init => ChecksTypeOK
  BY EmptyTypes DEF Init, ChecksTypeOK, Probe
<1>2. HandlesInv /\ HandlesInv' /\ ChecksTypeOK /\ [Next]_vars => ChecksTypeOK'
  <2> SUFFICES ASSUME HandlesInv, HandlesInv', ChecksTypeOK, [Next]_vars PROVE ChecksTypeOK'
    OBVIOUS
  <2>1. CASE UNCHANGED vars
    BY <2>1 DEF vars, checks, ChecksTypeOK
  <2> QED
    BY <2>1, NextChecks DEF HandlesInv, TypeOK
<1>3. HandlesInv /\ ChecksTypeOK => TypeOK
  BY DEF HandlesInv, TypeOK
<1> QED
  BY <1>1, <1>2, <1>3, HandlesInvariant, PTL DEF Spec

\* No session outlives its place in the Map, whatever is edited while a
\* connect awaits its tunnel or its probe (cluster-manager.ts:764).
THEOREM NoneLeftOver == Spec => []NoZombies
<1>1. HandlesInv => NoZombies
  BY DEF HandlesInv
<1> QED
  BY <1>1, HandlesInvariant, PTL

\* A session matches the kubeconfig entry and the jump host, and what is
\* subscribed is subscribed to it, however connects, reloads, edits and probes
\* interleave (cluster-manager.ts:337, :605, :764).
THEOREM SessionInvariant == ~EditsWhileTunneling /\ Spec => []SessionInv
<1> SUFFICES ASSUME ~EditsWhileTunneling PROVE Spec => []SessionInv
  OBVIOUS
<1>1. Init => SessionInv
  BY InitSessionInv
<1>2. SessionInv /\ [Next]_vars => SessionInv'
  <2> SUFFICES ASSUME SessionInv, [Next]_vars PROVE SessionInv'
    OBVIOUS
  <2>1. CASE Next
    BY <2>1, NextHandles, NextFresh DEF SessionInv
  <2>2. CASE UNCHANGED vars
    BY <2>2 DEF vars, config, session, server, SessionInv, HandlesInv, FreshInv, SessionTypeOK,
                TunnelAlone, TunnelFresh, CurrentFresh, AttachedToCurrent, NoZombies
  <2> QED
    BY <2>1, <2>2
<1> QED
  BY <1>1, <1>2, PTL DEF Spec

\* A session in use was built from the entry as it is loaded, and goes through
\* the jump host the settings name (cluster-manager.ts:337 and :605).
THEOREM SessionsMatch == ~EditsWhileTunneling /\ Spec => []SessionMatchesConfig
<1>1. SessionInv => SessionMatchesConfig
  BY DEF SessionInv, FreshInv, CurrentFresh, SessionMatchesConfig
<1> QED
  BY <1>1, SessionInvariant, PTL

\* No subscription stays on a disposed session (watch-client.ts:215).
THEOREM NobodyStranded == ~EditsWhileTunneling /\ Spec => []NobodyOnDisposed
<1>1. SessionInv => NobodyOnDisposed
  BY DEF SessionInv, FreshInv, AttachedToCurrent, CurrentFresh, NobodyOnDisposed
<1> QED
  BY <1>1, SessionInvariant, PTL
=============================================================================
