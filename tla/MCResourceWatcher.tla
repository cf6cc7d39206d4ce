-------------------------- MODULE MCResourceWatcher --------------------------
(***************************************************************************)
(* Two small instances of ResourceWatcher, one of which a behaviour takes: *)
(* the one of the cfg, where a list may lag, and Faulty, where continue    *)
(* tokens expire and an ERROR line may end a chunk of events.  The         *)
(* variables of the other one stay as they are at first.                   *)
(***************************************************************************)
EXTENDS ResourceWatcher

VARIABLES faulty,
          fLog, fCompacted, fRunning, fUnavailable, fState, fCache, fRv, fInitialList,
          fIl, fLoop, fRl, fPos, fDeltas, fSub, fView, fFaults

fVars == <<fLog, fCompacted, fRunning, fUnavailable, fState, fCache, fRv, fInitialList,
           fIl, fLoop, fRl, fPos, fDeltas, fSub, fView, fFaults>>

Faulty == INSTANCE ResourceWatcher WITH
  FromWatchCache <- FALSE, TokensExpire <- TRUE, ErrorJoinsChunk <- TRUE,
  log <- fLog, compacted <- fCompacted, running <- fRunning, unavailable <- fUnavailable,
  state <- fState, cache <- fCache, rv <- fRv, initialList <- fInitialList, il <- fIl,
  loop <- fLoop, rl <- fRl, pos <- fPos, deltas <- fDeltas, sub <- fSub, view <- fView,
  faults <- fFaults

MCInit == faulty \in BOOLEAN /\ Init /\ Faulty!Init

MCNext ==
  \/ ~faulty /\ Next /\ UNCHANGED <<faulty, fVars>>
  \/ faulty /\ Faulty!Next /\ UNCHANGED <<faulty, vars>>

MCFairness ==
  /\ WF_vars(~faulty /\ ListStep)
  /\ WF_vars(~faulty /\ (LoopStep \/ WatchGone \/ RelistGoneFails))
  /\ WF_vars(~faulty /\ WatchCloses)
  /\ WF_fVars(faulty /\ Faulty!ListStep)
  /\ WF_fVars(faulty /\ (Faulty!LoopStep \/ Faulty!WatchGone \/ Faulty!RelistGoneFails))
  /\ WF_fVars(faulty /\ Faulty!WatchCloses)

MCSpec == MCInit /\ [][MCNext]_<<faulty, vars, fVars>> /\ MCFairness

\* Whatever fails, expires or comes together in one chunk, a running watcher
\* ends up with the objects of the store: what peek() and items() read is never
\* stale for good (watcher.ts 222-345).
FaultyCacheEventuallyFresh == Faulty!CacheEventuallyFresh
=============================================================================
