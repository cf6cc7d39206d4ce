------------------------------ MODULE ObjectFeed ------------------------------
(***************************************************************************)
(* What the list/watch pipeline promises one subscriber: its view of the   *)
(* objects is at all times a state the API server's store really had, and  *)
(* it only ever moves forward in the store's history, until the feed is    *)
(* detached.  No refetch by the subscriber is needed.                      *)
(***************************************************************************)
EXTENDS ApiServer

VARIABLES pos,  \* the version of the store the view shows; 0 when detached
          view  \* the object versions the subscriber holds

feedVars == <<log, pos, view>>

Init ==
  /\ log = << [type |-> "OTHER", uid |-> Other] >>
  /\ pos = 0
  /\ view = {}

ServerWrites ==
  /\ \E e \in Entry : log' = Append(log, e)
  /\ UNCHANGED <<pos, view>>

\* Hand over a snapshot, or bring the view forward.
Show ==
  /\ pos' \in pos..Len(log)
  /\ pos' > 0
  /\ view' = StoreAt(pos')
  /\ UNCHANGED log

Detach ==
  /\ pos' = 0
  /\ view' = {}
  /\ UNCHANGED log

Next == ServerWrites \/ Show \/ Detach

Spec == Init /\ [][Next]_feedVars
==============================================================================
