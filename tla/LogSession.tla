------------------------------ MODULE LogSession ------------------------------
(***************************************************************************)
(* One /ws/logs session (server/src/ws/log-session.ts): the log streams of *)
(* a fixed set of pods, or of every pod of a workload, fanned in while     *)
(* pods start, restart, terminate and are replaced under their names.      *)
(*                                                                         *)
(* What the session does runs as tasks of one promise queue.  A task that  *)
(* awaits nothing runs before anything else happens, so a request is       *)
(* answered, a timer fires and a delta arrives only when the queue is      *)
(* empty or its head awaits an answer.  Every container selected, none     *)
(* excluded in the viewer.                                                 *)
(***************************************************************************)
EXTENDS PodHistory

CONSTANTS MaxFaults,    \* bound on requests and streams that fail
          MaxRechecks,  \* JOB_RECHECKS
          Relists       \* the watcher may relist

ASSUME BoundsAssumption == MaxVersions \in Nat \ {0} /\ {MaxFaults, MaxRechecks} \subseteq Nat
ASSUME NamesAssumption == Names \subseteq Nat \ {0} /\ 1 \in Names
ASSUME RelistsAssumption == Relists \in BOOLEAN

VARIABLES
  target,     \* what the query names: pods, a deployment, a job
  follow,     \* the query's follow
  job,        \* the Job as the API server has it: running, done (or gone)
  stage,      \* where start() is
  live,       \* feed.live
  leased,     \* the feed holds a lease of the watcher
  subscribed, \* this.unsubscribe is set
  disposed,
  jobTimer,   \* armed
  await,      \* what the running task awaits: "", read, match, job
  need, got, missing,  \* loadInitial: names to go, what was found, 404s
  unsure,     \* names whose matcher answered false last, or whose one-off read
              \* failed or found what the watcher had not shown
  session,    \* what the tasks work on
  faults

start == <<target, follow, stage, live, leased, subscribed>>
loading == <<need, got, missing>>
vars == <<podVars, start, job, loading, disposed, jobTimer, await, unsure, session,
          faults>>

\* A PodEntry with its source.  timer: source.grace is armed.  request: the
\* log request has not settled.
Entry == [known : BOOLEAN, uid : 0..MaxVersions, left : BOOLEAN, term : BOOLEAN,
          state : {"pending", "waiting", "streaming", "grace", "ended"},
          run : 0..MaxVersions, timer : BOOLEAN, request : BOOLEAN]

Unknown == [known |-> FALSE, uid |-> 0, left |-> FALSE, term |-> FALSE,
            state |-> "ended", run |-> 0, timer |-> FALSE, request |-> FALSE]

Task == [op : {"load", "deltas", "streamFinished", "graceExpired", "checkDone",
               "finishIfJobDone"},
         name : Names \cup {0}, deltas : Seq(1..MaxVersions), notFound : BOOLEAN]

Do(op, n, deltas, notFound) ==
  [op |-> op, name |-> n, deltas |-> deltas, notFound |-> notFound]

\* closed: the close the socket was asked for first, for good or to retry.
Session == [pods : [Names -> Entry], queue : Seq(Task), ready : BOOLEAN,
            finishing : BOOLEAN, closed : {"no", "over", "retry"},
            jobChecks : 0..MaxRechecks]

TypeOK ==
  /\ PodTypeOK
  /\ target \in {"pods", "deployment", "job"} /\ follow \in BOOLEAN
  /\ job \in {"running", "done"}
  /\ stage \in {"feed", "target", "started", "returned"}
  /\ {live, leased, subscribed, disposed, jobTimer} \subseteq BOOLEAN
  /\ await \in {"", "read", "match", "job"}
  /\ need \subseteq Names /\ got \in [Names -> 0..Len(hist)] /\ missing \subseteq Names
  /\ unsure \subseteq Names
  /\ session \in Session
  /\ faults \in 0..MaxFaults

Init ==
  /\ PodInit
  /\ target \in {"pods", "deployment", "job"} /\ follow \in BOOLEAN
  /\ job = "running"
  /\ stage = "feed" /\ live = FALSE /\ leased = FALSE /\ subscribed = FALSE
  /\ disposed = FALSE /\ jobTimer = FALSE /\ await = ""
  /\ need = {} /\ got = [n \in Names |-> 0] /\ missing = {}
  /\ unsure = {}
  /\ session = [pods |-> [n \in Names |-> Unknown], queue |-> <<>>, ready |-> FALSE,
                finishing |-> FALSE, closed |-> "no", jobChecks |-> 0]
  /\ faults = 0

Fault == faults < MaxFaults /\ faults' = faults + 1

Idle == session.queue = <<>> \/ await # ""

\* The getter `live`.
Live == follow /\ live

\* feed.get(name): what the cache shows now, or what was read at the start.
Feed(n) == IF live THEN Cached(n) ELSE got[n]

Push(s, task) == [s EXCEPT !.queue = Append(@, task)]
Close(s, how) == IF s.closed = "no" THEN [s EXCEPT !.closed = how] ELSE s

(***************************************************************************)
(* containerRun and podFinished                                            *)
(***************************************************************************)
RunId(o) == IF o = 0 THEN 0 ELSE hist[o].run
Running(o) == o # 0 /\ hist[o].st = "running"
Waiting(o) == o = 0 \/ hist[o].st \in {"none", "backoff"}
Terminating(o) == o # 0 /\ hist[o].term
Finished(o) == o # 0 /\ hist[o].fin

(***************************************************************************)
(* Sources                                                                 *)
(***************************************************************************)
Rests(e, state) == [e EXCEPT !.state = state, !.timer = FALSE]

StartStream(e, run) ==
  [e EXCEPT !.state = "streaming", !.run = run, !.timer = FALSE, !.request = TRUE]

\* advance: a source that is not streaming, given the pod's latest state.
Advance(e, o) ==
  IF disposed \/ e.left \/ e.state = "streaming" THEN e
  ELSE CASE ~Live /\ e.state = "pending" -> StartStream(e, 0)
         [] ~Live /\ e.state # "pending" -> e
         [] Live /\ RunId(o) \notin {0, e.run} -> StartStream(e, RunId(o))
         [] OTHER ->
              CASE Terminating(o) -> Rests(e, "ended")
                [] ~Terminating(o) /\ Waiting(o) -> Rests(e, "waiting")
                [] ~Terminating(o) /\ Running(o) ->
                     IF e.state = "grace" THEN e
                     ELSE [e EXCEPT !.state = "grace", !.timer = TRUE]
                [] OTHER -> Rests(e, "ended")

\* addPod.
Added(o) ==
  Advance([Unknown EXCEPT !.known = TRUE, !.state = "pending",
             !.uid = IF o = 0 THEN 0 ELSE hist[o].uid, !.term = Terminating(o)], o)

Gone(e) == [Rests(e, "ended") EXCEPT !.left = TRUE, !.request = FALSE]

(***************************************************************************)
(* The end of the session                                                  *)
(***************************************************************************)
Active(s) == {n \in Names : s.pods[n].known /\ ~s.pods[n].left}

Finish(s) == Close([s EXCEPT !.finishing = TRUE], "over")

\* Mutant: a container that exited counts as done, though it may restart.
CheckDoneEarly(s) ==
  LET states == {s.pods[n].state : n \in Active(s)} IN
  IF \/ ~s.ready \/ disposed \/ s.finishing
     \/ states \cap {"pending", "streaming", "grace"} # {} THEN s
  ELSE IF ~Live THEN Finish(s)
  ELSE IF "waiting" \in states THEN s
  ELSE CASE target = "pods" -> Finish(s)
         [] target = "job" -> Push(s, Do("finishIfJobDone", 0, <<>>, FALSE))
         [] target = "deployment" -> s

\* Close the session once nothing can produce more lines.
CheckDone(s) ==
  LET states == {s.pods[n].state : n \in Active(s)} IN
  IF \/ ~s.ready \/ disposed \/ s.finishing
     \/ states \cap {"pending", "streaming", "grace"} # {} THEN s
  ELSE IF ~Live THEN Finish(s)
  ELSE IF "waiting" \in states \/ \E n \in Active(s) : ~Finished(Feed(n)) THEN s
  ELSE CASE target = "pods" -> Finish(s)
         [] target = "job" -> Push(s, Do("finishIfJobDone", 0, <<>>, FALSE))
         [] target = "deployment" -> s

\* retire: tasks of its streams and timers would return at once.
Retire(s, n) ==
  IF s.pods[n].left THEN s
  ELSE CheckDone([s EXCEPT !.pods[n] = Gone(@),
                           !.queue = Picked(@, {k \in DOMAIN @ : @[k].name # n})])

(***************************************************************************)
(* Deltas                                                                  *)
(***************************************************************************)
\* podUpdated: a terminating pod leaves once its last lines are in.
PodUpdated(s, n, o) ==
  LET e == s.pods[n] IN
  IF ~Terminating(o) THEN CheckDone([s EXCEPT !.pods[n] = Advance(e, o)])
  ELSE IF e.state = "streaming" THEN [s EXCEPT !.pods[n].term = TRUE]
  ELSE Retire([s EXCEPT !.pods[n].term = TRUE], n)

\* Mutant: pods are told apart by their names.
ReplacedNever(s, o) == FALSE

\* A new pod under an old name: the old one is gone.
Replaced(s, o) == LET e == s.pods[hist[o].name] IN e.known /\ e.uid \notin {0, hist[o].uid}

Forget(s, n) == [Retire(s, n) EXCEPT !.pods[n] = Unknown]

\* onDeltas, up to the matcher.
Delta(s, o) ==
  LET n == hist[o].name
      t == IF Replaced(s, o) /\ ~hist[o].gone THEN Forget(s, n) ELSE s
  IN CASE Replaced(s, o) /\ hist[o].gone -> s
       [] ~t.pods[n].known -> t
       [] t.pods[n].known /\ ~Replaced(s, o) /\ hist[o].gone -> Retire(t, n)
       [] t.pods[n].known /\ ~hist[o].gone ->
            IF t.pods[n].left THEN t ELSE PodUpdated(t, n, o)

\* Whether the matcher is asked about a pod nobody knows yet.
IsNew(s, o) ==
  /\ target # "pods" /\ ~hist[o].gone /\ ~Terminating(o)
  /\ ~s.pods[hist[o].name].known \/ Replaced(s, o)

\* A pod joins.
Joins(s, o) == [s EXCEPT !.pods[hist[o].name] = Added(o), !.jobChecks = 0]

(***************************************************************************)
(* The tasks                                                               *)
(***************************************************************************)
Head1(op) == session.queue # <<>> /\ await = "" /\ Head(session.queue).op = op
Popped == [session EXCEPT !.queue = Tail(@)]

\* The end of loadInitial.
Loaded(s, found, absent) ==
  CheckDone(
    [s EXCEPT !.ready = TRUE,
              !.pods = [n \in Names |->
                CASE target = "pods" /\ live /\ n \in absent ->
                       Gone([Unknown EXCEPT !.known = TRUE])
                  [] target = "pods" /\ ~(live /\ n \in absent) -> Added(found[n])
                  [] target # "pods" /\ found[n] # 0 -> Added(found[n])
                  [] OTHER -> s.pods[n]]])

\* What loadInitial has to ask: one-off reads of pods the cache does not
\* have, or the matcher about every pod it has.
Asks ==
  CASE target = "pods" -> {n \in Names : ~live \/ Cached(n) = 0}
    [] target = "deployment" /\ live -> {n \in Names : Cached(n) # 0}
    [] OTHER -> {}

LoadInitial ==
  /\ Head1("load")
  /\ LET found == IF live THEN [n \in Names |-> Cached(n)] ELSE got IN
       IF Asks = {}
       THEN /\ session' = Loaded(Popped, found, {})
            /\ UNCHANGED <<need, got, await>>
       ELSE /\ need' = Asks /\ got' = found
            /\ await' = IF target = "pods" THEN "read" ELSE "match"
            /\ UNCHANGED session
  /\ UNCHANGED <<podVars, start, job, missing, disposed, jobTimer, unsure, faults>>

\* One request of loadInitial is answered with what was found of the pod.
LoadAnswer(n, o, notFound, isUnsure) ==
  /\ need' = need \ {n}
  /\ missing' = IF notFound THEN missing \cup {n} ELSE missing
  /\ unsure' = IF isUnsure THEN unsure \cup {n} ELSE unsure
  /\ IF need' # {}
     THEN got' = [got EXCEPT ![n] = o] /\ UNCHANGED <<await, session>>
     ELSE /\ await' = ""
          /\ session' = Loaded(Popped, [got EXCEPT ![n] = o], missing')
          /\ got' = IF live THEN [m \in Names |-> 0] ELSE [got EXCEPT ![n] = o]
  /\ UNCHANGED <<podVars, start, job, disposed, jobTimer>>

ReadAnswer(n) ==
  /\ ~disposed /\ await = "read" /\ n \in need
  /\ \/ LoadAnswer(n, Stored(n), Stored(n) = 0, Stored(n) # Cached(n))
        /\ UNCHANGED faults
     \/ Fault /\ LoadAnswer(n, 0, FALSE, TRUE)

MatchesInitial(n) ==
  /\ ~disposed /\ await = "match" /\ n \in need
  /\ \/ LoadAnswer(n, got[n], FALSE, FALSE) /\ UNCHANGED faults
     \/ Fault /\ LoadAnswer(n, 0, FALSE, TRUE)

\* The head task goes on with the deltas behind its first.
NextDelta(s) ==
  IF Len(Head(s.queue).deltas) = 1 THEN [s EXCEPT !.queue = Tail(@)]
  ELSE [s EXCEPT !.queue[1].deltas = Tail(@)]

OnDelta ==
  /\ Head1("deltas")
  /\ LET o == Head(Head(session.queue).deltas)
         s == Delta(session, o)
     IN CASE IsNew(session, o) /\ target = "deployment" ->
               /\ session' = s /\ await' = "match"
          [] IsNew(session, o) /\ target = "job" ->
               /\ session' = NextDelta(Joins(s, o)) /\ UNCHANGED await
          [] ~IsNew(session, o) ->
               /\ session' = NextDelta(s) /\ UNCHANGED await
  /\ UNCHANGED <<podVars, start, job, loading, disposed, jobTimer, unsure, faults>>

\* A matcher whose request failed answers false.
MatcherAnswers ==
  /\ ~disposed /\ await = "match" /\ need = {}
  /\ await' = ""
  /\ LET o == Head(Head(session.queue).deltas)
         n == hist[o].name
     IN \/ /\ session' = NextDelta(Joins(session, o))
           /\ unsure' = unsure \ {n}
           /\ UNCHANGED faults
        \/ /\ Fault
           /\ session' = NextDelta(session)
           /\ unsure' = unsure \cup {n}
  /\ UNCHANGED <<podVars, start, job, loading, disposed, jobTimer>>

StreamFinished(s, t) ==
  LET n == t.name
      e == s.pods[n]
      o == Feed(n)
      ended == [s EXCEPT !.pods[n].state = "ended"]
  IN CASE ~follow -> CheckDone(ended)
       [] follow /\ ~live ->
            IF RunId(o) # 0 /\ ~Running(o) /\ ~Waiting(o) THEN CheckDone(ended)
            ELSE Close(ended, "retry")
       [] Live ->
            IF o = 0 \/ e.uid \notin {0, hist[o].uid} \/ t.notFound \/ Terminating(o)
            THEN Retire(ended, n)
            ELSE CheckDone([ended EXCEPT !.pods[n] = Advance(@, o)])

GraceExpired(s, n) ==
  LET e == s.pods[n]
      o == Cached(n)
  IN CASE e.state # "grace" -> s
       [] e.state = "grace" /\ (o = 0 \/ e.uid \notin {0, hist[o].uid}) -> Retire(s, n)
       [] OTHER ->
            IF Running(o) /\ RunId(o) = e.run /\ ~Terminating(o) THEN Close(s, "retry")
            ELSE CheckDone([s EXCEPT !.pods[n] = Advance([e EXCEPT !.state = "ended"], o)])

OnStreamFinished ==
  /\ Head1("streamFinished")
  /\ session' = StreamFinished(Popped, Head(session.queue))
  /\ UNCHANGED <<podVars, start, job, loading, disposed, jobTimer, await, unsure, faults>>

OnGraceExpired ==
  /\ Head1("graceExpired")
  /\ session' = GraceExpired(Popped, Head(session.queue).name)
  /\ UNCHANGED <<podVars, start, job, loading, disposed, jobTimer, await, unsure, faults>>

OnCheckDone ==
  /\ Head1("checkDone")
  /\ session' = CheckDone(Popped)
  /\ UNCHANGED <<podVars, start, job, loading, disposed, jobTimer, await, unsure, faults>>

FinishIfJobDone ==
  /\ Head1("finishIfJobDone")
  /\ IF session.finishing \/ jobTimer
     THEN session' = Popped /\ UNCHANGED await
     ELSE await' = "job" /\ UNCHANGED session
  /\ UNCHANGED <<podVars, start, job, loading, disposed, jobTimer, unsure, faults>>

\* Mutant: one check too many.
JobAnswerOnceMore ==
  /\ ~disposed /\ await = "job"
  /\ await' = ""
  /\ \E done \in BOOLEAN :
       /\ IF done = (job = "done") THEN UNCHANGED faults ELSE ~done /\ Fault
       /\ CASE done -> session' = Finish(Popped) /\ UNCHANGED jobTimer
            [] ~done /\ session.jobChecks > MaxRechecks ->
                 session' = Popped /\ UNCHANGED jobTimer
            [] ~done /\ session.jobChecks <= MaxRechecks ->
                 /\ session' = [Popped EXCEPT !.jobChecks = @ + 1]
                 /\ jobTimer' = TRUE
  /\ UNCHANGED <<podVars, start, job, loading, disposed, unsure>>

\* The Job is Complete, Failed or gone; or the request failed.
JobAnswer ==
  /\ ~disposed /\ await = "job"
  /\ await' = ""
  /\ \E done \in BOOLEAN :
       /\ IF done = (job = "done") THEN UNCHANGED faults ELSE ~done /\ Fault
       /\ CASE done -> session' = Finish(Popped) /\ UNCHANGED jobTimer
            [] ~done /\ session.jobChecks >= MaxRechecks ->
                 session' = Popped /\ UNCHANGED jobTimer
            [] ~done /\ session.jobChecks < MaxRechecks ->
                 /\ session' = [Popped EXCEPT !.jobChecks = @ + 1]
                 /\ jobTimer' = TRUE
  /\ UNCHANGED <<podVars, start, job, loading, disposed, unsure>>

(***************************************************************************)
(* Timers, streams, deltas                                                 *)
(***************************************************************************)
JobTimerFires ==
  /\ Idle /\ jobTimer
  /\ jobTimer' = FALSE
  /\ session' = Push(session, Do("checkDone", 0, <<>>, FALSE))
  /\ UNCHANGED <<podVars, start, job, loading, disposed, await, unsure, faults>>

GraceTimerFires(n) ==
  /\ Idle /\ session.pods[n].timer
  /\ session' = Push([session EXCEPT !.pods[n].timer = FALSE],
                     Do("graceExpired", n, <<>>, FALSE))
  /\ UNCHANGED <<podVars, start, job, loading, disposed, jobTimer, await, unsure, faults>>

\* The run that the stream reads is over.
RunOver(n) ==
  ~follow \/ ~Running(Stored(n)) \/ RunId(Stored(n)) \notin {session.pods[n].run, 0}

\* streamOne settles, when its run is over or because it broke.
StreamSettles(n) ==
  /\ Idle /\ session.pods[n].request
  /\ IF RunOver(n) THEN UNCHANGED faults ELSE Fault
  /\ \E notFound \in {FALSE, Stored(n) = 0} :
       session' = Push([session EXCEPT !.pods[n].request = FALSE],
                       Do("streamFinished", n, <<>>, notFound))
  /\ UNCHANGED <<podVars, start, job, loading, disposed, jobTimer, await, unsure>>

\* The cache moves first, then the subscriber hears of it.
Deliver ==
  /\ Idle
  /\ stage = "feed" \/ leased
  /\ \E q \in (seen + 1)..Len(hist) :
       /\ seen' = q
       /\ \E deltas \in {Chunk(q)} \cup (IF Relists THEN {Relist(q)} ELSE {}) :
            session' = IF subscribed /\ deltas # <<>>
                       THEN Push(session, Do("deltas", 0, deltas, FALSE)) ELSE session
  /\ UNCHANGED <<hist, start, job, loading, disposed, jobTimer, await, unsure, faults>>

(***************************************************************************)
(* start and dispose                                                       *)
(***************************************************************************)
\* The initial load is queued before any delta.
Begin ==
  /\ stage' = "started"
  /\ session' = Push(session, Do("load", 0, <<>>, FALSE))

Returns(how) == stage' = "returned" /\ session' = Close(session, how)

\* Mutant: a session that was disposed meanwhile keeps its feed.
FeedAnswersLeased ==
  /\ stage = "feed"
  /\ live' \in BOOLEAN
  /\ leased' = live'
  /\ CASE disposed -> stage' = "returned" /\ UNCHANGED <<session, subscribed>>
       [] ~disposed /\ target = "pods" -> Begin /\ subscribed' = (follow /\ live')
       [] ~disposed /\ target # "pods" -> stage' = "target" /\ UNCHANGED <<session, subscribed>>
  /\ UNCHANGED <<podVars, target, follow, job, loading, disposed, jobTimer, await, unsure,
                 faults>>

\* watchedPodFeed resolves, with a watcher or without.
FeedAnswers ==
  /\ stage = "feed"
  /\ live' \in BOOLEAN
  /\ leased' = (live' /\ ~disposed)
  /\ CASE disposed -> stage' = "returned" /\ UNCHANGED <<session, subscribed>>
       [] ~disposed /\ target = "pods" -> Begin /\ subscribed' = (follow /\ live')
       [] ~disposed /\ target # "pods" -> stage' = "target" /\ UNCHANGED <<session, subscribed>>
  /\ UNCHANGED <<podVars, target, follow, job, loading, disposed, jobTimer, await, unsure,
                 faults>>

\* The target is read, and without a watcher its pods as they are now.
TargetAnswers ==
  /\ stage = "target"
  /\ IF disposed THEN stage' = "returned" /\ UNCHANGED <<session, subscribed, got>>
     ELSE /\ Begin /\ subscribed' = Live
          /\ got' = IF live THEN got ELSE [n \in Names |-> Stored(n)]
  /\ UNCHANGED <<podVars, target, follow, live, leased, job, need, missing, disposed,
                 jobTimer, await, unsure, faults>>

\* No such context, no such target, a target without pods, or a failed read.
StartFails ==
  /\ stage \in {"feed", "target"} /\ Fault
  /\ \E how \in {"retry"} \cup (IF stage = "target" THEN {"over"} ELSE {}) : Returns(how)
  /\ UNCHANGED <<podVars, target, follow, live, leased, subscribed, job, loading, disposed,
                 jobTimer, await, unsure>>

\* The socket is closed, by the session or by the browser.  Tasks that have not
\* begun return at once.
Dispose ==
  /\ Idle /\ ~disposed
  /\ disposed' = TRUE
  /\ leased' = FALSE /\ subscribed' = FALSE /\ jobTimer' = FALSE
  /\ session' = [session EXCEPT
                   !.pods = [n \in Names |-> [@[n] EXCEPT !.timer = FALSE, !.request = FALSE]],
                   !.queue = IF await = "" THEN <<>> ELSE <<Head(@)>>]
  /\ UNCHANGED <<podVars, target, follow, stage, live, job, loading, await, unsure, faults>>

\* Whatever the running task awaited, it returns.
AnswersDisposed ==
  /\ disposed /\ await # ""
  /\ await' = "" /\ session' = Popped
  /\ UNCHANGED <<podVars, start, job, loading, disposed, jobTimer, unsure, faults>>

(***************************************************************************)
(* The world                                                               *)
(***************************************************************************)
\* While the session is open.  A Job that is done creates no pods.
PodsChange ==
  /\ ~disposed /\ session.closed = "no" /\ PodStep
  /\ job = "done" => \A n \in Names : Stored(n) = 0 => Stored(n)' = 0
  /\ UNCHANGED <<start, job, loading, disposed, jobTimer, await, unsure, session, faults>>

JobFinishes ==
  /\ ~disposed /\ target = "job" /\ job = "running" /\ hist # <<>>
  /\ \A n \in Names : Stored(n) = 0 \/ Finished(Stored(n))
  /\ job' = "done"
  /\ UNCHANGED <<podVars, start, loading, disposed, jobTimer, await, unsure, session, faults>>

-----------------------------------------------------------------------------
Answers == \/ FeedAnswers \/ TargetAnswers \/ MatcherAnswers \/ JobAnswer \/ AnswersDisposed
           \/ \E n \in Names : ReadAnswer(n) \/ MatchesInitial(n)

Runs == \/ LoadInitial \/ OnDelta \/ OnStreamFinished \/ OnGraceExpired \/ OnCheckDone
        \/ FinishIfJobDone

Timers == JobTimerFires \/ \E n \in Names : GraceTimerFires(n)

Next ==
  \/ Answers \/ Runs \/ Timers \/ StartFails \/ Deliver \/ Dispose
  \/ \E n \in Names : StreamSettles(n)
  \/ PodsChange \/ JobFinishes

Spec == Init /\ [][Next]_vars

(***************************************************************************)
(* Properties                                                              *)
(***************************************************************************)
\* Whatever dispose() meets, nothing goes on behind a closed socket: no lease
\* of the watcher, no subscription, no timer, no log request.
DisposedIsQuiet ==
  (disposed /\ stage # "feed") =>
    /\ ~leased /\ ~subscribed /\ ~jobTimer
    /\ \A n \in Names : ~session.pods[n].timer /\ ~session.pods[n].request

\* A session over fixed pods ends for good only when every pod that is still
\* listed has finished and its newest run was read to the end (log-session.ts
\* line 577: "Close the session once nothing can produce more lines."), but
\* for deltas of the pod that are still queued.
Unheard(s, n) ==
  \E k \in DOMAIN s.queue :
    \E i \in DOMAIN s.queue[k].deltas : hist[s.queue[k].deltas[i]].name = n

CompleteIsHonest ==
  [][session'.finishing /\ ~session.finishing /\ target = "pods" /\ Live =>
       \A n \in Active(session') :
         /\ Finished(Cached(n)) /\ session'.pods[n].state = "ended"
         /\ session'.pods[n].run = RunId(Cached(n)) \/ Unheard(session', n)]_vars

\* Nothing is left to happen but what pods and the browser do of their own:
\* no task, no request of the session's own, no delta, no timer, no close.  A
\* log request stays open while its container runs.
Settled ==
  /\ session.ready /\ ~disposed /\ session.closed = "no"
  /\ session.queue = <<>> /\ seen = Len(hist) /\ ~jobTimer
  /\ \A n \in Names : ~session.pods[n].timer /\ (session.pods[n].request => ~RunOver(n))

\* A session never comes to rest before it reads the newest run of every pod
\* it lists, and, for a workload, lists every pod that it is sure of.
RestsFollowing ==
  (Settled /\ Live) =>
    \A n \in Names :
      LET o == Stored(n)
          e == session.pods[n]
      IN (o # 0 /\ ~Terminating(o) /\ n \notin unsure) =>
           /\ target # "pods" => e.known /\ ~e.left /\ e.uid = hist[o].uid
           /\ e.known /\ ~e.left => RunId(o) \in {0, e.run}

\* Nor does it rest open over pods that all finished or left, or over a Job
\* that is done before the session gave up asking.  For pods it is not sure of
\* it may wait.
RestsOnlyWhileOngoing ==
  ~ /\ Settled
    /\ \A n \in Names : Stored(n) = 0 \/ (Finished(Stored(n)) /\ RunId(Stored(n)) # 0)
    /\ Live => Active(session) \cap unsure = {}
    /\ target = "job" => job = "done" /\ session.jobChecks < MaxRechecks
    /\ target = "deployment" => ~Live

\* Both: a session at rest has nothing left to read, and something to wait for.
RestsRightly == RestsFollowing /\ RestsOnlyWhileOngoing
==============================================================================
