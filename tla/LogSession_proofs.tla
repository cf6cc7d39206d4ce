-------------------------- MODULE LogSession_proofs --------------------------
(***************************************************************************)
(* The log session, for any names, versions, faults and rechecks, with     *)
(* relists or without: the state is of its type, a session that is         *)
(* disposed has nothing that goes on, one that finishes has read all it    *)
(* lists, and one that rests reads or waits for what there is.             *)
(*                                                                         *)
(* First the shape (Base).  A session is starting (Before), in its initial *)
(* load (Loading) or running (Ready), and each handler can only run in     *)
(* some of them: what it leaves behind is of the type because of what the  *)
(* phase says of the queue.  That the head of the queue is the task which  *)
(* awaits, and that a task of a name is about a pod, is most of it.  Once  *)
(* disposed, only what is awaited may still come.                          *)
(*                                                                         *)
(* Then what is done and what is due (Opened), with d the versions that    *)
(* queued deltas tell of (Told).  Whatever an entry lacks of the history   *)
(* up to what the cache shows is in d, or its stream is open (Follows),    *)
(* and a stream or grace period that ended has a task (Attended).  So once *)
(* all that is shown has finished, a check is due or the socket is closed  *)
(* (DueInv).  The matcher's false answers and one-off reads that were out  *)
(* of date (unsure) are what the invariant must leave out.                 *)
(***************************************************************************)
EXTENDS LogSession, SequenceTheorems, WellFoundedInduction, TLAPS

-----------------------------------------------------------------------------
(* The invariant                                                           *)

\* The history h up to version q.
Latest(h, n, q) ==
  LET S == {i \in 1..q : h[i].name = n} IN IF S = {} THEN 0 ELSE Max(S)

At(h, n, q) == LET i == Latest(h, n, q) IN IF i = 0 \/ h[i].gone THEN 0 ELSE i

\* A pod is gone for good, and what it was before stays so.
HistInv(h) ==
  /\ h \in Seq(Pod) /\ Len(h) <= MaxVersions
  /\ \A i \in DOMAIN h :
       /\ h[i].uid <= i
       /\ h[i].fin => h[i].st = "exited"
       /\ h[i].run = 0 <=> h[i].st = "none"
  /\ \A i, j \in DOMAIN h : i < j =>
       /\ h[i].uid = h[j].uid =>
            h[i].name = h[j].name /\ ~h[i].gone /\ (h[i].term => h[j].term)
       /\ h[i].uid # h[j].uid /\ h[i].name = h[j].name =>
            \E k \in i..(j - 1) : h[k].uid = h[i].uid /\ h[k].gone

\* The versions that queued deltas are about.
Told(q) == UNION {Range(t.deltas) : t \in Range(q)}

\* All that is to come of pods that are told of is queued too.
Follow(h, v, d) ==
  \A i \in d : ~h[i].gone =>
    /\ \A j \in 1..v : h[j].uid = h[i].uid /\ h[j].gone => j \in d
    /\ At(h, h[i].name, v) \in d \cup {0}

\* Deltas come in the order of the history, but for deletions in a relist.
OrderInv(h, v, q) ==
  /\ Told(q) \subseteq 1..v
  /\ \A j, k \in DOMAIN q : j < k =>
       \A a \in Range(q[j].deltas), b \in Range(q[k].deltas) : a < b
  /\ \A k \in DOMAIN q : \A a, b \in DOMAIN q[k].deltas :
       LET i == q[k].deltas[a]
           j == q[k].deltas[b]
       IN a < b => /\ i # j
                   /\ ~h[i].gone /\ ~h[j].gone => i < j
                   /\ h[i].gone /\ ~h[j].gone => h[i].uid # h[j].uid

Shaped(t) ==
  /\ t.op = "deltas" <=> t.deltas # <<>>
  /\ t.op \in {"streamFinished", "graceExpired"} <=> t.name # 0

Alive(h, u) == \A i \in DOMAIN h : h[i].uid = u => ~h[i].gone

\* Entries, with the tasks (T) about them and the versions told (d).
Sound(T, live_, n, e) ==
  /\ e.state # "pending"
  /\ ~e.known => e = Unknown
  /\ e.left => e.known /\ e.state = "ended"
  /\ e.timer \/ e.request \/ (\E t \in T : t.name = n) => e.known /\ ~e.left
  /\ e.timer \/ e.state \in {"grace", "waiting"} => live_

Attended(T, n, e) ==
  /\ e.state = "streaming" => e.request \/ \E t \in T : t.op = "streamFinished" /\ t.name = n
  /\ e.state = "grace" => e.timer \/ \E t \in T : t.op = "graceExpired" /\ t.name = n

On(e) == e.known /\ ~e.left

\* The entry is at what the cache shows, or there is a stream or a delta to come.
AtLatest(h, v, d, n, e) ==
  LET o == At(h, n, v) IN
  On(e) /\ o # 0 => \/ o \in d \/ e.state = "streaming"
                    \/ /\ h[o].run \in {0, e.run}
                       /\ e.state = "waiting" => h[o].st \in {"none", "backoff"}

Shown(h, v, n, e) == \E i \in 1..v : h[i].name = n /\ h[i].uid = e.uid

\* What ends the pod is to come.
Leaves(h, v, d, n, e) ==
  On(e) => Shown(h, v, n, e) /\ \A j \in 1..v : h[j].uid = e.uid /\ h[j].gone => j \in d

\* A workload's pod has its entry.
Listed(h, v, d, n, e) ==
  LET o == At(h, n, v) IN
  o # 0 /\ ~h[o].term /\ Alive(h, h[o].uid) => o \in d \/ (On(e) /\ e.uid = h[o].uid)

\* A workload's pods.
OfWorkload(h, v, T, n, e) ==
  /\ e.known => Shown(h, v, n, e)
  /\ e.left => ~Alive(h, e.uid) \/ \E j \in 1..v : h[j].uid = e.uid /\ h[j].term
  /\ \A t \in T : t.name = n /\ t.notFound => ~Alive(h, e.uid)

Follows(h, v, T, d, work, sure, n, e) ==
  /\ AtLatest(h, v, d, n, e)
  /\ sure => Leaves(h, v, d, n, e)
  /\ work => OfWorkload(h, v, T, n, e)
  /\ work /\ sure => Listed(h, v, d, n, e)

\* Something is left to do, or will be looked at once more.
Ripe(h, v, d, pods) ==
  \A n \in Names : On(pods[n]) =>
    /\ pods[n].state = "ended"
    /\ LET o == At(h, n, v) IN o # 0 /\ h[o].fin /\ o \notin d

Rechecks(T, timer, checks) ==
  (\E t \in T : t.op \in {"finishIfJobDone", "checkDone"}) \/ timer \/ checks >= MaxRechecks

\* What loadInitial has found (g) of n.
Found(h, v, d, n, g) ==
  /\ g \in 1..v /\ h[g].name = n
  /\ \A j \in 1..v : h[j].uid = h[g].uid /\ h[j].gone => j \in d

FoundPod(h, v, d, n, g, asked, sure, absent) ==
  LET o == At(h, n, v) IN
  /\ o # 0 => o \in d \/ (~asked /\ g = o)
  /\ ~asked /\ sure /\ ~absent => Found(h, v, d, n, g)

FoundMatch(h, v, d, n, g, sure) ==
  LET o == At(h, n, v) IN
  /\ o # 0 => o \in d \/ g = o \/ ~sure
  /\ g # 0 => Found(h, v, d, n, g) /\ (o # 0 => o \in d \/ g = o)

QuietInv ==
  /\ ~subscribed /\ ~leased /\ ~jobTimer
  /\ \A n \in Names : ~session.pods[n].timer /\ ~session.pods[n].request
  /\ IF await = "" THEN session.queue = <<>> ELSE Len(session.queue) = 1

-----------------------------------------------------------------------------
(* Sequences                                                               *)

LEMMA AppendIs ==
  ASSUME NEW S, NEW s \in Seq(S), NEW x \in S
  PROVE  /\ Append(s, x) \in Seq(S) /\ Len(Append(s, x)) = Len(s) + 1 /\ Len(s) \in Nat
         /\ \A k \in DOMAIN s : Append(s, x)[k] = s[k]
         /\ Append(s, x)[Len(s) + 1] = x
         /\ DOMAIN Append(s, x) = DOMAIN s \cup {Len(s) + 1}
<1>1. /\ Append(s, x) \in Seq(S) /\ Len(Append(s, x)) = Len(s) + 1
      /\ Append(s, x)[Len(s) + 1] = x
  OBVIOUS
<1>2. \A k \in DOMAIN s : Append(s, x)[k] = s[k]
  OBVIOUS
<1>3. DOMAIN Append(s, x) = 1..(Len(s) + 1) /\ DOMAIN s = 1..Len(s) /\ Len(s) \in Nat
  OBVIOUS
<1> QED
  BY <1>1, <1>2, <1>3

LEMMA TailIs ==
  ASSUME NEW S, NEW s \in Seq(S), s # <<>>
  PROVE  /\ 1 \in DOMAIN s /\ s[1] = Head(s) /\ Head(s) \in S /\ Tail(s) \in Seq(S)
         /\ \A i \in DOMAIN Tail(s) : i \in Nat \ {0} /\ i + 1 \in DOMAIN s /\ Tail(s)[i] = s[i + 1]
         /\ \A j \in DOMAIN s : /\ j \in Nat \ {0}
                                /\ j # 1 => j - 1 \in DOMAIN Tail(s) /\ Tail(s)[j - 1] = s[j]
<1>1. /\ Len(s) \in Nat \ {0} /\ DOMAIN s = 1..Len(s) /\ s[1] = Head(s) /\ Head(s) \in S
      /\ Len(Tail(s)) = Len(s) - 1 /\ DOMAIN Tail(s) = 1..(Len(s) - 1) /\ Tail(s) \in Seq(S)
  OBVIOUS
<1>2. \A i \in DOMAIN Tail(s) : Tail(s)[i] = s[i + 1]
  OBVIOUS
<1>3. \A j \in DOMAIN s : j # 1 => j - 1 \in DOMAIN Tail(s) /\ Tail(s)[j - 1] = s[j]
  BY <1>1, <1>2
<1> QED
  BY <1>1, <1>2, <1>3

-----------------------------------------------------------------------------
(* Induction, and what is defined step by step                             *)

Less == {p \in Nat \X Nat : p[1] < p[2]}

LEMMA NatSetInduction ==
  ASSUME NEW T, 0 \in T, \A n \in Nat : n \in T => n + 1 \in T
  PROVE  Nat \subseteq T
<1> SUFFICES ASSUME Nat \ T # {} PROVE FALSE
  OBVIOUS
<1>1. Less = OpToRel(<, Nat)
  BY DEF Less, OpToRel
<1>2. IsWellFoundedOn(Less, Nat)
  BY <1>1, NatLessThanWellFounded
<1>3. PICK x \in Nat \ T : \A y \in Nat \ T : ~ (<<y, x>> \in Less)
  BY <1>2, WFMin
<1>4. x # 0 /\ x - 1 \in Nat
  BY <1>3
<1>5. <<x - 1, x>> \in Less
  BY <1>4 DEF Less
<1>6. x - 1 \in T
  BY <1>3, <1>4, <1>5
<1> QED
  BY <1>4, <1>6

LEMMA UpTo ==
  ASSUME NEW T, NEW N \in Nat, 0 \in T, \A n \in 1..N : n - 1 \in T => n \in T
  PROVE  \A n \in 0..N : n \in T
<1> DEFINE U == {n \in Nat : n <= N => n \in T}
<1>1. 0 \in U
  OBVIOUS
<1>2. ASSUME NEW n \in Nat, n \in U PROVE n + 1 \in U
  <2> SUFFICES ASSUME n + 1 <= N PROVE n + 1 \in T
    OBVIOUS
  <2>1. n + 1 \in 1..N /\ (n + 1) - 1 \in T
    BY <1>2
  <2> QED
    BY <2>1
<1> HIDE DEF U
<1>3. Nat \subseteq U
  BY <1>1, <1>2, NatSetInduction
<1> QED
  BY <1>3 DEF U

\* Something starts with c and goes these steps.
Steps(S, c, N, step) == \E f \in [0..N -> S] : f[0] = c /\ \A n \in 1..N : f[n] = step[n][f[n - 1]]

LEMMA StepsExist ==
  ASSUME NEW S, NEW c \in S, NEW N \in Nat, NEW step \in [1..N -> [S -> S]]
  PROVE  Steps(S, c, N, step)
<1> DEFINE T == {m \in Nat :
             m <= N => \E f \in [0..m -> S] : f[0] = c /\ \A n \in 1..m : f[n] = step[n][f[n - 1]]}
<1>1. 0 \in T
  <2>1. [n \in 0..0 |-> c] \in [0..0 -> S] /\ [n \in 0..0 |-> c][0] = c
    OBVIOUS
  <2>2. 1..0 = {}
    OBVIOUS
  <2> QED
    BY <2>1, <2>2
<1>2. ASSUME NEW m \in Nat, m \in T PROVE m + 1 \in T
  <2> SUFFICES ASSUME m + 1 <= N
               PROVE  \E g \in [0..(m + 1) -> S] :
                        g[0] = c /\ \A n \in 1..(m + 1) : g[n] = step[n][g[n - 1]]
    BY <1>2
  <2>1. PICK f \in [0..m -> S] : f[0] = c /\ \A n \in 1..m : f[n] = step[n][f[n - 1]]
    BY <1>2
  <2> DEFINE g == [n \in 0..(m + 1) |-> IF n = m + 1 THEN step[m + 1][f[m]] ELSE f[n]]
  <2>2. step[m + 1] \in [S -> S] /\ f[m] \in S
    BY <2>1
  <2>3. g \in [0..(m + 1) -> S]
    BY <2>1, <2>2
  <2>4. g[0] = c
    BY <2>1
  <2>5. ASSUME NEW n \in 1..(m + 1) PROVE g[n] = step[n][g[n - 1]]
    <3>1. CASE n = m + 1
      BY <3>1
    <3>2. CASE n # m + 1
      <4>1. n \in 1..m /\ n - 1 \in 0..m /\ n - 1 # m + 1
        BY <3>2
      <4> QED
        BY <2>1, <3>2, <4>1
    <3> QED
      BY <3>1, <3>2
  <2> QED
    BY <2>3, <2>4, <2>5
<1> HIDE DEF T
<1>3. N \in T
  BY <1>1, <1>2, NatSetInduction
<1> QED
  BY <1>3 DEF T, Steps

\* x has what the first k of s have at P, each where f says.
PickedTo(s, P, k, x, f) ==
  /\ f \in [DOMAIN x -> DOMAIN s \cap P \cap 1..k]
  /\ \A i \in DOMAIN x : x[i] = s[f[i]]
  /\ \A i, j \in DOMAIN x : i < j => f[i] < f[j]
  /\ \A m \in DOMAIN s \cap P \cap 1..k : \E i \in DOMAIN x : f[i] = m

LEMMA PickedSteps ==
  ASSUME NEW S, NEW s \in Seq(S), NEW P
  PROVE  \E f : /\ f[0] = <<>> /\ Picked(s, P) = f[Len(s)]
                /\ \A n \in 1..Len(s) : f[n] = IF n \in P THEN Append(f[n - 1], s[n]) ELSE f[n - 1]
<1> DEFINE N == Len(s)
           Q == Seq(S)
           Body(f) == [n \in 0..N |-> IF n = 0 THEN <<>>
                                      ELSE IF n \in P THEN Append(f[n - 1], s[n]) ELSE f[n - 1]]
           F == CHOOSE f : f = Body(f)
           step == [n \in 1..N |-> [x \in Q |-> IF n \in P THEN Append(x, s[n]) ELSE x]]
<1>1. Picked(s, P) = F[N]
  BY DEF Picked
<1>2. N \in Nat /\ DOMAIN s = 1..N /\ <<>> \in Q
  OBVIOUS
<1>3. \A n \in 1..N, x \in Q : (IF n \in P THEN Append(x, s[n]) ELSE x) \in Q
  BY <1>2
<1>4. step \in [1..N -> [Q -> Q]]
  BY <1>3
<1>5. \A n \in 1..N, x \in Q : step[n][x] = IF n \in P THEN Append(x, s[n]) ELSE x
  OBVIOUS
<1> DEFINE none == <<>>
<1>50. none \in Q
  BY <1>2
<1> HIDE DEF N, Q, step, none
<1>51. none \in Q /\ N \in Nat /\ step \in [1..N -> [Q -> Q]]
  BY <1>2, <1>4, <1>50
<1>52. Steps(Q, none, N, step)
  BY ONLY <1>51, StepsExist
<1>6. PICK f \in [0..N -> Q] : f[0] = none /\ \A n \in 1..N : f[n] = step[n][f[n - 1]]
  BY <1>52 DEF Steps
<1> USE DEF none
<1>7. \A n \in 1..N : n - 1 \in 0..N
  BY <1>2
<1>8. \A n \in 1..N : f[n] = IF n \in P THEN Append(f[n - 1], s[n]) ELSE f[n - 1]
  BY <1>5, <1>6, <1>7
<1>9. f = Body(f)
  <2>1. \A n \in 0..N : n # 0 => n \in 1..N
    BY <1>2
  <2> QED
    BY <1>6, <1>8, <2>1
<1> HIDE DEF Body
<1>10. F = Body(F)
  BY <1>9
<1> HIDE DEF F
<1>11. F[0] = <<>> /\ \A n \in 1..N : F[n] = IF n \in P THEN Append(F[n - 1], s[n]) ELSE F[n - 1]
  <2>1. 0 \in 0..N /\ \A n \in 1..N : n \in 0..N /\ n # 0
    BY <1>2
  <2> QED
    BY <1>10, <2>1 DEF Body
<1> QED
  BY <1>1, <1>11 DEF N

LEMMA PickedIs ==
  ASSUME NEW S, NEW s \in Seq(S), NEW P
  PROVE  /\ Picked(s, P) \in Seq(S)
         /\ \E f : PickedTo(s, P, Len(s), Picked(s, P), f)
<1>1. PICK p : /\ p[0] = <<>> /\ Picked(s, P) = p[Len(s)]
               /\ \A n \in 1..Len(s) : p[n] = IF n \in P THEN Append(p[n - 1], s[n]) ELSE p[n - 1]
  BY PickedSteps
<1> DEFINE N == Len(s)
           T == {k \in Nat : p[k] \in Seq(S) /\ \E f : PickedTo(s, P, k, p[k], f)}
<1>2. N \in Nat /\ DOMAIN s = 1..N /\ \A k \in 1..N : s[k] \in S
  OBVIOUS
<1>3. 0 \in T
  <2>1. p[0] = <<>> /\ DOMAIN p[0] = {} /\ 1..0 = {}
    BY <1>1
  <2>2. PickedTo(s, P, 0, p[0], <<>>)
    BY <2>1 DEF PickedTo
  <2>3. p[0] \in Seq(S)
    BY <2>1
  <2>4. \E f : PickedTo(s, P, 0, p[0], f)
    BY <2>2
  <2> QED
    BY <2>3, <2>4
<1>4. ASSUME NEW n \in 1..N, n - 1 \in T
      PROVE  n \in T
  <2>1. n \in Nat /\ n - 1 \in Nat /\ n \in DOMAIN s
    BY <1>2
  <2>2. PICK f : PickedTo(s, P, n - 1, p[n - 1], f)
    BY <1>4
  <2> DEFINE x == p[n - 1]
             y == p[n]
  <2>3. x \in Seq(S)
    BY <1>4
  <2>4. y = IF n \in P THEN Append(x, s[n]) ELSE x
    BY <1>1
  <2>5. 1..n = 1..(n - 1) \cup {n}
    BY <2>1
  <2> HIDE DEF x, y
  <2>6. CASE n \notin P
    <3>1. DOMAIN s \cap P \cap 1..n = DOMAIN s \cap P \cap 1..(n - 1)
      BY <2>5, <2>6
    <3>2. PickedTo(s, P, n, x, f)
      BY <2>2, <3>1 DEF PickedTo, x
    <3> QED
      BY <2>1, <2>3, <2>4, <2>6, <3>2 DEF y
  <2>7. CASE n \in P
    <3> DEFINE L == Len(x)
               g == [i \in 1..(L + 1) |-> IF i = L + 1 THEN n ELSE f[i]]
               D == DOMAIN s \cap P \cap 1..n
    <3>1. /\ y \in Seq(S) /\ L \in Nat /\ DOMAIN x = 1..L /\ DOMAIN y = 1..(L + 1)
          /\ y[L + 1] = s[n] /\ \A i \in 1..L : y[i] = x[i]
      <4>1. y = Append(x, s[n]) /\ s[n] \in S
        BY <1>2, <2>4, <2>7
      <4> QED
        BY <2>3, <4>1
    <3>2. /\ f \in [1..L -> DOMAIN s \cap P \cap 1..(n - 1)]
          /\ \A i \in 1..L : x[i] = s[f[i]]
          /\ \A i, j \in 1..L : i < j => f[i] < f[j]
          /\ \A m \in DOMAIN s \cap P \cap 1..(n - 1) : \E i \in 1..L : f[i] = m
      BY <2>2, <3>1 DEF PickedTo, x
    <3>3. \A i \in 1..L : f[i] \in D /\ f[i] < n /\ i \in 1..(L + 1) /\ i # L + 1
      <4>1. \A i \in 1..L : f[i] \in DOMAIN s \cap P \cap 1..(n - 1)
        BY <3>2
      <4>2. \A m \in 1..(n - 1) : m < n /\ m \in 1..n
        BY <2>1
      <4>3. \A i \in 1..L : i \in 1..(L + 1) /\ i # L + 1
        BY <3>1
      <4> QED
        BY <4>1, <4>2, <4>3
    <3>4. g[L + 1] = n /\ (\A i \in 1..L : g[i] = f[i]) /\ n \in D
      BY <2>1, <2>5, <2>7, <3>1, <3>3
    <3>5. \A i \in 1..(L + 1) : i = L + 1 \/ i \in 1..L
      BY <3>1
    <3>6. g \in [1..(L + 1) -> D]
      BY <3>3, <3>4, <3>5
    <3>7. \A i \in 1..(L + 1) : y[i] = s[g[i]]
      BY <3>1, <3>2, <3>4, <3>5
    <3>8. ASSUME NEW i \in 1..(L + 1), NEW j \in 1..(L + 1), i < j
          PROVE  g[i] < g[j]
      <4>1. i \in 1..L
        BY <3>1, <3>8
      <4> QED
        BY <3>2, <3>3, <3>4, <3>5, <3>8, <4>1
    <3>9. ASSUME NEW m \in D
          PROVE  \E i \in 1..(L + 1) : g[i] = m
      <4>1. CASE m = n
        BY <3>1, <3>4, <4>1
      <4>2. CASE m # n
        <5>1. m \in DOMAIN s \cap P \cap 1..(n - 1)
          BY <2>5, <4>2
        <5>2. PICK i \in 1..L : f[i] = m
          BY <3>2, <5>1
        <5> QED
          BY <3>3, <3>4, <5>2
      <4> QED
        BY <4>1, <4>2
    <3> HIDE DEF g, L
    <3>10. PickedTo(s, P, n, y, g)
      BY <3>1, <3>6, <3>7, <3>8, <3>9 DEF PickedTo
    <3> QED
      BY <2>1, <3>1, <3>10 DEF y
  <2> QED
    BY <2>6, <2>7
<1> HIDE DEF T
<1>5. \A n \in 0..N : n \in T
  BY <1>2, <1>3, <1>4, UpTo
<1>6. N \in T
  BY <1>2, <1>5
<1> QED
  BY <1>1, <1>6 DEF T

-----------------------------------------------------------------------------
(* The history                                                             *)

LEMMA MaxIs ==
  ASSUME NEW q \in Nat, NEW S, S \subseteq 1..q, S # {}
  PROVE  Max(S) \in S /\ \A i \in S : i <= Max(S)
<1> DEFINE T == {m \in Nat : \A R \in SUBSET (1..m) : R # {} => \E x \in R : \A y \in R : x >= y}
<1>1. 0 \in T
  <2>1. 1..0 = {}
    OBVIOUS
  <2> QED
    BY <2>1
<1>2. ASSUME NEW m \in Nat, m \in T
      PROVE  m + 1 \in T
  <2> SUFFICES ASSUME NEW R \in SUBSET (1..(m + 1)), R # {}
               PROVE  \E x \in R : \A y \in R : x >= y
    OBVIOUS
  <2>1. CASE m + 1 \in R
    BY <2>1
  <2>2. CASE m + 1 \notin R
    <3>1. R \in SUBSET (1..m)
      BY <2>2
    <3> QED
      BY <1>2, <3>1
  <2> QED
    BY <2>1, <2>2
<1> HIDE DEF T
<1>3. q \in T
  BY <1>1, <1>2, NatSetInduction
<1>4. \E x \in S : \A y \in S : x >= y
  BY <1>3 DEF T
<1>5. Max(S) \in S /\ \A y \in S : Max(S) >= y
  BY <1>4 DEF Max
<1>6. \A y \in S : y \in Nat
  OBVIOUS
<1> QED
  BY <1>5, <1>6

LEMMA LatestIs ==
  ASSUME NEW h, NEW n, NEW q \in Nat
  PROVE  /\ Latest(h, n, q) \in 0..q
         /\ Latest(h, n, q) # 0 => h[Latest(h, n, q)].name = n
         /\ \A i \in 1..q : h[i].name = n => i <= Latest(h, n, q) /\ Latest(h, n, q) # 0
<1> DEFINE S == {i \in 1..q : h[i].name = n}
<1>1. CASE S = {}
  <2>1. Latest(h, n, q) = 0
    BY <1>1 DEF Latest
  <2> QED
    BY <1>1, <2>1
<1>2. CASE S # {}
  <2>1. Latest(h, n, q) = Max(S)
    BY <1>2 DEF Latest
  <2>2. S \subseteq 1..q
    OBVIOUS
  <2>3. Max(S) \in S /\ \A i \in S : i <= Max(S)
    BY <1>2, <2>2, MaxIs
  <2> QED
    BY <2>1, <2>3
<1> QED
  BY <1>1, <1>2

LEMMA LatestBy ==
  ASSUME NEW h, NEW n, NEW q \in Nat, NEW l \in 1..q, h[l].name = n,
         \A i \in 1..q : h[i].name = n => i <= l
  PROVE  Latest(h, n, q) = l
<1>1. Latest(h, n, q) \in 1..q /\ h[Latest(h, n, q)].name = n /\ l <= Latest(h, n, q)
  BY LatestIs
<1>2. Latest(h, n, q) <= l
  BY <1>1
<1> QED
  BY <1>1, <1>2

\* Up to v only what is up to v counts.
LEMMA LatestKept ==
  ASSUME NEW h, NEW g, NEW n, NEW v \in Nat, NEW w \in Nat, v <= w,
         \A i \in 1..v : g[i] = h[i], \A i \in (v + 1)..w : g[i].name # n
  PROVE  Latest(g, n, w) = Latest(h, n, v)
<1> DEFINE l == Latest(h, n, v)
<1>1. l \in 0..v /\ (l # 0 => h[l].name = n) /\ \A i \in 1..v : h[i].name = n => i <= l /\ l # 0
  BY LatestIs
<1> HIDE DEF l
<1>2. \A i \in 1..w : g[i].name = n => i \in 1..v /\ h[i].name = n
  <2>1. \A i \in 1..w : i \in 1..v \/ i \in (v + 1)..w
    OBVIOUS
  <2> QED
    BY <2>1
<1>3. CASE l = 0
  <2>1. \A i \in 1..w : g[i].name # n
    BY <1>1, <1>2, <1>3
  <2>2. Latest(g, n, w) = 0
    BY <2>1, LatestIs
  <2> QED
    BY <1>3, <2>2 DEF l
<1>4. CASE l # 0
  <2>1. l \in 1..w /\ g[l].name = n /\ \A i \in 1..w : g[i].name = n => i <= l
    BY <1>1, <1>2, <1>4
  <2>2. Latest(g, n, w) = l
    BY <2>1, LatestBy
  <2> QED
    BY <2>2 DEF l
<1> QED
  BY <1>3, <1>4

LEMMA AtIs ==
  ASSUME NEW h, NEW n, NEW q \in Nat
  PROVE  /\ At(h, n, q) \in 0..q
         /\ At(h, n, q) # 0 => /\ At(h, n, q) = Latest(h, n, q) /\ h[At(h, n, q)].name = n
                               /\ ~h[At(h, n, q)].gone
                               /\ \A i \in 1..q : h[i].name = n => i <= At(h, n, q)
         /\ At(h, n, q) = 0 => Latest(h, n, q) = 0 \/ h[Latest(h, n, q)].gone
<1> DEFINE l == Latest(h, n, q)
<1>1. l \in 0..q /\ (l # 0 => h[l].name = n) /\ \A i \in 1..q : h[i].name = n => i <= l /\ l # 0
  BY LatestIs
<1>2. At(h, n, q) = IF l = 0 \/ h[l].gone THEN 0 ELSE l
  BY DEF At
<1> HIDE DEF l
<1>3. CASE l = 0 \/ h[l].gone
  BY <1>1, <1>2, <1>3 DEF l
<1>4. CASE ~(l = 0 \/ h[l].gone)
  BY <1>1, <1>2, <1>4 DEF l
<1> QED
  BY <1>3, <1>4

LEMMA AtKept ==
  ASSUME NEW h, NEW g, NEW n, NEW v \in Nat, NEW w \in Nat, v <= w,
         \A i \in 1..v : g[i] = h[i], \A i \in (v + 1)..w : g[i].name # n
  PROVE  At(g, n, w) = At(h, n, v)
<1>1. Latest(g, n, w) = Latest(h, n, v)
  BY LatestKept, SMTT(30)
<1>2. Latest(h, n, v) # 0 => g[Latest(h, n, v)] = h[Latest(h, n, v)]
  BY LatestIs
<1> QED
  BY <1>1, <1>2 DEF At

LEMMA CachedIs == \A n : Cached(n) = At(hist, n, seen)
BY DEF Cached, PodAt, LastAbout, At, Latest

LEMMA StoredIs == \A n : Stored(n) = At(hist, n, Len(hist))
BY DEF Stored, PodAt, LastAbout, At, Latest

\* Pods of a name come one after the other.
LEMMA Gone1 ==
  ASSUME NEW h, HistInv(h), NEW n, NEW v \in 0..Len(h), NEW i \in 1..v, h[i].name = n,
         At(h, n, v) = 0 \/ h[At(h, n, v)].uid # h[i].uid
  PROVE  \E j \in 1..v : h[j].uid = h[i].uid /\ h[j].gone
<1> DEFINE l == Latest(h, n, v)
<1>1. l \in 1..v /\ h[l].name = n /\ i <= l
  BY LatestIs
<1>2. At(h, n, v) # 0 => At(h, n, v) = l
  BY AtIs
<1>3. At(h, n, v) = 0 => h[l].gone
  BY <1>1, AtIs
<1> HIDE DEF l
<1>4. CASE h[l].uid = h[i].uid
  BY <1>1, <1>2, <1>3, <1>4
<1>5. CASE h[l].uid # h[i].uid
  <2>1. i < l /\ i \in DOMAIN h /\ l \in DOMAIN h
    BY <1>1, <1>5 DEF HistInv
  <2>2. PICK k \in i..(l - 1) : h[k].uid = h[i].uid /\ h[k].gone
    BY <1>1, <1>5, <2>1 DEF HistInv
  <2> QED
    BY <1>1, <2>2
<1> QED
  BY <1>4, <1>5

-----------------------------------------------------------------------------
(* Records                                                                 *)

Ctx == TypeOK /\ Len(hist) <= MaxVersions

LEMMA Bounds ==
  /\ MaxVersions \in Nat /\ MaxVersions # 0 /\ MaxFaults \in Nat /\ MaxRechecks \in Nat
  /\ \A n \in Names : n \in Nat /\ n # 0
  /\ 1 \in Names /\ 0 \notin Names
BY BoundsAssumption, NamesAssumption

LEMMA TaskIs ==
  ASSUME NEW t \in Task
  PROVE  /\ t.name \in Names \cup {0} /\ t.deltas \in Seq(1..MaxVersions)
         /\ t.notFound \in BOOLEAN
BY DEF Task

LEMMA CtxIs ==
  ASSUME Ctx
  PROVE  /\ hist \in Seq(Pod) /\ Len(hist) \in Nat /\ Len(hist) <= MaxVersions
         /\ DOMAIN hist = 1..Len(hist)
         /\ seen \in 0..Len(hist) /\ got \in [Names -> 0..Len(hist)]
         /\ target \in {"pods", "deployment", "job"} /\ follow \in BOOLEAN /\ live \in BOOLEAN
         /\ disposed \in BOOLEAN /\ session \in Session
         /\ need \subseteq Names /\ missing \subseteq Names /\ unsure \subseteq Names
<1>1. /\ hist \in Seq(Pod) /\ seen \in 0..Len(hist) /\ Len(hist) <= MaxVersions
      /\ got \in [Names -> 0..Len(hist)] /\ session \in Session
      /\ need \subseteq Names /\ missing \subseteq Names /\ unsure \subseteq Names
  BY DEF Ctx, TypeOK, PodTypeOK
<1>2. /\ target \in {"pods", "deployment", "job"} /\ follow \in BOOLEAN /\ live \in BOOLEAN
      /\ disposed \in BOOLEAN
  BY DEF Ctx, TypeOK
<1>3. DOMAIN hist = 1..Len(hist) /\ Len(hist) \in Nat
  BY <1>1
<1> QED
  BY <1>1, <1>2, <1>3

LEMMA PodIs ==
  ASSUME Ctx, NEW o \in 1..Len(hist)
  PROVE  /\ hist[o] \in Pod /\ hist[o].name \in Names /\ hist[o].uid \in 1..MaxVersions
         /\ hist[o].run \in 0..MaxVersions /\ hist[o].gone \in BOOLEAN
         /\ hist[o].term \in BOOLEAN /\ hist[o].fin \in BOOLEAN
         /\ hist[o].st \in {"none", "running", "exited", "backoff"}
<1>1. hist[o] \in Pod
  BY CtxIs
<1> QED
  BY <1>1 DEF Pod

LEMMA RunIs ==
  ASSUME Ctx, NEW o \in 0..Len(hist)
  PROVE  /\ RunId(o) \in 0..MaxVersions
         /\ Terminating(o) \in BOOLEAN /\ Waiting(o) \in BOOLEAN /\ Running(o) \in BOOLEAN
         /\ Finished(o) \in BOOLEAN
<1>1. CASE o = 0
  BY <1>1, Bounds DEF RunId, Terminating, Waiting, Running, Finished
<1>2. CASE o # 0
  <2>1. o \in 1..Len(hist)
    BY <1>2, CtxIs
  <2> QED
    BY <1>2, <2>1, PodIs DEF RunId, Terminating, Waiting, Running, Finished
<1> QED
  BY <1>1, <1>2

LEMMA CachedType ==
  ASSUME Ctx, NEW n \in Names
  PROVE  /\ Cached(n) \in 0..seen /\ Cached(n) \in 0..Len(hist) /\ Stored(n) \in 0..Len(hist)
         /\ Feed(n) \in 0..Len(hist)
<1>1. seen \in Nat /\ Len(hist) \in Nat /\ seen <= Len(hist)
  BY CtxIs
<1>2. Cached(n) \in 0..seen /\ Stored(n) \in 0..Len(hist)
  BY <1>1, CachedIs, StoredIs, AtIs
<1>3. Cached(n) \in 0..Len(hist)
  BY <1>1, <1>2
<1> QED
  BY <1>2, <1>3, CtxIs DEF Feed

LEMMA EntryIs ==
  ASSUME NEW e \in Entry
  PROVE  /\ e.known \in BOOLEAN /\ e.uid \in 0..MaxVersions /\ e.left \in BOOLEAN
         /\ e.term \in BOOLEAN /\ e.run \in 0..MaxVersions /\ e.timer \in BOOLEAN
         /\ e.request \in BOOLEAN
         /\ e.state \in {"pending", "waiting", "streaming", "grace", "ended"}
BY DEF Entry

LEMMA UnknownIs ==
  /\ Unknown \in Entry /\ ~Unknown.known /\ Unknown.uid = 0 /\ ~Unknown.left /\ ~Unknown.term
  /\ Unknown.state = "ended" /\ Unknown.run = 0 /\ ~Unknown.timer /\ ~Unknown.request
BY Bounds DEF Unknown, Entry

\* How an entry may become another.
LEMMA RestsIs ==
  ASSUME NEW e \in Entry, NEW state \in {"pending", "waiting", "streaming", "grace", "ended"}
  PROVE  LET r == Rests(e, state) IN
         /\ r \in Entry /\ r.state = state /\ ~r.timer /\ r.known = e.known /\ r.uid = e.uid
         /\ r.left = e.left /\ r.term = e.term /\ r.run = e.run /\ r.request = e.request
BY DEF Rests, Entry

LEMMA StartStreamIs ==
  ASSUME NEW e \in Entry, NEW run \in 0..MaxVersions
  PROVE  LET r == StartStream(e, run) IN
         /\ r \in Entry /\ r.state = "streaming" /\ ~r.timer /\ r.known = e.known /\ r.uid = e.uid
         /\ r.left = e.left /\ r.term = e.term /\ r.run = run /\ r.request
BY DEF StartStream, Entry

LEMMA GraceIs ==
  ASSUME NEW e \in Entry
  PROVE  LET r == [e EXCEPT !.state = "grace", !.timer = TRUE] IN
         /\ r \in Entry /\ r.state = "grace" /\ r.timer /\ r.known = e.known /\ r.uid = e.uid
         /\ r.left = e.left /\ r.term = e.term /\ r.run = e.run /\ r.request = e.request
BY DEF Entry

LEMMA GoneIs ==
  ASSUME NEW e \in Entry
  PROVE  LET r == Gone(e) IN
         /\ r \in Entry /\ r.state = "ended" /\ ~r.timer /\ r.known = e.known /\ r.uid = e.uid
         /\ r.left /\ r.term = e.term /\ r.run = e.run /\ ~r.request
BY DEF Gone, Rests, Entry

LEMMA StateIs ==
  ASSUME NEW e \in Entry, NEW state \in {"pending", "waiting", "streaming", "grace", "ended"}
  PROVE  LET r == [e EXCEPT !.state = state] IN
         /\ r \in Entry /\ r.state = state /\ r.timer = e.timer /\ r.known = e.known
         /\ r.uid = e.uid /\ r.left = e.left /\ r.term = e.term /\ r.run = e.run
         /\ r.request = e.request
BY DEF Entry

LEMMA TermIs ==
  ASSUME NEW e \in Entry
  PROVE  LET r == [e EXCEPT !.term = TRUE] IN
         /\ r \in Entry /\ r.state = e.state /\ r.timer = e.timer /\ r.known = e.known
         /\ r.uid = e.uid /\ r.left = e.left /\ r.term /\ r.run = e.run
         /\ r.request = e.request
BY DEF Entry

\* What advance makes of an entry, by cases.
Advanced(e, o, r) ==
  \/ ~Live /\ e.state = "pending" /\ r = StartStream(e, 0)
  \/ ~Live /\ e.state # "pending" /\ r = e
  \/ Live /\ RunId(o) \notin {0, e.run} /\ r = StartStream(e, RunId(o))
  \/ /\ Live /\ RunId(o) \in {0, e.run}
     /\ \/ Terminating(o) /\ r = Rests(e, "ended")
        \/ ~Terminating(o) /\ Waiting(o) /\ r = Rests(e, "waiting")
        \/ ~Terminating(o) /\ Running(o) /\ e.state = "grace" /\ r = e
        \/ /\ ~Terminating(o) /\ Running(o) /\ e.state # "grace"
           /\ r = [e EXCEPT !.state = "grace", !.timer = TRUE]
        \/ ~Terminating(o) /\ ~Waiting(o) /\ ~Running(o) /\ r = Rests(e, "ended")

LEMMA AdvanceIs ==
  ASSUME Ctx, NEW e \in Entry, NEW o \in 0..Len(hist)
  PROVE  /\ Advance(e, o) \in Entry
         /\ disposed \/ e.left \/ e.state = "streaming" => Advance(e, o) = e
         /\ ~(disposed \/ e.left \/ e.state = "streaming") => Advanced(e, o, Advance(e, o))
<1>1. CASE disposed \/ e.left \/ e.state = "streaming"
  BY <1>1 DEF Advance
<1>2. CASE ~(disposed \/ e.left \/ e.state = "streaming")
  <2>1. RunId(o) \in 0..MaxVersions /\ Live \in BOOLEAN /\ ~(Waiting(o) /\ Running(o))
        /\ Terminating(o) \in BOOLEAN /\ Waiting(o) \in BOOLEAN /\ Running(o) \in BOOLEAN
    BY RunIs, CtxIs DEF Live, Waiting, Running
  <2> DEFINE inner == CASE Terminating(o) -> Rests(e, "ended")
                        [] ~Terminating(o) /\ Waiting(o) -> Rests(e, "waiting")
                        [] ~Terminating(o) /\ Running(o) ->
                             IF e.state = "grace" THEN e
                             ELSE [e EXCEPT !.state = "grace", !.timer = TRUE]
                        [] OTHER -> Rests(e, "ended")
  <2>2. Advance(e, o) = CASE ~Live /\ e.state = "pending" -> StartStream(e, 0)
                          [] ~Live /\ e.state # "pending" -> e
                          [] Live /\ RunId(o) \notin {0, e.run} -> StartStream(e, RunId(o))
                          [] OTHER -> inner
    BY <1>2 DEF Advance
  <2>3. inner = IF Terminating(o) THEN Rests(e, "ended")
                ELSE IF Waiting(o) THEN Rests(e, "waiting")
                ELSE IF Running(o)
                     THEN IF e.state = "grace" THEN e
                          ELSE [e EXCEPT !.state = "grace", !.timer = TRUE]
                ELSE Rests(e, "ended")
    BY <2>1
  <2> HIDE DEF inner
  <2>4. Advance(e, o) = IF ~Live THEN IF e.state = "pending" THEN StartStream(e, 0) ELSE e
                        ELSE IF RunId(o) \notin {0, e.run} THEN StartStream(e, RunId(o))
                        ELSE inner
    BY <2>1, <2>2
  <2>5. Advanced(e, o, Advance(e, o))
    BY <2>1, <2>3, <2>4 DEF Advanced
  <2>6. Advance(e, o) \in Entry
    <3>1. 0 \in 0..MaxVersions
      BY Bounds
    <3> HIDE DEF inner
    <3>2. /\ Rests(e, "ended") \in Entry /\ Rests(e, "waiting") \in Entry
          /\ StartStream(e, 0) \in Entry /\ StartStream(e, RunId(o)) \in Entry
          /\ [e EXCEPT !.state = "grace", !.timer = TRUE] \in Entry
      BY <2>1, <3>1, RestsIs, StartStreamIs, GraceIs
    <3> QED
      BY <2>3, <2>4, <3>2
  <2> QED
    BY <1>2, <2>5, <2>6
<1> QED
  BY <1>1, <1>2

LEMMA AddedIs ==
  ASSUME Ctx, NEW o \in 0..Len(hist)
  PROVE  LET e == [Unknown EXCEPT !.known = TRUE, !.state = "pending",
                      !.uid = IF o = 0 THEN 0 ELSE hist[o].uid, !.term = Terminating(o)]
         IN /\ e \in Entry /\ Added(o) = Advance(e, o) /\ Added(o) \in Entry
            /\ e.known /\ e.state = "pending" /\ e.uid = (IF o = 0 THEN 0 ELSE hist[o].uid)
            /\ e.run = 0 /\ ~e.left /\ ~e.timer /\ ~e.request
<1> DEFINE uid == IF o = 0 THEN 0 ELSE hist[o].uid
           e == [Unknown EXCEPT !.known = TRUE, !.state = "pending", !.uid = uid,
                                !.term = Terminating(o)]
<1>1. uid \in 0..MaxVersions /\ Terminating(o) \in BOOLEAN
  <2>1. o # 0 => o \in 1..Len(hist)
    BY CtxIs
  <2> QED
    BY <2>1, PodIs, RunIs, Bounds
<1> HIDE DEF uid
<1>2. e \in Entry /\ e.known /\ e.state = "pending" /\ e.uid = uid /\ e.run = 0 /\ ~e.left
      /\ ~e.timer /\ ~e.request
  BY <1>1, UnknownIs DEF Entry
<1>3. Added(o) = Advance(e, o)
  BY DEF Added, uid
<1> HIDE DEF e
<1>4. Added(o) \in Entry
  BY <1>2, <1>3, AdvanceIs
<1> QED
  BY <1>2, <1>3, <1>4 DEF e, uid

-----------------------------------------------------------------------------
(* Queues                                                                  *)

FinishTask == Do("finishIfJobDone", 0, <<>>, FALSE)

LEMMA EmptyDeltas == <<>> \in Seq(1..MaxVersions)
OBVIOUS

LEMMA FinishTaskIs ==
  /\ FinishTask \in Task /\ FinishTask.op = "finishIfJobDone" /\ FinishTask.name = 0
  /\ FinishTask.deltas = <<>> /\ FinishTask.notFound = FALSE
<1>1. 0 \in Names \cup {0} /\ FALSE \in BOOLEAN
  OBVIOUS
<1> QED
  BY <1>1, EmptyDeltas DEF FinishTask, Do, Task

LEMMA RangeIs ==
  ASSUME NEW S, NEW q \in Seq(S)
  PROVE  /\ DOMAIN q = 1..Len(q) /\ Len(q) \in Nat
         /\ \A k \in DOMAIN q : q[k] \in S /\ q[k] \in Range(q)
         /\ \A x \in Range(q) : x \in S /\ \E k \in DOMAIN q : q[k] = x
<1>1. DOMAIN q = 1..Len(q) /\ Len(q) \in Nat /\ \A k \in DOMAIN q : q[k] \in S
  OBVIOUS
<1> QED
  BY <1>1 DEF Range

LEMMA ToldIs ==
  ASSUME NEW q
  PROVE  \A o : o \in Told(q) <=> \E t \in Range(q) : o \in Range(t.deltas)
BY DEF Told

LEMMA NoDeltas == Range(<<>>) = {} /\ Told(<<>>) = {}
BY DEF Range, Told

\* Tasks named in D are dropped, and nothing is added but the look at the job.
Kept(q, r, D) ==
  /\ r \in Seq(Task)
  /\ \A t \in Range(q) : t.name \notin D => t \in Range(r)
  /\ \A t \in Range(r) : (t \in Range(q) /\ t.name \notin D) \/ t = FinishTask
  /\ OrderInv(hist, seen, q) => OrderInv(hist, seen, r)
  /\ q # <<>> /\ Head(q).name \notin D => r # <<>> /\ Head(r) = Head(q)

LEMMA KeptSelf ==
  ASSUME NEW q \in Seq(Task)
  PROVE  Kept(q, q, {})
BY DEF Kept

\* A task without deltas at the end.
LEMMA PushOrder ==
  ASSUME NEW q \in Seq(Task), NEW t \in Task, t.deltas = <<>>, NEW h, NEW v, OrderInv(h, v, q)
  PROVE  OrderInv(h, v, Append(q, t))
<1> DEFINE r == Append(q, t)
           L == Len(q) + 1
<1>1. /\ \A k \in DOMAIN q : r[k] = q[k]
      /\ r[L] = t
      /\ DOMAIN r = DOMAIN q \cup {L}
  BY AppendIs
<1>2. Range(t.deltas) = {} /\ DOMAIN t.deltas = {}
  BY NoDeltas
<1>3. Told(r) \subseteq Told(q)
  <2>1. \A x \in Range(r) : x \in Range(q) \/ x = t
    BY <1>1 DEF Range
  <2> QED
    BY <1>2, <2>1 DEF Told
<1>4. \A k \in DOMAIN q : k < L /\ k \in Nat
  BY RangeIs
<1> HIDE DEF r, L
<1>5. Told(r) \subseteq 1..v
  BY <1>3 DEF OrderInv
<1>6. \A j, k \in DOMAIN r : j < k =>
        \A a \in Range(r[j].deltas), b \in Range(r[k].deltas) : a < b
  BY <1>1, <1>2 DEF OrderInv
<1>7. ASSUME NEW k \in DOMAIN r, NEW a \in DOMAIN r[k].deltas, NEW b \in DOMAIN r[k].deltas
      PROVE  LET i == r[k].deltas[a]
                 j == r[k].deltas[b]
             IN a < b => /\ i # j
                         /\ ~h[i].gone /\ ~h[j].gone => i < j
                         /\ h[i].gone /\ ~h[j].gone => h[i].uid # h[j].uid
  <2>1. k # L
    BY <1>1, <1>2
  <2>2. k \in DOMAIN q /\ r[k] = q[k]
    BY <1>1, <2>1
  <2> QED
    BY <2>2 DEF OrderInv
<1> QED
  BY <1>5, <1>6, <1>7 DEF OrderInv, r

LEMMA PushRange ==
  ASSUME NEW S, NEW q \in Seq(S), NEW t \in S
  PROVE  /\ Append(q, t) \in Seq(S) /\ Range(Append(q, t)) = Range(q) \cup {t}
         /\ q # <<>> => Head(Append(q, t)) = Head(q)
         /\ q = <<>> => Head(Append(q, t)) = t
         /\ Append(q, t) # <<>>
<1>1. /\ Append(q, t) \in Seq(S) /\ Len(Append(q, t)) = Len(q) + 1 /\ Len(q) \in Nat
      /\ \A k \in DOMAIN q : Append(q, t)[k] = q[k]
      /\ Append(q, t)[Len(q) + 1] = t
      /\ DOMAIN Append(q, t) = DOMAIN q \cup {Len(q) + 1}
  BY AppendIs
<1>2. Range(Append(q, t)) = Range(q) \cup {t}
  BY <1>1 DEF Range
<1>3. Append(q, t) # <<>> /\ Head(Append(q, t)) = Append(q, t)[1]
  BY <1>1
<1>4. q # <<>> => Head(q) = q[1] /\ 1 \in DOMAIN q
  OBVIOUS
<1>5. q = <<>> => Len(q) + 1 = 1
  OBVIOUS
<1> QED
  BY <1>1, <1>2, <1>3, <1>4, <1>5

LEMMA KeptFinish ==
  ASSUME NEW q \in Seq(Task)
  PROVE  Kept(q, Append(q, FinishTask), {})
<1>1. FinishTask \in Task /\ FinishTask.deltas = <<>>
  BY FinishTaskIs
<1>2. OrderInv(hist, seen, q) => OrderInv(hist, seen, Append(q, FinishTask))
  BY <1>1, PushOrder
<1>3. /\ Append(q, FinishTask) \in Seq(Task)
      /\ Range(Append(q, FinishTask)) = Range(q) \cup {FinishTask}
      /\ q # <<>> => Head(Append(q, FinishTask)) = Head(q)
      /\ Append(q, FinishTask) # <<>>
  BY <1>1, PushRange
<1> QED
  BY <1>2, <1>3 DEF Kept

LEMMA KeptPicked ==
  ASSUME NEW q \in Seq(Task), NEW n
  PROVE  Kept(q, Picked(q, {k \in DOMAIN q : q[k].name # n}), {n})
<1> DEFINE P == {k \in DOMAIN q : q[k].name # n}
           r == Picked(q, P)
<1>1. r \in Seq(Task) /\ \E f : PickedTo(q, P, Len(q), r, f)
  BY PickedIs
<1>2. PICK f : PickedTo(q, P, Len(q), r, f)
  BY <1>1
<1>3. DOMAIN q = 1..Len(q) /\ Len(q) \in Nat
  BY RangeIs
<1>4. DOMAIN q \cap P \cap 1..Len(q) = P
  BY <1>3
<1> HIDE DEF P, r
<1>5. /\ \A i \in DOMAIN r : f[i] \in P /\ r[i] = q[f[i]]
      /\ \A i, j \in DOMAIN r : i < j => f[i] < f[j]
      /\ \A m \in P : \E i \in DOMAIN r : f[i] = m
  BY <1>2, <1>4 DEF PickedTo
<1>6. \A k : k \in P <=> k \in DOMAIN q /\ q[k].name # n
  BY DEF P
<1>7. \A t \in Range(q) : t.name # n => t \in Range(r)
  BY <1>5, <1>6 DEF Range
<1>8. \A t \in Range(r) : t \in Range(q) /\ t.name # n
  BY <1>5, <1>6 DEF Range
<1>9. ASSUME OrderInv(hist, seen, q) PROVE OrderInv(hist, seen, r)
  <2>1. Told(r) \subseteq Told(q)
    BY <1>8 DEF Told
  <2>2. Told(r) \subseteq 1..seen
    BY <2>1, <1>9 DEF OrderInv
  <2>3. ASSUME NEW j \in DOMAIN r, NEW k \in DOMAIN r, j < k
        PROVE  \A a \in Range(r[j].deltas), b \in Range(r[k].deltas) : a < b
    <3>1. f[j] \in DOMAIN q /\ f[k] \in DOMAIN q /\ f[j] < f[k] /\ r[j] = q[f[j]] /\ r[k] = q[f[k]]
      BY <1>5, <1>6, <2>3
    <3> QED
      BY <3>1, <1>9 DEF OrderInv
  <2>4. ASSUME NEW k \in DOMAIN r, NEW a \in DOMAIN r[k].deltas, NEW b \in DOMAIN r[k].deltas
        PROVE  LET i == r[k].deltas[a]
                   j == r[k].deltas[b]
               IN a < b => /\ i # j
                           /\ ~hist[i].gone /\ ~hist[j].gone => i < j
                           /\ hist[i].gone /\ ~hist[j].gone => hist[i].uid # hist[j].uid
    <3>1. f[k] \in DOMAIN q /\ r[k] = q[f[k]]
      BY <1>5, <1>6
    <3> QED
      BY <3>1, <1>9 DEF OrderInv
  <2> QED
    BY <2>2, <2>3, <2>4 DEF OrderInv
<1>10. ASSUME q # <<>>, Head(q).name # n
       PROVE  r # <<>> /\ Head(r) = Head(q)
  <2>1. 1 \in DOMAIN q /\ Head(q) = q[1] /\ \A k \in DOMAIN q : k \in Nat /\ k >= 1
    BY <1>10, <1>3
  <2>2. 1 \in P
    BY <2>1, <1>6, <1>10
  <2>3. PICK i \in DOMAIN r : f[i] = 1
    BY <2>2, <1>5
  <2>4. r # <<>> /\ 1 \in DOMAIN r /\ Head(r) = r[1] /\ i \in Nat /\ i >= 1
    BY <2>3, <1>1 DEF r
  <2>5. f[1] \in DOMAIN q /\ r[1] = q[f[1]] /\ (1 < i => f[1] < f[i])
    BY <2>4, <1>5, <1>6
  <2>6. i = 1
    BY <2>1, <2>3, <2>4, <2>5
  <2> QED
    BY <2>1, <2>3, <2>4, <2>5, <2>6
<1> QED
  BY <1>1, <1>7, <1>8, <1>9, <1>10 DEF Kept, r, P

LEMMA KeptTwice ==
  ASSUME NEW q, NEW r, NEW s, NEW D, NEW E, 0 \notin E,
         Kept(q, r, D), Kept(r, s, E)
  PROVE  Kept(q, s, D \cup E)
<1>1. FinishTask.name = 0
  BY FinishTaskIs
<1>2. \A t \in Range(q) : t.name \notin D \cup E => t \in Range(s)
  BY DEF Kept
<1>3. ASSUME NEW t \in Range(s)
      PROVE  (t \in Range(q) /\ t.name \notin D \cup E) \/ t = FinishTask
  BY <1>1 DEF Kept
<1>4. q # <<>> /\ Head(q).name \notin D \cup E => s # <<>> /\ Head(s) = Head(q)
  BY DEF Kept
<1> QED
  BY <1>2, <1>3, <1>4 DEF Kept

\* What is kept is told as before.
LEMMA KeptTold ==
  ASSUME NEW q, NEW r, NEW D, D \subseteq Names, Kept(q, r, D), q \in Seq(Task),
         \A t \in Range(q) : Shaped(t)
  PROVE  Told(r) = Told(q) /\ \A t \in Range(r) : Shaped(t)
<1>1. FinishTask.op = "finishIfJobDone" /\ FinishTask.name = 0 /\ FinishTask.deltas = <<>>
  BY FinishTaskIs
<1>2. Shaped(FinishTask)
  BY <1>1 DEF Shaped
<1>3. ASSUME NEW o \in Told(q) PROVE o \in Told(r)
  <2>1. PICK t \in Range(q) : o \in Range(t.deltas)
    BY ToldIs
  <2>2. t.deltas # <<>>
    BY <2>1, NoDeltas
  <2>3. t.name = 0
    BY <2>2 DEF Shaped
  <2>4. t \in Range(r)
    BY <2>3, Bounds DEF Kept
  <2> QED
    BY <2>1, <2>4, ToldIs
<1>4. ASSUME NEW o \in Told(r) PROVE o \in Told(q)
  <2>1. PICK t \in Range(r) : o \in Range(t.deltas)
    BY ToldIs
  <2>2. t # FinishTask
    BY <2>1, <1>1, NoDeltas
  <2> QED
    BY <2>1, <2>2, ToldIs DEF Kept
<1> QED
  BY <1>2, <1>3, <1>4 DEF Kept

-----------------------------------------------------------------------------
(* Sessions                                                                *)

LEMMA SessionIs ==
  ASSUME NEW s \in Session
  PROVE  /\ s.pods \in [Names -> Entry] /\ s.queue \in Seq(Task) /\ s.ready \in BOOLEAN
         /\ s.finishing \in BOOLEAN /\ s.closed \in {"no", "over", "retry"}
         /\ s.jobChecks \in 0..MaxRechecks
         /\ \A n \in Names : s.pods[n] \in Entry
BY DEF Session

\* All but the entries and the queue.
Aside(s, r) ==
  r.ready = s.ready /\ r.finishing = s.finishing /\ r.closed = s.closed
  /\ r.jobChecks = s.jobChecks

\* r is s with another entry of n.
Puts(s, r, n, e) ==
  /\ r \in Session /\ Aside(s, r) /\ r.queue = s.queue
  /\ r.pods[n] = e /\ \A m \in Names : m # n => r.pods[m] = s.pods[m]

LEMMA PutIs ==
  ASSUME NEW s \in Session, NEW n \in Names, NEW e \in Entry
  PROVE  Puts(s, [s EXCEPT !.pods[n] = e], n, e)
<1> DEFINE r == [s EXCEPT !.pods[n] = e]
<1>1. r.pods = [s.pods EXCEPT ![n] = e] /\ s.pods \in [Names -> Entry]
  BY DEF Session
<1>2. r \in Session /\ Aside(s, r) /\ r.queue = s.queue
  BY DEF Session, Aside
<1>3. r.pods[n] = e /\ \A m \in Names : m # n => r.pods[m] = s.pods[m]
  BY <1>1
<1> QED
  BY <1>2, <1>3 DEF Puts

LEMMA QueueTo ==
  ASSUME NEW s \in Session, NEW q \in Seq(Task)
  PROVE  LET r == [s EXCEPT !.queue = q] IN
         r \in Session /\ Aside(s, r) /\ r.queue = q /\ r.pods = s.pods
BY DEF Session, Aside

LEMMA PushIs ==
  ASSUME NEW s \in Session, NEW t \in Task
  PROVE  LET r == Push(s, t) IN
         r \in Session /\ Aside(s, r) /\ r.queue = Append(s.queue, t) /\ r.pods = s.pods
<1> DEFINE q == Append(s.queue, t)
<1>1. q \in Seq(Task)
  BY SessionIs
<1>2. Push(s, t) = [s EXCEPT !.queue = q]
  BY DEF Push
<1>3. q = Append(s.queue, t)
  OBVIOUS
<1> HIDE DEF q
<1>4. LET r == [s EXCEPT !.queue = q] IN
      r \in Session /\ Aside(s, r) /\ r.queue = q /\ r.pods = s.pods
  BY <1>1, QueueTo
<1> QED
  BY <1>2, <1>3, <1>4

LEMMA CloseIs ==
  ASSUME NEW s \in Session, NEW how \in {"over", "retry"}
  PROVE  LET r == Close(s, how) IN
         /\ r \in Session /\ r.closed # "no" /\ r.queue = s.queue /\ r.pods = s.pods
         /\ r.ready = s.ready /\ r.finishing = s.finishing /\ r.jobChecks = s.jobChecks
         /\ s.closed # "no" => r.closed = s.closed
BY DEF Session, Close

LEMMA FinishIs ==
  ASSUME NEW s \in Session
  PROVE  LET r == Finish(s) IN
         /\ r \in Session /\ r.closed # "no" /\ r.queue = s.queue /\ r.pods = s.pods
         /\ r.ready = s.ready /\ r.finishing /\ r.jobChecks = s.jobChecks
         /\ s.closed # "no" => r.closed = s.closed
BY DEF Session, Finish, Close

-----------------------------------------------------------------------------
(* CheckDone                                                               *)

Busy(s) == \E n \in Active(s) : s.pods[n].state \in {"pending", "streaming", "grace"}
Holds(s) == \E n \in Active(s) : s.pods[n].state = "waiting" \/ ~Finished(Feed(n))

CheckedAs(s, r) ==
  \/ r = s /\ (~s.ready \/ disposed \/ s.finishing \/ Busy(s))
  \/ r = s /\ Live /\ (Holds(s) \/ target = "deployment")
  \/ r = Finish(s) /\ ~s.finishing /\ ~Busy(s) /\ (Live => target = "pods" /\ ~Holds(s))
  \/ r = Push(s, FinishTask) /\ Live /\ target = "job" /\ ~Busy(s) /\ ~Holds(s)

LEMMA CheckDoneAs ==
  ASSUME Ctx, NEW s \in Session
  PROVE  CheckedAs(s, CheckDone(s))
<1> DEFINE states == {s.pods[n].state : n \in Active(s)}
           r == CheckDone(s)
<1>1. states \cap {"pending", "streaming", "grace"} # {} <=> Busy(s)
  BY DEF Busy
<1>2. Holds(s) <=> "waiting" \in states \/ \E n \in Active(s) : ~Finished(Feed(n))
  BY DEF Holds
<1>3. target \in {"pods", "deployment", "job"}
  BY CtxIs
<1>4. r = IF ~s.ready \/ disposed \/ s.finishing \/ Busy(s) THEN s
          ELSE IF ~Live THEN Finish(s)
          ELSE IF Holds(s) THEN s
          ELSE IF target = "pods" THEN Finish(s)
          ELSE IF target = "job" THEN Push(s, FinishTask)
          ELSE s
  BY <1>1, <1>2, <1>3 DEF CheckDone, FinishTask
<1> HIDE DEF r
<1>5. CASE ~s.ready \/ disposed \/ s.finishing \/ Busy(s)
  BY <1>4, <1>5 DEF CheckedAs, r
<1>6. CASE ~(~s.ready \/ disposed \/ s.finishing \/ Busy(s)) /\ ~Live
  BY <1>4, <1>6 DEF CheckedAs, r
<1>7. CASE ~(~s.ready \/ disposed \/ s.finishing \/ Busy(s)) /\ Live /\ Holds(s)
  BY <1>4, <1>7 DEF CheckedAs, r
<1>8. CASE ~(~s.ready \/ disposed \/ s.finishing \/ Busy(s)) /\ Live /\ ~Holds(s)
  BY <1>3, <1>4, <1>8 DEF CheckedAs, r
<1> QED
  BY <1>5, <1>6, <1>7, <1>8

LEMMA CheckDoneIs ==
  ASSUME Ctx, NEW s \in Session
  PROVE  LET r == CheckDone(s) IN
         /\ r \in Session /\ r.pods = s.pods /\ r.ready = s.ready /\ r.jobChecks = s.jobChecks
         /\ s.closed # "no" => r.closed = s.closed
         /\ Kept(s.queue, r.queue, {})
         /\ r.queue = s.queue \/ (r.queue = Append(s.queue, FinishTask) /\ Live /\ target = "job")
<1> DEFINE r == CheckDone(s)
<1>1. CheckedAs(s, r)
  BY CheckDoneAs
<1> HIDE DEF r
<1>2. s.queue \in Seq(Task) /\ FinishTask \in Task
  BY SessionIs, FinishTaskIs
<1>3. Kept(s.queue, s.queue, {}) /\ Kept(s.queue, Append(s.queue, FinishTask), {})
  BY <1>2, KeptSelf, KeptFinish
<1>4. CASE r = s
  BY <1>3, <1>4 DEF r
<1>5. CASE r = Finish(s)
  BY <1>3, <1>5, FinishIs DEF r
<1>6. CASE r = Push(s, FinishTask) /\ Live /\ target = "job"
  <2>1. /\ r \in Session /\ Aside(s, r) /\ r.queue = Append(s.queue, FinishTask)
        /\ r.pods = s.pods
    BY <1>2, <1>6, PushIs
  <2> QED
    BY <2>1, <1>3, <1>6 DEF r, Aside
<1> QED
  BY <1>1, <1>4, <1>5, <1>6 DEF CheckedAs

-----------------------------------------------------------------------------
(* Retire                                                                  *)

Dropped(s, n) ==
  [s EXCEPT !.pods[n] = Gone(@),
            !.queue = Picked(@, {k \in DOMAIN @ : @[k].name # n})]

LEMMA DroppedIs ==
  ASSUME NEW s \in Session, NEW n \in Names
  PROVE  LET r == Dropped(s, n) IN
         /\ r \in Session /\ Aside(s, r) /\ Kept(s.queue, r.queue, {n})
         /\ r.pods[n] = Gone(s.pods[n]) /\ \A m \in Names : m # n => r.pods[m] = s.pods[m]
<1> DEFINE q == Picked(s.queue, {k \in DOMAIN s.queue : s.queue[k].name # n})
           t == [s EXCEPT !.pods[n] = Gone(s.pods[n])]
           r == [t EXCEPT !.queue = q]
<1>1. s.queue \in Seq(Task) /\ s.pods[n] \in Entry
  BY SessionIs
<1>2. Kept(s.queue, q, {n})
  BY <1>1, KeptPicked
<1>3. Puts(s, t, n, Gone(s.pods[n]))
  BY <1>1, GoneIs, PutIs
<1>4. q \in Seq(Task)
  BY <1>2 DEF Kept
<1>5. Dropped(s, n) = r
  BY DEF Dropped, Session
<1> HIDE DEF t, q
<1>6. r \in Session /\ Aside(t, r) /\ r.queue = q /\ r.pods = t.pods
  BY <1>3, <1>4, QueueTo DEF Puts
<1> HIDE DEF r
<1> QED
  BY <1>2, <1>3, <1>5, <1>6 DEF Puts, Aside

LEMMA RetireIs ==
  ASSUME Ctx, NEW s \in Session, NEW n \in Names
  PROVE  LET r == Retire(s, n) IN
         /\ r \in Session /\ r.ready = s.ready /\ r.jobChecks = s.jobChecks
         /\ s.closed # "no" => r.closed = s.closed
         /\ s.pods[n].left => r = s
         /\ ~s.pods[n].left => /\ r = CheckDone(Dropped(s, n)) /\ Kept(s.queue, r.queue, {n})
                               /\ r.pods[n] = Gone(s.pods[n])
         /\ \A m \in Names : m # n => r.pods[m] = s.pods[m]
<1>1. CASE s.pods[n].left
  BY <1>1 DEF Retire
<1>2. CASE ~s.pods[n].left
  <2> DEFINE t == Dropped(s, n)
             r == CheckDone(t)
  <2>1. Retire(s, n) = r
    BY <1>2 DEF Retire, Dropped
  <2>2. /\ t \in Session /\ Aside(s, t) /\ Kept(s.queue, t.queue, {n})
        /\ t.pods[n] = Gone(s.pods[n]) /\ \A m \in Names : m # n => t.pods[m] = s.pods[m]
    BY DroppedIs
  <2> HIDE DEF t
  <2>3. /\ r \in Session /\ r.pods = t.pods /\ r.ready = t.ready /\ r.jobChecks = t.jobChecks
        /\ t.closed # "no" => r.closed = t.closed
        /\ Kept(t.queue, r.queue, {})
    BY <2>2, CheckDoneIs
  <2> HIDE DEF r
  <2>4. Kept(s.queue, r.queue, {n} \cup {})
    BY <2>2, <2>3, KeptTwice
  <2>5. Kept(s.queue, r.queue, {n})
    BY <2>4
  <2> QED
    BY <1>2, <2>1, <2>2, <2>3, <2>5 DEF Aside, r, t
<1> QED
  BY <1>1, <1>2

LEMMA TailQ ==
  ASSUME NEW q \in Seq(Task), q # <<>>
  PROVE  /\ Tail(q) \in Seq(Task) /\ Head(q) \in Task /\ Head(q) \in Range(q)
         /\ Range(q) = Range(Tail(q)) \cup {Head(q)}
<1>1. /\ 1 \in DOMAIN q /\ q[1] = Head(q) /\ Head(q) \in Task /\ Tail(q) \in Seq(Task)
      /\ \A i \in DOMAIN Tail(q) : i \in Nat \ {0} /\ i + 1 \in DOMAIN q /\ Tail(q)[i] = q[i + 1]
      /\ \A j \in DOMAIN q : /\ j \in Nat \ {0}
                             /\ j # 1 => j - 1 \in DOMAIN Tail(q) /\ Tail(q)[j - 1] = q[j]
  BY TailIs
<1> DEFINE r == Tail(q)
           x1 == Head(q)
<1>2. /\ 1 \in DOMAIN q /\ q[1] = x1
      /\ \A i \in DOMAIN r : i + 1 \in DOMAIN q /\ r[i] = q[i + 1]
      /\ \A j \in DOMAIN q : j # 1 => j - 1 \in DOMAIN r /\ r[j - 1] = q[j]
  BY <1>1
<1> HIDE DEF r, x1
<1>3. \A x \in Range(r) : x \in Range(q)
  BY <1>2 DEF Range
<1>4. \A x \in Range(q) : x \in Range(r) \/ x = x1
  BY <1>2 DEF Range
<1>5. x1 \in Range(q)
  BY <1>2 DEF Range
<1>6. Range(q) = Range(r) \cup {x1}
  BY <1>3, <1>4, <1>5
<1> QED
  BY <1>1, <1>5, <1>6 DEF r, x1

LEMMA TailOrder ==
  ASSUME NEW q \in Seq(Task), q # <<>>, NEW h, NEW v, OrderInv(h, v, q)
  PROVE  OrderInv(h, v, Tail(q))
<1> DEFINE r == Tail(q)
<1>1. \A i \in DOMAIN r : i \in Nat \ {0} /\ i + 1 \in DOMAIN q /\ r[i] = q[i + 1]
  BY TailIs
<1>2. Range(r) \subseteq Range(q)
  BY TailQ
<1> HIDE DEF r
<1>3. Told(r) \subseteq 1..v
  BY <1>2 DEF Told, OrderInv
<1>4. ASSUME NEW j \in DOMAIN r, NEW k \in DOMAIN r, j < k
      PROVE  \A a \in Range(r[j].deltas), b \in Range(r[k].deltas) : a < b
  <2>1. j + 1 < k + 1 /\ j + 1 \in DOMAIN q /\ k + 1 \in DOMAIN q /\ r[j] = q[j + 1] /\ r[k] = q[k + 1]
    BY <1>1, <1>4
  <2> QED
    BY <2>1 DEF OrderInv
<1>5. ASSUME NEW k \in DOMAIN r, NEW a \in DOMAIN r[k].deltas, NEW b \in DOMAIN r[k].deltas
      PROVE  LET i == r[k].deltas[a]
                 j == r[k].deltas[b]
             IN a < b => /\ i # j
                         /\ ~h[i].gone /\ ~h[j].gone => i < j
                         /\ h[i].gone /\ ~h[j].gone => h[i].uid # h[j].uid
  <2>1. k + 1 \in DOMAIN q /\ r[k] = q[k + 1]
    BY <1>1
  <2> QED
    BY <2>1 DEF OrderInv
<1> QED
  BY <1>3, <1>4, <1>5 DEF OrderInv, r

NextQueue(q) ==
  IF Len(Head(q).deltas) = 1 THEN Tail(q) ELSE [q EXCEPT ![1].deltas = Tail(@)]

LEMMA NextDeltaIs ==
  ASSUME NEW s \in Session, s.queue # <<>>, NextQueue(s.queue) \in Seq(Task)
  PROVE  LET r == NextDelta(s) IN
         r \in Session /\ Aside(s, r) /\ r.queue = NextQueue(s.queue) /\ r.pods = s.pods
<1> DEFINE q == NextQueue(s.queue)
<1>1. NextDelta(s) = [s EXCEPT !.queue = q]
  BY SessionIs DEF NextDelta, NextQueue, Session
<1> HIDE DEF q
<1>2. q \in Seq(Task)
  BY DEF q
<1>3. LET r == [s EXCEPT !.queue = q] IN
      r \in Session /\ Aside(s, r) /\ r.queue = q /\ r.pods = s.pods
  BY <1>2, QueueTo
<1> QED
  BY <1>1, <1>3 DEF q

LEMMA DeltasTail ==
  ASSUME NEW d \in Seq(1..MaxVersions), d # <<>>
  PROVE  /\ 1 \in DOMAIN d /\ d[1] = Head(d) /\ Tail(d) \in Seq(1..MaxVersions)
         /\ \A i \in DOMAIN Tail(d) : i \in Nat \ {0} /\ i + 1 \in DOMAIN d /\ Tail(d)[i] = d[i + 1]
         /\ \A j \in DOMAIN d : /\ j \in Nat \ {0}
                               /\ j # 1 => j - 1 \in DOMAIN Tail(d) /\ Tail(d)[j - 1] = d[j]
<1> DEFINE S == 1..MaxVersions
<1> HIDE DEF S
<1>1. d \in Seq(S)
  BY DEF S
<1>2. /\ 1 \in DOMAIN d /\ d[1] = Head(d) /\ Head(d) \in S /\ Tail(d) \in Seq(S)
      /\ \A i \in DOMAIN Tail(d) : i \in Nat \ {0} /\ i + 1 \in DOMAIN d /\ Tail(d)[i] = d[i + 1]
      /\ \A j \in DOMAIN d : /\ j \in Nat \ {0}
                            /\ j # 1 => j - 1 \in DOMAIN Tail(d) /\ Tail(d)[j - 1] = d[j]
  BY <1>1, TailIs
<1> QED
  BY <1>2 DEF S

LEMMA NextQ ==
  ASSUME NEW q \in Seq(Task), q # <<>>, Head(q).deltas # <<>>, \A t \in Range(q) : Shaped(t),
         NEW h, NEW v, OrderInv(h, v, q)
  PROVE  LET r == NextQueue(q)
             o == Head(Head(q).deltas)
         IN /\ r \in Seq(Task) /\ OrderInv(h, v, r) /\ \A t \in Range(r) : Shaped(t)
            /\ o \in Told(q) /\ Told(r) = Told(q) \ {o}
            /\ \A t \in Range(r) : t \in Range(q) \/ (t.op = "deltas" /\ t.name = 0)
            /\ \A t \in Range(q) : t.op # "deltas" => t \in Range(r)
<1> DEFINE r == NextQueue(q)
           t1 == Head(q)
           d1 == t1.deltas
           o == Head(d1)
<1>1. /\ 1 \in DOMAIN q /\ q[1] = t1 /\ t1 \in Task /\ t1 \in Range(q) /\ Tail(q) \in Seq(Task)
      /\ \A j \in DOMAIN q : j \in Nat \ {0}
      /\ Range(q) = Range(Tail(q)) \cup {t1}
      /\ \A k \in DOMAIN q : q[k] \in Range(q) /\ q[k] \in Task
  BY TailIs, TailQ, RangeIs
<1>2. /\ d1 \in Seq(1..MaxVersions) /\ d1 # <<>> /\ t1.op = "deltas" /\ t1.name = 0
  BY <1>1, TaskIs DEF Shaped
<1>20. o = Head(d1) /\ d1 = t1.deltas
  OBVIOUS
<1> HIDE DEF t1, d1, o
<1>3. /\ 1 \in DOMAIN d1 /\ d1[1] = o /\ Tail(d1) \in Seq(1..MaxVersions)
      /\ \A i \in DOMAIN Tail(d1) : i \in Nat \ {0} /\ i + 1 \in DOMAIN d1 /\ Tail(d1)[i] = d1[i + 1]
      /\ \A j \in DOMAIN d1 : /\ j \in Nat \ {0}
                              /\ j # 1 => j - 1 \in DOMAIN Tail(d1) /\ Tail(d1)[j - 1] = d1[j]
  <2>1. d1 \in Seq(1..MaxVersions) /\ d1 # <<>>
    BY <1>2
  <2>2. /\ 1 \in DOMAIN d1 /\ d1[1] = Head(d1) /\ Tail(d1) \in Seq(1..MaxVersions)
        /\ \A i \in DOMAIN Tail(d1) : i \in Nat \ {0} /\ i + 1 \in DOMAIN d1 /\ Tail(d1)[i] = d1[i + 1]
        /\ \A j \in DOMAIN d1 : /\ j \in Nat \ {0}
                                /\ j # 1 => j - 1 \in DOMAIN Tail(d1) /\ Tail(d1)[j - 1] = d1[j]
    BY ONLY <2>1, DeltasTail
  <2> QED
    BY <2>2, <1>20
<1>4. o \in Range(d1) /\ o \in Told(q)
  <2>1. o \in Range(d1)
    BY <1>3 DEF Range
  <2>2. t1 \in Range(q) /\ o \in Range(t1.deltas)
    BY <1>1, <1>20, <2>1
  <2> QED
    BY <2>1, <2>2, ToldIs
<1>5. ASSUME NEW k \in DOMAIN q, k # 1 PROVE o \notin Range(q[k].deltas)
  <2>1. 1 < k
    BY <1>1, <1>5
  <2>2. o < o \/ o \notin Range(q[k].deltas)
    <3>1. o \in Range(q[1].deltas)
      BY <1>1, <1>4, <1>20
    <3> QED
      BY <1>1, <1>5, <2>1, <3>1 DEF OrderInv
  <2>3. Told(q) \subseteq 1..v
    BY DEF OrderInv
  <2>4. o \in Int
    BY <2>3, <1>4
  <2> QED
    BY <2>2, <2>4
<1>6. \A j \in DOMAIN d1 : j # 1 => d1[j] # o
  <2>1. ASSUME NEW j \in DOMAIN d1, j # 1 PROVE d1[j] # o
    <3>1. 1 < j
      BY <1>3, <2>1
    <3> QED
      BY <1>1, <1>3, <1>20, <2>1, <3>1 DEF OrderInv
  <2> QED
    BY <2>1
<1> HIDE DEF r
<1>7. CASE Len(d1) = 1
  <2>1. r = Tail(q)
    BY <1>7 DEF r, NextQueue, d1, t1
  <2>2. Range(d1) = {o}
    <3>1. DOMAIN d1 = {1}
      BY <1>2, <1>7
    <3> QED
      BY <3>1, <1>3 DEF Range
  <2>3. o \notin Told(r)
    <3>1. ASSUME NEW t \in Range(r) PROVE o \notin Range(t.deltas)
      <4>1. PICK i \in DOMAIN Tail(q) : Tail(q)[i] = t
        BY <2>1, <3>1 DEF Range
      <4>2. i + 1 \in DOMAIN q /\ i + 1 # 1 /\ q[i + 1] = t
        BY <4>1, TailIs
      <4> QED
        BY <4>2, <1>5
    <3> QED
      BY <3>1, ToldIs
  <2>4. \A x : x \in Told(q) <=> x \in Told(r) \/ x = o
    BY <1>1, <2>1, <2>2, ToldIs DEF d1
  <2>5. OrderInv(h, v, r)
    BY <2>1, TailOrder
  <2>6. Told(r) = Told(q) \ {o}
    BY <2>3, <2>4
  <2>7. r \in Seq(Task) /\ Range(r) \subseteq Range(q)
    BY <1>1, <2>1
  <2>8. \A t \in Range(q) : t.op # "deltas" => t \in Range(r)
    BY <1>1, <1>2, <2>1
  <2> QED
    BY <1>4, <2>5, <2>6, <2>7, <2>8 DEF r, o, d1, t1
<1>8. CASE Len(d1) # 1
  <2> DEFINE t2 == [t1 EXCEPT !.deltas = Tail(d1)]
  <2>1. t2 \in Task /\ t2.deltas = Tail(d1) /\ t2.op = "deltas" /\ t2.name = 0
    BY <1>1, <1>2, <1>3 DEF Task
  <2>2. r = [q EXCEPT ![1] = t2]
    BY <1>1, <1>8 DEF r, NextQueue, d1, t1
  <2> HIDE DEF t2
  <2>3. /\ r \in Seq(Task) /\ DOMAIN r = DOMAIN q /\ r[1] = t2
        /\ \A k \in DOMAIN q : k # 1 => r[k] = q[k]
    BY <1>1, <2>1, <2>2
  <2>4. Range(r) \subseteq Range(q) \cup {t2} /\ t2 \in Range(r)
    BY <1>1, <2>3 DEF Range
  <2>5. \A t \in Range(q) : t # t1 => t \in Range(r)
    BY <1>1, <2>3 DEF Range
  <2>6. /\ Range(Tail(d1)) \subseteq Range(d1) /\ o \notin Range(Tail(d1))
        /\ \A x \in Range(d1) : x \in Range(Tail(d1)) \/ x = o
    <3>1. \A i \in DOMAIN Tail(d1) : i + 1 # 1
      BY <1>3
    <3>2. Range(Tail(d1)) \subseteq Range(d1) /\ o \notin Range(Tail(d1))
      BY <1>3, <1>6, <3>1 DEF Range
    <3>3. ASSUME NEW x \in Range(d1), x # o PROVE x \in Range(Tail(d1))
      <4>1. PICK j \in DOMAIN d1 : d1[j] = x
        BY <3>3 DEF Range
      <4>2. j - 1 \in DOMAIN Tail(d1) /\ Tail(d1)[j - 1] = x
        BY <1>3, <3>3, <4>1
      <4> HIDE DEF t2
      <4> QED
        BY <4>2 DEF Range
    <3> QED
      BY <3>2, <3>3
  <2>7. Tail(d1) # <<>>
    <3>1. Len(d1) \in Nat /\ Len(d1) # 0 /\ DOMAIN d1 = 1..Len(d1)
      BY <1>2
    <3>2. 2 \in DOMAIN d1 /\ 2 # 1
      BY <3>1, <1>8
    <3>3. 2 - 1 \in DOMAIN Tail(d1)
      BY <1>3, <3>2
    <3>4. 2 - 1 = 1
      OBVIOUS
    <3> DEFINE e == Tail(d1)
    <3> HIDE DEF e
    <3>5. 1 \in DOMAIN e
      BY <3>3, <3>4 DEF e
    <3>6. DOMAIN <<>> = {}
      OBVIOUS
    <3>7. e # <<>>
      BY <3>5, <3>6
    <3> QED
      BY <3>7 DEF e
  <2>8. \A t \in Range(r) : Shaped(t)
    BY <2>1, <2>4, <2>7 DEF Shaped
  <2>9. ASSUME NEW x \in Told(r) PROVE x \in Told(q) /\ x # o
    <3>1. PICK t \in Range(r) : x \in Range(t.deltas)
      BY ToldIs
    <3>2. CASE t = t2
      BY <1>1, <2>1, <2>6, <3>1, <3>2, ToldIs DEF d1
    <3>3. CASE t # t2
      <4>1. PICK k \in DOMAIN r : r[k] = t
        BY <3>1 DEF Range
      <4>2. k # 1 /\ k \in DOMAIN q /\ q[k] = t
        BY <2>3, <3>3, <4>1
      <4> QED
        BY <1>1, <1>5, <3>1, <4>2, ToldIs
    <3> QED
      BY <3>2, <3>3
  <2>10. ASSUME NEW x \in Told(q), x # o PROVE x \in Told(r)
    <3>1. PICK t \in Range(q) : x \in Range(t.deltas)
      BY ToldIs
    <3>2. CASE t = t1
      BY <2>1, <2>4, <2>6, <2>10, <3>1, <3>2, ToldIs DEF d1
    <3>3. CASE t # t1
      BY <2>5, <3>1, <3>3, ToldIs
    <3> QED
      BY <3>2, <3>3
  <2>11. Told(r) = Told(q) \ {o}
    BY <2>9, <2>10
  <2>12. OrderInv(h, v, r)
    <3>1. Told(r) \subseteq 1..v
      BY <2>11 DEF OrderInv
    <3>2. \A k \in DOMAIN q : Range(r[k].deltas) \subseteq Range(q[k].deltas)
      BY <1>1, <2>1, <2>3, <2>6 DEF d1
    <3>3. \A j, k \in DOMAIN r : j < k =>
            \A a \in Range(r[j].deltas), b \in Range(r[k].deltas) : a < b
      BY <2>3, <3>2 DEF OrderInv
    <3>4. ASSUME NEW k \in DOMAIN r, NEW a \in DOMAIN r[k].deltas, NEW b \in DOMAIN r[k].deltas,
                 a < b
          PROVE  LET i == r[k].deltas[a]
                     j == r[k].deltas[b]
                 IN /\ i # j
                    /\ ~h[i].gone /\ ~h[j].gone => i < j
                    /\ h[i].gone /\ ~h[j].gone => h[i].uid # h[j].uid
      <4>1. CASE k = 1
        <5>1. a + 1 < b + 1 /\ a + 1 \in DOMAIN d1 /\ b + 1 \in DOMAIN d1
              /\ r[k].deltas[a] = d1[a + 1] /\ r[k].deltas[b] = d1[b + 1]
          <6>1. r[k].deltas = Tail(d1) /\ a \in DOMAIN Tail(d1) /\ b \in DOMAIN Tail(d1)
            BY <2>1, <2>3, <3>4, <4>1
          <6>2. a \in Nat /\ b \in Nat
            BY <6>1, <1>3
          <6> QED
            BY <1>3, <3>4, <6>1, <6>2
        <5> QED
          BY <1>1, <5>1 DEF OrderInv, d1
      <4>2. CASE k # 1
        BY <2>3, <3>4, <4>2 DEF OrderInv
      <4> QED
        BY <4>1, <4>2
    <3> QED
      BY <3>1, <3>3, <3>4 DEF OrderInv
  <2>13. \A t \in Range(q) : t.op # "deltas" => t \in Range(r)
    BY <1>2, <2>5
  <2> QED
    BY <1>4, <2>1, <2>3, <2>4, <2>8, <2>11, <2>12, <2>13 DEF r, o, d1, t1
<1> QED
  BY <1>7, <1>8

-----------------------------------------------------------------------------
(* The handlers: what they return, and what is left of the queue           *)

\* Kept, whatever names are dropped.
Mostly(q, r) ==
  /\ r \in Seq(Task)
  /\ \A t \in Range(q) : t.name = 0 => t \in Range(r)
  /\ \A t \in Range(r) : t \in Range(q) \/ t = FinishTask
  /\ OrderInv(hist, seen, q) => OrderInv(hist, seen, r)
  /\ q # <<>> /\ Head(q).name = 0 => r # <<>> /\ Head(r) = Head(q)

Turned(s, r) == r \in Session /\ r.ready = s.ready /\ Mostly(s.queue, r.queue)

LEMMA KeptMostly ==
  ASSUME NEW q, NEW r, NEW D, D \subseteq Names, Kept(q, r, D)
  PROVE  Mostly(q, r)
BY Bounds DEF Kept, Mostly

LEMMA MostlyTwice ==
  ASSUME NEW q, NEW r, NEW s, Mostly(q, r), Mostly(r, s)
  PROVE  Mostly(q, s)
<1>1. FinishTask.name = 0
  BY FinishTaskIs
<1>2. q # <<>> /\ Head(q).name = 0 => s # <<>> /\ Head(s) = Head(q)
  BY DEF Mostly
<1> QED
  BY <1>1, <1>2 DEF Mostly

LEMMA MostlySelf ==
  ASSUME NEW q \in Seq(Task)
  PROVE  Mostly(q, q)
BY DEF Mostly

LEMMA MostlyTold ==
  ASSUME NEW q, NEW r, Mostly(q, r), \A t \in Range(q) : Shaped(t)
  PROVE  Told(r) = Told(q) /\ \A t \in Range(r) : Shaped(t)
<1>1. FinishTask.op = "finishIfJobDone" /\ FinishTask.name = 0 /\ FinishTask.deltas = <<>>
  BY FinishTaskIs
<1>2. Shaped(FinishTask)
  BY <1>1 DEF Shaped
<1>3. ASSUME NEW o \in Told(q) PROVE o \in Told(r)
  <2>1. PICK t \in Range(q) : o \in Range(t.deltas)
    BY ToldIs
  <2>2. t.deltas # <<>>
    BY <2>1, NoDeltas
  <2>3. t.name = 0
    BY <2>2 DEF Shaped
  <2>4. t \in Range(r)
    BY <2>3 DEF Mostly
  <2> QED
    BY <2>1, <2>4, ToldIs
<1>4. ASSUME NEW o \in Told(r) PROVE o \in Told(q)
  <2>1. PICK t \in Range(r) : o \in Range(t.deltas)
    BY ToldIs
  <2>2. t # FinishTask
    BY <2>1, <1>1, NoDeltas
  <2> QED
    BY <2>1, <2>2, ToldIs DEF Mostly
<1>5. \A t \in Range(r) : Shaped(t)
  BY <1>2 DEF Mostly
<1> QED
  BY <1>3, <1>4, <1>5

LEMMA TurnedTwice ==
  ASSUME NEW r, NEW s, NEW t, Turned(r, s), Turned(s, t)
  PROVE  Turned(r, t)
BY MostlyTwice DEF Turned

LEMMA PutTurned ==
  ASSUME NEW s \in Session, NEW r, NEW n \in Names, NEW e, Puts(s, r, n, e)
  PROVE  Turned(s, r)
BY MostlySelf, SessionIs DEF Puts, Turned, Aside

LEMMA CheckDoneTurned ==
  ASSUME Ctx, NEW s \in Session
  PROVE  Turned(s, CheckDone(s))
<1>1. /\ CheckDone(s) \in Session /\ CheckDone(s).ready = s.ready
      /\ Kept(s.queue, CheckDone(s).queue, {})
  BY CheckDoneIs
<1> QED
  BY <1>1, KeptMostly DEF Turned

LEMMA RetireTurned ==
  ASSUME Ctx, NEW s \in Session, NEW n \in Names
  PROVE  Turned(s, Retire(s, n))
<1> DEFINE r == Retire(s, n)
<1>1. r \in Session /\ r.ready = s.ready /\ (r = s \/ Kept(s.queue, r.queue, {n}))
  BY RetireIs
<1> HIDE DEF r
<1>2. Kept(s.queue, r.queue, {n}) => Mostly(s.queue, r.queue)
  BY KeptMostly
<1> QED
  BY <1>1, <1>2, MostlySelf, SessionIs DEF Turned, r

LEMMA PutChecked ==
  ASSUME Ctx, NEW s \in Session, NEW n \in Names, NEW e \in Entry
  PROVE  Turned(s, CheckDone([s EXCEPT !.pods[n] = e]))
<1> DEFINE r == [s EXCEPT !.pods[n] = e]
<1>1. Puts(s, r, n, e)
  BY PutIs
<1> HIDE DEF r
<1>2. Turned(s, r) /\ r \in Session
  BY <1>1, PutTurned DEF Puts
<1>3. Turned(s, CheckDone(r))
  BY <1>2, CheckDoneTurned, TurnedTwice
<1> QED
  BY <1>3 DEF r

LEMMA PutRetired ==
  ASSUME Ctx, NEW s \in Session, NEW n \in Names, NEW e \in Entry
  PROVE  Turned(s, Retire([s EXCEPT !.pods[n] = e], n))
<1> DEFINE r == [s EXCEPT !.pods[n] = e]
<1>1. Puts(s, r, n, e)
  BY PutIs
<1> HIDE DEF r
<1>2. Turned(s, r) /\ r \in Session
  BY <1>1, PutTurned DEF Puts
<1>3. Turned(s, Retire(r, n))
  BY <1>2, RetireTurned, TurnedTwice
<1> QED
  BY <1>3 DEF r

LEMMA PodUpdatedTurned ==
  ASSUME Ctx, NEW s \in Session, NEW n \in Names, NEW o \in 0..Len(hist)
  PROVE  Turned(s, PodUpdated(s, n, o))
<1> DEFINE e == s.pods[n]
           e1 == Advance(e, o)
           e2 == [e EXCEPT !.term = TRUE]
<1>1. e \in Entry /\ e1 \in Entry /\ e2 \in Entry
  BY SessionIs, AdvanceIs, TermIs
<1>2. PodUpdated(s, n, o) = IF ~Terminating(o) THEN CheckDone([s EXCEPT !.pods[n] = e1])
                            ELSE IF e.state = "streaming" THEN [s EXCEPT !.pods[n] = e2]
                            ELSE Retire([s EXCEPT !.pods[n] = e2], n)
  BY DEF PodUpdated, Session
<1> HIDE DEF e, e1, e2
<1>3. Turned(s, [s EXCEPT !.pods[n] = e2])
  BY <1>1, PutIs, PutTurned
<1> QED
  BY <1>1, <1>2, <1>3, PutChecked, PutRetired

LEMMA ForgetTurned ==
  ASSUME Ctx, NEW s \in Session, NEW n \in Names
  PROVE  Turned(s, Forget(s, n))
<1> DEFINE r == Retire(s, n)
<1>1. Turned(s, r) /\ r \in Session
  BY RetireTurned DEF Turned
<1>2. Forget(s, n) = [r EXCEPT !.pods[n] = Unknown]
  BY DEF Forget
<1> HIDE DEF r
<1>3. Turned(r, [r EXCEPT !.pods[n] = Unknown])
  BY <1>1, PutIs, PutTurned, UnknownIs
<1> QED
  BY <1>1, <1>2, <1>3, TurnedTwice

LEMMA DeltaTurned ==
  ASSUME Ctx, NEW s \in Session, NEW o \in 1..Len(hist)
  PROVE  Turned(s, Delta(s, o))
<1> DEFINE n == hist[o].name
           t == IF Replaced(s, o) /\ ~hist[o].gone THEN Forget(s, n) ELSE s
<1>1. n \in Names /\ o \in 0..Len(hist)
  BY PodIs, CtxIs
<1>2. Turned(s, s)
  BY MostlySelf, SessionIs DEF Turned
<1>3. Turned(s, t) /\ t \in Session
  BY <1>1, <1>2, ForgetTurned DEF Turned
<1>4. t.pods[n].known \in BOOLEAN /\ hist[o].gone \in BOOLEAN /\ Replaced(s, o) \in BOOLEAN
  BY <1>1, <1>3, SessionIs, EntryIs, PodIs DEF Replaced
<1>5. Replaced(s, o) /\ ~hist[o].gone => ~t.pods[n].known
  <2>1. ASSUME Replaced(s, o), ~hist[o].gone PROVE ~t.pods[n].known
    <3>1. t = [Retire(s, n) EXCEPT !.pods[n] = Unknown]
      BY <2>1 DEF Forget
    <3>2. Retire(s, n) \in Session
      BY <1>1, RetireIs
    <3>3. Puts(Retire(s, n), t, n, Unknown)
      BY <1>1, <3>1, <3>2, PutIs, UnknownIs
    <3> QED
      BY <3>3, UnknownIs DEF Puts
  <2> QED
    BY <2>1
<1>6. Delta(s, o) = IF Replaced(s, o) /\ hist[o].gone THEN s
                    ELSE IF ~t.pods[n].known THEN t
                    ELSE IF hist[o].gone THEN Retire(t, n)
                    ELSE IF t.pods[n].left THEN t ELSE PodUpdated(t, n, o)
  <2>1. Delta(s, o) = CASE Replaced(s, o) /\ hist[o].gone -> s
                        [] ~t.pods[n].known -> t
                        [] t.pods[n].known /\ ~Replaced(s, o) /\ hist[o].gone -> Retire(t, n)
                        [] t.pods[n].known /\ ~hist[o].gone ->
                             IF t.pods[n].left THEN t ELSE PodUpdated(t, n, o)
    BY DEF Delta
  <2>2. Replaced(s, o) /\ hist[o].gone => t = s /\ t.pods[n].known
    BY DEF Replaced
  <2> HIDE DEF t, n
  <2> QED
    BY <1>4, <1>5, <2>1, <2>2
<1> HIDE DEF t, n
<1>7. Turned(t, Retire(t, n)) /\ Turned(t, PodUpdated(t, n, o))
  BY <1>1, <1>3, RetireTurned, PodUpdatedTurned
<1> QED
  BY <1>2, <1>3, <1>6, <1>7, TurnedTwice

LoadedEntry(s, found, absent, n) ==
  CASE target = "pods" /\ live /\ n \in absent -> Gone([Unknown EXCEPT !.known = TRUE])
    [] target = "pods" /\ ~(live /\ n \in absent) -> Added(found[n])
    [] target # "pods" /\ found[n] # 0 -> Added(found[n])
    [] OTHER -> s.pods[n]

\* A 404 of a pod that the query names.
Missing == Gone([Unknown EXCEPT !.known = TRUE])

LEMMA MissingIs ==
  /\ Missing \in Entry /\ Missing.known /\ Missing.left /\ Missing.state = "ended"
  /\ ~Missing.timer /\ ~Missing.request
<1> DEFINE e == [Unknown EXCEPT !.known = TRUE]
<1>1. e \in Entry /\ e.known
  BY UnknownIs DEF Entry
<1>2. Missing = Gone(e)
  BY DEF Missing
<1> HIDE DEF e
<1> QED
  BY <1>1, <1>2, GoneIs

LEMMA LoadedEntryIs ==
  ASSUME Ctx, NEW s \in Session, NEW found \in [Names -> 0..Len(hist)], NEW absent,
         NEW n \in Names
  PROVE  /\ LoadedEntry(s, found, absent, n) =
              IF target = "pods" THEN IF live /\ n \in absent THEN Missing ELSE Added(found[n])
              ELSE IF found[n] # 0 THEN Added(found[n]) ELSE s.pods[n]
         /\ LoadedEntry(s, found, absent, n) \in Entry
<1>1. LoadedEntry(s, found, absent, n) =
        IF target = "pods" THEN IF live /\ n \in absent THEN Missing ELSE Added(found[n])
        ELSE IF found[n] # 0 THEN Added(found[n]) ELSE s.pods[n]
  BY DEF LoadedEntry, Missing
<1>2. Added(found[n]) \in Entry /\ s.pods[n] \in Entry /\ Missing \in Entry
  BY AddedIs, SessionIs, MissingIs
<1> QED
  BY <1>1, <1>2

\* The session when all is loaded, before CheckDone.
LoadedFrom(s, found, absent) ==
  [s EXCEPT !.ready = TRUE, !.pods = [n \in Names |-> LoadedEntry(s, found, absent, n)]]

LEMMA LoadedFromIs ==
  ASSUME Ctx, NEW s \in Session, NEW found \in [Names -> 0..Len(hist)], NEW absent
  PROVE  LET t == LoadedFrom(s, found, absent) IN
         /\ Loaded(s, found, absent) = CheckDone(t)
         /\ t \in Session /\ t.ready /\ t.queue = s.queue /\ t.finishing = s.finishing
         /\ t.closed = s.closed /\ t.jobChecks = s.jobChecks
         /\ \A n \in Names : t.pods[n] = LoadedEntry(s, found, absent, n)
<1> DEFINE p == [n \in Names |-> LoadedEntry(s, found, absent, n)]
           t == [s EXCEPT !.ready = TRUE, !.pods = p]
<1>1. p \in [Names -> Entry] /\ \A n \in Names : p[n] = LoadedEntry(s, found, absent, n)
  BY LoadedEntryIs
<1>2. Loaded(s, found, absent) = CheckDone(t)
  BY DEF Loaded, LoadedEntry
<1>3. t = LoadedFrom(s, found, absent)
  BY DEF LoadedFrom
<1> HIDE DEF p
<1>4. /\ t \in Session /\ t.ready /\ t.queue = s.queue /\ t.finishing = s.finishing
      /\ t.closed = s.closed /\ t.jobChecks = s.jobChecks /\ t.pods = p
  BY <1>1 DEF Session
<1> HIDE DEF t
<1> QED
  BY <1>1, <1>2, <1>3, <1>4

LEMMA LoadedTurned ==
  ASSUME Ctx, NEW s \in Session, NEW found \in [Names -> 0..Len(hist)], NEW absent
  PROVE  LET r == Loaded(s, found, absent) IN
         r \in Session /\ r.ready /\ Mostly(s.queue, r.queue)
<1> DEFINE t == LoadedFrom(s, found, absent)
<1>1. /\ Loaded(s, found, absent) = CheckDone(t) /\ t \in Session /\ t.ready
      /\ t.queue = s.queue
  BY LoadedFromIs
<1> HIDE DEF t
<1> QED
  BY <1>1, CheckDoneTurned DEF Turned

LEMMA StreamFinishedTurned ==
  ASSUME Ctx, NEW s \in Session, NEW t \in Task, t.name \in Names
  PROVE  Turned(s, StreamFinished(s, t))
<1> DEFINE n == t.name
           e == s.pods[n]
           o == Feed(n)
           ended == [s EXCEPT !.pods[n].state = "ended"]
           e1 == [e EXCEPT !.state = "ended"]
           advanced == [ended EXCEPT !.pods[n] = Advance(@, o)]
<1>1. e \in Entry /\ e1 \in Entry /\ n \in Names /\ o \in 0..Len(hist)
  BY SessionIs, StateIs, CachedType
<1>2. ended = [s EXCEPT !.pods[n] = e1]
  BY DEF Session
<1>3. /\ follow \in BOOLEAN /\ live \in BOOLEAN /\ Live = (follow /\ live)
  BY CtxIs DEF Live
<1>4. StreamFinished(s, t) =
        IF ~follow THEN CheckDone(ended)
        ELSE IF ~live
        THEN IF RunId(o) # 0 /\ ~Running(o) /\ ~Waiting(o) THEN CheckDone(ended)
             ELSE Close(ended, "retry")
        ELSE IF o = 0 \/ e.uid \notin {0, hist[o].uid} \/ t.notFound \/ Terminating(o)
        THEN Retire(ended, n) ELSE CheckDone(advanced)
  BY <1>3 DEF StreamFinished
<1> HIDE DEF n, e, o, e1
<1>5. Turned(s, ended) /\ ended \in Session /\ Puts(s, ended, n, e1)
  <2>1. Puts(s, ended, n, e1)
    BY <1>1, <1>2, PutIs
  <2> HIDE DEF ended
  <2> QED
    BY <1>1, <2>1, PutTurned DEF Puts
<1>6. advanced = [ended EXCEPT !.pods[n] = Advance(ended.pods[n], o)]
  OBVIOUS
<1> HIDE DEF ended
<1>7. Advance(ended.pods[n], o) \in Entry
  BY <1>1, <1>5, AdvanceIs DEF Puts
<1>8. Turned(ended, CheckDone(advanced))
  BY <1>1, <1>5, <1>6, <1>7, PutChecked
<1> HIDE DEF advanced
<1>9. Turned(ended, CheckDone(ended)) /\ Turned(ended, Retire(ended, n))
  BY <1>1, <1>5, CheckDoneTurned, RetireTurned
<1>10. Turned(ended, Close(ended, "retry"))
  <2>1. ended.queue \in Seq(Task) /\ "retry" \in {"over", "retry"}
    BY <1>5, SessionIs
  <2> QED
    BY <1>5, <2>1, CloseIs, MostlySelf DEF Turned
<1> QED
  BY <1>4, <1>5, <1>8, <1>9, <1>10, TurnedTwice

LEMMA GraceExpiredTurned ==
  ASSUME Ctx, NEW s \in Session, NEW n \in Names
  PROVE  Turned(s, GraceExpired(s, n))
<1> DEFINE e == s.pods[n]
           o == Cached(n)
           e1 == [e EXCEPT !.state = "ended"]
           e2 == Advance(e1, o)
<1>1. e \in Entry /\ e1 \in Entry /\ o \in 0..Len(hist)
  BY SessionIs, StateIs, CachedType
<1>2. e2 \in Entry
  BY <1>1, AdvanceIs
<1>3. GraceExpired(s, n) =
        IF e.state # "grace" THEN s
        ELSE IF o = 0 \/ e.uid \notin {0, hist[o].uid} THEN Retire(s, n)
        ELSE IF Running(o) /\ RunId(o) = e.run /\ ~Terminating(o) THEN Close(s, "retry")
        ELSE CheckDone([s EXCEPT !.pods[n] = e2])
  BY DEF GraceExpired
<1> HIDE DEF e, o, e1, e2
<1>4. Turned(s, s) /\ Turned(s, Close(s, "retry"))
  <2>1. s.queue \in Seq(Task) /\ "retry" \in {"over", "retry"}
    BY SessionIs
  <2> QED
    BY <2>1, CloseIs, MostlySelf DEF Turned
<1> QED
  BY <1>2, <1>3, <1>4, RetireTurned, PutChecked

LEMMA JoinsTurned ==
  ASSUME Ctx, NEW s \in Session, NEW o \in 1..Len(hist)
  PROVE  /\ Turned(s, Joins(s, o))
         /\ Joins(s, o).queue = s.queue /\ Joins(s, o).finishing = s.finishing
         /\ Joins(s, o).closed = s.closed /\ Joins(s, o).jobChecks = 0
         /\ Joins(s, o).pods[hist[o].name] = Added(o)
         /\ \A m \in Names : m # hist[o].name => Joins(s, o).pods[m] = s.pods[m]
<1> DEFINE n == hist[o].name
           t == [s EXCEPT !.pods[n] = Added(o)]
           r == [t EXCEPT !.jobChecks = 0]
<1>1. n \in Names /\ o \in 0..Len(hist)
  BY PodIs, CtxIs
<1>2. Added(o) \in Entry
  BY <1>1, AddedIs
<1>3. Joins(s, o) = r
  BY DEF Joins
<1> HIDE DEF n
<1>4. Puts(s, t, n, Added(o))
  BY <1>1, <1>2, PutIs
<1> HIDE DEF t
<1>5. t \in Session /\ 0 \in 0..MaxRechecks
  BY <1>4, Bounds DEF Puts
<1>6. /\ r \in Session /\ r.queue = t.queue /\ r.pods = t.pods /\ r.ready = t.ready
      /\ r.finishing = t.finishing /\ r.closed = t.closed /\ r.jobChecks = 0
  BY <1>5 DEF Session
<1> HIDE DEF r
<1>7. Mostly(s.queue, s.queue)
  BY MostlySelf, SessionIs
<1> QED
  BY <1>3, <1>4, <1>6, <1>7 DEF Puts, Aside, Turned, n

-----------------------------------------------------------------------------
(* The shape of the queue                                                  *)

QueueShape(h, v, q) == OrderInv(h, v, q) /\ \A t \in Range(q) : Shaped(t)

Before(s, await_, need_, timer, subs) ==
  /\ s.queue = <<>> /\ ~s.ready /\ ~s.finishing
  /\ \A n \in Names : s.pods[n] = Unknown
  /\ await_ = "" /\ need_ = {} /\ ~timer /\ ~subs

Loading(s, await_, need_, timer, target_, live_) ==
  /\ s.queue # <<>> /\ Head(s.queue).op = "load"
  /\ \A k \in DOMAIN s.queue : k # 1 => s.queue[k].op = "deltas"
  /\ \A n \in Names : s.pods[n] = Unknown
  /\ ~timer /\ ~s.finishing
  /\ await_ = "" => need_ = {}
  /\ await_ # "" => /\ need_ # {} /\ await_ = IF target_ = "pods" THEN "read" ELSE "match"
                    /\ target_ = "pods" \/ (target_ = "deployment" /\ live_)

Ready(s, await_, need_) ==
  /\ need_ = {} /\ await_ \in {"", "match", "job"}
  /\ await_ # "" => s.queue # <<>>
  /\ await_ = "match" => Head(s.queue).op = "deltas"
  /\ await_ = "job" => Head(s.queue).op = "finishIfJobDone"
  /\ \A t \in Range(s.queue) : t.op # "load"

Basics ==
  /\ HistInv(hist) /\ QueueShape(hist, seen, session.queue)
  /\ stage = "started" => subscribed = Live
  /\ stage # "started" => Before(session, await, need, jobTimer, subscribed)
  /\ stage = "started" /\ ~session.ready => Loading(session, await, need, jobTimer, target, live)
  /\ stage = "started" /\ session.ready => Ready(session, await, need)

Base == TypeOK /\ IF disposed THEN QuietInv ELSE Basics

LEMMA BasicsCtx ==
  ASSUME TypeOK, Basics
  PROVE  Ctx /\ session.queue \in Seq(Task)
BY SessionIs DEF Ctx, Basics, HistInv, TypeOK

HandlerVars == <<podVars, start, job, loading, disposed, unsure>>

LEMMA HandlerType ==
  ASSUME TypeOK, UNCHANGED HandlerVars, session' \in Session, jobTimer' \in BOOLEAN,
         await' \in {"", "read", "match", "job"}, faults' \in 0..MaxFaults
  PROVE  TypeOK'
BY DEF TypeOK, PodTypeOK, HandlerVars, podVars, start, loading

LEMMA HandlerBasics ==
  ASSUME TypeOK, Basics, UNCHANGED HandlerVars, stage = "started", session'.ready,
         QueueShape(hist, seen, session'.queue), Ready(session', await', need)
  PROVE  Basics'
BY DEF Basics, HandlerVars, podVars, start, loading, Live

LEMMA FaultIs ==
  ASSUME TypeOK, Fault
  PROVE  faults' \in 0..MaxFaults
<1>1. faults \in 0..MaxFaults
  BY DEF TypeOK
<1> QED
  BY <1>1, Bounds DEF Fault

-----------------------------------------------------------------------------
(* The tasks of a session that is ready                                    *)

IsReady == TypeOK /\ Basics /\ stage = "started" /\ session.ready

LEMMA MostlyShape ==
  ASSUME NEW q, NEW r, QueueShape(hist, seen, q), Mostly(q, r),
         \A t \in Range(q) : t.op # "load"
  PROVE  QueueShape(hist, seen, r) /\ \A t \in Range(r) : t.op # "load"
<1>1. \A t \in Range(r) : Shaped(t)
  BY MostlyTold DEF QueueShape
<1>2. OrderInv(hist, seen, r)
  BY DEF QueueShape, Mostly
<1>3. \A t \in Range(r) : t.op # "load"
  BY FinishTaskIs DEF Mostly
<1> QED
  BY <1>1, <1>2, <1>3 DEF QueueShape

LEMMA PoppedIs ==
  ASSUME TypeOK, Basics, session.queue # <<>>
  PROVE  /\ Popped \in Session /\ Aside(session, Popped) /\ Popped.queue = Tail(session.queue)
         /\ Popped.pods = session.pods
         /\ QueueShape(hist, seen, Tail(session.queue))
         /\ Head(session.queue) \in Task /\ Head(session.queue) \in Range(session.queue)
         /\ Range(session.queue) = Range(Tail(session.queue)) \cup {Head(session.queue)}
<1> DEFINE q == session.queue
           r == Tail(q)
<1>1. q \in Seq(Task) /\ session \in Session
  BY BasicsCtx DEF TypeOK
<1>2. /\ r \in Seq(Task) /\ Head(q) \in Task /\ Head(q) \in Range(q)
      /\ Range(q) = Range(r) \cup {Head(q)}
  BY <1>1, TailQ
<1>3. OrderInv(hist, seen, r)
  BY <1>1, TailOrder DEF Basics, QueueShape
<1>4. QueueShape(hist, seen, r)
  BY <1>2, <1>3 DEF QueueShape, Basics
<1>5. Popped = [session EXCEPT !.queue = r]
  BY <1>1 DEF Popped, Session
<1> HIDE DEF r
<1>6. Popped \in Session /\ Aside(session, Popped) /\ Popped.queue = r /\ Popped.pods = session.pods
  BY <1>1, <1>2, <1>5, QueueTo
<1> QED
  BY <1>2, <1>4, <1>6 DEF r

\* The end of every task that does not await.
LEMMA TaskEnds ==
  ASSUME IsReady, session.queue # <<>>, UNCHANGED HandlerVars,
         Turned(Popped, session'), jobTimer' \in BOOLEAN,
         await' = "", faults' \in 0..MaxFaults
  PROVE  TypeOK' /\ Basics'
<1>1. /\ Popped \in Session /\ Aside(session, Popped) /\ Popped.queue = Tail(session.queue)
      /\ QueueShape(hist, seen, Popped.queue)
      /\ \A t \in Range(Popped.queue) : t.op # "load"
  BY PoppedIs DEF IsReady, Basics, Ready
<1>2. session' \in Session /\ session'.ready
  BY <1>1 DEF Turned, Aside, IsReady
<1>3. /\ QueueShape(hist, seen, session'.queue)
      /\ \A t \in Range(session'.queue) : t.op # "load"
  BY <1>1, MostlyShape DEF Turned
<1>4. Ready(session', await', need)
  BY <1>3 DEF Ready, IsReady, Basics
<1> QED
  BY <1>2, <1>3, <1>4, HandlerType, HandlerBasics DEF IsReady

\* The session before is as after, but for its queue and entries.
LEMMA QueueEnds ==
  ASSUME IsReady, UNCHANGED HandlerVars, session' \in Session, session'.ready,
         QueueShape(hist, seen, session'.queue), \A t \in Range(session'.queue) : t.op # "load",
         jobTimer' \in BOOLEAN, faults' \in 0..MaxFaults, await' = ""
  PROVE  TypeOK' /\ Basics'
<1>1. Ready(session', await', need)
  BY DEF Ready, IsReady, Basics
<1> QED
  BY <1>1, HandlerType, HandlerBasics DEF IsReady

LEMMA ReadyCtx ==
  ASSUME IsReady
  PROVE  /\ Ctx /\ session \in Session /\ session.queue \in Seq(Task)
         /\ jobTimer \in BOOLEAN /\ faults \in 0..MaxFaults
         /\ QueueShape(hist, seen, session.queue)
         /\ \A t \in Range(session.queue) : t.op # "load" /\ Shaped(t)
         /\ await \in {"", "match", "job"} /\ need = {}
<1>1. Ctx /\ session \in Session /\ session.queue \in Seq(Task)
  BY BasicsCtx DEF IsReady, TypeOK
<1>2. jobTimer \in BOOLEAN /\ faults \in 0..MaxFaults
  BY DEF IsReady, TypeOK
<1>3. QueueShape(hist, seen, session.queue) /\ Ready(session, await, need)
  BY DEF IsReady, Basics
<1> QED
  BY <1>1, <1>2, <1>3 DEF Ready, QueueShape

LEMMA StreamFinishedBase ==
  ASSUME IsReady, OnStreamFinished
  PROVE  TypeOK' /\ Basics'
<1> DEFINE t == Head(session.queue)
<1>1. /\ session.queue # <<>> /\ await = "" /\ t.op = "streamFinished"
      /\ session' = StreamFinished(Popped, t) /\ UNCHANGED <<jobTimer, await, faults>>
      /\ UNCHANGED HandlerVars
  BY DEF OnStreamFinished, Head1, HandlerVars
<1>2. /\ t \in Task /\ t \in Range(session.queue) /\ Popped \in Session
  BY <1>1, PoppedIs DEF IsReady
<1>3. t.name \in Names
  BY <1>1, <1>2, ReadyCtx, TaskIs DEF Shaped
<1> HIDE DEF t
<1>4. Turned(Popped, session')
  BY <1>1, <1>2, <1>3, ReadyCtx, StreamFinishedTurned
<1>5. jobTimer' \in BOOLEAN /\ await' = "" /\ faults' \in 0..MaxFaults
  BY <1>1, ReadyCtx
<1> QED
  BY <1>1, <1>4, <1>5, TaskEnds

LEMMA GraceExpiredBase ==
  ASSUME IsReady, OnGraceExpired
  PROVE  TypeOK' /\ Basics'
<1> DEFINE t == Head(session.queue)
<1>1. /\ session.queue # <<>> /\ await = "" /\ t.op = "graceExpired"
      /\ session' = GraceExpired(Popped, t.name) /\ UNCHANGED <<jobTimer, await, faults>>
      /\ UNCHANGED HandlerVars
  BY DEF OnGraceExpired, Head1, HandlerVars
<1>2. /\ t \in Task /\ t \in Range(session.queue) /\ Popped \in Session
  BY <1>1, PoppedIs DEF IsReady
<1>3. t.name \in Names
  BY <1>1, <1>2, ReadyCtx, TaskIs DEF Shaped
<1> HIDE DEF t
<1>4. Turned(Popped, session')
  BY <1>1, <1>2, <1>3, ReadyCtx, GraceExpiredTurned
<1>5. jobTimer' \in BOOLEAN /\ await' = "" /\ faults' \in 0..MaxFaults
  BY <1>1, ReadyCtx
<1> QED
  BY <1>1, <1>4, <1>5, TaskEnds

LEMMA CheckDoneBase ==
  ASSUME IsReady, OnCheckDone
  PROVE  TypeOK' /\ Basics'
<1>1. /\ session.queue # <<>> /\ await = ""
      /\ session' = CheckDone(Popped) /\ UNCHANGED <<jobTimer, await, faults>>
      /\ UNCHANGED HandlerVars
  BY DEF OnCheckDone, Head1, HandlerVars
<1>2. Popped \in Session
  BY <1>1, PoppedIs DEF IsReady
<1>3. Turned(Popped, session')
  BY <1>1, <1>2, ReadyCtx, CheckDoneTurned
<1>4. jobTimer' \in BOOLEAN /\ await' = "" /\ faults' \in 0..MaxFaults
  BY <1>1, ReadyCtx
<1> QED
  BY <1>1, <1>3, <1>4, TaskEnds

LEMMA PoppedTurned ==
  ASSUME IsReady, session.queue # <<>>
  PROVE  Turned(Popped, Popped) /\ Turned(Popped, Finish(Popped))
<1>1. Popped \in Session
  BY PoppedIs DEF IsReady
<1>2. Mostly(Popped.queue, Popped.queue)
  BY <1>1, SessionIs, MostlySelf
<1> QED
  BY <1>1, <1>2, FinishIs DEF Turned

LEMMA FinishIfJobDoneBase ==
  ASSUME IsReady, FinishIfJobDone
  PROVE  TypeOK' /\ Basics'
<1>1. /\ session.queue # <<>> /\ await = "" /\ Head(session.queue).op = "finishIfJobDone"
      /\ UNCHANGED <<jobTimer, faults>> /\ UNCHANGED HandlerVars
  BY DEF FinishIfJobDone, Head1, HandlerVars
<1>2. jobTimer' \in BOOLEAN /\ faults' \in 0..MaxFaults
  BY <1>1, ReadyCtx
<1>3. CASE session' = Popped /\ await' = await
  <2>1. Turned(Popped, session')
    BY <1>1, <1>3, PoppedTurned
  <2> QED
    BY <1>1, <1>2, <1>3, <2>1, TaskEnds
<1>4. CASE await' = "job" /\ session' = session
  <2>1. Ready(session', await', need)
    BY <1>1, <1>4 DEF IsReady, Basics, Ready
  <2>2. await' \in {"", "read", "match", "job"} /\ session' \in Session /\ session'.ready
        /\ QueueShape(hist, seen, session'.queue)
    BY <1>4, ReadyCtx DEF IsReady
  <2> QED
    BY <1>1, <1>2, <2>1, <2>2, HandlerType, HandlerBasics DEF IsReady
<1> QED
  BY <1>3, <1>4 DEF FinishIfJobDone

LEMMA JobAnswerBase ==
  ASSUME IsReady, JobAnswer
  PROVE  TypeOK' /\ Basics'
<1>1. await = "job" /\ await' = "" /\ UNCHANGED HandlerVars
  BY DEF JobAnswer, HandlerVars
<1>2. session.queue # <<>>
  BY <1>1 DEF IsReady, Basics, Ready
<1>3. faults' \in 0..MaxFaults
  BY FaultIs, ReadyCtx DEF JobAnswer, IsReady
<1>4. Popped \in Session /\ Turned(Popped, Popped) /\ Turned(Popped, Finish(Popped))
  BY <1>2, PoppedTurned DEF Turned
<1>5. Popped.jobChecks = session.jobChecks /\ session.jobChecks \in 0..MaxRechecks
  BY <1>2, PoppedIs, ReadyCtx, SessionIs DEF Aside, IsReady
<1>6. PICK done \in BOOLEAN :
        CASE done -> session' = Finish(Popped) /\ UNCHANGED jobTimer
          [] ~done /\ session.jobChecks >= MaxRechecks ->
               session' = Popped /\ UNCHANGED jobTimer
          [] ~done /\ session.jobChecks < MaxRechecks ->
               /\ session' = [Popped EXCEPT !.jobChecks = @ + 1]
               /\ jobTimer' = TRUE
  BY DEF JobAnswer
<1>7. \/ session' = Finish(Popped) /\ jobTimer' = jobTimer
      \/ session' = Popped /\ jobTimer' = jobTimer
      \/ /\ session.jobChecks < MaxRechecks /\ jobTimer' = TRUE
         /\ session' = [Popped EXCEPT !.jobChecks = @ + 1]
  <2>1. done \/ (~done /\ session.jobChecks >= MaxRechecks)
             \/ (~done /\ session.jobChecks < MaxRechecks)
    BY <1>5, Bounds
  <2> QED
    BY <1>6, <2>1
<1>8. jobTimer' \in BOOLEAN
  BY <1>7, ReadyCtx
<1>9. ASSUME session.jobChecks < MaxRechecks, session' = [Popped EXCEPT !.jobChecks = @ + 1]
      PROVE  Turned(Popped, session')
  <2>1. Popped.jobChecks + 1 \in 0..MaxRechecks
    BY <1>5, <1>9, Bounds
  <2>2. session' = [Popped EXCEPT !.jobChecks = Popped.jobChecks + 1]
    BY <1>9
  <2>3. session' \in Session /\ session'.queue = Popped.queue /\ session'.ready = Popped.ready
    BY <1>4, <2>1, <2>2 DEF Session
  <2> QED
    BY <1>4, <2>3 DEF Turned
<1>10. Turned(Popped, session')
  BY <1>4, <1>7, <1>9
<1> QED
  BY <1>1, <1>2, <1>3, <1>8, <1>10, TaskEnds

LEMMA NextBase ==
  ASSUME IsReady, session.queue # <<>>, UNCHANGED HandlerVars,
         NEW s, s \in Session, s.ready, QueueShape(hist, seen, s.queue),
         \A t \in Range(s.queue) : t.op # "load",
         s.queue # <<>>, Head(s.queue).op = "deltas",
         session' = NextDelta(s), await' = "", jobTimer' \in BOOLEAN, faults' \in 0..MaxFaults
  PROVE  TypeOK' /\ Basics'
<1> DEFINE q == s.queue
           r == NextQueue(q)
<1>1. q \in Seq(Task) /\ q # <<>>
  BY SessionIs
<1>2. Head(q) \in Range(q)
  BY <1>1, TailQ
<1>3. Head(q).deltas # <<>>
  BY <1>2 DEF QueueShape, Shaped
<1>4. /\ r \in Seq(Task) /\ OrderInv(hist, seen, r) /\ \A t \in Range(r) : Shaped(t)
      /\ \A t \in Range(r) : t \in Range(q) \/ (t.op = "deltas" /\ t.name = 0)
  BY <1>1, <1>3, NextQ DEF QueueShape
<1>5. session' \in Session /\ Aside(s, session') /\ session'.queue = r
  BY <1>1, <1>4, NextDeltaIs
<1> HIDE DEF r, q
<1>6. QueueShape(hist, seen, r) /\ \A t \in Range(r) : t.op # "load"
  BY <1>4 DEF QueueShape, q
<1> QED
  BY <1>5, <1>6, QueueEnds DEF Aside

\* The delta at hand is one of the history.
LEMMA HeadDelta ==
  ASSUME IsReady, session.queue # <<>>, Head(session.queue).op = "deltas"
  PROVE  /\ Head(Head(session.queue).deltas) \in 1..seen
         /\ Head(Head(session.queue).deltas) \in 1..Len(hist)
         /\ Head(Head(session.queue).deltas) \in Told(session.queue)
         /\ Head(session.queue).deltas # <<>> /\ Head(session.queue).name = 0
<1> DEFINE q == session.queue
           o == Head(Head(q).deltas)
<1>1. q \in Seq(Task) /\ q # <<>> /\ QueueShape(hist, seen, q)
  BY ReadyCtx
<1>2. Head(q) \in Range(q)
  BY <1>1, TailQ
<1>3. Head(q).deltas # <<>> /\ Head(q).name = 0
  BY <1>1, <1>2 DEF QueueShape, Shaped
<1>4. o \in Told(q)
  BY <1>1, <1>3, NextQ DEF QueueShape
<1>5. o \in 1..seen
  BY <1>1, <1>4 DEF QueueShape, OrderInv
<1>6. o \in 1..Len(hist)
  <2> HIDE DEF o
  <2>1. seen \in Nat /\ Len(hist) \in Nat /\ seen <= Len(hist)
    <3>1. Len(hist) \in Nat /\ seen \in 0..Len(hist)
      BY ReadyCtx, CtxIs
    <3> QED
      BY <3>1
  <2> QED
    BY <1>5, <2>1
<1> QED
  BY <1>3, <1>4, <1>5, <1>6

LEMMA OnDeltaBase ==
  ASSUME IsReady, OnDelta
  PROVE  TypeOK' /\ Basics'
<1> DEFINE q == session.queue
           o == Head(Head(q).deltas)
           s == Delta(session, o)
<1>1. /\ q # <<>> /\ await = "" /\ Head(q).op = "deltas"
      /\ UNCHANGED <<jobTimer, faults>> /\ UNCHANGED HandlerVars
  BY DEF OnDelta, Head1, HandlerVars
<1>2. o \in 1..Len(hist) /\ Head(q).name = 0
  BY <1>1, HeadDelta
<1>3. \/ session' = s /\ await' = "match"
      \/ session' = NextDelta(Joins(s, o)) /\ await' = await
      \/ session' = NextDelta(s) /\ await' = await
  <2>1. ~IsNew(session, o) \/ target = "deployment" \/ target = "job"
    BY ReadyCtx, CtxIs DEF IsNew
  <2> QED
    BY <2>1 DEF OnDelta
<1>4. Turned(session, s)
  BY <1>2, ReadyCtx, DeltaTurned
<1> HIDE DEF s
<1>5. s \in Session /\ s.ready
  BY <1>4 DEF Turned, IsReady
<1>6. QueueShape(hist, seen, s.queue) /\ \A t \in Range(s.queue) : t.op # "load"
  BY <1>4, ReadyCtx, MostlyShape DEF Turned
<1>7. s.queue # <<>> /\ Head(s.queue) = Head(q)
  BY <1>1, <1>2, <1>4 DEF Turned, Mostly
<1>8. jobTimer' \in BOOLEAN /\ faults' \in 0..MaxFaults
  BY <1>1, ReadyCtx
<1>9. CASE session' = s /\ await' = "match"
  <2>1. Ready(session', await', need)
    BY <1>1, <1>6, <1>7, <1>9, ReadyCtx DEF Ready
  <2>2. await' \in {"", "read", "match", "job"}
    BY <1>9
  <2> QED
    BY <1>1, <1>5, <1>6, <1>8, <1>9, <2>1, <2>2, HandlerType, HandlerBasics DEF IsReady
<1>10. CASE session' = NextDelta(s) /\ await' = await
  BY <1>1, <1>5, <1>6, <1>7, <1>8, <1>10, NextBase
<1>11. CASE session' = NextDelta(Joins(s, o)) /\ await' = await
  <2> DEFINE j == Joins(s, o)
  <2>1. Turned(s, j) /\ j.queue = s.queue
    BY <1>2, <1>5, ReadyCtx, JoinsTurned
  <2> HIDE DEF j
  <2>2. j \in Session /\ j.ready
    BY <1>5, <2>1 DEF Turned
  <2> QED
    BY <1>1, <1>6, <1>7, <1>8, <1>11, <2>1, <2>2, NextBase DEF j
<1> QED
  BY <1>3, <1>9, <1>10, <1>11

LEMMA MatcherAnswersBase ==
  ASSUME IsReady, MatcherAnswers
  PROVE  TypeOK' /\ Basics'
<1> DEFINE q == session.queue
           o == Head(Head(q).deltas)
           n == hist[o].name
           j == Joins(session, o)
<1>1. /\ await = "match" /\ await' = "" /\ UNCHANGED <<podVars, start, job, loading, disposed, jobTimer>>
  BY DEF MatcherAnswers
<1>2. q # <<>> /\ Head(q).op = "deltas" /\ q \in Seq(Task)
  BY <1>1, ReadyCtx DEF IsReady, Basics, Ready
<1>3. o \in 1..Len(hist) /\ Head(q).deltas # <<>>
  BY <1>2, HeadDelta
<1>4. n \in Names
  BY <1>3, ReadyCtx, PodIs
<1>5. Turned(session, j) /\ j.queue = q
  BY <1>3, ReadyCtx, JoinsTurned
<1>6. \/ session' = NextDelta(j) /\ unsure' = unsure \ {n} /\ faults' = faults
      \/ session' = NextDelta(session) /\ unsure' = unsure \cup {n} /\ Fault
  BY DEF MatcherAnswers
<1> HIDE DEF o, n, j
<1>7. faults' \in 0..MaxFaults
  BY <1>6, FaultIs, ReadyCtx DEF IsReady
<1>8. unsure' \subseteq Names
  BY <1>4, <1>6 DEF IsReady, TypeOK
<1>9. PICK s \in {session, j} : session' = NextDelta(s)
  BY <1>6
<1>10. s \in Session /\ s.ready /\ s.queue = q
  BY <1>5, <1>9, ReadyCtx DEF Turned, IsReady
<1> DEFINE r == NextQueue(q)
<1>11. /\ r \in Seq(Task) /\ OrderInv(hist, seen, r) /\ \A t \in Range(r) : Shaped(t)
       /\ \A t \in Range(r) : t \in Range(q) \/ (t.op = "deltas" /\ t.name = 0)
  BY <1>2, <1>3, ReadyCtx, NextQ DEF QueueShape
<1>12. session' \in Session /\ Aside(s, session') /\ session'.queue = r
  BY <1>2, <1>9, <1>10, <1>11, NextDeltaIs
<1> HIDE DEF r, q
<1>13. QueueShape(hist, seen, r) /\ \A t \in Range(r) : t.op # "load"
  BY <1>11, ReadyCtx DEF QueueShape, q
<1>14. TypeOK'
  BY <1>1, <1>7, <1>8, <1>12 DEF IsReady, TypeOK, PodTypeOK, podVars, start, loading
<1>15. Ready(session', await', need')
  BY <1>1, <1>12, <1>13, ReadyCtx DEF Ready, loading
<1>16. Basics'
  BY <1>1, <1>10, <1>12, <1>13, <1>15
     DEF IsReady, Basics, podVars, start, loading, Live, Aside
<1> QED
  BY <1>14, <1>16

-----------------------------------------------------------------------------
(* Timers and streams                                                      *)

\* A task without deltas at the end of the queue.
LEMMA PushShape ==
  ASSUME NEW q \in Seq(Task), QueueShape(hist, seen, q), NEW t \in Task, t.deltas = <<>>,
         Shaped(t)
  PROVE  /\ Append(q, t) \in Seq(Task) /\ QueueShape(hist, seen, Append(q, t))
         /\ Append(q, t) # <<>> /\ (q # <<>> => Head(Append(q, t)) = Head(q))
         /\ Range(Append(q, t)) = Range(q) \cup {t}
         /\ Told(Append(q, t)) = Told(q)
<1>1. OrderInv(hist, seen, Append(q, t))
  BY PushOrder DEF QueueShape
<1>2. /\ Append(q, t) \in Seq(Task) /\ Range(Append(q, t)) = Range(q) \cup {t}
      /\ (q # <<>> => Head(Append(q, t)) = Head(q)) /\ Append(q, t) # <<>>
  BY PushRange
<1>3. \A u \in Range(Append(q, t)) : Shaped(u)
  BY <1>2 DEF QueueShape
<1>4. Told(Append(q, t)) = Told(q)
  <2>1. \A o : o \notin Range(t.deltas)
    BY NoDeltas
  <2>2. \A o : o \in Told(Append(q, t)) <=> o \in Told(q)
    BY <1>2, <2>1, ToldIs
  <2> QED
    BY <2>2
<1> QED
  BY <1>1, <1>2, <1>3, <1>4 DEF QueueShape

LEMMA PushBase ==
  ASSUME IsReady, UNCHANGED HandlerVars, UNCHANGED await,
         NEW s \in Session, s.ready, s.queue = session.queue,
         NEW t \in Task, t.deltas = <<>>, Shaped(t), t.op # "load",
         session' = Push(s, t), jobTimer' \in BOOLEAN, faults' \in 0..MaxFaults
  PROVE  TypeOK' /\ Basics'
<1> DEFINE q == session.queue
           r == Append(q, t)
<1>1. session' \in Session /\ Aside(s, session') /\ session'.queue = r
  BY PushIs
<1>2. q \in Seq(Task) /\ QueueShape(hist, seen, q)
  BY ReadyCtx
<1>3. /\ r \in Seq(Task) /\ QueueShape(hist, seen, r)
      /\ r # <<>> /\ (q # <<>> => Head(r) = Head(q))
      /\ Range(r) = Range(q) \cup {t}
  BY <1>2, PushShape
<1> HIDE DEF r
<1>4. Ready(session', await', need)
  BY <1>1, <1>3 DEF IsReady, Basics, Ready
<1>5. await' \in {"", "read", "match", "job"}
  BY ReadyCtx
<1> QED
  BY <1>1, <1>3, <1>4, <1>5, HandlerType, HandlerBasics DEF IsReady, Aside

LEMMA JobTimerFiresBase ==
  ASSUME IsReady, JobTimerFires
  PROVE  TypeOK' /\ Basics'
<1> DEFINE t == Do("checkDone", 0, <<>>, FALSE)
<1>1. t \in Task /\ t.deltas = <<>> /\ Shaped(t) /\ t.op # "load"
  BY EmptyDeltas DEF Do, Task, Shaped
<1>2. /\ UNCHANGED HandlerVars /\ UNCHANGED <<await, faults>> /\ session' = Push(session, t)
      /\ jobTimer' = FALSE
  BY DEF JobTimerFires, HandlerVars
<1> HIDE DEF t
<1> QED
  BY <1>1, <1>2, PushBase, ReadyCtx DEF IsReady

LEMMA TimerOffIs ==
  ASSUME NEW e \in Entry
  PROVE  LET r == [e EXCEPT !.timer = FALSE] IN
         /\ r \in Entry /\ r.state = e.state /\ ~r.timer /\ r.known = e.known
         /\ r.uid = e.uid /\ r.left = e.left /\ r.term = e.term /\ r.run = e.run
         /\ r.request = e.request
BY DEF Entry

LEMMA RequestOffIs ==
  ASSUME NEW e \in Entry
  PROVE  LET r == [e EXCEPT !.request = FALSE] IN
         /\ r \in Entry /\ r.state = e.state /\ r.timer = e.timer /\ r.known = e.known
         /\ r.uid = e.uid /\ r.left = e.left /\ r.term = e.term /\ r.run = e.run
         /\ ~r.request
BY DEF Entry

LEMMA NamedTask ==
  ASSUME NEW n \in Names, NEW op \in {"graceExpired", "streamFinished"}, NEW b \in BOOLEAN
  PROVE  LET t == Do(op, n, <<>>, b) IN
         t \in Task /\ t.deltas = <<>> /\ Shaped(t) /\ t.op = op /\ t.name = n /\ t.notFound = b
BY EmptyDeltas, Bounds DEF Do, Task, Shaped

LEMMA GraceTimerFiresBase ==
  ASSUME IsReady, NEW n \in Names, GraceTimerFires(n)
  PROVE  TypeOK' /\ Basics'
<1> DEFINE t == Do("graceExpired", n, <<>>, FALSE)
           e == [session.pods[n] EXCEPT !.timer = FALSE]
           s == [session EXCEPT !.pods[n] = e]
<1>1. t \in Task /\ t.deltas = <<>> /\ Shaped(t) /\ t.op = "graceExpired"
  BY NamedTask
<1>2. e \in Entry
  BY ReadyCtx, SessionIs, TimerOffIs
<1>3. /\ UNCHANGED HandlerVars /\ UNCHANGED <<await, jobTimer, faults>>
      /\ session' = Push(s, t)
  BY ReadyCtx DEF GraceTimerFires, HandlerVars, Session
<1> HIDE DEF t, e
<1>4. Puts(session, s, n, e)
  BY <1>2, ReadyCtx, PutIs
<1> HIDE DEF s
<1>5. s \in Session /\ s.ready /\ s.queue = session.queue
  BY <1>4 DEF Puts, Aside, IsReady
<1> QED
  BY <1>1, <1>3, <1>5, PushBase, ReadyCtx

LEMMA StreamSettlesBase ==
  ASSUME IsReady, NEW n \in Names, StreamSettles(n)
  PROVE  TypeOK' /\ Basics'
<1>1. PICK b \in {FALSE, Stored(n) = 0} :
        session' = Push([session EXCEPT !.pods[n].request = FALSE],
                        Do("streamFinished", n, <<>>, b))
  BY DEF StreamSettles
<1> DEFINE t == Do("streamFinished", n, <<>>, b)
           e == [session.pods[n] EXCEPT !.request = FALSE]
           s == [session EXCEPT !.pods[n] = e]
<1>2. t \in Task /\ t.deltas = <<>> /\ Shaped(t) /\ t.op = "streamFinished"
  <2>1. b \in BOOLEAN
    BY <1>1
  <2> QED
    BY <2>1, NamedTask
<1>3. e \in Entry
  BY ReadyCtx, SessionIs, RequestOffIs
<1>4. UNCHANGED HandlerVars /\ UNCHANGED <<await, jobTimer>> /\ session' = Push(s, t)
  BY <1>1, ReadyCtx DEF StreamSettles, HandlerVars, Session
<1>5. faults' \in 0..MaxFaults
  BY FaultIs, ReadyCtx DEF StreamSettles, IsReady
<1> HIDE DEF t, e
<1>6. Puts(session, s, n, e)
  BY <1>3, ReadyCtx, PutIs
<1> HIDE DEF s
<1>7. s \in Session /\ s.ready /\ s.queue = session.queue
  BY <1>6 DEF Puts, Aside, IsReady
<1> QED
  BY <1>2, <1>4, <1>5, <1>7, PushBase, ReadyCtx

-----------------------------------------------------------------------------
(* start and loadInitial                                                   *)

LoadTask == Do("load", 0, <<>>, FALSE)

LEMMA LoadTaskIs ==
  /\ LoadTask \in Task /\ LoadTask.deltas = <<>> /\ LoadTask.op = "load"
  /\ LoadTask.name = 0 /\ Shaped(LoadTask)
<1>1. 0 \in Names \cup {0} /\ FALSE \in BOOLEAN
  OBVIOUS
<1> QED
  BY <1>1, EmptyDeltas DEF LoadTask, Do, Task, Shaped

\* The queue that start() leaves.
LEMMA BegunBase ==
  ASSUME TypeOK, Basics, stage # "started", Begin
  PROVE  /\ session' \in Session /\ ~session'.ready /\ session'.closed = session.closed
         /\ QueueShape(hist, seen, session'.queue)
         /\ Loading(session', "", {}, FALSE, target', live')
         /\ Told(session'.queue) = {} /\ session'.queue = <<LoadTask>>
<1>1. /\ session \in Session /\ session.queue = <<>> /\ ~session.ready /\ ~session.finishing
      /\ \A n \in Names : session.pods[n] = Unknown
  BY DEF Basics, Before, TypeOK
<1>2. QueueShape(hist, seen, <<>>) /\ <<>> \in Seq(Task) /\ Told(<<>>) = {}
  BY <1>1, NoDeltas DEF Basics
<1> DEFINE q == Append(<<>>, LoadTask)
<1>3. q = <<LoadTask>>
  OBVIOUS
<1> HIDE DEF q
<1>4. QueueShape(hist, seen, q) /\ Told(q) = {}
  BY <1>2, LoadTaskIs, PushShape DEF q
<1>5. session' = Push(session, LoadTask)
  BY DEF Begin, LoadTask
<1>6. session' \in Session /\ Aside(session, session') /\ session'.queue = q
      /\ session'.pods = session.pods
  BY <1>1, <1>5, LoadTaskIs, PushIs DEF q
<1>7. q # <<>> /\ Head(q) = LoadTask /\ \A k \in DOMAIN q : k = 1
  BY <1>3
<1>8. Loading(session', "", {}, FALSE, target', live')
  BY <1>1, <1>6, <1>7, LoadTaskIs DEF Loading, Aside
<1> QED
  BY <1>1, <1>3, <1>4, <1>6, <1>8 DEF Aside

LEMMA FeedAnswersBase ==
  ASSUME TypeOK, Basics, ~disposed, FeedAnswers
  PROVE  TypeOK' /\ Basics'
<1>1. /\ stage = "feed" /\ live' \in BOOLEAN /\ leased' = (live' /\ ~disposed)
      /\ UNCHANGED <<podVars, target, follow, job, loading, disposed, jobTimer, await, unsure,
                     faults>>
  BY DEF FeedAnswers
<1>2. Before(session, await, need, jobTimer, subscribed)
  BY <1>1 DEF Basics
<1>3. CASE target = "pods"
  <2>1. Begin /\ subscribed' = (follow /\ live')
    BY <1>3 DEF FeedAnswers
  <2>2. /\ session' \in Session /\ ~session'.ready
        /\ QueueShape(hist, seen, session'.queue) /\ Loading(session', "", {}, FALSE, target', live')
    BY <1>1, <2>1, BegunBase
  <2>3. stage' = "started"
    BY <2>1 DEF Begin
  <2>4. TypeOK'
    BY <1>1, <2>1, <2>2, <2>3 DEF TypeOK, PodTypeOK, podVars, loading
  <2>5. Loading(session', await', need', jobTimer', target', live')
    BY <1>1, <1>2, <1>3, <2>2 DEF Before, Loading, loading
  <2>6. Basics'
    BY <1>1, <2>1, <2>2, <2>3, <2>5 DEF Basics, podVars, Live
  <2> QED
    BY <2>4, <2>6
<1>4. CASE target # "pods"
  <2>1. stage' = "target" /\ UNCHANGED <<session, subscribed>>
    BY <1>4 DEF FeedAnswers
  <2>2. TypeOK'
    BY <1>1, <2>1 DEF TypeOK, PodTypeOK, podVars, loading
  <2>3. Basics'
    BY <1>1, <1>2, <2>1 DEF Basics, podVars, loading
  <2> QED
    BY <2>2, <2>3
<1> QED
  BY <1>3, <1>4

LEMMA TargetAnswersBase ==
  ASSUME TypeOK, Basics, ~disposed, TargetAnswers
  PROVE  TypeOK' /\ Basics'
<1>1. /\ stage = "target" /\ Begin /\ subscribed' = Live
      /\ got' = IF live THEN got ELSE [n \in Names |-> Stored(n)]
      /\ UNCHANGED <<podVars, target, follow, live, leased, job, need, missing, disposed,
                     jobTimer, await, unsure, faults>>
  BY DEF TargetAnswers
<1>2. Before(session, await, need, jobTimer, subscribed)
  BY <1>1 DEF Basics
<1>3. /\ session' \in Session /\ ~session'.ready
      /\ QueueShape(hist, seen, session'.queue) /\ Loading(session', "", {}, FALSE, target', live')
  BY <1>1, BegunBase
<1>4. stage' = "started"
  BY <1>1 DEF Begin
<1>5. got' \in [Names -> 0..Len(hist)]
  <2>1. [n \in Names |-> Stored(n)] \in [Names -> 0..Len(hist)]
    BY BasicsCtx, CachedType
  <2> QED
    BY <1>1, <2>1 DEF TypeOK
<1>6. subscribed' \in BOOLEAN
  BY <1>1 DEF Live, TypeOK
<1>7. TypeOK'
  BY <1>1, <1>3, <1>4, <1>5, <1>6 DEF TypeOK, PodTypeOK, podVars
<1>8. Loading(session', await', need', jobTimer', target', live')
  BY <1>1, <1>2, <1>3 DEF Before, Loading
<1>9. Basics'
  BY <1>1, <1>3, <1>4, <1>8 DEF Basics, podVars, Live
<1> QED
  BY <1>7, <1>9

LEMMA StartFailsBase ==
  ASSUME TypeOK, Basics, StartFails
  PROVE  TypeOK' /\ Basics'
<1>1. /\ stage \in {"feed", "target"} /\ stage' = "returned"
      /\ UNCHANGED <<podVars, target, follow, live, leased, subscribed, job, loading, disposed,
                     jobTimer, await, unsure>>
  BY DEF StartFails, Returns
<1>2. PICK how \in {"over", "retry"} : session' = Close(session, how)
  BY DEF StartFails, Returns
<1>3. session \in Session /\ Before(session, await, need, jobTimer, subscribed)
  BY <1>1 DEF Basics, TypeOK
<1>4. /\ session' \in Session /\ session'.queue = session.queue /\ session'.pods = session.pods
      /\ session'.ready = session.ready /\ session'.finishing = session.finishing
  BY <1>2, <1>3, CloseIs
<1>5. faults' \in 0..MaxFaults
  BY FaultIs DEF StartFails
<1>6. TypeOK'
  BY <1>1, <1>4, <1>5 DEF TypeOK, PodTypeOK, podVars, loading
<1>7. Before(session', await', need', jobTimer', subscribed')
  BY <1>1, <1>3, <1>4 DEF Before, loading
<1>8. Basics'
  BY <1>1, <1>4, <1>7 DEF Basics, podVars
<1> QED
  BY <1>6, <1>8

IsLoading == TypeOK /\ Basics /\ stage = "started" /\ ~session.ready

LEMMA OthersBehind ==
  ASSUME NEW q \in Seq(Task), q # <<>>, \A k \in DOMAIN q : k # 1 => q[k].op = "deltas"
  PROVE  \A t \in Range(Tail(q)) : t.op = "deltas"
<1> DEFINE r == Tail(q)
<1>1. \A i \in DOMAIN r : i \in Nat \ {0} /\ i + 1 \in DOMAIN q /\ r[i] = q[i + 1]
  BY TailIs
<1> HIDE DEF r
<1>2. ASSUME NEW t \in Range(r) PROVE t.op = "deltas"
  <2>1. PICK i \in DOMAIN r : r[i] = t
    BY DEF Range
  <2>2. i \in Nat /\ i # 0 /\ i + 1 \in DOMAIN q /\ t = q[i + 1]
    BY <1>1, <2>1
  <2>3. i + 1 # 1
    BY <2>2
  <2> QED
    BY <2>2, <2>3
<1> QED
  BY <1>2 DEF r

\* The initial load ends.
LEMMA LoadedBase ==
  ASSUME IsLoading, NEW found \in [Names -> 0..Len(hist)], NEW absent,
         UNCHANGED <<podVars, start, job, disposed, jobTimer>>, need' = {}, await' = "",
         got' \in [Names -> 0..Len(hist)], missing' \subseteq Names, unsure' \subseteq Names,
         faults' \in 0..MaxFaults, session' = Loaded(Popped, found, absent)
  PROVE  TypeOK' /\ Basics'
<1>1. /\ session.queue # <<>> /\ Head(session.queue).op = "load"
      /\ \A k \in DOMAIN session.queue : k # 1 => session.queue[k].op = "deltas"
  BY DEF IsLoading, Basics, Loading
<1>2. /\ Popped \in Session /\ Popped.queue = Tail(session.queue)
      /\ QueueShape(hist, seen, Popped.queue)
  BY <1>1, PoppedIs DEF IsLoading
<1>3. \A t \in Range(Popped.queue) : t.op # "load"
  <2>1. \A t \in Range(Tail(session.queue)) : t.op = "deltas"
    BY <1>1, BasicsCtx, OthersBehind DEF IsLoading
  <2> QED
    BY <1>2, <2>1
<1>4. session' \in Session /\ session'.ready /\ Mostly(Popped.queue, session'.queue)
  BY <1>2, BasicsCtx, LoadedTurned DEF IsLoading
<1>5. /\ QueueShape(hist, seen, session'.queue)
      /\ \A t \in Range(session'.queue) : t.op # "load"
  BY <1>2, <1>3, <1>4, MostlyShape
<1>6. Ready(session', await', need')
  BY <1>5 DEF Ready
<1>7. TypeOK'
  BY <1>4 DEF IsLoading, TypeOK, PodTypeOK, podVars, start
<1>8. Basics'
  BY <1>4, <1>5, <1>6 DEF IsLoading, Basics, podVars, start, Live
<1> QED
  BY <1>7, <1>8

\* What loadInitial starts from.
FoundFirst == IF live THEN [n \in Names |-> Cached(n)] ELSE got

LEMMA FoundFirstIs ==
  ASSUME Ctx
  PROVE  FoundFirst \in [Names -> 0..Len(hist)]
<1>1. [n \in Names |-> Cached(n)] \in [Names -> 0..Len(hist)]
  BY CachedType
<1> QED
  BY <1>1, CtxIs DEF FoundFirst

LEMMA AsksIs ==
  ASSUME Ctx
  PROVE  /\ Asks \subseteq Names
         /\ Asks = IF target = "pods" THEN {n \in Names : ~live \/ Cached(n) = 0}
                   ELSE IF target = "deployment" /\ live THEN {n \in Names : Cached(n) # 0}
                   ELSE {}
<1>1. Asks = IF target = "pods" THEN {n \in Names : ~live \/ Cached(n) = 0}
             ELSE IF target = "deployment" /\ live THEN {n \in Names : Cached(n) # 0}
             ELSE {}
  BY DEF Asks
<1> QED
  BY <1>1

LEMMA LoadInitialBase ==
  ASSUME IsLoading, LoadInitial
  PROVE  TypeOK' /\ Basics'
<1>1. /\ await = "" /\ UNCHANGED <<podVars, start, job, missing, disposed, jobTimer, unsure, faults>>
      /\ IF Asks = {}
         THEN session' = Loaded(Popped, FoundFirst, {}) /\ UNCHANGED <<need, got, await>>
         ELSE /\ need' = Asks /\ got' = FoundFirst
              /\ await' = IF target = "pods" THEN "read" ELSE "match"
              /\ session' = session
  BY DEF LoadInitial, Head1, FoundFirst
<1>2. Ctx /\ FoundFirst \in [Names -> 0..Len(hist)] /\ Asks \subseteq Names
  BY BasicsCtx, FoundFirstIs, AsksIs DEF IsLoading
<1>3. Loading(session, await, need, jobTimer, target, live)
  BY DEF IsLoading, Basics
<1>4. CASE Asks = {}
  <2>1. session' = Loaded(Popped, FoundFirst, {}) /\ UNCHANGED <<need, got, await>>
    BY <1>1, <1>4
  <2>2. need' = {} /\ await' = "" /\ got' \in [Names -> 0..Len(hist)]
        /\ missing' \subseteq Names /\ unsure' \subseteq Names /\ faults' \in 0..MaxFaults
    BY <1>1, <1>3, <2>1 DEF Loading, IsLoading, TypeOK
  <2> QED
    BY <1>1, <1>2, <2>1, <2>2, LoadedBase
<1>5. CASE Asks # {}
  <2>1. /\ need' = Asks /\ got' = FoundFirst /\ session' = session
        /\ await' = IF target = "pods" THEN "read" ELSE "match"
    BY <1>1, <1>5
  <2>2. TypeOK'
    BY <1>1, <1>2, <2>1 DEF IsLoading, TypeOK, PodTypeOK, podVars, start
  <2>3. target = "pods" \/ (target = "deployment" /\ live)
    BY <1>2, <1>5, AsksIs
  <2>4. Loading(session', await', need', jobTimer', target', live')
    BY <1>1, <1>3, <1>5, <2>1, <2>3 DEF Loading, start
  <2>5. Basics'
    BY <1>1, <2>1, <2>4 DEF IsLoading, Basics, podVars, start, Live
  <2> QED
    BY <2>2, <2>5
<1> QED
  BY <1>4, <1>5

LEMMA ZeroIn ==
  ASSUME NEW N \in Nat
  PROVE  0 \in 0..N
OBVIOUS

LEMMA OneTask ==
  /\ <<>> \in Seq(Task)
  /\ \A t \in Task : <<t>> \in Seq(Task) /\ Len(<<t>>) = 1
OBVIOUS

LEMMA LoadAnswerBase ==
  ASSUME IsLoading, await # "", NEW n \in need, NEW o \in 0..Len(hist), NEW notFound,
         NEW isUnsure, LoadAnswer(n, o, notFound, isUnsure), faults' \in 0..MaxFaults
  PROVE  TypeOK' /\ Basics'
<1> DEFINE g == [got EXCEPT ![n] = o]
<1>1. /\ need' = need \ {n} /\ UNCHANGED <<podVars, start, job, disposed, jobTimer>>
      /\ missing' = IF notFound THEN missing \cup {n} ELSE missing
      /\ unsure' = IF isUnsure THEN unsure \cup {n} ELSE unsure
  BY DEF LoadAnswer
<1>2. /\ need \subseteq Names /\ n \in Names /\ missing' \subseteq Names /\ unsure' \subseteq Names
      /\ g \in [Names -> 0..Len(hist)]
  BY <1>1 DEF IsLoading, TypeOK
<1>3. Loading(session, await, need, jobTimer, target, live)
  BY DEF IsLoading, Basics
<1>4. CASE need' # {}
  <2>1. got' = g /\ UNCHANGED <<await, session>>
    BY <1>4 DEF LoadAnswer
  <2>2. TypeOK'
    BY <1>1, <1>2, <2>1 DEF IsLoading, TypeOK, PodTypeOK, podVars, start
  <2>3. Loading(session', await', need', jobTimer', target', live')
    BY <1>1, <1>3, <1>4, <2>1 DEF Loading, start
  <2>4. Basics'
    BY <1>1, <2>1, <2>3 DEF IsLoading, Basics, podVars, start, Live
  <2> QED
    BY <2>2, <2>4
<1>5. CASE need' = {}
  <2>1. /\ await' = "" /\ session' = Loaded(Popped, g, missing')
        /\ got' = IF live THEN [m \in Names |-> 0] ELSE g
    BY <1>5 DEF LoadAnswer
  <2>2. got' \in [Names -> 0..Len(hist)]
    <3>1. 0 \in 0..Len(hist)
      <4>1. Len(hist) \in Nat
        BY BasicsCtx, CtxIs DEF IsLoading
      <4> QED
        BY <4>1, ZeroIn
    <3>2. [m \in Names |-> 0] \in [Names -> 0..Len(hist)]
      BY <3>1
    <3> QED
      BY <1>2, <2>1, <3>2
  <2> DEFINE absent == missing'
  <2>3. \E a : session' = Loaded(Popped, g, a)
    BY <2>1
  <2> HIDE DEF g
  <2>4. PICK a : session' = Loaded(Popped, g, a)
    BY <2>3
  <2> QED
    BY <1>1, <1>2, <1>5, <2>1, <2>2, <2>4, LoadedBase
<1> QED
  BY <1>4, <1>5

LEMMA ReadAnswerBase ==
  ASSUME IsLoading, NEW n \in Names, ReadAnswer(n)
  PROVE  TypeOK' /\ Basics'
<1>1. await # "" /\ n \in need
  BY DEF ReadAnswer
<1>2. Stored(n) \in 0..Len(hist) /\ 0 \in 0..Len(hist)
  BY BasicsCtx, CachedType, CtxIs DEF IsLoading
<1>3. CASE /\ LoadAnswer(n, Stored(n), Stored(n) = 0, Stored(n) # Cached(n))
           /\ UNCHANGED faults
  <2>1. faults' \in 0..MaxFaults
    BY <1>3 DEF IsLoading, TypeOK
  <2> QED
    BY <1>1, <1>2, <1>3, <2>1, LoadAnswerBase
<1>4. CASE Fault /\ LoadAnswer(n, 0, FALSE, TRUE)
  <2>1. faults' \in 0..MaxFaults
    BY <1>4, FaultIs DEF IsLoading
  <2> QED
    BY <1>1, <1>2, <1>4, <2>1, LoadAnswerBase
<1> QED
  BY <1>3, <1>4 DEF ReadAnswer

LEMMA MatchesInitialBase ==
  ASSUME IsLoading, NEW n \in Names, MatchesInitial(n)
  PROVE  TypeOK' /\ Basics'
<1>1. await # "" /\ n \in need
  BY DEF MatchesInitial
<1>2. got[n] \in 0..Len(hist) /\ 0 \in 0..Len(hist)
  BY BasicsCtx, CtxIs DEF IsLoading
<1>3. CASE LoadAnswer(n, got[n], FALSE, FALSE) /\ UNCHANGED faults
  <2>1. faults' \in 0..MaxFaults
    BY <1>3 DEF IsLoading, TypeOK
  <2> QED
    BY <1>1, <1>2, <1>3, <2>1, LoadAnswerBase
<1>4. CASE Fault /\ LoadAnswer(n, 0, FALSE, TRUE)
  <2>1. faults' \in 0..MaxFaults
    BY <1>4, FaultIs DEF IsLoading
  <2> QED
    BY <1>1, <1>2, <1>4, <2>1, LoadAnswerBase
<1> QED
  BY <1>3, <1>4 DEF MatchesInitial

-----------------------------------------------------------------------------
(* dispose, and what happens behind a closed socket                        *)

LEMMA DisposeBase ==
  ASSUME TypeOK, Basics, Dispose
  PROVE  TypeOK' /\ disposed' /\ QuietInv'
<1> DEFINE p == [n \in Names |-> [session.pods[n] EXCEPT !.timer = FALSE, !.request = FALSE]]
           q == IF await = "" THEN <<>> ELSE <<Head(session.queue)>>
<1>1. /\ disposed' /\ ~leased' /\ ~subscribed' /\ ~jobTimer'
      /\ disposed' = TRUE /\ leased' = FALSE /\ subscribed' = FALSE /\ jobTimer' = FALSE
      /\ UNCHANGED <<podVars, target, follow, stage, live, job, loading, await, unsure, faults>>
  BY DEF Dispose
<1>2. session \in Session /\ session.queue \in Seq(Task)
  BY BasicsCtx DEF TypeOK
<1>3. session' = [session EXCEPT !.pods = p, !.queue = q]
  BY <1>2 DEF Dispose, Session
<1>4. /\ p \in [Names -> Entry]
      /\ \A n \in Names : ~p[n].timer /\ ~p[n].request
  <2>1. ASSUME NEW n \in Names
        PROVE  /\ [session.pods[n] EXCEPT !.timer = FALSE, !.request = FALSE] \in Entry
               /\ ~p[n].timer /\ ~p[n].request
    <3>1. session.pods[n] \in Entry
      BY <1>2, SessionIs
    <3> QED
      BY <3>1 DEF Entry
  <2> QED
    BY <2>1
<1>5. await # "" => session.queue # <<>>
  BY DEF Basics, Before, Loading, Ready, TypeOK
<1>6. q \in Seq(Task) /\ (await = "" => q = <<>>) /\ (await # "" => Len(q) = 1)
  <2>1. CASE await = ""
    <3>1. q = <<>>
      BY <2>1
    <3> HIDE DEF q
    <3> QED
      BY <2>1, <3>1, OneTask
  <2>2. CASE await # ""
    <3>1. Head(session.queue) \in Task
      BY <1>2, <1>5, <2>2, TailQ
    <3>2. q = <<Head(session.queue)>>
      BY <2>2
    <3> HIDE DEF q
    <3> QED
      BY <2>2, <3>1, <3>2, OneTask
  <2> QED
    BY <2>1, <2>2
<1> HIDE DEF p, q
<1>7. session' \in Session /\ session'.pods = p /\ session'.queue = q
  BY <1>2, <1>3, <1>4, <1>6 DEF Session
<1>8. TypeOK'
  BY <1>1, <1>7 DEF TypeOK, PodTypeOK, podVars, loading
<1>9. QuietInv'
  BY <1>1, <1>4, <1>6, <1>7 DEF QuietInv
<1> QED
  BY <1>1, <1>8, <1>9

LEMMA TailOfOne ==
  ASSUME NEW q \in Seq(Task), Len(q) = 1
  PROVE  Tail(q) \in Seq(Task) /\ Tail(q) = <<>>
<1> DEFINE r == Tail(q)
<1>1. r \in Seq(Task) /\ Len(r) = 0
  OBVIOUS
<1> HIDE DEF r
<1>2. r = <<>>
  BY <1>1, EmptySeq
<1> QED
  BY <1>1, <1>2 DEF r

\* What can still happen does nothing to the session.
LEMMA QuietKept ==
  ASSUME TypeOK, disposed, QuietInv, [Next]_vars
  PROVE  TypeOK' /\ disposed' /\ QuietInv' /\ session'.finishing = session.finishing
<1>1. ~subscribed /\ ~leased /\ ~jobTimer /\ session \in Session
      /\ (await = "" => session.queue = <<>>)
      /\ (await # "" => Len(session.queue) = 1)
      /\ \A n \in Names : ~session.pods[n].timer /\ ~session.pods[n].request
  BY DEF QuietInv, TypeOK
<1>2. CASE FeedAnswers
  <2>1. /\ stage' = "returned" /\ UNCHANGED <<session, subscribed>> /\ live' \in BOOLEAN
        /\ ~leased' /\ leased' \in BOOLEAN
        /\ UNCHANGED <<podVars, target, follow, job, loading, disposed, jobTimer, await, unsure,
                       faults>>
    BY <1>2 DEF FeedAnswers
  <2>2. TypeOK'
    BY <2>1 DEF TypeOK, PodTypeOK, podVars, loading
  <2> QED
    BY <1>1, <2>1, <2>2 DEF QuietInv
<1>3. CASE TargetAnswers
  <2>1. /\ stage' = "returned" /\ UNCHANGED <<session, subscribed, got>>
        /\ UNCHANGED <<podVars, target, follow, live, leased, job, need, missing, disposed,
                       jobTimer, await, unsure, faults>>
    BY <1>3 DEF TargetAnswers
  <2>2. TypeOK'
    BY <2>1 DEF TypeOK, PodTypeOK, podVars
  <2> QED
    BY <1>1, <2>1, <2>2 DEF QuietInv
<1>4. CASE StartFails
  <2>1. /\ stage' = "returned"
        /\ UNCHANGED <<podVars, target, follow, live, leased, subscribed, job, loading, disposed,
                       jobTimer, await, unsure>>
    BY <1>4 DEF StartFails, Returns
  <2>2. PICK how \in {"over", "retry"} : session' = Close(session, how)
    BY <1>4 DEF StartFails, Returns
  <2>3. session' \in Session /\ session'.queue = session.queue /\ session'.pods = session.pods
        /\ session'.finishing = session.finishing
    BY <1>1, <2>2, CloseIs
  <2>4. faults' \in 0..MaxFaults
    BY <1>4, FaultIs DEF StartFails
  <2>5. TypeOK'
    BY <2>1, <2>3, <2>4 DEF TypeOK, PodTypeOK, podVars, loading
  <2> QED
    BY <1>1, <2>1, <2>3, <2>5 DEF QuietInv
<1>5. CASE AnswersDisposed
  <2>1. /\ await # "" /\ await' = "" /\ session' = Popped
        /\ UNCHANGED <<podVars, start, job, loading, disposed, jobTimer, unsure, faults>>
    BY <1>5 DEF AnswersDisposed
  <2> DEFINE r == Tail(session.queue)
  <2>2. r \in Seq(Task) /\ r = <<>>
    BY <1>1, <2>1, SessionIs, TailOfOne
  <2>3. Popped = [session EXCEPT !.queue = r]
    BY <1>1 DEF Popped, Session
  <2> HIDE DEF r
  <2>4. session' \in Session /\ session'.queue = r /\ session'.pods = session.pods
        /\ session'.finishing = session.finishing
    BY <1>1, <2>1, <2>2, <2>3, QueueTo DEF Aside
  <2>5. TypeOK'
    BY <2>1, <2>4 DEF TypeOK, PodTypeOK, podVars, start, loading
  <2>6. QuietInv'
    BY <1>1, <2>1, <2>2, <2>4 DEF QuietInv, start
  <2> QED
    BY <2>1, <2>4, <2>5, <2>6
<1>6. CASE Deliver
  <2>1. PICK q \in (seen + 1)..Len(hist) : seen' = q
    BY <1>6 DEF Deliver
  <2>2. session' = session
    BY <1>1, <1>6 DEF Deliver
  <2>3. UNCHANGED <<hist, start, job, loading, disposed, jobTimer, await, unsure, faults>>
    BY <1>6 DEF Deliver
  <2>4. seen' \in 0..Len(hist)
    <3>1. seen \in 0..Len(hist)
      BY DEF TypeOK, PodTypeOK
    <3> QED
      BY <2>1, <3>1
  <2>5. TypeOK'
    BY <2>2, <2>3, <2>4 DEF TypeOK, PodTypeOK, start, loading
  <2> QED
    BY <1>1, <2>2, <2>3, <2>5 DEF QuietInv, start
<1>7. CASE UNCHANGED vars
  <2>1. TypeOK'
    BY <1>7 DEF TypeOK, PodTypeOK, vars, podVars, start, loading
  <2> QED
    BY <1>1, <1>7, <2>1 DEF QuietInv, vars, start
<1>8. ~(Runs \/ MatcherAnswers \/ JobAnswer \/ Timers \/ Dispose \/ PodsChange \/ JobFinishes)
  BY <1>1 DEF Runs, LoadInitial, OnDelta, OnStreamFinished, OnGraceExpired, OnCheckDone,
              FinishIfJobDone, Head1, MatcherAnswers, JobAnswer, Timers, JobTimerFires,
              GraceTimerFires, Dispose, PodsChange, JobFinishes
<1>9. \A n \in Names : ~ReadAnswer(n) /\ ~MatchesInitial(n) /\ ~StreamSettles(n)
  BY <1>1 DEF ReadAnswer, MatchesInitial, StreamSettles
<1> QED
  BY <1>2, <1>3, <1>4, <1>5, <1>6, <1>7, <1>8, <1>9 DEF Next, Answers

-----------------------------------------------------------------------------
(* The job, and the start                                                  *)

LEMMA JobFinishesBase ==
  ASSUME TypeOK, Basics, JobFinishes
  PROVE  TypeOK' /\ Basics'
<1>1. job' = "done"
      /\ UNCHANGED <<podVars, start, loading, disposed, jobTimer, await, unsure, session, faults>>
  BY DEF JobFinishes
<1>2. TypeOK'
  BY <1>1 DEF TypeOK, PodTypeOK, podVars, start, loading
<1>3. Basics'
  BY <1>1 DEF Basics, podVars, start, loading, Live
<1> QED
  BY <1>2, <1>3

-----------------------------------------------------------------------------
(* Pods change                                                             *)

\* The next version of the history: a new pod, or one that is stored.
Grows(h, x) ==
  LET o == At(h, x.name, Len(h)) IN
  /\ x \in Pod /\ x.uid <= Len(h) + 1
  /\ x.fin => x.st = "exited"
  /\ x.run = 0 <=> x.st = "none"
  /\ \/ o = 0 /\ x.uid = Len(h) + 1
     \/ o # 0 /\ x.uid = h[o].uid /\ (h[o].term => x.term)

LEMMA HistGrows ==
  ASSUME NEW h, HistInv(h), Len(h) < MaxVersions, NEW x, Grows(h, x)
  PROVE  /\ HistInv(Append(h, x)) /\ Len(Append(h, x)) = Len(h) + 1
         /\ \A i \in 1..Len(h) : Append(h, x)[i] = h[i]
<1> DEFINE g == Append(h, x)
           L == Len(h)
           o == At(h, x.name, L)
<1>1. h \in Seq(Pod) /\ x \in Pod
  BY DEF HistInv, Grows
<1>2. L \in Nat /\ DOMAIN h = 1..L /\ DOMAIN g = 1..(L + 1) /\ Len(g) = L + 1 /\ g \in Seq(Pod)
  BY <1>1
<1>3. g[L + 1] = x /\ \A i \in 1..L : g[i] = h[i]
  BY <1>1, AppendIs
<1>4. /\ o \in 0..L
      /\ o # 0 => h[o].name = x.name /\ ~h[o].gone /\ \A i \in 1..L : h[i].name = x.name => i <= o
  BY <1>2, AtIs
<1>5. /\ \A i \in 1..L : h[i].uid <= i /\ (h[i].fin => h[i].st = "exited")
                         /\ (h[i].run = 0 <=> h[i].st = "none")
      /\ \A i, j \in 1..L : i < j /\ h[i].uid = h[j].uid =>
           h[i].name = h[j].name /\ ~h[i].gone /\ (h[i].term => h[j].term)
      /\ \A i, j \in 1..L : i < j /\ h[i].uid # h[j].uid /\ h[i].name = h[j].name =>
           \E k \in i..(j - 1) : h[k].uid = h[i].uid /\ h[k].gone
  BY <1>2 DEF HistInv
<1>6. /\ x.uid <= L + 1 /\ (x.fin => x.st = "exited") /\ (x.run = 0 <=> x.st = "none")
      /\ \/ o = 0 /\ x.uid = L + 1
         \/ o # 0 /\ x.uid = h[o].uid /\ (h[o].term => x.term)
  BY DEF Grows
<1>7. ASSUME NEW i \in 1..L PROVE h[i].uid \in Nat
  <2>1. h[i] \in Pod
    BY <1>1, <1>2
  <2>2. h[i].uid \in 1..MaxVersions
    BY <2>1 DEF Pod
  <2> QED
    BY <2>2, Bounds
<1> HIDE DEF g, o
<1>8. ASSUME NEW i \in 1..L, h[i].uid = x.uid
      PROVE  h[i].name = x.name /\ ~h[i].gone /\ (h[i].term => x.term)
  <2>1. o # 0 /\ o \in 1..L /\ x.uid = h[o].uid /\ (h[o].term => x.term)
    <3>1. h[i].uid <= i /\ h[i].uid \in Nat /\ i <= L
      BY <1>5, <1>7
    <3>2. x.uid # L + 1
      BY <1>2, <1>8, <3>1
    <3> QED
      BY <1>2, <1>4, <1>6, <3>2
  <2>2. i < o \/ i = o \/ o < i
    BY <2>1, <1>2
  <2>3. CASE i < o
    BY <1>4, <1>5, <1>8, <2>1, <2>3
  <2>4. CASE i = o
    BY <1>4, <2>1, <2>4
  <2>5. CASE o < i
    <3>1. h[o].name = h[i].name
      BY <1>5, <1>8, <2>1, <2>5
    <3>2. i <= o
      BY <1>4, <2>1, <3>1
    <3> QED
      BY <1>2, <2>1, <2>5, <3>2
  <2> QED
    BY <2>2, <2>3, <2>4, <2>5
<1>9. ASSUME NEW i \in 1..L, h[i].uid # x.uid, h[i].name = x.name
      PROVE  \E k \in i..L : h[k].uid = h[i].uid /\ h[k].gone
  <2>1. CASE o = 0
    <3>1. PICK k \in 1..L : h[k].uid = h[i].uid /\ h[k].gone
      <4>1. L \in 0..Len(h) /\ At(h, x.name, L) = 0
        BY <1>2, <2>1 DEF o
      <4> QED
        BY <1>9, <4>1, Gone1
    <3>2. ~(k < i)
      BY <1>5, <3>1
    <3>3. k \in i..L
      BY <1>2, <3>2
    <3> QED
      BY <3>1, <3>3
  <2>2. CASE o # 0
    <3>1. o \in 1..L /\ x.uid = h[o].uid /\ h[o].name = x.name
      BY <1>2, <1>4, <1>6, <2>2
    <3>2. i <= o /\ i # o
      BY <1>4, <1>9, <2>2, <3>1
    <3>3. i < o
      BY <1>2, <3>1, <3>2
    <3>4. PICK k \in i..(o - 1) : h[k].uid = h[i].uid /\ h[k].gone
      BY <1>5, <1>9, <3>1, <3>3
    <3>5. k \in i..L
      BY <1>2, <3>1
    <3> QED
      BY <3>4, <3>5
  <2> QED
    BY <2>1, <2>2
<1>10. \A i \in 1..(L + 1) : i \in 1..L \/ i = L + 1
  BY <1>2
<1>11. ASSUME NEW i \in 1..(L + 1)
       PROVE  g[i].uid <= i /\ (g[i].fin => g[i].st = "exited")
              /\ (g[i].run = 0 <=> g[i].st = "none")
  BY <1>3, <1>5, <1>6, <1>10
<1>12. ASSUME NEW i \in 1..(L + 1), NEW j \in 1..(L + 1), i < j
       PROVE  /\ g[i].uid = g[j].uid =>
                   g[i].name = g[j].name /\ ~g[i].gone /\ (g[i].term => g[j].term)
              /\ g[i].uid # g[j].uid /\ g[i].name = g[j].name =>
                   \E k \in i..(j - 1) : g[k].uid = g[i].uid /\ g[k].gone
  <2>1. i \in 1..L /\ g[i] = h[i]
    BY <1>2, <1>3, <1>12
  <2>2. CASE j \in 1..L
    <3>1. g[j] = h[j]
      BY <1>3, <2>2
    <3>2. \A k \in i..(j - 1) : k \in 1..L /\ g[k] = h[k]
      BY <1>2, <1>3, <2>1, <2>2
    <3> QED
      BY <1>5, <1>12, <2>1, <2>2, <3>1, <3>2
  <2>3. CASE j = L + 1
    <3>1. g[j] = x
      BY <1>3, <2>3
    <3>2. \A k \in i..L : k \in i..(j - 1) /\ g[k] = h[k]
      BY <1>2, <1>3, <2>1, <2>3
    <3> QED
      BY <1>8, <1>9, <2>1, <3>1, <3>2
  <2> QED
    BY <1>10, <2>2, <2>3
<1>13. L + 1 <= MaxVersions
  BY <1>2, Bounds
<1>14. HistInv(g)
  BY <1>2, <1>11, <1>12, <1>13 DEF HistInv
<1> QED
  BY <1>2, <1>3, <1>14 DEF g

\* One version more, and all that was stays.
Grown(h, g) ==
  /\ HistInv(g) /\ Len(g) = Len(h) + 1
  /\ \A i \in 1..Len(h) : g[i] = h[i]

LEMMA PodStepGrows ==
  ASSUME Ctx, HistInv(hist), PodStep
  PROVE  Grown(hist, hist') /\ seen' = seen
<1> DEFINE L == Len(hist)
<1>1. L \in Nat /\ L < MaxVersions /\ hist \in Seq(Pod) /\ DOMAIN hist = 1..L
  BY CtxIs DEF PodStep
<1>2. PICK n \in Names :
        \/ Create(n)
        \/ Stored(n) # 0 /\ (Start(n) \/ Exit(n) \/ Backoff(n) \/ Terminate(n) \/ Delete(n))
  BY DEF PodStep
<1>3. Stored(n) = At(hist, n, L)
  BY StoredIs
<1>4. L + 1 \in 1..MaxVersions /\ 0 \in 0..MaxVersions /\ L + 1 \in 0..MaxVersions /\ L + 1 # 0
  BY <1>1, Bounds
<1>5. \E x : Grows(hist, x) /\ hist' = Append(hist, x)
  <2>1. CASE Create(n)
    <3> DEFINE x == [name |-> n, uid |-> L + 1, gone |-> FALSE, term |-> FALSE,
                     fin |-> FALSE, run |-> 0, st |-> "none"]
    <3>1. x \in Pod /\ x.name = n /\ x.uid = L + 1 /\ x.fin = FALSE /\ x.run = 0
          /\ x.st = "none"
      BY <1>4 DEF Pod
    <3>2. hist' = Append(hist, x) /\ At(hist, n, L) = 0
      BY <1>3, <2>1 DEF Create
    <3> HIDE DEF x
    <3>3. Grows(hist, x)
      BY <1>1, <3>1, <3>2 DEF Grows
    <3> QED
      BY <3>2, <3>3
  <2>2. CASE Stored(n) # 0 /\ (Start(n) \/ Exit(n) \/ Backoff(n) \/ Terminate(n) \/ Delete(n))
    <3> DEFINE o == Stored(n)
               y == hist[o]
    <3>1. o \in 1..L /\ y.name = n /\ o = At(hist, n, L)
      <4>1. At(hist, n, L) \in 0..L /\ (At(hist, n, L) # 0 => hist[At(hist, n, L)].name = n)
        BY <1>1, AtIs
      <4> QED
        BY <1>1, <1>3, <2>2, <4>1
    <3>2. y \in Pod /\ Now(n) = y
      BY <1>1, <3>1 DEF Now
    <3>3. y.uid <= o /\ (y.fin => y.st = "exited") /\ (y.run = 0 <=> y.st = "none")
      BY <1>1, <3>1 DEF HistInv
    <3>4. y.uid \in 1..MaxVersions /\ y.uid <= L + 1 /\ y.term \in BOOLEAN /\ y.fin \in BOOLEAN
      <4>1. y.uid \in 1..MaxVersions /\ y.term \in BOOLEAN /\ y.fin \in BOOLEAN
        BY <3>2 DEF Pod
      <4> QED
        BY <1>1, <3>1, <3>3, <4>1, Bounds
    <3> HIDE DEF o, y
    <3>5. ASSUME NEW x \in Pod, x.name = n, x.uid = y.uid, y.term => x.term,
                 x.fin => x.st = "exited", x.run = 0 <=> x.st = "none"
          PROVE  Grows(hist, x)
      BY <3>1, <3>4, <3>5, <2>2 DEF Grows, o, y
    <3>6. CASE Start(n)
      <4> DEFINE x == [y EXCEPT !.st = "running", !.run = L + 1]
      <4>1. x \in Pod /\ x.name = n /\ x.uid = y.uid /\ x.term = y.term /\ x.fin = y.fin
            /\ x.st = "running" /\ x.run = L + 1
        BY <1>4, <3>1, <3>2 DEF Pod, y
      <4>2. ~y.fin /\ hist' = Append(hist, x)
        BY <3>2, <3>6 DEF Start
      <4> HIDE DEF x
      <4> QED
        BY <1>4, <3>5, <4>1, <4>2
    <3>7. CASE Exit(n)
      <4>1. PICK fin \in BOOLEAN : hist' = Append(hist, [y EXCEPT !.st = "exited", !.fin = fin])
        BY <3>2, <3>7 DEF Exit
      <4>2. y.st = "running"
        BY <3>2, <3>7 DEF Exit
      <4> DEFINE x == [y EXCEPT !.st = "exited", !.fin = fin]
      <4>3. x \in Pod /\ x.name = n /\ x.uid = y.uid /\ x.term = y.term /\ x.run = y.run
            /\ x.st = "exited"
        BY <3>1, <3>2 DEF Pod, y
      <4>4. hist' = Append(hist, x)
        BY <4>1
      <4> HIDE DEF x
      <4> QED
        BY <3>3, <3>5, <4>2, <4>3, <4>4
    <3>8. CASE Backoff(n)
      <4> DEFINE x == [y EXCEPT !.st = "backoff"]
      <4>1. x \in Pod /\ x.name = n /\ x.uid = y.uid /\ x.term = y.term /\ x.run = y.run
            /\ x.st = "backoff" /\ x.fin = y.fin
        BY <3>1, <3>2 DEF Pod, y
      <4>2. ~y.fin /\ y.st = "exited" /\ hist' = Append(hist, x)
        BY <3>2, <3>8 DEF Backoff
      <4> HIDE DEF x
      <4> QED
        BY <3>3, <3>5, <4>1, <4>2
    <3>9. CASE Terminate(n)
      <4> DEFINE x == [y EXCEPT !.term = TRUE]
      <4>1. x \in Pod /\ x.name = n /\ x.uid = y.uid /\ x.term /\ x.run = y.run
            /\ x.st = y.st /\ x.fin = y.fin
        BY <3>1, <3>2 DEF Pod, y
      <4>2. hist' = Append(hist, x)
        BY <3>2, <3>9 DEF Terminate
      <4> HIDE DEF x
      <4> QED
        BY <3>3, <3>5, <4>1, <4>2
    <3>10. CASE Delete(n)
      <4> DEFINE x == [y EXCEPT !.gone = TRUE]
      <4>1. x \in Pod /\ x.name = n /\ x.uid = y.uid /\ x.term = y.term /\ x.run = y.run
            /\ x.st = y.st /\ x.fin = y.fin
        BY <3>1, <3>2 DEF Pod, y
      <4>2. hist' = Append(hist, x)
        BY <3>2, <3>10 DEF Delete
      <4> HIDE DEF x
      <4> QED
        BY <3>3, <3>5, <4>1, <4>2
    <3> QED
      BY <2>2, <3>6, <3>7, <3>8, <3>9, <3>10
  <2> QED
    BY <1>2, <2>1, <2>2
<1>6. PICK x : Grows(hist, x) /\ hist' = Append(hist, x)
  BY <1>5
<1>7. Grown(hist, hist')
  BY <1>1, <1>6, HistGrows DEF Grown
<1> QED
  BY <1>7 DEF PodStep

\* What is told stays in order, however the history goes on.
LEMMA OrderGrows ==
  ASSUME NEW h, NEW g, HistInv(h), Grown(h, g), NEW v \in 0..Len(h), NEW q \in Seq(Task),
         OrderInv(h, v, q)
  PROVE  OrderInv(g, v, q)
<1>1. Len(h) \in Nat
  BY DEF HistInv
<1>2. \A i \in 1..v : g[i] = h[i]
  BY <1>1 DEF Grown
<1>3. ASSUME NEW k \in DOMAIN q, NEW a \in DOMAIN q[k].deltas PROVE q[k].deltas[a] \in 1..v
  <2>1. q[k].deltas[a] \in Told(q)
    BY DEF Told, Range
  <2> QED
    BY <2>1 DEF OrderInv
<1>4. ASSUME NEW k \in DOMAIN q, NEW a \in DOMAIN q[k].deltas, NEW b \in DOMAIN q[k].deltas,
             a < b
      PROVE  LET i == q[k].deltas[a]
                 j == q[k].deltas[b]
             IN /\ i # j
                /\ ~g[i].gone /\ ~g[j].gone => i < j
                /\ g[i].gone /\ ~g[j].gone => g[i].uid # g[j].uid
  <2> DEFINE i == q[k].deltas[a]
             j == q[k].deltas[b]
  <2>1. g[i] = h[i] /\ g[j] = h[j]
    BY <1>2, <1>3
  <2>2. /\ i # j
        /\ ~h[i].gone /\ ~h[j].gone => i < j
        /\ h[i].gone /\ ~h[j].gone => h[i].uid # h[j].uid
    BY <1>4 DEF OrderInv
  <2> HIDE DEF i, j
  <2>3. /\ i # j
        /\ ~g[i].gone /\ ~g[j].gone => i < j
        /\ g[i].gone /\ ~g[j].gone => g[i].uid # g[j].uid
    BY <2>1, <2>2
  <2> QED
    BY <2>3 DEF i, j
<1> QED
  BY <1>4 DEF OrderInv

LEMMA PodsChangeBase ==
  ASSUME TypeOK, Basics, PodsChange
  PROVE  TypeOK' /\ Basics'
<1>1. PodStep /\ UNCHANGED <<start, job, loading, disposed, jobTimer, await, unsure, session, faults>>
  BY DEF PodsChange
<1>2. Ctx /\ HistInv(hist) /\ session.queue \in Seq(Task) /\ seen \in 0..Len(hist)
      /\ Len(hist) \in Nat /\ got \in [Names -> 0..Len(hist)]
  BY BasicsCtx, CtxIs DEF Basics
<1>3. Grown(hist, hist') /\ seen' = seen
  BY <1>1, <1>2, PodStepGrows
<1>4. OrderInv(hist', seen', session'.queue)
  BY <1>1, <1>2, <1>3, OrderGrows DEF Basics, QueueShape
<1>5. QueueShape(hist', seen', session'.queue)
  BY <1>1, <1>4 DEF QueueShape, Basics
<1>6. /\ hist' \in Seq(Pod) /\ seen' \in 0..Len(hist') /\ got' \in [Names -> 0..Len(hist')]
  <2>1. hist' \in Seq(Pod) /\ Len(hist') = Len(hist) + 1
    BY <1>3 DEF Grown, HistInv
  <2>2. \A i \in 0..Len(hist) : i \in 0..Len(hist')
    BY <1>2, <2>1
  <2>3. got' = got
    BY <1>1 DEF loading
  <2> QED
    BY <1>2, <1>3, <2>1, <2>2, <2>3
<1>7. TypeOK'
  BY <1>1, <1>6 DEF TypeOK, PodTypeOK, start, loading
<1>8. Basics'
  BY <1>1, <1>3, <1>5 DEF Basics, start, loading, Grown, Live
<1> QED
  BY <1>7, <1>8

-----------------------------------------------------------------------------
(* What the watcher delivers                                               *)

\* Deltas d bring a subscriber from version v to version w.
Brings(h, v, w, d) ==
  /\ d \in Seq(1..MaxVersions) /\ Range(d) \subseteq (v + 1)..w
  /\ \A a, b \in DOMAIN d :
       a < b => /\ d[a] # d[b]
                /\ ~h[d[a]].gone /\ ~h[d[b]].gone => d[a] < d[b]
                /\ h[d[a]].gone /\ ~h[d[b]].gone => h[d[a]].uid # h[d[b]].uid
  /\ \A n \in Names : At(h, n, w) \in Range(d) \cup {0, At(h, n, v)}
  /\ \A j \in (v + 1)..w : h[j].gone =>
       /\ (\E i \in 1..v : h[i].uid = h[j].uid) => j \in Range(d)
       /\ \A i \in Range(d) : ~h[i].gone /\ h[i].uid = h[j].uid => j \in Range(d)

\* The versions picked, in order.
LEMMA PickedVersions ==
  ASSUME NEW w \in 0..MaxVersions, NEW P, P \subseteq 1..w
  PROVE  LET d == Picked(Versions(w), P) IN
         /\ d \in Seq(1..MaxVersions) /\ Range(d) = P
         /\ \A a, b \in DOMAIN d : a < b => d[a] < d[b]
<1> DEFINE s == Versions(w)
           d == Picked(s, P)
<1>1. w \in Nat /\ MaxVersions \in Nat /\ w <= MaxVersions
  BY Bounds
<1>2. s \in Seq(1..w) /\ Len(s) = w /\ DOMAIN s = 1..w /\ \A i \in 1..w : s[i] = i
  BY <1>1 DEF Versions
<1> HIDE DEF s
<1>3. d \in Seq(1..w) /\ \E f : PickedTo(s, P, Len(s), d, f)
  BY <1>2, PickedIs
<1>4. PICK f : PickedTo(s, P, w, d, f)
  BY <1>2, <1>3
<1> HIDE DEF d
<1>5. /\ \A i \in DOMAIN d : f[i] \in P /\ f[i] \in 1..w
      /\ \A i \in DOMAIN d : d[i] = s[f[i]]
      /\ \A i, j \in DOMAIN d : i < j => f[i] < f[j]
      /\ \A m \in DOMAIN s \cap P \cap 1..w : \E i \in DOMAIN d : f[i] = m
  BY <1>4 DEF PickedTo
<1>6. \A i \in DOMAIN d : d[i] = f[i]
  BY <1>2, <1>5
<1>7. \A m \in P : \E i \in DOMAIN d : d[i] = m
  <2>1. \A m \in P : m \in DOMAIN s \cap P \cap 1..w
    BY <1>2
  <2> QED
    BY <1>5, <1>6, <2>1
<1>8. Range(d) = P
  <2>1. \A x \in Range(d) : x \in P
    BY <1>5, <1>6 DEF Range
  <2>2. \A x \in P : x \in Range(d)
    BY <1>7 DEF Range
  <2> QED
    BY <2>1, <2>2
<1>9. d \in Seq(1..MaxVersions)
  <2>1. 1..w \subseteq 1..MaxVersions
    BY <1>1
  <2> QED
    BY <1>3, <2>1, SeqMonotonic
<1> QED
  BY <1>5, <1>6, <1>8, <1>9 DEF d, s

LEMMA AtLater ==
  ASSUME NEW h, NEW n, NEW v \in Nat, NEW w \in Nat, v <= w
  PROVE  At(h, n, w) \in (v + 1)..w \cup {0, At(h, n, v)}
<1> DEFINE o == At(h, n, w)
<1>1. /\ o \in 0..w
      /\ o # 0 => h[o].name = n /\ ~h[o].gone /\ \A i \in 1..w : h[i].name = n => i <= o
  BY AtIs
<1> HIDE DEF o
<1>2. CASE o = 0 \/ o \in (v + 1)..w
  BY <1>2 DEF o
<1>3. CASE o # 0 /\ o \notin (v + 1)..w
  <2>1. o \in 1..v /\ \A i \in 1..v : h[i].name = n => i <= o
    BY <1>1, <1>3
  <2>2. Latest(h, n, v) = o
    BY <1>1, <1>3, <2>1, LatestBy
  <2>3. At(h, n, v) = o
    BY <1>1, <1>3, <2>2 DEF At
  <2> QED
    BY <2>3 DEF o
<1> QED
  BY <1>2, <1>3

LEMMA ChunkBrings ==
  ASSUME Ctx, HistInv(hist), NEW w \in (seen + 1)..Len(hist)
  PROVE  Brings(hist, seen, w, Chunk(w))
<1> DEFINE d == Chunk(w)
           P == (seen + 1)..w
<1>1. seen \in Nat /\ Len(hist) \in Nat /\ seen <= Len(hist) /\ Len(hist) <= MaxVersions
      /\ MaxVersions \in Nat
  <2>1. seen \in 0..Len(hist) /\ Len(hist) \in Nat /\ Len(hist) <= MaxVersions
    BY CtxIs
  <2> QED
    BY <2>1, Bounds
<1>2. w \in Nat /\ seen < w /\ w <= Len(hist)
  BY <1>1
<1>3. w \in 0..MaxVersions /\ P \subseteq 1..w
  BY <1>1, <1>2
<1> HIDE DEF P
<1>4. /\ d \in Seq(1..MaxVersions) /\ Range(d) = P
      /\ \A a, b \in DOMAIN d : a < b => d[a] < d[b]
  BY <1>3, PickedVersions DEF Chunk, P
<1> HIDE DEF d
<1>5. \A a \in DOMAIN d : d[a] \in P
  BY <1>4 DEF Range
<1>6. \A i \in P : i \in DOMAIN hist /\ i \in Nat
  <2>1. DOMAIN hist = 1..Len(hist)
    BY CtxIs
  <2> QED
    BY <1>1, <1>2, <2>1 DEF P
<1>7. ASSUME NEW a \in DOMAIN d, NEW b \in DOMAIN d, a < b
      PROVE  /\ d[a] # d[b]
             /\ ~hist[d[a]].gone /\ ~hist[d[b]].gone => d[a] < d[b]
             /\ hist[d[a]].gone /\ ~hist[d[b]].gone => hist[d[a]].uid # hist[d[b]].uid
  <2> DEFINE i == d[a]
             j == d[b]
  <2>1. i < j /\ i \in DOMAIN hist /\ j \in DOMAIN hist /\ i \in Nat /\ j \in Nat
    BY <1>4, <1>5, <1>6, <1>7
  <2> HIDE DEF i, j
  <2>2. hist[i].uid = hist[j].uid => ~hist[i].gone
    BY <2>1 DEF HistInv
  <2>3. i # j
    BY <2>1
  <2> QED
    BY <2>1, <2>2, <2>3 DEF i, j
<1>8. \A n \in Names : At(hist, n, w) \in P \cup {0, At(hist, n, seen)}
  BY <1>1, <1>2, AtLater DEF P
<1>9. Brings(hist, seen, w, d)
  BY <1>4, <1>7, <1>8 DEF Brings, P
<1> QED
  BY <1>9 DEF d

LEMMA RelistBrings ==
  ASSUME Ctx, HistInv(hist), NEW w \in (seen + 1)..Len(hist)
  PROVE  Brings(hist, seen, w, Relist(w))
<1> DEFINE P == (seen + 1)..w
           newest == {i \in P : \A j \in (i + 1)..w : hist[i].uid # hist[j].uid}
           lost == {i \in newest : hist[i].gone /\ \E j \in 1..seen : hist[i].uid = hist[j].uid}
           listed == {i \in newest : ~hist[i].gone}
           d1 == Picked(Versions(w), listed)
           d2 == Picked(Versions(w), lost)
           d == d1 \o d2
<1>1. Relist(w) = d
  BY DEF Relist
<1>2. seen \in Nat /\ Len(hist) \in Nat /\ seen <= Len(hist) /\ Len(hist) <= MaxVersions
      /\ MaxVersions \in Nat
  <2>1. seen \in 0..Len(hist) /\ Len(hist) \in Nat /\ Len(hist) <= MaxVersions
    BY CtxIs
  <2> QED
    BY <2>1, Bounds
<1>3. w \in Nat /\ seen < w /\ w <= Len(hist)
  BY <1>2
<1>4. w \in 0..MaxVersions /\ P \subseteq 1..w /\ DOMAIN hist = 1..Len(hist)
  BY <1>2, <1>3, CtxIs
<1>5. \A i \in P : i \in DOMAIN hist /\ i \in Nat
  BY <1>2, <1>3, <1>4
<1>6. \A i : /\ i \in listed <=> i \in newest /\ ~hist[i].gone
             /\ i \in lost <=> i \in newest /\ hist[i].gone
                               /\ \E j \in 1..seen : hist[i].uid = hist[j].uid
             /\ i \in newest <=> i \in P /\ \A j \in (i + 1)..w : hist[i].uid # hist[j].uid
  OBVIOUS
<1>7. \A i : i \in P <=> i \in (seen + 1)..w
  OBVIOUS
<1> HIDE DEF P, newest, lost, listed
<1>8. listed \subseteq 1..w /\ lost \subseteq 1..w
  BY <1>4, <1>6
<1>9. /\ d1 \in Seq(1..MaxVersions) /\ Range(d1) = listed
      /\ \A a, b \in DOMAIN d1 : a < b => d1[a] < d1[b]
  BY <1>4, <1>8, PickedVersions
<1>10. /\ d2 \in Seq(1..MaxVersions) /\ Range(d2) = lost
       /\ \A a, b \in DOMAIN d2 : a < b => d2[a] < d2[b]
  BY <1>4, <1>8, PickedVersions
<1> DEFINE S == 1..MaxVersions
           L1 == Len(d1)
           L2 == Len(d2)
<1> HIDE DEF d1, d2
<1>11. S = 1..MaxVersions
  OBVIOUS
<1> HIDE DEF S
<1>12. /\ d \in Seq(S) /\ Len(d) = L1 + L2 /\ L1 \in Nat /\ L2 \in Nat
       /\ DOMAIN d1 = 1..L1 /\ DOMAIN d2 = 1..L2 /\ DOMAIN d = 1..(L1 + L2)
       /\ \A i \in 1..(L1 + L2) : d[i] = IF i <= L1 THEN d1[i] ELSE d2[i - L1]
  <2>1. d1 \in Seq(S) /\ d2 \in Seq(S)
    BY <1>9, <1>10, <1>11
  <2> QED
    BY <2>1, ConcatProperties, LenProperties
<1> HIDE DEF d, L1, L2
<1>13. \A i \in 1..(L1 + L2) :
         \/ i <= L1 /\ i \in DOMAIN d1 /\ d[i] = d1[i] /\ d1[i] \in listed
         \/ i > L1 /\ i - L1 \in DOMAIN d2 /\ d[i] = d2[i - L1] /\ d2[i - L1] \in lost
  <2>1. \A i \in DOMAIN d1 : d1[i] \in listed
    BY <1>9 DEF Range
  <2>2. \A i \in DOMAIN d2 : d2[i] \in lost
    BY <1>10 DEF Range
  <2>3. ASSUME NEW i \in 1..(L1 + L2)
        PROVE  (i <= L1 /\ i \in 1..L1) \/ (i > L1 /\ i - L1 \in 1..L2)
    BY <1>12
  <2> QED
    BY <1>12, <2>1, <2>2, <2>3
<1>14. Range(d) \subseteq listed \cup lost
  BY <1>12, <1>13 DEF Range
<1>15. listed \subseteq Range(d)
  <2>1. ASSUME NEW x \in listed PROVE x \in Range(d)
    <3>1. PICK i \in DOMAIN d1 : d1[i] = x
      BY <1>9 DEF Range
    <3>2. i \in 1..(L1 + L2) /\ i <= L1
      BY <1>12, <3>1
    <3>3. d[i] = x /\ i \in DOMAIN d
      BY <1>12, <3>1, <3>2
    <3> QED
      BY <3>3 DEF Range
  <2> QED
    BY <2>1
<1>16. lost \subseteq Range(d)
  <2>1. ASSUME NEW x \in lost PROVE x \in Range(d)
    <3>1. PICK i \in DOMAIN d2 : d2[i] = x
      BY <1>10 DEF Range
    <3>2. i \in Nat /\ i + L1 \in 1..(L1 + L2) /\ ~(i + L1 <= L1) /\ (i + L1) - L1 = i
      BY <1>12, <3>1
    <3>3. d[i + L1] = x /\ i + L1 \in DOMAIN d
      BY <1>12, <3>1, <3>2
    <3> QED
      BY <3>3 DEF Range
  <2> QED
    BY <2>1
<1>17. ASSUME NEW a \in DOMAIN d, NEW b \in DOMAIN d, a < b
       PROVE  /\ d[a] # d[b]
              /\ ~hist[d[a]].gone /\ ~hist[d[b]].gone => d[a] < d[b]
              /\ hist[d[a]].gone /\ ~hist[d[b]].gone => hist[d[a]].uid # hist[d[b]].uid
  <2>1. a \in 1..(L1 + L2) /\ b \in 1..(L1 + L2) /\ a \in Nat /\ b \in Nat
    BY <1>12
  <2>2. CASE b <= L1
    <3>1. a <= L1 /\ ~(a > L1) /\ ~(b > L1)
      BY <1>12, <1>17, <2>1, <2>2
    <3>2. d[a] \in listed /\ d[b] \in listed /\ d[a] < d[b]
      BY <1>9, <1>13, <1>17, <2>1, <2>2, <3>1
    <3>3. d[a] \in Nat /\ d[b] \in Nat /\ ~hist[d[a]].gone
      BY <1>5, <1>6, <3>2
    <3> QED
      BY <3>2, <3>3
  <2>3. CASE a <= L1 /\ b > L1
    <3>1. d[a] \in listed /\ d[b] \in lost
      BY <1>12, <1>13, <2>1, <2>3
    <3>2. ~hist[d[a]].gone /\ hist[d[b]].gone
      BY <1>6, <3>1
    <3> QED
      BY <3>2
  <2>4. CASE a > L1 /\ b > L1
    <3>1. /\ d[a] \in lost /\ d[b] \in lost /\ d[a] = d2[a - L1] /\ d[b] = d2[b - L1]
          /\ a - L1 \in DOMAIN d2 /\ b - L1 \in DOMAIN d2 /\ a - L1 < b - L1
      BY <1>12, <1>13, <1>17, <2>1, <2>4
    <3>2. d[a] < d[b]
      BY <1>10, <3>1
    <3>3. d[a] \in Nat /\ d[b] \in Nat /\ hist[d[a]].gone /\ hist[d[b]].gone
      BY <1>5, <1>6, <3>1
    <3> QED
      BY <3>2, <3>3
  <2> QED
    BY <1>12, <1>17, <2>1, <2>2, <2>3, <2>4
<1>18. ASSUME NEW n \in Names PROVE At(hist, n, w) \in Range(d) \cup {0, At(hist, n, seen)}
  <2> DEFINE o == At(hist, n, w)
  <2>1. o \in (seen + 1)..w \cup {0, At(hist, n, seen)}
    BY <1>2, <1>3, AtLater
  <2>2. o # 0 => ~hist[o].gone /\ hist[o].name = n /\ \A i \in 1..w : hist[i].name = n => i <= o
    BY <1>3, AtIs
  <2> HIDE DEF o
  <2>3. CASE o # 0 /\ o \in (seen + 1)..w
    <3>1. ASSUME NEW j \in (o + 1)..w PROVE hist[o].uid # hist[j].uid
      <4>1. o \in DOMAIN hist /\ j \in DOMAIN hist /\ o < j /\ j \in 1..w
        BY <1>2, <1>3, <1>4, <2>3
      <4>2. hist[j].name # n
        <5>1. ~(j <= o)
          BY <1>2, <1>3, <2>3
        <5> QED
          BY <2>2, <2>3, <4>1, <5>1
      <4> QED
        BY <2>2, <2>3, <4>1, <4>2 DEF HistInv
    <3>2. o \in newest
      BY <1>6, <1>7, <2>3, <3>1
    <3> QED
      BY <1>6, <1>15, <2>2, <2>3, <3>2 DEF o
  <2> QED
    BY <2>1, <2>3 DEF o
<1>19. ASSUME NEW j \in (seen + 1)..w, hist[j].gone
       PROVE  /\ (\E i \in 1..seen : hist[i].uid = hist[j].uid) => j \in Range(d)
              /\ \A i \in Range(d) : ~hist[i].gone /\ hist[i].uid = hist[j].uid => j \in Range(d)
  <2>1. j \in P /\ j \in DOMAIN hist /\ j \in Nat
    BY <1>5, <1>7
  <2>2. ASSUME NEW k \in (j + 1)..w PROVE hist[j].uid # hist[k].uid
    <3>1. k \in DOMAIN hist /\ j < k
      BY <1>2, <1>3, <1>4, <2>1
    <3> QED
      BY <1>19, <2>1, <3>1 DEF HistInv
  <2>3. j \in newest
    BY <1>6, <2>1, <2>2
  <2>4. (\E i \in 1..seen : hist[i].uid = hist[j].uid) => j \in lost
    BY <1>6, <1>19, <2>3
  <2>5. ASSUME NEW i \in Range(d), ~hist[i].gone, hist[i].uid = hist[j].uid PROVE FALSE
    <3>1. i \in newest
      BY <1>6, <1>14, <2>5
    <3>2. i \in DOMAIN hist /\ i \in Nat /\ \A k \in (i + 1)..w : hist[i].uid # hist[k].uid
      BY <1>5, <1>6, <3>1
    <3>3. j \notin (i + 1)..w
      BY <2>5, <3>2
    <3>4. j <= w
      BY <1>2, <1>3
    <3>5. j < i \/ j = i
      BY <1>3, <2>1, <3>2, <3>3, <3>4
    <3> QED
      BY <1>19, <2>1, <2>5, <3>2, <3>5 DEF HistInv
  <2> QED
    BY <1>16, <2>4, <2>5
<1>20. d \in Seq(1..MaxVersions) /\ Range(d) \subseteq (seen + 1)..w
  BY <1>6, <1>7, <1>11, <1>12, <1>14
<1>21. Brings(hist, seen, w, d)
  BY <1>17, <1>18, <1>19, <1>20 DEF Brings
<1> QED
  BY <1>1, <1>21

\* Deltas at the end of the queue.
DeltasTask(d) == Do("deltas", 0, d, FALSE)

LEMMA DeltasTaskIs ==
  ASSUME NEW d \in Seq(1..MaxVersions), d # <<>>
  PROVE  /\ DeltasTask(d) \in Task /\ DeltasTask(d).op = "deltas" /\ DeltasTask(d).name = 0
         /\ DeltasTask(d).deltas = d /\ Shaped(DeltasTask(d))
<1>1. 0 \in Names \cup {0} /\ FALSE \in BOOLEAN
  OBVIOUS
<1> DEFINE t == DeltasTask(d)
<1>2. t.op = "deltas" /\ t.name = 0 /\ t.deltas = d
  BY DEF DeltasTask, Do
<1>3. t \in Task
  BY <1>1 DEF DeltasTask, Do, Task
<1> HIDE DEF t
<1>4. Shaped(t)
  BY <1>2 DEF Shaped
<1> QED
  BY <1>2, <1>3, <1>4 DEF t

LEMMA DeliverQ ==
  ASSUME NEW q \in Seq(Task), NEW h, NEW v \in Nat, NEW w \in Nat, v < w,
         QueueShape(h, v, q), NEW d, d # <<>>, Brings(h, v, w, d)
  PROVE  LET r == Append(q, DeltasTask(d)) IN
         /\ r \in Seq(Task) /\ QueueShape(h, w, r) /\ Told(r) = Told(q) \cup Range(d)
         /\ Range(r) = Range(q) \cup {DeltasTask(d)} /\ r # <<>>
         /\ q # <<>> => Head(r) = Head(q)
<1> DEFINE t == DeltasTask(d)
           r == Append(q, t)
           L == Len(q) + 1
<1>1. t \in Task /\ t.deltas = d /\ Shaped(t)
  BY DeltasTaskIs DEF Brings
<1> HIDE DEF t
<1>2. /\ r \in Seq(Task) /\ Range(r) = Range(q) \cup {t} /\ r # <<>>
      /\ q # <<>> => Head(r) = Head(q)
  BY <1>1, PushRange
<1>3. /\ \A k \in DOMAIN q : r[k] = q[k]
      /\ r[L] = t
      /\ DOMAIN r = DOMAIN q \cup {L}
      /\ \A k \in DOMAIN q : k < L /\ k \in Nat
      /\ L \in Nat
  BY <1>1, AppendIs, RangeIs
<1> HIDE DEF r, L
<1>4. Told(r) = Told(q) \cup Range(d)
  <2>1. \A x : x \in Told(r) <=> x \in Told(q) \/ x \in Range(d)
    BY <1>1, <1>2, ToldIs
  <2> QED
    BY <2>1
<1>5. Told(q) \subseteq 1..v /\ Range(d) \subseteq (v + 1)..w
  BY DEF QueueShape, OrderInv, Brings
<1>6. Told(r) \subseteq 1..w
  <2>1. \A x \in 1..v : x \in 1..w
    OBVIOUS
  <2>2. \A x \in (v + 1)..w : x \in 1..w
    OBVIOUS
  <2> QED
    BY <1>4, <1>5, <2>1, <2>2
<1>7. ASSUME NEW j \in DOMAIN r, NEW k \in DOMAIN r, j < k,
             NEW a \in Range(r[j].deltas), NEW b \in Range(r[k].deltas)
      PROVE  a < b
  <2>1. j \in DOMAIN q
    <3>1. ~(L < k)
      BY <1>3
    <3> QED
      BY <1>3, <1>7, <3>1
  <2>2. CASE k \in DOMAIN q
    BY <1>3, <1>7, <2>1, <2>2 DEF QueueShape, OrderInv
  <2>3. CASE k = L
    <3>1. a \in Told(q)
      BY <1>3, <2>1, RangeIs, ToldIs
    <3>2. b \in Range(d)
      BY <1>1, <1>3, <2>3
    <3>3. a \in 1..v /\ b \in (v + 1)..w
      BY <1>5, <3>1, <3>2
    <3> QED
      BY <3>3
  <2> QED
    BY <1>3, <2>2, <2>3
<1>8. ASSUME NEW k \in DOMAIN r, NEW a \in DOMAIN r[k].deltas, NEW b \in DOMAIN r[k].deltas,
             a < b
      PROVE  LET i == r[k].deltas[a]
                 j == r[k].deltas[b]
             IN /\ i # j
                /\ ~h[i].gone /\ ~h[j].gone => i < j
                /\ h[i].gone /\ ~h[j].gone => h[i].uid # h[j].uid
  <2>1. CASE k \in DOMAIN q
    BY <1>3, <1>8, <2>1 DEF QueueShape, OrderInv
  <2>2. CASE k = L
    BY <1>1, <1>3, <1>8, <2>2 DEF Brings
  <2> QED
    BY <1>3, <2>1, <2>2
<1>9. OrderInv(h, w, r)
  BY <1>6, <1>7, <1>8 DEF OrderInv
<1>10. QueueShape(h, w, r)
  BY <1>1, <1>2, <1>9 DEF QueueShape
<1> QED
  BY <1>2, <1>4, <1>10 DEF r, t

LEMMA ShapeLater ==
  ASSUME NEW q, NEW h, NEW v \in Nat, NEW w \in Nat, v < w, QueueShape(h, v, q)
  PROVE  QueueShape(h, w, q)
<1>1. \A x \in 1..v : x \in 1..w
  OBVIOUS
<1>2. Told(q) \subseteq 1..w
  BY <1>1 DEF QueueShape, OrderInv
<1> QED
  BY <1>2 DEF QueueShape, OrderInv

LEMMA DeliverIs ==
  ASSUME Ctx, HistInv(hist), Deliver
  PROVE  \E w \in (seen + 1)..Len(hist) : \E d :
           /\ Brings(hist, seen, w, d) /\ seen' = w
           /\ session' = IF subscribed /\ d # <<>> THEN Push(session, DeltasTask(d)) ELSE session
<1>1. PICK w \in (seen + 1)..Len(hist) :
        /\ seen' = w
        /\ \E deltas \in {Chunk(w)} \cup (IF Relists THEN {Relist(w)} ELSE {}) :
             session' = IF subscribed /\ deltas # <<>>
                        THEN Push(session, Do("deltas", 0, deltas, FALSE)) ELSE session
  BY DEF Deliver
<1>2. PICK d \in {Chunk(w)} \cup (IF Relists THEN {Relist(w)} ELSE {}) :
        session' = IF subscribed /\ d # <<>>
                   THEN Push(session, Do("deltas", 0, d, FALSE)) ELSE session
  BY <1>1
<1>3. d = Chunk(w) \/ d = Relist(w)
  BY <1>2
<1>4. Brings(hist, seen, w, d)
  BY <1>3, ChunkBrings, RelistBrings
<1> QED
  BY <1>1, <1>2, <1>4 DEF DeltasTask

LEMMA DeliverBase ==
  ASSUME TypeOK, Basics, Deliver
  PROVE  TypeOK' /\ Basics'
<1> DEFINE q == session.queue
<1>1. Ctx /\ q \in Seq(Task) /\ HistInv(hist) /\ session \in Session
  BY BasicsCtx DEF Basics, TypeOK
<1>2. PICK w \in (seen + 1)..Len(hist) : \E d :
        /\ Brings(hist, seen, w, d) /\ seen' = w
        /\ session' = IF subscribed /\ d # <<>> THEN Push(session, DeltasTask(d)) ELSE session
  BY <1>1, DeliverIs
<1>22. PICK d :
        /\ Brings(hist, seen, w, d) /\ seen' = w
        /\ session' = IF subscribed /\ d # <<>> THEN Push(session, DeltasTask(d)) ELSE session
  BY <1>2
<1>3. UNCHANGED <<hist, start, job, loading, disposed, jobTimer, await, unsure, faults>>
  BY DEF Deliver
<1>4. seen \in Nat /\ w \in Nat /\ seen < w /\ w \in 0..Len(hist)
  <2>1. seen \in 0..Len(hist) /\ Len(hist) \in Nat
    BY <1>1, CtxIs
  <2> QED
    BY <2>1
<1>5. QueueShape(hist, seen, q)
  BY DEF Basics
<1>6. ASSUME session' \in Session PROVE TypeOK'
  BY <1>22, <1>3, <1>4, <1>6 DEF TypeOK, PodTypeOK, start, loading
<1>7. CASE ~(subscribed /\ d # <<>>)
  <2>1. session' = session
    BY <1>22, <1>7
  <2>2. QueueShape(hist, w, q)
    BY <1>4, <1>5, ShapeLater
  <2>3. Basics'
    BY <1>22, <1>3, <2>1, <2>2 DEF Basics, start, loading, Live
  <2> QED
    BY <1>1, <1>6, <2>1, <2>3
<1>8. CASE subscribed /\ d # <<>>
  <2> DEFINE t == DeltasTask(d)
             r == Append(q, t)
  <2>1. t \in Task /\ t.op = "deltas"
    BY <1>22, <1>8, DeltasTaskIs DEF Brings
  <2>2. /\ r \in Seq(Task) /\ QueueShape(hist, w, r) /\ Range(r) = Range(q) \cup {t} /\ r # <<>>
        /\ q # <<>> => Head(r) = Head(q)
    BY <1>1, <1>22, <1>4, <1>5, <1>8, DeliverQ
  <2>3. \A k \in DOMAIN r : (k \in DOMAIN q /\ r[k] = q[k]) \/ r[k] = t
    BY <1>1, <2>1, AppendIs
  <2> HIDE DEF t, r
  <2>4. session' \in Session /\ Aside(session, session') /\ session'.queue = r
        /\ session'.pods = session.pods
    BY <1>1, <1>22, <1>8, <2>1, PushIs DEF t, r
  <2>5. stage = "started"
    BY <1>8 DEF Basics, Before
  <2>6. session'.ready = session.ready /\ session'.finishing = session.finishing
    BY <2>4 DEF Aside
  <2>7. ~session.ready => Loading(session', await, need, jobTimer, target, live)
    BY <2>1, <2>2, <2>3, <2>4, <2>5, <2>6 DEF Basics, Loading
  <2>8. session.ready => Ready(session', await, need)
    BY <2>1, <2>2, <2>4, <2>5 DEF Basics, Ready
  <2>9. Basics'
    BY <1>22, <1>3, <2>2, <2>4, <2>5, <2>6, <2>7, <2>8 DEF Basics, start, loading, Live
  <2> QED
    BY <1>6, <2>4, <2>9
<1> QED
  BY <1>7, <1>8

-----------------------------------------------------------------------------
(* The start                                                               *)

LEMMA EmptyShape ==
  ASSUME NEW h, NEW v
  PROVE  QueueShape(h, v, <<>>)
<1>1. Range(<<>>) = {} /\ DOMAIN <<>> = {}
  BY DEF Range
<1>2. Told(<<>>) = {}
  BY <1>1 DEF Told
<1> QED
  BY <1>1, <1>2 DEF QueueShape, OrderInv

First == [name |-> 1, uid |-> 1, gone |-> FALSE, term |-> FALSE, fin |-> FALSE, run |-> 1,
          st |-> "running"]

LEMMA InitHist ==
  ASSUME PodInit
  PROVE  PodTypeOK /\ HistInv(hist)
<1>1. MaxVersions \in Nat /\ 1 \in 1..MaxVersions /\ 1 \in 0..MaxVersions
  BY BoundsAssumption
<1>2. CASE hist = <<>>
  <2>1. hist \in Seq(Pod) /\ Len(hist) = 0 /\ DOMAIN hist = {}
    BY <1>2
  <2>2. seen \in 0..Len(hist) /\ Len(hist) <= MaxVersions
    BY <1>1, <2>1 DEF PodInit
  <2> QED
    BY <2>1, <2>2 DEF PodTypeOK, HistInv
<1>3. CASE hist = <<First>>
  <2>1. First \in Pod
    BY <1>1, NamesAssumption DEF First, Pod
  <2>2. hist \in Seq(Pod) /\ Len(hist) = 1 /\ DOMAIN hist = {1} /\ hist[1] = First
    BY <1>3, <2>1
  <2>3. seen \in 0..Len(hist) /\ Len(hist) <= MaxVersions
    BY <1>1, <2>2 DEF PodInit
  <2>4. First.uid = 1 /\ ~First.fin /\ First.run = 1 /\ First.st = "running"
    BY DEF First
  <2>5. \A i, j \in DOMAIN hist : ~(i < j)
    BY <2>2
  <2> QED
    BY <2>2, <2>3, <2>4, <2>5 DEF PodTypeOK, HistInv
<1> QED
  BY <1>2, <1>3 DEF PodInit, First

LEMMA UnknownType == Unknown \in Entry
BY Bounds DEF Unknown, Entry

LEMMA InitBase ==
  ASSUME Init
  PROVE  Base
<1>1. PodTypeOK /\ HistInv(hist)
  BY InitHist DEF Init
<1>2. session \in Session
  <2>1. [n \in Names |-> Unknown] \in [Names -> Entry] /\ <<>> \in Seq(Task)
        /\ 0 \in 0..MaxRechecks
    BY UnknownType, Bounds
  <2> QED
    BY <2>1 DEF Init, Session
<1>3. got \in [Names -> 0..Len(hist)] /\ faults \in 0..MaxFaults
  <2>1. Len(hist) \in Nat
    BY <1>1 DEF PodTypeOK
  <2>2. 0 \in 0..Len(hist) /\ 0 \in 0..MaxFaults
    BY <2>1, Bounds, ZeroIn
  <2>3. got = [n \in Names |-> 0] /\ faults = 0
    BY DEF Init
  <2> QED
    BY <2>2, <2>3
<1>4. TypeOK
  BY <1>1, <1>2, <1>3 DEF Init, TypeOK
<1>5. Before(session, await, need, jobTimer, subscribed)
  BY DEF Init, Before
<1>6. QueueShape(hist, seen, session.queue)
  BY EmptyShape DEF Init
<1>7. Basics
  BY <1>1, <1>5, <1>6 DEF Basics, Init
<1> QED
  BY <1>4, <1>7 DEF Base, Init

-----------------------------------------------------------------------------
(* Every step                                                              *)

\* What may happen while the session starts, whatever its phase.
LEMMA NotDisposed ==
  ASSUME Next, ~disposed
  PROVE  Dispose \/ ~disposed'
BY DEF Next, Answers, Runs, Timers, FeedAnswers, TargetAnswers, MatcherAnswers, JobAnswer,
       AnswersDisposed, ReadAnswer, MatchesInitial, LoadAnswer, LoadInitial, OnDelta, OnStreamFinished,
       OnGraceExpired, OnCheckDone, FinishIfJobDone, JobTimerFires, GraceTimerFires, StartFails,
       Deliver, StreamSettles, PodsChange, JobFinishes

LEMMA BeforeActs ==
  ASSUME TypeOK, Basics, ~disposed, stage # "started", Next, ~Dispose
  PROVE  FeedAnswers \/ TargetAnswers \/ StartFails \/ Deliver \/ PodsChange \/ JobFinishes
<1>1. /\ session.queue = <<>> /\ ~jobTimer /\ await = "" /\ need = {}
      /\ \A n \in Names : ~session.pods[n].timer /\ ~session.pods[n].request
  <2>1. /\ session.queue = <<>> /\ ~jobTimer /\ await = "" /\ need = {}
        /\ \A n \in Names : session.pods[n] = Unknown
    BY DEF Basics, Before
  <2>2. ~Unknown.timer /\ ~Unknown.request
    BY DEF Unknown
  <2> QED
    BY <2>1, <2>2
<1>2. ~Runs
  BY <1>1 DEF Runs, Head1, LoadInitial, OnDelta, OnStreamFinished, OnGraceExpired, OnCheckDone,
              FinishIfJobDone
<1>3. ~Timers
  BY <1>1 DEF Timers, JobTimerFires, GraceTimerFires
<1>4. \A n \in Names : ~StreamSettles(n)
  BY <1>1 DEF StreamSettles
<1>5. Answers => FeedAnswers \/ TargetAnswers
  BY <1>1 DEF Answers, MatcherAnswers, JobAnswer, AnswersDisposed, ReadAnswer, MatchesInitial
<1> QED
  BY <1>2, <1>3, <1>4, <1>5 DEF Next

LEMMA BeforeStep ==
  ASSUME TypeOK, Basics, ~disposed, stage # "started", Next, ~Dispose
  PROVE  TypeOK' /\ Basics'
BY BeforeActs, FeedAnswersBase, TargetAnswersBase, StartFailsBase, DeliverBase, PodsChangeBase,
   JobFinishesBase

LEMMA LoadingActs ==
  ASSUME TypeOK, Basics, ~disposed, stage = "started", ~session.ready, Next, ~Dispose
  PROVE  \/ \E n \in Names : ReadAnswer(n) \/ MatchesInitial(n)
         \/ LoadInitial \/ Deliver \/ PodsChange \/ JobFinishes
<1>2. /\ Head(session.queue).op = "load" /\ ~jobTimer /\ await \in {"", "read", "match"}
      /\ await # "" => need # {}
      /\ \A n \in Names : ~session.pods[n].timer /\ ~session.pods[n].request
  <2>1. /\ Head(session.queue).op = "load" /\ ~jobTimer /\ await \in {"", "read", "match"}
        /\ await # "" => need # {}
        /\ \A n \in Names : session.pods[n] = Unknown
    BY DEF Basics, Loading
  <2>2. ~Unknown.timer /\ ~Unknown.request
    BY DEF Unknown
  <2> QED
    BY <2>1, <2>2
<1>3. Runs => LoadInitial
  BY <1>2 DEF Runs, Head1, OnDelta, OnStreamFinished, OnGraceExpired, OnCheckDone, FinishIfJobDone
<1>4. ~Timers
  BY <1>2 DEF Timers, JobTimerFires, GraceTimerFires
<1>5. \A n \in Names : ~StreamSettles(n)
  BY <1>2 DEF StreamSettles
<1>6. Answers => \E n \in Names : ReadAnswer(n) \/ MatchesInitial(n)
  BY <1>2 DEF Answers, MatcherAnswers, JobAnswer, AnswersDisposed, FeedAnswers, TargetAnswers
<1>7. ~StartFails
  BY DEF StartFails
<1> QED
  BY <1>3, <1>4, <1>5, <1>6, <1>7 DEF Next

LEMMA LoadingStep ==
  ASSUME TypeOK, Basics, ~disposed, stage = "started", ~session.ready, Next, ~Dispose
  PROVE  TypeOK' /\ Basics'
<1>1. IsLoading
  BY DEF IsLoading
<1>2. \/ \E n \in Names : ReadAnswer(n) \/ MatchesInitial(n)
      \/ LoadInitial \/ Deliver \/ PodsChange \/ JobFinishes
  BY LoadingActs
<1> QED
  BY <1>1, <1>2, LoadInitialBase, ReadAnswerBase, MatchesInitialBase, DeliverBase,
     PodsChangeBase, JobFinishesBase

LEMMA ReadyActs ==
  ASSUME TypeOK, Basics, ~disposed, stage = "started", session.ready, Next, ~Dispose
  PROVE  \/ MatcherAnswers \/ JobAnswer
         \/ OnDelta \/ OnStreamFinished \/ OnGraceExpired \/ OnCheckDone \/ FinishIfJobDone
         \/ JobTimerFires \/ \E n \in Names : GraceTimerFires(n) \/ StreamSettles(n)
         \/ Deliver \/ PodsChange \/ JobFinishes
<1>1. IsReady
  BY DEF IsReady
<1>2. need = {} /\ \A t \in Range(session.queue) : t.op # "load"
  BY DEF Basics, Ready
<1>3. ~LoadInitial
  <2>1. session.queue # <<>> => Head(session.queue) \in Range(session.queue)
    BY <1>1, ReadyCtx, TailQ
  <2> QED
    BY <1>2, <2>1 DEF LoadInitial, Head1
<1>4. ~FeedAnswers /\ ~TargetAnswers /\ ~StartFails /\ ~AnswersDisposed
  BY DEF FeedAnswers, TargetAnswers, StartFails, AnswersDisposed
<1>5. \A n \in Names : ~ReadAnswer(n) /\ ~MatchesInitial(n)
  BY <1>2 DEF ReadAnswer, MatchesInitial
<1>6. Answers => MatcherAnswers \/ JobAnswer
  BY <1>4, <1>5 DEF Answers
<1>7. Runs => OnDelta \/ OnStreamFinished \/ OnGraceExpired \/ OnCheckDone \/ FinishIfJobDone
  BY <1>3 DEF Runs
<1>8. Timers => JobTimerFires \/ \E n \in Names : GraceTimerFires(n)
  BY DEF Timers
<1> QED
  BY <1>4, <1>6, <1>7, <1>8 DEF Next

LEMMA ReadyStep ==
  ASSUME TypeOK, Basics, ~disposed, stage = "started", session.ready, Next, ~Dispose
  PROVE  TypeOK' /\ Basics'
<1>1. IsReady
  BY DEF IsReady
<1>2. \/ MatcherAnswers \/ JobAnswer
      \/ OnDelta \/ OnStreamFinished \/ OnGraceExpired \/ OnCheckDone \/ FinishIfJobDone
      \/ JobTimerFires \/ \E n \in Names : GraceTimerFires(n) \/ StreamSettles(n)
      \/ Deliver \/ PodsChange \/ JobFinishes
  BY ReadyActs
<1>3. CASE MatcherAnswers \/ JobAnswer
  BY <1>1, <1>3, MatcherAnswersBase, JobAnswerBase
<1>4. CASE OnDelta \/ OnStreamFinished \/ OnGraceExpired \/ OnCheckDone \/ FinishIfJobDone
  BY <1>1, <1>4, OnDeltaBase, StreamFinishedBase, GraceExpiredBase, CheckDoneBase,
     FinishIfJobDoneBase
<1>5. CASE JobTimerFires \/ \E n \in Names : GraceTimerFires(n) \/ StreamSettles(n)
  BY <1>1, <1>5, JobTimerFiresBase, GraceTimerFiresBase, StreamSettlesBase
<1>6. CASE Deliver \/ PodsChange \/ JobFinishes
  BY <1>6, DeliverBase, PodsChangeBase, JobFinishesBase
<1> QED
  BY <1>2, <1>3, <1>4, <1>5, <1>6

LEMMA BaseStep ==
  ASSUME Base, [Next]_vars
  PROVE  Base'
<1>1. CASE disposed
  BY <1>1, QuietKept DEF Base
<1>2. CASE ~disposed /\ UNCHANGED vars
  <2>1. TypeOK /\ Basics
    BY <1>2 DEF Base
  <2>2. TypeOK'
    BY <1>2, <2>1 DEF TypeOK, PodTypeOK, vars, podVars, start, loading
  <2>3. Basics'
    BY <1>2, <2>1 DEF Basics, vars, podVars, start, loading, Live
  <2> QED
    BY <1>2, <2>2, <2>3 DEF Base, vars
<1>3. CASE ~disposed /\ Dispose
  BY <1>3, DisposeBase DEF Base
<1>4. CASE ~disposed /\ Next /\ ~Dispose
  <2>1. TypeOK /\ Basics
    BY <1>4 DEF Base
  <2>2. TypeOK' /\ Basics'
    BY <1>4, <2>1, BeforeStep, LoadingStep, ReadyStep
  <2> QED
    BY <1>4, <2>2, NotDisposed DEF Base
<1> QED
  BY <1>1, <1>2, <1>3, <1>4

\* The invariant of every phase (start, initial load, running) holds in every
\* state.
THEOREM BaseAlways == Spec => []Base
<1>1. Init => Base
  BY InitBase
<1>2. Base /\ [Next]_vars => Base'
  BY BaseStep
<1> QED
  BY <1>1, <1>2, PTL DEF Spec

\* Every variable of the session keeps its type: no handler leaves a task, an entry
\* or a request that is not of the protocol behind, whichever it meets.
THEOREM TypeCorrect == Spec => []TypeOK
<1>1. Base => TypeOK
  BY DEF Base
<1> QED
  BY <1>1, BaseAlways, PTL

\* Once disposed a session holds no lease of the watcher, no subscription, no timer
\* and no log request (dispose), whatever it awaited.
THEOREM Quiet == Spec => []DisposedIsQuiet
<1>1. Base => DisposedIsQuiet
  BY DEF Base, QuietInv, DisposedIsQuiet
<1> QED
  BY <1>1, BaseAlways, PTL

-----------------------------------------------------------------------------
(* What a running session has done and has to do                           *)

TaskInv(T, live_, target_) ==
  \A t \in T : /\ t.op \in {"deltas", "graceExpired"} => live_
               /\ t.op \in {"checkDone", "finishIfJobDone"} => live_ /\ target_ = "job"

Fits(h, v, T, d, closed, live_, work, sure, n, e) ==
  /\ Sound(T, live_, n, e)
  /\ closed = "no" => Attended(T, n, e)
  /\ live_ => Follows(h, v, T, d, work, sure, n, e)

FitInv(h, v, s, d, live_, target_, unsure_) ==
  \A n \in Names :
    Fits(h, v, Range(s.queue), d, s.closed, live_, target_ # "pods", n \notin unsure_, n, s.pods[n])

\* Nothing is left to do that nobody will see.
DueInv(h, v, s, d, live_, target_, timer) ==
  s.closed = "no" =>
    IF live_ THEN Ripe(h, v, d, s.pods) =>
                    \/ target_ = "deployment"
                    \/ target_ = "job" /\ Rechecks(Range(s.queue), timer, s.jobChecks)
    ELSE \E n \in Names : On(s.pods[n]) /\ s.pods[n].state = "streaming"

RunInv(h, v, s, await_, live_, target_, unsure_, timer) ==
  /\ await_ = "match" =>
       /\ target_ = "deployment"
       /\ LET o == Head(Head(s.queue).deltas) IN
            ~h[o].gone /\ ~h[o].term /\ ~s.pods[h[o].name].known
  /\ TaskInv(Range(s.queue), live_, target_) /\ (timer => live_ /\ target_ = "job")
  /\ s.finishing => s.closed # "no"
  /\ FitInv(h, v, s, Told(s.queue), live_, target_, unsure_)
  /\ DueInv(h, v, s, Told(s.queue), live_, target_, timer)

LoadInv(h, v, d, target_, need_, got_, missing_, unsure_) ==
  \A n \in Names :
    /\ target_ = "pods" =>
         FoundPod(h, v, d, n, got_[n], n \in need_, n \notin unsure_, n \in missing_)
    /\ target_ = "deployment" => FoundMatch(h, v, d, n, got_[n], n \notin unsure_)

Opened ==
  /\ Follow(hist, seen, Told(session.queue))
  /\ stage = "started" /\ ~session.ready /\ ~Live => Told(session.queue) = {}
  /\ stage = "started" /\ ~session.ready /\ await # "" /\ Live =>
       LoadInv(hist, seen, Told(session.queue), target, need, got, missing, unsure)
  /\ stage = "started" /\ session.ready =>
       RunInv(hist, seen, session, await, Live, target, unsure, jobTimer)

Invariant == Base /\ (~disposed => Opened)

-----------------------------------------------------------------------------
(* Pods that left                                                          *)

\* The pod of that uid is deleted, or about to be.
Expired(h, v, u) == ~Alive(h, u) \/ \E j \in 1..v : h[j].uid = u /\ h[j].term

LEMMA HistDom ==
  ASSUME NEW h, HistInv(h), NEW v \in 0..Len(h)
  PROVE  /\ DOMAIN h = 1..Len(h) /\ Len(h) \in Nat /\ v \in Nat /\ v <= Len(h)
         /\ \A i \in 1..v : i \in DOMAIN h /\ i \in Nat /\ i # 0
<1>1. h \in Seq(Pod)
  BY DEF HistInv
<1>2. DOMAIN h = 1..Len(h) /\ Len(h) \in Nat
  BY <1>1, LenProperties
<1> QED
  BY <1>2

LEMMA SameName ==
  ASSUME NEW h, HistInv(h), NEW v \in 0..Len(h), NEW i \in 1..v, NEW j \in 1..v,
         h[i].uid = h[j].uid
  PROVE  h[i].name = h[j].name
<1>1. i \in DOMAIN h /\ j \in DOMAIN h /\ i \in Nat /\ j \in Nat
  BY HistDom
<1>2. i < j \/ j < i \/ i = j
  BY <1>1
<1> QED
  BY <1>1, <1>2 DEF HistInv

LEMMA AtDom ==
  ASSUME NEW h, HistInv(h), NEW v \in 0..Len(h), NEW n, At(h, n, v) # 0
  PROVE  LET o == At(h, n, v) IN
         /\ o \in 1..v /\ o \in Nat /\ h[o].name = n /\ ~h[o].gone
         /\ \A i \in 1..v : h[i].name = n => i <= o
         /\ \A j \in 1..v : h[j].uid = h[o].uid => j <= o /\ ~h[j].gone
         /\ \A j \in 1..v : h[j].uid = h[o].uid /\ h[j].term => h[o].term
<1> DEFINE o == At(h, n, v)
<1>1. v \in Nat /\ DOMAIN h = 1..Len(h) /\ Len(h) \in Nat /\ v <= Len(h)
  BY HistDom
<1>2. /\ o \in 0..v /\ h[o].name = n /\ ~h[o].gone
      /\ \A i \in 1..v : h[i].name = n => i <= o
  BY <1>1, AtIs
<1> HIDE DEF o
<1>3. o \in 1..v /\ o \in Nat
  BY <1>1, <1>2 DEF o
<1>4. ASSUME NEW j \in 1..v, h[j].uid = h[o].uid
      PROVE  j <= o /\ ~h[j].gone /\ (h[j].term => h[o].term)
  <2>1. j <= o
    BY <1>2, <1>3, <1>4, SameName
  <2>2. j \in DOMAIN h /\ o \in DOMAIN h /\ j \in Nat
    BY <1>3, <1>4, HistDom
  <2>3. j = o \/ j < o
    BY <1>3, <2>1, <2>2
  <2> QED
    BY <1>2, <1>4, <2>1, <2>2, <2>3 DEF HistInv
<1> QED
  BY <1>2, <1>3, <1>4 DEF o

LEMMA NotAlive ==
  ASSUME NEW h, HistInv(h), NEW v \in 0..Len(h), NEW n, NEW i \in 1..v, h[i].name = n,
         At(h, n, v) = 0 \/ h[At(h, n, v)].uid # h[i].uid
  PROVE  ~Alive(h, h[i].uid)
<1>1. PICK j \in 1..v : h[j].uid = h[i].uid /\ h[j].gone
  BY Gone1
<1>2. j \in DOMAIN h
  BY HistDom
<1> QED
  BY <1>1, <1>2 DEF Alive

LEMMA ExpiredIs ==
  ASSUME NEW h, HistInv(h), NEW v \in 0..Len(h), NEW n, NEW i \in 1..v, h[i].name = n,
         \/ At(h, n, v) = 0
         \/ h[At(h, n, v)].uid # h[i].uid
         \/ h[At(h, n, v)].term
  PROVE  Expired(h, v, h[i].uid)
<1>1. CASE At(h, n, v) = 0 \/ h[At(h, n, v)].uid # h[i].uid
  BY <1>1, NotAlive DEF Expired
<1>2. CASE At(h, n, v) # 0 /\ h[At(h, n, v)].uid = h[i].uid /\ h[At(h, n, v)].term
  BY <1>2, AtDom DEF Expired
<1> QED
  BY <1>1, <1>2

\* Nothing need be listed of an entry whose pod has expired.
LEMMA ListedLess ==
  ASSUME NEW h, HistInv(h), NEW v \in 0..Len(h), NEW d, NEW n, NEW e, NEW f,
         Listed(h, v, d, n, e), On(e) => Expired(h, v, e.uid)
  PROVE  Listed(h, v, d, n, f)
<1> DEFINE o == At(h, n, v)
<1> SUFFICES ASSUME o # 0, ~h[o].term, Alive(h, h[o].uid) PROVE o \in d
  BY DEF Listed
<1> HIDE DEF o
<1>1. o \in d \/ (On(e) /\ e.uid = h[o].uid)
  BY DEF Listed, o
<1>2. ASSUME On(e), e.uid = h[o].uid PROVE FALSE
  <2>1. PICK j \in 1..v : h[j].uid = h[o].uid /\ h[j].term
    BY <1>2 DEF Expired
  <2>2. h[o].term
    BY <2>1, AtDom DEF o
  <2> QED
    BY <2>2
<1> QED
  BY <1>1, <1>2

-----------------------------------------------------------------------------
(* Entries that a step has nothing to do with                              *)

\* T and U have the same tasks of n, and f lacks no delta of d that is about it.
SameAbout(h, T, U, d, f, n) ==
  /\ \A t : t.name = n => (t \in T <=> t \in U)
  /\ \A i \in d : h[i].name = n => i \in f

LEMMA FitsKept ==
  ASSUME NEW h, HistInv(h), NEW v \in 0..Len(h), NEW n, NEW e,
         NEW T, NEW U, NEW d, NEW f, SameAbout(h, T, U, d, f, n), d \subseteq 1..v,
         NEW closed, NEW shut, shut = "no" => closed = "no",
         NEW live_, NEW work, NEW sure, Fits(h, v, T, d, closed, live_, work, sure, n, e)
  PROVE  Fits(h, v, U, f, shut, live_, work, sure, n, e)
<1>1. \A t : t.name = n => (t \in T <=> t \in U)
  BY DEF SameAbout
<1>2. Sound(U, live_, n, e)
  BY <1>1 DEF Fits, Sound
<1>3. shut = "no" => Attended(U, n, e)
  BY <1>1 DEF Fits, Attended
<1>4. ASSUME live_, AtLatest(h, v, d, n, e) PROVE AtLatest(h, v, f, n, e)
  <2>1. At(h, n, v) # 0 => h[At(h, n, v)].name = n
    BY AtDom
  <2> QED
    BY <1>4, <2>1 DEF AtLatest, SameAbout
<1>5. ASSUME live_, Leaves(h, v, d, n, e) PROVE Leaves(h, v, f, n, e)
  <2> SUFFICES ASSUME On(e), NEW j \in 1..v, h[j].uid = e.uid, h[j].gone PROVE j \in f
    BY <1>5 DEF Leaves
  <2>1. j \in d
    BY <1>5 DEF Leaves
  <2>2. PICK i \in 1..v : h[i].name = n /\ h[i].uid = e.uid
    BY <1>5 DEF Leaves, Shown
  <2>3. h[j].name = n
    BY <2>2, SameName
  <2> QED
    BY <2>1, <2>3 DEF SameAbout
<1>6. ASSUME live_, OfWorkload(h, v, T, n, e) PROVE OfWorkload(h, v, U, n, e)
  BY <1>1, <1>6 DEF OfWorkload
<1>7. ASSUME live_, Listed(h, v, d, n, e) PROVE Listed(h, v, f, n, e)
  <2>1. At(h, n, v) # 0 => h[At(h, n, v)].name = n
    BY AtDom
  <2> QED
    BY <1>7, <2>1 DEF Listed, SameAbout
<1>8. live_ => Follows(h, v, U, f, work, sure, n, e)
  BY <1>4, <1>5, <1>6, <1>7 DEF Fits, Follows
<1> QED
  BY <1>2, <1>3, <1>8 DEF Fits

-----------------------------------------------------------------------------
(* What checkDone and retire make of a session                             *)

Here == Ctx /\ HistInv(hist) /\ ~disposed

FitsNow(T, d, closed, n, e) ==
  Fits(hist, seen, T, d, closed, Live, target # "pods", n \notin unsure, n, e)

\* The session is right but for the entries of names in M.
Rest(s) == TaskInv(Range(s.queue), Live, target) /\ (s.finishing => s.closed # "no")

WellOff(s, d, M) ==
  Rest(s) /\ \A n \in Names : n \notin M => FitsNow(Range(s.queue), d, s.closed, n, s.pods[n])

Well(s, d) == WellOff(s, d, {})

WellBut(s, d, m) == WellOff(s, d, {m})

RipeNow(pods) ==
  \A n \in Names : On(pods[n]) => pods[n].state = "ended" /\ Finished(Cached(n))

\* DueInv without the deltas that are on their way.
Undue(s) ==
  s.closed = "no" =>
    IF Live THEN RipeNow(s.pods) =>
                    \/ target = "deployment"
                    \/ target = "job" /\ Rechecks(Range(s.queue), jobTimer, s.jobChecks)
    ELSE \E n \in Names : On(s.pods[n]) /\ s.pods[n].state = "streaming"

\* A session that begins to finish over pods has them all finished.
Ends(s, r) ==
  r.finishing /\ ~s.finishing /\ target = "pods" /\ Live => RipeNow(r.pods)

LEMMA HereIs ==
  ASSUME Here
  PROVE  /\ Ctx /\ HistInv(hist) /\ ~disposed /\ seen \in 0..Len(hist)
         /\ Live \in BOOLEAN /\ \A n : Cached(n) = At(hist, n, seen)
BY CtxIs, CachedIs DEF Here, Live

LEMMA UndueIs ==
  ASSUME Here, NEW s, NEW d, Undue(s)
  PROVE  DueInv(hist, seen, s, d, Live, target, jobTimer)
<1>1. Ripe(hist, seen, d, s.pods) => RipeNow(s.pods)
  BY HereIs DEF Ripe, RipeNow, Finished
<1> QED
  BY <1>1 DEF Undue, DueInv

LEMMA KeptAbout ==
  ASSUME NEW q, NEW r, NEW D, Kept(q, r, D), NEW n \in Names, n \notin D
  PROVE  \A t : t.name = n => (t \in Range(q) <=> t \in Range(r))
<1>1. n # FinishTask.name
  BY FinishTaskIs, Bounds
<1> QED
  BY <1>1 DEF Kept

LEMMA KeptTasks ==
  ASSUME NEW q, NEW r, NEW D, Kept(q, r, D), TaskInv(Range(q), Live, target),
         r = q \/ (Live /\ target = "job")
  PROVE  TaskInv(Range(r), Live, target)
<1>1. \A t \in Range(r) : t \in Range(q) \/ (t = FinishTask /\ Live /\ target = "job")
  BY DEF Kept
<1> QED
  BY <1>1, FinishTaskIs DEF TaskInv

LEMMA OffChecked ==
  ASSUME Here, NEW s \in Session, s.ready, NEW d, d \subseteq 1..seen, NEW M,
         WellOff(s, d, M), Live \/ M = {}
  PROVE  WellOff(CheckDone(s), d, M) /\ Undue(CheckDone(s)) /\ Ends(s, CheckDone(s))
<1> DEFINE r == CheckDone(s)
<1>1. /\ r \in Session /\ r.pods = s.pods /\ r.ready = s.ready /\ r.jobChecks = s.jobChecks
      /\ s.closed # "no" => r.closed = s.closed
      /\ Kept(s.queue, r.queue, {})
      /\ r.queue = s.queue \/ (r.queue = Append(s.queue, FinishTask) /\ Live /\ target = "job")
  BY HereIs, CheckDoneIs
<1>2. CheckedAs(s, r)
  BY HereIs, CheckDoneAs
<1> HIDE DEF r
<1>3. TaskInv(Range(r.queue), Live, target)
  BY <1>1, KeptTasks DEF WellOff, Rest
<1>4. r.finishing => r.closed # "no"
  <2>1. r = s \/ r = Finish(s) \/ r = Push(s, FinishTask)
    BY <1>2 DEF CheckedAs
  <2> QED
    BY <2>1, FinishIs, PushIs, FinishTaskIs DEF WellOff, Rest, Aside
<1>5. ASSUME NEW n \in Names, n \notin M PROVE FitsNow(Range(r.queue), d, r.closed, n, r.pods[n])
  <2>1. SameAbout(hist, Range(s.queue), Range(r.queue), d, d, n)
    BY <1>1, KeptAbout DEF SameAbout
  <2>2. r.closed = "no" => s.closed = "no"
    BY <1>1
  <2>3. FitsNow(Range(s.queue), d, s.closed, n, r.pods[n])
    BY <1>1, <1>5 DEF WellOff
  <2> QED
    BY <2>1, <2>2, <2>3, HereIs, FitsKept DEF FitsNow
<1>6. Active(s) = {n \in Names : On(s.pods[n])}
  BY DEF Active, On
<1>7. ASSUME Busy(s), ~Live PROVE \E n \in Names : On(s.pods[n]) /\ s.pods[n].state = "streaming"
  <2>1. PICK n \in Names : On(s.pods[n]) /\ s.pods[n].state \in {"pending", "streaming", "grace"}
    BY <1>6, <1>7 DEF Busy
  <2>2. Sound(Range(s.queue), Live, n, s.pods[n])
    BY <1>7 DEF WellOff, FitsNow, Fits
  <2> QED
    BY <1>7, <2>1, <2>2 DEF Sound
<1>8. Busy(s) => ~RipeNow(s.pods)
  BY <1>6 DEF Busy, RipeNow
<1>9. Holds(s) /\ Live => ~RipeNow(s.pods)
  BY <1>6 DEF Holds, RipeNow, Feed, Live
<1>10. Undue(r)
  <2>1. CASE r = s /\ (~s.ready \/ disposed \/ s.finishing \/ Busy(s))
    BY <1>7, <1>8, <2>1 DEF Here, Undue, WellOff, Rest
  <2>2. CASE r = s /\ Live /\ (Holds(s) \/ target = "deployment")
    BY <1>9, <2>2 DEF Undue
  <2>3. CASE r = Finish(s)
    BY <2>3, FinishIs DEF Undue
  <2>4. CASE r = Push(s, FinishTask) /\ Live /\ target = "job"
    <3>1. r.queue = Append(s.queue, FinishTask) /\ s.queue \in Seq(Task)
      BY <2>4, PushIs, FinishTaskIs, SessionIs
    <3>2. FinishTask \in Range(r.queue)
      BY <3>1, PushRange, FinishTaskIs
    <3> QED
      BY <2>4, <3>2, FinishTaskIs DEF Undue, Rechecks
  <2> QED
    BY <1>2, <2>1, <2>2, <2>3, <2>4 DEF CheckedAs
<1>11. Ends(s, r)
  <2>1. r.finishing /\ ~s.finishing => r = Finish(s) /\ ~Busy(s) /\ (Live => ~Holds(s))
    BY <1>2, PushIs, FinishTaskIs DEF CheckedAs, Aside
  <2>2. ~Busy(s) /\ ~Holds(s) /\ Live => RipeNow(s.pods)
    <3>1. \A n \in Names : s.pods[n].state \in {"pending", "waiting", "streaming", "grace", "ended"}
      BY SessionIs, EntryIs
    <3> QED
      BY <1>6, <3>1 DEF Busy, Holds, RipeNow, Feed, Live
  <2> QED
    BY <1>1, <2>1, <2>2 DEF Ends
<1> QED
  BY <1>3, <1>4, <1>5, <1>10, <1>11 DEF r, WellOff, Rest

LEMMA WellChecked ==
  ASSUME Here, NEW s \in Session, s.ready, NEW d, d \subseteq 1..seen, Well(s, d)
  PROVE  Well(CheckDone(s), d) /\ Undue(CheckDone(s)) /\ Ends(s, CheckDone(s))
BY OffChecked DEF Well

LEMMA WellPut ==
  ASSUME NEW s \in Session, NEW d, NEW n \in Names, WellBut(s, d, n), NEW r, NEW e,
         Puts(s, r, n, e), FitsNow(Range(s.queue), d, s.closed, n, e)
  PROVE  Well(r, d)
BY DEF Puts, Aside, Well, WellBut, WellOff, Rest

LEMMA EndsPut ==
  ASSUME NEW s, NEW t, NEW r, t.finishing = s.finishing, Ends(t, r)
  PROVE  Ends(s, r)
BY DEF Ends

LEMMA PutWellChecked ==
  ASSUME Here, NEW s \in Session, s.ready, NEW d, d \subseteq 1..seen, NEW n \in Names,
         WellBut(s, d, n), NEW e \in Entry, FitsNow(Range(s.queue), d, s.closed, n, e)
  PROVE  LET r == CheckDone([s EXCEPT !.pods[n] = e]) IN
         Well(r, d) /\ Undue(r) /\ Ends(s, r)
<1> DEFINE t == [s EXCEPT !.pods[n] = e]
<1>1. Puts(s, t, n, e)
  BY PutIs
<1> HIDE DEF t
<1>2. Well(t, d) /\ t \in Session /\ t.ready /\ t.finishing = s.finishing
  BY <1>1, WellPut DEF Puts, Aside
<1>3. Well(CheckDone(t), d) /\ Undue(CheckDone(t)) /\ Ends(t, CheckDone(t))
  BY <1>2, WellChecked
<1> QED
  BY <1>2, <1>3, EndsPut DEF t

LEMMA DroppedTasks ==
  ASSUME NEW s \in Session, NEW n \in Names
  PROVE  \A t \in Range(Dropped(s, n).queue) : t \in Range(s.queue)
<1> DEFINE q == s.queue
           P == {k \in DOMAIN q : q[k].name # n}
           r == Picked(q, P)
<1>1. Dropped(s, n).queue = r
  BY DEF Dropped, Session
<1>2. q \in Seq(Task)
  BY SessionIs
<1>3. PICK f : PickedTo(q, P, Len(q), r, f)
  BY <1>2, PickedIs
<1> HIDE DEF r, P
<1>4. \A i \in DOMAIN r : f[i] \in DOMAIN q /\ r[i] = q[f[i]]
  BY <1>3 DEF PickedTo
<1> QED
  BY <1>1, <1>4 DEF Range

\* The entry that retire leaves behind.
LEMMA GoneFits ==
  ASSUME Here, NEW n \in Names, NEW e \in Entry, e.known, NEW T, \A t \in T : t.name # n,
         NEW d, NEW closed,
         Live /\ target # "pods" => Shown(hist, seen, n, e) /\ Expired(hist, seen, e.uid),
         Live /\ target # "pods" /\ n \notin unsure => Listed(hist, seen, d, n, e)
  PROVE  FitsNow(T, d, closed, n, Gone(e))
<1> DEFINE g == Gone(e)
<1>1. /\ g.state = "ended" /\ ~g.timer /\ g.known /\ g.uid = e.uid /\ g.left /\ ~g.request
  BY GoneIs
<1> HIDE DEF g
<1>2. Sound(T, Live, n, g)
  BY <1>1 DEF Sound
<1>3. Attended(T, n, g)
  BY <1>1 DEF Attended
<1>4. AtLatest(hist, seen, d, n, g) /\ Leaves(hist, seen, d, n, g)
  BY <1>1 DEF AtLatest, Leaves, On
<1>5. Live /\ target # "pods" => OfWorkload(hist, seen, T, n, g)
  BY <1>1 DEF OfWorkload, Shown, Expired
<1>6. Live /\ target # "pods" /\ n \notin unsure => Listed(hist, seen, d, n, g)
  <2>1. seen \in 0..Len(hist) /\ HistInv(hist)
    BY HereIs
  <2> QED
    BY <2>1, ListedLess
<1>7. Live => Follows(hist, seen, T, d, target # "pods", n \notin unsure, n, g)
  BY <1>4, <1>5, <1>6 DEF Follows
<1> QED
  BY <1>2, <1>3, <1>7 DEF FitsNow, Fits, g

LEMMA DroppedOff ==
  ASSUME Here, NEW s \in Session, NEW d, d \subseteq 1..seen, NEW n \in Names, WellBut(s, d, n)
  PROVE  /\ WellBut(Dropped(s, n), d, n) /\ Dropped(s, n) \in Session /\ Aside(s, Dropped(s, n))
         /\ \A u \in Range(Dropped(s, n).queue) : u.name # n
         /\ Dropped(s, n).pods[n] = Gone(s.pods[n])
<1> DEFINE t == Dropped(s, n)
           T == Range(t.queue)
<1>1. /\ t \in Session /\ Aside(s, t) /\ Kept(s.queue, t.queue, {n})
      /\ t.pods[n] = Gone(s.pods[n]) /\ \A m \in Names : m # n => t.pods[m] = s.pods[m]
  BY DroppedIs
<1>2. \A u \in T : u \in Range(s.queue)
  BY DroppedTasks
<1> HIDE DEF t
<1>3. \A u \in T : u.name # n
  <2>1. n # FinishTask.name
    BY FinishTaskIs, Bounds
  <2> QED
    BY <1>1, <2>1 DEF Kept
<1>4. ASSUME NEW m \in Names, m # n PROVE FitsNow(T, d, t.closed, m, t.pods[m])
  <2>1. SameAbout(hist, Range(s.queue), T, d, d, m)
    BY <1>1, <1>4, KeptAbout DEF SameAbout
  <2>2. FitsNow(Range(s.queue), d, s.closed, m, t.pods[m]) /\ t.closed = s.closed
    BY <1>1, <1>4 DEF WellBut, WellOff, Aside
  <2> QED
    BY <2>1, <2>2, HereIs, FitsKept DEF FitsNow
<1>5. TaskInv(T, Live, target)
  BY <1>2 DEF WellBut, WellOff, Rest, TaskInv
<1>6. WellBut(t, d, n)
  BY <1>1, <1>4, <1>5 DEF WellBut, WellOff, Rest, Aside
<1> QED
  BY <1>1, <1>3, <1>6 DEF t

LEMMA WellRetired ==
  ASSUME Here, NEW s \in Session, s.ready, NEW d, d \subseteq 1..seen, NEW n \in Names,
         WellBut(s, d, n), s.pods[n].known, ~s.pods[n].left,
         Live /\ target # "pods" => /\ Shown(hist, seen, n, s.pods[n])
                                    /\ Expired(hist, seen, s.pods[n].uid),
         Live /\ target # "pods" /\ n \notin unsure => Listed(hist, seen, d, n, s.pods[n])
  PROVE  Well(Retire(s, n), d) /\ Undue(Retire(s, n)) /\ Ends(s, Retire(s, n))
<1> DEFINE t == Dropped(s, n)
           T == Range(t.queue)
<1>1. Retire(s, n) = CheckDone(t)
  BY RetireIs, HereIs
<1>2. /\ t \in Session /\ Aside(s, t) /\ \A u \in T : u.name # n
      /\ t.pods[n] = Gone(s.pods[n]) /\ WellBut(t, d, n)
  BY DroppedOff, ZenonT(40)
<1> HIDE DEF t
<1>3. s.pods[n] \in Entry
  BY SessionIs
<1>4. FitsNow(T, d, t.closed, n, t.pods[n])
  BY <1>2, <1>3, GoneFits
<1>5. Well(t, d)
  BY <1>2, <1>4 DEF Well, WellBut, WellOff
<1>6. Well(CheckDone(t), d) /\ Undue(CheckDone(t)) /\ Ends(t, CheckDone(t))
  BY <1>2, <1>5, WellChecked DEF Aside
<1> QED
  BY <1>1, <1>2, <1>6, EndsPut DEF Aside

\* A pod that is forgotten need not have expired.
LEMMA OffRetired ==
  ASSUME Here, Live, NEW s \in Session, s.ready, NEW d, d \subseteq 1..seen, NEW n \in Names,
         WellBut(s, d, n), ~s.pods[n].left
  PROVE  LET r == Retire(s, n) IN
         /\ WellBut(r, d, n) /\ Undue(r) /\ Ends(s, r)
         /\ \A u \in Range(r.queue) : u.name # n
<1> DEFINE t == Dropped(s, n)
           r == CheckDone(t)
<1>1. Retire(s, n) = r
  BY RetireIs, HereIs
<1>2. /\ t \in Session /\ Aside(s, t) /\ \A u \in Range(t.queue) : u.name # n
      /\ WellBut(t, d, n)
  BY DroppedOff
<1> HIDE DEF t
<1>3. WellBut(r, d, n) /\ Undue(r) /\ Ends(t, r)
  BY <1>2, OffChecked DEF WellBut, Aside
<1>4. Kept(t.queue, r.queue, {})
  BY <1>2, HereIs, CheckDoneIs
<1>5. \A u \in Range(r.queue) : u.name # n
  <2>1. n # FinishTask.name
    BY FinishTaskIs, Bounds
  <2> QED
    BY <1>2, <1>4, <2>1 DEF Kept
<1> QED
  BY <1>1, <1>2, <1>3, <1>5, EndsPut DEF Aside

-----------------------------------------------------------------------------
(* What advance makes of an entry                                          *)

LEMMA AdvanceSteps ==
  ASSUME Here, Live, NEW n \in Names, NEW o \in 0..Len(hist), NEW e \in Entry, e.known, ~e.left,
         NEW T
  PROVE  LET a == Advance(e, o) IN
         /\ a \in Entry /\ a.known /\ ~a.left /\ a.uid = e.uid
         /\ Sound(T, Live, n, a)
         /\ Attended(T, n, e) => Attended(T, n, a)
         /\ \/ a.state = "streaming"
            \/ /\ RunId(o) \in {0, a.run}
               /\ a.state = "waiting" => Waiting(o)
<1> DEFINE a == Advance(e, o)
<1>1. a \in Entry
  BY HereIs, AdvanceIs
<1>2. RunId(o) \in 0..MaxVersions
  BY HereIs, RunIs
<1>3. CASE e.state = "streaming"
  <2>1. a = e
    BY <1>3, HereIs, AdvanceIs
  <2> QED
    BY <1>1, <1>3, <2>1 DEF Sound
<1>4. CASE e.state # "streaming"
  <2>1. Advanced(e, o, a)
    BY <1>4, HereIs, AdvanceIs
  <2> HIDE DEF a
  <2>2. CASE a = StartStream(e, RunId(o))
    <3>1. a.known /\ ~a.left /\ a.uid = e.uid /\ a.state = "streaming" /\ ~a.timer /\ a.request
      BY <1>2, <2>2, StartStreamIs
    <3> QED
      BY <1>1, <3>1 DEF Sound, Attended, a
  <2>3. CASE RunId(o) \in {0, e.run} /\ a = Rests(e, "ended")
    <3>1. a.known /\ ~a.left /\ a.uid = e.uid /\ a.state = "ended" /\ ~a.timer /\ a.run = e.run
      BY <2>3, RestsIs
    <3> QED
      BY <1>1, <2>3, <3>1 DEF Sound, Attended, a
  <2>4. CASE RunId(o) \in {0, e.run} /\ Waiting(o) /\ a = Rests(e, "waiting")
    <3>1. a.known /\ ~a.left /\ a.uid = e.uid /\ a.state = "waiting" /\ ~a.timer /\ a.run = e.run
      BY <2>4, RestsIs
    <3> QED
      BY <1>1, <2>4, <3>1 DEF Sound, Attended, a
  <2>5. CASE RunId(o) \in {0, e.run} /\ e.state = "grace" /\ a = e
    BY <1>1, <2>5 DEF Sound, a
  <2>6. CASE RunId(o) \in {0, e.run} /\ a = [e EXCEPT !.state = "grace", !.timer = TRUE]
    <3>1. a.known /\ ~a.left /\ a.uid = e.uid /\ a.state = "grace" /\ a.timer /\ a.run = e.run
      BY <2>6, GraceIs
    <3> QED
      BY <1>1, <2>6, <3>1 DEF Sound, Attended, a
  <2> QED
    BY <2>1, <2>2, <2>3, <2>4, <2>5, <2>6 DEF Advanced
<1> QED
  BY <1>3, <1>4

\* The entry is at the version o: it is at the latest, or that is to come.
LEMMA AtLatestIs ==
  ASSUME Here, NEW n \in Names, NEW o, NEW e, NEW d, At(hist, n, seen) \in d \cup {0, o},
         e.state = "streaming" \/ (RunId(o) \in {0, e.run} /\ (e.state = "waiting" => Waiting(o)))
  PROVE  AtLatest(hist, seen, d, n, e)
BY DEF AtLatest, RunId, Waiting

LEMMA AdvanceFits ==
  ASSUME Here, Live, NEW n \in Names, NEW o \in 0..Len(hist), NEW e \in Entry, e.known, ~e.left,
         NEW T, NEW closed, closed = "no" => Attended(T, n, e),
         NEW d, At(hist, n, seen) \in d \cup {0, o},
         n \notin unsure => Leaves(hist, seen, d, n, e),
         target # "pods" => OfWorkload(hist, seen, T, n, e),
         target # "pods" /\ n \notin unsure => Listed(hist, seen, d, n, e)
  PROVE  FitsNow(T, d, closed, n, Advance(e, o))
<1> DEFINE a == Advance(e, o)
<1>1. /\ a.known /\ ~a.left /\ a.uid = e.uid /\ Sound(T, Live, n, a)
      /\ Attended(T, n, e) => Attended(T, n, a)
      /\ \/ a.state = "streaming"
         \/ RunId(o) \in {0, a.run} /\ (a.state = "waiting" => Waiting(o))
  BY AdvanceSteps
<1> HIDE DEF a
<1>2. AtLatest(hist, seen, d, n, a)
  BY <1>1, AtLatestIs
<1>3. n \notin unsure => Leaves(hist, seen, d, n, a)
  BY <1>1 DEF Leaves, On, Shown
<1>4. target # "pods" => OfWorkload(hist, seen, T, n, a)
  BY <1>1 DEF OfWorkload, Shown
<1>5. target # "pods" /\ n \notin unsure => Listed(hist, seen, d, n, a)
  BY <1>1 DEF Listed, On
<1> QED
  BY <1>1, <1>2, <1>3, <1>4, <1>5 DEF FitsNow, Fits, Follows, a

LEMMA AddedSteps ==
  ASSUME Here, Live, NEW n \in Names, NEW o \in 0..Len(hist), NEW T
  PROVE  LET a == Added(o) IN
         /\ a \in Entry /\ a.known /\ ~a.left /\ a.uid = (IF o = 0 THEN 0 ELSE hist[o].uid)
         /\ Sound(T, Live, n, a) /\ Attended(T, n, a)
         /\ \/ a.state = "streaming"
            \/ /\ RunId(o) \in {0, a.run}
               /\ a.state = "waiting" => Waiting(o)
<1> DEFINE e == [Unknown EXCEPT !.known = TRUE, !.state = "pending",
                   !.uid = IF o = 0 THEN 0 ELSE hist[o].uid, !.term = Terminating(o)]
<1>1. /\ e \in Entry /\ Added(o) = Advance(e, o) /\ e.known /\ e.state = "pending" /\ ~e.left
      /\ e.uid = (IF o = 0 THEN 0 ELSE hist[o].uid)
  BY HereIs, AddedIs
<1> HIDE DEF e
<1>2. Attended(T, n, e)
  BY <1>1 DEF Attended
<1> QED
  BY <1>1, <1>2, AdvanceSteps, ZenonT(40)

LEMMA AddedFits ==
  ASSUME Here, Live, NEW n \in Names, NEW o \in 0..Len(hist), NEW T, \A t \in T : t.name # n,
         NEW closed, NEW d, At(hist, n, seen) \in d \cup {0, o},
         n \notin unsure \/ target # "pods" => Found(hist, seen, d, n, o)
  PROVE  FitsNow(T, d, closed, n, Added(o))
<1> DEFINE a == Added(o)
<1>1. /\ a.known /\ ~a.left /\ a.uid = (IF o = 0 THEN 0 ELSE hist[o].uid) /\ Sound(T, Live, n, a)
      /\ Attended(T, n, a)
      /\ \/ a.state = "streaming"
         \/ RunId(o) \in {0, a.run} /\ (a.state = "waiting" => Waiting(o))
  BY AddedSteps
<1> HIDE DEF a
<1>2. AtLatest(hist, seen, d, n, a)
  BY <1>1, AtLatestIs
<1>3. ASSUME Found(hist, seen, d, n, o)
      PROVE  /\ Leaves(hist, seen, d, n, a) /\ OfWorkload(hist, seen, T, n, a)
             /\ Listed(hist, seen, d, n, a)
  <2>1. o \in 1..seen /\ hist[o].name = n /\ o # 0
    BY <1>3, HereIs, HistDom DEF Found
  <2>2. a.uid = hist[o].uid /\ Shown(hist, seen, n, a)
    BY <1>1, <2>1 DEF Shown
  <2>3. Leaves(hist, seen, d, n, a)
    BY <1>3, <2>2 DEF Leaves, Found
  <2>4. OfWorkload(hist, seen, T, n, a)
    BY <1>1, <2>2 DEF OfWorkload
  <2>5. Listed(hist, seen, d, n, a)
    BY <1>1, <2>2 DEF Listed, On
  <2> QED
    BY <2>3, <2>4, <2>5
<1> QED
  BY <1>1, <1>2, <1>3 DEF FitsNow, Fits, Follows, a

\* A name that nobody knows, or that is forgotten.
LEMMA UnknownFits ==
  ASSUME Here, NEW n \in Names, NEW T, \A t \in T : t.name # n, NEW closed, NEW d,
         Live /\ target # "pods" /\ n \notin unsure => Listed(hist, seen, d, n, Unknown)
  PROVE  FitsNow(T, d, closed, n, Unknown)
<1>1. /\ ~Unknown.known /\ ~Unknown.left /\ Unknown.state = "ended" /\ ~Unknown.timer
      /\ ~Unknown.request
  BY UnknownIs
<1>2. Sound(T, Live, n, Unknown) /\ Attended(T, n, Unknown)
  BY <1>1 DEF Sound, Attended
<1>3. AtLatest(hist, seen, d, n, Unknown) /\ Leaves(hist, seen, d, n, Unknown)
  BY <1>1 DEF AtLatest, Leaves, On
<1>4. OfWorkload(hist, seen, T, n, Unknown)
  BY <1>1 DEF OfWorkload
<1> QED
  BY <1>2, <1>3, <1>4 DEF FitsNow, Fits, Follows

-----------------------------------------------------------------------------
(* What a delta makes of a session                                         *)

\* The session s is at the delta o of those (D) that it has been told.
AtDelta(s, D, o) ==
  /\ s \in Session /\ s.ready /\ D \subseteq 1..seen /\ o \in D
  /\ Follow(hist, seen, D) /\ Well(s, D)

LEMMA DeltaIs ==
  ASSUME Here, NEW s \in Session, NEW o \in 1..Len(hist)
  PROVE  LET n == hist[o].name
             e == s.pods[n]
         IN /\ Replaced(s, o) => e.known
            /\ Delta(s, o) = IF Replaced(s, o) THEN IF hist[o].gone THEN s ELSE Forget(s, n)
                             ELSE IF ~e.known THEN s
                             ELSE IF hist[o].gone THEN Retire(s, n)
                             ELSE IF e.left THEN s ELSE PodUpdated(s, n, o)
<1> DEFINE n == hist[o].name
           e == s.pods[n]
           t == IF Replaced(s, o) /\ ~hist[o].gone THEN Forget(s, n) ELSE s
<1>1. n \in Names
  BY HereIs, PodIs
<1>2. e.known \in BOOLEAN /\ hist[o].gone \in BOOLEAN /\ Replaced(s, o) \in BOOLEAN
      /\ (Replaced(s, o) => e.known)
  BY <1>1, SessionIs, EntryIs, PodIs, HereIs DEF Replaced
<1>3. Replaced(s, o) /\ ~hist[o].gone => ~t.pods[n].known
  <2>1. ASSUME Replaced(s, o), ~hist[o].gone PROVE ~t.pods[n].known
    <3>1. t = [Retire(s, n) EXCEPT !.pods[n] = Unknown]
      BY <2>1 DEF Forget
    <3>2. Retire(s, n) \in Session
      BY <1>1, RetireIs, HereIs
    <3>3. Puts(Retire(s, n), t, n, Unknown)
      BY <1>1, <3>1, <3>2, PutIs, UnknownIs
    <3> QED
      BY <3>3, UnknownIs DEF Puts
  <2> QED
    BY <2>1
<1>4. Delta(s, o) = CASE Replaced(s, o) /\ hist[o].gone -> s
                      [] ~t.pods[n].known -> t
                      [] t.pods[n].known /\ ~Replaced(s, o) /\ hist[o].gone -> Retire(t, n)
                      [] t.pods[n].known /\ ~hist[o].gone ->
                           IF t.pods[n].left THEN t ELSE PodUpdated(t, n, o)
  BY DEF Delta
<1>5. CASE Replaced(s, o) /\ hist[o].gone
  <2>1. t = s /\ t.pods[n].known
    BY <1>2, <1>5
  <2> HIDE DEF t
  <2>2. Delta(s, o) = s
    BY <1>4, <1>5, <2>1
  <2> QED
    BY <1>2, <1>5, <2>2
<1>6. CASE Replaced(s, o) /\ ~hist[o].gone
  <2>1. t = Forget(s, n)
    BY <1>6
  <2> HIDE DEF t
  <2>2. Delta(s, o) = t
    BY <1>3, <1>4, <1>6
  <2> QED
    BY <1>2, <1>6, <2>1, <2>2
<1>7. CASE ~Replaced(s, o)
  <2>1. t = s
    BY <1>7
  <2> HIDE DEF t
  <2>2. Delta(s, o) = IF ~e.known THEN s
                      ELSE IF hist[o].gone THEN Retire(s, n)
                      ELSE IF e.left THEN s ELSE PodUpdated(s, n, o)
    BY <1>2, <1>4, <1>7, <2>1
  <2> QED
    BY <1>2, <1>7, <2>2
<1> QED
  BY <1>2, <1>5, <1>6, <1>7

LEMMA ToCome ==
  ASSUME Here, NEW s, NEW D, NEW o, AtDelta(s, D, o)
  PROVE  LET n == hist[o].name
             c == At(hist, n, seen)
         IN /\ o \in 1..seen /\ o \in 1..Len(hist) /\ n \in Names /\ o \in Nat /\ o # 0
            /\ hist[o] \in Pod /\ hist[o].uid # 0
            /\ hist[o].gone => c # o
            /\ ~hist[o].gone => c \in (D \ {o}) \cup {0, o} /\ Found(hist, seen, D \ {o}, n, o)
            /\ ~hist[o].gone => c \in D \cup {0}
<1> DEFINE n == hist[o].name
           c == At(hist, n, seen)
<1>1. seen \in 0..Len(hist) /\ HistInv(hist) /\ Ctx
  BY HereIs
<1>2. o \in 1..seen
  BY DEF AtDelta
<1>3. o \in 1..Len(hist) /\ o \in Nat /\ o # 0
  BY <1>1, <1>2, HistDom
<1>4. n \in Names /\ hist[o] \in Pod /\ hist[o].uid # 0
  BY <1>1, <1>3, PodIs
<1>5. c # 0 => ~hist[c].gone
  BY <1>1, AtDom
<1>6. ~hist[o].gone => c \in D \cup {0}
  BY DEF AtDelta, Follow
<1>7. ~hist[o].gone => Found(hist, seen, D \ {o}, n, o)
  BY <1>2 DEF AtDelta, Follow, Found
<1> QED
  BY <1>2, <1>3, <1>4, <1>5, <1>6, <1>7

LEMMA LessDelta ==
  ASSUME Here, NEW s, NEW D, NEW o, AtDelta(s, D, o)
  PROVE  WellBut(s, D \ {o}, hist[o].name)
<1>1. seen \in 0..Len(hist) /\ HistInv(hist)
  BY HereIs
<1>2. ASSUME NEW m \in Names, m # hist[o].name
      PROVE  FitsNow(Range(s.queue), D \ {o}, s.closed, m, s.pods[m])
  <2>1. SameAbout(hist, Range(s.queue), Range(s.queue), D, D \ {o}, m)
    BY <1>2 DEF SameAbout
  <2>2. FitsNow(Range(s.queue), D, s.closed, m, s.pods[m]) /\ D \subseteq 1..seen
    BY DEF AtDelta, Well, WellOff
  <2> QED
    BY <1>1, <2>1, <2>2, FitsKept DEF FitsNow
<1> QED
  BY <1>2 DEF AtDelta, Well, WellOff, WellBut

\* The entry of the name, before.
LEMMA FitsBefore ==
  ASSUME Here, Live, NEW s, NEW D, NEW o, AtDelta(s, D, o)
  PROVE  LET n == hist[o].name
             e == s.pods[n]
             T == Range(s.queue)
         IN /\ e \in Entry /\ Sound(T, Live, n, e)
            /\ s.closed = "no" => Attended(T, n, e)
            /\ AtLatest(hist, seen, D, n, e)
            /\ n \notin unsure => Leaves(hist, seen, D, n, e)
            /\ target # "pods" => OfWorkload(hist, seen, T, n, e)
            /\ target # "pods" /\ n \notin unsure => Listed(hist, seen, D, n, e)
<1>1. hist[o].name \in Names
  BY ToCome
<1>2. FitsNow(Range(s.queue), D, s.closed, hist[o].name, s.pods[hist[o].name])
  BY <1>1 DEF AtDelta, Well, WellOff
<1>3. s.pods[hist[o].name] \in Entry
  BY <1>1, SessionIs DEF AtDelta
<1> QED
  BY <1>2, <1>3 DEF FitsNow, Fits, Follows

\* A pod of a workload has a uid.
LEMMA ShownUid ==
  ASSUME Here, NEW n, NEW e, Shown(hist, seen, n, e)
  PROVE  e.uid # 0
<1>1. PICK i \in 1..seen : hist[i].uid = e.uid
  BY DEF Shown
<1>2. i \in 1..Len(hist)
  BY HereIs, HistDom
<1>3. hist[i].uid \in 1..MaxVersions
  BY <1>2, HereIs, PodIs
<1> QED
  BY <1>1, <1>3, Bounds

LEMMA SameUid ==
  ASSUME Here, Live, NEW s, NEW D, NEW o, AtDelta(s, D, o), target # "pods",
         s.pods[hist[o].name].known, ~Replaced(s, o)
  PROVE  /\ s.pods[hist[o].name].uid = hist[o].uid
         /\ Shown(hist, seen, hist[o].name, s.pods[hist[o].name])
<1> DEFINE n == hist[o].name
           e == s.pods[n]
<1>1. OfWorkload(hist, seen, Range(s.queue), n, e)
  BY FitsBefore
<1>2. Shown(hist, seen, n, e)
  BY <1>1 DEF OfWorkload
<1>3. e.uid # 0
  BY <1>2, ShownUid
<1> QED
  BY <1>2, <1>3 DEF Replaced

\* After the delta the entry of the same pod lacks nothing else.
LEMMA FollowsNext ==
  ASSUME Here, Live, NEW s, NEW D, NEW o, AtDelta(s, D, o), ~hist[o].gone, ~Replaced(s, o),
         s.pods[hist[o].name].known
  PROVE  LET n == hist[o].name
             e == s.pods[n]
         IN /\ n \notin unsure => Leaves(hist, seen, D \ {o}, n, e)
            /\ target # "pods" /\ n \notin unsure => Listed(hist, seen, D \ {o}, n, e)
<1> DEFINE n == hist[o].name
           e == s.pods[n]
           c == At(hist, n, seen)
<1>1. n \notin unsure => Leaves(hist, seen, D \ {o}, n, e)
  <2>1. n \notin unsure => Leaves(hist, seen, D, n, e)
    BY FitsBefore
  <2> QED
    BY <2>1 DEF Leaves
<1>2. ASSUME target # "pods", n \notin unsure PROVE Listed(hist, seen, D \ {o}, n, e)
  <2> SUFFICES ASSUME c # 0, ~hist[c].term, Alive(hist, hist[c].uid)
               PROVE  c \in D \ {o} \/ (On(e) /\ e.uid = hist[c].uid)
    BY DEF Listed
  <2>1. e.uid = hist[o].uid
    BY <1>2, SameUid
  <2>2. c \in D \ {o} \/ c = o
    BY ToCome
  <2>3. ASSUME c = o, e.left PROVE FALSE
    <3>1. ~Alive(hist, e.uid) \/ \E j \in 1..seen : hist[j].uid = e.uid /\ hist[j].term
      BY <1>2, <2>3, FitsBefore DEF OfWorkload
    <3>2. PICK j \in 1..seen : hist[j].uid = hist[c].uid /\ hist[j].term
      BY <2>1, <2>3, <3>1
    <3>3. seen \in 0..Len(hist) /\ HistInv(hist)
      BY HereIs
    <3>4. hist[c].term
      BY <3>2, <3>3, AtDom
    <3> QED
      BY <3>4
  <2> QED
    BY <2>1, <2>2, <2>3 DEF On
<1> QED
  BY <1>1, <1>2

DueNow(s, d) == DueInv(hist, seen, s, d, Live, target, jobTimer)

\* The delta says nothing of what still matters of the entry.
LEMMA GoneAnyway ==
  ASSUME Here, Live, NEW s, NEW D, NEW o, AtDelta(s, D, o), hist[o].gone,
         Replaced(s, o) \/ ~On(s.pods[hist[o].name])
  PROVE  FitsNow(Range(s.queue), D \ {o}, s.closed, hist[o].name, s.pods[hist[o].name])
<1> DEFINE n == hist[o].name
           e == s.pods[n]
           c == At(hist, n, seen)
           T == Range(s.queue)
<1>1. c # o
  BY ToCome
<1>2. AtLatest(hist, seen, D \ {o}, n, e)
  <2>1. AtLatest(hist, seen, D, n, e)
    BY FitsBefore
  <2> QED
    BY <1>1, <2>1 DEF AtLatest
<1>3. ASSUME n \notin unsure PROVE Leaves(hist, seen, D \ {o}, n, e)
  <2>1. Leaves(hist, seen, D, n, e)
    BY <1>3, FitsBefore
  <2>2. On(e) => e.uid # hist[o].uid
    BY DEF Replaced
  <2> QED
    BY <2>1, <2>2 DEF Leaves
<1>4. ASSUME target # "pods", n \notin unsure PROVE Listed(hist, seen, D \ {o}, n, e)
  <2>1. Listed(hist, seen, D, n, e)
    BY <1>4, FitsBefore
  <2> QED
    BY <1>1, <2>1 DEF Listed
<1>5. /\ Sound(T, Live, n, e) /\ (s.closed = "no" => Attended(T, n, e))
      /\ target # "pods" => OfWorkload(hist, seen, T, n, e)
  BY FitsBefore
<1> QED
  BY <1>2, <1>3, <1>4, <1>5 DEF FitsNow, Fits, Follows

\* The pod left before, and the delta is of the same pod.
LEMMA LeftAnyway ==
  ASSUME Here, Live, NEW s, NEW D, NEW o, AtDelta(s, D, o), ~hist[o].gone, ~Replaced(s, o),
         s.pods[hist[o].name].known, s.pods[hist[o].name].left
  PROVE  FitsNow(Range(s.queue), D \ {o}, s.closed, hist[o].name, s.pods[hist[o].name])
<1> DEFINE n == hist[o].name
           e == s.pods[n]
           T == Range(s.queue)
<1>1. AtLatest(hist, seen, D \ {o}, n, e) /\ Leaves(hist, seen, D \ {o}, n, e)
  BY DEF AtLatest, Leaves, On
<1>2. target # "pods" /\ n \notin unsure => Listed(hist, seen, D \ {o}, n, e)
  BY FollowsNext
<1>3. /\ Sound(T, Live, n, e) /\ (s.closed = "no" => Attended(T, n, e))
      /\ target # "pods" => OfWorkload(hist, seen, T, n, e)
  BY FitsBefore
<1> QED
  BY <1>1, <1>2, <1>3 DEF FitsNow, Fits, Follows

LEMMA Stranger ==
  ASSUME Here, Live, NEW s, NEW D, NEW o, AtDelta(s, D, o), ~s.pods[hist[o].name].known
  PROVE  /\ s.pods[hist[o].name] = Unknown
         /\ \A t \in Range(s.queue) : t.name # hist[o].name
BY FitsBefore DEF Sound

\* A name that stays unknown, or is forgotten, after a delta that asks nobody.
LEMMA UnknownAnyway ==
  ASSUME Here, Live, NEW s, NEW D, NEW o, AtDelta(s, D, o),
         target = "pods" \/ Terminating(o), ~hist[o].gone,
         NEW T, \A t \in T : t.name # hist[o].name, NEW closed
  PROVE  FitsNow(T, D \ {o}, closed, hist[o].name, Unknown)
<1> DEFINE n == hist[o].name
           c == At(hist, n, seen)
<1>1. target # "pods" => Listed(hist, seen, D \ {o}, n, Unknown)
  <2>1. c \in (D \ {o}) \cup {0, o}
    BY ToCome
  <2> QED
    BY <2>1 DEF Listed, Terminating
<1>2. n \in Names
  BY ToCome
<1> QED
  BY <1>1, <1>2, UnknownFits

\* While the matcher is asked, its delta is still to come.
LEMMA UnknownWaits ==
  ASSUME Here, Live, NEW s, NEW D, NEW o, AtDelta(s, D, o), ~hist[o].gone,
         NEW T, \A t \in T : t.name # hist[o].name, NEW closed
  PROVE  FitsNow(T, D, closed, hist[o].name, Unknown)
<1> DEFINE n == hist[o].name
           c == At(hist, n, seen)
<1>1. Listed(hist, seen, D, n, Unknown)
  <2>1. c \in D \cup {0}
    BY ToCome
  <2> QED
    BY <2>1 DEF Listed
<1>2. n \in Names
  BY ToCome
<1> QED
  BY <1>1, <1>2, UnknownFits

LEMMA DueKept ==
  ASSUME Here, Live, NEW s, NEW D, NEW o, AtDelta(s, D, o), DueNow(s, D),
         ~On(s.pods[hist[o].name]) \/ hist[o].gone
  PROVE  DueNow(s, D \ {o})
<1>1. ASSUME Ripe(hist, seen, D \ {o}, s.pods) PROVE Ripe(hist, seen, D, s.pods)
  <2> SUFFICES ASSUME NEW m \in Names, On(s.pods[m])
               PROVE  /\ s.pods[m].state = "ended"
                      /\ LET c == At(hist, m, seen) IN c # 0 /\ hist[c].fin /\ c \notin D
    BY DEF Ripe
  <2> DEFINE c == At(hist, m, seen)
  <2>1. s.pods[m].state = "ended" /\ c # 0 /\ hist[c].fin /\ c \notin D \ {o}
    BY <1>1 DEF Ripe
  <2>2. hist[c].name = m /\ ~hist[c].gone
    BY <2>1, AtDom, HereIs
  <2> QED
    BY <2>1, <2>2
<1> QED
  BY <1>1 DEF DueNow, DueInv

\* A terminating pod that still streams.
LEMMA TermFits ==
  ASSUME Here, Live, NEW n \in Names, NEW e \in Entry, e.known, e.state = "streaming",
         NEW T, NEW d, NEW closed, closed = "no" => Attended(T, n, e), Sound(T, Live, n, e),
         n \notin unsure => Leaves(hist, seen, d, n, e),
         target # "pods" => OfWorkload(hist, seen, T, n, e),
         target # "pods" /\ n \notin unsure => Listed(hist, seen, d, n, e)
  PROVE  FitsNow(T, d, closed, n, [e EXCEPT !.term = TRUE])
<1> DEFINE a == [e EXCEPT !.term = TRUE]
<1>1. /\ a \in Entry /\ a.state = e.state /\ a.timer = e.timer /\ a.known = e.known
      /\ a.uid = e.uid /\ a.left = e.left /\ a.run = e.run /\ a.request = e.request
  BY TermIs
<1> HIDE DEF a
<1>2. Sound(T, Live, n, a) /\ (closed = "no" => Attended(T, n, a))
  BY <1>1 DEF Sound, Attended
<1>3. AtLatest(hist, seen, d, n, a)
  BY <1>1 DEF AtLatest
<1>4. n \notin unsure => Leaves(hist, seen, d, n, a)
  BY <1>1 DEF Leaves, On, Shown
<1>5. target # "pods" => OfWorkload(hist, seen, T, n, a)
  BY <1>1 DEF OfWorkload, Shown
<1>6. target # "pods" /\ n \notin unsure => Listed(hist, seen, d, n, a)
  BY <1>1 DEF Listed, On
<1> QED
  BY <1>2, <1>3, <1>4, <1>5, <1>6 DEF FitsNow, Fits, Follows, a

\* r is all that s, told of d, should become.
Turns(s, r, d) == Well(r, d) /\ DueNow(r, d) /\ Ends(s, r)

LEMMA TurnsIs ==
  ASSUME Here, NEW s, NEW r, NEW d, Well(r, d) /\ Undue(r) /\ Ends(s, r)
  PROVE  Turns(s, r, d)
BY UndueIs DEF Turns, DueNow

LEMMA SelfEnds == \A s : Ends(s, s)
BY DEF Ends

LEMMA StreamsOn ==
  ASSUME Live, NEW s, NEW n \in Names, On(s.pods[n]), s.pods[n].state # "ended"
  PROVE  Undue(s)
BY DEF Undue, RipeNow

LEMMA PodUpdatedWell ==
  ASSUME Here, Live, NEW s, NEW D, NEW o, AtDelta(s, D, o), ~hist[o].gone, ~Replaced(s, o),
         On(s.pods[hist[o].name])
  PROVE  Turns(s, PodUpdated(s, hist[o].name, o), D \ {o})
<1> DEFINE n == hist[o].name
           e == s.pods[n]
           f == D \ {o}
           T == Range(s.queue)
           a == Advance(e, o)
           b == [e EXCEPT !.term = TRUE]
           t == [s EXCEPT !.pods[n] = b]
<1>1. /\ Ctx /\ s \in Session /\ s.ready /\ f \subseteq 1..seen /\ n \in Names
      /\ o \in 1..Len(hist) /\ o \in 1..seen /\ o # 0 /\ o \in Nat
  BY HereIs, ToCome DEF AtDelta
<1>2. o \in 0..Len(hist)
  BY <1>1
<1>3. e \in Entry /\ e.known /\ ~e.left /\ Sound(T, Live, n, e)
      /\ (s.closed = "no" => Attended(T, n, e))
      /\ (target # "pods" => OfWorkload(hist, seen, T, n, e))
  BY FitsBefore DEF On
<1>4. /\ n \notin unsure => Leaves(hist, seen, f, n, e)
      /\ target # "pods" /\ n \notin unsure => Listed(hist, seen, f, n, e)
  BY <1>3, FollowsNext
<1>5. At(hist, n, seen) \in f \cup {0, o}
  BY ToCome
<1>6. WellBut(s, f, n)
  BY LessDelta
<1>7. PodUpdated(s, n, o) = IF ~Terminating(o) THEN CheckDone([s EXCEPT !.pods[n] = a])
                            ELSE IF e.state = "streaming" THEN t ELSE Retire(t, n)
  <2>1. s.pods \in [Names -> Entry]
    BY <1>1, SessionIs
  <2>2. [s EXCEPT !.pods[n].term = TRUE] = t
    BY DEF Session
  <2> QED
    BY <2>2 DEF PodUpdated
<1>8. CASE ~Terminating(o)
  <2>1. a \in Entry
    BY <1>1, <1>2, <1>3, AdvanceIs
  <2>2. FitsNow(T, f, s.closed, n, a)
    BY <1>1, <1>2, <1>3, <1>4, <1>5, AdvanceFits
  <2> HIDE DEF a, f, n, T, e
  <2>3. LET r == CheckDone([s EXCEPT !.pods[n] = a]) IN Well(r, f) /\ Undue(r) /\ Ends(s, r)
    BY <1>1, <1>6, <2>1, <2>2, PutWellChecked DEF T
  <2> QED
    BY <1>7, <1>8, <2>3, TurnsIs DEF n, f
<1>9. /\ b \in Entry /\ b.state = e.state /\ b.known /\ b.uid = e.uid /\ ~b.left
  BY <1>3, TermIs
<1>10. Puts(s, t, n, b)
  BY <1>1, <1>9, PutIs
<1>11. t \in Session /\ Aside(s, t) /\ t.queue = s.queue /\ t.pods[n] = b
  BY <1>10 DEF Puts
<1>12. CASE Terminating(o) /\ e.state = "streaming"
  <2>1. FitsNow(T, f, s.closed, n, b)
    BY <1>1, <1>3, <1>4, <1>12, TermFits
  <2> HIDE DEF t, b, f, n, T, e
  <2>2. Well(t, f)
    BY <1>1, <1>6, <1>10, <2>1, WellPut DEF T
  <2>3. Undue(t)
    BY <1>1, <1>9, <1>11, <1>12, StreamsOn DEF On
  <2>4. Ends(s, t)
    BY <1>11 DEF Ends, Aside
  <2> QED
    BY <1>7, <1>12, <2>2, <2>3, <2>4, TurnsIs DEF n, f
<1>13. CASE Terminating(o) /\ e.state # "streaming"
  <2>1. ASSUME target # "pods" PROVE Shown(hist, seen, n, b) /\ Expired(hist, seen, b.uid)
    <3>1. e.uid = hist[o].uid /\ Shown(hist, seen, n, e)
      BY <1>3, <2>1, SameUid
    <3>2. hist[o].term
      BY <1>13 DEF Terminating
    <3> QED
      BY <1>1, <1>9, <3>1, <3>2 DEF Shown, Expired
  <2>2. target # "pods" /\ n \notin unsure => Listed(hist, seen, f, n, b)
    BY <1>3, <1>4, <1>9 DEF Listed, On
  <2> HIDE DEF b, f, n, T, e
  <2>3. WellBut(t, f, n)
    BY <1>6, <1>10 DEF Puts, Aside, WellBut, WellOff, Rest
  <2> HIDE DEF t
  <2>4. t.ready
    BY <1>1, <1>11 DEF Aside
  <2>5. Well(Retire(t, n), f) /\ Undue(Retire(t, n)) /\ Ends(t, Retire(t, n))
    BY <1>1, <1>9, <1>11, <2>1, <2>2, <2>3, <2>4, WellRetired
  <2>6. Ends(s, Retire(t, n))
    BY <1>11, <2>5, EndsPut DEF Aside
  <2> QED
    BY <1>7, <1>13, <2>5, <2>6, TurnsIs DEF n, f
<1> QED
  BY <1>8, <1>12, <1>13

LEMMA WellAgain ==
  ASSUME NEW s, NEW d, NEW n \in Names, WellBut(s, d, n),
         FitsNow(Range(s.queue), d, s.closed, n, s.pods[n])
  PROVE  Well(s, d)
BY DEF Well, WellBut, WellOff

\* Nothing but an entry that is off becomes unknown.
LEMMA OffUnknown ==
  ASSUME Here, Live, NEW r \in Session, NEW n \in Names, ~On(r.pods[n]), NEW d, WellBut(r, d, n)
  PROVE  LET g == [r EXCEPT !.pods[n] = Unknown] IN
         /\ g \in Session /\ g.pods[n] = Unknown /\ g.queue = r.queue /\ WellBut(g, d, n)
         /\ DueNow(r, d) => DueNow(g, d)
         /\ \A s : Ends(s, r) => Ends(s, g)
<1> DEFINE g == [r EXCEPT !.pods[n] = Unknown]
<1>1. Puts(r, g, n, Unknown)
  BY PutIs, UnknownIs
<1> HIDE DEF g
<1>2. g \in Session /\ g.pods[n] = Unknown /\ g.queue = r.queue /\ Aside(r, g)
      /\ \A m \in Names : m # n => g.pods[m] = r.pods[m]
  BY <1>1 DEF Puts
<1>3. \A m \in Names : /\ On(g.pods[m]) <=> On(r.pods[m])
                       /\ On(r.pods[m]) => g.pods[m] = r.pods[m]
  BY <1>2, UnknownIs DEF On
<1>4. WellBut(g, d, n)
  BY <1>2 DEF WellBut, WellOff, Rest, Aside
<1>5. DueNow(r, d) => DueNow(g, d)
  <2>1. Ripe(hist, seen, d, g.pods) => Ripe(hist, seen, d, r.pods)
    BY <1>3 DEF Ripe
  <2> QED
    BY <1>2, <2>1 DEF DueNow, DueInv, Aside
<1>6. RipeNow(r.pods) => RipeNow(g.pods)
  BY <1>3 DEF RipeNow
<1>7. \A s : Ends(s, r) => Ends(s, g)
  BY <1>2, <1>6 DEF Ends, Aside
<1> QED
  BY <1>2, <1>4, <1>5, <1>7 DEF g

LEMMA ForgetWell ==
  ASSUME Here, Live, NEW s \in Session, s.ready, NEW n \in Names, NEW d, d \subseteq 1..seen,
         WellBut(s, d, n), Sound(Range(s.queue), Live, n, s.pods[n]),
         s.pods[n].left => DueNow(s, d)
  PROVE  LET g == Forget(s, n) IN
         /\ WellBut(g, d, n) /\ DueNow(g, d) /\ Ends(s, g) /\ g.pods[n] = Unknown
         /\ \A t \in Range(g.queue) : t.name # n
<1> DEFINE r == Retire(s, n)
           g == [r EXCEPT !.pods[n] = Unknown]
<1>1. Forget(s, n) = g
  BY DEF Forget
<1>2. /\ r \in Session /\ s.pods[n].left => r = s
      /\ ~s.pods[n].left => r.pods[n] = Gone(s.pods[n])
  BY HereIs, RetireIs
<1>3. r \in Session
  BY HereIs, RetireIs
<1>4. s.pods[n] \in Entry /\ Gone(s.pods[n]).left
  BY SessionIs, GoneIs
<1>5. ~On(r.pods[n])
  BY <1>2, <1>4, <1>3 DEF On
<1>6. /\ WellBut(r, d, n) /\ DueNow(r, d) /\ Ends(s, r)
      /\ \A t \in Range(r.queue) : t.name # n
  <2>1. CASE s.pods[n].left
    <3>1. r = s
      BY <2>1, HereIs, RetireIs
    <3>2. \A t \in Range(s.queue) : t.name # n
      BY <2>1 DEF Sound
    <3> HIDE DEF r
    <3> QED
      BY <2>1, <3>1, <3>2, SelfEnds
  <2>2. CASE ~s.pods[n].left
    <3>1. /\ WellBut(r, d, n) /\ Undue(r) /\ Ends(s, r)
          /\ \A t \in Range(r.queue) : t.name # n
      BY <2>2, OffRetired
    <3> HIDE DEF r
    <3> QED
      BY <3>1, UndueIs DEF DueNow
  <2> QED
    BY <2>1, <2>2
<1> HIDE DEF r
<1>7. /\ g \in Session /\ g.pods[n] = Unknown /\ g.queue = r.queue /\ WellBut(g, d, n)
      /\ DueNow(r, d) => DueNow(g, d)
      /\ \A u : Ends(u, r) => Ends(u, g)
  BY <1>3, <1>5, <1>6, OffUnknown
<1> HIDE DEF g
<1> QED
  BY <1>1, <1>6, <1>7

DeltaTurnsTo(s, r, D, o) ==
  LET n == hist[o].name
      f == D \ {o}
  IN IF IsNew(s, o)
     THEN /\ WellBut(r, f, n) /\ DueNow(r, f) /\ r.pods[n] = Unknown
          /\ \A t \in Range(r.queue) : t.name # n
          /\ Turns(s, r, D)
     ELSE Turns(s, r, f)

LEMMA ReplacedDelta ==
  ASSUME Here, Live, NEW s, NEW D, NEW o, AtDelta(s, D, o), DueNow(s, D),
         Replaced(s, o), ~hist[o].gone
  PROVE  DeltaTurnsTo(s, Forget(s, hist[o].name), D, o)
<1> DEFINE n == hist[o].name
           f == D \ {o}
           g == Forget(s, n)
<1>1. /\ s \in Session /\ s.ready /\ D \subseteq 1..seen /\ f \subseteq 1..seen /\ n \in Names
  BY ToCome DEF AtDelta
<1>2. Sound(Range(s.queue), Live, n, s.pods[n])
  BY FitsBefore
<1>3. WellBut(s, f, n)
  BY LessDelta
<1>4. WellBut(s, D, n)
  BY DEF AtDelta, Well, WellOff, WellBut
<1>5. s.pods[n].left => DueNow(s, f)
  BY DueKept DEF On
<1> HIDE DEF n, f
<1>6. /\ WellBut(g, f, n) /\ DueNow(g, f) /\ Ends(s, g) /\ g.pods[n] = Unknown
      /\ \A t \in Range(g.queue) : t.name # n
  BY <1>1, <1>2, <1>3, <1>5, ForgetWell
<1>7. WellBut(g, D, n) /\ DueNow(g, D)
  BY <1>1, <1>2, <1>4, ForgetWell
<1> HIDE DEF g
<1>8. FitsNow(Range(g.queue), D, g.closed, n, Unknown)
  BY <1>6, UnknownWaits DEF n
<1>9. Turns(s, g, D)
  BY <1>1, <1>6, <1>7, <1>8, WellAgain DEF Turns
<1>10. ASSUME ~IsNew(s, o) PROVE Turns(s, g, f)
  <2>1. target = "pods" \/ Terminating(o)
    BY <1>10 DEF IsNew
  <2>2. FitsNow(Range(g.queue), f, g.closed, n, Unknown)
    BY <1>6, <2>1, UnknownAnyway DEF n, f
  <2> QED
    BY <1>1, <1>6, <2>2, WellAgain DEF Turns
<1> QED
  BY <1>6, <1>9, <1>10 DEF DeltaTurnsTo, n, f, g

\* The delta changes nothing.
LEMMA StillWell ==
  ASSUME Here, Live, NEW s, NEW D, NEW o, AtDelta(s, D, o), DueNow(s, D), ~IsNew(s, o),
         ~On(s.pods[hist[o].name]) \/ hist[o].gone,
         FitsNow(Range(s.queue), D \ {o}, s.closed, hist[o].name, s.pods[hist[o].name])
  PROVE  DeltaTurnsTo(s, s, D, o)
<1>1. WellBut(s, D \ {o}, hist[o].name) /\ hist[o].name \in Names
  BY LessDelta, ToCome
<1>2. DueNow(s, D \ {o})
  BY DueKept
<1>3. Well(s, D \ {o})
  BY <1>1, WellAgain
<1> QED
  BY <1>2, <1>3, SelfEnds DEF DeltaTurnsTo, Turns

LEMMA StrangerDelta ==
  ASSUME Here, Live, NEW s, NEW D, NEW o, AtDelta(s, D, o), DueNow(s, D),
         ~s.pods[hist[o].name].known, ~Replaced(s, o)
  PROVE  DeltaTurnsTo(s, s, D, o)
<1> DEFINE n == hist[o].name
           f == D \ {o}
<1>1. ~On(s.pods[n])
  BY DEF On
<1>2. s.pods[n] = Unknown /\ \A t \in Range(s.queue) : t.name # n
  BY Stranger
<1>3. CASE IsNew(s, o)
  <2>1. WellBut(s, f, n) /\ DueNow(s, f)
    BY <1>1, LessDelta, DueKept
  <2> QED
    BY <1>2, <1>3, <2>1, SelfEnds DEF DeltaTurnsTo, Turns, AtDelta
<1>4. CASE ~IsNew(s, o) /\ hist[o].gone
  BY <1>1, <1>4, GoneAnyway, StillWell
<1>5. CASE ~IsNew(s, o) /\ ~hist[o].gone
  <2>1. target = "pods" \/ Terminating(o)
    BY <1>5 DEF IsNew
  <2>2. FitsNow(Range(s.queue), f, s.closed, n, Unknown)
    BY <1>2, <1>5, <2>1, UnknownAnyway
  <2> QED
    BY <1>1, <1>2, <1>5, <2>2, StillWell
<1> QED
  BY <1>3, <1>4, <1>5

LEMMA GoneDelta ==
  ASSUME Here, Live, NEW s, NEW D, NEW o, AtDelta(s, D, o), DueNow(s, D),
         s.pods[hist[o].name].known, ~Replaced(s, o), hist[o].gone
  PROVE  DeltaTurnsTo(s, Retire(s, hist[o].name), D, o)
<1> DEFINE n == hist[o].name
           f == D \ {o}
           e == s.pods[n]
<1>1. /\ s \in Session /\ s.ready /\ f \subseteq 1..seen /\ n \in Names
      /\ o \in 1..seen /\ o \in 1..Len(hist)
  BY ToCome DEF AtDelta
<1>2. ~IsNew(s, o)
  BY DEF IsNew
<1>3. CASE e.left
  <2>1. Retire(s, n) = s
    BY <1>1, <1>3, HereIs, RetireIs
  <2>2. ~On(e)
    BY <1>3 DEF On
  <2>3. FitsNow(Range(s.queue), f, s.closed, n, e)
    BY <2>2, GoneAnyway
  <2> QED
    BY <1>2, <2>1, <2>2, <2>3, StillWell
<1>4. CASE ~e.left
  <2>1. ASSUME target # "pods" PROVE Shown(hist, seen, n, e) /\ Expired(hist, seen, e.uid)
    <3>1. e.uid = hist[o].uid /\ Shown(hist, seen, n, e)
      BY <2>1, SameUid
    <3>2. o \in DOMAIN hist
      BY <1>1, HereIs, CtxIs
    <3> QED
      BY <3>1, <3>2 DEF Expired, Alive
  <2>2. target # "pods" /\ n \notin unsure => Listed(hist, seen, f, n, e)
    <3>1. target # "pods" /\ n \notin unsure => Listed(hist, seen, D, n, e)
      BY FitsBefore
    <3>2. At(hist, n, seen) # o
      BY ToCome
    <3> QED
      BY <3>1, <3>2 DEF Listed
  <2>3. WellBut(s, f, n)
    BY LessDelta
  <2> HIDE DEF n, f
  <2>4. Well(Retire(s, n), f) /\ Undue(Retire(s, n)) /\ Ends(s, Retire(s, n))
    BY <1>1, <1>4, <2>1, <2>2, <2>3, WellRetired DEF n
  <2> QED
    BY <1>2, <2>4, TurnsIs DEF DeltaTurnsTo, n, f
<1> QED
  BY <1>3, <1>4

LEMMA DeltaWell ==
  ASSUME Here, Live, NEW s, NEW D, NEW o, AtDelta(s, D, o), DueNow(s, D)
  PROVE  DeltaTurnsTo(s, Delta(s, o), D, o)
<1> DEFINE n == hist[o].name
           e == s.pods[n]
<1>1. s \in Session /\ o \in 1..Len(hist)
  BY ToCome DEF AtDelta
<1>2. /\ Replaced(s, o) => e.known
      /\ Delta(s, o) = IF Replaced(s, o) THEN IF hist[o].gone THEN s ELSE Forget(s, n)
                       ELSE IF ~e.known THEN s
                       ELSE IF hist[o].gone THEN Retire(s, n)
                       ELSE IF e.left THEN s ELSE PodUpdated(s, n, o)
  BY <1>1, DeltaIs
<1>3. CASE Replaced(s, o) /\ hist[o].gone
  <2>1. ~IsNew(s, o) /\ Delta(s, o) = s
    BY <1>2, <1>3 DEF IsNew
  <2>2. FitsNow(Range(s.queue), D \ {o}, s.closed, n, e)
    BY <1>3, GoneAnyway
  <2> QED
    BY <1>3, <2>1, <2>2, StillWell
<1>4. CASE Replaced(s, o) /\ ~hist[o].gone
  BY <1>2, <1>4, ReplacedDelta
<1>5. CASE ~Replaced(s, o) /\ ~e.known
  BY <1>2, <1>5, StrangerDelta
<1>6. CASE ~Replaced(s, o) /\ e.known /\ hist[o].gone
  BY <1>2, <1>6, GoneDelta
<1>7. CASE ~Replaced(s, o) /\ e.known /\ ~hist[o].gone
  <2>1. ~IsNew(s, o)
    BY <1>7 DEF IsNew
  <2>2. CASE e.left
    <3>1. FitsNow(Range(s.queue), D \ {o}, s.closed, n, e)
      BY <1>7, <2>2, LeftAnyway
    <3>2. ~On(e)
      BY <2>2 DEF On
    <3> QED
      BY <1>2, <1>7, <2>1, <2>2, <3>1, <3>2, StillWell
  <2>3. CASE ~e.left
    <3>1. Turns(s, PodUpdated(s, n, o), D \ {o})
      BY <1>7, <2>3, PodUpdatedWell DEF On
    <3> QED
      BY <1>2, <1>7, <2>1, <2>3, <3>1 DEF DeltaTurnsTo
  <2> QED
    BY <2>2, <2>3
<1> QED
  BY <1>3, <1>4, <1>5, <1>6, <1>7

-----------------------------------------------------------------------------
(* From one delta to the next                                              *)

LEMMA HeadFirst ==
  ASSUME NEW q \in Seq(Task), q # <<>>, Head(q).deltas # <<>>, NEW h, NEW v, OrderInv(h, v, q),
         NEW i \in Told(q)
  PROVE  LET o == Head(Head(q).deltas) IN
         \/ i = o
         \/ /\ ~h[o].gone /\ ~h[i].gone => o < i
            /\ h[o].gone /\ ~h[i].gone => o < i \/ h[o].uid # h[i].uid
<1> DEFINE t1 == Head(q)
           d1 == t1.deltas
           o == Head(d1)
<1>1. /\ 1 \in DOMAIN q /\ q[1] = t1 /\ t1 \in Task /\ \A j \in DOMAIN q : j \in Nat \ {0}
  BY TailIs
<1>2. d1 \in Seq(1..MaxVersions) /\ d1 # <<>>
  BY <1>1, TaskIs
<1>3. q[1].deltas = d1
  BY <1>1
<1> HIDE DEF t1, d1
<1>4. /\ 1 \in DOMAIN d1 /\ d1[1] = o /\ \A j \in DOMAIN d1 : j \in Nat \ {0}
  BY <1>2, DeltasTail
<1> HIDE DEF o
<1>5. o \in Range(d1)
  BY <1>4 DEF Range
<1>6. PICK t \in Range(q) : i \in Range(t.deltas)
  BY ToldIs
<1>7. PICK k \in DOMAIN q : q[k] = t
  BY <1>6 DEF Range
<1>8. CASE k = 1
  <2>1. i \in Range(d1)
    BY <1>3, <1>6, <1>7, <1>8
  <2>2. PICK b \in DOMAIN d1 : d1[b] = i
    BY <2>1 DEF Range
  <2>3. b = 1 \/ 1 < b
    BY <1>4
  <2>4. 1 < b => /\ ~h[o].gone /\ ~h[i].gone => o < i
                 /\ h[o].gone /\ ~h[i].gone => h[o].uid # h[i].uid
    BY <1>1, <1>3, <1>4, <2>2 DEF OrderInv
  <2> QED
    BY <1>4, <2>2, <2>3, <2>4 DEF o, d1, t1
<1>9. CASE k # 1
  <2>1. 1 < k
    BY <1>1, <1>9
  <2>2. o < i
    BY <1>1, <1>3, <1>5, <1>6, <1>7, <2>1 DEF OrderInv
  <2> QED
    BY <2>2 DEF o, d1, t1
<1> QED
  BY <1>8, <1>9

LEMMA FollowNext ==
  ASSUME NEW q \in Seq(Task), q # <<>>, Head(q).deltas # <<>>, NEW h, HistInv(h),
         NEW v \in 0..Len(h), OrderInv(h, v, q), Follow(h, v, Told(q)),
         Head(Head(q).deltas) \in Told(q)
  PROVE  Follow(h, v, Told(q) \ {Head(Head(q).deltas)})
<1> DEFINE o == Head(Head(q).deltas)
           D == Told(q)
<1>1. \A i \in D : \/ i = o
                   \/ /\ ~h[o].gone /\ ~h[i].gone => o < i
                      /\ h[o].gone /\ ~h[i].gone => o < i \/ h[o].uid # h[i].uid
  BY HeadFirst
<1>2. D \subseteq 1..v /\ o \in D /\ Follow(h, v, D)
  BY DEF OrderInv
<1> HIDE DEF o, D
<1>3. \A i \in D : i \in DOMAIN h /\ i \in Nat
  BY <1>2, HistDom
<1> SUFFICES ASSUME NEW i \in D, i # o, ~h[i].gone
             PROVE  /\ \A j \in 1..v : h[j].uid = h[i].uid /\ h[j].gone => j \in D \ {o}
                    /\ At(h, h[i].name, v) \in (D \ {o}) \cup {0}
  BY DEF Follow, o, D
<1>4. ASSUME NEW j \in 1..v, h[j].uid = h[i].uid, h[j].gone PROVE j \in D \ {o}
  <2>1. j \in D
    BY <1>2, <1>4 DEF Follow
  <2>2. ASSUME j = o PROVE FALSE
    <3>1. o < i
      BY <1>1, <1>4, <2>2
    <3> QED
      BY <1>2, <1>3, <1>4, <2>2, <3>1 DEF HistInv
  <2> QED
    BY <2>1, <2>2
<1>5. At(h, h[i].name, v) \in (D \ {o}) \cup {0}
  <2> DEFINE c == At(h, h[i].name, v)
  <2>1. c \in D \cup {0}
    BY <1>2 DEF Follow
  <2>2. ASSUME c = o, c # 0 PROVE FALSE
    <3>1. ~h[c].gone /\ \A j \in 1..v : h[j].name = h[i].name => j <= c
      BY <2>2, AtDom
    <3>2. i <= o
      BY <1>2, <2>2, <3>1
    <3>3. o < i
      BY <1>1, <2>2, <3>1
    <3> QED
      BY <1>2, <1>3, <3>2, <3>3
  <2> QED
    BY <2>1, <2>2
<1> QED
  BY <1>4, <1>5

\* Going on to the next delta leaves all other tasks.
LEMMA NextSame ==
  ASSUME NEW q \in Seq(Task), q # <<>>, Head(q).deltas # <<>>, \A t \in Range(q) : Shaped(t),
         NEW h, NEW v, OrderInv(h, v, q)
  PROVE  LET r == NextQueue(q) IN
         /\ \A n \in Names : \A d : SameAbout(h, Range(q), Range(r), d, d, n)
         /\ Live /\ TaskInv(Range(q), Live, target) => TaskInv(Range(r), Live, target)
         /\ \A timer, checks :
              Rechecks(Range(q), timer, checks) => Rechecks(Range(r), timer, checks)
<1> DEFINE r == NextQueue(q)
<1>1. /\ \A t \in Range(r) : t \in Range(q) \/ (t.op = "deltas" /\ t.name = 0)
      /\ \A t \in Range(q) : t.op # "deltas" => t \in Range(r)
  BY NextQ
<1> HIDE DEF r
<1>2. ASSUME NEW n \in Names, NEW t, t.name = n PROVE t \in Range(q) <=> t \in Range(r)
  <2>1. n # 0
    BY Bounds
  <2>2. t \in Range(q) => t.op \in {"streamFinished", "graceExpired"}
    BY <1>2, <2>1 DEF Shaped
  <2> QED
    BY <1>1, <1>2, <2>1, <2>2
<1>3. \A n \in Names : \A d : SameAbout(h, Range(q), Range(r), d, d, n)
  BY <1>2 DEF SameAbout
<1>4. Live /\ TaskInv(Range(q), Live, target) => TaskInv(Range(r), Live, target)
  BY <1>1 DEF TaskInv
<1>5. \A timer, checks : Rechecks(Range(q), timer, checks) => Rechecks(Range(r), timer, checks)
  BY <1>1 DEF Rechecks
<1> QED
  BY <1>3, <1>4, <1>5 DEF r

LEMMA NextWell ==
  ASSUME Here, Live, NEW s \in Session, s.queue # <<>>, Head(s.queue).deltas # <<>>,
         QueueShape(hist, seen, s.queue), NEW x, NEW f, f \subseteq 1..seen, Turns(x, s, f)
  PROVE  LET r == NextDelta(s) IN
         /\ r \in Session /\ r.ready = s.ready /\ r.queue = NextQueue(s.queue)
         /\ Turns(x, r, f)
<1> DEFINE r == NextDelta(s)
           q == s.queue
           p == NextQueue(q)
<1>1. q \in Seq(Task) /\ q # <<>> /\ \A t \in Range(q) : Shaped(t)
  BY SessionIs DEF QueueShape
<1>2. p \in Seq(Task)
  BY <1>1, NextQ DEF QueueShape
<1>3. r \in Session /\ Aside(s, r) /\ r.queue = p /\ r.pods = s.pods
  BY <1>2, NextDeltaIs
<1>4. /\ \A n \in Names : \A d : SameAbout(hist, Range(q), Range(p), d, d, n)
      /\ TaskInv(Range(q), Live, target) => TaskInv(Range(p), Live, target)
      /\ \A timer, checks :
           Rechecks(Range(q), timer, checks) => Rechecks(Range(p), timer, checks)
  BY <1>1, NextSame DEF QueueShape
<1> HIDE DEF r, p
<1>5. ASSUME NEW n \in Names PROVE FitsNow(Range(p), f, r.closed, n, r.pods[n])
  <2>1. FitsNow(Range(q), f, r.closed, n, r.pods[n])
    BY <1>3 DEF Turns, Well, WellOff, Aside
  <2>2. SameAbout(hist, Range(q), Range(p), f, f, n)
    BY <1>4
  <2> HIDE DEF q
  <2> QED
    BY <2>1, <2>2, HereIs, FitsKept DEF FitsNow
<1>6. Well(r, f)
  BY <1>3, <1>4, <1>5 DEF Turns, Well, WellOff, Rest, Aside
<1>7. DueNow(r, f)
  BY <1>3, <1>4 DEF Turns, DueNow, DueInv, Aside
<1>8. Ends(x, r)
  BY <1>3 DEF Turns, Ends, Aside
<1> QED
  BY <1>3, <1>6, <1>7, <1>8 DEF Turns, Aside, r, p

-----------------------------------------------------------------------------
(* The tasks of a session that is ready                                    *)

LEMMA OpenIs ==
  ASSUME IsReady, ~disposed, Opened
  PROVE  /\ Here /\ session \in Session /\ session.ready /\ session.queue \in Seq(Task)
         /\ Told(session.queue) \subseteq 1..seen
         /\ Follow(hist, seen, Told(session.queue))
         /\ RunInv(hist, seen, session, await, Live, target, unsure, jobTimer)
         /\ Well(session, Told(session.queue)) /\ DueNow(session, Told(session.queue))
         /\ jobTimer => Live /\ target = "job"
<1>1. /\ Ctx /\ session \in Session /\ session.ready /\ session.queue \in Seq(Task)
      /\ QueueShape(hist, seen, session.queue)
  BY ReadyCtx DEF IsReady
<1>2. Here
  BY <1>1 DEF Here, IsReady, Basics
<1>3. Follow(hist, seen, Told(session.queue))
  BY DEF Opened
<1>4. RunInv(hist, seen, session, await, Live, target, unsure, jobTimer)
  BY DEF Opened, IsReady
<1>5. Well(session, Told(session.queue))
  BY <1>4 DEF RunInv, FitInv, Well, WellOff, Rest, FitsNow
<1>6. DueNow(session, Told(session.queue)) /\ (jobTimer => Live /\ target = "job")
  BY <1>4 DEF RunInv, DueNow
<1> QED
  BY <1>1, <1>2, <1>3, <1>4, <1>5, <1>6 DEF QueueShape, OrderInv

\* What the matcher that a task awaits was asked about.
Asked(h, s, target_) ==
  /\ target_ = "deployment"
  /\ LET o == Head(Head(s.queue).deltas) IN
       ~h[o].gone /\ ~h[o].term /\ ~s.pods[h[o].name].known

LEMMA RunOpen ==
  ASSUME IsReady, UNCHANGED <<podVars, start>>, session'.ready,
         Follow(hist, seen, Told(session'.queue)),
         RunInv(hist, seen, session', await', Live, target, unsure', jobTimer')
  PROVE  Opened'
BY DEF Opened, IsReady, podVars, start, Live

\* The end of every task.
LEMMA TaskOpen ==
  ASSUME IsReady, UNCHANGED HandlerVars, session'.ready,
         NEW D, Told(session'.queue) = D, Follow(hist, seen, D), Well(session', D),
         DueInv(hist, seen, session', D, Live, target, jobTimer'),
         jobTimer' => Live /\ target = "job",
         await' = "match" => Asked(hist, session', target)
  PROVE  Opened'
<1>1. UNCHANGED <<podVars, start>> /\ unsure' = unsure
  BY DEF HandlerVars
<1>2. FitInv(hist, seen, session', D, Live, target, unsure)
  BY DEF Well, WellOff, FitInv, FitsNow
<1>3. RunInv(hist, seen, session', await', Live, target, unsure', jobTimer')
  BY <1>1, <1>2 DEF RunInv, Asked, Well, WellOff, Rest
<1> QED
  BY <1>1, <1>3, RunOpen

\* The delta at hand.
LEMMA AtHand ==
  ASSUME IsReady, ~disposed, Opened, session.queue # <<>>, Head(session.queue).op = "deltas"
  PROVE  LET o == Head(Head(session.queue).deltas)
             D == Told(session.queue)
         IN /\ Here /\ Live /\ AtDelta(session, D, o) /\ DueNow(session, D)
            /\ Head(session.queue).deltas # <<>> /\ Head(session.queue).name = 0
            /\ QueueShape(hist, seen, session.queue)
            /\ Follow(hist, seen, D \ {o}) /\ D \ {o} \subseteq 1..seen
<1> DEFINE q == session.queue
           o == Head(Head(q).deltas)
           D == Told(q)
<1>1. /\ Here /\ session \in Session /\ session.ready /\ D \subseteq 1..seen
      /\ Follow(hist, seen, D) /\ q \in Seq(Task)
      /\ RunInv(hist, seen, session, await, Live, target, unsure, jobTimer)
      /\ Well(session, D) /\ DueNow(session, D)
  BY OpenIs
<1>2. o \in D /\ Head(q).deltas # <<>> /\ Head(q).name = 0
  BY HeadDelta
<1>3. QueueShape(hist, seen, q) /\ q # <<>> /\ Head(q) \in Range(q)
  BY <1>1, ReadyCtx, TailQ
<1>4. Live
  BY <1>1, <1>3 DEF RunInv, TaskInv
<1>5. HistInv(hist) /\ seen \in 0..Len(hist)
  BY <1>1, HereIs
<1>6. Follow(hist, seen, D \ {o})
  BY <1>1, <1>2, <1>3, <1>5, FollowNext DEF QueueShape
<1>7. AtDelta(session, D, o)
  BY <1>1, <1>2 DEF AtDelta
<1> QED
  BY <1>1, <1>2, <1>3, <1>4, <1>6, <1>7

-----------------------------------------------------------------------------
(* A pod joins                                                             *)

LEMMA AddedRests ==
  ASSUME Here, Live, NEW o \in 1..Len(hist), ~Terminating(o)
  PROVE  /\ Added(o) \in Entry /\ Added(o).known /\ ~Added(o).left
         /\ Added(o).state # "ended"
<1> DEFINE e == [Unknown EXCEPT !.known = TRUE, !.state = "pending",
                    !.uid = IF o = 0 THEN 0 ELSE hist[o].uid, !.term = Terminating(o)]
           a == Advance(e, o)
<1>1. o \in 0..Len(hist) /\ o # 0 /\ o \in DOMAIN hist
  BY HereIs, CtxIs
<1>2. /\ e \in Entry /\ Added(o) = a /\ Added(o) \in Entry
      /\ e.known /\ e.state = "pending" /\ e.run = 0 /\ ~e.left
  BY <1>1, HereIs, AddedIs
<1> HIDE DEF e
<1>3. Advanced(e, o, a)
  BY <1>1, <1>2, HereIs, AdvanceIs
<1> HIDE DEF a
<1>5. RunId(o) = 0 => Waiting(o) /\ ~Running(o)
  BY <1>1, HereIs DEF HistInv, RunId, Waiting, Running
<1>6. RunId(o) \in 0..MaxVersions
  BY <1>1, HereIs, RunIs
<1>7. CASE RunId(o) \notin {0, e.run}
  <2>1. a = StartStream(e, RunId(o))
    BY <1>3, <1>7 DEF Advanced
  <2> QED
    BY <1>2, <1>6, <2>1, StartStreamIs
<1>8. CASE RunId(o) \in {0, e.run}
  <2>1. a = Rests(e, "waiting")
    <3>1. Waiting(o) /\ ~Running(o)
      BY <1>2, <1>5, <1>8
    <3> QED
      BY <1>3, <1>8, <3>1 DEF Advanced
  <2> QED
    BY <1>2, <2>1, RestsIs
<1> QED
  BY <1>7, <1>8

\* Whatever is unsure, what has been found fits.
LEMMA AddedSure ==
  ASSUME Here, Live, NEW n \in Names, NEW o \in 0..Len(hist), NEW T, \A t \in T : t.name # n,
         NEW closed, NEW d, At(hist, n, seen) \in d \cup {0, o}, Found(hist, seen, d, n, o),
         NEW work, NEW sure
  PROVE  Fits(hist, seen, T, d, closed, Live, work, sure, n, Added(o))
<1> DEFINE a == Added(o)
<1>1. /\ a.known /\ ~a.left /\ a.uid = (IF o = 0 THEN 0 ELSE hist[o].uid) /\ Sound(T, Live, n, a)
      /\ Attended(T, n, a)
      /\ \/ a.state = "streaming"
         \/ RunId(o) \in {0, a.run} /\ (a.state = "waiting" => Waiting(o))
  BY AddedSteps
<1> HIDE DEF a
<1>2. AtLatest(hist, seen, d, n, a)
  BY <1>1, AtLatestIs
<1>3. o \in 1..seen /\ hist[o].name = n /\ o # 0
  BY HereIs, HistDom DEF Found
<1>4. a.uid = hist[o].uid /\ Shown(hist, seen, n, a)
  BY <1>1, <1>3 DEF Shown
<1>5. Leaves(hist, seen, d, n, a)
  BY <1>4 DEF Leaves, Found
<1>6. OfWorkload(hist, seen, T, n, a)
  BY <1>1, <1>4 DEF OfWorkload
<1>7. Listed(hist, seen, d, n, a)
  BY <1>1, <1>4 DEF Listed, On
<1> QED
  BY <1>1, <1>2, <1>5, <1>6, <1>7 DEF Fits, Follows, a

\* Two deltas later or sooner: a pod joins.
LEMMA JoinsTurns ==
  ASSUME Here, Live, target # "pods", NEW s \in Session, s.ready, NEW o \in 1..Len(hist),
         ~Terminating(o), NEW f, f \subseteq 1..seen, WellBut(s, f, hist[o].name),
         \A t \in Range(s.queue) : t.name # hist[o].name,
         At(hist, hist[o].name, seen) \in f \cup {0, o},
         Found(hist, seen, f, hist[o].name, o), NEW x
  PROVE  Turns(x, Joins(s, o), f)
<1> DEFINE n == hist[o].name
           j == Joins(s, o)
           a == Added(o)
<1>1. n \in Names /\ o \in 0..Len(hist)
  BY HereIs, PodIs, CtxIs
<1>2. /\ Turned(s, j) /\ j.queue = s.queue /\ j.finishing = s.finishing /\ j.closed = s.closed
      /\ j.pods[n] = a /\ \A m \in Names : m # n => j.pods[m] = s.pods[m]
  BY HereIs, JoinsTurned
<1>3. FitsNow(Range(s.queue), f, s.closed, n, a)
  BY <1>1, AddedFits
<1>4. a.known /\ ~a.left /\ a.state # "ended"
  BY AddedRests
<1> HIDE DEF j, a, n
<1>5. Well(j, f)
  BY <1>2, <1>3 DEF Well, WellOff, WellBut, Rest, n
<1>6. Undue(j)
  BY <1>1, <1>2, <1>4, StreamsOn DEF On
<1>7. DueNow(j, f) /\ Ends(x, j)
  BY <1>6, UndueIs DEF DueNow, Ends
<1> QED
  BY <1>5, <1>7 DEF Turns, j

\* The session at the delta, and what the delta makes of it.
LEMMA DeltaAtHand ==
  ASSUME IsReady, ~disposed, Opened, session.queue # <<>>, Head(session.queue).op = "deltas"
  PROVE  LET o == Head(Head(session.queue).deltas)
             s == Delta(session, o)
         IN /\ s \in Session /\ s.ready /\ s.queue # <<>> /\ Head(s.queue) = Head(session.queue)
            /\ QueueShape(hist, seen, s.queue) /\ Told(s.queue) = Told(session.queue)
            /\ DeltaTurnsTo(session, s, Told(session.queue), o)
<1> DEFINE q == session.queue
           o == Head(Head(q).deltas)
           s == Delta(session, o)
<1>1. Here /\ Live /\ AtDelta(session, Told(q), o) /\ DueNow(session, Told(q)) /\ Head(q).name = 0
      /\ QueueShape(hist, seen, q)
  BY AtHand
<1>2. o \in 1..Len(hist) /\ session.ready
  BY <1>1, ToCome DEF AtDelta
<1>3. Turned(session, s)
  BY <1>2, ReadyCtx, DeltaTurned
<1>4. DeltaTurnsTo(session, s, Told(q), o)
  BY <1>1, DeltaWell
<1> HIDE DEF s
<1>5. s \in Session /\ s.ready /\ Mostly(q, s.queue)
  BY <1>2, <1>3 DEF Turned
<1>6. QueueShape(hist, seen, s.queue) /\ Told(s.queue) = Told(q)
  BY <1>1, <1>5, ReadyCtx, MostlyShape, MostlyTold DEF QueueShape
<1>7. s.queue # <<>> /\ Head(s.queue) = Head(q)
  BY <1>1, <1>5 DEF Mostly
<1> QED
  BY <1>4, <1>5, <1>6, <1>7 DEF s

LEMMA NextOpen ==
  ASSUME IsReady, ~disposed, Opened, session.queue # <<>>, Head(session.queue).op = "deltas",
         UNCHANGED HandlerVars, UNCHANGED jobTimer, await' = "",
         NEW s \in Session, s.ready, s.queue # <<>>, Head(s.queue) = Head(session.queue),
         QueueShape(hist, seen, s.queue), Told(s.queue) = Told(session.queue),
         Turns(session, s, Told(session.queue) \ {Head(Head(session.queue).deltas)}),
         session' = NextDelta(s)
  PROVE  Opened' /\ Ends(session, session')
<1> DEFINE q == session.queue
           o == Head(Head(q).deltas)
           f == Told(q) \ {o}
<1>1. /\ Here /\ Live /\ Head(q).deltas # <<>> /\ Follow(hist, seen, f) /\ f \subseteq 1..seen
      /\ (jobTimer => target = "job")
  BY AtHand, OpenIs
<1>2. /\ session'.ready /\ session'.queue = NextQueue(s.queue)
      /\ Turns(session, session', f)
  BY <1>1, NextWell
<1>3. s.queue \in Seq(Task)
  BY SessionIs
<1>4. Told(session'.queue) = f
  <2>1. Told(NextQueue(s.queue)) = Told(s.queue) \ {Head(Head(s.queue).deltas)}
    BY <1>1, <1>3, NextQ DEF QueueShape
  <2> QED
    BY <1>2, <2>1
<1> HIDE DEF f
<1>5. Opened'
  BY <1>1, <1>2, <1>4, TaskOpen DEF Turns, DueNow
<1> QED
  BY <1>2, <1>5 DEF Turns

LEMMA OnDeltaOpen ==
  ASSUME IsReady, ~disposed, Opened, OnDelta
  PROVE  Opened' /\ Ends(session, session')
<1> DEFINE q == session.queue
           o == Head(Head(q).deltas)
           n == hist[o].name
           D == Told(q)
           f == D \ {o}
           s == Delta(session, o)
<1>1. /\ q # <<>> /\ await = "" /\ Head(q).op = "deltas"
      /\ UNCHANGED <<jobTimer, faults>> /\ UNCHANGED HandlerVars
  BY DEF OnDelta, Head1, HandlerVars
<1>2. /\ Here /\ Live /\ AtDelta(session, D, o) /\ Follow(hist, seen, D)
      /\ f \subseteq 1..seen /\ (jobTimer => target = "job")
  BY <1>1, AtHand, OpenIs
<1>3. /\ s \in Session /\ s.ready /\ s.queue # <<>> /\ Head(s.queue) = Head(q)
      /\ QueueShape(hist, seen, s.queue) /\ Told(s.queue) = D
      /\ DeltaTurnsTo(session, s, D, o)
  BY <1>1, DeltaAtHand
<1>4. CASE ~IsNew(session, o)
  <2>1. session' = NextDelta(s) /\ await' = ""
    BY <1>1, <1>4 DEF OnDelta
  <2>2. Turns(session, s, f)
    BY <1>3, <1>4 DEF DeltaTurnsTo
  <2> HIDE DEF s
  <2> QED
    BY <1>1, <1>3, <2>1, <2>2, NextOpen
<1>5. ASSUME IsNew(session, o)
      PROVE  /\ target \in {"deployment", "job"} /\ ~hist[o].gone /\ ~Terminating(o) /\ ~hist[o].term
             /\ WellBut(s, f, n) /\ DueNow(s, f) /\ s.pods[n] = Unknown
             /\ (\A t \in Range(s.queue) : t.name # n)
             /\ Turns(session, s, D)
  <2>1. o # 0
    BY <1>2, ToCome
  <2> QED
    BY <1>2, <1>3, <1>5, <2>1, HereIs, CtxIs DEF IsNew, DeltaTurnsTo, Terminating
<1>6. CASE IsNew(session, o) /\ target = "deployment"
  <2>1. session' = s /\ await' = "match"
    BY <1>6 DEF OnDelta
  <2> HIDE DEF s
  <2>2. Asked(hist, session', target)
    BY <1>3, <1>5, <1>6, <2>1, UnknownIs DEF Asked
  <2>3. Turns(session, session', D) /\ Told(session'.queue) = D /\ session'.ready
    BY <1>3, <1>5, <1>6, <2>1
  <2> HIDE DEF D
  <2>4. Opened'
    BY <1>1, <1>2, <2>2, <2>3, TaskOpen DEF Turns, DueNow
  <2> QED
    BY <2>3, <2>4 DEF Turns
<1>7. CASE IsNew(session, o) /\ target = "job"
  <2> DEFINE j == Joins(s, o)
  <2>1. session' = NextDelta(j) /\ await' = ""
    BY <1>1, <1>7 DEF OnDelta
  <2>2. o \in 1..Len(hist) /\ At(hist, n, seen) \in f \cup {0, o} /\ Found(hist, seen, f, n, o)
    BY <1>2, <1>5, <1>7, ToCome
  <2> HIDE DEF s, f
  <2>3. Turns(session, j, f)
    BY <1>2, <1>3, <1>5, <1>7, <2>2, JoinsTurns
  <2>4. Turned(s, j) /\ j.queue = s.queue
    BY <1>2, <1>3, <2>2, HereIs, JoinsTurned
  <2>5. j \in Session /\ j.ready
    BY <1>3, <2>4 DEF Turned
  <2> HIDE DEF j
  <2> QED
    BY <1>1, <1>3, <2>1, <2>3, <2>4, <2>5, NextOpen DEF f
<1> QED
  BY <1>4, <1>5, <1>6, <1>7

LEMMA NextFits ==
  ASSUME Here, Live, NEW s \in Session, s.queue # <<>>, Head(s.queue).deltas # <<>>,
         QueueShape(hist, seen, s.queue), Rest(s), NEW f, f \subseteq 1..seen, NEW U,
         FitInv(hist, seen, s, f, Live, target, U)
  PROVE  LET r == NextDelta(s) IN
         /\ r \in Session /\ Aside(s, r) /\ r.queue = NextQueue(s.queue)
         /\ Rest(r) /\ FitInv(hist, seen, r, f, Live, target, U)
<1> DEFINE r == NextDelta(s)
           q == s.queue
           p == NextQueue(q)
<1>1. q \in Seq(Task) /\ q # <<>> /\ \A t \in Range(q) : Shaped(t)
  BY SessionIs DEF QueueShape
<1>2. p \in Seq(Task)
  BY <1>1, NextQ DEF QueueShape
<1>3. r \in Session /\ Aside(s, r) /\ r.queue = p /\ r.pods = s.pods
  BY <1>2, NextDeltaIs
<1>4. /\ \A n \in Names : \A d : SameAbout(hist, Range(q), Range(p), d, d, n)
      /\ TaskInv(Range(q), Live, target) => TaskInv(Range(p), Live, target)
  BY <1>1, NextSame DEF QueueShape
<1> HIDE DEF r, p
<1>5. ASSUME NEW n \in Names
      PROVE  Fits(hist, seen, Range(p), f, r.closed, Live, target # "pods", n \notin U, n, r.pods[n])
  <2>1. Fits(hist, seen, Range(q), f, r.closed, Live, target # "pods", n \notin U, n, r.pods[n])
    BY <1>3 DEF FitInv, Aside
  <2>2. SameAbout(hist, Range(q), Range(p), f, f, n)
    BY <1>4
  <2> HIDE DEF q
  <2> QED
    BY <2>1, <2>2, HereIs, FitsKept
<1>6. FitInv(hist, seen, r, f, Live, target, U)
  BY <1>3, <1>5 DEF FitInv
<1>7. Rest(r)
  BY <1>3, <1>4 DEF Rest, Aside
<1> QED
  BY <1>3, <1>6, <1>7 DEF r, p

\* A name whose matcher could not be asked.
LEMMA UnknownUnsure ==
  ASSUME NEW h, NEW v, NEW n, NEW T, \A t \in T : t.name # n, NEW closed, NEW live_, NEW d,
         NEW work
  PROVE  Fits(h, v, T, d, closed, live_, work, FALSE, n, Unknown)
<1>1. /\ ~Unknown.known /\ ~Unknown.left /\ Unknown.state = "ended" /\ ~Unknown.timer
      /\ ~Unknown.request
  BY UnknownIs
<1>2. Sound(T, live_, n, Unknown) /\ Attended(T, n, Unknown)
  BY <1>1 DEF Sound, Attended
<1>3. AtLatest(h, v, d, n, Unknown)
  BY <1>1 DEF AtLatest, On
<1>4. OfWorkload(h, v, T, n, Unknown)
  BY <1>1 DEF OfWorkload
<1> QED
  BY <1>2, <1>3, <1>4 DEF Fits, Follows

LEMMA UpFromZero ==
  ASSUME NEW N \in Nat, NEW x \in 1..N
  PROVE  x \in 0..N
OBVIOUS

LEMMA MatcherAnswersOpen ==
  ASSUME IsReady, ~disposed, Opened, MatcherAnswers
  PROVE  Opened' /\ Ends(session, session')
<1> DEFINE q == session.queue
           o == Head(Head(q).deltas)
           n == hist[o].name
           D == Told(q)
           f == D \ {o}
           j == Joins(session, o)
           T == Range(q)
<1>1. /\ await = "match" /\ await' = ""
      /\ UNCHANGED <<podVars, start, job, loading, disposed, jobTimer>>
  BY DEF MatcherAnswers
<1>2. q # <<>> /\ Head(q).op = "deltas" /\ q \in Seq(Task)
  BY <1>1, ReadyCtx DEF IsReady, Basics, Ready
<1>3. /\ Here /\ Live /\ AtDelta(session, D, o) /\ Follow(hist, seen, f) /\ f \subseteq 1..seen
      /\ Head(q).deltas # <<>> /\ QueueShape(hist, seen, q)
      /\ RunInv(hist, seen, session, await, Live, target, unsure, jobTimer)
      /\ session \in Session /\ session.ready
      /\ jobTimer => Live /\ target = "job"
  BY <1>2, AtHand, OpenIs
<1>4. target = "deployment" /\ ~hist[o].gone /\ ~hist[o].term /\ ~session.pods[n].known
  BY <1>1, <1>3 DEF RunInv
<1>5. /\ o \in 1..Len(hist) /\ n \in Names /\ o \in 0..Len(hist)
      /\ At(hist, n, seen) \in f \cup {0, o} /\ Found(hist, seen, f, n, o)
  <2>1. /\ o \in 1..Len(hist) /\ n \in Names /\ ~hist[o].gone
        /\ At(hist, n, seen) \in f \cup {0, o} /\ Found(hist, seen, f, n, o)
    BY <1>3, <1>4, ToCome
  <2>2. o \in 0..Len(hist)
    <3>1. Len(hist) \in Nat
      BY <1>3, HereIs, CtxIs
    <3> QED
      BY ONLY <2>1, <3>1, UpFromZero
  <2> QED
    BY <2>1, <2>2
<1>6. session.pods[n] = Unknown /\ \A t \in T : t.name # n
  BY <1>3, <1>4, Stranger
<1>7. WellBut(session, f, n)
  BY <1>3, LessDelta
<1>8. /\ Turned(session, j) /\ j.queue = q /\ j.finishing = session.finishing
      /\ j.closed = session.closed /\ j.pods[n] = Added(o)
      /\ \A m \in Names : m # n => j.pods[m] = session.pods[m]
  BY <1>3, <1>5, HereIs, JoinsTurned
<1>9. \/ session' = NextDelta(j) /\ unsure' = unsure \ {n}
      \/ session' = NextDelta(session) /\ unsure' = unsure \cup {n}
  BY DEF MatcherAnswers
<1> HIDE DEF j, f, n
<1>10. ASSUME NEW s \in Session, s.ready, s.queue = q, Rest(s),
              FitInv(hist, seen, s, f, Live, target, unsure'), session' = NextDelta(s)
       PROVE  Opened'
  <2>1. /\ Aside(s, session') /\ session'.queue = NextQueue(q)
        /\ Rest(session') /\ FitInv(hist, seen, session', f, Live, target, unsure')
    BY <1>2, <1>3, <1>10, NextFits
  <2>2. Told(session'.queue) = f
    BY <1>2, <1>3, <2>1, NextQ DEF QueueShape, f
  <2>3. DueInv(hist, seen, session', f, Live, target, jobTimer')
    BY <1>3, <1>4 DEF DueInv
  <2>4. RunInv(hist, seen, session', await', Live, target, unsure', jobTimer')
    BY <1>1, <1>3, <2>1, <2>2, <2>3 DEF RunInv, Rest
  <2>5. session'.ready
    BY <1>10, <2>1 DEF Aside
  <2> QED
    BY <1>1, <1>3, <2>2, <2>4, <2>5, RunOpen
<1>11. CASE session' = NextDelta(j) /\ unsure' = unsure \ {n}
  <2>1. j \in Session /\ j.ready
    BY <1>3, <1>8 DEF Turned
  <2>2. Rest(j)
    BY <1>7, <1>8 DEF WellBut, WellOff, Rest
  <2>3. ASSUME NEW m \in Names
        PROVE  Fits(hist, seen, T, f, j.closed, Live, target # "pods", m \notin unsure', m, j.pods[m])
    <3>1. CASE m = n
      <4>1. Fits(hist, seen, T, f, j.closed, Live, target # "pods", n \notin unsure', n, Added(o))
        BY <1>3, <1>5, <1>6, AddedSure
      <4> QED
        BY <1>8, <3>1, <4>1
    <3>2. CASE m # n
      <4>1. (m \notin unsure') = (m \notin unsure)
        BY <1>11, <3>2
      <4>2. FitsNow(T, f, j.closed, m, j.pods[m])
        BY <1>7, <1>8, <3>2 DEF WellBut, WellOff
      <4> QED
        BY <4>1, <4>2 DEF FitsNow
    <3> QED
      BY <3>1, <3>2
  <2>4. FitInv(hist, seen, j, f, Live, target, unsure')
    BY <1>8, <2>3 DEF FitInv
  <2> QED
    BY <1>4, <1>8, <1>10, <1>11, <2>1, <2>2, <2>4 DEF Ends
<1>12. CASE session' = NextDelta(session) /\ unsure' = unsure \cup {n}
  <2>1. Rest(session)
    BY <1>7 DEF WellBut, WellOff
  <2>2. ASSUME NEW m \in Names
        PROVE  Fits(hist, seen, T, f, session.closed, Live, target # "pods", m \notin unsure', m,
                    session.pods[m])
    <3>1. CASE m = n
      <4>1. (m \notin unsure') = FALSE
        BY <1>12, <3>1
      <4> QED
        BY <1>6, <3>1, <4>1, UnknownUnsure
    <3>2. CASE m # n
      <4>1. (m \notin unsure') = (m \notin unsure)
        BY <1>12, <3>2
      <4>2. FitsNow(T, f, session.closed, m, session.pods[m])
        BY <1>7, <3>2 DEF WellBut, WellOff
      <4> QED
        BY <4>1, <4>2 DEF FitsNow
    <3> QED
      BY <3>1, <3>2
  <2>3. FitInv(hist, seen, session, f, Live, target, unsure')
    BY <2>2 DEF FitInv
  <2> QED
    BY <1>3, <1>4, <1>10, <1>12, <2>1, <2>3 DEF Ends
<1> QED
  BY <1>9, <1>11, <1>12

-----------------------------------------------------------------------------
(* The tasks about streams and timers                                      *)

\* The end of a task that has turned the session.
LEMMA TurnedOpen ==
  ASSUME IsReady, ~disposed, Opened, session.queue # <<>>, Head(session.queue).deltas = <<>>,
         UNCHANGED HandlerVars, UNCHANGED jobTimer, await' = "", Turned(Popped, session'),
         Turns(Popped, session', Told(session.queue))
  PROVE  Opened' /\ Ends(session, session')
<1> DEFINE q == session.queue
           D == Told(q)
<1>1. /\ Here /\ q \in Seq(Task) /\ Follow(hist, seen, D) /\ (jobTimer => Live /\ target = "job")
      /\ session.ready
  BY OpenIs
<1>2. /\ Popped \in Session /\ Aside(session, Popped) /\ Popped.queue = Tail(q)
      /\ QueueShape(hist, seen, Tail(q)) /\ Range(q) = Range(Tail(q)) \cup {Head(q)}
  BY PoppedIs DEF IsReady
<1>3. session'.ready /\ Mostly(Tail(q), session'.queue)
  BY <1>1, <1>2 DEF Turned, Aside
<1>4. Told(session'.queue) = Told(Tail(q))
  BY <1>2, <1>3, MostlyTold DEF QueueShape
<1>5. Told(Tail(q)) = D
  <2>1. Range(Head(q).deltas) = {}
    BY NoDeltas
  <2>2. \A x : x \in Told(Tail(q)) <=> x \in D
    BY <1>2, <2>1, ToldIs
  <2> QED
    BY <2>2 DEF Told
<1> HIDE DEF D
<1>6. DueInv(hist, seen, session', D, Live, target, jobTimer') /\ Well(session', D)
  BY DEF Turns, DueNow, D
<1>7. Opened'
  BY <1>1, <1>3, <1>4, <1>5, <1>6, TaskOpen DEF D
<1>8. Ends(Popped, session')
  BY DEF Turns
<1> QED
  BY <1>2, <1>7, <1>8, EndsPut DEF Aside

\* T has no more tasks than U.
LEMMA FewerTasks ==
  ASSUME NEW h, NEW v, NEW n, NEW e, NEW T, NEW U, T \subseteq U, NEW d, NEW closed, NEW live_,
         NEW work, NEW sure, NEW shut, Fits(h, v, U, d, closed, live_, work, sure, n, e),
         shut = "no" => Attended(T, n, e)
  PROVE  Fits(h, v, T, d, shut, live_, work, sure, n, e)
<1>1. Sound(T, live_, n, e)
  BY DEF Fits, Sound
<1>2. live_ => Follows(h, v, T, d, work, sure, n, e)
  BY DEF Fits, Follows, OfWorkload
<1> QED
  BY <1>1, <1>2 DEF Fits

\* The session at a task about n.
LEMMA PoppedOff ==
  ASSUME IsReady, ~disposed, Opened, session.queue # <<>>, Head(session.queue).name \in Names
  PROVE  LET n == Head(session.queue).name
             T == Range(session.queue)
             D == Told(session.queue)
         IN /\ Here /\ Popped \in Session /\ Popped.ready /\ Head(session.queue) \in T
            /\ Head(session.queue) \in Task
            /\ D \subseteq 1..seen /\ Range(Popped.queue) \subseteq T
            /\ WellBut(Popped, D, n) /\ Popped.pods = session.pods
            /\ Popped.pods[n] \in Entry /\ On(Popped.pods[n])
            /\ FitsNow(T, D, Popped.closed, n, Popped.pods[n])
            /\ Head(session.queue).deltas = <<>>
            /\ Head(session.queue).op \in {"streamFinished", "graceExpired"}
            /\ TaskInv(T, Live, target) /\ DueNow(Popped, D)
<1> DEFINE q == session.queue
           t == Head(q)
           n == t.name
           T == Range(q)
           D == Told(q)
           U == Range(Tail(q))
<1>1. /\ Here /\ session \in Session /\ session.ready /\ D \subseteq 1..seen
      /\ RunInv(hist, seen, session, await, Live, target, unsure, jobTimer)
      /\ Well(session, D) /\ DueNow(session, D)
  BY OpenIs
<1>2. /\ Popped \in Session /\ Aside(session, Popped) /\ Popped.queue = Tail(q)
      /\ Popped.pods = session.pods /\ T = U \cup {t} /\ t \in T /\ t \in Task
  BY PoppedIs DEF IsReady
<1>3. Shaped(t) /\ n # 0
  BY <1>2, ReadyCtx, Bounds
<1>4. t.deltas = <<>> /\ t.op \in {"streamFinished", "graceExpired"}
  BY <1>3 DEF Shaped
<1>5. FitsNow(T, D, session.closed, n, session.pods[n]) /\ session.pods[n] \in Entry
  BY <1>1, SessionIs DEF Well, WellOff
<1>6. On(session.pods[n])
  BY <1>2, <1>5 DEF FitsNow, Fits, Sound, On
<1> HIDE DEF q, D, T, U
<1>7. ASSUME NEW m \in Names, m # n PROVE FitsNow(U, D, session.closed, m, session.pods[m])
  <2>1. SameAbout(hist, T, U, D, D, m)
    BY <1>2, <1>7 DEF SameAbout
  <2>2. FitsNow(T, D, session.closed, m, session.pods[m])
    BY <1>1 DEF Well, WellOff, T, q
  <2> QED
    BY <1>1, <2>1, <2>2, HereIs, FitsKept DEF FitsNow
<1>8. TaskInv(T, Live, target) /\ (session.finishing => session.closed # "no")
  BY <1>1 DEF RunInv, T, q
<1>9. TaskInv(U, Live, target)
  BY <1>2, <1>8 DEF TaskInv
<1>10. WellBut(Popped, D, n)
  BY <1>2, <1>7, <1>8, <1>9 DEF WellBut, WellOff, Rest, Aside, U
<1>11. DueNow(Popped, D)
  <2>1. Rechecks(T, jobTimer, session.jobChecks) => Rechecks(U, jobTimer, session.jobChecks)
    BY <1>2, <1>4 DEF Rechecks
  <2> QED
    BY <1>1, <1>2, <2>1 DEF DueNow, DueInv, Aside, U, T, q
<1> QED
  BY <1>1, <1>2, <1>4, <1>5, <1>6, <1>8, <1>10, <1>11 DEF Aside, q, D, T, U

\* The close to retry, whatever becomes of the entry.
LEMMA WellClosed ==
  ASSUME Here, NEW s \in Session, NEW d, d \subseteq 1..seen, NEW n \in Names, WellBut(s, d, n),
         FitsNow(Range(s.queue), d, "retry", n, s.pods[n])
  PROVE  Turns(s, Close(s, "retry"), d)
<1> DEFINE r == Close(s, "retry")
<1>1. /\ r \in Session /\ r.closed # "no" /\ r.queue = s.queue /\ r.pods = s.pods
      /\ r.finishing = s.finishing
  <2>1. "retry" \in {"over", "retry"}
    OBVIOUS
  <2> QED
    BY <2>1, CloseIs
<1> HIDE DEF r
<1>2. ASSUME NEW m \in Names PROVE FitsNow(Range(s.queue), d, r.closed, m, s.pods[m])
  BY <1>1 DEF WellBut, WellOff, FitsNow, Fits
<1>3. Well(r, d)
  BY <1>1, <1>2 DEF WellBut, Well, WellOff, Rest
<1>4. DueNow(r, d) /\ Ends(s, r)
  BY <1>1 DEF DueNow, DueInv, Ends
<1> QED
  BY <1>3, <1>4 DEF Turns, r

\* An entry whose stream or timer is over, before advance.
LEMMA EndedOff ==
  ASSUME Here, NEW n \in Names, NEW e \in Entry, On(e), NEW T, NEW U, T \subseteq U, NEW d,
         NEW closed, FitsNow(U, d, closed, n, e)
  PROVE  LET a == [e EXCEPT !.state = "ended"] IN
         /\ a \in Entry /\ a.known /\ ~a.left /\ a.uid = e.uid /\ a.state = "ended"
         /\ Sound(T, Live, n, a) /\ Attended(T, n, a)
         /\ Live /\ n \notin unsure => Leaves(hist, seen, d, n, a)
         /\ Live /\ target # "pods" => OfWorkload(hist, seen, T, n, a)
         /\ Live /\ target # "pods" /\ n \notin unsure => Listed(hist, seen, d, n, a)
<1> DEFINE a == [e EXCEPT !.state = "ended"]
<1>1. /\ a \in Entry /\ a.state = "ended" /\ a.timer = e.timer /\ a.known = e.known
      /\ a.uid = e.uid /\ a.left = e.left /\ a.run = e.run /\ a.request = e.request
  BY StateIs
<1> HIDE DEF a
<1>2. a.known /\ ~a.left
  BY <1>1 DEF On
<1>3. Sound(T, Live, n, a) /\ Attended(T, n, a)
  BY <1>1, <1>2 DEF FitsNow, Fits, Sound, Attended
<1>4. Live /\ n \notin unsure => Leaves(hist, seen, d, n, a)
  BY <1>1 DEF FitsNow, Fits, Follows, Leaves, On, Shown
<1>5. Live /\ target # "pods" => OfWorkload(hist, seen, T, n, a)
  BY <1>1, <1>2 DEF FitsNow, Fits, Follows, OfWorkload, Shown
<1>6. Live /\ target # "pods" /\ n \notin unsure => Listed(hist, seen, d, n, a)
  BY <1>1, <1>2 DEF FitsNow, Fits, Follows, Listed, On
<1> QED
  BY <1>1, <1>2, <1>3, <1>4, <1>5, <1>6 DEF a

LEMMA EndedRetires ==
  ASSUME Here, Live, NEW s \in Session, s.ready, NEW d, d \subseteq 1..seen, NEW n \in Names,
         WellBut(s, d, n), On(s.pods[n]), NEW U, Range(s.queue) \subseteq U,
         FitsNow(U, d, s.closed, n, s.pods[n]), NEW a,
         a \in {s.pods[n], [s.pods[n] EXCEPT !.state = "ended"]}, NEW t, Puts(s, t, n, a),
         \/ Cached(n) = 0
         \/ hist[Cached(n)].uid # s.pods[n].uid
         \/ hist[Cached(n)].term
         \/ target # "pods" => ~Alive(hist, s.pods[n].uid)
  PROVE  Turns(s, Retire(t, n), d)
<1> DEFINE e == s.pods[n]
           o == At(hist, n, seen)
<1>1. e \in Entry
  BY SessionIs
<1>2. /\ a.known /\ ~a.left /\ a.uid = e.uid
      /\ target # "pods" => OfWorkload(hist, seen, U, n, e)
      /\ target # "pods" /\ n \notin unsure => Listed(hist, seen, d, n, a)
  <2>1. [e EXCEPT !.state = "ended"].known = e.known /\ [e EXCEPT !.state = "ended"].left = e.left
        /\ [e EXCEPT !.state = "ended"].uid = e.uid
    BY <1>1, StateIs
  <2> HIDE DEF e
  <2>2. a.known = e.known /\ a.left = e.left /\ a.uid = e.uid
    BY <2>1 DEF e
  <2> QED
    BY <2>2 DEF e, FitsNow, Fits, Follows, Listed, On
<1>3. t \in Session /\ Aside(s, t) /\ t.queue = s.queue /\ t.pods[n] = a
      /\ WellBut(t, d, n)
  BY DEF Puts, Aside, WellBut, WellOff, Rest
<1>4. ASSUME target # "pods" PROVE Shown(hist, seen, n, a) /\ Expired(hist, seen, a.uid)
  <2>1. PICK i \in 1..seen : hist[i].name = n /\ hist[i].uid = e.uid
    BY <1>2, <1>4 DEF OfWorkload, Shown, On
  <2>2. Cached(n) = o /\ seen \in 0..Len(hist) /\ HistInv(hist)
    BY HereIs
  <2> HIDE DEF o, e
  <2>3. CASE ~Alive(hist, e.uid)
    BY <1>2, <2>1, <2>3 DEF Shown, Expired
  <2>4. CASE o = 0 \/ hist[o].uid # e.uid \/ hist[o].term
    <3>1. Expired(hist, seen, hist[i].uid)
      BY <2>1, <2>2, <2>4, ExpiredIs DEF o
    <3> QED
      BY <1>2, <2>1, <3>1 DEF Shown
  <2> QED
    BY <1>4, <2>2, <2>3, <2>4 DEF e
<1>5. Well(Retire(t, n), d) /\ Undue(Retire(t, n)) /\ Ends(t, Retire(t, n))
  BY <1>2, <1>3, <1>4, WellRetired DEF Aside
<1>6. Ends(s, Retire(t, n))
  BY <1>3, <1>5, EndsPut DEF Aside
<1> QED
  BY <1>5, <1>6, TurnsIs

LEMMA EndedAdvances ==
  ASSUME Here, Live, NEW s \in Session, s.ready, NEW d, d \subseteq 1..seen, NEW n \in Names,
         WellBut(s, d, n), On(s.pods[n]), NEW U, Range(s.queue) \subseteq U,
         FitsNow(U, d, s.closed, n, s.pods[n])
  PROVE  LET a == Advance([s.pods[n] EXCEPT !.state = "ended"], Cached(n)) IN
         Turns(s, CheckDone([s EXCEPT !.pods[n] = a]), d)
<1> DEFINE e == s.pods[n]
           b == [e EXCEPT !.state = "ended"]
           o == Cached(n)
           a == Advance(b, o)
           T == Range(s.queue)
<1>1. e \in Entry /\ o \in 0..Len(hist) /\ Ctx
  BY SessionIs, HereIs, CachedType
<1>2. /\ b \in Entry /\ b.known /\ ~b.left /\ Sound(T, Live, n, b) /\ Attended(T, n, b)
      /\ n \notin unsure => Leaves(hist, seen, d, n, b)
      /\ target # "pods" => OfWorkload(hist, seen, T, n, b)
      /\ target # "pods" /\ n \notin unsure => Listed(hist, seen, d, n, b)
  BY <1>1, EndedOff
<1>3. At(hist, n, seen) \in d \cup {0, o}
  BY HereIs
<1> HIDE DEF b, o, T
<1>4. a \in Entry
  BY <1>1, <1>2, AdvanceIs
<1>5. FitsNow(T, d, s.closed, n, a)
  BY <1>1, <1>2, <1>3, AdvanceFits
<1> HIDE DEF a
<1>6. LET r == CheckDone([s EXCEPT !.pods[n] = a]) IN Well(r, d) /\ Undue(r) /\ Ends(s, r)
  BY <1>4, <1>5, PutWellChecked DEF T
<1> QED
  BY <1>6, TurnsIs DEF a, b, o

LEMMA StreamFinishedTurns ==
  ASSUME Here, NEW s \in Session, s.ready, NEW d, d \subseteq 1..seen, NEW t \in Task,
         t.name \in Names, WellBut(s, d, t.name), On(s.pods[t.name]), NEW U,
         Range(s.queue) \subseteq U, t \in U, FitsNow(U, d, s.closed, t.name, s.pods[t.name])
  PROVE  Turns(s, StreamFinished(s, t), d)
<1> DEFINE n == t.name
           e == s.pods[n]
           o == Feed(n)
           e1 == [e EXCEPT !.state = "ended"]
           ended == [s EXCEPT !.pods[n] = e1]
           a == Advance(e1, o)
<1>1. e \in Entry /\ e1 \in Entry /\ n \in Names /\ o \in 0..Len(hist) /\ Ctx
  BY SessionIs, StateIs, CachedType, HereIs
<1>2. [s EXCEPT !.pods[n].state = "ended"] = ended
  BY DEF Session
<1>3. /\ follow \in BOOLEAN /\ live \in BOOLEAN /\ Live = (follow /\ live)
  BY <1>1, CtxIs DEF Live
<1>4. [ended EXCEPT !.pods[n] = Advance(@, o)] = [s EXCEPT !.pods[n] = a]
  <2>1. s.pods \in [Names -> Entry]
    BY SessionIs
  <2> QED
    BY <1>1, <2>1 DEF Session
<1>5. StreamFinished(s, t) =
        IF ~follow THEN CheckDone(ended)
        ELSE IF ~live
        THEN IF RunId(o) # 0 /\ ~Running(o) /\ ~Waiting(o) THEN CheckDone(ended)
             ELSE Close(ended, "retry")
        ELSE IF o = 0 \/ e.uid \notin {0, hist[o].uid} \/ t.notFound \/ Terminating(o)
        THEN Retire(ended, n) ELSE CheckDone([s EXCEPT !.pods[n] = a])
  BY <1>2, <1>3, <1>4 DEF StreamFinished
<1>6. Puts(s, ended, n, e1)
  BY <1>1, PutIs
<1>7. CASE ~Live
  <2>1. /\ e1 \in Entry /\ Sound(Range(s.queue), Live, n, e1) /\ Attended(Range(s.queue), n, e1)
    BY <1>1, EndedOff
  <2> HIDE DEF e1, n, o
  <2>2. \A closed : FitsNow(Range(s.queue), d, closed, n, e1)
    BY <1>7, <2>1 DEF FitsNow, Fits
  <2>3. Turns(s, CheckDone(ended), d)
    <3>1. Well(CheckDone(ended), d) /\ Undue(CheckDone(ended)) /\ Ends(s, CheckDone(ended))
      BY <1>1, <2>1, <2>2, PutWellChecked DEF n
    <3> QED
      BY <3>1, TurnsIs
  <2>4. Turns(s, Close(ended, "retry"), d)
    <3> HIDE DEF ended
    <3>1. WellBut(ended, d, n) /\ ended \in Session
      BY <1>6 DEF Puts, Aside, WellBut, WellOff, Rest, n
    <3>2. FitsNow(Range(ended.queue), d, "retry", n, ended.pods[n])
      BY <1>6, <2>2 DEF Puts
    <3>3. Turns(ended, Close(ended, "retry"), d)
      BY <1>1, <3>1, <3>2, WellClosed
    <3> QED
      BY <1>6, <3>3, EndsPut DEF Turns, Puts, Aside
  <2> HIDE DEF ended
  <2> QED
    BY <1>3, <1>5, <1>7, <2>3, <2>4
<1>8. CASE Live /\ ~(o = 0 \/ e.uid \notin {0, hist[o].uid} \/ t.notFound \/ Terminating(o))
  <2>1. o = Cached(n)
    BY <1>3, <1>8 DEF Feed
  <2>2. Turns(s, CheckDone([s EXCEPT !.pods[n] = a]), d)
    BY <1>8, <2>1, EndedAdvances
  <2> QED
    BY <1>3, <1>5, <1>8, <2>2
<1>9. CASE Live /\ (o = 0 \/ e.uid \notin {0, hist[o].uid} \/ t.notFound \/ Terminating(o))
  <2>1. o = Cached(n)
    BY <1>3, <1>9 DEF Feed
  <2>2. t.notFound /\ target # "pods" => ~Alive(hist, e.uid)
    BY <1>9 DEF FitsNow, Fits, Follows, OfWorkload
  <2>3. \/ Cached(n) = 0
        \/ hist[Cached(n)].uid # e.uid
        \/ hist[Cached(n)].term
        \/ target # "pods" => ~Alive(hist, e.uid)
    BY <1>9, <2>1, <2>2 DEF Terminating
  <2>4. e1 \in {e, e1}
    OBVIOUS
  <2> HIDE DEF ended
  <2>5. Turns(s, Retire(ended, n), d)
    BY <1>6, <1>9, <2>3, <2>4, EndedRetires
  <2> QED
    BY <1>3, <1>5, <1>9, <2>5
<1> QED
  BY <1>7, <1>8, <1>9

LEMMA GraceExpiredTurns ==
  ASSUME Here, Live, NEW s \in Session, s.ready, NEW d, d \subseteq 1..seen, NEW n \in Names,
         WellBut(s, d, n), DueNow(s, d), On(s.pods[n]), NEW U, Range(s.queue) \subseteq U,
         \A t \in U : t \in Range(s.queue) \/ t.op = "graceExpired",
         FitsNow(U, d, s.closed, n, s.pods[n])
  PROVE  Turns(s, GraceExpired(s, n), d)
<1> DEFINE e == s.pods[n]
           o == Cached(n)
           T == Range(s.queue)
           away == o = 0 \/ e.uid \notin {0, hist[o].uid}
           kept == CheckDone([s EXCEPT !.pods[n] = Advance([e EXCEPT !.state = "ended"], o)])
<1>1. GraceExpired(s, n) =
        IF e.state # "grace" THEN s
        ELSE IF away THEN Retire(s, n)
        ELSE IF Running(o) /\ RunId(o) = e.run /\ ~Terminating(o) THEN Close(s, "retry")
        ELSE kept
  BY DEF GraceExpired
<1>2. Turns(s, kept, d)
  BY EndedAdvances
<1>3. ASSUME e.state # "grace" PROVE Turns(s, s, d)
  <2>1. s.closed = "no" => Attended(T, n, e)
    BY <1>3 DEF FitsNow, Fits, Attended
  <2>2. FitsNow(T, d, s.closed, n, e)
    BY <2>1, FewerTasks DEF FitsNow
  <2> QED
    BY <2>2, WellAgain, SelfEnds DEF Turns
<1>4. Turns(s, Close(s, "retry"), d)
  <2>1. FitsNow(T, d, "retry", n, e)
    BY FewerTasks DEF FitsNow
  <2> QED
    BY <2>1, WellClosed
<1>5. ASSUME away PROVE Turns(s, Retire(s, n), d)
  <2>1. Puts(s, s, n, e) /\ e \in {e, [e EXCEPT !.state = "ended"]}
    BY DEF Puts, Aside
  <2>2. Cached(n) = 0 \/ hist[Cached(n)].uid # e.uid
    BY <1>5
  <2> QED
    BY <2>1, <2>2, EndedRetires
<1> HIDE DEF e, o, T, away, kept
<1> QED
  BY <1>1, <1>2, <1>3, <1>4, <1>5

LEMMA OnStreamFinishedOpen ==
  ASSUME IsReady, ~disposed, Opened, OnStreamFinished
  PROVE  Opened' /\ Ends(session, session')
<1> DEFINE t == Head(session.queue)
           T == Range(session.queue)
           D == Told(session.queue)
<1>1. /\ session.queue # <<>> /\ await = "" /\ t.op = "streamFinished"
      /\ session' = StreamFinished(Popped, t)
      /\ UNCHANGED HandlerVars /\ UNCHANGED jobTimer /\ await' = ""
  BY DEF OnStreamFinished, Head1, HandlerVars
<1>2. t.name \in Names
  <2>1. Shaped(t) /\ t \in Task
    BY <1>1, ReadyCtx, PoppedIs DEF IsReady
  <2> QED
    BY <1>1, <2>1, TaskIs DEF Shaped
<1>3. /\ Here /\ Popped \in Session /\ Popped.ready /\ t \in T /\ t \in Task
      /\ D \subseteq 1..seen /\ Range(Popped.queue) \subseteq T
      /\ WellBut(Popped, D, t.name) /\ On(Popped.pods[t.name])
      /\ FitsNow(T, D, Popped.closed, t.name, Popped.pods[t.name]) /\ t.deltas = <<>>
  BY <1>1, <1>2, PoppedOff
<1>4. Turns(Popped, StreamFinished(Popped, t), D)
  BY <1>2, <1>3, StreamFinishedTurns
<1>5. Turned(Popped, StreamFinished(Popped, t))
  BY <1>2, <1>3, StreamFinishedTurned DEF Here
<1> QED
  BY <1>1, <1>3, <1>4, <1>5, TurnedOpen

LEMMA OnGraceExpiredOpen ==
  ASSUME IsReady, ~disposed, Opened, OnGraceExpired
  PROVE  Opened' /\ Ends(session, session')
<1> DEFINE t == Head(session.queue)
           n == t.name
           T == Range(session.queue)
           D == Told(session.queue)
<1>1. /\ session.queue # <<>> /\ await = "" /\ t.op = "graceExpired"
      /\ session' = GraceExpired(Popped, n)
      /\ UNCHANGED HandlerVars /\ UNCHANGED jobTimer /\ await' = ""
  BY DEF OnGraceExpired, Head1, HandlerVars
<1>2. n \in Names
  <2>1. Shaped(t) /\ t \in Task
    BY <1>1, ReadyCtx, PoppedIs DEF IsReady
  <2> QED
    BY <1>1, <2>1, TaskIs DEF Shaped
<1>3. /\ Here /\ Popped \in Session /\ Popped.ready /\ t \in T
      /\ D \subseteq 1..seen /\ Range(Popped.queue) \subseteq T
      /\ WellBut(Popped, D, n) /\ On(Popped.pods[n]) /\ DueNow(Popped, D)
      /\ FitsNow(T, D, Popped.closed, n, Popped.pods[n]) /\ t.deltas = <<>>
      /\ TaskInv(T, Live, target)
  BY <1>1, <1>2, PoppedOff
<1>4. Live
  BY <1>1, <1>3 DEF TaskInv
<1>5. \A u \in T : u \in Range(Popped.queue) \/ u.op = "graceExpired"
  <2>1. Popped.queue = Tail(session.queue) /\ T = Range(Tail(session.queue)) \cup {t}
    BY <1>1, PoppedIs DEF IsReady
  <2> QED
    BY <1>1, <2>1
<1>6. Turns(Popped, GraceExpired(Popped, n), D)
  BY <1>2, <1>3, <1>4, <1>5, GraceExpiredTurns
<1>7. Turned(Popped, GraceExpired(Popped, n))
  BY <1>2, <1>3, GraceExpiredTurned DEF Here
<1> QED
  BY <1>1, <1>3, <1>6, <1>7, TurnedOpen

\* The session at a task that is about no name.
LEMMA PoppedWell ==
  ASSUME IsReady, ~disposed, Opened, session.queue # <<>>,
         Head(session.queue).op \in {"checkDone", "finishIfJobDone"}
  PROVE  LET D == Told(session.queue) IN
         /\ Here /\ Live /\ target = "job" /\ Popped \in Session /\ Popped.ready
         /\ Aside(session, Popped) /\ D \subseteq 1..seen
         /\ Well(Popped, D) /\ Head(session.queue).deltas = <<>>
         /\ Told(Popped.queue) = D
<1> DEFINE q == session.queue
           t == Head(q)
           T == Range(q)
           D == Told(q)
           U == Range(Tail(q))
<1>1. /\ Here /\ session \in Session /\ session.ready /\ D \subseteq 1..seen
      /\ Well(session, D) /\ TaskInv(T, Live, target)
  BY OpenIs DEF RunInv
<1>2. /\ Popped \in Session /\ Aside(session, Popped) /\ Popped.queue = Tail(q)
      /\ Popped.pods = session.pods /\ T = U \cup {t} /\ t \in T /\ t \in Task
  BY PoppedIs DEF IsReady
<1>3. Shaped(t)
  BY <1>2, ReadyCtx
<1>4. t.deltas = <<>> /\ t.name = 0 /\ Live /\ target = "job"
  BY <1>1, <1>2, <1>3 DEF Shaped, TaskInv
<1>5. Told(Tail(q)) = D
  <2>1. Range(t.deltas) = {}
    BY <1>4, NoDeltas
  <2> HIDE DEF t
  <2>2. \A x : x \in Told(Tail(q)) <=> x \in D
    BY <1>2, <2>1, ToldIs
  <2> QED
    BY <2>2 DEF Told
<1> HIDE DEF q, D, T, U
<1>6. ASSUME NEW m \in Names PROVE FitsNow(U, D, session.closed, m, session.pods[m])
  <2>1. SameAbout(hist, T, U, D, D, m)
    BY <1>2, <1>4, Bounds DEF SameAbout
  <2>2. FitsNow(T, D, session.closed, m, session.pods[m])
    BY <1>1 DEF Well, WellOff, T, q
  <2> QED
    BY <1>1, <2>1, <2>2, HereIs, FitsKept DEF FitsNow
<1>7. TaskInv(U, Live, target)
  BY <1>1, <1>2 DEF TaskInv
<1>8. Well(Popped, D)
  BY <1>1, <1>2, <1>6, <1>7 DEF Well, WellOff, Rest, Aside, U
<1> QED
  BY <1>1, <1>2, <1>4, <1>5, <1>8 DEF Aside, q, D

LEMMA OnCheckDoneOpen ==
  ASSUME IsReady, ~disposed, Opened, OnCheckDone
  PROVE  Opened' /\ Ends(session, session')
<1> DEFINE D == Told(session.queue)
<1>1. /\ session.queue # <<>> /\ await = "" /\ Head(session.queue).op = "checkDone"
      /\ session' = CheckDone(Popped)
      /\ UNCHANGED HandlerVars /\ UNCHANGED jobTimer /\ await' = ""
  BY DEF OnCheckDone, Head1, HandlerVars
<1>2. /\ Here /\ Popped \in Session /\ Popped.ready /\ D \subseteq 1..seen /\ Well(Popped, D)
      /\ Head(session.queue).deltas = <<>>
  BY <1>1, PoppedWell
<1>3. Turns(Popped, CheckDone(Popped), D)
  BY <1>2, WellChecked, TurnsIs
<1>4. Turned(Popped, CheckDone(Popped))
  BY <1>2, CheckDoneTurned DEF Here
<1> QED
  BY <1>1, <1>2, <1>3, <1>4, TurnedOpen

LEMMA FinishIfJobDoneOpen ==
  ASSUME IsReady, ~disposed, Opened, FinishIfJobDone
  PROVE  Opened' /\ Ends(session, session')
<1> DEFINE D == Told(session.queue)
<1>1. /\ session.queue # <<>> /\ await = "" /\ Head(session.queue).op = "finishIfJobDone"
      /\ UNCHANGED HandlerVars /\ UNCHANGED jobTimer
      /\ IF session.finishing \/ jobTimer THEN session' = Popped /\ await' = ""
         ELSE await' = "job" /\ session' = session
  BY DEF FinishIfJobDone, Head1, HandlerVars
<1>2. /\ Here /\ Live /\ target = "job" /\ Popped \in Session /\ Aside(session, Popped)
      /\ Well(Popped, D) /\ Head(session.queue).deltas = <<>>
  BY <1>1, PoppedWell
<1>3. CASE session.finishing \/ jobTimer
  <2>1. DueNow(Popped, D)
    BY <1>2, <1>3 DEF DueNow, DueInv, Rechecks, Well, WellOff, Rest, Aside
  <2>2. Turns(Popped, Popped, D)
    BY <1>2, <2>1, SelfEnds DEF Turns
  <2>3. Turned(Popped, Popped)
    BY <1>1, PoppedTurned
  <2>4. session' = Popped /\ await' = ""
    BY <1>1, <1>3
  <2> QED
    BY <1>1, <1>2, <2>2, <2>3, <2>4, TurnedOpen
<1>4. CASE ~(session.finishing \/ jobTimer)
  <2>1. await' = "job" /\ session' = session
    BY <1>1, <1>4
  <2>2. /\ session.ready /\ Follow(hist, seen, D) /\ Well(session, D) /\ DueNow(session, D)
        /\ (jobTimer => Live /\ target = "job")
    BY OpenIs
  <2>3. DueInv(hist, seen, session', D, Live, target, jobTimer') /\ Well(session', D)
        /\ session'.ready /\ Told(session'.queue) = D /\ (jobTimer' => Live /\ target = "job")
    BY <1>1, <2>1, <2>2 DEF DueNow
  <2>4. Opened'
    BY <1>1, <2>1, <2>2, <2>3, TaskOpen
  <2> QED
    BY <2>1, <2>4, SelfEnds
<1> QED
  BY <1>3, <1>4

LEMMA FinishWell ==
  ASSUME Here, NEW s \in Session, NEW d, Well(s, d)
  PROVE  Well(Finish(s), d) /\ DueNow(Finish(s), d)
<1> DEFINE r == Finish(s)
<1>1. r.closed # "no" /\ r.queue = s.queue /\ r.pods = s.pods
  BY FinishIs
<1> HIDE DEF r
<1>2. Well(r, d)
  BY <1>1 DEF Well, WellOff, Rest, FitsNow, Fits
<1>3. DueNow(r, d)
  BY <1>1 DEF DueNow, DueInv
<1> QED
  BY <1>2, <1>3 DEF r

LEMMA JobAnswerOpen ==
  ASSUME IsReady, ~disposed, Opened, JobAnswer
  PROVE  Opened' /\ Ends(session, session')
<1> DEFINE D == Told(session.queue)
           c == session.jobChecks
<1>1. /\ session.queue # <<>> /\ await = "job" /\ Head(session.queue).op = "finishIfJobDone"
  BY DEF JobAnswer, IsReady, Basics, Ready
<1>2. /\ await' = "" /\ UNCHANGED HandlerVars
      /\ \/ session' = Finish(Popped) /\ UNCHANGED jobTimer
         \/ session' = Popped /\ UNCHANGED jobTimer /\ c >= MaxRechecks
         \/ session' = [Popped EXCEPT !.jobChecks = @ + 1] /\ jobTimer' = TRUE
  <2>1. PICK done \in BOOLEAN :
          CASE done -> session' = Finish(Popped) /\ UNCHANGED jobTimer
            [] ~done /\ c >= MaxRechecks -> session' = Popped /\ UNCHANGED jobTimer
            [] ~done /\ c < MaxRechecks ->
                 session' = [Popped EXCEPT !.jobChecks = @ + 1] /\ jobTimer' = TRUE
    BY DEF JobAnswer
  <2>2. c >= MaxRechecks \/ c < MaxRechecks
    <3>1. c \in 0..MaxRechecks
      BY SessionIs, ReadyCtx
    <3> QED
      BY <3>1, Bounds
  <2>3. await' = "" /\ UNCHANGED HandlerVars
    BY DEF JobAnswer, HandlerVars
  <2> HIDE DEF c
  <2> QED
    BY <2>1, <2>2, <2>3
<1>3. /\ Here /\ Live /\ target = "job" /\ Popped \in Session /\ Popped.ready
      /\ Aside(session, Popped) /\ Well(Popped, D) /\ Head(session.queue).deltas = <<>>
      /\ Told(Popped.queue) = D
  BY <1>1, PoppedWell
<1>4. Turned(Popped, Popped) /\ Turned(Popped, Finish(Popped))
  BY <1>1, PoppedTurned
<1>5. \A r : Ends(Popped, r)
  BY <1>3 DEF Ends
<1>6. CASE session' = Finish(Popped) /\ UNCHANGED jobTimer
  <2>1. Turns(Popped, Finish(Popped), D)
    BY <1>3, <1>5, FinishWell DEF Turns
  <2> QED
    BY <1>1, <1>2, <1>3, <1>4, <1>6, <2>1, TurnedOpen
<1>7. CASE session' = Popped /\ UNCHANGED jobTimer /\ c >= MaxRechecks
  <2>1. DueNow(Popped, D)
    BY <1>3, <1>7 DEF DueNow, DueInv, Rechecks, Aside
  <2>2. Turns(Popped, Popped, D)
    BY <1>3, <1>5, <2>1 DEF Turns
  <2> QED
    BY <1>1, <1>2, <1>3, <1>4, <1>7, <2>2, TurnedOpen
<1>8. CASE session' = [Popped EXCEPT !.jobChecks = @ + 1] /\ jobTimer' = TRUE
  <2>1. /\ session'.queue = Popped.queue /\ session'.pods = Popped.pods
        /\ session'.ready = Popped.ready /\ session'.finishing = Popped.finishing
        /\ session'.closed = Popped.closed
    BY <1>3, <1>8 DEF Session
  <2>2. Well(session', D)
    BY <1>3, <2>1 DEF Well, WellOff, Rest
  <2>3. DueInv(hist, seen, session', D, Live, target, jobTimer')
    BY <1>3, <1>8 DEF DueInv, Rechecks
  <2>4. Follow(hist, seen, D)
    BY OpenIs
  <2>5. Opened'
    BY <1>2, <1>3, <1>8, <2>1, <2>2, <2>3, <2>4, TaskOpen
  <2>6. Ends(session, session')
    BY <1>3 DEF Ends
  <2> QED
    BY <2>5, <2>6
<1> QED
  BY <1>2, <1>6, <1>7, <1>8

-----------------------------------------------------------------------------
(* Timers and streams that queue a task                                    *)

\* A task t is queued about n, whose entry becomes e.
LEMMA PushOpen ==
  ASSUME IsReady, ~disposed, Opened, UNCHANGED HandlerVars, UNCHANGED await,
         NEW n \in Names, NEW e, NEW s, Puts(session, s, n, e),
         NEW t \in Task, t.deltas = <<>>, Shaped(t), t.name \in {0, n},
         t.op \notin {"deltas", "load"}, session' = Push(s, t), TaskInv({t}, Live, target),
         FitsNow(Range(session.queue) \cup {t}, Told(session.queue), session.closed, n, e),
         e.known = session.pods[n].known, e.left = session.pods[n].left,
         e.state = session.pods[n].state,
         jobTimer' = jobTimer \/ (jobTimer' = FALSE /\ t.op = "checkDone")
  PROVE  Opened' /\ Ends(session, session')
<1> DEFINE q == session.queue
           T == Range(q)
           U == T \cup {t}
           D == Told(q)
           p == session.pods
<1>1. /\ Here /\ session \in Session /\ session.ready /\ q \in Seq(Task) /\ Follow(hist, seen, D)
      /\ RunInv(hist, seen, session, await, Live, target, unsure, jobTimer)
      /\ Well(session, D) /\ DueNow(session, D) /\ (jobTimer => Live /\ target = "job")
      /\ D \subseteq 1..seen
  BY OpenIs
<1>2. /\ s \in Session /\ Aside(session, s) /\ s.queue = q /\ s.pods[n] = e
      /\ \A m \in Names : m # n => s.pods[m] = p[m]
  BY DEF Puts
<1>3. session' \in Session /\ Aside(s, session') /\ session'.queue = Append(q, t)
      /\ session'.pods = s.pods
  BY <1>2, PushIs
<1>4. /\ Range(Append(q, t)) = U /\ Told(Append(q, t)) = D
      /\ q # <<>> => Head(Append(q, t)) = Head(q)
  BY <1>1, PushShape, ReadyCtx
<1>5. /\ session'.ready /\ session'.finishing = session.finishing
      /\ session'.closed = session.closed /\ session'.jobChecks = session.jobChecks
  BY <1>1, <1>2, <1>3 DEF Aside
<1>6. ASSUME NEW m \in Names, m # n PROVE FitsNow(U, D, session.closed, m, p[m])
  <2>1. SameAbout(hist, T, U, D, D, m)
    BY <1>6, Bounds DEF SameAbout
  <2>2. FitsNow(T, D, session.closed, m, p[m])
    BY <1>1 DEF Well, WellOff
  <2> HIDE DEF T, U, D, p
  <2> QED
    BY <1>1, <2>1, <2>2, HereIs, FitsKept DEF FitsNow, D
<1> HIDE DEF T, U, D, p, q
<1>7. Rest(session')
  <2>1. TaskInv(U, Live, target)
    BY <1>1 DEF Well, WellOff, Rest, TaskInv, U, T, q
  <2> QED
    BY <1>1, <1>3, <1>4, <1>5, <2>1 DEF Well, WellOff, Rest
<1>8. ASSUME NEW m \in Names PROVE FitsNow(U, D, session.closed, m, session'.pods[m])
  BY <1>2, <1>3, <1>6 DEF U, T, D, q, p
<1>9. Well(session', D)
  BY <1>3, <1>4, <1>5, <1>7, <1>8 DEF Well, WellOff
<1>10. \A m \in Names : /\ On(session'.pods[m]) <=> On(p[m])
                        /\ session'.pods[m].state = p[m].state
                        /\ session'.pods[m].known = p[m].known
  BY <1>2, <1>3 DEF On, p
<1>11. DueInv(hist, seen, session', D, Live, target, jobTimer')
  <2>1. Ripe(hist, seen, D, session'.pods) => Ripe(hist, seen, D, p)
    BY <1>10 DEF Ripe
  <2>2. Rechecks(T, jobTimer, session.jobChecks) => Rechecks(U, jobTimer', session.jobChecks)
    BY DEF Rechecks, U
  <2>3. DueInv(hist, seen, session, D, Live, target, jobTimer)
    BY <1>1 DEF DueNow
  <2>4. CASE Live
    BY <1>3, <1>4, <1>5, <2>1, <2>2, <2>3, <2>4 DEF DueInv, T, p, q
  <2>5. CASE ~Live
    BY <1>5, <1>10, <2>3, <2>5 DEF DueInv, p
  <2> QED
    BY <2>4, <2>5
<1>12. await' = "match" => Asked(hist, session', target)
  <2> SUFFICES ASSUME await = "match" PROVE Asked(hist, session', target)
    OBVIOUS
  <2>1. q # <<>> /\ Head(q).op = "deltas"
    BY DEF IsReady, Basics, Ready, q
  <2>2. Asked(hist, session, target)
    BY <1>1 DEF RunInv, Asked
  <2> DEFINE o == Head(Head(q).deltas)
  <2>3. hist[o].name \in Names
    BY <1>1, <2>1, HeadDelta, PodIs DEF Here, q
  <2>4. Head(session'.queue) = Head(q)
    BY <1>3, <1>4, <2>1
  <2> QED
    BY <1>10, <2>2, <2>3, <2>4 DEF Asked, p, q
<1>13. jobTimer' => Live /\ target = "job"
  BY <1>1
<1>14. Told(session'.queue) = D
  BY <1>3, <1>4
<1>15. Opened'
  BY <1>1, <1>5, <1>9, <1>11, <1>12, <1>13, <1>14, TaskOpen
<1> QED
  BY <1>5, <1>15 DEF Ends

LEMMA CheckTaskIs ==
  LET t == Do("checkDone", 0, <<>>, FALSE) IN
  t \in Task /\ t.op = "checkDone" /\ t.name = 0 /\ t.deltas = <<>> /\ Shaped(t)
<1> DEFINE t == Do("checkDone", 0, <<>>, FALSE)
<1>1. 0 \in Names \cup {0} /\ FALSE \in BOOLEAN
  OBVIOUS
<1>2. t \in Task
  BY <1>1, EmptyDeltas DEF Do, Task
<1>3. t.op = "checkDone" /\ t.name = 0 /\ t.deltas = <<>>
  BY DEF Do
<1> HIDE DEF t
<1>4. Shaped(t)
  BY <1>3 DEF Shaped
<1> QED
  BY <1>2, <1>3, <1>4 DEF t

LEMMA JobTimerFiresOpen ==
  ASSUME IsReady, ~disposed, Opened, JobTimerFires
  PROVE  Opened' /\ Ends(session, session')
<1> DEFINE t == Do("checkDone", 0, <<>>, FALSE)
           T == Range(session.queue)
           D == Told(session.queue)
<1>1. /\ jobTimer /\ jobTimer' = FALSE /\ session' = Push(session, t)
      /\ UNCHANGED HandlerVars /\ UNCHANGED await
  BY DEF JobTimerFires, HandlerVars
<1>2. /\ Here /\ session \in Session /\ Live /\ target = "job" /\ Well(session, D)
      /\ D \subseteq 1..seen
  BY <1>1, OpenIs
<1>3. t \in Task /\ t.op = "checkDone" /\ t.name = 0 /\ t.deltas = <<>> /\ Shaped(t)
  BY CheckTaskIs
<1> HIDE DEF t
<1>4. TaskInv({t}, Live, target)
  BY <1>2, <1>3 DEF TaskInv
<1>5. 1 \in Names
  BY Bounds
<1>6. Puts(session, session, 1, session.pods[1])
  BY <1>2 DEF Puts, Aside
<1>7. FitsNow(T \cup {t}, D, session.closed, 1, session.pods[1])
  <2>1. SameAbout(hist, T, T \cup {t}, D, D, 1)
    BY <1>3 DEF SameAbout
  <2>2. FitsNow(T, D, session.closed, 1, session.pods[1])
    BY <1>2, <1>5 DEF Well, WellOff
  <2> HIDE DEF T, D
  <2> QED
    BY <1>2, <2>1, <2>2, HereIs, FitsKept DEF FitsNow, D
<1> QED
  BY <1>1, <1>3, <1>4, <1>5, <1>6, <1>7, PushOpen

LEMMA GraceTimerFiresOpen ==
  ASSUME IsReady, ~disposed, Opened, NEW n \in Names, GraceTimerFires(n)
  PROVE  Opened' /\ Ends(session, session')
<1> DEFINE t == Do("graceExpired", n, <<>>, FALSE)
           T == Range(session.queue)
           D == Told(session.queue)
           e == session.pods[n]
           f == [e EXCEPT !.timer = FALSE]
           s == [session EXCEPT !.pods[n] = f]
<1>1. /\ Here /\ session \in Session /\ Well(session, D) /\ D \subseteq 1..seen /\ e \in Entry
  BY OpenIs, SessionIs
<1>2. [session EXCEPT !.pods[n].timer = FALSE] = s
  BY <1>1 DEF Session
<1>3. /\ e.timer /\ jobTimer' = jobTimer /\ session' = Push(s, t)
      /\ UNCHANGED HandlerVars /\ UNCHANGED await
  BY <1>2 DEF GraceTimerFires, HandlerVars
<1>4. /\ f \in Entry /\ f.state = e.state /\ ~f.timer /\ f.known = e.known
      /\ f.uid = e.uid /\ f.left = e.left /\ f.term = e.term /\ f.run = e.run
      /\ f.request = e.request
  BY <1>1, TimerOffIs
<1>5. t \in Task /\ t.op = "graceExpired" /\ t.name = n /\ t.deltas = <<>> /\ Shaped(t)
      /\ t.notFound = FALSE
  BY NamedTask
<1>6. FitsNow(T, D, session.closed, n, e)
  BY <1>1 DEF Well, WellOff
<1>7. Live /\ e.known /\ ~e.left
  BY <1>3, <1>6 DEF FitsNow, Fits, Sound
<1>8. Puts(session, s, n, f)
  BY <1>1, <1>4, PutIs
<1> HIDE DEF t, f, s, T, D, e
<1>9. TaskInv({t}, Live, target)
  BY <1>5, <1>7 DEF TaskInv
<1>10. FitsNow(T \cup {t}, D, session.closed, n, f)
  <2>1. Sound(T \cup {t}, Live, n, f)
    BY <1>4, <1>6, <1>7 DEF FitsNow, Fits, Sound
  <2>2. session.closed = "no" => Attended(T \cup {t}, n, f)
    BY <1>4, <1>5, <1>6 DEF FitsNow, Fits, Attended
  <2>3. AtLatest(hist, seen, D, n, f)
    BY <1>4, <1>6, <1>7 DEF FitsNow, Fits, Follows, AtLatest, On
  <2>4. n \notin unsure => Leaves(hist, seen, D, n, f)
    BY <1>4, <1>6, <1>7 DEF FitsNow, Fits, Follows, Leaves, On, Shown
  <2>5. target # "pods" => OfWorkload(hist, seen, T \cup {t}, n, f)
    BY <1>4, <1>5, <1>6, <1>7 DEF FitsNow, Fits, Follows, OfWorkload, Shown
  <2>6. target # "pods" /\ n \notin unsure => Listed(hist, seen, D, n, f)
    BY <1>4, <1>6, <1>7 DEF FitsNow, Fits, Follows, Listed, On
  <2> QED
    BY <2>1, <2>2, <2>3, <2>4, <2>5, <2>6 DEF FitsNow, Fits, Follows
<1> QED
  BY <1>3, <1>4, <1>5, <1>8, <1>9, <1>10, PushOpen DEF T, D, e

LEMMA StreamSettlesOpen ==
  ASSUME IsReady, ~disposed, Opened, NEW n \in Names, StreamSettles(n)
  PROVE  Opened' /\ Ends(session, session')
<1> DEFINE T == Range(session.queue)
           D == Told(session.queue)
           e == session.pods[n]
           f == [e EXCEPT !.request = FALSE]
           s == [session EXCEPT !.pods[n] = f]
<1>1. /\ Here /\ session \in Session /\ Well(session, D) /\ D \subseteq 1..seen /\ e \in Entry
  BY OpenIs, SessionIs
<1>2. [session EXCEPT !.pods[n].request = FALSE] = s
  BY <1>1 DEF Session
<1>3. PICK b \in {FALSE, Stored(n) = 0} : session' = Push(s, Do("streamFinished", n, <<>>, b))
  BY <1>2 DEF StreamSettles
<1> DEFINE t == Do("streamFinished", n, <<>>, b)
<1>4. /\ e.request /\ jobTimer' = jobTimer /\ session' = Push(s, t)
      /\ UNCHANGED HandlerVars /\ UNCHANGED await
  BY <1>3 DEF StreamSettles, HandlerVars
<1>5. /\ f \in Entry /\ f.state = e.state /\ f.timer = e.timer /\ f.known = e.known
      /\ f.uid = e.uid /\ f.left = e.left /\ f.term = e.term /\ f.run = e.run
      /\ ~f.request
  BY <1>1, RequestOffIs
<1>6. t \in Task /\ t.op = "streamFinished" /\ t.name = n /\ t.deltas = <<>> /\ Shaped(t)
      /\ t.notFound = b
  <2>1. b \in BOOLEAN
    OBVIOUS
  <2> QED
    BY <2>1, NamedTask
<1>7. FitsNow(T, D, session.closed, n, e)
  BY <1>1 DEF Well, WellOff
<1>8. e.known /\ ~e.left
  BY <1>4, <1>7 DEF FitsNow, Fits, Sound
<1>9. Puts(session, s, n, f)
  BY <1>1, <1>5, PutIs
<1>10. b => Stored(n) = 0
  OBVIOUS
<1> HIDE DEF t, f, s, T, D, e
<1>11. TaskInv({t}, Live, target)
  BY <1>6 DEF TaskInv
<1>12. FitsNow(T \cup {t}, D, session.closed, n, f)
  <2>1. Sound(T \cup {t}, Live, n, f)
    BY <1>5, <1>7, <1>8 DEF FitsNow, Fits, Sound
  <2>2. session.closed = "no" => Attended(T \cup {t}, n, f)
    BY <1>5, <1>6, <1>7 DEF FitsNow, Fits, Attended
  <2>3. Live => AtLatest(hist, seen, D, n, f)
    BY <1>5, <1>7 DEF FitsNow, Fits, Follows, AtLatest, On
  <2>4. Live /\ n \notin unsure => Leaves(hist, seen, D, n, f)
    BY <1>5, <1>7 DEF FitsNow, Fits, Follows, Leaves, On, Shown
  <2>5. ASSUME Live, target # "pods" PROVE OfWorkload(hist, seen, T \cup {t}, n, f)
    <3>1. OfWorkload(hist, seen, T, n, e)
      BY <1>7, <2>5 DEF FitsNow, Fits, Follows
    <3>2. ASSUME b PROVE ~Alive(hist, e.uid)
      <4>1. PICK i \in 1..seen : hist[i].name = n /\ hist[i].uid = e.uid
        BY <1>8, <3>1 DEF OfWorkload, Shown
      <4>2. HistInv(hist) /\ seen \in 0..Len(hist) /\ Len(hist) \in Nat
        BY <1>1, HereIs, CtxIs
      <4>3. i \in 1..Len(hist) /\ Len(hist) \in 0..Len(hist)
        BY <4>2
      <4>4. At(hist, n, Len(hist)) = 0
        BY <1>10, <3>2, StoredIs
      <4> QED
        BY <4>1, <4>2, <4>3, <4>4, NotAlive
    <3> QED
      BY <1>5, <1>6, <1>8, <3>1, <3>2 DEF OfWorkload, Shown
  <2>6. Live /\ target # "pods" /\ n \notin unsure => Listed(hist, seen, D, n, f)
    BY <1>5, <1>7 DEF FitsNow, Fits, Follows, Listed, On
  <2> QED
    BY <2>1, <2>2, <2>3, <2>4, <2>5, <2>6 DEF FitsNow, Fits, Follows
<1> QED
  BY <1>4, <1>5, <1>6, <1>9, <1>11, <1>12, PushOpen DEF T, D, e

-----------------------------------------------------------------------------
(* The watcher delivers                                                    *)

\* What a subscriber told of d is told of, once the cache is at w.
LEMMA BringsAt ==
  ASSUME NEW h, HistInv(h), NEW v \in 0..Len(h), NEW w \in (v + 1)..Len(h), NEW x,
         Brings(h, v, w, x), NEW n \in Names
  PROVE  At(h, n, w) \in Range(x) \cup {0, At(h, n, v)}
BY DEF Brings

\* Of a pod that the cache has shown all deletions are told.
LEMMA BringsGone ==
  ASSUME NEW h, HistInv(h), NEW v \in 0..Len(h), NEW w \in (v + 1)..Len(h), NEW x,
         Brings(h, v, w, x), NEW d, NEW i \in 1..v,
         \A j \in 1..v : h[j].uid = h[i].uid /\ h[j].gone => j \in d
  PROVE  \A j \in 1..w : h[j].uid = h[i].uid /\ h[j].gone => j \in d \cup Range(x)
<1> SUFFICES ASSUME NEW j \in 1..w, h[j].uid = h[i].uid, h[j].gone PROVE j \in d \cup Range(x)
  OBVIOUS
<1>1. v \in Nat /\ w \in Nat /\ v < w
  BY HistDom
<1>2. j \in 1..v \/ j \in (v + 1)..w
  BY <1>1
<1>3. j \in (v + 1)..w => j \in Range(x)
  BY DEF Brings
<1> QED
  BY <1>2, <1>3

LEMMA BringsUp ==
  ASSUME NEW h, HistInv(h), NEW v \in 0..Len(h), NEW w \in (v + 1)..Len(h)
  PROVE  /\ v \in Nat /\ w \in Nat /\ w \in 0..Len(h) /\ v < w
         /\ \A i \in 1..v : i \in 1..w
         /\ \A i \in (v + 1)..w : i \in 1..w /\ i > v
BY HistDom

LEMMA BringsFollow ==
  ASSUME NEW h, HistInv(h), NEW v \in 0..Len(h), NEW w \in (v + 1)..Len(h), NEW x,
         Brings(h, v, w, x), NEW d, d \subseteq 1..v, Follow(h, v, d)
  PROVE  Follow(h, w, d \cup Range(x))
<1>1. v \in Nat /\ w \in Nat /\ w \in 0..Len(h) /\ v < w
  BY BringsUp
<1>2. h \in Seq(Pod) /\ \A i \in 1..Len(h) : h[i].name \in Names
  <2>1. h \in Seq(Pod)
    BY DEF HistInv
  <2>2. \A i \in 1..Len(h) : h[i] \in Pod
    BY <2>1
  <2> QED
    BY <2>1, <2>2 DEF Pod
<1>3. ASSUME NEW i \in d, ~h[i].gone
      PROVE  /\ \A j \in 1..w : h[j].uid = h[i].uid /\ h[j].gone => j \in d \cup Range(x)
             /\ At(h, h[i].name, w) \in d \cup Range(x) \cup {0}
  <2>1. /\ \A j \in 1..v : h[j].uid = h[i].uid /\ h[j].gone => j \in d
        /\ At(h, h[i].name, v) \in d \cup {0}
    BY <1>3 DEF Follow
  <2>2. i \in 1..v /\ h[i].name \in Names
    BY <1>1, <1>2
  <2>3. At(h, h[i].name, w) \in Range(x) \cup {0, At(h, h[i].name, v)}
    BY <2>2, BringsAt
  <2>4. \A j \in 1..w : h[j].uid = h[i].uid /\ h[j].gone => j \in d \cup Range(x)
    BY <2>1, <2>2, BringsGone
  <2> QED
    BY <2>1, <2>3, <2>4
<1>4. ASSUME NEW i \in Range(x), ~h[i].gone
      PROVE  /\ \A j \in 1..w : h[j].uid = h[i].uid /\ h[j].gone => j \in d \cup Range(x)
             /\ At(h, h[i].name, w) \in d \cup Range(x) \cup {0}
  <2>1. i \in (v + 1)..w
    BY DEF Brings
  <2>2. i \in 1..w /\ i \in 1..Len(h) /\ i \in Nat /\ i > v /\ h[i].name \in Names
    BY <1>1, <1>2, <2>1
  <2>3. ASSUME NEW j \in 1..w, h[j].uid = h[i].uid, h[j].gone PROVE j \in Range(x)
    <3>1. i \in DOMAIN h /\ j \in DOMAIN h /\ j \in Nat
      BY <1>1, <2>2, HistDom
    <3>2. ~(j < i)
      BY <2>3, <3>1 DEF HistInv
    <3>3. j \in (v + 1)..w
      BY <1>1, <2>2, <3>1, <3>2
    <3> QED
      BY <1>4, <2>3, <3>3 DEF Brings
  <2>4. At(h, h[i].name, w) \in Range(x) \cup {0, At(h, h[i].name, v)}
    BY <2>2, BringsAt
  <2>5. At(h, h[i].name, w) = 0 \/ At(h, h[i].name, w) >= i
    BY <1>1, <2>2, AtIs
  <2>6. At(h, h[i].name, v) \in 0..v
    BY <1>1, AtIs
  <2>7. At(h, h[i].name, w) \in Range(x) \cup {0}
    BY <1>1, <2>2, <2>4, <2>5, <2>6
  <2> QED
    BY <2>3, <2>7
<1> QED
  BY <1>3, <1>4 DEF Follow

LEMMA BringsFits ==
  ASSUME NEW h, HistInv(h), NEW v \in 0..Len(h), NEW w \in (v + 1)..Len(h), NEW x,
         Brings(h, v, w, x), NEW n \in Names, NEW e, NEW T, NEW U, NEW d,
         \A t : t.name = n => (t \in T <=> t \in U), NEW closed, NEW live_, NEW work, NEW sure,
         Fits(h, v, T, d, closed, live_, work, sure, n, e)
  PROVE  Fits(h, w, U, d \cup Range(x), closed, live_, work, sure, n, e)
<1> DEFINE f == d \cup Range(x)
<1>1. /\ v \in Nat /\ w \in Nat /\ v < w
      /\ \A i \in 1..v : i \in 1..w
  BY BringsUp
<1>2. At(h, n, w) \in Range(x) \cup {0, At(h, n, v)}
  BY BringsAt
<1>3. Shown(h, v, n, e) => Shown(h, w, n, e)
  BY <1>1 DEF Shown
<1>4. Sound(U, live_, n, e)
  BY DEF Fits, Sound
<1>5. closed = "no" => Attended(U, n, e)
  BY DEF Fits, Attended
<1>6. AtLatest(h, v, d, n, e) => AtLatest(h, w, f, n, e)
  BY <1>2 DEF AtLatest
<1>7. ASSUME Leaves(h, v, d, n, e) PROVE Leaves(h, w, f, n, e)
  <2> SUFFICES ASSUME On(e) PROVE Shown(h, w, n, e) /\
                 \A j \in 1..w : h[j].uid = e.uid /\ h[j].gone => j \in f
    BY DEF Leaves
  <2>1. Shown(h, v, n, e) /\ \A j \in 1..v : h[j].uid = e.uid /\ h[j].gone => j \in d
    BY <1>7 DEF Leaves
  <2>2. PICK i \in 1..v : h[i].name = n /\ h[i].uid = e.uid
    BY <2>1 DEF Shown
  <2>3. \A j \in 1..w : h[j].uid = h[i].uid /\ h[j].gone => j \in f
    BY <2>1, <2>2, BringsGone
  <2> QED
    BY <1>3, <2>1, <2>2, <2>3
<1>8. OfWorkload(h, v, T, n, e) => OfWorkload(h, w, U, n, e)
  BY <1>1, <1>3 DEF OfWorkload
<1>9. Listed(h, v, d, n, e) => Listed(h, w, f, n, e)
  BY <1>2 DEF Listed
<1> HIDE DEF f
<1>10. live_ => Follows(h, w, U, f, work, sure, n, e)
  BY <1>6, <1>7, <1>8, <1>9 DEF Fits, Follows
<1> QED
  BY <1>4, <1>5, <1>10 DEF Fits, f

LEMMA BringsRipe ==
  ASSUME NEW h, HistInv(h), NEW v \in 0..Len(h), NEW w \in (v + 1)..Len(h), NEW x,
         Brings(h, v, w, x), NEW d, NEW pods, Ripe(h, w, d \cup Range(x), pods)
  PROVE  Ripe(h, v, d, pods)
<1> SUFFICES ASSUME NEW n \in Names, On(pods[n])
             PROVE  /\ pods[n].state = "ended"
                    /\ At(h, n, v) # 0 /\ h[At(h, n, v)].fin /\ At(h, n, v) \notin d
  BY DEF Ripe
<1>1. /\ pods[n].state = "ended"
      /\ At(h, n, w) # 0 /\ h[At(h, n, w)].fin /\ At(h, n, w) \notin d \cup Range(x)
  BY DEF Ripe
<1>2. At(h, n, w) = At(h, n, v)
  BY <1>1, BringsAt
<1> QED
  BY <1>1, <1>2

LEMMA BringsFound ==
  ASSUME NEW h, HistInv(h), NEW v \in 0..Len(h), NEW w \in (v + 1)..Len(h), NEW x,
         Brings(h, v, w, x), NEW d, NEW n, NEW g, Found(h, v, d, n, g)
  PROVE  Found(h, w, d \cup Range(x), n, g)
BY BringsGone, BringsUp DEF Found

LEMMA BringsLoad ==
  ASSUME NEW h, HistInv(h), NEW v \in 0..Len(h), NEW w \in (v + 1)..Len(h), NEW x,
         Brings(h, v, w, x), NEW d, NEW T, NEW N, NEW G, NEW M, NEW U, LoadInv(h, v, d, T, N, G, M, U)
  PROVE  LoadInv(h, w, d \cup Range(x), T, N, G, M, U)
<1> DEFINE f == d \cup Range(x)
<1> SUFFICES ASSUME NEW n \in Names
             PROVE  /\ T = "pods" => FoundPod(h, w, f, n, G[n], n \in N, n \notin U, n \in M)
                    /\ T = "deployment" => FoundMatch(h, w, f, n, G[n], n \notin U)
  BY DEF LoadInv
<1>1. /\ T = "pods" => FoundPod(h, v, d, n, G[n], n \in N, n \notin U, n \in M)
      /\ T = "deployment" => FoundMatch(h, v, d, n, G[n], n \notin U)
  BY DEF LoadInv
<1>2. At(h, n, w) \in Range(x) \cup {0, At(h, n, v)}
  BY BringsAt
<1>3. \A g : Found(h, v, d, n, g) => Found(h, w, f, n, g)
  BY BringsFound
<1> HIDE DEF f
<1>4. Range(x) \subseteq f /\ d \subseteq f
  BY DEF f
<1> QED
  BY <1>1, <1>2, <1>3, <1>4 DEF FoundPod, FoundMatch

\* What the session is told of a delivery x.
LEMMA DeliverTold ==
  ASSUME TypeOK, Basics, Deliver
  PROVE  \E w \in (seen + 1)..Len(hist) : \E x :
           /\ Brings(hist, seen, w, x) /\ seen' = w
           /\ ~(stage = "started" /\ Live) => session' = session
           /\ stage = "started" /\ Live =>
                /\ Told(session'.queue) = Told(session.queue) \cup Range(x)
                /\ Aside(session, session') /\ session'.pods = session.pods
                /\ Range(session.queue) \subseteq Range(session'.queue)
                /\ \A t \in Range(session'.queue) :
                     t \in Range(session.queue) \/ (t.op = "deltas" /\ t.name = 0)
                /\ session.queue # <<>> => Head(session'.queue) = Head(session.queue)
<1>1. Ctx /\ HistInv(hist) /\ session \in Session /\ session.queue \in Seq(Task)
      /\ QueueShape(hist, seen, session.queue)
  BY BasicsCtx, CtxIs DEF Basics
<1>2. PICK w \in (seen + 1)..Len(hist) : \E d :
        /\ Brings(hist, seen, w, d) /\ seen' = w
        /\ session' = IF subscribed /\ d # <<>> THEN Push(session, DeltasTask(d)) ELSE session
  BY <1>1, DeliverIs
<1>3. PICK x : /\ Brings(hist, seen, w, x) /\ seen' = w
               /\ session' = IF subscribed /\ x # <<>> THEN Push(session, DeltasTask(x)) ELSE session
  BY <1>2
<1>4. subscribed <=> stage = "started" /\ Live
  <2>1. stage = "started" => subscribed = Live
    BY DEF Basics
  <2>2. stage # "started" => ~subscribed
    BY DEF Basics, Before
  <2> QED
    BY <2>1, <2>2
<1>5. ASSUME subscribed, x # <<>>
      PROVE  /\ Told(session'.queue) = Told(session.queue) \cup Range(x)
             /\ Aside(session, session') /\ session'.pods = session.pods
             /\ Range(session.queue) \subseteq Range(session'.queue)
             /\ \A t \in Range(session'.queue) :
                  t \in Range(session.queue) \/ (t.op = "deltas" /\ t.name = 0)
             /\ session.queue # <<>> => Head(session'.queue) = Head(session.queue)
  <2> DEFINE t == DeltasTask(x)
  <2>1. t \in Task /\ t.op = "deltas" /\ t.name = 0
    BY <1>3, <1>5, DeltasTaskIs DEF Brings
  <2>2. seen \in Nat /\ w \in Nat /\ seen < w
    BY <1>1, CtxIs
  <2> HIDE DEF t
  <2>3. session' = Push(session, t)
    BY <1>3, <1>5 DEF t
  <2>4. /\ Aside(session, session') /\ session'.queue = Append(session.queue, t)
        /\ session'.pods = session.pods
    BY <1>1, <2>1, <2>3, PushIs
  <2>5. /\ Told(Append(session.queue, t)) = Told(session.queue) \cup Range(x)
        /\ Range(Append(session.queue, t)) = Range(session.queue) \cup {t}
        /\ session.queue # <<>> => Head(Append(session.queue, t)) = Head(session.queue)
    BY <1>1, <1>3, <1>5, <2>2, DeliverQ DEF t
  <2> QED
    BY <2>1, <2>4, <2>5
<1>6. ASSUME subscribed, x = <<>>
      PROVE  /\ Told(session'.queue) = Told(session.queue) \cup Range(x)
             /\ Aside(session, session') /\ session' = session
  <2>1. Range(x) = {}
    BY <1>6, NoDeltas
  <2> QED
    BY <1>3, <1>6, <2>1 DEF Aside
<1>7. ~subscribed => session' = session
  BY <1>3
<1> QED
  BY <1>3, <1>4, <1>5, <1>6, <1>7

LEMMA NothingTold ==
  ASSUME NEW h, NEW v
  PROVE  Follow(h, v, {})
BY DEF Follow

\* Without a watcher nothing is told.
LEMMA DeafTold ==
  ASSUME IsReady, ~disposed, Opened, ~Live
  PROVE  Told(session.queue) = {}
<1>1. TaskInv(Range(session.queue), Live, target)
  BY OpenIs DEF RunInv
<1>2. \A t \in Range(session.queue) : Shaped(t)
  BY ReadyCtx
<1>3. \A t \in Range(session.queue) : Range(t.deltas) = {}
  BY <1>1, <1>2, NoDeltas DEF TaskInv, Shaped
<1> QED
  BY <1>3 DEF Told

LEMMA DeliverRun ==
  ASSUME IsReady, ~disposed, Opened, Live, NEW w \in (seen + 1)..Len(hist), NEW x,
         Brings(hist, seen, w, x), NEW s,
         Told(s.queue) = Told(session.queue) \cup Range(x),
         Aside(session, s) /\ s.pods = session.pods,
         Range(session.queue) \subseteq Range(s.queue),
         \A t \in Range(s.queue) :
           t \in Range(session.queue) \/ (t.op = "deltas" /\ t.name = 0),
         session.queue # <<>> => Head(s.queue) = Head(session.queue)
  PROVE  RunInv(hist, w, s, await, Live, target, unsure, jobTimer)
<1> DEFINE D == Told(session.queue)
           f == D \cup Range(x)
           T == Range(session.queue)
           U == Range(s.queue)
<1>1. /\ Here /\ D \subseteq 1..seen
      /\ RunInv(hist, seen, session, await, Live, target, unsure, jobTimer)
  BY OpenIs
<1>2. HistInv(hist) /\ seen \in 0..Len(hist)
  BY <1>1, HereIs
<1>3. /\ s.ready = session.ready /\ s.finishing = session.finishing
      /\ s.closed = session.closed /\ s.jobChecks = session.jobChecks
  BY DEF Aside
<1> HIDE DEF D, T, U
<1>4. await = "match" =>
        /\ target = "deployment"
        /\ LET o == Head(Head(s.queue).deltas) IN
             ~hist[o].gone /\ ~hist[o].term /\ ~s.pods[hist[o].name].known
  <2> SUFFICES ASSUME await = "match"
               PROVE  /\ target = "deployment"
                      /\ LET o == Head(Head(s.queue).deltas) IN
                           ~hist[o].gone /\ ~hist[o].term /\ ~s.pods[hist[o].name].known
    OBVIOUS
  <2>1. session.queue # <<>>
    BY DEF IsReady, Basics, Ready
  <2> QED
    BY <1>1, <2>1 DEF RunInv
<1>5. TaskInv(U, Live, target)
  BY <1>1 DEF RunInv, TaskInv, T, U
<1>6. FitInv(hist, w, s, f, Live, target, unsure)
  <2> SUFFICES ASSUME NEW n \in Names
               PROVE  Fits(hist, w, U, f, s.closed, Live, target # "pods", n \notin unsure, n,
                           s.pods[n])
    BY DEF FitInv, U
  <2>1. \A t : t.name = n => (t \in T <=> t \in U)
    BY Bounds DEF T, U
  <2>2. Fits(hist, seen, T, D, s.closed, Live, target # "pods", n \notin unsure, n, s.pods[n])
    BY <1>1, <1>3 DEF RunInv, FitInv, T, D
  <2> QED
    BY <1>2, <2>1, <2>2, BringsFits
<1>7. DueInv(hist, w, s, f, Live, target, jobTimer)
  <2>1. Ripe(hist, w, f, s.pods) => Ripe(hist, seen, D, session.pods)
    BY <1>2, BringsRipe
  <2>2. Rechecks(T, jobTimer, session.jobChecks) => Rechecks(U, jobTimer, session.jobChecks)
    BY DEF Rechecks, T, U
  <2> QED
    BY <1>1, <1>3, <2>1, <2>2 DEF RunInv, DueInv, T, U, D
<1>8. (jobTimer => Live /\ target = "job") /\ (s.finishing => s.closed # "no")
  BY <1>1, <1>3 DEF RunInv
<1> QED
  BY <1>4, <1>5, <1>6, <1>7, <1>8 DEF RunInv, D, U

LEMMA DeliverOpen ==
  ASSUME TypeOK, Basics, ~disposed, Opened, Deliver
  PROVE  Opened' /\ Ends(session, session')
<1> DEFINE D == Told(session.queue)
<1>1. Ctx /\ HistInv(hist) /\ seen \in 0..Len(hist) /\ D \subseteq 1..seen
  BY BasicsCtx, CtxIs DEF Basics, QueueShape, OrderInv
<1>2. PICK w \in (seen + 1)..Len(hist) : \E x :
           /\ Brings(hist, seen, w, x) /\ seen' = w
           /\ ~(stage = "started" /\ Live) => session' = session
           /\ stage = "started" /\ Live =>
                /\ Told(session'.queue) = Told(session.queue) \cup Range(x)
                /\ Aside(session, session') /\ session'.pods = session.pods
                /\ Range(session.queue) \subseteq Range(session'.queue)
                /\ \A t \in Range(session'.queue) :
                     t \in Range(session.queue) \/ (t.op = "deltas" /\ t.name = 0)
                /\ session.queue # <<>> => Head(session'.queue) = Head(session.queue)
  BY DeliverTold
<1>3. PICK x :
           /\ Brings(hist, seen, w, x) /\ seen' = w
           /\ ~(stage = "started" /\ Live) => session' = session
           /\ stage = "started" /\ Live =>
                /\ Told(session'.queue) = Told(session.queue) \cup Range(x)
                /\ Aside(session, session') /\ session'.pods = session.pods
                /\ Range(session.queue) \subseteq Range(session'.queue)
                /\ \A t \in Range(session'.queue) :
                     t \in Range(session.queue) \/ (t.op = "deltas" /\ t.name = 0)
                /\ session.queue # <<>> => Head(session'.queue) = Head(session.queue)
  BY <1>2
<1>4. UNCHANGED <<hist, start, loading, disposed, jobTimer, await, unsure>>
  BY DEF Deliver
<1>5. Live' = Live /\ target' = target /\ stage' = stage
  BY <1>4 DEF start, Live
<1>6. Follow(hist, seen, D)
  BY DEF Opened
<1>7. session'.finishing = session.finishing /\ session'.ready = session.ready
  BY <1>3 DEF Aside
<1> HIDE DEF D
<1>8. CASE stage # "started"
  <2>1. session' = session /\ session.queue = <<>>
    BY <1>3, <1>8 DEF Basics, Before
  <2>2. Told(session'.queue) = {}
    BY <2>1, NoDeltas
  <2> QED
    BY <1>5, <1>7, <1>8, <2>2, NothingTold DEF Opened, Ends
<1>9. CASE stage = "started" /\ ~Live
  <2>1. session' = session
    BY <1>3, <1>9
  <2>2. D = {}
    <3>1. CASE session.ready
      BY <1>9, <3>1, DeafTold DEF IsReady, D
    <3>2. CASE ~session.ready
      BY <1>9, <3>2 DEF Opened, D
    <3> QED
      BY <3>1, <3>2
  <2>3. Told(session'.queue) = {}
    BY <2>1, <2>2 DEF D
  <2>4. ASSUME session.ready
        PROVE  RunInv(hist, w, session, await, Live, target, unsure, jobTimer)
    <3>1. RunInv(hist, seen, session, await, Live, target, unsure, jobTimer)
      BY <1>9, <2>4 DEF Opened
    <3>2. FitInv(hist, w, session, D, Live, target, unsure)
      BY <1>9, <3>1 DEF RunInv, FitInv, Fits, D
    <3>3. DueInv(hist, w, session, D, Live, target, jobTimer)
      BY <1>9, <3>1 DEF RunInv, DueInv, D
    <3> QED
      BY <3>1, <3>2, <3>3 DEF RunInv, D
  <2>5. session.ready => RunInv(hist', seen', session', await', Live', target', unsure', jobTimer')
    BY <1>3, <1>4, <1>5, <2>1, <2>4
  <2>6. Follow(hist', seen', Told(session'.queue))
    BY <2>3, NothingTold
  <2>7. Opened'
    BY <1>5, <1>7, <1>9, <2>3, <2>5, <2>6 DEF Opened
  <2> QED
    BY <1>7, <2>7 DEF Ends
<1>10. CASE stage = "started" /\ Live
  <2>1. Told(session'.queue) = D \cup Range(x)
    BY <1>3, <1>10 DEF D
  <2>2. Follow(hist, w, D \cup Range(x))
    BY <1>1, <1>3, <1>6, BringsFollow
  <2>3. Follow(hist', seen', Told(session'.queue))
    BY <1>3, <1>4, <2>1, <2>2
  <2>4. ASSUME session.ready
        PROVE  RunInv(hist, w, session', await, Live, target, unsure, jobTimer)
    <3>1. IsReady
      BY <1>10, <2>4 DEF IsReady
    <3> QED
      BY <1>3, <1>10, <3>1, DeliverRun
  <2>5. session.ready => RunInv(hist', seen', session', await', Live', target', unsure', jobTimer')
    BY <1>3, <1>4, <1>5, <2>4
  <2>6. ASSUME ~session.ready, await # ""
        PROVE  LoadInv(hist, w, D \cup Range(x), target, need, got, missing, unsure)
    <3>1. LoadInv(hist, seen, D, target, need, got, missing, unsure)
      BY <1>10, <2>6 DEF Opened, D
    <3> QED
      BY <1>1, <1>3, <3>1, BringsLoad
  <2>7. ~session.ready /\ await' # "" =>
          LoadInv(hist', seen', Told(session'.queue), target', need', got', missing', unsure')
    BY <1>3, <1>4, <1>5, <2>1, <2>6 DEF loading
  <2>8. Opened'
    BY <1>5, <1>7, <1>10, <2>3, <2>5, <2>7 DEF Opened
  <2> QED
    BY <1>7, <2>8 DEF Ends
<1> QED
  BY <1>8, <1>9, <1>10

-----------------------------------------------------------------------------
(* The history goes on, and the cache does not                             *)

\* g goes on from h, of which v is seen.
GoesOn(h, g, v) ==
  /\ v \in Nat
  /\ \A i \in 1..v : g[i] = h[i]
  /\ \A n : At(g, n, v) = At(h, n, v)
  /\ \A u : Alive(g, u) => Alive(h, u)

LEMMA GrownGoesOn ==
  ASSUME NEW h, NEW g, HistInv(h), Grown(h, g), NEW v \in 0..Len(h)
  PROVE  GoesOn(h, g, v)
<1>1. /\ v \in Nat /\ DOMAIN h = 1..Len(h) /\ Len(h) \in Nat /\ v <= Len(h)
      /\ Len(g) = Len(h) + 1 /\ HistInv(g)
  BY HistDom DEF Grown
<1>2. DOMAIN g = 1..Len(g)
  <2>1. g \in Seq(Pod)
    BY <1>1 DEF HistInv
  <2> QED
    BY <2>1, LenProperties
<1>3. \A i \in 1..v : g[i] = h[i]
  BY <1>1 DEF Grown
<1>4. ASSUME NEW n PROVE At(g, n, v) = At(h, n, v)
  <2>1. \A i \in (v + 1)..v : g[i].name # n
    BY <1>1
  <2>2. v <= v
    BY <1>1
  <2> QED
    BY <1>1, <1>3, <2>1, <2>2, AtKept
<1>5. ASSUME NEW u, Alive(g, u) PROVE Alive(h, u)
  <2> SUFFICES ASSUME NEW i \in DOMAIN h, h[i].uid = u PROVE ~h[i].gone
    BY DEF Alive
  <2>1. i \in 1..Len(h) /\ i \in DOMAIN g
    BY <1>1, <1>2
  <2>2. g[i] = h[i]
    BY <2>1 DEF Grown
  <2> QED
    BY <1>5, <2>1, <2>2 DEF Alive
<1> QED
  BY <1>1, <1>3, <1>4, <1>5 DEF GoesOn

LEMMA AtUpTo ==
  ASSUME NEW h, NEW n, NEW v \in Nat
  PROVE  At(h, n, v) = 0 \/ At(h, n, v) \in 1..v
BY AtIs

LEMMA FollowGoesOn ==
  ASSUME NEW h, NEW g, NEW v, GoesOn(h, g, v), NEW d, d \subseteq 1..v, Follow(h, v, d)
  PROVE  Follow(g, v, d)
BY DEF Follow, GoesOn

LEMMA FitsGoesOn ==
  ASSUME NEW h, NEW g, NEW v, GoesOn(h, g, v), NEW T, NEW d, NEW closed, NEW live_, NEW work,
         NEW sure, NEW n, NEW e, Fits(h, v, T, d, closed, live_, work, sure, n, e)
  PROVE  Fits(g, v, T, d, closed, live_, work, sure, n, e)
<1> DEFINE o == At(h, n, v)
<1>1. /\ \A i \in 1..v : g[i] = h[i]
      /\ At(g, n, v) = o /\ (o = 0 \/ o \in 1..v)
      /\ \A u : Alive(g, u) => Alive(h, u)
  BY AtUpTo DEF GoesOn
<1>2. AtLatest(h, v, d, n, e) => AtLatest(g, v, d, n, e)
  BY <1>1 DEF AtLatest
<1>3. Shown(h, v, n, e) => Shown(g, v, n, e)
  BY <1>1 DEF Shown
<1>4. Leaves(h, v, d, n, e) => Leaves(g, v, d, n, e)
  BY <1>1, <1>3 DEF Leaves
<1>5. OfWorkload(h, v, T, n, e) => OfWorkload(g, v, T, n, e)
  BY <1>1, <1>3 DEF OfWorkload
<1>6. Listed(h, v, d, n, e) => Listed(g, v, d, n, e)
  BY <1>1 DEF Listed
<1> QED
  BY <1>2, <1>4, <1>5, <1>6 DEF Fits, Follows

LEMMA RipeGoesOn ==
  ASSUME NEW h, NEW g, NEW v, GoesOn(h, g, v), NEW d, NEW pods, Ripe(g, v, d, pods)
  PROVE  Ripe(h, v, d, pods)
<1> SUFFICES ASSUME NEW n \in Names, On(pods[n])
             PROVE  /\ pods[n].state = "ended"
                    /\ At(h, n, v) # 0 /\ h[At(h, n, v)].fin /\ At(h, n, v) \notin d
  BY DEF Ripe
<1>1. /\ pods[n].state = "ended"
      /\ At(g, n, v) # 0 /\ g[At(g, n, v)].fin /\ At(g, n, v) \notin d
  BY DEF Ripe
<1>2. /\ \A i \in 1..v : g[i] = h[i]
      /\ At(g, n, v) = At(h, n, v) /\ (At(h, n, v) = 0 \/ At(h, n, v) \in 1..v)
  BY AtUpTo DEF GoesOn
<1> QED
  BY <1>1, <1>2

LEMMA LoadGoesOn ==
  ASSUME NEW h, NEW g, NEW v, GoesOn(h, g, v), NEW d, NEW T, NEW N, NEW G, NEW M, NEW U,
         LoadInv(h, v, d, T, N, G, M, U)
  PROVE  LoadInv(g, v, d, T, N, G, M, U)
<1> SUFFICES ASSUME NEW n \in Names
             PROVE  /\ T = "pods" => FoundPod(g, v, d, n, G[n], n \in N, n \notin U, n \in M)
                    /\ T = "deployment" => FoundMatch(g, v, d, n, G[n], n \notin U)
  BY DEF LoadInv
<1>1. /\ T = "pods" => FoundPod(h, v, d, n, G[n], n \in N, n \notin U, n \in M)
      /\ T = "deployment" => FoundMatch(h, v, d, n, G[n], n \notin U)
  BY DEF LoadInv
<1>2. (\A i \in 1..v : g[i] = h[i]) /\ At(g, n, v) = At(h, n, v)
  BY DEF GoesOn
<1>3. ASSUME NEW x, Found(h, v, d, n, x) PROVE Found(g, v, d, n, x)
  BY <1>2, <1>3 DEF Found
<1> QED
  BY <1>1, <1>2, <1>3 DEF FoundPod, FoundMatch

LEMMA PodsChangeOpen ==
  ASSUME TypeOK, Basics, ~disposed, Opened, PodsChange
  PROVE  Opened' /\ Ends(session, session')
<1> DEFINE D == Told(session.queue)
<1>1. Ctx /\ HistInv(hist) /\ seen \in 0..Len(hist) /\ D \subseteq 1..seen
  BY BasicsCtx, CtxIs DEF Basics, QueueShape, OrderInv
<1>2. /\ UNCHANGED <<start, job, loading, disposed, jobTimer, await, unsure, session, faults>>
      /\ PodStep
  BY DEF PodsChange
<1>3. Grown(hist, hist') /\ seen' = seen
  BY <1>1, <1>2, PodStepGrows
<1>4. GoesOn(hist, hist', seen)
  BY <1>1, <1>3, GrownGoesOn
<1>5. Live' = Live /\ target' = target /\ stage' = stage /\ session' = session
      /\ need' = need /\ got' = got /\ missing' = missing /\ unsure' = unsure
      /\ await' = await /\ jobTimer' = jobTimer
  BY <1>2 DEF start, loading, Live
<1>6. Follow(hist', seen, D)
  BY <1>1, <1>4, FollowGoesOn DEF Opened
<1>7. stage = "started" /\ ~session.ready /\ ~Live => D = {}
  BY DEF Opened
<1>8. ASSUME stage = "started", ~session.ready, await # "", Live
      PROVE  LoadInv(hist', seen, D, target, need, got, missing, unsure)
  <2>1. LoadInv(hist, seen, D, target, need, got, missing, unsure)
    BY <1>8 DEF Opened
  <2> QED
    BY <1>4, <2>1, LoadGoesOn
<1>9. ASSUME stage = "started", session.ready
      PROVE  RunInv(hist', seen, session, await, Live, target, unsure, jobTimer)
  <2>1. RunInv(hist, seen, session, await, Live, target, unsure, jobTimer)
    BY <1>9 DEF Opened
  <2>2. ASSUME await = "match"
        PROVE  /\ target = "deployment"
               /\ LET o == Head(Head(session.queue).deltas) IN
                    ~hist'[o].gone /\ ~hist'[o].term /\ ~session.pods[hist'[o].name].known
    <3>1. session.queue # <<>> /\ Head(session.queue).op = "deltas" /\ IsReady
      BY <1>9, <2>2 DEF IsReady, Basics, Ready
    <3>2. Head(Head(session.queue).deltas) \in 1..seen
      BY <3>1, HeadDelta
    <3>3. hist'[Head(Head(session.queue).deltas)] = hist[Head(Head(session.queue).deltas)]
      BY <1>4, <3>2 DEF GoesOn
    <3> QED
      BY <2>1, <2>2, <3>3 DEF RunInv
  <2>3. FitInv(hist', seen, session, D, Live, target, unsure)
    <3>1. FitInv(hist, seen, session, D, Live, target, unsure)
      BY <2>1 DEF RunInv
    <3> QED
      BY <1>4, <3>1, FitsGoesOn DEF FitInv
  <2>4. DueInv(hist', seen, session, D, Live, target, jobTimer)
    <3>1. DueInv(hist, seen, session, D, Live, target, jobTimer)
      BY <2>1 DEF RunInv
    <3>2. Ripe(hist', seen, D, session.pods) => Ripe(hist, seen, D, session.pods)
      BY <1>4, RipeGoesOn
    <3> QED
      BY <3>1, <3>2 DEF DueInv
  <2> QED
    BY <2>1, <2>2, <2>3, <2>4 DEF RunInv
<1>10. Opened'
  BY <1>3, <1>5, <1>6, <1>7, <1>8, <1>9 DEF Opened
<1> QED
  BY <1>5, <1>10, SelfEnds

-----------------------------------------------------------------------------
(* The initial load                                                        *)

LEMMA JobFinishesOpen ==
  ASSUME Opened, JobFinishes
  PROVE  Opened' /\ Ends(session, session')
BY SelfEnds DEF JobFinishes, Opened, podVars, start, loading, Live

\* Before it starts, a session has been told nothing.
LEMMA UntoldOpen ==
  ASSUME Told(session'.queue) = {}, ~session'.ready, stage' # "started" \/ await' = ""
  PROVE  Opened'
BY NothingTold DEF Opened

LEMMA BeforeTold ==
  ASSUME Basics, stage # "started"
  PROVE  /\ Told(session.queue) = {} /\ ~session.ready /\ ~session.finishing /\ await = ""
BY NoDeltas DEF Basics, Before

LEMMA FeedAnswersOpen ==
  ASSUME TypeOK, Basics, ~disposed, FeedAnswers
  PROVE  Opened' /\ Ends(session, session')
<1>1. stage # "started"
  BY DEF FeedAnswers
<1>2. Told(session.queue) = {} /\ ~session.ready /\ ~session.finishing /\ await = ""
  BY <1>1, BeforeTold
<1>3. Begin => Told(session'.queue) = {} /\ ~session'.ready /\ ~session'.finishing
  BY <1>1, BegunBase DEF Loading
<1>4. /\ await' = await
      /\ Begin \/ (stage' # "started" /\ session' = session)
  BY DEF FeedAnswers
<1> QED
  BY <1>2, <1>3, <1>4, UntoldOpen DEF Ends

LEMMA TargetAnswersOpen ==
  ASSUME TypeOK, Basics, ~disposed, TargetAnswers
  PROVE  Opened' /\ Ends(session, session')
<1>1. stage # "started"
  BY DEF TargetAnswers
<1>2. await = ""
  BY <1>1, BeforeTold
<1>3. Begin /\ await' = await
  BY DEF TargetAnswers
<1>4. Told(session'.queue) = {} /\ ~session'.ready /\ ~session'.finishing
  BY <1>1, <1>3, BegunBase DEF Loading
<1> QED
  BY <1>2, <1>3, <1>4, UntoldOpen DEF Ends

LEMMA StartFailsOpen ==
  ASSUME TypeOK, Basics, StartFails
  PROVE  Opened' /\ Ends(session, session')
<1>1. stage # "started"
  BY DEF StartFails
<1>2. Told(session.queue) = {} /\ ~session.ready /\ ~session.finishing /\ session \in Session
  BY <1>1, BeforeTold DEF TypeOK
<1>3. PICK how \in {"over", "retry"} : Returns(how)
  BY DEF StartFails
<1>4. stage' = "returned" /\ session' = Close(session, how)
  BY <1>3 DEF Returns
<1>5. /\ session'.queue = session.queue /\ session'.ready = session.ready
      /\ session'.finishing = session.finishing
  BY <1>2, <1>4, CloseIs
<1> QED
  BY <1>2, <1>4, <1>5, UntoldOpen DEF Ends

\* Of n the load has what it needs.
LoadedRight(found, absent, U, D, n) ==
  LET g == found[n]
      o == At(hist, n, seen)
  IN /\ target = "pods" /\ n \notin absent =>
          o \in D \cup {0, g} /\ (n \notin U => Found(hist, seen, D, n, g))
     /\ target # "pods" =>
          /\ g # 0 => Found(hist, seen, D, n, g) /\ o \in D \cup {0, g}
          /\ g = 0 => o \in D \cup {0} \/ n \in U

\* Nothing is known of the pod.
LEMMA AddedUnsure ==
  ASSUME Here, Live, NEW n \in Names, NEW o \in 0..Len(hist), NEW T, \A t \in T : t.name # n,
         NEW closed, NEW d, At(hist, n, seen) \in d \cup {0, o}
  PROVE  Fits(hist, seen, T, d, closed, Live, FALSE, FALSE, n, Added(o))
<1> DEFINE a == Added(o)
<1>1. /\ Sound(T, Live, n, a) /\ Attended(T, n, a)
      /\ \/ a.state = "streaming"
         \/ RunId(o) \in {0, a.run} /\ (a.state = "waiting" => Waiting(o))
  BY AddedSteps
<1> HIDE DEF a
<1>2. AtLatest(hist, seen, d, n, a)
  BY <1>1, AtLatestIs
<1> QED
  BY <1>1, <1>2 DEF Fits, Follows, a

\* Without a watcher every pod is streamed as it is.
LEMMA AddedDeaf ==
  ASSUME Here, ~Live, NEW n \in Names, NEW o \in 0..Len(hist), NEW T, NEW closed, NEW v, NEW d,
         NEW work, NEW sure
  PROVE  Fits(hist, v, T, d, closed, Live, work, sure, n, Added(o))
<1> DEFINE e == [Unknown EXCEPT !.known = TRUE, !.state = "pending",
                    !.uid = IF o = 0 THEN 0 ELSE hist[o].uid, !.term = Terminating(o)]
           a == Advance(e, o)
<1>1. /\ e \in Entry /\ Added(o) = a /\ e.known /\ e.state = "pending" /\ e.run = 0 /\ ~e.left
      /\ ~e.timer /\ ~e.request
  BY HereIs, AddedIs
<1> HIDE DEF e
<1>2. Advanced(e, o, a)
  BY <1>1, HereIs, AdvanceIs
<1> HIDE DEF a
<1>3. a = StartStream(e, 0)
  BY <1>1, <1>2 DEF Advanced
<1>4. 0 \in 0..MaxVersions
  BY Bounds
<1>5. a.state = "streaming" /\ ~a.timer /\ a.known /\ ~a.left /\ a.request
  BY <1>1, <1>3, <1>4, StartStreamIs
<1> QED
  BY <1>1, <1>5 DEF Fits, Sound, Attended

LEMMA LoadedFits ==
  ASSUME Here, NEW n \in Names, NEW s \in Session, s.pods[n] = Unknown,
         NEW found \in [Names -> 0..Len(hist)], NEW absent, NEW U, NEW T,
         \A t \in T : t.name # n, NEW closed, NEW d, Live => LoadedRight(found, absent, U, d, n)
  PROVE  Fits(hist, seen, T, d, closed, Live, target # "pods", n \notin U, n,
              LoadedEntry(s, found, absent, n))
<1> DEFINE g == found[n]
           e == LoadedEntry(s, found, absent, n)
           work == target # "pods"
           sure == n \notin U
<1>1. /\ e = IF target = "pods" THEN IF live /\ n \in absent THEN Missing ELSE Added(g)
             ELSE IF g # 0 THEN Added(g) ELSE Unknown
      /\ g \in 0..Len(hist)
  BY HereIs, LoadedEntryIs
<1>2. work \in BOOLEAN /\ sure \in BOOLEAN
  OBVIOUS
<1> HIDE DEF e, g, work, sure
<1>3. CASE target = "pods" /\ live /\ n \in absent
  <2>1. e = Missing
    BY <1>1, <1>3
  <2>2. /\ Missing.known /\ Missing.left /\ Missing.state = "ended"
        /\ ~Missing.timer /\ ~Missing.request
    BY MissingIs
  <2>3. ~work
    BY <1>3 DEF work
  <2>4. Fits(hist, seen, T, d, closed, Live, work, sure, n, Missing)
    BY <2>2, <2>3 DEF Fits, Sound, Attended, Follows, AtLatest, Leaves, On
  <2> QED
    BY <2>1, <2>4 DEF e, work, sure
<1>4. CASE ~(target = "pods" /\ live /\ n \in absent) /\ (target = "pods" \/ g # 0) /\ ~Live
  BY <1>1, <1>4, AddedDeaf DEF e
<1>5. CASE ~(target = "pods" /\ live /\ n \in absent) /\ (target = "pods" \/ g # 0) /\ Live
  <2>1. e = Added(g)
    BY <1>1, <1>5
  <2>2. At(hist, n, seen) \in d \cup {0, g} /\ (sure \/ work => Found(hist, seen, d, n, g))
    BY <1>5 DEF LoadedRight, Live, sure, work, g
  <2>3. Fits(hist, seen, T, d, closed, Live, work, sure, n, Added(g))
    <3>1. CASE sure \/ work
      BY <1>1, <1>5, <2>2, <3>1, AddedSure
    <3>2. CASE ~sure /\ ~work
      <4>1. sure = FALSE /\ work = FALSE
        BY <1>2, <3>2
      <4>2. Fits(hist, seen, T, d, closed, Live, FALSE, FALSE, n, Added(g))
        BY <1>1, <1>5, <2>2, AddedUnsure
      <4> QED
        BY <4>1, <4>2
    <3> QED
      BY <3>1, <3>2
  <2> QED
    BY <2>1, <2>3 DEF e, work, sure
<1>6. CASE target # "pods" /\ g = 0
  <2>1. e = Unknown
    BY <1>1, <1>6
  <2>2. /\ ~Unknown.known /\ ~Unknown.left /\ Unknown.state = "ended" /\ ~Unknown.timer
        /\ ~Unknown.request
    BY UnknownIs
  <2>3. Live /\ sure => Listed(hist, seen, d, n, Unknown)
    BY <1>6 DEF LoadedRight, Listed, sure, g
  <2>4. Fits(hist, seen, T, d, closed, Live, work, sure, n, Unknown)
    BY <2>2, <2>3 DEF Fits, Sound, Attended, Follows, AtLatest, Leaves, OfWorkload, On
  <2> QED
    BY <2>1, <2>4 DEF e, work, sure
<1> QED
  BY <1>3, <1>4, <1>5, <1>6 DEF Live

\* What CheckDone leaves of a session, whatever names (U) are unsure.
LEMMA FitChecked ==
  ASSUME Here, NEW s \in Session, s.ready, NEW d, d \subseteq 1..seen, NEW U, Rest(s),
         FitInv(hist, seen, s, d, Live, target, U)
  PROVE  LET r == CheckDone(s) IN
         /\ Rest(r) /\ FitInv(hist, seen, r, d, Live, target, U) /\ Undue(r) /\ Ends(s, r)
<1> DEFINE r == CheckDone(s)
<1>1. /\ r \in Session /\ r.pods = s.pods
      /\ s.closed # "no" => r.closed = s.closed
      /\ Kept(s.queue, r.queue, {})
  BY HereIs, CheckDoneIs
<1>2. Rest(r) /\ Undue(r) /\ Ends(s, r)
  <2>1. CASE Live
    <3>1. WellOff(s, d, Names)
      BY DEF WellOff
    <3> QED
      BY <2>1, <3>1, OffChecked DEF WellOff
  <2>2. CASE ~Live
    <3>1. Well(s, d)
      BY <2>2 DEF Well, WellOff, FitsNow, FitInv, Fits
    <3> QED
      BY <3>1, WellChecked DEF Well, WellOff
  <2> QED
    BY <2>1, <2>2
<1> HIDE DEF r
<1>3. ASSUME NEW n \in Names
      PROVE  Fits(hist, seen, Range(r.queue), d, r.closed, Live, target # "pods", n \notin U, n,
                  r.pods[n])
  <2>1. SameAbout(hist, Range(s.queue), Range(r.queue), d, d, n)
    BY <1>1, KeptAbout DEF SameAbout
  <2>2. r.closed = "no" => s.closed = "no"
    BY <1>1
  <2>3. Fits(hist, seen, Range(s.queue), d, s.closed, Live, target # "pods", n \notin U, n,
             r.pods[n])
    BY <1>1 DEF FitInv
  <2> QED
    BY <2>1, <2>2, <2>3, HereIs, FitsKept
<1> QED
  BY <1>2, <1>3 DEF FitInv, r

\* A session that loads, behind its first task.
LEMMA LoadingIs ==
  ASSUME IsLoading, ~disposed, Opened
  PROVE  LET q == session.queue
             D == Told(q)
         IN /\ Here /\ D \subseteq 1..seen /\ Follow(hist, seen, D)
            /\ Popped \in Session /\ Aside(session, Popped) /\ Popped.queue = Tail(q)
            /\ Popped.pods = session.pods /\ Tail(q) \in Seq(Task)
            /\ Told(Tail(q)) = D /\ ~session.finishing /\ ~jobTimer
            /\ \A t \in Range(Tail(q)) : t.op = "deltas" /\ t.name = 0 /\ Shaped(t)
            /\ TaskInv(Range(Tail(q)), Live, target)
            /\ \A n \in Names : session.pods[n] = Unknown
<1> DEFINE q == session.queue
           D == Told(q)
<1>1. /\ Loading(session, await, need, jobTimer, target, live) /\ HistInv(hist)
      /\ QueueShape(hist, seen, q)
  BY DEF IsLoading, Basics
<1>2. Here /\ q \in Seq(Task) /\ D \subseteq 1..seen
  BY <1>1, BasicsCtx DEF Here, IsLoading, QueueShape, OrderInv
<1>3. /\ Popped \in Session /\ Aside(session, Popped) /\ Popped.queue = Tail(q)
      /\ Popped.pods = session.pods /\ Range(q) = Range(Tail(q)) \cup {Head(q)}
      /\ Head(q) \in Range(q)
  BY <1>1, PoppedIs DEF IsLoading, Loading
<1>4. \A t \in Range(Tail(q)) : t.op = "deltas"
  BY <1>1, <1>2, OthersBehind DEF Loading
<1>5. \A t \in Range(q) : Shaped(t)
  BY <1>1 DEF QueueShape
<1>6. \A t \in Range(Tail(q)) : t.name = 0 /\ Shaped(t) /\ t.deltas # <<>>
  BY <1>3, <1>4, <1>5 DEF Shaped
<1>7. Head(q).op = "load" /\ Head(q).deltas = <<>>
  BY <1>1, <1>3, <1>5 DEF Loading, Shaped
<1>8. Tail(q) \in Seq(Task)
  BY <1>1, <1>2, TailQ DEF Loading
<1>9. Told(Tail(q)) = D
  <2>1. Range(Head(q).deltas) = {}
    BY <1>7, NoDeltas
  <2>2. \A x : x \in Told(Tail(q)) <=> x \in D
    BY <1>3, <2>1, ToldIs
  <2> QED
    BY <2>2 DEF Told
<1>10. Live \/ Range(Tail(q)) = {}
  <2> SUFFICES ASSUME ~Live, NEW t \in Range(Tail(q)) PROVE FALSE
    OBVIOUS
  <2>1. D = {}
    BY DEF Opened, IsLoading
  <2>2. t.deltas \in Seq(1..MaxVersions) /\ t.deltas # <<>>
    BY <1>6, <1>8, RangeIs, TaskIs
  <2>3. Head(t.deltas) \in Range(t.deltas)
    BY <2>2, DeltasTail DEF Range
  <2> QED
    BY <1>3, <2>1, <2>3, ToldIs
<1>11. TaskInv(Range(Tail(q)), Live, target)
  BY <1>4, <1>10 DEF TaskInv
<1> QED
  BY <1>1, <1>2, <1>3, <1>4, <1>6, <1>8, <1>9, <1>11 DEF Opened, Loading

LEMMA LoadedOpen ==
  ASSUME IsLoading, ~disposed, Opened, NEW found \in [Names -> 0..Len(hist)], NEW absent,
         UNCHANGED <<podVars, start, job, disposed, jobTimer>>, await' = "",
         session' = Loaded(Popped, found, absent),
         \A n \in Names : Live => LoadedRight(found, absent, unsure', Told(session.queue), n)
  PROVE  Opened' /\ Ends(session, session')
<1> DEFINE q == session.queue
           D == Told(q)
           t == LoadedFrom(Popped, found, absent)
           U == unsure'
<1>1. /\ Here /\ D \subseteq 1..seen /\ Follow(hist, seen, D)
      /\ Popped \in Session /\ Aside(session, Popped) /\ Popped.queue = Tail(q)
      /\ Popped.pods = session.pods /\ Tail(q) \in Seq(Task)
      /\ Told(Tail(q)) = D /\ ~session.finishing /\ ~jobTimer
      /\ \A u \in Range(Tail(q)) : u.op = "deltas" /\ u.name = 0 /\ Shaped(u)
      /\ TaskInv(Range(Tail(q)), Live, target)
      /\ \A n \in Names : session.pods[n] = Unknown
  BY LoadingIs
<1>2. /\ session' = CheckDone(t)
      /\ t \in Session /\ t.ready /\ t.queue = Tail(q) /\ t.finishing = session.finishing
      /\ \A n \in Names : t.pods[n] = LoadedEntry(Popped, found, absent, n)
  <2>1. Ctx /\ Popped.finishing = session.finishing
    BY <1>1 DEF Here, Aside
  <2>2. /\ Loaded(Popped, found, absent) = CheckDone(t)
        /\ t \in Session /\ t.ready /\ t.queue = Popped.queue /\ t.finishing = Popped.finishing
        /\ \A n \in Names : t.pods[n] = LoadedEntry(Popped, found, absent, n)
    <3>1. Ctx /\ Popped \in Session /\ found \in [Names -> 0..Len(hist)]
      BY <1>1, <2>1
    <3> QED
      BY ONLY <3>1, LoadedFromIs
  <2> QED
    BY <1>1, <2>1, <2>2
<1> HIDE DEF t, D
<1>3. FitInv(hist, seen, t, D, Live, target, U)
  <2> SUFFICES ASSUME NEW n \in Names
               PROVE  Fits(hist, seen, Range(t.queue), D, t.closed, Live, target # "pods",
                           n \notin U, n, t.pods[n])
    BY DEF FitInv
  <2>1. \A u \in Range(t.queue) : u.name # n
    BY <1>1, <1>2, Bounds
  <2>2. Popped.pods[n] = Unknown
    BY <1>1
  <2>3. Live => LoadedRight(found, absent, U, D, n)
    BY DEF D
  <2> HIDE DEF U
  <2>4. Fits(hist, seen, Range(t.queue), D, t.closed, Live, target # "pods",
             n \notin U, n, LoadedEntry(Popped, found, absent, n))
    BY <1>1, <2>1, <2>2, <2>3, LoadedFits
  <2> QED
    BY <1>2, <2>4
<1>4. Rest(t)
  BY <1>1, <1>2 DEF Rest
<1> DEFINE r == CheckDone(t)
<1> HIDE DEF U
<1>5. /\ Rest(r) /\ FitInv(hist, seen, r, D, Live, target, U) /\ Undue(r) /\ Ends(t, r)
  BY <1>1, <1>2, <1>3, <1>4, FitChecked
<1>6. r.ready /\ Told(r.queue) = D
  <2>1. r.ready = t.ready /\ Kept(t.queue, r.queue, {})
    BY <1>1, <1>2, CheckDoneIs DEF Here
  <2>2. Told(r.queue) = Told(t.queue)
    <3>1. {} \subseteq Names /\ t.queue \in Seq(Task) /\ \A u \in Range(t.queue) : Shaped(u)
      BY <1>1, <1>2
    <3> QED
      BY ONLY <2>1, <3>1, KeptTold
  <2> QED
    BY <1>1, <1>2, <2>1, <2>2
<1> HIDE DEF r
<1>7. DueInv(hist, seen, r, D, Live, target, jobTimer)
  BY <1>1, <1>5, UndueIs
<1>8. RunInv(hist, seen, r, "", Live, target, U, jobTimer)
  BY <1>1, <1>5, <1>6, <1>7 DEF RunInv, Rest
<1>9. /\ hist' = hist /\ seen' = seen /\ session' = r /\ Live' = Live /\ target' = target
      /\ jobTimer' = jobTimer /\ await' = "" /\ stage' = stage
  BY <1>2 DEF podVars, start, Live, r
<1>10. Opened'
  BY <1>1, <1>6, <1>8, <1>9 DEF Opened, U
<1>11. Ends(session, session')
  BY <1>2, <1>5, <1>9, EndsPut
<1> QED
  BY <1>10, <1>11

\* What the cache shows is as good as found.
LEMMA AtFound ==
  ASSUME Here, NEW d, NEW n, At(hist, n, seen) # 0
  PROVE  Found(hist, seen, d, n, At(hist, n, seen))
<1>1. HistInv(hist) /\ seen \in 0..Len(hist)
  BY HereIs
<1> QED
  BY <1>1, AtDom DEF Found

LEMMA LoadInitialOpen ==
  ASSUME IsLoading, ~disposed, Opened, LoadInitial
  PROVE  Opened' /\ Ends(session, session')
<1> DEFINE D == Told(session.queue)
           absent == {}
<1>1. Here /\ FoundFirst \in [Names -> 0..Len(hist)]
  BY LoadingIs, FoundFirstIs DEF Here
<1>2. /\ UNCHANGED <<podVars, start, job, missing, disposed, jobTimer, unsure>>
      /\ await = ""
      /\ IF Asks = {}
         THEN session' = Loaded(Popped, FoundFirst, {}) /\ await' = await
         ELSE /\ need' = Asks /\ got' = FoundFirst /\ session' = session
              /\ await' = IF target = "pods" THEN "read" ELSE "match"
  BY DEF LoadInitial, FoundFirst, Head1
<1>3. ASSUME Live, NEW n \in Names
      PROVE  /\ FoundFirst[n] = At(hist, n, seen)
             /\ FoundFirst[n] # 0 => Found(hist, seen, D, n, FoundFirst[n])
             /\ target = "pods" => (n \in Asks <=> FoundFirst[n] = 0)
  <2>1. Cached(n) = At(hist, n, seen)
    BY <1>1, HereIs
  <2>2. FoundFirst[n] = Cached(n)
    BY <1>3 DEF FoundFirst, Live
  <2>3. target = "pods" => (n \in Asks <=> Cached(n) = 0)
    BY <1>1, <1>3, AsksIs DEF Live, Here
  <2> QED
    BY <1>1, <2>1, <2>2, <2>3, AtFound
<1>4. CASE Asks = {}
  <2>1. session' = Loaded(Popped, FoundFirst, {}) /\ await' = ""
    BY <1>2, <1>4
  <2>2. \A n \in Names : Live => LoadedRight(FoundFirst, {}, unsure', D, n)
    BY <1>3, <1>4 DEF LoadedRight
  <2> QED
    BY <1>1, <1>2, <2>1, <2>2, LoadedOpen
<1>5. CASE Asks # {}
  <2>1. /\ need' = Asks /\ got' = FoundFirst /\ session' = session
    BY <1>2, <1>5
  <2>2. Live => LoadInv(hist, seen, D, target, Asks, FoundFirst, missing, unsure)
    BY <1>3 DEF LoadInv, FoundPod, FoundMatch
  <2>3. /\ hist' = hist /\ seen' = seen /\ Live' = Live /\ target' = target
        /\ missing' = missing /\ unsure' = unsure /\ stage' = stage
    BY <1>2 DEF podVars, start, Live
  <2>4. Follow(hist, seen, D) /\ (~Live => D = {})
    BY DEF Opened, IsLoading
  <2>5. Opened'
    BY <2>1, <2>2, <2>3, <2>4 DEF Opened, IsLoading
  <2> QED
    BY <2>1, <2>5, SelfEnds
<1> QED
  BY <1>4, <1>5

LEMMA LoadAnswerOpen ==
  ASSUME IsLoading, ~disposed, Opened, await # "", NEW n \in need, NEW o \in 0..Len(hist),
         NEW notFound, NEW isUnsure, LoadAnswer(n, o, notFound, isUnsure),
         Live => LoadInv(hist, seen, Told(session.queue), target, need', [got EXCEPT ![n] = o],
                         missing', unsure')
  PROVE  Opened' /\ Ends(session, session')
<1> DEFINE g == [got EXCEPT ![n] = o]
           D == Told(session.queue)
<1>1. UNCHANGED <<podVars, start, job, disposed, jobTimer>>
  BY DEF LoadAnswer
<1>2. n \in Names /\ g \in [Names -> 0..Len(hist)]
  BY DEF IsLoading, TypeOK
<1>3. /\ hist' = hist /\ seen' = seen /\ Live' = Live /\ target' = target /\ stage' = stage
  BY <1>1 DEF podVars, start, Live
<1>4. Follow(hist, seen, D) /\ (~Live => D = {})
  BY DEF Opened, IsLoading
<1>5. CASE need' # {}
  <2>1. got' = g /\ UNCHANGED <<await, session>>
    BY <1>5 DEF LoadAnswer
  <2> HIDE DEF g
  <2>2. Opened'
    BY <1>3, <1>4, <2>1 DEF Opened, IsLoading, g
  <2> QED
    BY <2>1, <2>2, SelfEnds
<1>6. CASE need' = {}
  <2>1. await' = "" /\ session' = Loaded(Popped, g, missing')
    BY <1>6 DEF LoadAnswer
  <2>2. target # "job"
    BY DEF IsLoading, Basics, Loading
  <2>3. target \in {"pods", "deployment"}
    BY <2>2 DEF IsLoading, TypeOK
  <2> HIDE DEF g
  <2>4. ASSUME Live, NEW m \in Names PROVE LoadedRight(g, missing', unsure', D, m)
    <3>1. /\ target = "pods" => FoundPod(hist, seen, D, m, g[m], m \in need', m \notin unsure',
                                         m \in missing')
          /\ target = "deployment" => FoundMatch(hist, seen, D, m, g[m], m \notin unsure')
      BY <2>4 DEF LoadInv, g
    <3>2. CASE target = "pods"
      BY <1>6, <3>1, <3>2 DEF FoundPod, LoadedRight
    <3>3. CASE target = "deployment"
      BY <3>1, <3>3 DEF FoundMatch, LoadedRight
    <3> QED
      BY <2>3, <3>2, <3>3
  <2>5. \E a : /\ session' = Loaded(Popped, g, a)
               /\ \A m \in Names : Live => LoadedRight(g, a, unsure', D, m)
    BY <2>1, <2>4
  <2>6. PICK a : /\ session' = Loaded(Popped, g, a)
                 /\ \A m \in Names : Live => LoadedRight(g, a, unsure', D, m)
    BY <2>5
  <2> QED
    BY <1>1, <1>2, <2>1, <2>6, LoadedOpen
<1> QED
  BY <1>5, <1>6

\* An answer is about its name.
LEMMA LoadPut ==
  ASSUME IsLoading, Opened, await # "", Live, NEW n \in need, NEW o \in 0..Len(hist),
         NEW notFound, NEW isUnsure, LoadAnswer(n, o, notFound, isUnsure),
         target = "pods" =>
           FoundPod(hist, seen, Told(session.queue), n, o, FALSE, n \notin unsure', n \in missing'),
         target = "deployment" =>
           FoundMatch(hist, seen, Told(session.queue), n, o, n \notin unsure')
  PROVE  LoadInv(hist, seen, Told(session.queue), target, need', [got EXCEPT ![n] = o],
                 missing', unsure')
<1> DEFINE g == [got EXCEPT ![n] = o]
           D == Told(session.queue)
<1>1. /\ need' = need \ {n}
      /\ missing' = IF notFound THEN missing \cup {n} ELSE missing
      /\ unsure' = IF isUnsure THEN unsure \cup {n} ELSE unsure
  BY DEF LoadAnswer
<1>2. LoadInv(hist, seen, D, target, need, got, missing, unsure)
  BY DEF Opened, IsLoading
<1>3. n \in Names /\ got \in [Names -> 0..Len(hist)]
  BY DEF IsLoading, TypeOK
<1>4. /\ missing' = missing \/ missing' = missing \cup {n}
      /\ unsure' = unsure \/ unsure' = unsure \cup {n}
  BY <1>1
<1> SUFFICES ASSUME NEW m \in Names
             PROVE  /\ target = "pods" => FoundPod(hist, seen, D, m, g[m], m \in need',
                                                   m \notin unsure', m \in missing')
                    /\ target = "deployment" => FoundMatch(hist, seen, D, m, g[m], m \notin unsure')
  BY DEF LoadInv
<1>5. CASE m = n
  <2>1. g[m] = o
    BY <1>3, <1>5
  <2>2. m \notin need'
    BY <1>1, <1>5
  <2> HIDE DEF g
  <2> QED
    BY <1>5, <2>1, <2>2 DEF FoundPod
<1>6. CASE m # n
  <2>1. g[m] = got[m]
    BY <1>3, <1>6
  <2>2. (m \in need') = (m \in need)
    BY ONLY <1>1, <1>6
  <2>3. (m \in missing') = (m \in missing)
    BY ONLY <1>4, <1>6
  <2>4. (m \notin unsure') = (m \notin unsure)
    BY ONLY <1>4, <1>6
  <2>5. /\ target = "pods" => FoundPod(hist, seen, D, m, got[m], m \in need, m \notin unsure,
                                       m \in missing)
        /\ target = "deployment" => FoundMatch(hist, seen, D, m, got[m], m \notin unsure)
    BY <1>2 DEF LoadInv
  <2> HIDE DEF g
  <2> QED
    BY <2>1, <2>2, <2>3, <2>4, <2>5
<1> QED
  BY <1>5, <1>6

LEMMA ReadAnswerOpen ==
  ASSUME IsLoading, ~disposed, Opened, NEW n \in Names, ReadAnswer(n)
  PROVE  Opened' /\ Ends(session, session')
<1> DEFINE D == Told(session.queue)
           o == At(hist, n, seen)
<1>1. /\ await # "" /\ n \in need /\ await = "read"
  BY DEF ReadAnswer
<1>2. Here
  BY LoadingIs
<1>3. Stored(n) \in 0..Len(hist) /\ 0 \in 0..Len(hist) /\ Cached(n) = o
  BY <1>2, CachedType, HereIs, CtxIs
<1>4. target = "pods"
  BY <1>1 DEF IsLoading, Basics, Loading
<1>5. Live => FoundPod(hist, seen, D, n, got[n], n \in need, n \notin unsure, n \in missing)
  BY <1>1, <1>4 DEF Opened, IsLoading, LoadInv
<1>6. Live => o = 0 \/ o \in D
  BY <1>1, <1>5 DEF FoundPod
<1> HIDE DEF o, D
<1>7. CASE /\ LoadAnswer(n, Stored(n), Stored(n) = 0, Stored(n) # Cached(n))
           /\ UNCHANGED faults
  <2>1. /\ Stored(n) = 0 => n \in missing'
        /\ Stored(n) # Cached(n) => n \in unsure'
    BY <1>7 DEF LoadAnswer
  <2>2. ASSUME Live
        PROVE  FoundPod(hist, seen, D, n, Stored(n), FALSE, n \notin unsure', n \in missing')
    <3>1. n \notin unsure' /\ n \notin missing' => Stored(n) = o /\ o # 0
      BY <1>3, <2>1
    <3>2. o # 0 => Found(hist, seen, D, n, o)
      BY <1>2, AtFound DEF o
    <3> QED
      BY <1>6, <2>2, <3>1, <3>2 DEF FoundPod, o
  <2>3. Live => LoadInv(hist, seen, D, target, need', [got EXCEPT ![n] = Stored(n)], missing',
                        unsure')
    BY <1>1, <1>3, <1>4, <1>7, <2>2, LoadPut DEF D
  <2> QED
    BY <1>1, <1>3, <1>7, <2>3, LoadAnswerOpen DEF D
<1>8. CASE Fault /\ LoadAnswer(n, 0, FALSE, TRUE)
  <2>1. n \in unsure'
    BY <1>8 DEF LoadAnswer
  <2>2. Live => FoundPod(hist, seen, D, n, 0, FALSE, n \notin unsure', n \in missing')
    BY <1>6, <2>1 DEF FoundPod, o
  <2>3. Live => LoadInv(hist, seen, D, target, need', [got EXCEPT ![n] = 0], missing', unsure')
    BY <1>1, <1>3, <1>4, <1>8, <2>2, LoadPut DEF D
  <2> QED
    BY <1>1, <1>3, <1>8, <2>3, LoadAnswerOpen DEF D
<1> QED
  BY <1>7, <1>8 DEF ReadAnswer

LEMMA MatchesInitialOpen ==
  ASSUME IsLoading, ~disposed, Opened, NEW n \in Names, MatchesInitial(n)
  PROVE  Opened' /\ Ends(session, session')
<1> DEFINE D == Told(session.queue)
           o == At(hist, n, seen)
<1>1. /\ await # "" /\ n \in need /\ await = "match"
  BY DEF MatchesInitial
<1>2. Here
  BY LoadingIs
<1>3. got[n] \in 0..Len(hist) /\ 0 \in 0..Len(hist)
  BY <1>2, CtxIs DEF Here
<1>4. target = "deployment"
  BY <1>1 DEF IsLoading, Basics, Loading
<1>5. Live => FoundMatch(hist, seen, D, n, got[n], n \notin unsure)
  BY <1>1, <1>4 DEF Opened, IsLoading, LoadInv
<1> HIDE DEF o, D
<1>6. CASE LoadAnswer(n, got[n], FALSE, FALSE) /\ UNCHANGED faults
  <2>1. unsure' = unsure
    BY <1>6 DEF LoadAnswer
  <2>2. Live => FoundMatch(hist, seen, D, n, got[n], n \notin unsure')
    BY <1>5, <2>1
  <2>3. Live => LoadInv(hist, seen, D, target, need', [got EXCEPT ![n] = got[n]], missing',
                        unsure')
    BY <1>1, <1>3, <1>4, <1>6, <2>2, LoadPut DEF D
  <2> QED
    BY <1>1, <1>3, <1>6, <2>3, LoadAnswerOpen DEF D
<1>7. CASE Fault /\ LoadAnswer(n, 0, FALSE, TRUE)
  <2>1. n \in unsure'
    BY <1>7 DEF LoadAnswer
  <2>2. FoundMatch(hist, seen, D, n, 0, n \notin unsure')
    BY <2>1 DEF FoundMatch
  <2>3. Live => LoadInv(hist, seen, D, target, need', [got EXCEPT ![n] = 0], missing', unsure')
    BY <1>1, <1>3, <1>4, <1>7, <2>2, LoadPut DEF D
  <2> QED
    BY <1>1, <1>3, <1>7, <2>3, LoadAnswerOpen DEF D
<1> QED
  BY <1>6, <1>7 DEF MatchesInitial

-----------------------------------------------------------------------------
(* Every step of an open session                                           *)

LEMMA BeforeOpen ==
  ASSUME TypeOK, Basics, ~disposed, Opened, stage # "started", Next, ~Dispose
  PROVE  Opened' /\ Ends(session, session')
<1>1. FeedAnswers \/ TargetAnswers \/ StartFails \/ Deliver \/ PodsChange \/ JobFinishes
  BY BeforeActs
<1> QED
  BY <1>1, FeedAnswersOpen, TargetAnswersOpen, StartFailsOpen, DeliverOpen, PodsChangeOpen,
     JobFinishesOpen

LEMMA LoadingOpen ==
  ASSUME TypeOK, Basics, ~disposed, Opened, stage = "started", ~session.ready, Next, ~Dispose
  PROVE  Opened' /\ Ends(session, session')
<1>1. IsLoading
  BY DEF IsLoading
<1>2. \/ \E n \in Names : ReadAnswer(n) \/ MatchesInitial(n)
      \/ LoadInitial \/ Deliver \/ PodsChange \/ JobFinishes
  BY LoadingActs
<1> QED
  BY <1>1, <1>2, LoadInitialOpen, ReadAnswerOpen, MatchesInitialOpen, DeliverOpen,
     PodsChangeOpen, JobFinishesOpen

LEMMA ReadyOpen ==
  ASSUME TypeOK, Basics, ~disposed, Opened, stage = "started", session.ready, Next, ~Dispose
  PROVE  Opened' /\ Ends(session, session')
<1>1. IsReady
  BY DEF IsReady
<1>2. \/ MatcherAnswers \/ JobAnswer
      \/ OnDelta \/ OnStreamFinished \/ OnGraceExpired \/ OnCheckDone \/ FinishIfJobDone
      \/ JobTimerFires \/ \E n \in Names : GraceTimerFires(n) \/ StreamSettles(n)
      \/ Deliver \/ PodsChange \/ JobFinishes
  BY ReadyActs
<1>3. CASE MatcherAnswers \/ JobAnswer
  BY <1>1, <1>3, MatcherAnswersOpen, JobAnswerOpen
<1>4. CASE OnDelta \/ OnStreamFinished \/ OnGraceExpired \/ OnCheckDone \/ FinishIfJobDone
  BY <1>1, <1>4, OnDeltaOpen, OnStreamFinishedOpen, OnGraceExpiredOpen, OnCheckDoneOpen,
     FinishIfJobDoneOpen
<1>5. CASE JobTimerFires \/ \E n \in Names : GraceTimerFires(n) \/ StreamSettles(n)
  BY <1>1, <1>5, JobTimerFiresOpen, GraceTimerFiresOpen, StreamSettlesOpen
<1>6. CASE Deliver \/ PodsChange \/ JobFinishes
  BY <1>6, DeliverOpen, PodsChangeOpen, JobFinishesOpen
<1> QED
  BY <1>2, <1>3, <1>4, <1>5, <1>6

LEMMA InvariantStep ==
  ASSUME Invariant, [Next]_vars
  PROVE  Invariant'
<1>1. Base'
  BY BaseStep DEF Invariant
<1>2. CASE disposed
  BY <1>1, <1>2, QuietKept DEF Base, Invariant
<1>3. CASE ~disposed /\ UNCHANGED vars
  <2>1. Opened
    BY <1>3 DEF Invariant
  <2>2. Opened'
    BY <1>3, <2>1 DEF Opened, vars, podVars, start, loading, Live
  <2> QED
    BY <1>1, <2>2 DEF Invariant
<1>4. CASE ~disposed /\ Dispose
  <2>1. disposed'
    BY <1>4 DEF Dispose
  <2> QED
    BY <1>1, <2>1 DEF Invariant
<1>5. CASE ~disposed /\ Next /\ ~Dispose
  <2>1. TypeOK /\ Basics /\ Opened
    BY <1>5 DEF Invariant, Base
  <2>2. Opened'
    BY <1>5, <2>1, BeforeOpen, LoadingOpen, ReadyOpen
  <2> QED
    BY <1>1, <2>2 DEF Invariant
<1> QED
  BY <1>2, <1>3, <1>4, <1>5

LEMMA InitInvariant ==
  ASSUME Init
  PROVE  Invariant
<1>1. Base
  BY InitBase
<1>2. session.queue = <<>> /\ stage = "feed"
  BY DEF Init
<1>3. Told(session.queue) = {}
  BY <1>2, NoDeltas
<1>4. Follow(hist, seen, Told(session.queue))
  BY <1>3, NothingTold
<1>5. Opened
  BY <1>2, <1>4 DEF Opened
<1> QED
  BY <1>1, <1>5 DEF Invariant

\* Every state that a session can reach satisfies the invariant: what is
\* still queued makes up for all that the entries do not show yet.
THEOREM Always == Spec => []Invariant
<1>1. Init => Invariant
  BY InitInvariant
<1>2. Invariant /\ [Next]_vars => Invariant'
  BY InvariantStep
<1> QED
  BY <1>1, <1>2, PTL DEF Spec

-----------------------------------------------------------------------------
(* How a session finishes                                                  *)

\* Only a task, or the answer it awaited, makes a session finish.
LEMMA FinishingIs ==
  ASSUME TypeOK, Basics, ~disposed, Next, ~Dispose, session'.finishing, ~session.finishing
  PROVE  UNCHANGED <<podVars, start>> /\ stage = "started" /\ session'.ready
<1>1. session \in Session
  BY DEF TypeOK
<1>2. ~Deliver /\ ~PodsChange /\ ~JobFinishes
  <2>1. CASE Deliver
    <3>1. session'.finishing = session.finishing
      BY <2>1, DeliverTold DEF Aside
    <3> QED
      BY <3>1
  <2>2. CASE PodsChange \/ JobFinishes
    <3>1. session' = session
      BY <2>2 DEF PodsChange, JobFinishes
    <3> QED
      BY <3>1
  <2> QED
    BY <2>1, <2>2
<1>3. stage = "started"
  <2>1. SUFFICES ASSUME stage # "started" PROVE FALSE
    OBVIOUS
  <2>2. FeedAnswers \/ TargetAnswers \/ StartFails
    BY <1>2, <2>1, BeforeActs
  <2>3. \A how \in {"over", "retry"} : Close(session, how).finishing = session.finishing
    BY <1>1, CloseIs
  <2>4. LoadTask \in Task
    BY LoadTaskIs
  <2>5. Push(session, LoadTask).finishing = session.finishing
    BY <1>1, <2>4, PushIs DEF Aside
  <2>6. CASE FeedAnswers
    BY <2>5, <2>6 DEF FeedAnswers, Begin, LoadTask
  <2>7. CASE TargetAnswers
    BY <2>5, <2>7 DEF TargetAnswers, Begin, LoadTask
  <2>8. CASE StartFails
    BY <2>3, <2>8 DEF StartFails, Returns
  <2> QED
    BY <2>2, <2>6, <2>7, <2>8
<1>4. UNCHANGED <<podVars, start>>
  <2>1. CASE ~session.ready
    <3>1. LoadInitial \/ \E n \in Names : ReadAnswer(n) \/ MatchesInitial(n)
      BY <1>2, <1>3, <2>1, LoadingActs
    <3> QED
      BY <3>1 DEF LoadInitial, ReadAnswer, MatchesInitial, LoadAnswer
  <2>2. CASE session.ready
    <3>1. \/ MatcherAnswers \/ JobAnswer
          \/ OnDelta \/ OnStreamFinished \/ OnGraceExpired \/ OnCheckDone \/ FinishIfJobDone
          \/ JobTimerFires \/ \E n \in Names : GraceTimerFires(n) \/ StreamSettles(n)
      BY <1>2, <1>3, <2>2, ReadyActs
    <3> QED
      BY <3>1 DEF MatcherAnswers, JobAnswer, OnDelta, OnStreamFinished, OnGraceExpired,
                  OnCheckDone, FinishIfJobDone, JobTimerFires, GraceTimerFires, StreamSettles
  <2> QED
    BY <2>1, <2>2
<1>5. session'.ready
  <2>1. Basics' /\ stage' = "started"
    BY <1>3, <1>4, BeforeStep, LoadingStep, ReadyStep DEF start
  <2> QED
    BY <2>1 DEF Basics, Loading
<1> QED
  BY <1>3, <1>4, <1>5

LEMMA ToldUnheard ==
  ASSUME NEW s \in Session, NEW o \in Told(s.queue)
  PROVE  Unheard(s, hist[o].name)
<1>1. PICK t \in Range(s.queue) : o \in Range(t.deltas)
  BY ToldIs
<1>2. s.queue \in Seq(Task)
  BY SessionIs
<1>3. PICK k \in DOMAIN s.queue : s.queue[k] = t
  BY <1>1, <1>2, RangeIs
<1>4. t \in Task
  BY <1>1, <1>2, RangeIs
<1>5. t.deltas \in Seq(1..MaxVersions)
  BY <1>4, TaskIs
<1>6. PICK i \in DOMAIN t.deltas : t.deltas[i] = o
  BY <1>1, <1>5, RangeIs
<1> QED
  BY <1>3, <1>6 DEF Unheard

LEMMA HonestStep ==
  ASSUME Invariant, [Next]_vars, session'.finishing, ~session.finishing, target = "pods", Live,
         NEW n \in Active(session')
  PROVE  LET e == session'.pods[n] IN
         /\ Finished(Cached(n)) /\ e.state = "ended"
         /\ e.run = RunId(Cached(n)) \/ Unheard(session', n)
<1> DEFINE e == session'.pods[n]
           o == Cached(n)
           D == Told(session'.queue)
<1>1. ~disposed /\ Next /\ ~Dispose
  <2>1. ~disposed
    BY QuietKept DEF Invariant, Base
  <2>2. ~UNCHANGED vars
    BY DEF vars
  <2>3. ~Dispose
    <3>1. session \in Session
      BY DEF Invariant, Base, TypeOK
    <3> QED
      BY <3>1 DEF Dispose, Session
  <2> QED
    BY <2>1, <2>2, <2>3
<1>2. TypeOK /\ Basics /\ Opened
  BY <1>1 DEF Invariant, Base
<1>3. Opened' /\ Ends(session, session')
  BY <1>1, <1>2, BeforeOpen, LoadingOpen, ReadyOpen
<1>4. UNCHANGED <<podVars, start>> /\ stage = "started" /\ session'.ready
  BY <1>1, <1>2, FinishingIs
<1>5. n \in Names /\ On(e)
  BY DEF Active, On
<1>6. e.state = "ended" /\ Finished(o)
  BY <1>3, <1>5 DEF Ends, RipeNow
<1>7. AtLatest(hist, seen, D, n, e)
  <2>1. /\ hist' = hist /\ seen' = seen /\ stage' = "started"
        /\ target' = target /\ Live' = TRUE
    BY <1>4 DEF podVars, start, Live
  <2>2. RunInv(hist', seen', session', await', Live', target', unsure', jobTimer')
    BY <1>3, <1>4, <2>1 DEF Opened
  <2>3. FitInv(hist', seen', session', D, Live', target', unsure')
    BY <2>2 DEF RunInv
  <2> HIDE DEF e, D
  <2>4. Follows(hist, seen, Range(session'.queue), D, target # "pods", n \notin unsure', n, e)
    BY <1>5, <2>1, <2>3 DEF FitInv, Fits, e
  <2> QED
    BY <2>4 DEF Follows
<1>8. Ctx /\ HistInv(hist) /\ seen \in 0..Len(hist)
  BY <1>2, BasicsCtx, CtxIs DEF Basics
<1>9. o = At(hist, n, seen) /\ o # 0
  BY <1>6, CachedIs DEF Finished
<1>10. o \in DOMAIN hist /\ hist[o].name = n
  BY <1>8, <1>9, AtDom, HistDom
<1>11. hist[o].run # 0 /\ RunId(o) = hist[o].run
  BY <1>6, <1>8, <1>9, <1>10 DEF Finished, HistInv, RunId
<1>12. CASE o \in D
  <2>1. session' \in Session
    BY <1>1, <1>2, BeforeStep, LoadingStep, ReadyStep DEF TypeOK
  <2>2. Unheard(session', n)
    BY <1>10, <1>12, <2>1, ToldUnheard
  <2> QED
    BY <1>6, <2>2
<1>13. CASE o \notin D
  <2>1. hist[o].run \in {0, e.run}
    BY <1>5, <1>6, <1>7, <1>9, <1>13 DEF AtLatest
  <2> QED
    BY <1>6, <1>11, <2>1
<1> QED
  BY <1>12, <1>13

\* A session over fixed pods that checkDone closes for good has read the newest run
\* of every pod it still lists to its end, or has a delta of the pod queued.
THEOREM FinishIsHonest == Spec => CompleteIsHonest
<1>1. Invariant /\ [Next]_vars =>
        [session'.finishing /\ ~session.finishing /\ target = "pods" /\ Live =>
           \A n \in Active(session') :
             /\ Finished(Cached(n)) /\ session'.pods[n].state = "ended"
             /\ session'.pods[n].run = RunId(Cached(n)) \/ Unheard(session', n)]_vars
  BY HonestStep
<1> QED
  BY <1>1, Always, PTL DEF Spec, CompleteIsHonest

-----------------------------------------------------------------------------
(* A session at rest                                                       *)

\* What a settled session knows.
LEMMA SettledIs ==
  ASSUME Invariant, Settled
  PROVE  /\ Ctx /\ HistInv(hist) /\ ~disposed /\ session.closed = "no"
         /\ Range(session.queue) = {} /\ Told(session.queue) = {} /\ ~jobTimer
         /\ \A n \in Names : /\ Stored(n) = At(hist, n, Len(hist)) /\ Cached(n) = Stored(n)
                             /\ ~session.pods[n].timer
                             /\ session.pods[n].request => ~RunOver(n)
         /\ seen = Len(hist) /\ Len(hist) \in Nat
         /\ FitInv(hist, Len(hist), session, {}, Live, target, unsure)
         /\ DueInv(hist, Len(hist), session, {}, Live, target, FALSE)
<1>1. TypeOK /\ Basics /\ Opened
  BY DEF Invariant, Base, Settled
<1>2. Ctx /\ HistInv(hist)
  BY <1>1, BasicsCtx DEF Basics
<1>3. stage = "started"
  BY <1>1 DEF Basics, Before, Settled
<1>4. RunInv(hist, seen, session, await, Live, target, unsure, jobTimer)
  BY <1>1, <1>3 DEF Opened, Settled
<1>5. /\ Range(session.queue) = {} /\ Told(session.queue) = {}
  <2>1. session.queue = <<>>
    BY DEF Settled
  <2> QED
    BY <2>1, NoDeltas
<1>6. seen = Len(hist) /\ Len(hist) \in Nat
  BY <1>2, CtxIs DEF Settled
<1>7. jobTimer = FALSE
  BY <1>1 DEF Settled, TypeOK
<1>8. /\ FitInv(hist, Len(hist), session, {}, Live, target, unsure)
      /\ DueInv(hist, Len(hist), session, {}, Live, target, FALSE)
  BY <1>4, <1>5, <1>6, <1>7 DEF RunInv
<1>9. \A n \in Names : Stored(n) = At(hist, n, Len(hist)) /\ Cached(n) = Stored(n)
  BY <1>6, StoredIs, CachedIs
<1> QED
  BY <1>2, <1>5, <1>6, <1>8, <1>9 DEF Settled

\* Of an entry that is read, the run is not over.
LEMMA SettledStreams ==
  ASSUME Invariant, Settled, NEW n \in Names, session.pods[n].state = "streaming"
  PROVE  ~RunOver(n)
<1> DEFINE e == session.pods[n]
<1>1. Attended({}, n, e)
  BY SettledIs DEF FitInv, Fits
<1>2. e.request
  BY <1>1 DEF Attended
<1> QED
  BY <1>2, SettledIs

LEMMA SettledFits ==
  ASSUME Invariant, Settled, Live, NEW n \in Names
  PROVE  LET e == session.pods[n] IN
         /\ Sound({}, TRUE, n, e) /\ e.state # "grace"
         /\ AtLatest(hist, Len(hist), {}, n, e)
         /\ n \notin unsure => Leaves(hist, Len(hist), {}, n, e)
         /\ target # "pods" /\ n \notin unsure => Listed(hist, Len(hist), {}, n, e)
<1> DEFINE e == session.pods[n]
<1>1. Live = TRUE
  <2>1. follow \in BOOLEAN /\ live \in BOOLEAN
    BY SettledIs, CtxIs
  <2> QED
    BY <2>1 DEF Live
<1>2. Fits(hist, Len(hist), {}, {}, "no", TRUE, target # "pods", n \notin unsure, n, e)
  BY <1>1, SettledIs DEF FitInv
<1>3. ~e.timer
  BY SettledIs
<1> HIDE DEF e
<1>4. /\ Sound({}, TRUE, n, e) /\ e.state # "grace"
      /\ AtLatest(hist, Len(hist), {}, n, e)
      /\ n \notin unsure => Leaves(hist, Len(hist), {}, n, e)
      /\ target # "pods" /\ n \notin unsure => Listed(hist, Len(hist), {}, n, e)
  BY <1>2, <1>3 DEF Fits, Attended, Follows
<1> QED
  BY <1>4 DEF e

LEMMA FollowingRests ==
  ASSUME Invariant
  PROVE  RestsFollowing
<1>1. SUFFICES ASSUME Settled, Live, NEW n \in Names, Stored(n) # 0, ~Terminating(Stored(n)),
                      n \notin unsure
               PROVE  LET o == Stored(n)
                          e == session.pods[n]
                      IN /\ target # "pods" => e.known /\ ~e.left /\ e.uid = hist[o].uid
                         /\ e.known /\ ~e.left => RunId(o) \in {0, e.run}
  BY DEF RestsFollowing
<1> DEFINE o == Stored(n)
           e == session.pods[n]
           v == Len(hist)
<1>2. /\ HistInv(hist) /\ v \in Nat /\ o = At(hist, n, v) /\ o # 0
  BY <1>1, SettledIs
<1>3. /\ o \in 1..v /\ ~hist[o].term
      /\ \A j \in 1..v : hist[j].uid = hist[o].uid => ~hist[j].gone
  <2>1. v \in 0..Len(hist)
    BY <1>2
  <2>2. o \in 1..v /\ \A j \in 1..v : hist[j].uid = hist[o].uid => ~hist[j].gone
    BY <1>2, <2>1, AtDom
  <2>3. ~hist[o].term
    BY <1>1, <1>2 DEF Terminating
  <2> QED
    BY <2>2, <2>3
<1>4. Alive(hist, hist[o].uid)
  <2>1. DOMAIN hist = 1..v
    BY <1>1, SettledIs, CtxIs
  <2> QED
    BY <1>3, <2>1 DEF Alive
<1>5. ASSUME target # "pods"
      PROVE  e.known /\ ~e.left /\ e.uid = hist[o].uid
  <2>1. Listed(hist, v, {}, n, e)
    BY <1>1, <1>5, SettledFits
  <2> HIDE DEF o, e, v
  <2> QED
    BY <1>2, <1>3, <1>4, <2>1 DEF Listed, On
<1>6. ASSUME e.known, ~e.left
      PROVE  RunId(o) \in {0, e.run}
  <2>1. CASE e.state = "streaming"
    <3>1. ~RunOver(n)
      BY <1>1, <2>1, SettledStreams
    <3> QED
      BY <3>1 DEF RunOver
  <2>2. CASE e.state # "streaming"
    <3>1. AtLatest(hist, v, {}, n, e)
      BY <1>1, SettledFits
    <3>2. RunId(o) = hist[o].run
      BY <1>2 DEF RunId
    <3> HIDE DEF o, e, v
    <3>3. hist[o].run \in {0, e.run}
      BY <1>2, <1>6, <2>2, <3>1 DEF AtLatest, On
    <3> QED
      BY <3>2, <3>3
  <2> QED
    BY <2>1, <2>2
<1> QED
  BY <1>5, <1>6

\* Over pods that finished or left, nothing is read any more.
LEMMA NothingRuns ==
  ASSUME Invariant, Settled, NEW n \in Names, Stored(n) = 0 \/ Finished(Stored(n))
  PROVE  session.pods[n].state # "streaming"
<1> DEFINE o == Stored(n)
<1>1. o # 0 => o \in DOMAIN hist
  <2>1. HistInv(hist) /\ o = At(hist, n, Len(hist)) /\ Len(hist) \in 0..Len(hist)
    BY SettledIs
  <2> QED
    BY <2>1, AtDom, HistDom
<1>2. ~Running(o)
  <2>1. HistInv(hist)
    BY SettledIs
  <2> HIDE DEF o
  <2>2. o = 0 \/ Finished(o)
    BY DEF o
  <2> QED
    BY <1>1, <2>1, <2>2 DEF Running, Finished, HistInv
<1> QED
  BY <1>2, SettledStreams DEF RunOver

\* Nor is there an entry that waits for more.
LEMMA NothingWaits ==
  ASSUME Invariant, Settled, Live, NEW n \in Names, n \notin unsure, On(session.pods[n]),
         Stored(n) = 0 \/ Finished(Stored(n))
  PROVE  LET o == At(hist, n, Len(hist)) IN
         session.pods[n].state = "ended" /\ o # 0 /\ hist[o].fin
<1> DEFINE e == session.pods[n]
           o == At(hist, n, Len(hist))
           v == Len(hist)
<1>1. /\ HistInv(hist) /\ v \in 0..Len(hist) /\ o = Stored(n) /\ session \in Session
  BY SettledIs, CtxIs
<1>2. o # 0
  <2>1. SUFFICES ASSUME o = 0 PROVE FALSE
    OBVIOUS
  <2>2. Leaves(hist, v, {}, n, e)
    BY SettledFits
  <2> HIDE DEF e, o, v
  <2>3. Shown(hist, v, n, e) /\ \A j \in 1..v : ~(hist[j].uid = e.uid /\ hist[j].gone)
    BY <2>2 DEF Leaves, e
  <2>4. PICK i \in 1..v : hist[i].name = n /\ hist[i].uid = e.uid
    BY <2>3 DEF Shown
  <2>5. At(hist, n, v) = 0
    BY <2>1 DEF o, v
  <2>6. \E j \in 1..v : hist[j].uid = hist[i].uid /\ hist[j].gone
    BY <1>1, <2>4, <2>5, Gone1
  <2> QED
    BY <2>3, <2>4, <2>6
<1>3. o \in DOMAIN hist /\ hist[o].fin /\ hist[o].st = "exited"
  <2>1. o \in DOMAIN hist
    BY <1>1, <1>2, AtDom, HistDom
  <2>2. hist[o].fin
    BY <1>1, <1>2 DEF Finished
  <2> HIDE DEF o
  <2> QED
    BY <1>1, <2>1, <2>2 DEF HistInv
<1>4. e.state \in {"pending", "waiting", "streaming", "grace", "ended"}
  BY <1>1, SessionIs, EntryIs
<1>5. e.state # "pending" /\ e.state # "grace" /\ AtLatest(hist, v, {}, n, e)
  BY SettledFits DEF Sound
<1>6. e.state # "streaming"
  BY NothingRuns
<1>7. e.state # "waiting"
  <2> HIDE DEF e, v
  <2>1. On(e)
    BY DEF e
  <2> QED
    BY <1>2, <1>3, <1>5, <1>6, <2>1 DEF AtLatest, v
<1> QED
  BY <1>2, <1>3, <1>4, <1>5, <1>6, <1>7

LEMMA OngoingRests ==
  ASSUME Invariant
  PROVE  RestsOnlyWhileOngoing
<1>1. SUFFICES ASSUME /\ Settled
                      /\ \A n \in Names : Stored(n) = 0 \/ Finished(Stored(n))
                      /\ Live => Active(session) \cap unsure = {}
                      /\ target = "job" => session.jobChecks < MaxRechecks
                      /\ target = "deployment" => ~Live
               PROVE  FALSE
  BY DEF RestsOnlyWhileOngoing
<1>2. \A n \in Names : session.pods[n].state # "streaming"
  BY <1>1, NothingRuns
<1>3. Live /\ (Ripe(hist, Len(hist), {}, session.pods) =>
                 target = "job" /\ Rechecks({}, FALSE, session.jobChecks))
  <2>1. DueInv(hist, Len(hist), session, {}, Live, target, FALSE) /\ session.closed = "no"
    BY <1>1, SettledIs
  <2>2. Live
    BY <1>2, <2>1 DEF DueInv
  <2>3. Range(session.queue) = {}
    BY <1>1, SettledIs
  <2> QED
    BY <1>1, <2>1, <2>2, <2>3 DEF DueInv
<1>4. ~(target = "job" /\ Rechecks({}, FALSE, session.jobChecks))
  <2>1. session.jobChecks \in 0..MaxRechecks
    BY <1>1, SettledIs, CtxIs, SessionIs
  <2> QED
    BY <1>1, <2>1, Bounds DEF Rechecks
<1>5. ~Ripe(hist, Len(hist), {}, session.pods)
  BY <1>3, <1>4
<1>6. \A n \in Names : On(session.pods[n]) => n \notin unsure
  BY <1>1, <1>3 DEF Active, On
<1>7. \A n \in Names : On(session.pods[n]) =>
        LET o == At(hist, n, Len(hist)) IN
        session.pods[n].state = "ended" /\ o # 0 /\ hist[o].fin
  BY <1>1, <1>3, <1>6, NothingWaits
<1> QED
  BY <1>5, <1>7 DEF Ripe

\* A session that has nothing left to do reads the newest run of every pod it lists,
\* lists all pods of its workload that it is sure of, and waits for something: no
\* order of deltas, answers and timers makes it miss a pod or forget to close.
THEOREM RestsAlways == Spec => []RestsRightly
<1>1. Invariant => RestsRightly
  BY FollowingRests, OngoingRests DEF RestsRightly
<1> QED
  BY <1>1, Always, PTL
==============================================================================
