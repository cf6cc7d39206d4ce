-------------------------- MODULE WatchWire_proofs --------------------------
(***************************************************************************)
(* Through reconnections, resets and lingering: the types, no subscription *)
(* out of its owner's reach, rows that come to what the watcher shows, and *)
(* rows that never go back.  For any numbers of wire ids, watchers,        *)
(* subscriptions, writes and faults.                                       *)
(*                                                                         *)
(* The Map of a socket goes by wire id.  That an entry is never taken away *)
(* from a subscription that came later rests on two orders: the            *)
(* subscriptions of an id (ServedInv) and the watchers they are on.        *)
(* LateRejections breaks it, and only WatcherRejects uses the assumption.  *)
(* So whoever is served is on the newest watcher (BoundInv), what is under *)
(* way is of versions that go up (ChainInv), and it leads from the rows to *)
(* what that watcher shows (ConvInv), but for the objects of the batches   *)
(* that waited for the flush when a snapshot came (WaitInv): these are     *)
(* applied over it.                                                        *)
(***************************************************************************)
EXTENDS WatchWire, SequenceTheorems, WellFoundedInduction, TLAPS

-----------------------------------------------------------------------------
(* The invariant                                                           *)

Requests == [op : {"sub", "unsub"}, id : Ids, objects : {{}}, state : {""}]
Watcher == [life : {"running", "listing", "watching", "relisting", "stopped"}, shows : Nat]
Served == [id : Ids, watcher : Nat, conn : Nat, st : {"waiting", "cancelled", "in", "stopped"}]

\* The types that the rest needs.
PartsInv ==
  /\ log \in Seq(Entry) /\ Len(log) \in Nat \ {0}
  /\ watchers \in Seq(Watcher) /\ current \in {0, Len(watchers)}
  /\ served \in Seq(Served) /\ byId \in [Ids -> Nat]
  /\ conn \in Nat /\ up \in Seq(Requests)
  /\ ids \in 0..MaxIds /\ wire \in 0..ids
  /\ attached \/ linger => wire # NoId
  /\ linger => ~attached

\* The session's watcher is the one that was created last, and it alone runs.
CurrentInv ==
  \A w \in DOMAIN watchers : watchers[w].life = "running" => w = current

Live(s) == s.st \in {"waiting", "in"}

\* A subscription that holds a watcher is the last of its id.
ServedInv ==
  /\ \A k \in DOMAIN served :
       /\ served[k].watcher \in DOMAIN watchers
       /\ served[k].st = "in" => watchers[served[k].watcher].shows # 0
       /\ Live(served[k]) => /\ ws = "open" /\ served[k].conn = conn /\ byId[served[k].id] = k
                             /\ \A j \in DOMAIN served : served[j].id = served[k].id => j <= k
  /\ \A j, k \in DOMAIN served : j <= k => served[j].watcher <= served[k].watcher

\* What the browser does not have any more is given back by what is under way.
UpInv ==
  /\ ws # "open" => up = <<>> /\ \A i \in Ids : byId[i] = 0
  /\ \A i \in Ids \ {wire} :
       /\ byId[i] # 0 => \E j \in DOMAIN up : up[j] = Unsub(i)
       /\ \A j \in DOMAIN up :
            up[j] = Sub(i) => \E m \in DOMAIN up : m > j /\ up[m] = Unsub(i)

IInv == PartsInv /\ CurrentInv /\ ServedInv /\ UpInv

-----------------------------------------------------------------------------
(* Sequences                                                               *)

LEMMA AppendIs ==
  ASSUME NEW S, NEW s \in Seq(S), NEW x \in S
  PROVE  /\ Append(s, x) \in Seq(S) /\ Len(Append(s, x)) = Len(s) + 1 /\ Len(s) \in Nat
         /\ \A k \in DOMAIN s : Append(s, x)[k] = s[k]
         /\ Append(s, x)[Len(s) + 1] = x
         /\ DOMAIN Append(s, x) = DOMAIN s \cup {Len(s) + 1}
<1>1. /\ Append(s, x) \in Seq(S) /\ Len(Append(s, x)) = Len(s) + 1
      /\ Append(s, x)[Len(s) + 1] = x
  OBVIOUS
<1>2. \A k \in DOMAIN s : Append(s, x)[k] = s[k]
  OBVIOUS
<1>3. DOMAIN Append(s, x) = 1..(Len(s) + 1) /\ DOMAIN s = 1..Len(s) /\ Len(s) \in Nat
  OBVIOUS
<1> QED
  BY <1>1, <1>2, <1>3

LEMMA TailIs ==
  ASSUME NEW S, NEW s \in Seq(S), s # <<>>
  PROVE  /\ 1 \in DOMAIN s /\ s[1] = Head(s) /\ Head(s) \in S /\ Tail(s) \in Seq(S)
         /\ \A i \in DOMAIN Tail(s) : i \in Nat \ {0} /\ i + 1 \in DOMAIN s /\ Tail(s)[i] = s[i + 1]
         /\ \A j \in DOMAIN s : /\ j \in Nat \ {0}
                                /\ j # 1 => j - 1 \in DOMAIN Tail(s) /\ Tail(s)[j - 1] = s[j]
<1>1. /\ Len(s) \in Nat \ {0} /\ DOMAIN s = 1..Len(s) /\ s[1] = Head(s) /\ Head(s) \in S
      /\ Len(Tail(s)) = Len(s) - 1 /\ DOMAIN Tail(s) = 1..(Len(s) - 1) /\ Tail(s) \in Seq(S)
  OBVIOUS
<1>2. \A i \in DOMAIN Tail(s) : Tail(s)[i] = s[i + 1]
  OBVIOUS
<1>3. \A j \in DOMAIN s : j # 1 => j - 1 \in DOMAIN Tail(s) /\ Tail(s)[j - 1] = s[j]
  BY <1>1, <1>2
<1> QED
  BY <1>1, <1>2, <1>3

LEMMA RequestsAre ==
  ASSUME NEW i \in Ids
  PROVE  /\ Sub(i) \in Requests /\ Unsub(i) \in Requests
         /\ Sub(i).op = "sub" /\ Unsub(i).op = "unsub" /\ Sub(i).id = i /\ Unsub(i).id = i
         /\ \A j : Sub(i) # Unsub(j)
  BY DEF Sub, Unsub, Msg, Requests

LEMMA RequestIs ==
  ASSUME NEW r \in Requests
  PROVE  /\ r.id \in Ids /\ (r.op = "sub" => r = Sub(r.id)) /\ (r.op = "unsub" => r = Unsub(r.id))
  BY DEF Sub, Unsub, Msg, Requests

-----------------------------------------------------------------------------
(* Induction, and what is defined step by step                             *)

Less == {p \in Nat \X Nat : p[1] < p[2]}

LEMMA NatSetInduction ==
  ASSUME NEW T, 0 \in T, \A n \in Nat : n \in T => n + 1 \in T
  PROVE  Nat \subseteq T
<1> SUFFICES ASSUME Nat \ T # {} PROVE FALSE
  OBVIOUS
<1>1. Less = OpToRel(<, Nat)
  BY DEF Less, OpToRel
<1>2. IsWellFoundedOn(Less, Nat)
  BY <1>1, NatLessThanWellFounded
<1>3. PICK x \in Nat \ T : \A y \in Nat \ T : ~ (<<y, x>> \in Less)
  BY <1>2, WFMin
<1>4. x # 0 /\ x - 1 \in Nat
  BY <1>3
<1>5. <<x - 1, x>> \in Less
  BY <1>4 DEF Less
<1>6. x - 1 \in T
  BY <1>3, <1>4, <1>5
<1> QED
  BY <1>4, <1>6

LEMMA UpTo ==
  ASSUME NEW T, NEW N \in Nat, 0 \in T, \A n \in 1..N : n - 1 \in T => n \in T
  PROVE  \A n \in 0..N : n \in T
<1> DEFINE U == {n \in Nat : n <= N => n \in T}
<1>1. 0 \in U
  OBVIOUS
<1>2. ASSUME NEW n \in Nat, n \in U PROVE n + 1 \in U
  <2> SUFFICES ASSUME n + 1 <= N PROVE n + 1 \in T
    OBVIOUS
  <2>1. n + 1 \in 1..N /\ (n + 1) - 1 \in T
    BY <1>2
  <2> QED
    BY <2>1
<1> HIDE DEF U
<1>3. Nat \subseteq U
  BY <1>1, <1>2, NatSetInduction
<1> QED
  BY <1>3 DEF U

LEMMA StepsExist ==
  ASSUME NEW S, NEW c \in S, NEW N \in Nat, NEW step \in [1..N -> [S -> S]]
  PROVE  \E f \in [0..N -> S] : f[0] = c /\ \A n \in 1..N : f[n] = step[n][f[n - 1]]
<1> DEFINE T == {m \in Nat :
             m <= N => \E f \in [0..m -> S] : f[0] = c /\ \A n \in 1..m : f[n] = step[n][f[n - 1]]}
<1>1. 0 \in T
  <2>1. [n \in 0..0 |-> c] \in [0..0 -> S] /\ [n \in 0..0 |-> c][0] = c
    OBVIOUS
  <2>2. 1..0 = {}
    OBVIOUS
  <2> QED
    BY <2>1, <2>2
<1>2. ASSUME NEW m \in Nat, m \in T PROVE m + 1 \in T
  <2> SUFFICES ASSUME m + 1 <= N
               PROVE  \E g \in [0..(m + 1) -> S] :
                        g[0] = c /\ \A n \in 1..(m + 1) : g[n] = step[n][g[n - 1]]
    BY <1>2
  <2>1. PICK f \in [0..m -> S] : f[0] = c /\ \A n \in 1..m : f[n] = step[n][f[n - 1]]
    BY <1>2
  <2> DEFINE g == [n \in 0..(m + 1) |-> IF n = m + 1 THEN step[m + 1][f[m]] ELSE f[n]]
  <2>2. step[m + 1] \in [S -> S] /\ f[m] \in S
    BY <2>1
  <2>3. g \in [0..(m + 1) -> S]
    BY <2>1, <2>2
  <2>4. g[0] = c
    BY <2>1
  <2>5. ASSUME NEW n \in 1..(m + 1) PROVE g[n] = step[n][g[n - 1]]
    <3>1. CASE n = m + 1
      BY <3>1
    <3>2. CASE n # m + 1
      <4>1. n \in 1..m /\ n - 1 \in 0..m /\ n - 1 # m + 1
        BY <3>2
      <4> QED
        BY <2>1, <3>2, <4>1
    <3> QED
      BY <3>1, <3>2
  <2> QED
    BY <2>3, <2>4, <2>5
<1> HIDE DEF T
<1>3. N \in T
  BY <1>1, <1>2, NatSetInduction
<1> QED
  BY <1>3 DEF T

LEMMA StepsType ==
  ASSUME NEW S, NEW N \in Nat, NEW f, f[0] \in S, \A n \in 1..N : f[n - 1] \in S => f[n] \in S
  PROVE  \A n \in 0..N : f[n] \in S
<1> DEFINE T == {n \in Nat : f[n] \in S}
<1>1. 0 \in T
  OBVIOUS
<1>2. \A n \in 1..N : n - 1 \in T => n \in T
  OBVIOUS
<1> HIDE DEF T
<1>3. \A n \in 0..N : n \in T
  BY <1>1, <1>2, UpTo
<1> QED
  BY <1>3 DEF T

\* Two that go the same steps from the same start end alike.
LEMMA StepsSame ==
  ASSUME NEW N \in Nat, NEW f, NEW g, f[0] = g[0],
         \A n \in 1..N : f[n - 1] = g[n - 1] => f[n] = g[n]
  PROVE  f[N] = g[N]
<1> DEFINE T == {n \in Nat : f[n] = g[n]}
<1>1. 0 \in T
  OBVIOUS
<1>2. \A n \in 1..N : n - 1 \in T => n \in T
  OBVIOUS
<1> HIDE DEF T
<1>3. N \in T
  BY <1>1, <1>2, UpTo
<1> QED
  BY <1>3 DEF T

-----------------------------------------------------------------------------
(* Batches, with the history they are about (l) as an argument             *)

Batch(l, c, d) ==
  {i \in c : \A j \in d : l[i].uid # l[j].uid}
  \cup {i \in d : l[i].type = "SET" /\ \A j \in d : j > i => l[i].uid # l[j].uid}

LEMMA BatchIs == \A c, d : ApplyBatch(c, d) = Batch(log, c, d)
BY DEF ApplyBatch, Batch, SameUid

Batches(l, c, s) ==
  LET after[n \in 0..Len(s)] == IF n = 0 THEN c ELSE Batch(l, after[n - 1], s[n])
  IN after[Len(s)]

\* What is held after each batch.
BatchSteps(l, c, s, f) == f[0] = c /\ \A n \in 1..Len(s) : f[n] = Batch(l, f[n - 1], s[n])

LEMMA BatchesSteps ==
  ASSUME NEW l, NEW c, NEW s, Len(s) \in Nat
  PROVE  \E f : BatchSteps(l, c, s, f) /\ Batches(l, c, s) = f[Len(s)]
<1> DEFINE N == Len(s)
           V == c \cup UNION {s[n] : n \in 1..N}
           S == SUBSET V
           P(f) == f = [n \in 0..N |-> IF n = 0 THEN c ELSE Batch(l, f[n - 1], s[n])]
           F == CHOOSE f : P(f)
           step == [n \in 1..N |-> [x \in S |-> Batch(l, x, s[n])]]
<1>1. Batches(l, c, s) = F[N]
  BY DEF Batches
<1>2. \A n \in 1..N, x \in S : Batch(l, x, s[n]) \in S
  BY DEF Batch
<1>3. c \in S /\ step \in [1..N -> [S -> S]] /\ N \in Nat
  BY <1>2
<1>30. \A n \in 1..N, x \in S : step[n][x] = Batch(l, x, s[n])
  OBVIOUS
<1> HIDE DEF S, V, N, step, P
<1>4. PICK f \in [0..N -> S] : f[0] = c /\ \A n \in 1..N : f[n] = step[n][f[n - 1]]
  BY <1>3, StepsExist
<1>5. \A n \in 1..N : n - 1 \in 0..N
  BY <1>3
<1>50. \A n \in 1..N : f[n] = Batch(l, f[n - 1], s[n])
  BY <1>4, <1>5, <1>30
<1>51. f = [n \in 0..N |-> IF n = 0 THEN c ELSE Batch(l, f[n - 1], s[n])]
  <2>1. \A n \in 0..N : n # 0 => n \in 1..N
    BY <1>3
  <2> QED
    BY <1>4, <1>50, <2>1
<1>6. P(f)
  BY <1>51 DEF P
<1> HIDE DEF F
<1>7. P(F)
  BY <1>6 DEF F
<1>8. F = [n \in 0..N |-> IF n = 0 THEN c ELSE Batch(l, F[n - 1], s[n])]
  BY <1>7 DEF P
<1>9. F[0] = c /\ \A n \in 1..N : F[n] = Batch(l, F[n - 1], s[n])
  <2>1. 0 \in 0..N /\ \A n \in 1..N : n \in 0..N /\ n # 0
    BY <1>3
  <2> QED
    BY <1>8, <2>1
<1> QED
  BY <1>1, <1>9 DEF N, BatchSteps

\* Whoever applies the batches one after the other has the same in the end.
LEMMA BatchesAre ==
  ASSUME NEW l, NEW c, NEW s, Len(s) \in Nat, NEW g, g[0] = c,
         \A n \in 1..Len(s) : g[n] = Batch(l, g[n - 1], s[n])
  PROVE  Batches(l, c, s) = g[Len(s)]
<1>10. PICK f : BatchSteps(l, c, s, f) /\ Batches(l, c, s) = f[Len(s)]
  BY BatchesSteps
<1>1. /\ f[0] = c /\ Batches(l, c, s) = f[Len(s)]
      /\ \A n \in 1..Len(s) : f[n] = Batch(l, f[n - 1], s[n])
  BY <1>10 DEF BatchSteps
<1>2. f[0] = g[0] /\ \A n \in 1..Len(s) : f[n - 1] = g[n - 1] => f[n] = g[n]
  BY <1>1
<1>3. f[Len(s)] = g[Len(s)]
  BY <1>2, StepsSame
<1> QED
  BY <1>1, <1>3

LEMMA ApplyAllIs ==
  ASSUME NEW c, NEW s
  PROVE  ApplyAll(c, s) = Batches(log, c, s)
<1> DEFINE N == Len(s)
           A(f) == [n \in 0..N |-> IF n = 0 THEN c ELSE ApplyBatch(f[n - 1], s[n])]
           B(f) == [n \in 0..N |-> IF n = 0 THEN c ELSE Batch(log, f[n - 1], s[n])]
<1>1. \A f : A(f) = B(f)
  BY BatchIs
<1>2. ApplyAll(c, s) = (CHOOSE f : f = A(f))[N]
  BY DEF ApplyAll
<1>3. Batches(log, c, s) = (CHOOSE f : f = B(f))[N]
  BY DEF Batches
<1> HIDE DEF A, B
<1>4. (CHOOSE f : f = A(f)) = (CHOOSE f : f = B(f))
  BY <1>1, Zenon
<1> QED
  BY <1>2, <1>3, <1>4

LEMMA BatchesNone ==
  ASSUME NEW l, NEW c, NEW s, s = <<>>
  PROVE  Batches(l, c, s) = c
<1>1. Len(s) = 0 /\ 1..0 = {}
  OBVIOUS
<1>2. \E f : f[0] = c /\ Batches(l, c, s) = f[Len(s)]
  BY <1>1, BatchesSteps DEF BatchSteps
<1> QED
  BY <1>1, <1>2

LEMMA BatchesMore ==
  ASSUME NEW l, NEW c, NEW X, NEW s \in Seq(X), NEW x \in X
  PROVE  Batches(l, c, Append(s, x)) = Batch(l, Batches(l, c, s), x)
<1> DEFINE t == Append(s, x)
           N == Len(s)
<1>1. N \in Nat /\ Len(t) = N + 1 /\ t[N + 1] = x /\ \A n \in 1..N : t[n] = s[n]
  OBVIOUS
<1> HIDE DEF t, N
<1>20. PICK f : BatchSteps(l, c, s, f) /\ Batches(l, c, s) = f[Len(s)]
  BY BatchesSteps
<1>2. /\ f[0] = c /\ Batches(l, c, s) = f[N]
      /\ \A n \in 1..N : f[n] = Batch(l, f[n - 1], s[n])
  BY <1>20 DEF BatchSteps, N
<1> DEFINE g == [n \in 0..(N + 1) |-> IF n = N + 1 THEN Batch(l, f[N], x) ELSE f[n]]
<1>3. g[0] = c /\ g[N + 1] = Batch(l, f[N], x)
  BY <1>1, <1>2
<1>4. ASSUME NEW n \in 1..(N + 1)
      PROVE  g[n] = Batch(l, g[n - 1], t[n])
  <2>1. CASE n = N + 1
    <3>1. n - 1 = N /\ N \in 0..(N + 1) /\ N # N + 1
      BY <1>1, <2>1
    <3>2. g[n - 1] = f[N]
      BY <3>1
    <3> QED
      BY <1>1, <1>3, <2>1, <3>2
  <2>2. CASE n # N + 1
    <3>1. n \in 1..N /\ n - 1 \in 0..(N + 1) /\ n \in 0..(N + 1) /\ n - 1 # N + 1
      BY <1>1, <2>2
    <3>2. g[n] = f[n] /\ g[n - 1] = f[n - 1]
      BY <2>2, <3>1
    <3> HIDE DEF g
    <3> QED
      BY <1>1, <1>2, <3>1, <3>2
  <2> QED
    BY <2>1, <2>2
<1> HIDE DEF g
<1>40. Len(t) \in Nat /\ \A n \in 1..Len(t) : g[n] = Batch(l, g[n - 1], t[n])
  BY <1>1, <1>4
<1>5. Batches(l, c, t) = g[Len(t)]
  BY ONLY <1>3, <1>40, BatchesAre
<1> QED
  BY <1>1, <1>2, <1>3, <1>5 DEF t, N

\* What is in the end was there or came with a batch.
LEMMA BatchesFrom ==
  ASSUME NEW l, NEW c, NEW s, Len(s) \in Nat, NEW V, c \subseteq V, \A n \in 1..Len(s) : s[n] \subseteq V
  PROVE  Batches(l, c, s) \subseteq V
<1>10. PICK f : BatchSteps(l, c, s, f) /\ Batches(l, c, s) = f[Len(s)]
  BY BatchesSteps
<1>1. /\ f[0] = c /\ Batches(l, c, s) = f[Len(s)]
      /\ \A n \in 1..Len(s) : f[n] = Batch(l, f[n - 1], s[n])
  BY <1>10 DEF BatchSteps
<1>2. f[0] \in SUBSET V
  BY <1>1
<1>3. \A n \in 1..Len(s) : f[n - 1] \in SUBSET V => f[n] \in SUBSET V
  BY <1>1 DEF Batch
<1>4. \A n \in 0..Len(s) : f[n] \in SUBSET V
  BY <1>2, <1>3, StepsType
<1> QED
  BY <1>1, <1>4

\* At most one version of each object.
One(l, c) == \A i, j \in c : l[i].uid = l[j].uid => i = j

LEMMA BatchOne ==
  ASSUME NEW l, NEW c, NEW d \in SUBSET Int, One(l, c)
  PROVE  One(l, Batch(l, c, d))
<1> SUFFICES ASSUME NEW i \in Batch(l, c, d), NEW j \in Batch(l, c, d), l[i].uid = l[j].uid
             PROVE  i = j
  BY DEF One
<1>1. CASE i \in d /\ j \in d /\ (\A k \in d : k > i => l[i].uid # l[k].uid)
                              /\ (\A k \in d : k > j => l[j].uid # l[k].uid)
  <2>1. i \in Int /\ j \in Int /\ ~ (j > i) /\ ~ (i > j)
    BY <1>1
  <2> QED
    BY <2>1
<1>2. CASE i \in c /\ j \in c
  BY <1>2 DEF One
<1> QED
  BY <1>1, <1>2 DEF Batch

LEMMA BatchesOne ==
  ASSUME NEW l, NEW c, NEW s, Len(s) \in Nat, One(l, c), \A n \in 1..Len(s) : s[n] \in SUBSET Int
  PROVE  One(l, Batches(l, c, s))
<1>10. PICK f : BatchSteps(l, c, s, f) /\ Batches(l, c, s) = f[Len(s)]
  BY BatchesSteps
<1>1. /\ f[0] = c /\ Batches(l, c, s) = f[Len(s)]
      /\ \A n \in 1..Len(s) : f[n] = Batch(l, f[n - 1], s[n])
  BY <1>10 DEF BatchSteps
<1> DEFINE V == c \cup UNION {s[n] : n \in 1..Len(s)}
           S == {x \in SUBSET V : One(l, x)}
<1>2. f[0] \in S
  BY <1>1
<1>3. ASSUME NEW n \in 1..Len(s), f[n - 1] \in S PROVE f[n] \in S
  <2>1. f[n] = Batch(l, f[n - 1], s[n]) /\ s[n] \in SUBSET Int /\ One(l, f[n - 1])
    BY <1>1, <1>3
  <2>2. One(l, f[n])
    BY <2>1, BatchOne
  <2>3. f[n] \subseteq V
    BY <1>3, <2>1 DEF Batch
  <2> QED
    BY <2>2, <2>3
<1> HIDE DEF S
<1>4. \A n \in 0..Len(s) : f[n] \in S
  BY <1>2, <1>3, StepsType
<1>5. f[Len(s)] \in S
  BY <1>4
<1> QED
  BY <1>1, <1>5 DEF S

\* What is written after all that is about does not matter.
Agree(V, l, m) == \A i \in V : l[i] = m[i]

LEMMA BatchGrows ==
  ASSUME NEW V, NEW l, NEW m, Agree(V, l, m), NEW c \in SUBSET V, NEW d \in SUBSET V
  PROVE  Batch(l, c, d) = Batch(m, c, d) /\ Batch(l, c, d) \in SUBSET V
  BY DEF Batch, Agree

LEMMA BatchesGrow ==
  ASSUME NEW V, NEW l, NEW m, Agree(V, l, m), NEW c \in SUBSET V, NEW s, Len(s) \in Nat,
         \A n \in 1..Len(s) : s[n] \in SUBSET V
  PROVE  Batches(l, c, s) = Batches(m, c, s)
<1>10. PICK f : BatchSteps(l, c, s, f) /\ Batches(l, c, s) = f[Len(s)]
  BY BatchesSteps
<1>1. /\ f[0] = c /\ Batches(l, c, s) = f[Len(s)]
      /\ \A n \in 1..Len(s) : f[n] = Batch(l, f[n - 1], s[n])
  BY <1>10 DEF BatchSteps
<1>2. \A n \in 1..Len(s) : f[n - 1] \in SUBSET V => f[n] \in SUBSET V
  BY <1>1, BatchGrows
<1>3. \A n \in 0..Len(s) : f[n] \in SUBSET V
  BY <1>1, <1>2, StepsType
<1>4. \A n \in 1..Len(s) : n - 1 \in 0..Len(s)
  OBVIOUS
<1>5. ASSUME NEW n \in 1..Len(s)
      PROVE  f[n] = Batch(m, f[n - 1], s[n])
  <2>1. f[n - 1] \in SUBSET V /\ s[n] \in SUBSET V
    BY <1>3, <1>4
  <2>2. Batch(l, f[n - 1], s[n]) = Batch(m, f[n - 1], s[n])
    BY <2>1, BatchGrows
  <2> QED
    BY <1>1, <2>2
<1>6. Batches(m, c, s) = f[Len(s)]
  BY <1>1, <1>5, BatchesAre
<1> QED
  BY <1>1, <1>6

-----------------------------------------------------------------------------
(* Messages, for the wire id w and with the history l as arguments          *)

Hear(l, w, c, m) ==
  IF m.id = w /\ m.op = "snapshot" THEN m.objects
  ELSE IF m.id = w /\ m.op = "events" THEN Batch(l, c, m.objects)
  ELSE c

LEMMA AfterIs == \A c, m : After(c, m) = Hear(log, wire, c, m)
<1> SUFFICES ASSUME NEW c, NEW m PROVE After(c, m) = Hear(log, wire, c, m)
  OBVIOUS
<1>1. CASE m.id # wire
  BY <1>1 DEF After, Hear
<1>2. CASE m.id = wire /\ m.op = "snapshot"
  BY <1>2 DEF After, Hear
<1>3. CASE m.id = wire /\ m.op = "events"
  BY <1>3, BatchIs DEF After, Hear
<1>4. CASE m.id = wire /\ m.op # "snapshot" /\ m.op # "events"
  BY <1>4 DEF After, Hear
<1> QED
  BY <1>1, <1>2, <1>3, <1>4

HearAll(l, w, c, s) ==
  LET after[n \in 0..Len(s)] == IF n = 0 THEN c ELSE Hear(l, w, after[n - 1], s[n])
  IN after[Len(s)]

\* What is held after each message.
HearSteps(l, w, c, s, f) == f[0] = c /\ \A n \in 1..Len(s) : f[n] = Hear(l, w, f[n - 1], s[n])

LEMMA HearAllSteps ==
  ASSUME NEW l, NEW w, NEW c, NEW s, Len(s) \in Nat
  PROVE  \E f : HearSteps(l, w, c, s, f) /\ HearAll(l, w, c, s) = f[Len(s)]
<1> DEFINE N == Len(s)
           V == c \cup UNION {s[n].objects : n \in 1..N}
           S == SUBSET V
           P(f) == f = [n \in 0..N |-> IF n = 0 THEN c ELSE Hear(l, w, f[n - 1], s[n])]
           F == CHOOSE f : P(f)
           step == [n \in 1..N |-> [x \in S |-> Hear(l, w, x, s[n])]]
<1>1. HearAll(l, w, c, s) = F[N]
  BY DEF HearAll
<1>2. \A n \in 1..N, x \in S : Hear(l, w, x, s[n]) \in S
  BY DEF Hear, Batch
<1>3. c \in S /\ step \in [1..N -> [S -> S]] /\ N \in Nat
  BY <1>2
<1>30. \A n \in 1..N, x \in S : step[n][x] = Hear(l, w, x, s[n])
  OBVIOUS
<1> HIDE DEF S, V, N, step, P
<1>4. PICK f \in [0..N -> S] : f[0] = c /\ \A n \in 1..N : f[n] = step[n][f[n - 1]]
  BY <1>3, StepsExist
<1>5. \A n \in 1..N : n - 1 \in 0..N
  BY <1>3
<1>50. \A n \in 1..N : f[n] = Hear(l, w, f[n - 1], s[n])
  BY <1>4, <1>5, <1>30
<1>51. f = [n \in 0..N |-> IF n = 0 THEN c ELSE Hear(l, w, f[n - 1], s[n])]
  <2>1. \A n \in 0..N : n # 0 => n \in 1..N
    BY <1>3
  <2> QED
    BY <1>4, <1>50, <2>1
<1>6. P(f)
  BY <1>51 DEF P
<1> HIDE DEF F
<1>7. P(F)
  BY <1>6 DEF F
<1>8. F = [n \in 0..N |-> IF n = 0 THEN c ELSE Hear(l, w, F[n - 1], s[n])]
  BY <1>7 DEF P
<1>9. F[0] = c /\ \A n \in 1..N : F[n] = Hear(l, w, F[n - 1], s[n])
  <2>1. 0 \in 0..N /\ \A n \in 1..N : n \in 0..N /\ n # 0
    BY <1>3
  <2> QED
    BY <1>8, <2>1
<1> QED
  BY <1>1, <1>9 DEF N, HearSteps

LEMMA HearAre ==
  ASSUME NEW l, NEW w, NEW c, NEW s, Len(s) \in Nat, NEW g, g[0] = c,
         \A n \in 1..Len(s) : g[n] = Hear(l, w, g[n - 1], s[n])
  PROVE  HearAll(l, w, c, s) = g[Len(s)]
<1>10. PICK f : HearSteps(l, w, c, s, f) /\ HearAll(l, w, c, s) = f[Len(s)]
  BY HearAllSteps
<1>1. /\ f[0] = c /\ HearAll(l, w, c, s) = f[Len(s)]
      /\ \A n \in 1..Len(s) : f[n] = Hear(l, w, f[n - 1], s[n])
  BY <1>10 DEF HearSteps
<1>2. f[0] = g[0] /\ \A n \in 1..Len(s) : f[n - 1] = g[n - 1] => f[n] = g[n]
  BY <1>1
<1>3. f[Len(s)] = g[Len(s)]
  BY <1>2, StepsSame
<1> QED
  BY <1>1, <1>3

LEMMA ArrivedIs == Arrived = HearAll(log, wire, Batches(log, cache, pending), down)
<1> DEFINE N == Len(down)
           c == ApplyAll(cache, pending)
           A(f) == [n \in 0..N |-> IF n = 0 THEN c ELSE After(f[n - 1], down[n])]
           B(f) == [n \in 0..N |-> IF n = 0 THEN c ELSE Hear(log, wire, f[n - 1], down[n])]
<1>1. \A f : A(f) = B(f)
  BY AfterIs
<1>2. Arrived = (CHOOSE f : f = A(f))[N]
  BY DEF Arrived, AfterAll
<1>3. HearAll(log, wire, c, down) = (CHOOSE f : f = B(f))[N]
  BY DEF HearAll
<1> HIDE DEF A, B
<1>4. (CHOOSE f : f = A(f)) = (CHOOSE f : f = B(f))
  BY <1>1, Zenon
<1> QED
  BY <1>2, <1>3, <1>4, ApplyAllIs

\* A message that changes no rows: to another, or of a status or a reset.
Idle(w, m) == m.id # w \/ (m.op \notin {"snapshot", "events"} /\ m.objects = {})

\* e goes on from d with messages that change no rows.
Others(w, d, e) ==
  /\ DOMAIN d \subseteq DOMAIN e
  /\ \A n \in DOMAIN d : e[n] = d[n]
  /\ \A n \in DOMAIN e : n \notin DOMAIN d => Idle(w, e[n])

LEMMA OthersNone ==
  ASSUME NEW w, NEW d
  PROVE  Others(w, d, d)
  BY DEF Others

LEMMA OthersAgain ==
  ASSUME NEW w, NEW d, NEW e, NEW f, Others(w, d, e), Others(w, e, f)
  PROVE  Others(w, d, f)
  BY DEF Others

LEMMA OthersOne ==
  ASSUME NEW X, NEW w, NEW d \in Seq(X), NEW m \in X, Idle(w, m)
  PROVE  Others(w, d, Append(d, m))
<1>1. /\ \A k \in DOMAIN d : Append(d, m)[k] = d[k]
      /\ Append(d, m)[Len(d) + 1] = m
      /\ DOMAIN Append(d, m) = DOMAIN d \cup {Len(d) + 1}
  BY AppendIs
<1> QED
  BY <1>1 DEF Others

LEMMA HearOthers ==
  ASSUME NEW l, NEW w, NEW c, NEW X, NEW d \in Seq(X), NEW e \in Seq(X), Others(w, d, e)
  PROVE  HearAll(l, w, c, e) = HearAll(l, w, c, d)
<1> DEFINE N == Len(d)
           M == Len(e)
<1>1. N \in Nat /\ M \in Nat /\ DOMAIN d = 1..N /\ DOMAIN e = 1..M
  OBVIOUS
<1>2. /\ 1..N \subseteq 1..M /\ \A n \in 1..N : e[n] = d[n]
      /\ \A n \in 1..M : n \notin 1..N => Idle(w, e[n])
  BY <1>1 DEF Others
<1> HIDE DEF N, M
<1>3. N <= M
  <2>1. N # 0 => N \in 1..N
    BY <1>1
  <2> QED
    BY <1>1, <1>2, <2>1
<1>40. PICK f : HearSteps(l, w, c, d, f) /\ HearAll(l, w, c, d) = f[Len(d)]
  BY <1>1, HearAllSteps DEF N
<1>4. f[0] = c /\ HearAll(l, w, c, d) = f[N] /\ \A n \in 1..N : f[n] = Hear(l, w, f[n - 1], d[n])
  BY <1>40 DEF HearSteps, N
<1> DEFINE g == [n \in 0..M |-> IF n <= N THEN f[n] ELSE f[N]]
<1>5. g[0] = c /\ g[M] = f[N]
  <2>1. 0 \in 0..M /\ 0 <= N /\ M \in 0..M /\ (M <= N => M = N)
    BY <1>1, <1>3
  <2> QED
    BY <1>4, <2>1
<1>6. ASSUME NEW n \in 1..M
      PROVE  g[n] = Hear(l, w, g[n - 1], e[n])
  <2>1. n \in 0..M /\ n - 1 \in 0..M /\ n \in Nat /\ n - 1 \in Nat
    BY <1>1
  <2>2. CASE n <= N
    <3>1. n \in 1..N /\ n - 1 <= N
      BY <1>1, <2>2
    <3>2. g[n] = f[n] /\ g[n - 1] = f[n - 1] /\ e[n] = d[n]
      BY <1>2, <2>1, <2>2, <3>1
    <3> HIDE DEF g
    <3> QED
      BY <1>4, <3>1, <3>2
  <2>3. CASE ~ (n <= N)
    <3>1. n \notin 1..N /\ (n - 1 <= N => n - 1 = N)
      BY <1>1, <2>1, <2>3
    <3>2. g[n] = f[N] /\ g[n - 1] = f[N] /\ Idle(w, e[n])
      BY <1>2, <2>1, <2>3, <3>1
    <3> HIDE DEF g
    <3> QED
      BY <3>2 DEF Hear, Idle
  <2> QED
    BY <2>2, <2>3
<1> HIDE DEF g
<1>7. Len(e) \in Nat /\ g[Len(e)] = f[N] /\ \A n \in 1..Len(e) : g[n] = Hear(l, w, g[n - 1], e[n])
  BY <1>1, <1>5, <1>6 DEF M
<1>8. HearAll(l, w, c, e) = g[Len(e)]
  BY <1>5, <1>7, HearAre
<1> QED
  BY <1>4, <1>7, <1>8

LEMMA HearMore ==
  ASSUME NEW l, NEW w, NEW c, NEW X, NEW s \in Seq(X), NEW x \in X
  PROVE  HearAll(l, w, c, Append(s, x)) = Hear(l, w, HearAll(l, w, c, s), x)
<1> DEFINE t == Append(s, x)
           N == Len(s)
<1>1. N \in Nat /\ Len(t) = N + 1 /\ t[N + 1] = x /\ \A n \in 1..N : t[n] = s[n]
  OBVIOUS
<1> HIDE DEF t, N
<1>20. PICK f : HearSteps(l, w, c, s, f) /\ HearAll(l, w, c, s) = f[Len(s)]
  BY <1>1, HearAllSteps DEF N
<1>2. f[0] = c /\ HearAll(l, w, c, s) = f[N] /\ \A n \in 1..N : f[n] = Hear(l, w, f[n - 1], s[n])
  BY <1>20 DEF HearSteps, N
<1> DEFINE g == [n \in 0..(N + 1) |-> IF n = N + 1 THEN Hear(l, w, f[N], x) ELSE f[n]]
<1>3. g[0] = c /\ g[N + 1] = Hear(l, w, f[N], x)
  BY <1>1, <1>2
<1>4. ASSUME NEW n \in 1..(N + 1)
      PROVE  g[n] = Hear(l, w, g[n - 1], t[n])
  <2>1. CASE n = N + 1
    <3>1. n - 1 = N /\ N \in 0..(N + 1) /\ N # N + 1
      BY <1>1, <2>1
    <3>2. g[n - 1] = f[N]
      BY <3>1
    <3> QED
      BY <1>1, <1>3, <2>1, <3>2
  <2>2. CASE n # N + 1
    <3>1. n \in 1..N /\ n - 1 \in 0..(N + 1) /\ n \in 0..(N + 1) /\ n - 1 # N + 1
      BY <1>1, <2>2
    <3>2. g[n] = f[n] /\ g[n - 1] = f[n - 1]
      BY <2>2, <3>1
    <3> HIDE DEF g
    <3> QED
      BY <1>1, <1>2, <3>1, <3>2
  <2> QED
    BY <2>1, <2>2
<1> HIDE DEF g
<1>40. Len(t) \in Nat /\ \A n \in 1..Len(t) : g[n] = Hear(l, w, g[n - 1], t[n])
  BY <1>1, <1>4
<1>5. HearAll(l, w, c, t) = g[Len(t)]
  BY ONLY <1>3, <1>40, HearAre
<1> QED
  BY <1>1, <1>2, <1>3, <1>5 DEF t, N

\* The first message may as well be heard before.
LEMMA HearFirst ==
  ASSUME NEW l, NEW w, NEW c, NEW X, NEW s \in Seq(X), s # <<>>
  PROVE  HearAll(l, w, c, s) = HearAll(l, w, Hear(l, w, c, Head(s)), Tail(s))
<1> DEFINE t == Tail(s)
           N == Len(t)
           h == Hear(l, w, c, Head(s))
<1>1. N \in Nat /\ Len(s) \in Nat /\ Len(s) = N + 1 /\ s[1] = Head(s) /\ \A n \in 1..N : t[n] = s[n + 1]
  OBVIOUS
<1> HIDE DEF t, N
<1>20. PICK f : HearSteps(l, w, c, s, f) /\ HearAll(l, w, c, s) = f[Len(s)]
  <2>1. Len(s) \in Nat
    BY <1>1
  <2> QED
    BY ONLY <2>1, HearAllSteps
<1>2. /\ f[0] = c /\ HearAll(l, w, c, s) = f[N + 1]
      /\ \A n \in 1..(N + 1) : f[n] = Hear(l, w, f[n - 1], s[n])
  BY <1>1, <1>20 DEF HearSteps
<1> DEFINE g == [n \in 0..N |-> f[n + 1]]
<1>3. g[0] = h /\ g[N] = f[N + 1]
  <2>1. 1 \in 1..(N + 1) /\ 0 \in 0..N /\ N \in 0..N /\ 1 - 1 = 0 /\ 0 + 1 = 1
    BY <1>1
  <2>2. f[1] = Hear(l, w, f[0], s[1])
    BY <1>2, <2>1
  <2> QED
    BY <1>1, <1>2, <2>1, <2>2
<1>4. ASSUME NEW n \in 1..N
      PROVE  g[n] = Hear(l, w, g[n - 1], t[n])
  <2>1. n + 1 \in 1..(N + 1) /\ n \in 0..N /\ n - 1 \in 0..N /\ (n - 1) + 1 = n /\ (n + 1) - 1 = n
    BY <1>1
  <2>2. g[n] = f[n + 1] /\ g[n - 1] = f[n]
    BY <2>1
  <2> HIDE DEF g, h
  <2>3. f[n + 1] = Hear(l, w, f[n], s[n + 1])
    BY <1>2, <2>1
  <2> QED
    BY <1>1, <2>2, <2>3
<1> HIDE DEF g, h
<1>40. Len(t) \in Nat /\ g[Len(t)] = f[N + 1] /\ \A n \in 1..Len(t) : g[n] = Hear(l, w, g[n - 1], t[n])
  BY <1>1, <1>3, <1>4 DEF N
<1>5. HearAll(l, w, h, t) = g[Len(t)]
  BY ONLY <1>3, <1>40, HearAre
<1> QED
  BY <1>2, <1>40, <1>5 DEF t, h

LEMMA HearGrows ==
  ASSUME NEW V, NEW l, NEW m, Agree(V, l, m), NEW w, NEW c \in SUBSET V, NEW x, x.objects \in SUBSET V
  PROVE  Hear(l, w, c, x) = Hear(m, w, c, x) /\ Hear(l, w, c, x) \in SUBSET V
<1>1. Batch(l, c, x.objects) = Batch(m, c, x.objects) /\ Batch(l, c, x.objects) \in SUBSET V
  BY BatchGrows
<1> QED
  BY <1>1 DEF Hear

LEMMA HearAllGrow ==
  ASSUME NEW V, NEW l, NEW m, Agree(V, l, m), NEW w, NEW c \in SUBSET V, NEW s, Len(s) \in Nat,
         \A n \in 1..Len(s) : s[n].objects \in SUBSET V
  PROVE  HearAll(l, w, c, s) = HearAll(m, w, c, s) /\ HearAll(l, w, c, s) \in SUBSET V
<1>10. PICK f : HearSteps(l, w, c, s, f) /\ HearAll(l, w, c, s) = f[Len(s)]
  BY HearAllSteps
<1>1. /\ f[0] = c /\ HearAll(l, w, c, s) = f[Len(s)]
      /\ \A n \in 1..Len(s) : f[n] = Hear(l, w, f[n - 1], s[n])
  BY <1>10 DEF HearSteps
<1>2. ASSUME NEW n \in 1..Len(s), f[n - 1] \in SUBSET V
      PROVE  f[n] \in SUBSET V
  <2>1. Hear(l, w, f[n - 1], s[n]) \in SUBSET V
    BY <1>2, HearGrows
  <2> QED
    BY <1>1, <2>1
<1>3. \A n \in 0..Len(s) : f[n] \in SUBSET V
  BY <1>1, <1>2, StepsType
<1>4. \A n \in 1..Len(s) : n - 1 \in 0..Len(s)
  OBVIOUS
<1>5. ASSUME NEW n \in 1..Len(s)
      PROVE  f[n] = Hear(m, w, f[n - 1], s[n])
  <2>1. f[n - 1] \in SUBSET V /\ s[n].objects \in SUBSET V
    BY <1>3, <1>4
  <2>2. Hear(l, w, f[n - 1], s[n]) = Hear(m, w, f[n - 1], s[n])
    BY <2>1, HearGrows, SMTT(30)
  <2> QED
    BY <1>1, <2>2
<1>6. HearAll(m, w, c, s) = f[Len(s)]
  BY <1>1, <1>5, HearAre
<1>7. Len(s) \in 0..Len(s)
  OBVIOUS
<1> QED
  BY <1>1, <1>3, <1>6, <1>7

-----------------------------------------------------------------------------
(* One object at a time                                                    *)

\* The row of object u.
Of(l, u, c) == {i \in c : l[i].uid = u}

\* Message m says what the row of object u is, whatever it was before.
Tells(l, w, m, u) ==
  m.id = w /\ (m.op = "snapshot" \/ (m.op = "events" /\ \E i \in m.objects : l[i].uid = u))

Touches(l, w, d, u) == \E n \in DOMAIN d : Tells(l, w, d[n], u)

LEMMA BatchOf ==
  ASSUME NEW l, NEW u, NEW b, NEW c, NEW d,
         Of(l, u, b) = Of(l, u, c) \/ \E i \in d : l[i].uid = u
  PROVE  Of(l, u, Batch(l, b, d)) = Of(l, u, Batch(l, c, d))
<1>1. \A i : i \in Of(l, u, Batch(l, b, d)) => i \in Of(l, u, Batch(l, c, d))
  BY DEF Of, Batch
<1>2. \A i : i \in Of(l, u, Batch(l, c, d)) => i \in Of(l, u, Batch(l, b, d))
  BY DEF Of, Batch
<1> QED
  BY <1>1, <1>2

LEMMA HearOf ==
  ASSUME NEW l, NEW w, NEW u, NEW b, NEW c, NEW m,
         Of(l, u, b) = Of(l, u, c) \/ Tells(l, w, m, u)
  PROVE  Of(l, u, Hear(l, w, b, m)) = Of(l, u, Hear(l, w, c, m))
<1>1. CASE m.id = w /\ m.op = "snapshot"
  BY <1>1 DEF Hear
<1>2. CASE m.id = w /\ m.op = "events"
  <2>1. Of(l, u, Batch(l, b, m.objects)) = Of(l, u, Batch(l, c, m.objects))
    BY <1>2, BatchOf DEF Tells
  <2> QED
    BY <1>2, <2>1 DEF Hear
<1>3. CASE m.id # w \/ m.op \notin {"snapshot", "events"}
  BY <1>3 DEF Hear, Tells
<1> QED
  BY <1>1, <1>2, <1>3

LEMMA HearAllOf ==
  ASSUME NEW l, NEW w, NEW u, NEW b, NEW c, NEW X, NEW s \in Seq(X),
         Of(l, u, b) = Of(l, u, c) \/ Touches(l, w, s, u)
  PROVE  Of(l, u, HearAll(l, w, b, s)) = Of(l, u, HearAll(l, w, c, s))
<1> DEFINE N == Len(s)
<1>1. N \in Nat /\ DOMAIN s = 1..N
  OBVIOUS
<1>2. PICK f : HearSteps(l, w, b, s, f) /\ HearAll(l, w, b, s) = f[N]
  BY <1>1, HearAllSteps
<1>3. PICK g : HearSteps(l, w, c, s, g) /\ HearAll(l, w, c, s) = g[N]
  BY <1>1, HearAllSteps
<1>4. /\ f[0] = b /\ \A n \in 1..N : f[n] = Hear(l, w, f[n - 1], s[n])
      /\ g[0] = c /\ \A n \in 1..N : g[n] = Hear(l, w, g[n - 1], s[n])
  BY <1>2, <1>3 DEF HearSteps
<1> HIDE DEF N
<1> DEFINE Told1(n) == Of(l, u, b) = Of(l, u, c) \/ \E k \in 1..n : Tells(l, w, s[k], u)
           T == {n \in 0..N : Told1(n) => Of(l, u, f[n]) = Of(l, u, g[n])}
<1>5. 0 \in T
  <2>1. 1..0 = {} /\ 0 \in 0..N
    BY <1>1
  <2> QED
    BY <1>4, <2>1
<1>6. ASSUME NEW n \in 1..N, n - 1 \in T
      PROVE  n \in T
  <2>1. n \in 0..N /\ 1..n = (1..(n - 1)) \cup {n}
    BY <1>1
  <2>2. ASSUME Told1(n)
        PROVE  Of(l, u, f[n]) = Of(l, u, g[n])
    <3>1. Told1(n - 1) \/ Tells(l, w, s[n], u)
      BY <2>1, <2>2
    <3>2. Of(l, u, f[n - 1]) = Of(l, u, g[n - 1]) \/ Tells(l, w, s[n], u)
      BY <1>6, <3>1
    <3>3. Of(l, u, Hear(l, w, f[n - 1], s[n])) = Of(l, u, Hear(l, w, g[n - 1], s[n]))
      BY <3>2, HearOf
    <3> QED
      BY <1>4, <3>3
  <2> QED
    BY <2>1, <2>2
<1> HIDE DEF T
<1>7. N \in T
  <2>1. \A n \in 0..N : n \in T
    BY <1>1, <1>5, <1>6, UpTo
  <2> QED
    BY <1>1, <2>1
<1>8. Told1(N)
  BY <1>1 DEF Touches
<1> QED
  BY <1>2, <1>3, <1>7, <1>8 DEF T

\* Everything the batches are about.
All(p) == UNION {p[n] : n \in DOMAIN p}

LEMMA BatchesOf ==
  ASSUME NEW l, NEW u, NEW c, NEW X, NEW p \in Seq(X), \A i \in All(p) : l[i].uid # u
  PROVE  Of(l, u, Batches(l, c, p)) = Of(l, u, c)
<1> DEFINE N == Len(p)
<1>1. N \in Nat /\ DOMAIN p = 1..N
  OBVIOUS
<1>2. PICK f : BatchSteps(l, c, p, f) /\ Batches(l, c, p) = f[N]
  BY <1>1, BatchesSteps
<1>3. f[0] = c /\ \A n \in 1..N : f[n] = Batch(l, f[n - 1], p[n])
  BY <1>2 DEF BatchSteps
<1>4. \A n \in 1..N : \A i \in p[n] : l[i].uid # u
  BY <1>1 DEF All
<1> HIDE DEF N
<1> DEFINE T == {n \in 0..N : Of(l, u, f[n]) = Of(l, u, c)}
<1>5. 0 \in T
  BY <1>1, <1>3
<1>6. ASSUME NEW n \in 1..N, n - 1 \in T
      PROVE  n \in T
  <2>1. Of(l, u, Batch(l, f[n - 1], p[n])) = Of(l, u, f[n - 1])
    BY <1>4 DEF Of, Batch
  <2> QED
    BY <1>3, <1>6, <2>1
<1> HIDE DEF T
<1>7. \A n \in 0..N : n \in T
  BY <1>1, <1>5, <1>6, UpTo
<1> QED
  BY <1>1, <1>2, <1>7 DEF T

LEMMA OthersTouch ==
  ASSUME NEW l, NEW w, NEW d, NEW e, NEW u, Others(w, d, e), Touches(l, w, e, u)
  PROVE  Touches(l, w, d, u)
  BY DEF Others, Touches, Tells, Idle

-----------------------------------------------------------------------------
(* The store                                                               *)

Store(l, r) ==
  {i \in 1..r : l[i].type = "SET" /\ \A j \in (i + 1)..r : l[j].uid # l[i].uid}

LEMMA StoreIs == \A r : StoreAt(r) = Store(log, r)
  BY DEF StoreAt, Store

LEMMA StoreOne ==
  ASSUME NEW l, NEW r \in Nat
  PROVE  One(l, Store(l, r)) /\ Store(l, r) \subseteq 1..r
<1>1. ASSUME NEW i \in Store(l, r), NEW j \in Store(l, r), l[i].uid = l[j].uid, i < j
      PROVE  FALSE
  <2>1. j \in (i + 1)..r
    BY <1>1 DEF Store
  <2> QED
    BY <1>1, <2>1 DEF Store
<1>2. ASSUME NEW i \in Store(l, r), NEW j \in Store(l, r), l[i].uid = l[j].uid
      PROVE  i = j
  <2>1. i \in Int /\ j \in Int
    BY DEF Store
  <2>2. ~ (i < j) /\ ~ (j < i)
    BY <1>1, <1>2
  <2> QED
    BY <2>1, <2>2
<1> QED
  BY <1>2 DEF One, Store

\* An object's write is followed by its last one.
LEMMA LastWrite ==
  ASSUME NEW l, NEW q \in Nat, NEW a \in 1..q
  PROVE  \E m \in a..q : l[m].uid = l[a].uid /\ \A j \in (m + 1)..q : l[j].uid # l[a].uid
<1> DEFINE u == l[a].uid
           IsLast(m) == l[m].uid = u /\ \A j \in (m + 1)..q : l[j].uid # u
           T == {n \in Nat : \A i \in 1..q : i + n >= q /\ l[i].uid = u => \E m \in i..q : IsLast(m)}
<1>1. 0 \in T
  <2>1. ASSUME NEW i \in 1..q, i + 0 >= q, l[i].uid = u
        PROVE  \E m \in i..q : IsLast(m)
    <3>1. i = q /\ i \in i..q /\ (i + 1)..q = {}
      BY <2>1
    <3> QED
      BY <2>1, <3>1
  <2> QED
    BY <2>1
<1>2. ASSUME NEW n \in Nat, n \in T
      PROVE  n + 1 \in T
  <2>1. ASSUME NEW i \in 1..q, i + (n + 1) >= q, l[i].uid = u
        PROVE  \E m \in i..q : IsLast(m)
    <3>1. CASE \E j \in (i + 1)..q : l[j].uid = u
      <4>1. PICK j \in (i + 1)..q : l[j].uid = u
        BY <3>1
      <4>2. j \in 1..q /\ j + n >= q
        BY <2>1
      <4> HIDE DEF IsLast
      <4>3. PICK m \in j..q : IsLast(m)
        BY <1>2, <4>1, <4>2
      <4>4. m \in i..q
        OBVIOUS
      <4> QED
        BY <4>3, <4>4
    <3>2. CASE ~\E j \in (i + 1)..q : l[j].uid = u
      <4>1. i \in i..q
        OBVIOUS
      <4> QED
        BY <2>1, <3>2, <4>1
    <3> QED
      BY <3>1, <3>2
  <2> QED
    BY <2>1
<1> HIDE DEF T
<1>3. q \in T
  BY <1>1, <1>2, NatSetInduction
<1>4. a + q >= q
  OBVIOUS
<1>5. \E m \in a..q : IsLast(m)
  BY <1>3, <1>4 DEF T
<1> QED
  BY <1>5

\* A batch that has every last write since p, and of the deletions those of what
\* the store had, leads from the store at p to the store at q.
LEMMA StoreMore ==
  ASSUME NEW l \in Seq(Entry), NEW p \in Nat, NEW q \in Nat, p <= q, q <= Len(l),
         NEW D \in SUBSET ((p + 1)..q),
         \A i \in (p + 1)..q :
           /\ \A j \in (i + 1)..q : l[j].uid # l[i].uid
           /\ \/ l[i].type = "SET"
              \/ l[i].type = "DELETED" /\ \E j \in Store(l, p) \cup D : j < i /\ l[j].uid = l[i].uid
           => i \in D
  PROVE  Batch(l, Store(l, p), D) = Store(l, q)
<1>1. \A i \in 1..q : i \in 1..Len(l) /\ l[i] \in Entry
  <2>1. \A i \in 1..q : i \in 1..Len(l)
    OBVIOUS
  <2> QED
    BY <2>1
<1>2. ASSUME NEW x \in Store(l, q)
      PROVE  x \in Batch(l, Store(l, p), D)
  <2>1. x \in 1..q /\ l[x].type = "SET" /\ \A j \in (x + 1)..q : l[j].uid # l[x].uid
    BY DEF Store
  <2>2. CASE x <= p
    <3>1. x \in 1..p /\ \A j \in (x + 1)..p : j \in (x + 1)..q
      BY <2>1, <2>2
    <3>2. x \in Store(l, p)
      BY <2>1, <3>1 DEF Store
    <3>3. \A j \in D : j \in (x + 1)..q
      BY <2>1, <2>2
    <3> QED
      BY <2>1, <3>2, <3>3 DEF Batch
  <2>3. CASE ~ (x <= p)
    <3>1. x \in (p + 1)..q
      BY <2>1, <2>3
    <3>2. x \in D
      BY <2>1, <3>1
    <3>3. \A j \in D : j > x => j \in (x + 1)..q
      BY <2>1
    <3> QED
      BY <2>1, <3>2, <3>3 DEF Batch
  <2> QED
    BY <2>2, <2>3
<1>3. ASSUME NEW x \in Batch(l, Store(l, p), D)
      PROVE  x \in Store(l, q)
  <2>1. /\ x \in 1..q /\ l[x].type = "SET" /\ x \in Store(l, p) \cup D
        /\ \A j \in D : j > x => l[x].uid # l[j].uid
    <3>1. CASE x \in Store(l, p) /\ \A j \in D : l[x].uid # l[j].uid
      <4>1. x \in 1..p /\ l[x].type = "SET"
        BY <3>1 DEF Store
      <4>2. x \in 1..q
        BY <4>1
      <4> QED
        BY <3>1, <4>1, <4>2
    <3>2. CASE x \in D /\ l[x].type = "SET" /\ \A j \in D : j > x => l[x].uid # l[j].uid
      BY <3>2
    <3> QED
      BY <3>1, <3>2 DEF Batch
  <2>2. ASSUME NEW j \in (x + 1)..q, l[j].uid = l[x].uid
        PROVE  FALSE
    <3>1. j \in 1..q
      BY <2>1
    <3>2. PICK m \in j..q : l[m].uid = l[j].uid /\ \A k \in (m + 1)..q : l[k].uid # l[j].uid
      BY <3>1, LastWrite
    <3>3. m \in (x + 1)..q /\ m \in 1..q /\ x < m /\ l[m].uid = l[x].uid
      BY <2>1, <2>2, <3>1, <3>2
    <3>4. m \in (p + 1)..q
      <4>1. CASE x \in Store(l, p)
        <5>1. m \notin (x + 1)..p
          BY <3>3, <4>1 DEF Store
        <5> QED
          BY <2>1, <3>3, <5>1
      <4>2. CASE x \in D
        BY <3>3, <4>2
      <4> QED
        BY <2>1, <4>1, <4>2
    <3>5. l[m].type \in {"SET", "DELETED"}
      <4>1. l[m] \in Entry /\ l[x] \in Entry
        BY <1>1, <2>1, <3>3
      <4>2. l[x].uid \in Uids
        BY <2>1, <4>1 DEF Entry
      <4>3. l[m].uid # Other
        BY <3>3, <4>2, UidAssumption
      <4> QED
        BY <4>1, <4>3 DEF Entry
    <3>6. m \in D
      <4>1. \A k \in (m + 1)..q : l[k].uid # l[m].uid
        BY <3>2
      <4>2. \E k \in Store(l, p) \cup D : k < m /\ l[k].uid = l[m].uid
        BY <2>1, <3>3
      <4> QED
        BY <3>4, <3>5, <4>1, <4>2
    <3>7. m > x
      BY <3>3, <2>1
    <3> QED
      BY <2>1, <3>3, <3>6, <3>7
  <2>3. \A j \in (x + 1)..q : l[j].uid # l[x].uid
    BY <2>2
  <2> QED
    BY <2>1, <2>3 DEF Store
<1> QED
  BY <1>2, <1>3

LEMMA ChunkMoves ==
  ASSUME log \in Seq(Entry), NEW p \in Nat, NEW q \in Nat, p <= q, q <= Len(log)
  PROVE  /\ Chunk(p, q) \subseteq (p + 1)..q
         /\ Batch(log, Store(log, p), Chunk(p, q)) = Store(log, q)
<1>1. Chunk(p, q) \in SUBSET ((p + 1)..q)
  BY DEF Chunk
<1>2. \A i \in (p + 1)..q : log[i].type \in {"SET", "DELETED"} => i \in Chunk(p, q)
  BY DEF Chunk, Own
<1> QED
  BY <1>1, <1>2, StoreMore

LEMMA DiffMoves ==
  ASSUME log \in Seq(Entry), NEW p \in Nat, NEW q \in Nat, p <= q, q <= Len(log)
  PROVE  /\ Diff(p, q) \subseteq (p + 1)..q
         /\ Batch(log, Store(log, p), Diff(p, q)) = Store(log, q)
<1>1. Diff(p, q) \in SUBSET ((p + 1)..q)
  BY DEF Diff, Chunk
<1>2. ASSUME NEW i \in (p + 1)..q, \A j \in (i + 1)..q : log[j].uid # log[i].uid,
             \/ log[i].type = "SET"
             \/ /\ log[i].type = "DELETED"
                /\ \E j \in Store(log, p) \cup Diff(p, q) : j < i /\ log[j].uid = log[i].uid
      PROVE  i \in Diff(p, q)
  <2>1. i \in Chunk(p, q) /\ \A j \in (i + 1)..q : ~SameUid(i, j)
    BY <1>2 DEF Chunk, Own, SameUid
  <2>2. ASSUME log[i].type = "DELETED"
        PROVE  \E j \in StoreAt(p) : SameUid(i, j)
    <3>1. PICK j \in Store(log, p) \cup Diff(p, q) : j < i /\ log[j].uid = log[i].uid
      BY <1>2, <2>2
    <3>2. CASE j \in Store(log, p)
      BY <3>1, <3>2, StoreIs DEF SameUid
    <3>3. CASE j \in Diff(p, q)
      <4>1. i \in (j + 1)..q
        BY <1>1, <3>1, <3>3
      <4> QED
        BY <3>1, <3>3, <4>1 DEF Diff, SameUid
    <3> QED
      BY <3>2, <3>3
  <2> QED
    BY <2>1, <2>2 DEF Diff
<1> QED
  BY <1>1, <1>2, StoreMore

-----------------------------------------------------------------------------
(* What the socket sends                                                   *)

LEMMA SendsSteps ==
  ASSUME NEW S, NEW messages, Sends(S, messages), Len(served) \in Nat,
         NEW X, down \in Seq(X), \A k \in S : messages[k] \in Seq(X),
         NEW T, <<0, down>> \in T,
         \A k \in 1..Len(served), d \in Seq(X) :
           <<k - 1, d>> \in T =>
             <<k, IF k \in S /\ Reaches(k) THEN d \o messages[k] ELSE d>> \in T
  PROVE  down' \in Seq(X) /\ <<Len(served), down'>> \in T
<1> DEFINE N == Len(served)
           go(k, d) == IF k \in S /\ Reaches(k) THEN d \o messages[k] ELSE d
           P(f) == f = [k \in 0..N |-> IF k = 0 THEN down ELSE go(k, f[k - 1])]
           F == CHOOSE f : P(f)
           step == [k \in 1..N |-> [d \in Seq(X) |-> go(k, d)]]
<1>1. down' = F[N]
  <2>1. \A f, k : go(k, f[k - 1]) =
                   IF k \in S /\ Reaches(k) THEN f[k - 1] \o messages[k] ELSE f[k - 1]
    OBVIOUS
  <2>2. \A f : [k \in 0..N |-> IF k = 0 THEN down ELSE go(k, f[k - 1])] =
               [k \in 0..N |-> IF k = 0 THEN down
                               ELSE IF k \in S /\ Reaches(k) THEN f[k - 1] \o messages[k] ELSE f[k - 1]]
    BY <2>1
  <2>3. (CHOOSE f : P(f)) =
        (CHOOSE f : f = [k \in 0..N |-> IF k = 0 THEN down
                                        ELSE IF k \in S /\ Reaches(k) THEN f[k - 1] \o messages[k]
                                             ELSE f[k - 1]])
    OBVIOUS
  <2> QED
    BY <2>3 DEF Sends
<1>2. \A k \in 1..N, d \in Seq(X) : go(k, d) \in Seq(X)
  OBVIOUS
<1>3. step \in [1..N -> [Seq(X) -> Seq(X)]] /\ N \in Nat
  BY <1>2
<1>4. \A k \in 1..N, d \in Seq(X) : step[k][d] = go(k, d)
  OBVIOUS
<1>5. \A k \in 1..N, d \in Seq(X) : <<k - 1, d>> \in T => <<k, go(k, d)>> \in T
  OBVIOUS
<1> HIDE DEF N, step, P, go
<1>6. PICK f \in [0..N -> Seq(X)] : f[0] = down /\ \A k \in 1..N : f[k] = step[k][f[k - 1]]
  <2> DEFINE Q == Seq(X)
  <2>1. down \in Q /\ N \in Nat /\ step \in [1..N -> [Q -> Q]]
    BY <1>3
  <2> HIDE DEF Q
  <2>2. \E f \in [0..N -> Q] : f[0] = down /\ \A k \in 1..N : f[k] = step[k][f[k - 1]]
    BY ONLY <2>1, StepsExist
  <2> QED
    BY <2>2 DEF Q
<1>7. \A k \in 1..N : k - 1 \in 0..N /\ f[k] = go(k, f[k - 1])
  <2>1. \A k \in 1..N : k - 1 \in 0..N
    BY <1>3
  <2> QED
    BY <1>4, <1>6, <2>1
<1>8. f = [k \in 0..N |-> IF k = 0 THEN down ELSE go(k, f[k - 1])]
  <2>1. \A k \in 0..N : k # 0 => k \in 1..N
    BY <1>3
  <2> QED
    BY <1>6, <1>7, <2>1
<1>9. P(f)
  BY <1>8 DEF P
<1> HIDE DEF F
<1>10. P(F)
  BY <1>9 DEF F
<1>11. F = [k \in 0..N |-> IF k = 0 THEN down ELSE go(k, F[k - 1])]
  BY <1>10 DEF P
<1>12. F[0] = down /\ \A k \in 1..N : F[k] = go(k, F[k - 1])
  <2>1. 0 \in 0..N /\ \A k \in 1..N : k \in 0..N /\ k # 0
    BY <1>3
  <2> QED
    BY <1>11, <2>1
<1> DEFINE G == [k \in 0..N |-> <<k, F[k]>>]
           U == {p \in T : p[2] \in Seq(X)}
<1>13. G[0] \in U
  BY <1>3, <1>12
<1>14. ASSUME NEW k \in 1..N, G[k - 1] \in U
       PROVE  G[k] \in U
  <2>1. k - 1 \in 0..N /\ k \in 0..N
    BY <1>3
  <2>2. G[k - 1] = <<k - 1, F[k - 1]>> /\ G[k] = <<k, F[k]>>
    BY <2>1
  <2>3. F[k - 1] \in Seq(X) /\ <<k - 1, F[k - 1]>> \in T
    <3> DEFINE p == <<k - 1, F[k - 1]>>
    <3>1. p \in T /\ p[2] \in Seq(X)
      BY <1>14, <2>2 DEF U
    <3>2. p[2] = F[k - 1]
      OBVIOUS
    <3> QED
      BY <3>1, <3>2
  <2>4. F[k] \in Seq(X) /\ <<k, F[k]>> \in T
    BY <1>2, <1>5, <1>12, <2>3 DEF go
  <2> QED
    BY <2>2, <2>4
<1> HIDE DEF U, G
<1>15. \A k \in 0..N : G[k] \in U
  BY <1>3, <1>13, <1>14, StepsType
<1>16. <<N, F[N]>> \in T /\ F[N] \in Seq(X)
  BY <1>3, <1>15 DEF G, U
<1> QED
  BY <1>1, <1>16 DEF N

LEMMA OthersMany ==
  ASSUME NEW X, NEW w, NEW d \in Seq(X), NEW s \in Seq(X), \A n \in DOMAIN s : Idle(w, s[n])
  PROVE  Others(w, d, d \o s)
<1> DEFINE e == d \o s
<1>1. /\ Len(d) \in Nat /\ DOMAIN d = 1..Len(d) /\ Len(s) \in Nat /\ DOMAIN s = 1..Len(s)
      /\ DOMAIN e = 1..(Len(d) + Len(s))
      /\ \A n \in 1..Len(d) : e[n] = d[n]
      /\ \A n \in 1..Len(s) : e[Len(d) + n] = s[n]
  OBVIOUS
<1> HIDE DEF e
<1>2. ASSUME NEW n \in DOMAIN e, n \notin DOMAIN d
      PROVE  Idle(w, e[n])
  <2>1. n - Len(d) \in 1..Len(s) /\ n = Len(d) + (n - Len(d))
    BY <1>1, <1>2
  <2> QED
    BY <1>1, <2>1
<1>3. DOMAIN d \subseteq DOMAIN e
  BY <1>1
<1> QED
  BY <1>1, <1>2, <1>3 DEF Others, e

\* What is sent to each subscription of S, and whom it concerns.
AllIn(S, messages, X) == \A k \in S : messages[k] \in Seq(X)
IdleBut(S, messages, K, w) ==
  \A k \in S : k # K => \A n \in DOMAIN messages[k] : Idle(w, messages[k][n])
Reached(S, messages, K, w, X, d, e) ==
  IF K \in S /\ Reaches(K) THEN \E c \in Seq(X) : Others(w, d, c) /\ Others(w, c \o messages[K], e)
                           ELSE Others(w, d, e)

\* Of the messages of all subscriptions only those of K change the rows of w.
LEMMA SendsOurs ==
  ASSUME NEW S, NEW messages, Sends(S, messages), Len(served) \in Nat, S \subseteq 1..Len(served),
         NEW X, down \in Seq(X), AllIn(S, messages, X), NEW w, NEW K, IdleBut(S, messages, K, w)
  PROVE  Reached(S, messages, K, w, X, down, down')
<1>20. \A k \in S : messages[k] \in Seq(X)
  BY DEF AllIn
<1>21. \A k \in S : k # K => \A n \in DOMAIN messages[k] : Idle(w, messages[k][n])
  BY DEF IdleBut
<1> DEFINE N == Len(served)
           R == K \in S /\ Reaches(K)
           Ours(e) == \E d \in Seq(X) : Others(w, down, d) /\ Others(w, d \o messages[K], e)
           T == {p \in (0..N) \X Seq(X) : IF R /\ K <= p[1] THEN Ours(p[2]) ELSE Others(w, down, p[2])}
           go(k, d) == IF k \in S /\ Reaches(k) THEN d \o messages[k] ELSE d
<1>1. <<0, down>> \in T
  <2>1. R => ~ (K <= 0)
    OBVIOUS
  <2> QED
    BY <2>1, OthersNone
<1>2. ASSUME NEW k \in 1..N, NEW d \in Seq(X), <<k - 1, d>> \in T
      PROVE  <<k, go(k, d)>> \in T
  <2>1. go(k, d) \in Seq(X) /\ <<k, go(k, d)>> \in (0..N) \X Seq(X)
    <3>1. go(k, d) \in Seq(X)
      BY <1>20
    <3>2. k \in 0..N
      OBVIOUS
    <3> HIDE DEF go, N
    <3> QED
      BY <3>1, <3>2
  <2>2. CASE k # K \/ ~R
    <3>1. Others(w, d, go(k, d))
      <4>1. CASE k \in S /\ Reaches(k)
        <5>1. k # K
          BY <2>2, <4>1
        <5>2. messages[k] \in Seq(X) /\ \A n \in DOMAIN messages[k] : Idle(w, messages[k][n])
          BY <1>20, <1>21, <4>1, <5>1
        <5> QED
          BY <4>1, <5>2, OthersMany
      <4>2. CASE ~ (k \in S /\ Reaches(k))
        BY <4>2, OthersNone
      <4> QED
        BY <4>1, <4>2
    <3> HIDE DEF go, Ours
    <3>2. (R /\ K <= k) <=> (R /\ K <= k - 1)
      <4>1. R => K \in Int /\ k # K
        BY <2>2
      <4> QED
        BY <4>1
    <3>3. CASE R /\ K <= k - 1
      <4>1. Ours(d)
        BY <1>2, <3>3
      <4>2. PICK c \in Seq(X) : Others(w, down, c) /\ Others(w, c \o messages[K], d)
        BY <4>1 DEF Ours
      <4>3. Others(w, c \o messages[K], go(k, d))
        BY <3>1, <4>2, OthersAgain
      <4>4. Ours(go(k, d))
        BY <4>2, <4>3 DEF Ours
      <4> QED
        BY <2>1, <3>2, <3>3, <4>4
    <3>4. CASE ~ (R /\ K <= k - 1)
      <4>1. Others(w, down, d)
        BY <1>2, <3>4
      <4>2. Others(w, down, go(k, d))
        BY <3>1, <4>1, OthersAgain
      <4> QED
        BY <2>1, <3>2, <3>4, <4>2
    <3> QED
      BY <3>3, <3>4
  <2>3. CASE k = K /\ R
    <3>1. go(k, d) = d \o messages[K]
      BY <2>3
    <3>2. Others(w, down, d)
      <4>1. ~ (K <= k - 1)
        BY <2>3
      <4> HIDE DEF Ours
      <4> QED
        BY <1>2, <4>1
    <3>3. Others(w, d \o messages[K], go(k, d))
      BY <3>1, OthersNone
    <3>4. Ours(go(k, d))
      BY <3>2, <3>3
    <3>5. R /\ K <= k
      BY <2>3
    <3> HIDE DEF Ours, go, R
    <3> QED
      BY <2>1, <3>4, <3>5
  <2> QED
    BY <2>2, <2>3
<1>3. \A k \in 1..N, d \in Seq(X) :
        <<k - 1, d>> \in T => <<k, IF k \in S /\ Reaches(k) THEN d \o messages[k] ELSE d>> \in T
  BY <1>2
<1> HIDE DEF T, go
<1>4. down' \in Seq(X) /\ <<N, down'>> \in T
  BY <1>1, <1>3, <1>20, SendsSteps
<1>5. R => K <= N
  OBVIOUS
<1>6. IF R THEN Ours(down') ELSE Others(w, down, down')
  <2> HIDE DEF Ours
  <2> QED
    BY <1>4, <1>5 DEF T
<1> QED
  BY <1>6 DEF Reached

USE BoundsAssumption, RacesAssumption

-----------------------------------------------------------------------------
(* What the steps share                                                    *)

LEMMA Basics ==
  ASSUME PartsInv
  PROVE  /\ Len(log) \in Nat \ {0} /\ watchers \in Seq(Watcher) /\ served \in Seq(Served)
         /\ byId \in [Ids -> Nat] /\ up \in Seq(Requests) /\ conn \in Nat
         /\ Len(watchers) \in Nat /\ DOMAIN watchers = 1..Len(watchers)
         /\ Len(served) \in Nat /\ DOMAIN served = 1..Len(served)
         /\ wire \in Nat /\ (wire # NoId => wire \in Ids)
         /\ NoId = 0 /\ NoId \notin Ids
         /\ current \in 0..Len(watchers)
<1>1. /\ ids \in 0..MaxIds /\ wire \in 0..ids /\ MaxIds \in Nat
  BY DEF PartsInv
<1>2. wire \in Nat /\ (wire # 0 => wire \in Ids) /\ 0 \notin Ids
  BY <1>1 DEF Ids
<1>3. watchers \in Seq(Watcher) /\ served \in Seq(Served) /\ current \in {0, Len(watchers)}
  BY DEF PartsInv
<1>4. /\ Len(watchers) \in Nat /\ DOMAIN watchers = 1..Len(watchers)
      /\ Len(served) \in Nat /\ DOMAIN served = 1..Len(served)
  BY <1>3
<1>5. /\ Len(log) \in Nat \ {0} /\ byId \in [Ids -> Nat] /\ up \in Seq(Requests)
      /\ conn \in Nat
  BY DEF PartsInv
<1>6. current \in 0..Len(watchers)
  <2>1. current \in {0, Len(watchers)}
    BY <1>3
  <2>2. Len(watchers) \in Nat
    BY <1>4
  <2> QED
    BY <2>1, <2>2
<1>7. NoId = 0
  BY DEF NoId
<1> QED
  BY <1>2, <1>3, <1>4, <1>5, <1>6, <1>7

\* The watchers go on, stop, or show something newer.
WatchersAge ==
  /\ watchers' \in Seq(Watcher) /\ Len(watchers') = Len(watchers)
  /\ \A w \in DOMAIN watchers :
       /\ watchers'[w].life = "running" => /\ watchers[w].life = "running"
                                           /\ w = current => current' = current
       /\ watchers[w].shows # 0 => watchers'[w].shows # 0

LEMMA AgeSame ==
  ASSUME PartsInv, watchers' = watchers, current' = current
  PROVE  WatchersAge
  BY Basics DEF WatchersAge

LEMMA AgeInv ==
  ASSUME PartsInv, CurrentInv, ServedInv, WatchersAge, current' \in {0, current},
         served' = served, byId' = byId, ws' = ws, conn' = conn
  PROVE  CurrentInv' /\ ServedInv' /\ current' \in {0, Len(watchers')}
<1>1. /\ DOMAIN watchers = 1..Len(watchers) /\ DOMAIN watchers' = DOMAIN watchers
      /\ Len(watchers') = Len(watchers)
  BY Basics DEF WatchersAge
<1>2. current' \in {0, Len(watchers')}
  BY <1>1 DEF PartsInv
<1>3. CurrentInv'
  BY <1>1 DEF WatchersAge, CurrentInv
<1>4. ServedInv'
  BY <1>1 DEF WatchersAge, ServedInv
<1> QED
  BY <1>2, <1>3, <1>4

\* One watcher changes.
LEMMA AgeOne ==
  ASSUME PartsInv, NEW w \in DOMAIN watchers, NEW life, NEW shows \in Nat,
         watchers' = [watchers EXCEPT ![w] = [life |-> life, shows |-> shows]],
         life \in {"running", "listing", "watching", "relisting", "stopped"},
         life = "running" => watchers[w].life = "running" /\ current' = current,
         watchers[w].shows # 0 => shows # 0,
         current' # current => w = current
  PROVE  WatchersAge
<1> DEFINE x == [life |-> life, shows |-> shows]
<1>1. x \in Watcher /\ x.life = life /\ x.shows = shows
  BY DEF Watcher
<1>2. watchers' = [watchers EXCEPT ![w] = x]
  OBVIOUS
<1> HIDE DEF x
<1>3. /\ watchers' \in Seq(Watcher) /\ Len(watchers') = Len(watchers) /\ watchers'[w] = x
      /\ \A v \in DOMAIN watchers : v # w => watchers'[v] = watchers[v]
  <2>1. watchers \in Seq(Watcher)
    BY Basics
  <2> QED
    BY <1>1, <1>2, <2>1
<1> QED
  BY <1>1, <1>3 DEF WatchersAge

\* Steps of the browser's, which leave the server's tables alone.
LEMMA BrowserInv ==
  ASSUME IInv, watchers' = watchers, current' = current, served' = served, byId' = byId,
         ws # "open" \/ (ws' = ws /\ conn' = conn)
  PROVE  CurrentInv' /\ ServedInv'
<1>1. CurrentInv'
  BY DEF IInv, CurrentInv
<1>2. CASE ws' = ws /\ conn' = conn
  BY <1>2, AgeSame, AgeInv DEF IInv
<1>3. CASE ws # "open"
  <2>1. \A k \in DOMAIN served : ~Live(served[k])
    BY <1>3 DEF IInv, ServedInv
  <2> QED
    BY <1>1, <2>1 DEF IInv, ServedInv
<1> QED
  BY <1>2, <1>3

\* Requests are added behind the others: what is given back stays given back.
LEMMA AskedInv ==
  ASSUME PartsInv, UpInv, byId' = byId, NEW more \in Seq(Requests), up' = up \o more,
         ws = "open", ws' = "open",
         \A i \in Ids \ {wire'} :
           /\ i = wire => \E m \in DOMAIN more : more[m] = Unsub(i)
           /\ \A j \in DOMAIN more :
                more[j] = Sub(i) => \E m \in DOMAIN more : m > j /\ more[m] = Unsub(i)
  PROVE  UpInv' /\ up' \in Seq(Requests)
<1>1. /\ up \in Seq(Requests) /\ Len(up) \in Nat /\ DOMAIN up = 1..Len(up)
      /\ Len(more) \in Nat /\ DOMAIN more = 1..Len(more)
      /\ up' \in Seq(Requests) /\ DOMAIN up' = 1..(Len(up) + Len(more))
  BY Basics
<1>2. \A j \in DOMAIN up : j \in DOMAIN up' /\ up'[j] = up[j]
  BY <1>1
<1>3. \A m \in DOMAIN more : Len(up) + m \in DOMAIN up' /\ up'[Len(up) + m] = more[m]
  BY <1>1
<1>4. \A j \in DOMAIN up' : j \in DOMAIN up \/ \E m \in DOMAIN more : j = Len(up) + m
  <2> SUFFICES ASSUME NEW j \in DOMAIN up', j \notin DOMAIN up
               PROVE  \E m \in DOMAIN more : j = Len(up) + m
    OBVIOUS
  <2>1. j - Len(up) \in DOMAIN more /\ j = Len(up) + (j - Len(up))
    BY <1>1
  <2> QED
    BY <2>1
<1>5. ASSUME NEW i \in Ids \ {wire'}
      PROVE  /\ byId[i] # 0 => \E j \in DOMAIN up' : up'[j] = Unsub(i)
             /\ \A j \in DOMAIN up' :
                  up'[j] = Sub(i) => \E m \in DOMAIN up' : m > j /\ up'[m] = Unsub(i)
  <2>1. CASE i = wire
    <3>1. PICK m \in DOMAIN more : more[m] = Unsub(i)
      BY <2>1
    <3>2. Len(up) + m \in DOMAIN up' /\ up'[Len(up) + m] = Unsub(i)
      BY <1>3, <3>1
    <3>3. ASSUME NEW j \in DOMAIN up', up'[j] = Sub(i)
          PROVE  \E n \in DOMAIN up' : n > j /\ up'[n] = Unsub(i)
      <4>1. CASE j \in DOMAIN up
        <5>1. Len(up) + m > j
          BY <1>1, <4>1
        <5> QED
          BY <3>2, <5>1
      <4>2. CASE \E k \in DOMAIN more : j = Len(up) + k
        <5>1. PICK k \in DOMAIN more : j = Len(up) + k
          BY <4>2
        <5>2. more[k] = Sub(i)
          BY <1>3, <3>3, <5>1
        <5>3. PICK n \in DOMAIN more : n > k /\ more[n] = Unsub(i)
          BY <5>2
        <5>4. Len(up) + n > j /\ Len(up) + n \in DOMAIN up' /\ up'[Len(up) + n] = Unsub(i)
          BY <1>1, <1>3, <5>1, <5>3, SMTT(30)
        <5> QED
          BY <5>4
      <4> QED
        BY <1>4, <4>1, <4>2
    <3> QED
      BY <3>2, <3>3
  <2>2. CASE i # wire
    <3>1. byId[i] # 0 => \E j \in DOMAIN up' : up'[j] = Unsub(i)
      BY <1>2, <2>2 DEF UpInv
    <3>2. ASSUME NEW j \in DOMAIN up', up'[j] = Sub(i)
          PROVE  \E n \in DOMAIN up' : n > j /\ up'[n] = Unsub(i)
      <4>1. CASE j \in DOMAIN up
        <5>1. PICK n \in DOMAIN up : n > j /\ up[n] = Unsub(i)
          BY <1>2, <2>2, <3>2, <4>1 DEF UpInv
        <5> QED
          BY <1>2, <5>1
      <4>2. CASE \E k \in DOMAIN more : j = Len(up) + k
        <5>1. PICK k \in DOMAIN more : j = Len(up) + k
          BY <4>2
        <5>2. more[k] = Sub(i)
          BY <1>3, <3>2, <5>1
        <5>3. PICK n \in DOMAIN more : n > k /\ more[n] = Unsub(i)
          BY <5>2
        <5>4. Len(up) + n > j /\ Len(up) + n \in DOMAIN up' /\ up'[Len(up) + n] = Unsub(i)
          BY <1>1, <1>3, <5>1, <5>3
        <5> QED
          BY <5>4
      <4> QED
        BY <1>4, <4>1, <4>2
    <3> QED
      BY <3>1, <3>2
  <2> QED
    BY <2>1, <2>2
<1> QED
  BY <1>1, <1>5 DEF UpInv

\* Nothing is asked, and the id stays or is new.
LEMMA UpSame ==
  ASSUME PartsInv, UpInv, byId' = byId, up' = up,
         ws' = ws \/ (ws' # "open" /\ ws # "open"), wire' = wire \/ wire = NoId
  PROVE  UpInv'
<1>1. NoId \notin Ids
  BY Basics
<1> QED
  BY <1>1 DEF UpInv

\* A socket that is not open has nothing under way to the server, and no Map.
LEMMA UpClosed ==
  ASSUME UpInv, byId' = byId, up' = up, ws # "open", ws' # "open"
  PROVE  UpInv'
<1>1. up = <<>> /\ \A i \in Ids : byId[i] = 0
  BY DEF UpInv
<1>2. DOMAIN up' = {}
  BY <1>1
<1> QED
  BY <1>1, <1>2 DEF UpInv

-----------------------------------------------------------------------------
(* The browser                                                             *)

LEMMA SendInv ==
  ASSUME PartsInv, UpInv, byId' = byId, NEW r \in Requests, SendIfOpen(<<r>>),
         ws' = ws \/ (ws # "open" /\ ws' # "open"),
         \A i \in Ids \ {wire'} : /\ i = wire => r = Unsub(i)
                                  /\ r # Sub(i)
  PROVE  UpInv' /\ up' \in Seq(Requests)
<1>1. CASE ws = "open"
  <2>1. up' = up \o <<r>> /\ <<r>> \in Seq(Requests) /\ DOMAIN <<r>> = {1} /\ <<r>>[1] = r
    BY <1>1 DEF SendIfOpen
  <2> QED
    BY <1>1, <2>1, AskedInv
<1>2. CASE ws # "open"
  BY <1>2, UpClosed, Basics DEF SendIfOpen
<1> QED
  BY <1>1, <1>2

LEMMA SubscribeNewInv ==
  ASSUME IInv, SubscribeNew
  PROVE  IInv'
<1>1. /\ ~attached /\ wire = NoId /\ ids < MaxIds /\ ids' = ids + 1 /\ wire' = ids + 1
      /\ attached' = TRUE /\ SendIfOpen(<<Sub(ids + 1)>>)
      /\ UNCHANGED <<log, current, watchers, served, byId, conn, linger>>
      /\ ws' = ws \/ (ws # "open" /\ ws' # "open")
  BY DEF SubscribeNew, serverVars, sessions, sockets, link, Connecting, MayConnect
<1>2. PartsInv /\ UpInv /\ ids \in 0..MaxIds /\ MaxIds \in Nat
  BY DEF IInv, PartsInv
<1>3. ids + 1 \in Ids /\ ids' \in 0..MaxIds /\ wire' \in 0..ids' /\ wire' # NoId
  BY <1>1, <1>2 DEF Ids, NoId
<1>4. Sub(ids + 1) \in Requests /\ \A i \in Ids \ {wire'} : i # wire /\ Sub(ids + 1) # Sub(i)
  BY <1>1, <1>2, <1>3, RequestsAre, Basics
<1>5. UpInv' /\ up' \in Seq(Requests)
  BY <1>1, <1>2, <1>4, SendInv
<1>6. PartsInv'
  BY <1>1, <1>2, <1>3, <1>5 DEF PartsInv
<1>7. CurrentInv' /\ ServedInv'
  BY <1>1, BrowserInv
<1> QED
  BY <1>5, <1>6, <1>7 DEF IInv

LEMMA TeardownInv ==
  ASSUME IInv, Teardown
  PROVE  IInv'
<1>1. /\ linger /\ linger' = FALSE /\ wire' = NoId /\ SendIfOpen(<<Unsub(wire)>>)
      /\ UNCHANGED <<log, current, watchers, served, byId, conn, ws, ids, attached>>
  BY DEF Teardown, serverVars, sessions, sockets, link
<1>2. /\ PartsInv /\ UpInv /\ wire \in Ids /\ ids \in 0..MaxIds /\ MaxIds \in Nat
  BY <1>1, Basics DEF IInv, PartsInv
<1>3. Unsub(wire) \in Requests /\ \A i \in Ids : Unsub(wire) # Sub(i)
  BY <1>2, RequestsAre
<1>4. UpInv' /\ up' \in Seq(Requests)
  BY <1>1, <1>2, <1>3, SendInv
<1>5. PartsInv'
  BY <1>1, <1>2, <1>4 DEF PartsInv, NoId
<1>6. CurrentInv' /\ ServedInv'
  BY <1>1, BrowserInv
<1> QED
  BY <1>4, <1>5, <1>6 DEF IInv

\* Steps that ask for nothing.
LEMMA CalmInv ==
  ASSUME IInv, UNCHANGED <<log, current, watchers, served, byId, up, conn, ids, wire>>,
         ws' = ws \/ (ws # "open" /\ ws' # "open"),
         attached' \/ linger' => wire # NoId, linger' => ~attached'
  PROVE  IInv'
<1>1. UpInv'
  BY UpSame DEF IInv
<1>2. PartsInv'
  BY DEF IInv, PartsInv
<1>3. CurrentInv' /\ ServedInv'
  BY BrowserInv
<1> QED
  BY <1>1, <1>2, <1>3 DEF IInv

LEMMA SubscribersInv ==
  ASSUME IInv, SubscribeAgain \/ Leave
  PROVE  IInv'
<1>1. /\ UNCHANGED <<log, current, watchers, served, byId, up, conn, ids, wire, ws>>
      /\ wire # NoId /\ (linger' => ~attached')
  BY DEF SubscribeAgain, Leave, serverVars, sessions, sockets, link, IInv, PartsInv
<1> QED
  BY <1>1, CalmInv

LEMMA QuietInv ==
  ASSUME IInv,
         \/ Reconnect \/ Closes \/ ClosesLate \/ Flush
         \/ ReceiveUnknown \/ ReceiveSnapshot \/ ReceiveEvents \/ ReceiveStatus
  PROVE  IInv'
<1>1. (attached \/ linger => wire # NoId) /\ (linger => ~attached)
  BY DEF IInv, PartsInv
<1>2. CASE Reconnect \/ Closes \/ ClosesLate \/ Flush
  <2>1. /\ UNCHANGED <<log, current, watchers, served, byId, up, conn, ids, wire, attached, linger>>
        /\ ws' = ws \/ (ws # "open" /\ ws' # "open")
    BY <1>2 DEF Reconnect, Closes, ClosesLate, Flush, Connecting, MayConnect, serverVars,
                sessions, sockets, link, ui
  <2> QED
    BY <1>1, <2>1, CalmInv
<1>3. CASE ReceiveUnknown \/ ReceiveSnapshot \/ ReceiveEvents \/ ReceiveStatus
  <2>1. UNCHANGED <<log, current, watchers, served, byId, up, conn, ids, wire, attached, linger, ws>>
    BY <1>3 DEF ReceiveUnknown, ReceiveSnapshot, ReceiveEvents, ReceiveStatus, serverVars,
                sessions, sockets, link, ui
  <2> QED
    BY <1>1, <2>1, CalmInv
<1> QED
  BY <1>2, <1>3

LEMMA OpensInv ==
  ASSUME IInv, Opens
  PROVE  IInv'
<1>1. /\ ws = "connecting" /\ ws' = "open" /\ conn' = conn + 1
      /\ up' = (IF wire # NoId THEN <<Sub(wire)>> ELSE <<>>)
      /\ UNCHANGED <<log, current, watchers, served, byId, ids, wire, attached, linger>>
  BY DEF Opens, serverVars, sessions, sockets, ui
<1>2. /\ \A i \in Ids : byId[i] = 0
      /\ PartsInv
  BY <1>1 DEF IInv, UpInv
<1>3. up' \in Seq(Requests) /\ \A j \in DOMAIN up' : up'[j] = Sub(wire)
  <2>1. CASE wire # NoId
    <3>1. Sub(wire) \in Requests /\ up' = <<Sub(wire)>>
      BY <1>1, <1>2, <2>1, Basics, RequestsAre
    <3> QED
      BY <3>1
  <2>2. CASE wire = NoId
    BY <1>1, <2>2
  <2> QED
    BY <2>1, <2>2
<1>4. UpInv'
  <2>1. \A i \in Ids \ {wire} : Sub(i) # Sub(wire)
    BY DEF Sub, Msg
  <2> QED
    BY <1>1, <1>2, <1>3, <2>1 DEF UpInv
<1>5. PartsInv'
  BY <1>1, <1>2, <1>3 DEF PartsInv
<1>6. CurrentInv' /\ ServedInv'
  BY <1>1, BrowserInv
<1> QED
  BY <1>4, <1>5, <1>6 DEF IInv

LEMMA ReceiveResetInv ==
  ASSUME IInv, ReceiveReset
  PROVE  IInv'
<1>1. /\ ws = "open"
      /\ up' = IF wire = NoId THEN up ELSE up \o <<Unsub(wire), Sub(wire)>>
      /\ UNCHANGED <<log, current, watchers, served, byId, conn, ids, wire, attached, linger, ws>>
  BY DEF ReceiveReset, Incoming, serverVars, sessions, sockets, link, ui
<1>2. (attached \/ linger => wire # NoId) /\ (linger => ~attached) /\ PartsInv /\ UpInv
  BY DEF IInv, PartsInv
<1>3. CASE wire = NoId
  BY <1>1, <1>2, <1>3, CalmInv
<1>4. CASE wire # NoId
  <2> DEFINE more == <<Unsub(wire), Sub(wire)>>
  <2>1. Sub(wire) \in Requests /\ Unsub(wire) \in Requests
    BY <1>2, <1>4, Basics, RequestsAre
  <2>2. more \in Seq(Requests) /\ up' = up \o more /\ DOMAIN more = {1, 2}
        /\ more[1] = Unsub(wire) /\ more[2] = Sub(wire)
    BY <1>1, <1>4, <2>1
  <2> HIDE DEF more
  <2>3. \A i \in Ids \ {wire} : \A j \in DOMAIN more : more[j] # Sub(i)
    <3>1. \A i \in Ids \ {wire} : Sub(wire) # Sub(i) /\ Unsub(wire) # Sub(i)
      BY DEF Sub, Unsub, Msg
    <3> QED
      BY <2>2, <3>1
  <2>4. UpInv' /\ up' \in Seq(Requests)
    BY <1>1, <1>2, <2>2, <2>3, AskedInv
  <2>5. PartsInv'
    BY <1>1, <1>2, <2>4 DEF PartsInv
  <2>6. CurrentInv' /\ ServedInv'
    BY <1>1, BrowserInv
  <2> QED
    BY <2>4, <2>5, <2>6 DEF IInv
<1> QED
  BY <1>3, <1>4

-----------------------------------------------------------------------------
(* The watch socket                                                        *)

\* Breaks: the socket's Map is emptied, and its subscriptions stop.
LEMMA BreaksInv ==
  ASSUME IInv, Breaks
  PROVE  IInv'
<1> DEFINE y(k) == IF k \in Range(byId) THEN Stopped(served[k]) ELSE served[k]
<1>1. /\ ws = "open" /\ ws' = "closing" /\ up' = <<>> /\ byId' = [i \in Ids |-> 0]
      /\ served' = [k \in DOMAIN served |-> y(k)]
      /\ UNCHANGED <<log, current, watchers, conn, ids, wire, attached, linger>>
  BY DEF Breaks, serverVars, sessions, ui
<1>2. PartsInv /\ served \in Seq(Served) /\ byId \in [Ids -> Nat]
  BY Basics DEF IInv
<1>3. ASSUME NEW k \in DOMAIN served
      PROVE  /\ y(k) \in Served /\ y(k).watcher = served[k].watcher /\ y(k).id = served[k].id
             /\ (y(k).st = "in" => served[k].st = "in")
             /\ ~Live(y(k))
  <2>1. served[k] \in Served
    BY <1>2
  <2>2. CASE k \in Range(byId)
    <3>1. y(k) = Stopped(served[k])
      BY <2>2
    <3> HIDE DEF y
    <3> QED
      BY <2>1, <3>1 DEF Stopped, Served, Live
  <2>3. CASE k \notin Range(byId)
    <3>1. y(k) = served[k]
      BY <2>3
    <3>2. ~Live(served[k])
      <4>1. Live(served[k]) => byId[served[k].id] = k /\ served[k].id \in Ids
        BY <2>1 DEF IInv, ServedInv, Served
      <4> QED
        BY <1>2, <2>3, <4>1 DEF Range
    <3> HIDE DEF y
    <3> QED
      BY <2>1, <3>1, <3>2
  <2> QED
    BY <2>2, <2>3
<1> HIDE DEF y
<1>4. served' \in Seq(Served) /\ DOMAIN served' = DOMAIN served
      /\ \A k \in DOMAIN served : served'[k] = y(k)
  <2>1. DOMAIN served = 1..Len(served) /\ Len(served) \in Nat
    BY <1>2
  <2> QED
    BY <1>1, <1>3, <2>1
<1>5. PartsInv'
  BY <1>1, <1>2, <1>4 DEF PartsInv
<1>6. UpInv'
  BY <1>1 DEF UpInv
<1>7. CurrentInv' /\ ServedInv'
  <2>1. CurrentInv'
    BY <1>1 DEF IInv, CurrentInv
  <2>2. \A k \in DOMAIN served :
          /\ served[k].watcher \in DOMAIN watchers
          /\ served[k].st = "in" => watchers[served[k].watcher].shows # 0
    BY DEF IInv, ServedInv
  <2>3. \A j, k \in DOMAIN served : j <= k => served[j].watcher <= served[k].watcher
    BY DEF IInv, ServedInv
  <2>4. \A k \in DOMAIN served' :
          /\ served'[k].watcher \in DOMAIN watchers'
          /\ served'[k].st = "in" => watchers'[served'[k].watcher].shows # 0
          /\ ~Live(served'[k])
    BY <1>1, <1>3, <1>4, <2>2
  <2>5. \A j, k \in DOMAIN served' : j <= k => served'[j].watcher <= served'[k].watcher
    BY <1>3, <1>4, <2>3
  <2> QED
    BY <2>1, <2>4, <2>5 DEF ServedInv
<1> QED
  BY <1>5, <1>6, <1>7 DEF IInv

\* The request at the head is taken off.
LEMMA RequestInv ==
  ASSUME PartsInv, UpInv, NEW op, Request(op), ws' = ws, wire' = wire,
         \A i \in Ids \ {wire} :
           byId'[i] # 0 => /\ Head(up) # Unsub(i)
                           /\ byId[i] # 0 \/ Head(up) = Sub(i)
  PROVE  UpInv' /\ up' \in Seq(Requests)
<1>1. /\ ws = "open" /\ up \in Seq(Requests) /\ up # <<>> /\ up' = Tail(up)
  BY Basics DEF Request
<1>2. /\ 1 \in DOMAIN up /\ up[1] = Head(up) /\ up' \in Seq(Requests)
      /\ \A i \in DOMAIN up' : i \in Nat \ {0} /\ i + 1 \in DOMAIN up /\ up'[i] = up[i + 1]
      /\ \A j \in DOMAIN up : /\ j \in Nat \ {0}
                              /\ j # 1 => j - 1 \in DOMAIN up' /\ up'[j - 1] = up[j]
  BY <1>1, TailIs
<1>3. ASSUME NEW i \in Ids \ {wire}, byId'[i] # 0
      PROVE  \E j \in DOMAIN up' : up'[j] = Unsub(i)
  <2>1. PICK j \in DOMAIN up : up[j] = Unsub(i) /\ j # 1
    <3>1. CASE byId[i] # 0
      BY <1>2, <1>3, <3>1 DEF UpInv
    <3>2. CASE Head(up) = Sub(i)
      BY <1>2, <3>2 DEF UpInv
    <3> QED
      BY <1>3, <3>1, <3>2
  <2> QED
    BY <1>2, <2>1
<1>4. ASSUME NEW i \in Ids \ {wire}, NEW j \in DOMAIN up', up'[j] = Sub(i)
      PROVE  \E m \in DOMAIN up' : m > j /\ up'[m] = Unsub(i)
  <2>1. j + 1 \in DOMAIN up /\ up[j + 1] = Sub(i) /\ j \in Nat \ {0}
    BY <1>2, <1>4
  <2>2. PICK m \in DOMAIN up : m > j + 1 /\ up[m] = Unsub(i)
    BY <2>1 DEF UpInv
  <2>3. m - 1 \in DOMAIN up' /\ up'[m - 1] = Unsub(i) /\ m - 1 > j
    BY <1>2, <2>1, <2>2
  <2> QED
    BY <2>3
<1> QED
  BY <1>1, <1>2, <1>3, <1>4 DEF UpInv

\* Subscriptions only stop, or have their watcher ready.
LEMMA ServedKept ==
  ASSUME ServedInv, DOMAIN served' = DOMAIN served, ws' = ws, conn' = conn,
         DOMAIN watchers' = DOMAIN watchers,
         \A w \in DOMAIN watchers : watchers[w].shows # 0 => watchers'[w].shows # 0,
         \A k \in DOMAIN served :
           /\ served'[k].watcher = served[k].watcher /\ served'[k].id = served[k].id
           /\ served'[k].conn = served[k].conn
           /\ served'[k].st = "in" => \/ served[k].st = "in"
                                      \/ watchers'[served[k].watcher].shows # 0
           /\ Live(served'[k]) => /\ Live(served[k])
                                  /\ byId'[served[k].id] = byId[served[k].id]
  PROVE  ServedInv'
<1>1. \A k \in DOMAIN served :
        /\ served[k].watcher \in DOMAIN watchers
        /\ served[k].st = "in" => watchers[served[k].watcher].shows # 0
        /\ Live(served[k]) => /\ ws = "open" /\ served[k].conn = conn /\ byId[served[k].id] = k
                              /\ \A j \in DOMAIN served : served[j].id = served[k].id => j <= k
  BY DEF ServedInv
<1>2. \A j, k \in DOMAIN served : j <= k => served[j].watcher <= served[k].watcher
  BY DEF ServedInv
<1>3. \A k \in DOMAIN served :
        /\ served'[k].watcher \in DOMAIN watchers'
        /\ served'[k].st = "in" => watchers'[served'[k].watcher].shows # 0
        /\ Live(served'[k]) =>
             /\ ws' = "open" /\ served'[k].conn = conn' /\ byId'[served'[k].id] = k
             /\ \A j \in DOMAIN served : served'[j].id = served'[k].id => j <= k
  BY <1>1
<1>4. \A j, k \in DOMAIN served : j <= k => served'[j].watcher <= served'[k].watcher
  BY <1>2
<1> QED
  BY <1>3, <1>4 DEF ServedInv

LEMMA HandleUnsubInv ==
  ASSUME IInv, HandleUnsub
  PROVE  IInv'
<1> DEFINE i == Head(up).id
           b == byId[i]
           y(j) == IF j = b THEN Stopped(served[j]) ELSE served[j]
<1>1. /\ Request("unsub") /\ byId' = [byId EXCEPT ![i] = 0]
      /\ served' = [j \in DOMAIN served |-> y(j)]
      /\ UNCHANGED <<log, current, watchers, conn, ids, wire, attached, linger, ws>>
  BY DEF HandleUnsub, serverVars, sessions, clientVars, link, ui
<1>2. PartsInv /\ UpInv /\ served \in Seq(Served) /\ byId \in [Ids -> Nat] /\ up \in Seq(Requests)
  BY Basics DEF IInv
<1>3. Head(up) \in Requests /\ Head(up).op = "unsub" /\ i \in Ids /\ Head(up) = Unsub(i)
  <2>1. up # <<>> /\ Head(up).op = "unsub"
    BY <1>1 DEF Request
  <2>2. Head(up) \in Requests
    BY <1>2, <2>1, TailIs
  <2> QED
    BY <2>1, <2>2, RequestIs
<1> HIDE DEF i
<1>4. \A j \in Ids : byId'[j] = (IF j = i THEN 0 ELSE byId[j])
  BY <1>1, <1>2, <1>3
<1>5. byId' \in [Ids -> Nat]
  BY <1>1, <1>2
<1>6. UpInv' /\ up' \in Seq(Requests)
  <2>1. ASSUME NEW j \in Ids, Head(up) = Unsub(j)
        PROVE  j = i
    <3>1. Unsub(j).id = j /\ Unsub(i).id = i
      BY <1>3, RequestsAre
    <3> QED
      BY <1>3, <2>1, <3>1
  <2> QED
    BY <1>1, <1>2, <1>4, <2>1, RequestInv
<1>7. ASSUME NEW k \in DOMAIN served
      PROVE  /\ y(k) \in Served /\ y(k).watcher = served[k].watcher /\ y(k).id = served[k].id
             /\ y(k).conn = served[k].conn
             /\ (y(k).st = "in" => served[k].st = "in")
             /\ (Live(y(k)) => Live(served[k]) /\ byId'[served[k].id] = byId[served[k].id])
  <2>0. served[k] \in Served
    BY <1>2
  <2>1. served[k] \in Served /\ served[k].id \in Ids
    BY <2>0 DEF Served
  <2>2. CASE k = b
    <3>1. y(k) = Stopped(served[k])
      BY <2>2
    <3> HIDE DEF y
    <3> QED
      BY <2>1, <3>1 DEF Stopped, Served, Live
  <2>3. CASE k # b
    <3>1. y(k) = served[k]
      BY <2>3
    <3>2. Live(served[k]) => served[k].id # i
      BY <2>3 DEF IInv, ServedInv
    <3> HIDE DEF y
    <3> QED
      BY <1>4, <2>1, <3>1, <3>2
  <2> QED
    BY <2>2, <2>3
<1> HIDE DEF y, b
<1>8. served' \in Seq(Served) /\ DOMAIN served' = DOMAIN served
      /\ \A k \in DOMAIN served : served'[k] = y(k)
  <2>1. DOMAIN served = 1..Len(served) /\ Len(served) \in Nat
    BY <1>2
  <2> QED
    BY <1>1, <1>7, <2>1
<1>9. PartsInv'
  BY <1>1, <1>2, <1>5, <1>6, <1>8 DEF PartsInv
<1>10. CurrentInv'
  BY <1>1 DEF IInv, CurrentInv
<1>11. ServedInv'
  BY <1>1, <1>2, <1>7, <1>8, ServedKept DEF IInv
<1> QED
  BY <1>6, <1>9, <1>10, <1>11 DEF IInv

LEMMA HandleNotConnectedInv ==
  ASSUME IInv, HandleNotConnected
  PROVE  IInv'
<1>1. /\ Request("sub") /\ byId[Head(up).id] = 0
      /\ UNCHANGED <<log, current, watchers, served, byId, conn, ids, wire, attached, linger, ws>>
  BY DEF HandleNotConnected, serverVars, sessions, sockets, clientVars, link, ui
<1>2. PartsInv /\ UpInv /\ up \in Seq(Requests)
  BY Basics DEF IInv
<1>3. Head(up).op = "sub"
  BY <1>1 DEF Request
<1>4. \A i \in Ids : Head(up) # Unsub(i)
  BY <1>3, RequestsAre
<1>5. UpInv' /\ up' \in Seq(Requests)
  BY <1>1, <1>2, <1>4, RequestInv
<1>6. PartsInv'
  BY <1>1, <1>2, <1>5 DEF PartsInv
<1>7. CurrentInv' /\ ServedInv'
  BY <1>1, BrowserInv
<1> QED
  BY <1>5, <1>6, <1>7 DEF IInv

\* A new subscription: it is the last, on the watcher created last, and no other
\* one with its id holds a watcher.
LEMMA HandleSubInv ==
  ASSUME IInv, HandleSub
  PROVE  IInv'
<1> DEFINE id == Head(up).id
           w == IF current = 0 THEN Len(watchers) + 1 ELSE current
           ready == current # 0 /\ watchers[current].shows # 0
           fresh == [life |-> "running", shows |-> 0]
           x == [id |-> id, watcher |-> w, conn |-> conn, st |-> IF ready THEN "in" ELSE "waiting"]
           n == Len(served) + 1
<1>1. /\ Request("sub") /\ byId[id] = 0 /\ current' = w
      /\ watchers' = (IF current # 0 THEN watchers ELSE Append(watchers, fresh))
      /\ served' = Append(served, x) /\ byId' = [byId EXCEPT ![id] = n]
      /\ UNCHANGED <<log, conn, ids, wire, attached, linger, ws>>
  BY DEF HandleSub, serverVars, clientVars, link, ui
<1>2. /\ PartsInv /\ UpInv /\ served \in Seq(Served) /\ byId \in [Ids -> Nat]
      /\ up \in Seq(Requests) /\ watchers \in Seq(Watcher) /\ conn \in Nat
      /\ Len(watchers) \in Nat /\ DOMAIN watchers = 1..Len(watchers)
      /\ Len(served) \in Nat /\ DOMAIN served = 1..Len(served)
      /\ current \in {0, Len(watchers)}
  BY Basics DEF IInv, PartsInv
<1>3. ws = "open" /\ up # <<>> /\ Head(up).op = "sub"
  BY <1>1 DEF Request
<1>4. id \in Ids /\ Head(up) = Sub(id)
  <2>1. Head(up) \in Requests
    BY <1>2, <1>3, TailIs
  <2> QED
    BY <1>3, <2>1, RequestIs
<1> HIDE DEF id
<1>20. /\ \A k \in DOMAIN served : k \in Nat /\ k # 0 /\ k < n /\ k # n
       /\ n \in Nat \ {0} /\ n \notin DOMAIN served
  <2>1. DOMAIN served = 1..Len(served) /\ Len(served) \in Nat
    BY <1>2
  <2> QED
    BY <2>1
<1>21. /\ \A j, k \in Nat : k \in DOMAIN served /\ j # 0 /\ j <= k => j \in DOMAIN served
  <2>1. DOMAIN served = 1..Len(served) /\ Len(served) \in Nat
    BY <1>2
  <2> QED
    BY <2>1
<1>22. \/ current = 0 /\ w = Len(watchers) + 1
       \/ current # 0 /\ w = Len(watchers) /\ w = current /\ w \in DOMAIN watchers
  <2>1. /\ Len(watchers) \in Nat /\ DOMAIN watchers = 1..Len(watchers)
        /\ current \in {0, Len(watchers)}
    BY <1>2
  <2>2. CASE current = 0
    BY <2>2
  <2>3. CASE current # 0
    <3>1. w = current /\ current = Len(watchers) /\ Len(watchers) # 0
      BY <2>1, <2>3
    <3> HIDE DEF w, x, n, fresh, ready
    <3>2. Len(watchers) \in DOMAIN watchers
      BY <2>1, <3>1
    <3> QED
      BY <2>3, <3>1, <3>2
  <2> QED
    BY <2>2, <2>3
<1>5. /\ watchers' \in Seq(Watcher) /\ DOMAIN watchers' = 1..w /\ w \in Nat \ {0}
      /\ Len(watchers') = w
      /\ \A v \in DOMAIN watchers : v \in DOMAIN watchers' /\ v <= w /\ watchers'[v] = watchers[v]
      /\ (current = 0 => watchers'[w] = fresh)
  <2>1. CASE current # 0
    <3>1. w = current /\ current = Len(watchers) /\ watchers' = watchers
      BY <1>1, <1>2, <2>1
    <3> QED
      BY <1>2, <2>1, <3>1
  <2>2. CASE current = 0
    <3>1. fresh \in Watcher
      BY DEF Watcher
    <3>2. w = Len(watchers) + 1 /\ watchers' = Append(watchers, fresh)
      BY <1>1, <2>2
    <3> HIDE DEF fresh, w
    <3> QED
      BY <1>2, <2>2, <3>1, <3>2, AppendIs
  <2> QED
    BY <2>1, <2>2
<1>6. /\ x \in Served /\ x.id = id /\ x.watcher = w /\ x.conn = conn
      /\ (x.st = "in" => ready)
  <2>1. w \in Nat
    BY <1>5
  <2> HIDE DEF w, ready
  <2> QED
    BY <1>2, <1>4, <2>1 DEF Served
<1>7. ready => w \in DOMAIN watchers' /\ watchers'[w].shows # 0
  <2> SUFFICES ASSUME ready PROVE w \in DOMAIN watchers' /\ watchers'[w].shows # 0
    OBVIOUS
  <2>1. w = current /\ w \in DOMAIN watchers /\ watchers[current].shows # 0
    BY <1>22
  <2> HIDE DEF w, ready, x, n, fresh
  <2> QED
    BY <1>5, <2>1
<1> HIDE DEF x, ready, w, fresh
<1>8. /\ served' \in Seq(Served) /\ DOMAIN served' = DOMAIN served \cup {n}
      /\ served'[n] = x /\ \A k \in DOMAIN served : served'[k] = served[k] /\ k < n
      /\ n \in Nat \ {0}
  <2>1. served \in Seq(Served) /\ x \in Served /\ served' = Append(served, x)
    BY <1>1, <1>2, <1>6
  <2>2. /\ served' \in Seq(Served) /\ DOMAIN served' = DOMAIN served \cup {n}
        /\ served'[n] = x /\ \A k \in DOMAIN served : served'[k] = served[k]
    BY <2>1, AppendIs
  <2> HIDE DEF n
  <2> QED
    BY <2>2, <1>20
<1> HIDE DEF n
<1>9. /\ byId' \in [Ids -> Nat] /\ byId'[id] = n
      /\ \A i \in Ids : i # id => byId'[i] = byId[i]
  BY <1>1, <1>2, <1>4, <1>8
<1>10. UpInv' /\ up' \in Seq(Requests)
  <2>1. \A i \in Ids : Head(up) # Unsub(i)
    BY <1>3, RequestsAre
  <2>2. \A i \in Ids : byId'[i] # 0 => byId[i] # 0 \/ Head(up) = Sub(i)
    BY <1>4, <1>9
  <2> QED
    BY <1>1, <1>2, <2>1, <2>2, RequestInv
<1>11. PartsInv'
  BY <1>1, <1>2, <1>5, <1>8, <1>9, <1>10 DEF PartsInv
<1>12. CurrentInv'
  <2> SUFFICES ASSUME NEW v \in DOMAIN watchers', watchers'[v].life = "running"
               PROVE  v = w
    BY <1>1 DEF CurrentInv
  <2>1. CASE v \in DOMAIN watchers
    <3>1. v = current /\ current # 0
      BY <1>2, <1>5, <2>1 DEF IInv, CurrentInv
    <3> QED
      BY <3>1 DEF w
  <2>2. CASE v \notin DOMAIN watchers
    <3>1. v \in 1..w /\ v \notin 1..Len(watchers) /\ Len(watchers) \in Nat
      BY <1>2, <1>5, <2>2
    <3> QED
      BY <1>22, <3>1
  <2> QED
    BY <2>1, <2>2
<1>13. ServedInv'
  <2>1. \A k \in DOMAIN served :
          /\ served[k].watcher \in DOMAIN watchers
          /\ served[k].st = "in" => watchers[served[k].watcher].shows # 0
          /\ Live(served[k]) => /\ ws = "open" /\ served[k].conn = conn /\ byId[served[k].id] = k
                                /\ \A j \in DOMAIN served : served[j].id = served[k].id => j <= k
    BY DEF IInv, ServedInv
  <2>2. \A j, k \in DOMAIN served : j <= k => served[j].watcher <= served[k].watcher
    BY DEF IInv, ServedInv
  <2>3. ASSUME NEW k \in DOMAIN served
        PROVE  /\ k # n /\ served'[k] = served[k] /\ served[k].id \in Ids
               /\ (Live(served[k]) => served[k].id # id)
    <3>0. served \in Seq(Served)
      BY <1>2
    <3>1. served[k] \in Served
      BY <3>0
    <3>2. served[k].id \in Ids
      BY <3>1 DEF Served
    <3>3. k # n /\ k # 0
      BY <1>20
    <3>4. Live(served[k]) => byId[served[k].id] = k
      BY <2>1
    <3> QED
      BY <1>1, <1>8, <3>2, <3>3, <3>4
  <2>4. ASSUME NEW k \in DOMAIN served
        PROVE  /\ served'[k].watcher \in DOMAIN watchers'
               /\ served'[k].st = "in" => watchers'[served'[k].watcher].shows # 0
               /\ Live(served'[k]) =>
                    /\ ws' = "open" /\ served'[k].conn = conn' /\ byId'[served'[k].id] = k
                    /\ \A j \in DOMAIN served' : served'[j].id = served'[k].id => j <= k
    <3>1. /\ served'[k].watcher \in DOMAIN watchers'
          /\ served'[k].st = "in" => watchers'[served'[k].watcher].shows # 0
      BY <1>5, <2>1, <2>3
    <3>2. ASSUME Live(served'[k])
          PROVE  ws' = "open" /\ served'[k].conn = conn' /\ byId'[served'[k].id] = k
      BY <1>1, <1>9, <2>1, <2>3, <3>2
    <3>3. ASSUME Live(served'[k]), NEW j \in DOMAIN served', served'[j].id = served'[k].id
          PROVE  j <= k
      <4>1. j # n
        BY <1>6, <1>8, <2>3, <3>3
      <4>2. j \in DOMAIN served
        BY <1>8, <4>1
      <4> QED
        BY <2>1, <2>3, <3>3, <4>2
    <3> QED
      BY <3>1, <3>2, <3>3
  <2>5. /\ served'[n].watcher \in DOMAIN watchers'
        /\ served'[n].st = "in" => watchers'[served'[n].watcher].shows # 0
        /\ ws' = "open" /\ served'[n].conn = conn' /\ byId'[served'[n].id] = n
        /\ \A j \in DOMAIN served' : j <= n
    <3>1. served'[n].watcher \in DOMAIN watchers'
      BY <1>5, <1>6, <1>8
    <3>2. served'[n].st = "in" => watchers'[served'[n].watcher].shows # 0
      BY <1>6, <1>7, <1>8
    <3>3. ws' = "open" /\ served'[n].conn = conn' /\ byId'[served'[n].id] = n
      BY <1>1, <1>3, <1>6, <1>8, <1>9
    <3>4. \A j \in DOMAIN served' : j <= n
      BY <1>8, <1>20
    <3> QED
      BY <3>1, <3>2, <3>3, <3>4
  <2>6. ASSUME NEW j \in DOMAIN served', NEW k \in DOMAIN served', j <= k
        PROVE  served'[j].watcher <= served'[k].watcher
    <3>1. CASE k \in DOMAIN served
      <4>1. j \in DOMAIN served
        BY <1>8, <1>20, <2>6, <3>1
      <4> QED
        BY <2>2, <2>3, <2>6, <3>1, <4>1
    <3>2. CASE k = n
      <4>1. served'[k].watcher = w
        BY <1>6, <1>8, <3>2
      <4>2. CASE j = n
        BY <1>5, <3>2, <4>1, <4>2
      <4>3. CASE j \in DOMAIN served
        BY <1>5, <2>1, <2>3, <4>1, <4>3
      <4> QED
        BY <1>8, <4>2, <4>3
    <3> QED
      BY <1>8, <3>1, <3>2
  <2>7. \A k \in DOMAIN served' : k = n \/ k \in DOMAIN served
    BY <1>8
  <2> QED
    BY <2>4, <2>5, <2>6, <2>7 DEF ServedInv
<1> QED
  BY <1>10, <1>11, <1>12, <1>13 DEF IInv

-----------------------------------------------------------------------------
(* The watchers and the session                                            *)

\* Steps that leave the socket and the browser alone.
LEMMA WatchersInv ==
  ASSUME IInv, WatchersAge, current' \in {0, current},
         log' \in Seq(Entry), Len(log') \in Nat \ {0},
         UNCHANGED <<served, byId, up, conn, ids, wire, attached, linger, ws>>
  PROVE  IInv'
<1>1. CurrentInv' /\ ServedInv' /\ current' \in {0, Len(watchers')}
  BY AgeInv DEF IInv
<1>2. PartsInv'
  BY <1>1 DEF IInv, PartsInv, WatchersAge
<1>3. UpInv'
  BY UpSame DEF IInv
<1> QED
  BY <1>1, <1>2, <1>3 DEF IInv

LEMMA ApiWriteInv ==
  ASSUME IInv, ApiWrite
  PROVE  IInv'
<1>1. /\ Write
      /\ UNCHANGED <<current, watchers, served, byId, up, conn, ids, wire, attached, linger, ws>>
  BY DEF ApiWrite, sessions, sockets, clientVars, link, ui
<1>2. PartsInv /\ log \in Seq(Entry)
  BY DEF IInv, PartsInv
<1>3. log' \in Seq(Entry) /\ Len(log') \in Nat \ {0}
  <2>1. PICK e \in Entry : log' = Append(log, e)
    BY <1>1 DEF Write
  <2> QED
    BY <1>2, <2>1, AppendIs
<1> QED
  BY <1>1, <1>2, <1>3, AgeSame, WatchersInv

LEMMA LifeChanges ==
  ASSUME NEW x \in Watcher, NEW life
  PROVE  [x EXCEPT !.life = life] = [life |-> life, shows |-> x.shows] /\ x.shows \in Nat
  BY DEF Watcher

LEMMA StopAges ==
  ASSUME PartsInv, StopCurrent, current' = 0
  PROVE  WatchersAge
<1>1. /\ PartsInv /\ watchers \in Seq(Watcher) /\ DOMAIN watchers = 1..Len(watchers)
      /\ current \in 0..Len(watchers)
  BY Basics
<1>2. CASE current = 0
  BY <1>1, <1>2, AgeSame DEF StopCurrent
<1>3. CASE current # 0
  <2>1. current \in DOMAIN watchers /\ watchers[current] \in Watcher
    BY <1>1, <1>3
  <2>2. PICK life \in {"listing", "relisting", "stopped"} :
          watchers' = [watchers EXCEPT ![current].life = life]
    BY <1>3 DEF StopCurrent
  <2>3. /\ watchers' = [watchers EXCEPT ![current] =
                          [life |-> life, shows |-> watchers[current].shows]]
        /\ watchers[current].shows \in Nat
    <3>1. watchers' = [watchers EXCEPT ![current] = [watchers[current] EXCEPT !.life = life]]
      BY <2>2
    <3> QED
      BY <2>1, <3>1, LifeChanges
  <2> QED
    BY <1>1, <2>1, <2>3, AgeOne
<1> QED
  BY <1>2, <1>3

LEMMA SessionInv ==
  ASSUME IInv, LingerStops \/ SessionEnds \/ SessionStarts \/ SessionReady
  PROVE  IInv'
<1>1. UNCHANGED <<log, served, byId, up, conn, ids, wire, attached, linger, ws>>
  BY DEF LingerStops, SessionEnds, SessionStarts, SessionReady, serverVars, sockets,
         clientVars, link, ui
<1>2. PartsInv /\ log' \in Seq(Entry) /\ Len(log') \in Nat \ {0}
  BY <1>1 DEF IInv, PartsInv
<1>3. CASE LingerStops \/ SessionEnds
  BY <1>1, <1>2, <1>3, StopAges, WatchersInv DEF LingerStops, SessionEnds
<1>4. CASE SessionStarts \/ SessionReady
  BY <1>1, <1>2, <1>4, AgeSame, WatchersInv DEF SessionStarts, SessionReady
<1> QED
  BY <1>3, <1>4

LEMMA WatcherGoesInv ==
  ASSUME IInv, NEW w \in DOMAIN watchers, WatcherEmits(w) \/ WatcherRelists(w) \/ WatchEnds(w)
  PROVE  IInv'
<1>1. UNCHANGED <<log, current, served, byId, up, conn, ids, wire, attached, linger, ws>>
  BY DEF WatcherEmits, WatcherRelists, WatchEnds, Emits, serverVars, sessions, sockets,
         clientVars, link, ui
<1>2. /\ PartsInv /\ log \in Seq(Entry) /\ Len(log) \in Nat \ {0} /\ watchers[w] \in Watcher
  BY Basics DEF IInv, PartsInv
<1>3. /\ watchers[w].shows \in Nat
      /\ watchers[w].life \in {"running", "listing", "watching", "relisting", "stopped"}
  BY <1>2 DEF Watcher
<1>4. WatchersAge
  <2>1. CASE WatcherEmits(w)
    <3>1. PICK q \in (watchers[w].shows + 1)..Len(log) :
            watchers' = [watchers EXCEPT ![w] = [life |-> watchers[w].life, shows |-> q]]
      BY <2>1 DEF WatcherEmits, Emits
    <3>2. q \in Nat /\ q # 0
      BY <1>2, <1>3
    <3> QED
      BY <1>1, <1>2, <1>3, <3>1, <3>2, AgeOne
  <2>2. CASE WatcherRelists(w)
    <3> DEFINE life == IF watchers[w].life = "running" THEN "running" ELSE "stopped"
    <3>1. watchers' = [watchers EXCEPT ![w] = [life |-> life, shows |-> Len(log)]]
      BY <2>2 DEF WatcherRelists, Emits
    <3>2. life \in {"running", "stopped"} /\ (life = "running" => watchers[w].life = "running")
      OBVIOUS
    <3> HIDE DEF life
    <3> QED
      BY <1>1, <1>2, <3>1, <3>2, AgeOne
  <2>3. CASE WatchEnds(w)
    <3>1. watchers' = [watchers EXCEPT ![w] = [watchers[w] EXCEPT !.life = "stopped"]]
      BY <2>3 DEF WatchEnds
    <3>2. watchers' = [watchers EXCEPT ![w] = [life |-> "stopped", shows |-> watchers[w].shows]]
      BY <1>2, <3>1, LifeChanges
    <3> QED
      BY <1>1, <1>2, <1>3, <3>2, AgeOne
  <2> QED
    BY <2>1, <2>2, <2>3
<1> QED
  BY <1>1, <1>2, <1>4, WatchersInv

\* ready() resolves: everyone who waits is in.
LEMMA WatcherListedInv ==
  ASSUME IInv, NEW w \in DOMAIN watchers, WatcherListed(w)
  PROVE  IInv'
<1> DEFINE S == Listening(w, "waiting")
           life == IF watchers[w].life = "listing" THEN "watching" ELSE "running"
           y(k) == IF k \in S THEN [served[k] EXCEPT !.st = "in"] ELSE served[k]
<1>1. /\ watchers[w].life \in {"running", "listing"}
      /\ watchers' = [watchers EXCEPT ![w] = [life |-> life, shows |-> Len(log)]]
      /\ served' = [k \in DOMAIN served |-> y(k)]
      /\ UNCHANGED <<log, current, byId, up, conn, ids, wire, attached, linger, ws>>
  BY DEF WatcherListed, serverVars, sessions, clientVars, link, ui
<1>2. /\ PartsInv /\ Len(log) \in Nat \ {0} /\ watchers \in Seq(Watcher)
      /\ watchers[w] \in Watcher /\ served \in Seq(Served)
      /\ DOMAIN served = 1..Len(served) /\ Len(served) \in Nat
  BY Basics DEF IInv
<1>3. life \in {"running", "watching"} /\ (life = "running" => watchers[w].life = "running")
  BY <1>1
<1> HIDE DEF life, y, S
<1>4. WatchersAge
  BY <1>1, <1>2, <1>3, AgeOne
<1> USE DEF y, S
<1>5. /\ DOMAIN watchers' = DOMAIN watchers /\ watchers'[w].shows # 0
      /\ \A v \in DOMAIN watchers : watchers[v].shows # 0 => watchers'[v].shows # 0
  <2>1. /\ DOMAIN watchers' = DOMAIN watchers
        /\ watchers'[w] = [life |-> life, shows |-> Len(log)]
    BY <1>1
  <2>2. watchers'[w].shows # 0
    BY <1>2, <2>1
  <2> QED
    BY <1>4, <2>1, <2>2 DEF WatchersAge
<1>6. ASSUME NEW k \in DOMAIN served
      PROVE  /\ y(k) \in Served /\ y(k).watcher = served[k].watcher /\ y(k).id = served[k].id
             /\ y(k).conn = served[k].conn
             /\ (y(k).st = "in" => served[k].st = "in" \/ served[k].watcher = w)
             /\ (Live(y(k)) => Live(served[k]))
  <2>1. served[k] \in Served
    BY <1>2
  <2>2. CASE k \in S
    <3>1. y(k) = [served[k] EXCEPT !.st = "in"] /\ served[k].watcher = w /\ served[k].st = "waiting"
      BY <2>2 DEF Listening
    <3> HIDE DEF y
    <3> QED
      BY <2>1, <3>1 DEF Served, Live
  <2>3. CASE k \notin S
    <3>1. y(k) = served[k]
      BY <2>3
    <3> HIDE DEF y
    <3> QED
      BY <2>1, <3>1
  <2> QED
    BY <2>2, <2>3
<1> HIDE DEF y
<1>7. served' \in Seq(Served) /\ DOMAIN served' = DOMAIN served
      /\ \A k \in DOMAIN served : served'[k] = y(k)
  BY <1>1, <1>2, <1>6
<1>8. ServedInv'
  BY <1>1, <1>5, <1>6, <1>7, ServedKept DEF IInv
<1>9. CurrentInv' /\ current' \in {0, Len(watchers')}
  <2>1. DOMAIN watchers' = DOMAIN watchers /\ Len(watchers') = Len(watchers)
    BY <1>5, <1>4 DEF WatchersAge
  <2> QED
    BY <1>1, <1>2, <1>4, <2>1 DEF WatchersAge, CurrentInv, IInv, PartsInv
<1>10. PartsInv'
  BY <1>1, <1>2, <1>4, <1>7, <1>9 DEF PartsInv, WatchersAge
<1>11. UpInv'
  BY <1>1, <1>2, UpSame DEF IInv
<1> QED
  BY <1>8, <1>9, <1>10, <1>11 DEF IInv

\* ready() rejects while the watcher runs: it is the one created last, and shows
\* nothing, so whoever has come since under the id of one that waited, waits too.
LEMMA WatcherRejectsInv ==
  ASSUME IInv, ~LateRejections, NEW w \in DOMAIN watchers, WatcherRejects(w)
  PROVE  IInv'
<1> DEFINE S == Listening(w, "waiting") \cup Listening(w, "cancelled")
           here == {k \in S : served[k].conn = conn}
           y(k) == IF k \in S THEN [served[k] EXCEPT !.st = "stopped"] ELSE served[k]
<1>1. /\ watchers[w].shows = 0 /\ watchers[w].life = "running" /\ watchers' = watchers
      /\ served' = [k \in DOMAIN served |-> y(k)]
      /\ byId' = [i \in Ids |-> IF \E k \in here : served[k].id = i THEN 0 ELSE byId[i]]
      /\ UNCHANGED <<log, current, up, conn, ids, wire, attached, linger, ws>>
  BY DEF WatcherRejects, serverVars, sessions, clientVars, link, ui
<1>2. /\ PartsInv /\ UpInv /\ watchers \in Seq(Watcher) /\ served \in Seq(Served)
      /\ DOMAIN served = 1..Len(served) /\ Len(served) \in Nat
      /\ DOMAIN watchers = 1..Len(watchers) /\ Len(watchers) \in Nat
      /\ byId \in [Ids -> Nat]
  BY Basics DEF IInv
<1>3. w = current /\ w = Len(watchers)
  <2>1. w = current
    BY <1>1 DEF IInv, CurrentInv
  <2>2. current \in {0, Len(watchers)}
    BY <1>2 DEF PartsInv
  <2> QED
    BY <1>2, <2>1, <2>2
<1>4. ASSUME NEW k \in DOMAIN served, Live(served[k]), k \notin S,
             NEW h \in here, served[h].id = served[k].id
      PROVE  FALSE
  <2>1. h \in DOMAIN served /\ served[h].watcher = w
    BY DEF Listening
  <2>2. /\ h <= k /\ served[k].watcher \in DOMAIN watchers
        /\ (served[k].st = "in" => watchers[served[k].watcher].shows # 0)
    BY <1>4, <2>1 DEF IInv, ServedInv
  <2>3. w <= served[k].watcher
    BY <2>1, <2>2 DEF IInv, ServedInv
  <2>4. served[k].watcher = w
    BY <1>2, <1>3, <2>2, <2>3
  <2>5. served[k].st = "waiting"
    BY <1>1, <1>4, <2>2, <2>4 DEF Live
  <2> QED
    BY <1>4, <2>4, <2>5 DEF Listening
<1>5. ASSUME NEW k \in DOMAIN served
      PROVE  /\ y(k) \in Served /\ y(k).watcher = served[k].watcher /\ y(k).id = served[k].id
             /\ y(k).conn = served[k].conn
             /\ (y(k).st = "in" => served[k].st = "in")
             /\ (Live(y(k)) => Live(served[k]) /\ byId'[served[k].id] = byId[served[k].id])
  <2>1. served[k] \in Served
    BY <1>2
  <2>2. CASE k \in S
    <3>1. y(k) = [served[k] EXCEPT !.st = "stopped"]
      BY <2>2
    <3> HIDE DEF y
    <3> QED
      BY <2>1, <3>1 DEF Served, Live
  <2>3. CASE k \notin S
    <3>1. y(k) = served[k]
      BY <2>3
    <3>2. served[k].id \in Ids
      BY <2>1 DEF Served
    <3>3. Live(served[k]) => ~\E h \in here : served[h].id = served[k].id
      BY <1>4, <2>3
    <3> HIDE DEF y, here
    <3> QED
      BY <1>1, <2>1, <3>1, <3>2, <3>3
  <2> QED
    BY <2>2, <2>3
<1> HIDE DEF y
<1>6. served' \in Seq(Served) /\ DOMAIN served' = DOMAIN served
      /\ \A k \in DOMAIN served : served'[k] = y(k)
  BY <1>1, <1>2, <1>5, SMTT(30)
<1> HIDE DEF here, S
<1>7. ServedInv'
  BY <1>1, <1>5, <1>6, ServedKept DEF IInv
<1>8. byId' \in [Ids -> Nat] /\ \A i \in Ids : byId'[i] # 0 => byId[i] # 0
  BY <1>1, <1>2
<1>9. UpInv'
  BY <1>1, <1>2, <1>8 DEF UpInv
<1>10. PartsInv'
  BY <1>1, <1>2, <1>6, <1>8 DEF PartsInv
<1>11. CurrentInv'
  BY <1>1 DEF IInv, CurrentInv
<1> QED
  BY <1>7, <1>9, <1>10, <1>11 DEF IInv

LEMMA InitIInv == Init => IInv
<1> SUFFICES ASSUME Init PROVE IInv
  OBVIOUS
<1>1. PICK u \in Uids : log = <<[type |-> "SET", uid |-> u]>>
  BY DEF Init
<1>2. /\ current = 0 /\ watchers = <<>> /\ served = <<>> /\ byId = [i \in Ids |-> 0]
      /\ conn = 0 /\ up = <<>> /\ ws = "closed" /\ ids = 0 /\ wire = NoId
      /\ attached = FALSE /\ linger = FALSE
  BY DEF Init
<1>3. PartsInv
  <2>1. Len(log) = 1 /\ log \in Seq(Entry)
    <3>1. [type |-> "SET", uid |-> u] \in Entry
      BY DEF Entry
    <3> QED
      BY <1>1, <3>1
  <2>2. MaxIds \in Nat
    OBVIOUS
  <2>3. watchers \in Seq(Watcher) /\ served \in Seq(Served) /\ up \in Seq(Requests)
        /\ Len(watchers) = 0
    BY <1>2
  <2>4. byId \in [Ids -> Nat]
    BY <1>2
  <2> QED
    BY <1>2, <2>1, <2>2, <2>3, <2>4 DEF PartsInv, NoId
<1>4. DOMAIN watchers = {} /\ DOMAIN served = {} /\ DOMAIN up = {}
  BY <1>2
<1>5. CurrentInv /\ ServedInv /\ UpInv
  BY <1>2, <1>4 DEF CurrentInv, ServedInv, UpInv
<1> QED
  BY <1>3, <1>5 DEF IInv

LEMMA NextIInv ==
  ASSUME ~LateRejections, IInv, [Next]_vars
  PROVE  IInv'
<1>1. CASE ApiWrite
  BY <1>1, ApiWriteInv
<1>2. CASE Components
  BY <1>2, SubscribeNewInv, SubscribersInv, TeardownInv DEF Components
<1>3. CASE Reconnect \/ Closes \/ ClosesLate \/ Flush
  BY <1>3, QuietInv
<1>4. CASE Opens \/ Breaks
  BY <1>4, OpensInv, BreaksInv
<1>5. CASE Receive
  BY <1>5, QuietInv, ReceiveResetInv DEF Receive
<1>6. CASE Handle
  BY <1>6, HandleUnsubInv, HandleNotConnectedInv, HandleSubInv DEF Handle
<1>7. CASE WatcherStep
  BY <1>7, WatcherListedInv, WatcherGoesInv DEF WatcherStep
<1>8. CASE \E w \in DOMAIN watchers : WatcherRejects(w)
  BY <1>8, WatcherRejectsInv
<1>9. CASE LingerStops \/ SessionEnds \/ SessionStarts \/ SessionReady
  BY <1>9, SessionInv
<1>10. CASE UNCHANGED vars
  <2>1. /\ UNCHANGED <<log, current, watchers, served, byId, up, conn, ids, wire, attached, linger, ws>>
    BY <1>10 DEF vars, serverVars, sessions, sockets, clientVars, link, ui
  <2>2. (attached \/ linger => wire # NoId) /\ (linger => ~attached)
    BY DEF IInv, PartsInv
  <2> QED
    BY <2>1, <2>2, CalmInv
<1> QED
  BY <1>1, <1>2, <1>3, <1>4, <1>5, <1>6, <1>7, <1>8, <1>9, <1>10 DEF Next

LEMMA IInvImplies == IInv => NoOrphans
<1> SUFFICES ASSUME IInv, NEW k \in DOMAIN served, served[k].st \in {"waiting", "in"}
             PROVE  /\ ws = "open" /\ served[k].conn = conn
                    /\ byId[served[k].id] = k
                    /\ up = <<>> => served[k].id = wire
  BY DEF NoOrphans
<1>1. Live(served[k])
  BY DEF Live
<1>2. ws = "open" /\ served[k].conn = conn /\ byId[served[k].id] = k
  BY <1>1 DEF IInv, ServedInv
<1>3. ASSUME up = <<>>
      PROVE  served[k].id = wire
  <2>1. PartsInv /\ served[k] \in Served /\ DOMAIN served = 1..Len(served) /\ Len(served) \in Nat
    BY Basics DEF IInv
  <2>2. served[k].id \in Ids /\ k # 0
    BY <2>1 DEF Served
  <2>3. DOMAIN up = {}
    BY <1>3
  <2> QED
    BY <1>2, <2>2, <2>3 DEF IInv, UpInv
<1> QED
  BY <1>2, <1>3

-----------------------------------------------------------------------------
(* The types                                                               *)

LinkInv ==
  /\ ws \in {"closed", "closing", "connecting", "open"}
  /\ lateClose \in {"none", "due", "came"}
  /\ conn \in Nat /\ faults \in 0..MaxFaults
  /\ conn <= faults + (IF ws = "open" THEN 1 ELSE 0)
  /\ ws = "open" => conn # 0

LinkStays == UNCHANGED <<ws, lateClose, conn, faults>>

LEMMA LinkNext ==
  ASSUME LinkInv, [Next]_vars
  PROVE  LinkInv'
<1> USE DEF link, clientVars
<1>0. MaxFaults \in Nat
  OBVIOUS
<1>1. CASE Opens \/ Breaks
  BY <1>0, <1>1 DEF Opens, Breaks, Fault, LinkInv
<1>2. CASE SubscribeNew \/ Reconnect \/ Closes \/ ClosesLate \/ ReceiveStatus
  BY <1>2 DEF SubscribeNew, Reconnect, Connecting, MayConnect, Closes, ClosesLate, ReceiveStatus, LinkInv
<1>3. CASE SessionEnds \/ \E w \in DOMAIN watchers : WatcherRejects(w)
  <2>1. UNCHANGED <<ws, lateClose, conn>> /\ Fault
    BY <1>3 DEF SessionEnds, WatcherRejects
  <2> QED
    BY <1>0, <2>1 DEF Fault, LinkInv
<1>4. CASE LinkStays
  BY <1>4 DEF LinkStays, LinkInv
<1>5. ApiWrite \/ SubscribeAgain \/ Leave \/ Teardown \/ Flush \/ UNCHANGED vars => LinkStays
  BY DEF ApiWrite, SubscribeAgain, Leave, Teardown, Flush, vars, LinkStays
<1>6. Receive => LinkStays \/ ReceiveStatus
  BY DEF Receive, ReceiveUnknown, ReceiveSnapshot, ReceiveEvents, ReceiveReset, LinkStays
<1>7. Handle => LinkStays
  BY DEF Handle, HandleUnsub, HandleNotConnected, HandleSub, LinkStays
<1>8. WatcherStep => LinkStays
  BY DEF WatcherStep, WatcherListed, WatcherEmits, WatcherRelists, WatchEnds, Emits, LinkStays
<1>9. LingerStops \/ SessionStarts \/ SessionReady => LinkStays
  BY DEF LingerStops, SessionStarts, SessionReady, LinkStays
<1> QED
  BY <1>1, <1>2, <1>3, <1>4, <1>5, <1>6, <1>7, <1>8, <1>9 DEF Next, Components

\* What may be under way to the browser: history up to v, ids up to i.
Heard(v, i) ==
  {m \in [op : {"sub", "unsub", "snapshot", "events", "status", "reset"}, id : 0..i,
          objects : SUBSET (1..v), state : {"", "live", "error"}] :
     /\ m.op = "status" => m.state # ""
     /\ m.id = NoId => m.objects = {}}

HeardInv == down \in Seq(Heard(Len(log), ids))

LEMMA HeardMore ==
  ASSUME NEW v \in Nat, NEW v2 \in Nat, v <= v2, NEW i \in Nat, NEW i2 \in Nat, i <= i2,
         NEW s \in Seq(Heard(v, i))
  PROVE  s \in Seq(Heard(v2, i2))
<1>1. 1..v \subseteq 1..v2 /\ 0..i \subseteq 0..i2
  OBVIOUS
<1>2. Heard(v, i) \subseteq Heard(v2, i2)
  BY <1>1 DEF Heard
<1> HIDE DEF Heard
<1>3. Len(s) \in Nat /\ DOMAIN s = 1..Len(s) /\ \A n \in 1..Len(s) : s[n] \in Heard(v2, i2)
  BY <1>2
<1> QED
  BY <1>3

LEMMA HeardMsg ==
  ASSUME NEW v \in Nat, NEW i \in Nat, NEW k \in 1..i, NEW c \in SUBSET (1..v)
  PROVE  /\ Msg("snapshot", k, c, "") \in Heard(v, i)
         /\ Msg("events", k, c, "") \in Heard(v, i)
         /\ Msg("status", k, {}, "live") \in Heard(v, i)
         /\ Msg("status", k, {}, "error") \in Heard(v, i)
         /\ Msg("reset", NoId, {}, "") \in Heard(v, i)
<1>1. k \in 0..i /\ k # NoId /\ 0 \in 0..i
  BY DEF NoId
<1> QED
  BY <1>1 DEF Heard, Msg, NoId

LEMMA MsgIs ==
  ASSUME NEW op, NEW i, NEW c, NEW st
  PROVE  /\ Msg(op, i, c, st).op = op /\ Msg(op, i, c, st).id = i
         /\ Msg(op, i, c, st).objects = c /\ Msg(op, i, c, st).state = st
  BY DEF Msg

LEMMA TwoAre ==
  ASSUME NEW X, NEW d \in Seq(X), NEW a \in X, NEW b \in X
  PROVE  /\ <<a, b>> \in Seq(X) /\ DOMAIN <<a, b>> = {1, 2} /\ <<a, b>>[1] = a /\ <<a, b>>[2] = b
         /\ d \o <<a, b>> = Append(Append(d, a), b)
         /\ <<a>> \in Seq(X) /\ DOMAIN <<a>> = {1} /\ <<a>>[1] = a /\ d \o <<a>> = Append(d, a)
<1>1. /\ <<a, b>> \in Seq(X) /\ DOMAIN <<a, b>> = {1, 2} /\ <<a, b>>[1] = a /\ <<a, b>>[2] = b
  OBVIOUS
<1>2. /\ <<a>> \in Seq(X) /\ DOMAIN <<a>> = {1} /\ <<a>>[1] = a
  OBVIOUS
<1>3. d \o <<a>> = Append(d, a)
  OBVIOUS
<1>4. d \o <<a, b>> = Append(Append(d, a), b)
  OBVIOUS
<1> QED
  BY <1>1, <1>2, <1>3, <1>4

\* The answer to a subscription.
LEMMA AnswerIs ==
  ASSUME NEW i, NEW r, NEW X, NEW d \in Seq(X),
         Msg("snapshot", i, StoreAt(r), "") \in X, Msg("status", i, {}, "live") \in X
  PROVE  /\ Answer(i, r) \in Seq(X)
         /\ \A n \in DOMAIN Answer(i, r) : Answer(i, r)[n].id = i
         /\ d \o Answer(i, r) = Append(Append(d, Msg("snapshot", i, StoreAt(r), "")),
                                       Msg("status", i, {}, "live"))
<1> DEFINE a == Msg("snapshot", i, StoreAt(r), "")
           b == Msg("status", i, {}, "live")
<1>1. a.id = i /\ b.id = i
  BY DEF Msg
<1>2. Answer(i, r) = <<a, b>>
  BY DEF Answer
<1>3. a \in X /\ b \in X
  OBVIOUS
<1> HIDE DEF a, b
<1>4. /\ <<a, b>> \in Seq(X) /\ DOMAIN <<a, b>> = {1, 2} /\ <<a, b>>[1] = a /\ <<a, b>>[2] = b
      /\ d \o <<a, b>> = Append(Append(d, a), b)
  BY ONLY <1>3, d \in Seq(X), TwoAre
<1> QED
  BY ONLY <1>1, <1>2, <1>4 DEF a, b

\* History and ids only grow.
LEMMA Grows ==
  ASSUME PartsInv, [Next]_vars
  PROVE  /\ Len(log) \in Nat /\ Len(log') \in Nat /\ Len(log) <= Len(log')
         /\ Agree(1..Len(log), log, log')
         /\ ids \in Nat /\ ids' \in Nat /\ ids <= ids'
         /\ compacted' = compacted
<1> USE DEF clientVars, serverVars, ui
<1>0. log \in Seq(Entry) /\ Len(log) \in Nat /\ ids \in Nat
  BY DEF PartsInv
<1>1. CASE ApiWrite
  <2>1. PICK e \in Entry : log' = Append(log, e) /\ UNCHANGED <<compacted, ids>>
    BY <1>1 DEF ApiWrite, Write
  <2>2. Len(log') = Len(log) + 1 /\ \A k \in DOMAIN log : Append(log, e)[k] = log[k]
    BY <1>0, <2>1, AppendIs
  <2>3. DOMAIN log = 1..Len(log)
    BY <1>0
  <2> QED
    BY <1>0, <2>1, <2>2, <2>3 DEF Agree
<1>2. CASE UNCHANGED <<log, compacted>> /\ ids' \in {ids, ids + 1}
  BY <1>0, <1>2 DEF Agree
<1>3. CASE Next /\ ~ApiWrite
  <2>1. SubscribeNew => UNCHANGED <<log, compacted>> /\ ids' \in {ids, ids + 1}
    BY DEF SubscribeNew
  <2>2. SubscribeAgain \/ Leave \/ Teardown \/ Flush \/ Reconnect \/ Opens \/ Breaks \/ Closes \/ ClosesLate
          => UNCHANGED <<log, compacted, ids>>
    BY DEF SubscribeAgain, Leave, Teardown, Flush, Reconnect, Opens, Breaks, Closes, ClosesLate
  <2>3. Receive => UNCHANGED <<log, compacted, ids>>
    BY DEF Receive, ReceiveUnknown, ReceiveSnapshot, ReceiveEvents, ReceiveStatus, ReceiveReset
  <2>4. Handle => UNCHANGED <<log, compacted, ids>>
    BY DEF Handle, HandleUnsub, HandleNotConnected, HandleSub
  <2>5. WatcherStep \/ (\E w \in DOMAIN watchers : WatcherRejects(w)) => UNCHANGED <<log, compacted, ids>>
    BY DEF WatcherStep, WatcherListed, WatcherEmits, WatcherRelists, WatchEnds, Emits, WatcherRejects
  <2>6. LingerStops \/ SessionEnds \/ SessionStarts \/ SessionReady => UNCHANGED <<log, compacted, ids>>
    BY DEF LingerStops, SessionEnds, SessionStarts, SessionReady
  <2> QED
    BY <1>2, <1>3, <2>1, <2>2, <2>3, <2>4, <2>5, <2>6 DEF Next, Components
<1>4. CASE UNCHANGED vars
  BY <1>2, <1>4 DEF vars
<1> QED
  BY <1>1, <1>3, <1>4

\* The socket's tables fit together.
TablesInv ==
  /\ compacted \in 1..Len(log) /\ session \in {"none", "probing", "ready"}
  /\ \A w \in DOMAIN watchers : watchers[w].shows <= Len(log)
  /\ \A k \in DOMAIN served :
       /\ served[k].watcher \in 1..Len(watchers) /\ served[k].conn \in 1..(MaxFaults + 1)
       /\ served[k].id <= ids
  /\ \A i \in Ids : byId[i] # 0 => byId[i] \in DOMAIN served /\ served[byId[i]].id = i

\* Subscriptions stay what they are, whatever they do.
ServedStay ==
  /\ DOMAIN served' = DOMAIN served
  /\ \A k \in DOMAIN served : /\ served'[k].id = served[k].id
                              /\ served'[k].watcher = served[k].watcher
                              /\ served'[k].conn = served[k].conn

LEMMA ServedStaySame ==
  ASSUME served' = served
  PROVE  ServedStay
  BY DEF ServedStay

LEMMA ServedStayWhere ==
  ASSUME served \in Seq(Served), NEW S,
         \/ served' = [k \in DOMAIN served |-> IF k \in S THEN Stopped(served[k]) ELSE served[k]]
         \/ \E st : served' = [k \in DOMAIN served |->
                                 IF k \in S THEN [served[k] EXCEPT !.st = st] ELSE served[k]]
  PROVE  ServedStay
<1>1. \A k \in DOMAIN served : served[k] \in Served
  OBVIOUS
<1>2. ASSUME NEW x \in Served, NEW st, NEW y, y \in {Stopped(x), [x EXCEPT !.st = st], x}
      PROVE  y.id = x.id /\ y.watcher = x.watcher /\ y.conn = x.conn
  BY <1>2 DEF Served, Stopped
<1>3. CASE served' = [k \in DOMAIN served |-> IF k \in S THEN Stopped(served[k]) ELSE served[k]]
  <2>1. DOMAIN served' = DOMAIN served
    BY <1>3
  <2>2. \A k \in DOMAIN served : served'[k] \in {Stopped(served[k]), served[k]}
    BY <1>3
  <2> QED
    BY <1>1, <1>2, <2>1, <2>2 DEF ServedStay
<1>4. CASE \E st : served' = [k \in DOMAIN served |->
                                IF k \in S THEN [served[k] EXCEPT !.st = st] ELSE served[k]]
  <2>0. PICK st : served' = [k \in DOMAIN served |->
                               IF k \in S THEN [served[k] EXCEPT !.st = st] ELSE served[k]]
    BY <1>4
  <2>1. DOMAIN served' = DOMAIN served
    BY <2>0
  <2>2. ASSUME NEW k \in DOMAIN served
        PROVE  /\ served'[k].id = served[k].id /\ served'[k].watcher = served[k].watcher
               /\ served'[k].conn = served[k].conn
    <3> DEFINE x == served[k]
               y == [x EXCEPT !.st = st]
    <3>1. x \in Served
      BY <1>1
    <3>2. y.id = x.id /\ y.watcher = x.watcher /\ y.conn = x.conn
      BY <3>1 DEF Served
    <3>3. served'[k] = y \/ served'[k] = x
      BY <2>0
    <3> HIDE DEF x, y
    <3>4. served'[k].id = x.id /\ served'[k].watcher = x.watcher /\ served'[k].conn = x.conn
      BY <3>2, <3>3
    <3> QED
      BY <3>4 DEF x
  <2> QED
    BY <2>1, <2>2 DEF ServedStay
<1> QED
  BY <1>3, <1>4

\* The watchers go on.
LEMMA TablesKept ==
  ASSUME PartsInv, PartsInv', TablesInv, [Next]_vars, session' \in {"none", "probing", "ready"},
         ServedStay, \A i \in Ids : byId'[i] \in {0, byId[i]},
         Len(watchers') = Len(watchers),
         \A w \in DOMAIN watchers : watchers'[w].shows \in {watchers[w].shows} \cup 0..Len(log)
  PROVE  TablesInv'
<1>1. /\ Len(log) \in Nat /\ Len(log') \in Nat /\ Len(log) <= Len(log')
      /\ ids \in Nat /\ ids' \in Nat /\ ids <= ids' /\ compacted' = compacted
  BY Grows
<1>2. compacted' \in 1..Len(log')
  BY <1>1 DEF TablesInv
<1>3. \A w \in DOMAIN watchers' : watchers'[w].shows <= Len(log')
  <2>1. watchers \in Seq(Watcher) /\ watchers' \in Seq(Watcher)
    BY DEF PartsInv
  <2>2. DOMAIN watchers' = DOMAIN watchers
    BY <2>1
  <2>3. ASSUME NEW w \in DOMAIN watchers
        PROVE  watchers'[w].shows <= Len(log')
    <3>1. watchers[w] \in Watcher
      BY <2>1
    <3>2. watchers[w].shows \in Nat /\ watchers[w].shows <= Len(log)
      BY <3>1 DEF Watcher, TablesInv
    <3>3. watchers'[w].shows \in {watchers[w].shows} \cup 0..Len(log)
      OBVIOUS
    <3> QED
      BY <1>1, <3>2, <3>3
  <2> QED
    BY <2>2, <2>3
<1>4. ASSUME NEW k \in DOMAIN served'
      PROVE  /\ served'[k].watcher \in 1..Len(watchers') /\ served'[k].conn \in 1..(MaxFaults + 1)
             /\ served'[k].id <= ids'
  <2>1. /\ k \in DOMAIN served /\ served'[k].watcher = served[k].watcher
        /\ served'[k].conn = served[k].conn /\ served'[k].id = served[k].id
    BY DEF ServedStay
  <2>2. /\ served[k].watcher \in 1..Len(watchers) /\ served[k].conn \in 1..(MaxFaults + 1)
        /\ served[k].id <= ids
    BY <2>1 DEF TablesInv
  <2>3. served[k].id \in Nat
    <3>1. served \in Seq(Served)
      BY DEF PartsInv
    <3>2. served[k] \in Served
      BY <2>1, <3>1
    <3> QED
      BY <3>2 DEF Served, Ids
  <2> QED
    BY <1>1, <2>1, <2>2, <2>3
<1>5. \A i \in Ids : byId'[i] # 0 => byId'[i] \in DOMAIN served' /\ served'[byId'[i]].id = i
  BY DEF TablesInv, ServedStay
<1> QED
  BY <1>2, <1>3, <1>4, <1>5 DEF TablesInv

LEMMA LifeOnly ==
  ASSUME watchers \in Seq(Watcher), NEW w \in DOMAIN watchers,
         \/ \E life : watchers' = [watchers EXCEPT ![w].life = life]
         \/ \E life : watchers' = [watchers EXCEPT ![w] = [life |-> life, shows |-> watchers[w].shows]]
  PROVE  /\ Len(watchers') = Len(watchers)
         /\ \A v \in DOMAIN watchers : watchers'[v].shows = watchers[v].shows
<1>1. PICK life : \/ watchers' = [watchers EXCEPT ![w] = [watchers[w] EXCEPT !.life = life]]
                  \/ watchers' = [watchers EXCEPT ![w] = [life |-> life, shows |-> watchers[w].shows]]
  OBVIOUS
<1>2. watchers[w] \in Watcher
  OBVIOUS
<1> DEFINE x == [life |-> life, shows |-> watchers[w].shows]
<1>3. watchers' = [watchers EXCEPT ![w] = x]
  BY <1>1, <1>2, LifeChanges
<1>4. x.shows = watchers[w].shows
  OBVIOUS
<1> HIDE DEF x
<1>5. Len(watchers') = Len(watchers) /\ watchers'[w] = x
      /\ \A v \in DOMAIN watchers : v # w => watchers'[v] = watchers[v]
  BY <1>3
<1> QED
  BY <1>4, <1>5

LEMMA StopShows ==
  ASSUME PartsInv, StopCurrent
  PROVE  /\ Len(watchers') = Len(watchers)
         /\ \A v \in DOMAIN watchers : watchers'[v].shows = watchers[v].shows
<1>1. watchers \in Seq(Watcher) /\ current \in 0..Len(watchers)
  BY Basics
<1>2. CASE current = 0
  BY <1>2 DEF StopCurrent
<1>3. CASE current # 0
  <2>1. current \in DOMAIN watchers
    BY <1>1, <1>3
  <2>2. \E life : watchers' = [watchers EXCEPT ![current].life = life]
    BY <1>3 DEF StopCurrent
  <2> QED
    BY <1>1, <2>1, <2>2, LifeOnly
<1> QED
  BY <1>2, <1>3

\* Requests are in the order of the ids they are about, none of them behind the
\* tables.
InOrder(b, u, i) ==
  /\ \A j \in DOMAIN u : u[j].id <= i
  /\ \A j, m \in DOMAIN u : j <= m => u[j].id <= u[m].id
  /\ \A k \in Ids, j \in DOMAIN u : b[k] # 0 => k <= u[j].id

OrderInv == wire \in {NoId, ids} /\ InOrder(byId, up, ids)

LEMMA InOrderNone ==
  ASSUME NEW b, NEW u, u = <<>>, NEW i
  PROVE  InOrder(b, u, i)
<1>1. DOMAIN u = {}
  OBVIOUS
<1> QED
  BY <1>1 DEF InOrder

LEMMA InOrderMore ==
  ASSUME NEW b, NEW u \in Seq(Requests), NEW i \in Nat, NEW i2 \in Nat, InOrder(b, u, i), i <= i2,
         NEW r \in Requests, r.id = i2, \A k \in Ids : b[k] # 0 => k <= i2
  PROVE  InOrder(b, Append(u, r), i2) /\ Append(u, r) \in Seq(Requests)
<1> DEFINE t == Append(u, r)
           n == Len(u) + 1
<1>1. /\ t \in Seq(Requests) /\ t[n] = r /\ DOMAIN t = DOMAIN u \cup {n}
      /\ \A k \in DOMAIN u : t[k] = u[k]
  BY AppendIs
<1>2. n \in Nat /\ \A k \in DOMAIN u : k \in Nat /\ k < n /\ u[k] \in Requests
  OBVIOUS
<1>3. \A k \in DOMAIN u : u[k].id \in Nat
  <2>1. \A k \in DOMAIN u : u[k].id \in Ids
    BY <1>2, RequestIs
  <2> QED
    BY <2>1 DEF Ids
<1> HIDE DEF t, n
<1>4. \A j \in DOMAIN t : t[j].id <= i2
  BY <1>1, <1>3 DEF InOrder
<1>5. \A j, m \in DOMAIN t : j <= m => t[j].id <= t[m].id
  <2> SUFFICES ASSUME NEW j \in DOMAIN t, NEW m \in DOMAIN t, j <= m
               PROVE  t[j].id <= t[m].id
    OBVIOUS
  <2>1. CASE m = n
    BY <1>1, <1>4, <2>1
  <2>2. CASE m \in DOMAIN u
    <3>1. j # n
      BY <1>2, <2>2
    <3> QED
      BY <1>1, <2>2, <3>1 DEF InOrder
  <2> QED
    BY <1>1, <2>1, <2>2
<1>6. \A k \in Ids, j \in DOMAIN t : b[k] # 0 => k <= t[j].id
  BY <1>1 DEF InOrder
<1> QED
  BY <1>1, <1>4, <1>5, <1>6 DEF InOrder, t

LEMMA InOrderLess ==
  ASSUME NEW b, NEW b2, NEW u \in Seq(Requests), u # <<>>, NEW i, InOrder(b, u, i),
         \A k \in Ids : b2[k] # 0 => b[k] # 0 \/ k = Head(u).id
  PROVE  InOrder(b2, Tail(u), i)
<1>1. /\ 1 \in DOMAIN u /\ u[1] = Head(u)
      /\ \A j \in DOMAIN Tail(u) : j \in Nat \ {0} /\ j + 1 \in DOMAIN u /\ Tail(u)[j] = u[j + 1]
  BY TailIs
<1>2. \A j \in DOMAIN Tail(u) : Tail(u)[j].id <= i
  BY <1>1 DEF InOrder
<1>3. \A j, m \in DOMAIN Tail(u) : j <= m => Tail(u)[j].id <= Tail(u)[m].id
  <2> SUFFICES ASSUME NEW j \in DOMAIN Tail(u), NEW m \in DOMAIN Tail(u), j <= m
               PROVE  Tail(u)[j].id <= Tail(u)[m].id
    OBVIOUS
  <2>1. j + 1 <= m + 1
    BY <1>1
  <2> QED
    BY <1>1, <2>1 DEF InOrder
<1>4. ASSUME NEW k \in Ids, NEW j \in DOMAIN Tail(u), b2[k] # 0
      PROVE  k <= Tail(u)[j].id
  <2>1. 1 <= j + 1 /\ j + 1 \in DOMAIN u
    BY <1>1
  <2>2. u[1].id <= u[j + 1].id
    BY <1>1, <2>1 DEF InOrder
  <2>3. b[k] # 0 => k <= u[j + 1].id
    BY <2>1 DEF InOrder
  <2>4. k = Head(u).id => k <= u[j + 1].id
    BY <1>1, <2>2
  <2> QED
    BY <1>1, <1>4, <2>3, <2>4
<1> QED
  BY <1>2, <1>3, <1>4 DEF InOrder

LEMMA InOrderKept ==
  ASSUME NEW b, NEW b2, NEW u \in Seq(Requests), NEW i \in Nat, NEW i2 \in Nat, InOrder(b, u, i),
         i <= i2, \A k \in Ids : b2[k] # 0 => b[k] # 0
  PROVE  InOrder(b2, u, i2)
<1>1. \A k \in DOMAIN u : u[k] \in Requests
  OBVIOUS
<1>2. \A k \in DOMAIN u : u[k].id \in Nat
  <2>1. \A k \in DOMAIN u : u[k].id \in Ids
    BY <1>1, RequestIs
  <2> QED
    BY <2>1 DEF Ids
<1> QED
  BY <1>2 DEF InOrder

LEMMA OrderSame ==
  ASSUME PartsInv, OrderInv, wire' = wire, ids' = ids, up' = up,
         \A k \in Ids : byId'[k] # 0 => byId[k] # 0
  PROVE  OrderInv'
<1>1. up \in Seq(Requests) /\ ids \in Nat
  BY DEF PartsInv
<1>2. InOrder(byId', up, ids)
  BY <1>1, InOrderKept DEF OrderInv
<1> QED
  BY <1>2 DEF OrderInv

\* A request for the newest id.
LEMMA OrderAsked ==
  ASSUME PartsInv, OrderInv, TablesInv, byId' = byId, ids <= ids', ids' \in Nat,
         NEW r \in Requests, r.id = ids', up' = up \/ up' = Append(up, r)
  PROVE  InOrder(byId', up', ids') /\ up' \in Seq(Requests)
<1>1. up \in Seq(Requests) /\ ids \in Nat
  BY DEF PartsInv
<1>2. \A k \in Ids : byId[k] # 0 => k <= ids'
  <2> SUFFICES ASSUME NEW k \in Ids, byId[k] # 0 PROVE k <= ids'
    OBVIOUS
  <2>1. k <= ids
    BY DEF TablesInv
  <2>2. k \in Int
    BY DEF Ids
  <2> QED
    BY <1>1, <2>1, <2>2
<1>3. CASE up' = up
  BY <1>1, <1>3, InOrderKept DEF OrderInv
<1>4. CASE up' = Append(up, r)
  BY <1>1, <1>2, <1>4, InOrderMore DEF OrderInv
<1> QED
  BY <1>3, <1>4

LEMMA OrderNext ==
  ASSUME PartsInv, PartsInv', OrderInv, TablesInv, [Next]_vars
  PROVE  OrderInv'
<1> USE DEF sockets, clientVars, ui
<1>0. /\ up \in Seq(Requests) /\ ids \in Nat /\ MaxIds \in Nat /\ ids \in 0..MaxIds
      /\ wire \in {NoId, ids} /\ NoId = 0 /\ InOrder(byId, up, ids)
      /\ (wire # NoId => wire \in Ids /\ Sub(wire) \in Requests /\ Unsub(wire) \in Requests
                         /\ Sub(wire).id = wire /\ Unsub(wire).id = wire /\ wire = ids)
  <2>1. wire # NoId => wire \in Ids
    BY Basics
  <2> QED
    BY <2>1, RequestsAre DEF PartsInv, OrderInv, NoId
<1>1. CASE SubscribeNew
  <2>1. /\ ids < MaxIds /\ ids' = ids + 1 /\ wire' = ids + 1 /\ byId' = byId
        /\ SendIfOpen(<<Sub(ids + 1)>>)
    BY <1>1 DEF SubscribeNew
  <2>2. ids + 1 \in Ids
    BY <1>0, <2>1 DEF Ids
  <2>3. Sub(ids + 1) \in Requests /\ Sub(ids + 1).id = ids'
    BY <2>1, <2>2, RequestsAre
  <2>4. up' = up \/ up' = Append(up, Sub(ids + 1))
    BY <1>0, <2>1, <2>3, TwoAre DEF SendIfOpen
  <2>5. ids <= ids' /\ ids' \in Nat
    BY <1>0, <2>1
  <2> QED
    BY <2>1, <2>3, <2>4, <2>5, OrderAsked DEF OrderInv
<1>2. CASE Teardown
  <2>1. /\ wire # NoId /\ wire' = NoId /\ ids' = ids /\ byId' = byId /\ SendIfOpen(<<Unsub(wire)>>)
    BY <1>2 DEF Teardown, PartsInv
  <2>2. up' = up \/ up' = Append(up, Unsub(wire))
    BY <1>0, <2>1, TwoAre DEF SendIfOpen
  <2>3. Unsub(wire) \in Requests /\ Unsub(wire).id = ids' /\ ids <= ids' /\ ids' \in Nat
    BY <1>0, <2>1
  <2> QED
    BY <2>1, <2>2, <2>3, OrderAsked DEF OrderInv
<1>3. CASE Opens
  <2>1. /\ wire' = wire /\ ids' = ids /\ byId' = byId
        /\ up' = IF wire # NoId THEN <<Sub(wire)>> ELSE <<>>
    BY <1>3 DEF Opens
  <2>2. CASE wire = NoId
    BY <1>0, <2>1, <2>2, InOrderNone DEF OrderInv
  <2>3. CASE wire # NoId
    <3>1. /\ \A j \in DOMAIN up' : up'[j] = Sub(wire)
      BY <2>1, <2>3
    <3>2. \A k \in Ids : byId[k] # 0 => k <= ids
      BY DEF TablesInv
    <3> QED
      BY <1>0, <2>1, <2>3, <3>1, <3>2 DEF OrderInv, InOrder
  <2> QED
    BY <2>2, <2>3
<1>4. CASE Breaks
  <2>1. wire' = wire /\ ids' = ids /\ up' = <<>>
    BY <1>4 DEF Breaks
  <2> QED
    BY <1>0, <2>1, InOrderNone DEF OrderInv
<1>5. CASE ReceiveReset
  <2>1. /\ wire' = wire /\ ids' = ids /\ byId' = byId
        /\ wire = NoId => up' = up
        /\ wire # NoId => up' = up \o <<Unsub(wire), Sub(wire)>>
    BY <1>5 DEF ReceiveReset
  <2>2. CASE wire = NoId
    BY <2>1, <2>2, OrderSame
  <2>3. CASE wire # NoId
    <3> DEFINE a == Unsub(wire)
               b == Sub(wire)
    <3>1. a \in Requests /\ b \in Requests /\ a.id = ids /\ b.id = ids
      BY <1>0, <2>3
    <3>2. up' = up \o <<a, b>>
      BY <2>1, <2>3
    <3> HIDE DEF a, b
    <3>3. up' = Append(Append(up, a), b)
      <4>1. up \in Seq(Requests) /\ a \in Requests /\ b \in Requests
        BY <1>0, <3>1
      <4>2. up \o <<a, b>> = Append(Append(up, a), b)
        BY ONLY <4>1, TwoAre
      <4> QED
        BY <3>2, <4>2
    <3>4. \A k \in Ids : byId[k] # 0 => k <= ids
      BY DEF TablesInv
    <3>5. InOrder(byId, Append(up, a), ids) /\ Append(up, a) \in Seq(Requests)
      <4>1. ids <= ids
        BY <1>0
      <4> QED
        BY <1>0, <3>1, <3>4, <4>1, InOrderMore
    <3>6. InOrder(byId, up', ids)
      <4>1. ids <= ids
        BY <1>0
      <4> QED
        BY <1>0, <3>1, <3>3, <3>4, <3>5, <4>1, InOrderMore
    <3> QED
      BY <1>0, <2>1, <3>6 DEF OrderInv
  <2> QED
    BY <2>2, <2>3
<1>6. CASE Handle
  <2>1. /\ up # <<>> /\ up' = Tail(up) /\ wire' = wire /\ ids' = ids
    BY <1>6 DEF Handle, HandleUnsub, HandleNotConnected, HandleSub, Request
  <2>2. Head(up).id \in Ids
    BY <1>0, <2>1, TailIs, RequestIs
  <2>3. byId \in [Ids -> Nat]
    BY Basics
  <2>4. \A k \in Ids : byId'[k] # 0 => byId[k] # 0 \/ k = Head(up).id
    <3>1. CASE HandleUnsub
      BY <2>3, <3>1 DEF HandleUnsub
    <3>2. CASE HandleNotConnected
      BY <3>2 DEF HandleNotConnected
    <3>3. CASE HandleSub
      <4>1. \E n : byId' = [byId EXCEPT ![Head(up).id] = n]
        BY <3>3 DEF HandleSub
      <4> QED
        BY <2>3, <4>1
    <3> QED
      BY <1>6, <3>1, <3>2, <3>3 DEF Handle
  <2>5. InOrder(byId', up', ids)
    BY <1>0, <2>1, <2>4, InOrderLess
  <2> QED
    BY <1>0, <2>1, <2>5 DEF OrderInv
<1>7. CASE \E w \in DOMAIN watchers : WatcherRejects(w)
  <2>1. /\ wire' = wire /\ ids' = ids /\ up' = up
        /\ \A i \in Ids : byId'[i] \in {0, byId[i]}
    BY <1>7 DEF WatcherRejects
  <2> QED
    BY <2>1, OrderSame
<1> DEFINE Still == UNCHANGED <<wire, ids, up, byId>>
<1>8. Still => OrderInv'
  BY OrderSame
<1>9. ApiWrite \/ SubscribeAgain \/ Leave \/ Flush \/ Reconnect \/ Closes \/ ClosesLate \/ UNCHANGED vars
        => Still
  BY DEF ApiWrite, SubscribeAgain, Leave, Flush, Reconnect, Closes, ClosesLate, vars
<1>10. ReceiveUnknown \/ ReceiveSnapshot \/ ReceiveEvents \/ ReceiveStatus => Still
  BY DEF ReceiveUnknown, ReceiveSnapshot, ReceiveEvents, ReceiveStatus
<1>11. WatcherStep => Still
  BY DEF WatcherStep, WatcherListed, WatcherEmits, WatcherRelists, WatchEnds, Emits
<1>12. LingerStops \/ SessionEnds \/ SessionStarts \/ SessionReady => Still
  BY DEF LingerStops, SessionEnds, SessionStarts, SessionReady
<1> HIDE DEF Still
<1> QED
  BY <1>1, <1>2, <1>3, <1>4, <1>5, <1>6, <1>7, <1>8, <1>9, <1>10, <1>11, <1>12
     DEF Next, Components, Receive

LEMMA OneShows ==
  ASSUME watchers \in Seq(Watcher), NEW w \in DOMAIN watchers, NEW life, NEW q \in 0..Len(log),
         watchers' = [watchers EXCEPT ![w] = [life |-> life, shows |-> q]]
  PROVE  /\ Len(watchers') = Len(watchers) /\ watchers'[w].shows = q
         /\ \A v \in DOMAIN watchers :
              /\ v # w => watchers'[v].shows = watchers[v].shows
              /\ watchers'[v].shows \in {watchers[v].shows} \cup 0..Len(log)
<1> DEFINE x == [life |-> life, shows |-> q]
<1>1. watchers' = [watchers EXCEPT ![w] = x] /\ x.shows = q
  OBVIOUS
<1> HIDE DEF x
<1>2. Len(watchers') = Len(watchers) /\ watchers'[w] = x
      /\ \A v \in DOMAIN watchers : v # w => watchers'[v] = watchers[v]
  BY <1>1
<1> QED
  BY <1>1, <1>2

\* The newest version a step of a watcher may get to.
LEMMA EmitsMove ==
  ASSUME PartsInv, TablesInv, NEW w \in DOMAIN watchers, WatcherEmits(w) \/ WatcherRelists(w)
  PROVE  \E batch, q, life :
           /\ Emits(w, batch, q, life)
           /\ watchers[w].shows \in Nat /\ q \in Nat /\ watchers[w].shows <= q /\ q <= Len(log)
           /\ batch \in {Chunk(watchers[w].shows, q), Diff(watchers[w].shows, q)}
           /\ watchers[w].shows # 0 \/ q = Len(log)
<1>1. Len(log) \in Nat /\ watchers[w] \in Watcher /\ watchers[w].shows <= Len(log)
  BY Basics DEF TablesInv
<1>2. watchers[w].shows \in Nat
  BY <1>1 DEF Watcher
<1>3. CASE WatcherEmits(w)
  <2>1. PICK q \in (watchers[w].shows + 1)..Len(log) :
          Emits(w, Chunk(watchers[w].shows, q), q, watchers[w].life)
    BY <1>3 DEF WatcherEmits
  <2>2. q \in Nat /\ watchers[w].shows <= q /\ q <= Len(log) /\ watchers[w].shows # 0
    BY <1>1, <1>2, <1>3 DEF WatcherEmits
  <2> QED
    BY <1>2, <2>1, <2>2
<1>4. CASE WatcherRelists(w)
  <2>1. \E life : Emits(w, Diff(watchers[w].shows, Len(log)), Len(log), life)
    BY <1>4 DEF WatcherRelists
  <2>2. Len(log) <= Len(log)
    BY <1>1
  <2> QED
    BY <1>1, <1>2, <2>1, <2>2
<1> QED
  BY <1>3, <1>4

LEMMA HandleSubTables ==
  ASSUME PartsInv, PartsInv', TablesInv, LinkInv, OrderInv, HandleSub
  PROVE  TablesInv'
<1> DEFINE id == Head(up).id
           w == IF current = 0 THEN Len(watchers) + 1 ELSE current
           fresh == [life |-> "running", shows |-> 0]
           n == Len(served) + 1
<1>1. /\ Request("sub") /\ UNCHANGED <<log, compacted, session, ids, conn>>
      /\ watchers' = (IF current # 0 THEN watchers ELSE Append(watchers, fresh))
      /\ byId' = [byId EXCEPT ![id] = n]
      /\ \E st : served' = Append(served, [id |-> id, watcher |-> w, conn |-> conn, st |-> st])
  BY DEF HandleSub, serverVars, clientVars, link, ui
<1>2. PICK st : served' = Append(served, [id |-> id, watcher |-> w, conn |-> conn, st |-> st])
  BY <1>1
<1> DEFINE x == [id |-> id, watcher |-> w, conn |-> conn, st |-> st]
<1>3. /\ served \in Seq(Served) /\ byId \in [Ids -> Nat] /\ up \in Seq(Requests)
      /\ watchers \in Seq(Watcher) /\ Len(watchers) \in Nat /\ DOMAIN watchers = 1..Len(watchers)
      /\ Len(served) \in Nat /\ DOMAIN served = 1..Len(served) /\ current \in 0..Len(watchers)
  BY Basics
<1>4. id \in Ids /\ id <= ids
  <2>1. up # <<>>
    BY <1>1 DEF Request
  <2>2. 1 \in DOMAIN up /\ up[1] = Head(up) /\ Head(up) \in Requests
    BY <1>3, <2>1, TailIs
  <2> QED
    BY <2>2, RequestIs DEF OrderInv, InOrder
<1>5. conn \in 1..(MaxFaults + 1)
  <2>1. ws = "open"
    BY <1>1 DEF Request
  <2> QED
    BY <2>1 DEF LinkInv
<1>6. x.id = id /\ x.watcher = w /\ x.conn = conn /\ served' = Append(served, x)
  BY <1>2
<1>7. fresh \in Watcher /\ fresh.shows = 0
  BY DEF Watcher
<1> HIDE DEF x, fresh, id
<1>8. /\ w \in 1..Len(watchers') /\ Len(watchers) <= Len(watchers') /\ Len(watchers') \in Nat
      /\ \A v \in DOMAIN watchers' : watchers'[v] = fresh \/ (v \in DOMAIN watchers /\ watchers'[v] = watchers[v])
  <2>1. CASE current # 0
    <3>1. w = current /\ watchers' = watchers
      BY <1>1, <2>1
    <3> HIDE DEF w
    <3> QED
      BY <1>3, <2>1, <3>1
  <2>2. CASE current = 0
    <3>1. w = Len(watchers) + 1 /\ watchers' = Append(watchers, fresh)
      BY <1>1, <2>2
    <3>2. /\ Len(watchers') = Len(watchers) + 1 /\ DOMAIN watchers' = DOMAIN watchers \cup {w}
          /\ watchers'[w] = fresh /\ \A k \in DOMAIN watchers : watchers'[k] = watchers[k]
      BY <1>3, <1>7, <3>1, AppendIs
    <3> HIDE DEF w
    <3> QED
      BY <1>3, <3>1, <3>2
  <2> QED
    BY <2>1, <2>2
<1> HIDE DEF w
<1>9. \A v \in DOMAIN watchers' : watchers'[v].shows <= Len(log')
  <2>1. 0 <= Len(log)
    BY Basics
  <2> QED
    BY <1>1, <1>7, <1>8, <2>1 DEF TablesInv
<1>10. /\ DOMAIN served' = DOMAIN served \cup {n} /\ served'[n] = x /\ n # 0
       /\ \A k \in DOMAIN served : served'[k] = served[k] /\ k # n
  <2>1. x \in Served
    <3>1. served' \in Seq(Served)
      BY DEF PartsInv
    <3>2. served'[Len(served')] = x /\ Len(served') \in DOMAIN served'
      BY <1>3, <1>6
    <3> QED
      BY <3>1, <3>2
  <2>2. n # 0 /\ \A k \in DOMAIN served : k # n
    BY <1>3
  <2> QED
    BY <1>3, <1>6, <2>1, <2>2, AppendIs
<1> HIDE DEF n
<1>11. \A k \in DOMAIN served' :
         /\ served'[k].watcher \in 1..Len(watchers') /\ served'[k].conn \in 1..(MaxFaults + 1)
         /\ served'[k].id <= ids'
  <2>1. \A k \in DOMAIN served :
          /\ served[k].watcher \in 1..Len(watchers) /\ served[k].conn \in 1..(MaxFaults + 1)
          /\ served[k].id <= ids
    BY DEF TablesInv
  <2>2. 1..Len(watchers) \subseteq 1..Len(watchers')
    BY <1>3, <1>8
  <2> QED
    BY <1>1, <1>4, <1>5, <1>6, <1>8, <1>10, <2>1, <2>2
<1>12. ASSUME NEW i \in Ids, byId'[i] # 0
       PROVE  byId'[i] \in DOMAIN served' /\ served'[byId'[i]].id = i
  <2>1. CASE i = id
    <3>1. byId'[i] = n
      BY <1>1, <1>3, <2>1
    <3> QED
      BY <1>6, <1>10, <2>1, <3>1
  <2>2. CASE i # id
    <3>1. byId'[i] = byId[i]
      BY <1>1, <1>3, <2>2
    <3> QED
      BY <1>10, <1>12, <3>1 DEF TablesInv
  <2> QED
    BY <2>1, <2>2
<1> QED
  BY <1>1, <1>9, <1>11, <1>12 DEF TablesInv

LEMMA TablesNext ==
  ASSUME PartsInv, PartsInv', LinkInv, OrderInv, TablesInv, [Next]_vars
  PROVE  TablesInv'
<1> USE DEF sessions, sockets
<1>0. /\ served \in Seq(Served) /\ byId \in [Ids -> Nat] /\ watchers \in Seq(Watcher)
      /\ session \in {"none", "probing", "ready"} /\ Len(log) \in Nat /\ log \in Seq(Entry)
      /\ \A i \in Ids : byId[i] \in {0, byId[i]}
  BY Basics DEF TablesInv, PartsInv
<1> DEFINE Shows == /\ Len(watchers') = Len(watchers)
                    /\ \A v \in DOMAIN watchers :
                         watchers'[v].shows \in {watchers[v].shows} \cup 0..Len(log)
           Maps == \A i \in Ids : byId'[i] \in {0, byId[i]}
           Session == session' \in {"none", "probing", "ready"}
<1>1. ASSUME Shows, Maps, Session, ServedStay PROVE TablesInv'
  BY <1>1, TablesKept
<1>2. watchers' = watchers => Shows
  OBVIOUS
<1>3. byId' = byId => Maps
  BY <1>0
<1>4. session' = session => Session
  BY <1>0
<1>5. (/\ Len(watchers') = Len(watchers)
       /\ \A v \in DOMAIN watchers : watchers'[v].shows = watchers[v].shows) => Shows
  OBVIOUS
<1> HIDE DEF Shows, Maps, Session
<1> DEFINE Still == UNCHANGED <<session, watchers, served, byId>>
<1>6. Still => TablesInv'
  BY <1>1, <1>2, <1>3, <1>4, ServedStaySame
<1>7. ApiWrite \/ SubscribeNew \/ SubscribeAgain \/ Leave \/ Teardown => Still
  BY DEF ApiWrite, SubscribeNew, SubscribeAgain, Leave, Teardown
<1>8. Flush \/ Reconnect \/ Opens \/ Closes \/ ClosesLate \/ UNCHANGED vars => Still
  BY DEF Flush, Reconnect, Opens, Closes, ClosesLate, vars
<1>9. Receive => Still
  BY DEF Receive, ReceiveUnknown, ReceiveSnapshot, ReceiveEvents, ReceiveStatus, ReceiveReset
<1>10. CASE Breaks
  <2>1. /\ UNCHANGED <<session, watchers>> /\ byId' = [i \in Ids |-> 0]
        /\ served' = [k \in DOMAIN served |->
                        IF k \in Range(byId) THEN Stopped(served[k]) ELSE served[k]]
    BY <1>10 DEF Breaks
  <2>2. ServedStay
    BY <1>0, <2>1, ServedStayWhere
  <2>3. Maps
    BY <2>1 DEF Maps
  <2> QED
    BY <1>1, <1>2, <1>4, <2>1, <2>2, <2>3
<1>11. CASE Handle
  <2>1. CASE HandleUnsub
    <3> DEFINE b == byId[Head(up).id]
    <3>1. /\ UNCHANGED <<session, watchers>> /\ byId' = [byId EXCEPT ![Head(up).id] = 0]
          /\ served' = [k \in DOMAIN served |-> IF k = b THEN Stopped(served[k]) ELSE served[k]]
      BY <2>1 DEF HandleUnsub
    <3>2. served' = [k \in DOMAIN served |-> IF k \in {b} THEN Stopped(served[k]) ELSE served[k]]
      BY <3>1
    <3>3. ServedStay
      BY <1>0, <3>2, ServedStayWhere
    <3>4. Maps
      BY <1>0, <3>1 DEF Maps
    <3> QED
      BY <1>1, <1>2, <1>4, <3>1, <3>3, <3>4
  <2>2. CASE HandleNotConnected
    BY <1>6, <2>2 DEF HandleNotConnected
  <2>3. CASE HandleSub
    BY <2>3, HandleSubTables
  <2> QED
    BY <1>11, <2>1, <2>2, <2>3 DEF Handle
<1>12. ASSUME NEW w \in DOMAIN watchers, WatcherListed(w)
       PROVE  TablesInv'
  <2>1. /\ UNCHANGED <<session, byId>>
        /\ \E life : watchers' = [watchers EXCEPT ![w] = [life |-> life, shows |-> Len(log)]]
        /\ served' = [k \in DOMAIN served |->
                        IF k \in Listening(w, "waiting") THEN [served[k] EXCEPT !.st = "in"] ELSE served[k]]
    BY <1>12 DEF WatcherListed
  <2>2. ServedStay
    BY <1>0, <2>1, ServedStayWhere
  <2>3. Len(log) \in 0..Len(log)
    BY <1>0
  <2>4. Shows
    BY <1>0, <2>1, <2>3, OneShows DEF Shows
  <2> QED
    BY <1>1, <1>3, <1>4, <2>1, <2>2, <2>4
<1>13. ASSUME NEW w \in DOMAIN watchers, WatcherEmits(w) \/ WatcherRelists(w)
       PROVE  TablesInv'
  <2>1. PICK batch, q, life : Emits(w, batch, q, life) /\ q \in Nat /\ q <= Len(log)
    BY <1>13, EmitsMove
  <2>2. /\ UNCHANGED <<session, byId, served>>
        /\ watchers' = [watchers EXCEPT ![w] = [life |-> life, shows |-> q]]
    BY <2>1 DEF Emits
  <2>3. q \in 0..Len(log)
    BY <1>0, <2>1
  <2>4. Shows
    BY <1>0, <2>2, <2>3, OneShows DEF Shows
  <2> QED
    BY <1>1, <1>3, <1>4, <2>2, <2>4, ServedStaySame
<1>14. ASSUME NEW w \in DOMAIN watchers, WatchEnds(w)
       PROVE  TablesInv'
  <2>1. /\ UNCHANGED <<session, byId, served>>
        /\ \E life : watchers' = [watchers EXCEPT ![w].life = life]
    BY <1>14 DEF WatchEnds
  <2>2. Shows
    BY <1>0, <1>5, <2>1, LifeOnly
  <2> QED
    BY <1>1, <1>3, <1>4, <2>1, <2>2, ServedStaySame
<1>15. ASSUME NEW w \in DOMAIN watchers, WatcherRejects(w)
       PROVE  TablesInv'
  <2> DEFINE S == Listening(w, "waiting") \cup Listening(w, "cancelled")
  <2>1. /\ session' = session
        /\ watchers' = watchers \/ watchers' = [watchers EXCEPT ![w].life = "stopped"]
        /\ served' = [k \in DOMAIN served |->
                        IF k \in S THEN [served[k] EXCEPT !.st = "stopped"] ELSE served[k]]
        /\ \A i \in Ids : byId'[i] \in {0, byId[i]}
    BY <1>15 DEF WatcherRejects
  <2> HIDE DEF S
  <2>2. ServedStay
    BY <1>0, <2>1, ServedStayWhere
  <2>3. Shows
    BY <1>0, <1>2, <1>5, <2>1, LifeOnly
  <2>4. Maps
    BY <2>1 DEF Maps
  <2> QED
    BY <1>1, <1>4, <2>1, <2>2, <2>3, <2>4
<1>16. CASE LingerStops \/ SessionEnds
  <2>1. StopCurrent /\ UNCHANGED <<byId, served>> /\ Session
    BY <1>0, <1>16 DEF LingerStops, SessionEnds, Session
  <2>2. Shows
    BY <1>5, <2>1, StopShows
  <2> QED
    BY <1>1, <1>3, <2>1, <2>2, ServedStaySame
<1>17. CASE SessionStarts \/ SessionReady
  <2>1. UNCHANGED <<byId, served, watchers>> /\ Session
    BY <1>17 DEF SessionStarts, SessionReady, Session
  <2> QED
    BY <1>1, <1>2, <1>3, <2>1, ServedStaySame
<1> HIDE DEF Still
<1>18. CASE WatcherStep
  BY <1>12, <1>13, <1>14, <1>18 DEF WatcherStep
<1>19. CASE Components \/ ApiWrite \/ Flush \/ Reconnect \/ Opens \/ Closes \/ ClosesLate \/ Receive
  BY <1>6, <1>7, <1>8, <1>9, <1>19 DEF Components
<1> QED
  BY <1>6, <1>8, <1>10, <1>11, <1>15, <1>16, <1>17, <1>18, <1>19 DEF Next

LEMMA SendsType ==
  ASSUME NEW S, NEW messages, Sends(S, messages), Len(served) \in Nat,
         NEW X, down \in Seq(X), \A k \in S : messages[k] \in Seq(X)
  PROVE  down' \in Seq(X)
<1> DEFINE T == (0..Len(served)) \X Seq(X)
<1>1. <<0, down>> \in T
  OBVIOUS
<1>2. ASSUME NEW k \in 1..Len(served), NEW d \in Seq(X)
      PROVE  <<k, IF k \in S /\ Reaches(k) THEN d \o messages[k] ELSE d>> \in T
  <2> DEFINE e == IF k \in S /\ Reaches(k) THEN d \o messages[k] ELSE d
  <2>1. e \in Seq(X)
    OBVIOUS
  <2>2. k \in 0..Len(served)
    OBVIOUS
  <2> HIDE DEF e
  <2>3. <<k, e>> \in T
    BY <2>1, <2>2
  <2> QED
    BY <2>3 DEF e
<1> HIDE DEF T
<1> QED
  BY <1>1, <1>2, SendsSteps

\* What watcher w is about to send.
LEMMA EventsAre ==
  ASSUME NEW S, NEW batch, NEW messages,
         messages = [k \in S |-> <<Msg("events", served[k].id, batch, "")>>],
         NEW k \in S
  PROVE  messages[k] = <<Msg("events", served[k].id, batch, "")>>
  OBVIOUS

LEMMA HeardNext ==
  ASSUME PartsInv, TablesInv, OrderInv, HeardInv, [Next]_vars
  PROVE  HeardInv'
<1> DEFINE X == Heard(Len(log), ids)
<1>0. /\ Len(log) \in Nat /\ Len(log') \in Nat /\ Len(log) <= Len(log')
      /\ ids \in Nat /\ ids' \in Nat /\ ids <= ids'
  BY Grows
<1>1. down' \in Seq(X) => HeardInv'
  BY <1>0, HeardMore DEF HeardInv
<1>2. down \in Seq(X)
  BY DEF HeardInv
<1>3. ASSUME NEW k \in 1..ids, NEW c \in SUBSET (1..Len(log))
      PROVE  /\ Msg("snapshot", k, c, "") \in X
             /\ Msg("events", k, c, "") \in X
             /\ Msg("status", k, {}, "live") \in X
             /\ Msg("status", k, {}, "error") \in X
  BY <1>0, HeardMsg
<1>4. Msg("reset", NoId, {}, "") \in X
  <2>1. 0 \in 0..ids /\ {} \in SUBSET (1..Len(log))
    BY <1>0
  <2> QED
    BY <2>1 DEF Heard, Msg, NoId
<1>5. /\ served \in Seq(Served) /\ up \in Seq(Requests) /\ watchers \in Seq(Watcher)
      /\ Len(served) \in Nat
      /\ \A k \in DOMAIN served : served[k].id \in 1..ids
  <2>1. served \in Seq(Served) /\ up \in Seq(Requests) /\ watchers \in Seq(Watcher) /\ Len(served) \in Nat
    BY Basics
  <2>2. ASSUME NEW k \in DOMAIN served
        PROVE  served[k].id \in 1..ids
    <3>1. served[k] \in Served
      BY <2>1
    <3>2. served[k].id \in Ids /\ served[k].id <= ids
      BY <3>1 DEF Served, TablesInv
    <3> QED
      BY <1>0, <3>2 DEF Ids
  <2> QED
    BY <2>1, <2>2
<1>6. ASSUME NEW r \in 0..Len(log)
      PROVE  StoreAt(r) \in SUBSET (1..Len(log))
  <2>1. StoreAt(r) \subseteq 1..r
    BY DEF StoreAt
  <2>2. 1..r \subseteq 1..Len(log)
    OBVIOUS
  <2> QED
    BY <2>1, <2>2
<1> HIDE DEF X
<1> DEFINE Still == UNCHANGED down
<1>7. Still => HeardInv'
  BY <1>1, <1>2
<1>8. ApiWrite \/ SubscribeNew \/ SubscribeAgain \/ Leave \/ Teardown \/ Flush \/ Reconnect => Still
  BY DEF ApiWrite, SubscribeNew, SubscribeAgain, Leave, Teardown, Flush, Reconnect
<1>9. Opens \/ Closes \/ ClosesLate \/ LingerStops \/ SessionStarts \/ UNCHANGED vars => Still
  BY DEF Opens, Closes, ClosesLate, LingerStops, SessionStarts, vars
<1>10. CASE Breaks
  <2>1. down' = <<>>
    BY <1>10 DEF Breaks
  <2> QED
    BY <1>1, <2>1
<1>11. CASE Receive
  <2>1. down # <<>> /\ down' = Tail(down)
    BY <1>11 DEF Receive, ReceiveUnknown, ReceiveSnapshot, ReceiveEvents, ReceiveStatus, ReceiveReset, Incoming
  <2> QED
    BY <1>1, <1>2, <2>1
<1>12. CASE SessionEnds \/ SessionReady
  <2>1. Broadcast
    BY <1>12 DEF SessionEnds, SessionReady
  <2> DEFINE r == Msg("reset", NoId, {}, "")
  <2>2. r \in X /\ (down' = down \/ down' = Append(down, r))
    BY <1>4, <2>1 DEF Broadcast
  <2> HIDE DEF r
  <2> QED
    BY <1>1, <1>2, <2>2, SMTT(30)
<1>13. CASE Handle
  <2>1. CASE HandleUnsub
    BY <1>7, <2>1 DEF HandleUnsub
  <2>2. ASSUME HandleNotConnected \/ HandleSub
        PROVE  Head(up).id \in 1..ids
    <3>1. up # <<>>
      BY <2>2 DEF HandleNotConnected, HandleSub, Request
    <3>2. 1 \in DOMAIN up /\ up[1] = Head(up) /\ Head(up) \in Requests
      BY <1>5, <3>1, TailIs
    <3>3. Head(up).id \in Ids /\ Head(up).id <= ids
      BY <3>2, RequestIs DEF OrderInv, InOrder
    <3> QED
      BY <1>0, <3>3 DEF Ids
  <2>3. CASE HandleNotConnected
    <3> DEFINE m == Msg("status", Head(up).id, {}, "error")
    <3>1. down' = Append(down, m)
      BY <2>3 DEF HandleNotConnected
    <3>2. m \in X
      BY <1>3, <2>2, <2>3
    <3> HIDE DEF m
    <3> QED
      BY <1>1, <1>2, <3>1, <3>2
  <2>4. CASE HandleSub
    <3> DEFINE id == Head(up).id
    <3>1. \/ down' = down
          \/ current # 0 /\ down' = down \o Answer(id, watchers[current].shows)
      BY <2>4 DEF HandleSub
    <3>2. ASSUME current # 0
          PROVE  Answer(id, watchers[current].shows) \in Seq(X)
      <4>1. watchers[current].shows \in 0..Len(log)
        <5>1. current \in DOMAIN watchers
          BY <3>2, Basics
        <5>2. watchers[current] \in Watcher
          BY <1>5, <5>1
        <5>3. watchers[current].shows \in Nat /\ watchers[current].shows <= Len(log)
          BY <5>1, <5>2 DEF Watcher, TablesInv
        <5> QED
          BY <1>0, <5>3
      <4>2. id \in 1..ids
        BY <2>2, <2>4
      <4>3. /\ Msg("snapshot", id, StoreAt(watchers[current].shows), "") \in X
            /\ Msg("status", id, {}, "live") \in X
        BY <1>3, <1>6, <4>1, <4>2
      <4> QED
        BY <1>2, <4>3, AnswerIs
    <3> DEFINE a == Answer(id, watchers[current].shows)
    <3>4. (current # 0 => a \in Seq(X)) /\ (down' = down \/ (current # 0 /\ down' = down \o a))
      BY <3>1, <3>2
    <3> HIDE DEF id, a
    <3>5. a \in Seq(X) => down \o a \in Seq(X)
      BY <1>2
    <3>3. down' \in Seq(X)
      BY <1>2, <3>4, <3>5
    <3> QED
      BY <1>1, <3>3
  <2> QED
    BY <1>13, <2>1, <2>3, <2>4 DEF Handle
<1>14. ASSUME NEW w \in DOMAIN watchers, WatcherListed(w)
       PROVE  HeardInv'
  <2> DEFINE S == Listening(w, "waiting")
             messages == [k \in S |-> Answer(served[k].id, Len(log))]
  <2>1. Sends(S, messages)
    BY <1>14 DEF WatcherListed
  <2>2. ASSUME NEW k \in S
        PROVE  messages[k] \in Seq(X)
    <3>1. k \in DOMAIN served
      BY DEF Listening
    <3>2. Len(log) \in 0..Len(log)
      BY <1>0
    <3>3. /\ Msg("snapshot", served[k].id, StoreAt(Len(log)), "") \in X
          /\ Msg("status", served[k].id, {}, "live") \in X
      BY <1>3, <1>5, <1>6, <3>1, <3>2
    <3>4. Answer(served[k].id, Len(log)) \in Seq(X)
      BY <1>2, <3>3, AnswerIs
    <3> QED
      BY <3>4
  <2> HIDE DEF S, messages
  <2> QED
    BY <1>1, <1>2, <1>5, <2>1, <2>2, SendsType
<1>15. ASSUME NEW w \in DOMAIN watchers, WatcherEmits(w) \/ WatcherRelists(w)
       PROVE  HeardInv'
  <2>1. PICK batch, q, life :
           /\ Emits(w, batch, q, life)
           /\ watchers[w].shows \in Nat /\ q \in Nat /\ watchers[w].shows <= q /\ q <= Len(log)
           /\ batch \in {Chunk(watchers[w].shows, q), Diff(watchers[w].shows, q)}
    BY <1>15, EmitsMove
  <2>2. batch \in SUBSET (1..Len(log))
    <3>1. batch \subseteq (watchers[w].shows + 1)..q
      BY <2>1 DEF Chunk, Diff
    <3>2. (watchers[w].shows + 1)..q \subseteq 1..Len(log)
      BY <1>0, <2>1
    <3> QED
      BY <3>1, <3>2
  <2> DEFINE S == Listening(w, "in")
             messages == [k \in S |-> <<Msg("events", served[k].id, batch, "")>>]
  <2>3. down' = down \/ Sends(S, messages)
    BY <2>1 DEF Emits
  <2>4. ASSUME NEW k \in S
        PROVE  messages[k] \in Seq(X)
    <3>1. k \in DOMAIN served
      BY DEF Listening
    <3> DEFINE m == Msg("events", served[k].id, batch, "")
    <3>2. m \in X
      BY <1>3, <1>5, <2>2, <3>1
    <3>3. messages[k] = <<m>>
      OBVIOUS
    <3> HIDE DEF m, messages
    <3>4. <<m>> \in Seq(X)
      BY <3>2
    <3> QED
      BY <3>3, <3>4
  <2> HIDE DEF S, messages
  <2> QED
    BY <1>1, <1>2, <1>5, <2>3, <2>4, SendsType
<1>16. ASSUME NEW w \in DOMAIN watchers, WatcherRejects(w)
       PROVE  HeardInv'
  <2> DEFINE S == Listening(w, "waiting") \cup Listening(w, "cancelled")
             messages == [k \in S |-> <<Msg("status", served[k].id, {}, "error")>>]
  <2>1. Sends(S, messages)
    BY <1>16 DEF WatcherRejects
  <2>2. ASSUME NEW k \in S
        PROVE  messages[k] \in Seq(X)
    <3>1. k \in DOMAIN served
      BY DEF Listening
    <3> DEFINE m == Msg("status", served[k].id, {}, "error")
    <3>2. m \in X
      BY <1>3, <1>5, <3>1
    <3>3. messages[k] = <<m>>
      OBVIOUS
    <3> HIDE DEF m, messages
    <3>4. <<m>> \in Seq(X)
      BY <3>2
    <3> QED
      BY <3>3, <3>4
  <2> HIDE DEF S, messages
  <2> QED
    BY <1>1, <1>2, <1>5, <2>1, <2>2, SendsType
<1>17. ASSUME NEW w \in DOMAIN watchers, WatchEnds(w)
       PROVE  HeardInv'
  BY <1>7, <1>17 DEF WatchEnds
<1> HIDE DEF Still
<1>18. CASE WatcherStep
  BY <1>14, <1>15, <1>17, <1>18 DEF WatcherStep
<1>19. CASE Components \/ ApiWrite \/ Flush \/ Reconnect \/ Opens \/ Closes \/ ClosesLate
  BY <1>7, <1>8, <1>9, <1>19 DEF Components
<1> QED
  BY <1>7, <1>9, <1>10, <1>11, <1>12, <1>13, <1>16, <1>18, <1>19, <1>8 DEF Next

\* The browser's rows.
RowsInv ==
  /\ attached \in BOOLEAN /\ linger \in BOOLEAN
  /\ cache \subseteq 1..Len(log) /\ cached \in BOOLEAN
  /\ pending \in Seq(SUBSET (1..Len(log)))
  /\ flush \in BOOLEAN /\ overtaken \subseteq UidsOf(1..Len(log))
  /\ status \in {"none", "live", "reconnecting", "error"}

LEMMA SubsetMore ==
  ASSUME NEW v \in Nat, NEW v2 \in Nat, v <= v2, NEW s \in Seq(SUBSET (1..v))
  PROVE  s \in Seq(SUBSET (1..v2)) /\ 1..v \subseteq 1..v2
<1>1. 1..v \subseteq 1..v2
  OBVIOUS
<1>2. SUBSET (1..v) \subseteq SUBSET (1..v2)
  BY <1>1
<1> DEFINE Y == SUBSET (1..v)
           Z == SUBSET (1..v2)
<1>3. s \in Seq(Y) /\ Y \subseteq Z
  BY <1>2
<1> HIDE DEF Y, Z
<1>4. s \in Seq(Z)
  BY <1>3
<1> QED
  BY <1>1, <1>4 DEF Z

\* The message that is received.
LEMMA HeadHeard ==
  ASSUME HeardInv, NEW op, Incoming(op)
  PROVE  /\ Head(down).op = op /\ Head(down).objects \in SUBSET (1..Len(log))
         /\ Head(down) \in Heard(Len(log), ids) /\ down # <<>> /\ down' = Tail(down)
         /\ ws = "open"
<1>1. down # <<>> /\ Head(down).op = op /\ down' = Tail(down) /\ ws = "open"
  BY DEF Incoming
<1> DEFINE X == Heard(Len(log), ids)
<1>2. down \in Seq(X)
  BY DEF HeardInv
<1> HIDE DEF X
<1>3. Head(down) \in X
  BY <1>1, <1>2
<1>4. Head(down).objects \in SUBSET (1..Len(log))
  BY <1>3 DEF X, Heard
<1> QED
  BY <1>1, <1>3, <1>4 DEF X

LEMMA RowsNext ==
  ASSUME PartsInv, HeardInv, RowsInv, [Next]_vars
  PROVE  RowsInv'
<1> USE DEF ui, rows, link, clientVars
<1>0. Len(log) \in Nat /\ Len(log') \in Nat /\ Len(log) <= Len(log')
  BY Grows
<1> DEFINE V == 1..Len(log)
           RowsAre == /\ attached' \in BOOLEAN /\ linger' \in BOOLEAN
                      /\ cache' \in SUBSET V /\ cached' \in BOOLEAN
                      /\ pending' \in Seq(SUBSET V)
                      /\ flush' \in BOOLEAN /\ overtaken' \subseteq UidsOf(V)
                      /\ status' \in {"none", "live", "reconnecting", "error"}
<1>1. ASSUME RowsAre PROVE RowsInv'
  <2>1. cache' \subseteq 1..Len(log') /\ pending' \in Seq(SUBSET (1..Len(log')))
    BY <1>0, <1>1, SubsetMore
  <2>2. UidsOf(V) \subseteq UidsOf(1..Len(log))'
    <3>1. V \subseteq 1..Len(log') /\ \A i \in V : log'[i] = log[i]
      BY <1>0, Grows DEF Agree
    <3> QED
      BY <3>1 DEF UidsOf
  <2> QED
    BY <1>1, <2>1, <2>2 DEF RowsInv
<1>2. /\ attached \in BOOLEAN /\ linger \in BOOLEAN
      /\ cache \in SUBSET V /\ cached \in BOOLEAN
      /\ pending \in Seq(SUBSET V)
      /\ flush \in BOOLEAN /\ overtaken \subseteq UidsOf(V)
      /\ status \in {"none", "live", "reconnecting", "error"}
  BY DEF RowsInv
<1>21. \A S \in SUBSET V : UidsOf(S) \subseteq UidsOf(V)
  BY DEF UidsOf
<1> HIDE DEF V
<1> DEFINE Y == SUBSET V
<1>20. {} \in Y /\ <<>> \in Seq(Y) /\ cache \in Y /\ pending \in Seq(Y)
  BY <1>2
<1> HIDE DEF Y
<1> DEFINE Still == UNCHANGED <<attached, linger, cache, cached, pending, flush, overtaken, status>>
<1>3. Still => RowsInv'
  BY <1>1, <1>2
<1>4. CASE Components
  <2>1. /\ attached' \in BOOLEAN /\ linger' \in BOOLEAN
        /\ cache' \in {{}, cache} /\ cached' \in {FALSE, cached} /\ pending' \in {<<>>, pending}
        /\ flush' \in {FALSE, flush} /\ overtaken' \in {{}, overtaken} /\ status' \in {"none", status}
    <3>1. SubscribeNew => UNCHANGED linger /\ attached' = TRUE /\ NoRows /\ status' = "none"
      BY DEF SubscribeNew
    <3>2. SubscribeAgain \/ Leave => /\ attached' \in BOOLEAN /\ linger' \in BOOLEAN
                                     /\ UNCHANGED <<cache, cached, pending, flush, overtaken, status>>
      BY DEF SubscribeAgain, Leave
    <3>3. Teardown => UNCHANGED attached /\ linger' = FALSE /\ NoRows /\ status' = "none"
      BY DEF Teardown
    <3> QED
      BY <1>2, <1>4, <3>1, <3>2, <3>3 DEF Components, NoRows
  <2>2. cache' \in Y /\ pending' \in Seq(Y)
    BY <1>20, <2>1
  <2>3. /\ cached' \in BOOLEAN /\ flush' \in BOOLEAN /\ overtaken' \subseteq UidsOf(V)
        /\ status' \in {"none", "live", "reconnecting", "error"}
    BY <1>2, <2>1
  <2> QED
    BY <1>1, <2>1, <2>2, <2>3 DEF Y
<1>5. CASE Closes \/ ClosesLate
  <2>1. UNCHANGED <<attached, linger, cache, cached, pending, flush, overtaken>> /\ status' = Lost
    BY <1>5 DEF Closes, ClosesLate
  <2> QED
    BY <1>1, <1>2, <2>1 DEF Lost
<1>6. CASE ReceiveSnapshot
  <2>1. /\ UNCHANGED <<attached, linger, pending, flush, status>> /\ Incoming("snapshot")
        /\ cache' = Head(down).objects /\ cached' = TRUE /\ overtaken' = UidsOf(UNION Range(pending))
    BY <1>6 DEF ReceiveSnapshot
  <2>2. cache' \in SUBSET V
    BY <2>1, HeadHeard DEF V
  <2>3. \A n \in DOMAIN pending : pending[n] \in Y
    BY <1>20
  <2>4. UNION Range(pending) \in SUBSET V
    BY <2>3 DEF Range, Y
  <2>5. overtaken' \subseteq UidsOf(V)
    BY <1>21, <2>1, <2>4
  <2> QED
    BY <1>1, <1>2, <2>1, <2>2, <2>5
<1>7. CASE ReceiveEvents
  <2>1. /\ UNCHANGED <<attached, linger, cache, cached, status>> /\ Incoming("events")
        /\ pending' = Append(pending, Head(down).objects) /\ flush' = TRUE /\ overtaken' \subseteq overtaken
    BY <1>7 DEF ReceiveEvents
  <2>2. Head(down).objects \in Y
    BY <2>1, HeadHeard DEF V, Y
  <2>3. pending' \in Seq(Y)
    BY <1>20, <2>1, <2>2
  <2> QED
    BY <1>1, <1>2, <2>1, <2>3 DEF Y
<1>8. CASE ReceiveStatus
  <2>1. /\ UNCHANGED <<attached, linger, cache, cached, pending, flush, overtaken>> /\ Incoming("status")
        /\ status' = Head(down).state
    BY <1>8 DEF ReceiveStatus
  <2>2. status' \in {"live", "error"}
    BY <2>1, HeadHeard DEF Heard
  <2> QED
    BY <1>1, <1>2, <2>1, <2>2
<1>9. CASE ReceiveReset
  <2>1. /\ UNCHANGED <<attached, linger, cache, cached, flush, overtaken, status>>
        /\ pending' \in {<<>>, pending}
    BY <1>9 DEF ReceiveReset
  <2>2. pending' \in Seq(Y)
    BY <1>20, <2>1
  <2> QED
    BY <1>1, <1>2, <2>1, <2>2 DEF Y
<1>10. CASE Flush
  <2>1. /\ UNCHANGED <<attached, linger, overtaken, status>> /\ flush' = FALSE /\ pending' = <<>>
        /\ cache' = ApplyAll(cache, pending) /\ cached' = (cached \/ pending # <<>>)
    BY <1>10 DEF Flush
  <2>2. Len(pending) \in Nat /\ \A n \in 1..Len(pending) : pending[n] \in Y
    BY <1>20
  <2>3. cache' \in Y
    <3>1. cache \subseteq V /\ \A n \in 1..Len(pending) : pending[n] \subseteq V
      BY <1>2, <2>2 DEF Y
    <3>2. Batches(log, cache, pending) \subseteq V
      BY <2>2, <3>1, BatchesFrom
    <3> QED
      BY <2>1, <3>2, ApplyAllIs DEF Y
  <2>4. cached' \in BOOLEAN
    BY <2>1
  <2>5. pending' \in Seq(Y)
    BY <1>20, <2>1
  <2> QED
    BY <1>1, <1>2, <2>1, <2>3, <2>4, <2>5 DEF Y
<1>11. ApiWrite \/ Reconnect \/ Opens \/ Breaks \/ ReceiveUnknown \/ UNCHANGED vars => Still
  BY DEF ApiWrite, Reconnect, Opens, Breaks, ReceiveUnknown, vars
<1>12. Handle => Still
  BY DEF Handle, HandleUnsub, HandleNotConnected, HandleSub
<1>13. WatcherStep \/ (\E w \in DOMAIN watchers : WatcherRejects(w)) => Still
  BY DEF WatcherStep, WatcherListed, WatcherEmits, WatcherRelists, WatchEnds, Emits, WatcherRejects
<1>14. LingerStops \/ SessionEnds \/ SessionStarts \/ SessionReady => Still
  BY DEF LingerStops, SessionEnds, SessionStarts, SessionReady
<1> HIDE DEF Still
<1> QED
  BY <1>3, <1>4, <1>5, <1>6, <1>7, <1>8, <1>9, <1>10, <1>11, <1>12, <1>13, <1>14 DEF Next, Receive

TypeInv == LinkInv /\ TablesInv /\ OrderInv /\ HeardInv /\ RowsInv

LEMMA InitTypeInv == Init => TypeInv
<1> SUFFICES ASSUME Init PROVE TypeInv
  OBVIOUS
<1>1. PICK u \in Uids : log = <<[type |-> "SET", uid |-> u]>>
  BY DEF Init
<1>2. Len(log) = 1
  BY <1>1
<1>3. /\ watchers = <<>> /\ served = <<>> /\ byId = [i \in Ids |-> 0] /\ up = <<>> /\ down = <<>>
      /\ ids = 0 /\ wire = NoId /\ compacted = 1 /\ session = "none" /\ pending = <<>> /\ cache = {}
      /\ ws = "closed" /\ lateClose = "none" /\ conn = 0 /\ faults = 0
      /\ attached = FALSE /\ linger = FALSE /\ cached = FALSE /\ flush = FALSE /\ overtaken = {} /\ status = "none"
  BY DEF Init
<1>4. DOMAIN watchers = {} /\ DOMAIN served = {}
  BY <1>3
<1>5. LinkInv
  BY <1>3 DEF LinkInv
<1>6. TablesInv
  <2>1. compacted \in 1..Len(log) /\ \A i \in Ids : byId[i] = 0
    BY <1>2, <1>3
  <2> QED
    BY <1>3, <1>4, <2>1 DEF TablesInv
<1>7. OrderInv
  BY <1>3, InOrderNone DEF OrderInv
<1>8. HeardInv
  <2> DEFINE X == Heard(Len(log), ids)
  <2> HIDE DEF X
  <2>1. down \in Seq(X)
    BY <1>3
  <2> QED
    BY <2>1 DEF X, HeardInv
<1>9. RowsInv
  <2> DEFINE X == SUBSET (1..Len(log))
  <2> HIDE DEF X
  <2>1. pending \in Seq(X)
    BY <1>3
  <2> QED
    BY <1>3, <2>1 DEF X, RowsInv
<1> QED
  BY <1>5, <1>6, <1>7, <1>8, <1>9 DEF TypeInv

LEMMA NextTypeInv ==
  ASSUME PartsInv, PartsInv', TypeInv, [Next]_vars
  PROVE  TypeInv'
BY LinkNext, TablesNext, OrderNext, HeardNext, RowsNext DEF TypeInv

LEMMA TypeInvImplies ==
  ASSUME PartsInv, TypeInv
  PROVE  TypeOK
<1>1. /\ log \in Seq(Entry) /\ Len(log) \in Nat /\ Len(log) # 0
      /\ watchers \in Seq(Watcher) /\ served \in Seq(Served) /\ byId \in [Ids -> Nat]
      /\ up \in Seq(Requests) /\ conn \in Nat /\ current \in 0..Len(watchers)
      /\ Len(served) \in Nat /\ DOMAIN served = 1..Len(served)
      /\ Len(watchers) \in Nat /\ DOMAIN watchers = 1..Len(watchers)
  BY Basics DEF PartsInv
<1>2. ids \in 0..MaxIds /\ wire \in 0..ids /\ MaxIds \in Nat /\ MaxFaults \in Nat
  BY DEF PartsInv
<1>3. ServerTypeOK
  BY <1>1 DEF ServerTypeOK, TypeInv, TablesInv
<1>4. session \in {"none", "probing", "ready"}
  BY DEF TypeInv, TablesInv
<1>5. watchers \in Seq([life : {"running", "listing", "watching", "relisting", "stopped"},
                       shows : 0..Len(log)])
  <2> DEFINE W == [life : {"running", "listing", "watching", "relisting", "stopped"},
                   shows : 0..Len(log)]
  <2>1. ASSUME NEW w \in 1..Len(watchers)
        PROVE  watchers[w] \in W
    <3>1. watchers[w] \in Watcher /\ watchers[w].shows <= Len(log)
      <4>1. TablesInv
        BY DEF TypeInv
      <4>2. \A v \in 1..Len(watchers) : watchers[v].shows <= Len(log)
        BY <1>1, <4>1 DEF TablesInv
      <4> QED
        BY <1>1, <4>2
    <3>2. \A x \in Watcher : x.shows <= Len(log) => x \in W
      BY <1>1 DEF Watcher
    <3> QED
      BY <3>1, <3>2
  <2> HIDE DEF W
  <2>2. watchers \in Seq(W)
    BY <1>1, <2>1
  <2> QED
    BY <2>2 DEF W
<1>6. served \in Seq([id : Ids, watcher : 1..Len(watchers), conn : 1..(MaxFaults + 1),
                     st : {"waiting", "cancelled", "in", "stopped"}])
  <2> DEFINE W == [id : Ids, watcher : 1..Len(watchers), conn : 1..(MaxFaults + 1),
                   st : {"waiting", "cancelled", "in", "stopped"}]
  <2>1. ASSUME NEW k \in 1..Len(served)
        PROVE  served[k] \in W
    <3>1. /\ served[k] \in Served /\ served[k].watcher \in 1..Len(watchers)
          /\ served[k].conn \in 1..(MaxFaults + 1)
      BY <1>1 DEF TypeInv, TablesInv
    <3>2. \A x \in Served :
            x.watcher \in 1..Len(watchers) /\ x.conn \in 1..(MaxFaults + 1) => x \in W
      BY DEF Served
    <3> QED
      BY <3>1, <3>2
  <2> HIDE DEF W
  <2>2. served \in Seq(W)
    BY <1>1, <2>1
  <2> QED
    BY <2>2 DEF W
<1>7. byId \in [Ids -> 0..Len(served)]
  <2>1. \A i \in Ids : byId[i] \in 0..Len(served)
    BY <1>1 DEF TypeInv, TablesInv
  <2> QED
    BY <1>1, <2>1
<1>8. /\ ws \in {"closed", "closing", "connecting", "open"}
      /\ lateClose \in {"none", "due", "came"} /\ faults \in 0..MaxFaults
      /\ conn \in 0..(MaxFaults + 1)
  BY <1>2 DEF TypeInv, LinkInv
<1>9. up \in Seq(Message) /\ down \in Seq(Message)
  <2>1. 0..ids \subseteq 0..MaxIds /\ Ids \subseteq 0..MaxIds
    BY <1>2 DEF Ids
  <2>2. Requests \subseteq Message
    BY <2>1 DEF Requests, Message
  <2>3. Heard(Len(log), ids) \subseteq Message
    BY <2>1 DEF Heard, Message, Versions
  <2> DEFINE X == Heard(Len(log), ids)
  <2>4. down \in Seq(X)
    BY DEF TypeInv, HeardInv
  <2> HIDE DEF X
  <2>5. X \subseteq Message
    BY <2>3 DEF X
  <2> QED
    BY <1>1, <2>2, <2>4, <2>5
<1>10. /\ attached \in BOOLEAN /\ linger \in BOOLEAN
       /\ cache \subseteq Versions /\ cached \in BOOLEAN
       /\ pending \in Seq(SUBSET Versions)
       /\ flush \in BOOLEAN /\ overtaken \subseteq UidsOf(Versions)
       /\ status \in {"none", "live", "reconnecting", "error"}
  BY DEF TypeInv, RowsInv, Versions
<1> QED
  BY <1>1, <1>2, <1>3, <1>4, <1>5, <1>6, <1>7, <1>8, <1>9, <1>10 DEF TypeOK

-----------------------------------------------------------------------------
(* The types, whatever the races                                           *)

LEMMA WatcherTypes ==
  ASSUME watchers \in Seq(Watcher), NEW w \in DOMAIN watchers, NEW x \in Watcher,
         watchers' = [watchers EXCEPT ![w] = x]
  PROVE  watchers' \in Seq(Watcher) /\ Len(watchers') = Len(watchers)
  OBVIOUS

LEMMA ServedTypes ==
  ASSUME served \in Seq(Served), NEW S,
         \/ served' = [k \in DOMAIN served |-> IF k \in S THEN Stopped(served[k]) ELSE served[k]]
         \/ \E st \in {"in", "stopped"} :
              served' = [k \in DOMAIN served |->
                           IF k \in S THEN [served[k] EXCEPT !.st = st] ELSE served[k]]
  PROVE  served' \in Seq(Served)
<1>1. DOMAIN served = 1..Len(served) /\ Len(served) \in Nat /\ \A k \in DOMAIN served : served[k] \in Served
  OBVIOUS
<1>2. \A x \in Served : Stopped(x) \in Served
  BY DEF Served, Stopped
<1>3. \A x \in Served, st \in {"in", "stopped"} : [x EXCEPT !.st = st] \in Served
  BY DEF Served
<1>4. CASE served' = [k \in DOMAIN served |-> IF k \in S THEN Stopped(served[k]) ELSE served[k]]
  <2>1. \A k \in DOMAIN served : served'[k] \in Served
    BY <1>1, <1>2, <1>4
  <2>2. served' = [k \in 1..Len(served) |-> served'[k]]
    BY <1>1, <1>4
  <2> QED
    BY <1>1, <2>1, <2>2
<1>5. CASE \E st \in {"in", "stopped"} :
             served' = [k \in DOMAIN served |->
                          IF k \in S THEN [served[k] EXCEPT !.st = st] ELSE served[k]]
  <2>0. PICK st \in {"in", "stopped"} :
             served' = [k \in DOMAIN served |->
                          IF k \in S THEN [served[k] EXCEPT !.st = st] ELSE served[k]]
    BY <1>5
  <2>1. \A k \in DOMAIN served : served'[k] \in Served
    BY <1>1, <1>3, <2>0
  <2>2. served' = [k \in 1..Len(served) |-> served'[k]]
    BY <1>1, <2>0
  <2> QED
    BY <1>1, <2>1, <2>2
<1> QED
  BY <1>4, <1>5

LEMMA RequestTypes ==
  ASSUME up \in Seq(Requests)
  PROVE  /\ \A r \in Requests : SendIfOpen(<<r>>) => up' \in Seq(Requests)
         /\ \A op : Request(op) => up' \in Seq(Requests) /\ Head(up) \in Requests
<1>1. ASSUME NEW r \in Requests, SendIfOpen(<<r>>)
      PROVE  up' \in Seq(Requests)
  BY <1>1 DEF SendIfOpen
<1>2. ASSUME NEW op, Request(op)
      PROVE  up' \in Seq(Requests) /\ Head(up) \in Requests
  BY <1>2, TailIs DEF Request
<1> QED
  BY <1>1, <1>2

\* A new subscription, whose watcher may be new as well.
LEMMA HandleSubTypes ==
  ASSUME PartsInv, HandleSub
  PROVE  /\ watchers' \in Seq(Watcher) /\ current' \in {0, Len(watchers')}
         /\ served' \in Seq(Served) /\ byId' \in [Ids -> Nat]
<1> DEFINE id == Head(up).id
           w == IF current = 0 THEN Len(watchers) + 1 ELSE current
           ready == current # 0 /\ watchers[current].shows # 0
           fresh == [life |-> "running", shows |-> 0]
           x == [id |-> id, watcher |-> w, conn |-> conn, st |-> IF ready THEN "in" ELSE "waiting"]
           n == Len(served) + 1
<1>1. /\ Request("sub") /\ current' = w
      /\ watchers' = (IF current # 0 THEN watchers ELSE Append(watchers, fresh))
      /\ served' = Append(served, x) /\ byId' = [byId EXCEPT ![id] = n]
  BY DEF HandleSub
<1>2. /\ served \in Seq(Served) /\ byId \in [Ids -> Nat] /\ up \in Seq(Requests)
      /\ watchers \in Seq(Watcher) /\ conn \in Nat /\ Len(watchers) \in Nat
      /\ Len(served) \in Nat /\ current \in {0, Len(watchers)}
  BY Basics DEF PartsInv
<1>3. id \in Ids
  BY <1>1, <1>2, RequestTypes, RequestIs
<1> HIDE DEF id
<1>4. fresh \in Watcher
  BY DEF Watcher
<1>5. w \in Nat
  BY <1>2
<1>6. x \in Served
  <2> HIDE DEF w, ready
  <2> QED
    BY <1>2, <1>3, <1>5 DEF Served
<1> HIDE DEF x, fresh
<1>7. watchers' \in Seq(Watcher) /\ current' \in {0, Len(watchers')}
  <2>1. CASE current # 0
    BY <1>1, <1>2, <2>1
  <2>2. CASE current = 0
    <3>1. watchers' = Append(watchers, fresh) /\ current' = Len(watchers) + 1
      BY <1>1, <2>2
    <3> QED
      BY <1>2, <1>4, <3>1, AppendIs
  <2> QED
    BY <2>1, <2>2
<1>8. served' \in Seq(Served)
  BY <1>1, <1>2, <1>6
<1>9. byId' \in [Ids -> Nat]
  <2>1. n \in Nat
    BY <1>2
  <2> HIDE DEF n
  <2> QED
    BY <1>1, <1>2, <2>1
<1> QED
  BY <1>7, <1>8, <1>9

\* A step of one watcher.
LEMMA WatcherStepTypes ==
  ASSUME PartsInv, NEW w \in DOMAIN watchers,
         WatcherListed(w) \/ WatcherEmits(w) \/ WatcherRelists(w) \/ WatchEnds(w) \/ WatcherRejects(w)
  PROVE  /\ watchers' \in Seq(Watcher) /\ Len(watchers') = Len(watchers)
         /\ served' \in Seq(Served) /\ byId' \in [Ids -> Nat]
<1> USE DEF sockets
<1>1. /\ watchers \in Seq(Watcher) /\ served \in Seq(Served) /\ byId \in [Ids -> Nat]
      /\ Len(log) \in Nat /\ watchers[w] \in Watcher
  BY Basics
<1>2. /\ watchers[w].shows \in Nat
      /\ watchers[w].life \in {"running", "listing", "watching", "relisting", "stopped"}
  BY <1>1 DEF Watcher
<1> DEFINE lives == {"running", "listing", "watching", "relisting", "stopped"}
           Same == watchers' \in Seq(Watcher) /\ Len(watchers') = Len(watchers)
<1>3. ASSUME NEW life \in lives, NEW q \in Nat,
             watchers' = [watchers EXCEPT ![w] = [life |-> life, shows |-> q]]
      PROVE  Same
  <2> DEFINE x == [life |-> life, shows |-> q]
  <2>1. x \in Watcher /\ watchers' = [watchers EXCEPT ![w] = x]
    BY <1>3 DEF Watcher
  <2> HIDE DEF x
  <2> QED
    BY <1>1, <2>1, WatcherTypes
<1>4. ASSUME watchers' = [watchers EXCEPT ![w].life = "stopped"]
      PROVE  Same
  <2>1. watchers' = [watchers EXCEPT ![w] = [watchers[w] EXCEPT !.life = "stopped"]]
    BY <1>4
  <2>2. [watchers[w] EXCEPT !.life = "stopped"] = [life |-> "stopped", shows |-> watchers[w].shows]
    BY <1>1, LifeChanges
  <2> QED
    BY <1>2, <1>3, <2>1, <2>2
<1> HIDE DEF Same
<1>5. CASE WatcherListed(w)
  <2> DEFINE life == IF watchers[w].life = "listing" THEN "watching" ELSE "running"
  <2>1. /\ watchers' = [watchers EXCEPT ![w] = [life |-> life, shows |-> Len(log)]]
        /\ served' = [k \in DOMAIN served |->
                        IF k \in Listening(w, "waiting") THEN [served[k] EXCEPT !.st = "in"] ELSE served[k]]
        /\ byId' = byId
    BY <1>5 DEF WatcherListed
  <2>2. life \in lives
    OBVIOUS
  <2> HIDE DEF life, lives
  <2>3. Same
    BY <1>1, <1>3, <2>1, <2>2
  <2>4. served' \in Seq(Served)
    BY <1>1, <2>1, ServedTypes
  <2> QED
    BY <1>1, <2>1, <2>3, <2>4 DEF Same
<1>6. CASE WatcherEmits(w)
  <2>1. PICK q \in (watchers[w].shows + 1)..Len(log) :
          watchers' = [watchers EXCEPT ![w] = [life |-> watchers[w].life, shows |-> q]]
    BY <1>6 DEF WatcherEmits, Emits
  <2>2. q \in Nat
    BY <1>1, <1>2
  <2>3. Same
    BY <1>2, <1>3, <2>1, <2>2
  <2>4. UNCHANGED <<served, byId>>
    BY <1>6 DEF WatcherEmits, Emits
  <2> QED
    BY <1>1, <2>3, <2>4 DEF Same
<1>7. CASE WatcherRelists(w)
  <2> DEFINE life == IF watchers[w].life = "running" THEN "running" ELSE "stopped"
  <2>1. /\ watchers' = [watchers EXCEPT ![w] = [life |-> life, shows |-> Len(log)]]
        /\ UNCHANGED <<served, byId>>
    BY <1>7 DEF WatcherRelists, Emits
  <2>2. life \in lives
    OBVIOUS
  <2> HIDE DEF life, lives
  <2>3. Same
    BY <1>1, <1>3, <2>1, <2>2
  <2> QED
    BY <1>1, <2>1, <2>3 DEF Same
<1>8. CASE WatchEnds(w)
  <2>1. watchers' = [watchers EXCEPT ![w].life = "stopped"] /\ UNCHANGED <<served, byId>>
    BY <1>8 DEF WatchEnds
  <2> QED
    BY <1>1, <1>4, <2>1 DEF Same
<1>9. CASE WatcherRejects(w)
  <2> DEFINE S == Listening(w, "waiting") \cup Listening(w, "cancelled")
             here == {k \in S : served[k].conn = conn}
  <2>1. /\ watchers' = watchers \/ watchers' = [watchers EXCEPT ![w].life = "stopped"]
        /\ served' = [k \in DOMAIN served |->
                        IF k \in S THEN [served[k] EXCEPT !.st = "stopped"] ELSE served[k]]
        /\ byId' = [i \in Ids |-> IF \E k \in here : served[k].id = i THEN 0 ELSE byId[i]]
    BY <1>9 DEF WatcherRejects
  <2> HIDE DEF S, here
  <2>2. Same
    BY <1>1, <1>4, <2>1 DEF Same
  <2>3. served' \in Seq(Served)
    BY <1>1, <2>1, ServedTypes
  <2>4. byId' \in [Ids -> Nat]
    BY <1>1, <2>1
  <2> QED
    BY <2>2, <2>3, <2>4 DEF Same
<1> QED
  BY <1>5, <1>6, <1>7, <1>8, <1>9

LEMMA NextPartsInv ==
  ASSUME PartsInv, [Next]_vars
  PROVE  PartsInv'
<1> USE DEF serverVars, sessions, sockets, clientVars, link, ui
<1> DEFINE LogPart == log' \in Seq(Entry) /\ Len(log') \in Nat \ {0}
           WatchersPart == watchers' \in Seq(Watcher) /\ current' \in {0, Len(watchers')}
           TablesPart == served' \in Seq(Served) /\ byId' \in [Ids -> Nat]
           UiPart == /\ conn' \in Nat /\ ids' \in 0..MaxIds /\ wire' \in 0..ids'
                     /\ (attached' \/ linger' => wire' # NoId) /\ (linger' => ~attached')
           UpPart == up' \in Seq(Requests)
           LogStays == log' = log
           WatchersStay == UNCHANGED <<watchers, current>>
           TablesStay == UNCHANGED <<served, byId>>
           UiStays == UNCHANGED <<conn, ids, wire, attached, linger>>
<1>1. LogStays => LogPart
  BY DEF PartsInv
<1>2. WatchersStay => WatchersPart
  BY DEF PartsInv
<1>3. TablesStay => TablesPart
  BY DEF PartsInv
<1>4. UiStays => UiPart
  BY DEF PartsInv
<1>5. up' = up => UpPart
  BY DEF PartsInv
<1>6. LogPart /\ WatchersPart /\ TablesPart /\ UiPart /\ UpPart => PartsInv'
  BY DEF PartsInv
<1>7. /\ MaxIds \in Nat /\ ids \in 0..MaxIds /\ wire \in 0..ids /\ conn \in Nat
      /\ (attached \/ linger => wire # NoId) /\ (linger => ~attached)
      /\ NoId = 0 /\ up \in Seq(Requests) /\ served \in Seq(Served) /\ byId \in [Ids -> Nat]
      /\ (wire # NoId => wire \in Ids)
  BY Basics DEF PartsInv
<1>8. CASE ApiWrite
  <2>1. Write /\ WatchersStay /\ TablesStay /\ UiStays /\ up' = up
    BY <1>8 DEF ApiWrite
  <2>2. PICK e \in Entry : log' = Append(log, e)
    BY <2>1 DEF Write
  <2>3. LogPart
    BY <2>2, AppendIs DEF PartsInv
  <2> HIDE DEF LogPart, WatchersPart, TablesPart, UiPart, UpPart, WatchersStay, TablesStay, UiStays
  <2> QED
    BY <1>2, <1>3, <1>4, <1>5, <1>6, <2>1, <2>3
<1>9. CASE SubscribeNew
  <2>1. /\ LogStays /\ WatchersStay /\ TablesStay /\ UNCHANGED <<conn, linger>>
        /\ ~attached /\ wire = NoId /\ ids < MaxIds /\ ids' = ids + 1 /\ wire' = ids + 1
        /\ attached' = TRUE /\ SendIfOpen(<<Sub(ids + 1)>>)
    BY <1>9 DEF SubscribeNew, Connecting
  <2>2. ids + 1 \in Ids /\ UiPart
    BY <1>7, <2>1 DEF Ids
  <2>3. UpPart
    BY <1>7, <2>1, <2>2, RequestsAre, RequestTypes
  <2> HIDE DEF LogPart, WatchersPart, TablesPart, UiPart, UpPart, LogStays, WatchersStay, TablesStay
  <2> QED
    BY <1>1, <1>2, <1>3, <1>6, <2>1, <2>2, <2>3
<1>10. CASE Teardown
  <2>1. /\ LogStays /\ WatchersStay /\ TablesStay /\ UNCHANGED <<conn, ids, attached>>
        /\ linger /\ linger' = FALSE /\ wire' = NoId /\ SendIfOpen(<<Unsub(wire)>>)
    BY <1>10 DEF Teardown
  <2>2. UiPart /\ wire \in Ids
    BY <1>7, <2>1
  <2>3. UpPart
    BY <1>7, <2>1, <2>2, RequestsAre, RequestTypes
  <2> HIDE DEF LogPart, WatchersPart, TablesPart, UiPart, UpPart, LogStays, WatchersStay, TablesStay
  <2> QED
    BY <1>1, <1>2, <1>3, <1>6, <2>1, <2>2, <2>3
<1>11. CASE SubscribeAgain \/ Leave
  <2>1. /\ LogStays /\ WatchersStay /\ TablesStay /\ UNCHANGED <<up, conn, ids, wire>>
        /\ wire # NoId /\ (linger' => ~attached')
    BY <1>7, <1>11 DEF SubscribeAgain, Leave
  <2>2. UiPart
    BY <1>7, <2>1
  <2> HIDE DEF LogPart, WatchersPart, TablesPart, UiPart, UpPart, LogStays, WatchersStay, TablesStay
  <2> QED
    BY <1>1, <1>2, <1>3, <1>5, <1>6, <2>1, <2>2
<1>12. CASE Opens
  <2>1. /\ LogStays /\ WatchersStay /\ TablesStay /\ UNCHANGED <<ids, wire, attached, linger>>
        /\ conn' = conn + 1 /\ up' = IF wire # NoId THEN <<Sub(wire)>> ELSE <<>>
    BY <1>12 DEF Opens
  <2>2. UiPart
    BY <1>7, <2>1
  <2>3. UpPart
    <3>1. wire # NoId => Sub(wire) \in Requests
      BY <1>7, RequestsAre
    <3> QED
      BY <2>1, <3>1
  <2> HIDE DEF LogPart, WatchersPart, TablesPart, UiPart, UpPart, LogStays, WatchersStay, TablesStay
  <2> QED
    BY <1>1, <1>2, <1>3, <1>6, <2>1, <2>2, <2>3
<1>13. CASE Breaks
  <2>1. /\ LogStays /\ WatchersStay /\ UiStays /\ up' = <<>> /\ byId' = [i \in Ids |-> 0]
        /\ served' = [k \in DOMAIN served |->
                        IF k \in Range(byId) THEN Stopped(served[k]) ELSE served[k]]
    BY <1>13 DEF Breaks
  <2>2. UpPart
    BY <2>1
  <2>3. served' \in Seq(Served) /\ byId' \in [Ids -> Nat]
    BY <1>7, <2>1, ServedTypes
  <2>4. TablesPart
    BY <2>3
  <2> HIDE DEF LogPart, WatchersPart, TablesPart, UiPart, UpPart, LogStays, WatchersStay, UiStays
  <2> QED
    BY <1>1, <1>2, <1>4, <1>6, <2>1, <2>2, <2>4
<1>14. CASE ReceiveReset
  <2>1. /\ LogStays /\ WatchersStay /\ TablesStay /\ UiStays
        /\ up' = up \/ (wire # NoId /\ up' = up \o <<Unsub(wire), Sub(wire)>>)
    BY <1>14 DEF ReceiveReset
  <2>2. UpPart
    <3> DEFINE s == Unsub(wire)
               t == Sub(wire)
    <3>1. wire # NoId => s \in Requests /\ t \in Requests
      BY <1>7, RequestsAre
    <3>2. up' = up \/ (wire # NoId /\ up' = up \o <<s, t>>)
      BY <2>1
    <3> HIDE DEF s, t
    <3>3. CASE up' = up
      BY <1>5, <3>3
    <3>4. CASE wire # NoId /\ up' = up \o <<s, t>>
      <4>1. up \in Seq(Requests) /\ <<s, t>> \in Seq(Requests)
        BY <1>7, <3>1, <3>4
      <4> QED
        BY <3>4, <4>1
    <3> QED
      BY <3>2, <3>3, <3>4
  <2> HIDE DEF LogPart, WatchersPart, TablesPart, UiPart, UpPart, LogStays, WatchersStay, TablesStay, UiStays
  <2> QED
    BY <1>1, <1>2, <1>3, <1>4, <1>6, <2>1, <2>2
<1>15. CASE HandleUnsub
  <2>1. /\ LogStays /\ WatchersStay /\ UiStays /\ Request("unsub")
        /\ byId' = [byId EXCEPT ![Head(up).id] = 0]
        /\ served' = [k \in DOMAIN served |->
                        IF k = byId[Head(up).id] THEN Stopped(served[k]) ELSE served[k]]
    BY <1>15 DEF HandleUnsub
  <2>2. UpPart
    BY <1>7, <2>1, RequestTypes
  <2>3. served' \in Seq(Served)
    <3>1. served' = [k \in DOMAIN served |->
                       IF k \in {byId[Head(up).id]} THEN Stopped(served[k]) ELSE served[k]]
      BY <2>1
    <3> QED
      BY <1>7, <3>1, ServedTypes
  <2>4. TablesPart
    BY <1>7, <2>1, <2>3
  <2> HIDE DEF LogPart, WatchersPart, TablesPart, UiPart, UpPart, LogStays, WatchersStay, UiStays
  <2> QED
    BY <1>1, <1>2, <1>4, <1>6, <2>1, <2>2, <2>4
<1>16. CASE HandleNotConnected
  <2>1. /\ LogStays /\ WatchersStay /\ TablesStay /\ UiStays /\ Request("sub")
    BY <1>16 DEF HandleNotConnected
  <2>2. UpPart
    BY <1>7, <2>1, RequestTypes
  <2> HIDE DEF LogPart, WatchersPart, TablesPart, UiPart, UpPart, LogStays, WatchersStay, TablesStay, UiStays
  <2> QED
    BY <1>1, <1>2, <1>3, <1>4, <1>6, <2>1, <2>2
<1>17. CASE HandleSub
  <2>1. LogStays /\ UiStays /\ Request("sub")
    BY <1>17 DEF HandleSub
  <2>2. UpPart
    BY <1>7, <2>1, RequestTypes
  <2>3. WatchersPart /\ TablesPart
    BY <1>17, HandleSubTypes
  <2> HIDE DEF LogPart, WatchersPart, TablesPart, UiPart, UpPart, LogStays, UiStays
  <2> QED
    BY <1>1, <1>4, <1>6, <2>1, <2>2, <2>3
<1>18. ASSUME NEW w \in DOMAIN watchers,
              WatcherListed(w) \/ WatcherEmits(w) \/ WatcherRelists(w) \/ WatchEnds(w) \/ WatcherRejects(w)
       PROVE  PartsInv'
  <2>1. LogStays /\ UiStays /\ up' = up /\ current' = current
    BY <1>18 DEF WatcherListed, WatcherEmits, WatcherRelists, WatchEnds, WatcherRejects, Emits
  <2>2. watchers' \in Seq(Watcher) /\ Len(watchers') = Len(watchers) /\ TablesPart
    BY <1>18, WatcherStepTypes
  <2>3. WatchersPart
    BY <2>1, <2>2 DEF PartsInv
  <2> HIDE DEF LogPart, WatchersPart, TablesPart, UiPart, UpPart, LogStays, UiStays
  <2> QED
    BY <1>1, <1>4, <1>5, <1>6, <2>1, <2>2, <2>3
<1>19. CASE LingerStops \/ SessionEnds
  <2>1. LogStays /\ TablesStay /\ UiStays /\ up' = up /\ StopCurrent /\ current' = 0
    BY <1>19 DEF LingerStops, SessionEnds
  <2>2. WatchersPart
    BY <2>1, StopAges DEF WatchersAge
  <2> HIDE DEF LogPart, WatchersPart, TablesPart, UiPart, UpPart, LogStays, TablesStay, UiStays
  <2> QED
    BY <1>1, <1>3, <1>4, <1>5, <1>6, <2>1, <2>2
<1> DEFINE Quiet == LogStays /\ WatchersStay /\ TablesStay /\ UiStays /\ up' = up
<1>20. Reconnect \/ Closes \/ ClosesLate \/ Flush => Quiet
  BY DEF Reconnect, Closes, ClosesLate, Flush, Connecting
<1>21. ReceiveUnknown \/ ReceiveSnapshot \/ ReceiveEvents \/ ReceiveStatus => Quiet
  BY DEF ReceiveUnknown, ReceiveSnapshot, ReceiveEvents, ReceiveStatus
<1>22. SessionStarts \/ SessionReady \/ UNCHANGED vars => Quiet
  BY DEF SessionStarts, SessionReady, vars
<1> HIDE DEF LogPart, WatchersPart, TablesPart, UiPart, UpPart, LogStays, WatchersStay, TablesStay, UiStays
<1>23. Quiet => PartsInv'
  BY <1>1, <1>2, <1>3, <1>4, <1>5, <1>6
<1> HIDE DEF Quiet
<1> QED
  BY <1>8, <1>9, <1>10, <1>11, <1>12, <1>13, <1>14, <1>15, <1>16, <1>17, <1>18, <1>19, <1>20, <1>21,
     <1>22, <1>23 DEF Next, Components, Receive, Handle, WatcherStep

-----------------------------------------------------------------------------
(* Versions only go up                                                     *)

Mine(w, m) == IF m.id = w THEN m.objects ELSE {}
Newer(l, S, T) == \A i \in S, j \in T : l[i].uid = l[j].uid => i <= j
Below(S, v) == S \subseteq 1..v

\* The rows or the batches that wait for the flush, and what is under way: each is
\* newer than what comes before it.
Chain(l, w, c, p, d) ==
  /\ One(l, c)
  /\ \A n \in DOMAIN d : Newer(l, c, Mine(w, d[n]))
  /\ \A m, n \in DOMAIN p : m < n => Newer(l, p[m], p[n])
  /\ \A m \in DOMAIN p, n \in DOMAIN d : Newer(l, p[m], Mine(w, d[n]))
  /\ \A m, n \in DOMAIN d : m < n => Newer(l, Mine(w, d[m]), Mine(w, d[n]))
  /\ \A n \in DOMAIN d : d[n].op = "snapshot" => One(l, Mine(w, d[n]))

\* None of it is newer than version v.
AllBelow(w, c, p, d, v) ==
  /\ Below(c, v)
  /\ \A n \in DOMAIN p : Below(p[n], v)
  /\ \A n \in DOMAIN d : Below(Mine(w, d[n]), v)

LEMMA IdleIs ==
  ASSUME NEW w, NEW m, Idle(w, m)
  PROVE  Mine(w, m) = {}
  BY DEF Idle, Mine

LEMMA ChainOthers ==
  ASSUME NEW l, NEW w, NEW c, NEW p, NEW d, NEW e, Others(w, d, e)
  PROVE  /\ Chain(l, w, c, p, d) => Chain(l, w, c, p, e)
         /\ \A v : AllBelow(w, c, p, d, v) => AllBelow(w, c, p, e, v)
<1>1. \A n \in DOMAIN e : \/ n \in DOMAIN d /\ e[n] = d[n]
                          \/ Mine(w, e[n]) = {}
  BY IdleIs DEF Others
<1>2. ASSUME Chain(l, w, c, p, d)
      PROVE  Chain(l, w, c, p, e)
  <2>1. One(l, c) /\ \A m, n \in DOMAIN p : m < n => Newer(l, p[m], p[n])
    BY <1>2 DEF Chain
  <2>2. \A n \in DOMAIN e : Newer(l, c, Mine(w, e[n]))
    BY <1>1, <1>2 DEF Chain, Newer
  <2>3. \A m \in DOMAIN p, n \in DOMAIN e : Newer(l, p[m], Mine(w, e[n]))
    BY <1>1, <1>2 DEF Chain, Newer
  <2>4. \A m, n \in DOMAIN e : m < n => Newer(l, Mine(w, e[m]), Mine(w, e[n]))
    BY <1>1, <1>2 DEF Chain, Newer
  <2>5. \A n \in DOMAIN e : e[n].op = "snapshot" => One(l, Mine(w, e[n]))
    BY <1>1, <1>2 DEF Chain, One
  <2> QED
    BY <2>1, <2>2, <2>3, <2>4, <2>5 DEF Chain
<1>3. ASSUME NEW v, AllBelow(w, c, p, d, v)
      PROVE  AllBelow(w, c, p, e, v)
  BY <1>1, <1>3 DEF AllBelow, Below
<1> QED
  BY <1>2, <1>3

\* A message with something newer than all there is.
LEMMA ChainMore ==
  ASSUME NEW l, NEW w, NEW c, NEW p, NEW X, NEW d \in Seq(X), NEW m \in X, NEW v, NEW q,
         Chain(l, w, c, p, d), AllBelow(w, c, p, d, v),
         \A i \in 1..v, j \in m.objects : l[i].uid = l[j].uid => i <= j,
         m.op = "snapshot" => One(l, m.objects),
         AllBelow(w, c, p, d, q), Below(m.objects, q)
  PROVE  Chain(l, w, c, p, Append(d, m)) /\ AllBelow(w, c, p, Append(d, m), q)
<1> DEFINE e == Append(d, m)
           z == Len(d) + 1
<1>1. /\ DOMAIN e = DOMAIN d \cup {z} /\ e[z] = m /\ \A k \in DOMAIN d : e[k] = d[k] /\ k < z
  <2>1. \A k \in DOMAIN d : k < z
    OBVIOUS
  <2> QED
    BY <2>1, AppendIs
<1>2. z \in Nat
  OBVIOUS
<1> HIDE DEF e, z
<1>3. Mine(w, m) \subseteq m.objects
  BY DEF Mine
<1>4. \A S : Below(S, v) => Newer(l, S, Mine(w, m))
  BY <1>3 DEF Below, Newer
<1>5. One(l, c) /\ \A k, n \in DOMAIN p : k < n => Newer(l, p[k], p[n])
  BY DEF Chain
<1>6. \A n \in DOMAIN e : Newer(l, c, Mine(w, e[n]))
  BY <1>1, <1>4 DEF Chain, AllBelow
<1>7. \A k \in DOMAIN p, n \in DOMAIN e : Newer(l, p[k], Mine(w, e[n]))
  BY <1>1, <1>4 DEF Chain, AllBelow
<1>8. ASSUME NEW k \in DOMAIN e, NEW n \in DOMAIN e, k < n
      PROVE  Newer(l, Mine(w, e[k]), Mine(w, e[n]))
  <2>1. k \in DOMAIN d
    <3>1. CASE k = z
      <4>1. n \notin DOMAIN d
        <5>1. \A i \in DOMAIN d : i \in Nat
          OBVIOUS
        <5>2. n \in DOMAIN d => n \in Nat /\ n < z
          BY <1>1, <5>1
        <5> QED
          BY <1>2, <1>8, <3>1, <5>2
      <4>2. n = z
        BY <1>1, <4>1
      <4> QED
        BY <1>2, <1>8, <3>1, <4>2
    <3> QED
      BY <1>1, <3>1
  <2>2. CASE n \in DOMAIN d
    BY <1>1, <1>8, <2>1, <2>2 DEF Chain
  <2>3. CASE n = z
    BY <1>1, <1>4, <2>1, <2>3 DEF AllBelow
  <2> QED
    BY <1>1, <2>2, <2>3
<1>9. \A n \in DOMAIN e : e[n].op = "snapshot" => One(l, Mine(w, e[n]))
  <2>1. m.op = "snapshot" => One(l, Mine(w, m))
    BY <1>3 DEF One
  <2> QED
    BY <1>1, <2>1 DEF Chain
<1>10. AllBelow(w, c, p, e, q)
  <2>1. Below(Mine(w, m), q)
    BY <1>3 DEF Below
  <2> QED
    BY <1>1, <2>1 DEF AllBelow
<1> QED
  BY <1>5, <1>6, <1>7, <1>8, <1>9, <1>10 DEF Chain, e

LEMMA ChainLess ==
  ASSUME NEW l, NEW w, NEW c, NEW p, NEW X, NEW d \in Seq(X), d # <<>>
  PROVE  /\ Chain(l, w, c, p, d) => Chain(l, w, c, p, Tail(d))
         /\ \A v : AllBelow(w, c, p, d, v) => AllBelow(w, c, p, Tail(d), v)
<1>1. \A i \in DOMAIN Tail(d) : i \in Nat \ {0} /\ i + 1 \in DOMAIN d /\ Tail(d)[i] = d[i + 1]
  BY TailIs
<1>2. \A i, j \in DOMAIN Tail(d) : i < j => i + 1 < j + 1
  BY <1>1
<1>3. ASSUME Chain(l, w, c, p, d)
      PROVE  Chain(l, w, c, p, Tail(d))
  <2>1. \A m, n \in DOMAIN Tail(d) : m < n => Newer(l, Mine(w, Tail(d)[m]), Mine(w, Tail(d)[n]))
    BY <1>1, <1>2, <1>3 DEF Chain
  <2> QED
    BY <1>1, <1>3, <2>1 DEF Chain
<1>4. ASSUME NEW v, AllBelow(w, c, p, d, v)
      PROVE  AllBelow(w, c, p, Tail(d), v)
  BY <1>1, <1>4 DEF AllBelow
<1> QED
  BY <1>3, <1>4

LEMMA FirstIs ==
  ASSUME NEW X, NEW d \in Seq(X), d # <<>>
  PROVE  /\ 1 \in DOMAIN d /\ d[1] = Head(d)
         /\ \A n \in DOMAIN Tail(d) : 1 < n + 1 /\ n + 1 \in DOMAIN d /\ Tail(d)[n] = d[n + 1]
<1>1. /\ 1 \in DOMAIN d /\ d[1] = Head(d)
      /\ \A i \in DOMAIN Tail(d) : i \in Nat \ {0} /\ i + 1 \in DOMAIN d /\ Tail(d)[i] = d[i + 1]
  BY TailIs
<1>2. \A n \in DOMAIN Tail(d) : 1 < n + 1
  BY <1>1
<1> QED
  BY <1>1, <1>2

LEMMA ChainSnapshot ==
  ASSUME NEW l, NEW w, NEW c, NEW p, NEW X, NEW d \in Seq(X), d # <<>>,
         Head(d).id = w, Head(d).op = "snapshot"
  PROVE  /\ Chain(l, w, c, p, d) => Chain(l, w, Head(d).objects, p, Tail(d))
         /\ \A v : AllBelow(w, c, p, d, v) => AllBelow(w, Head(d).objects, p, Tail(d), v)
<1>1. /\ 1 \in DOMAIN d /\ d[1] = Head(d)
      /\ \A n \in DOMAIN Tail(d) : 1 < n + 1 /\ n + 1 \in DOMAIN d /\ Tail(d)[n] = d[n + 1]
  BY FirstIs
<1>2. Mine(w, d[1]) = Head(d).objects
  BY <1>1 DEF Mine
<1>3. ASSUME Chain(l, w, c, p, d)
      PROVE  Chain(l, w, Head(d).objects, p, Tail(d))
  <2>1. One(l, Head(d).objects)
    BY <1>1, <1>2, <1>3 DEF Chain
  <2>2. \A n \in DOMAIN Tail(d) : Newer(l, Head(d).objects, Mine(w, Tail(d)[n]))
    BY <1>1, <1>2, <1>3 DEF Chain
  <2>3. Chain(l, w, c, p, Tail(d))
    BY <1>3, ChainLess
  <2> QED
    BY <2>1, <2>2, <2>3 DEF Chain
<1>4. ASSUME NEW v, AllBelow(w, c, p, d, v)
      PROVE  AllBelow(w, Head(d).objects, p, Tail(d), v)
  BY <1>1, <1>2, <1>4 DEF AllBelow
<1> QED
  BY <1>3, <1>4

LEMMA ChainEvents ==
  ASSUME NEW l, NEW w, NEW c, NEW Y, NEW p \in Seq(Y), NEW X, NEW d \in Seq(X), d # <<>>,
         Head(d).id = w, Head(d).objects \in Y
  PROVE  /\ Chain(l, w, c, p, d) => Chain(l, w, c, Append(p, Head(d).objects), Tail(d))
         /\ \A v : AllBelow(w, c, p, d, v) => AllBelow(w, c, Append(p, Head(d).objects), Tail(d), v)
<1> DEFINE h == Head(d).objects
           e == Append(p, h)
           z == Len(p) + 1
<1>1. /\ 1 \in DOMAIN d /\ d[1] = Head(d)
      /\ \A n \in DOMAIN Tail(d) : 1 < n + 1 /\ n + 1 \in DOMAIN d /\ Tail(d)[n] = d[n + 1]
  BY FirstIs
<1>2. Mine(w, d[1]) = h
  BY <1>1 DEF Mine
<1>3. h \in Y
  OBVIOUS
<1> HIDE DEF h
<1>4. /\ DOMAIN e = DOMAIN p \cup {z} /\ e[z] = h /\ \A k \in DOMAIN p : e[k] = p[k]
  BY <1>3, AppendIs
<1>40. z \in Nat /\ \A k \in DOMAIN p : k \in Nat /\ k < z
  OBVIOUS
<1> HIDE DEF e, z
<1>5. ASSUME Chain(l, w, c, p, d)
      PROVE  Chain(l, w, c, e, Tail(d))
  <2>1. \A k \in DOMAIN p : Newer(l, p[k], h)
    BY <1>1, <1>2, <1>5 DEF Chain
  <2>2. \A n \in DOMAIN Tail(d) : Newer(l, h, Mine(w, Tail(d)[n]))
    BY <1>1, <1>2, <1>5 DEF Chain
  <2>3. Chain(l, w, c, p, Tail(d))
    BY <1>5, ChainLess
  <2>5. ASSUME NEW m \in DOMAIN e, NEW n \in DOMAIN e, m < n
        PROVE  Newer(l, e[m], e[n])
    <3>1. m \in DOMAIN p
      BY <1>4, <1>40, <2>5
    <3>2. CASE n = z
      BY <1>4, <2>1, <3>1, <3>2
    <3>3. CASE n \in DOMAIN p
      BY <1>4, <2>3, <2>5, <3>1, <3>3 DEF Chain
    <3> QED
      BY <1>4, <3>2, <3>3
  <2>6. \A m \in DOMAIN e, n \in DOMAIN Tail(d) : Newer(l, e[m], Mine(w, Tail(d)[n]))
    BY <1>4, <2>2, <2>3 DEF Chain
  <2> QED
    BY <2>3, <2>5, <2>6 DEF Chain
<1>6. ASSUME NEW v, AllBelow(w, c, p, d, v)
      PROVE  AllBelow(w, c, e, Tail(d), v)
  BY <1>1, <1>2, <1>4, <1>6 DEF AllBelow
<1> QED
  BY <1>5, <1>6 DEF e, h

LEMMA ChainForgets ==
  ASSUME NEW l, NEW w, NEW c, NEW p, NEW p2, NEW d, p2 = <<>>
  PROVE  /\ Chain(l, w, c, p, d) => Chain(l, w, c, p2, d)
         /\ \A v : AllBelow(w, c, p, d, v) => AllBelow(w, c, p2, d, v)
<1>1. DOMAIN p2 = {}
  OBVIOUS
<1> QED
  BY <1>1 DEF Chain, AllBelow

LEMMA ChainFlush ==
  ASSUME NEW l, NEW w, NEW c, NEW V \in SUBSET Int, NEW p \in Seq(SUBSET V), NEW d, NEW p2, p2 = <<>>
  PROVE  /\ Chain(l, w, c, p, d) => Chain(l, w, Batches(l, c, p), p2, d)
         /\ \A v : AllBelow(w, c, p, d, v) => AllBelow(w, Batches(l, c, p), p2, d, v)
<1> DEFINE b == Batches(l, c, p)
           U == c \cup UNION {p[n] : n \in DOMAIN p}
<1>1. DOMAIN p2 = {}
  OBVIOUS
<1> DEFINE Y == SUBSET V
<1>20. p \in Seq(Y)
  OBVIOUS
<1> HIDE DEF Y
<1>21. Len(p) \in Nat /\ DOMAIN p = 1..Len(p) /\ \A n \in 1..Len(p) : p[n] \in Y
  BY <1>20
<1>2. Len(p) \in Nat /\ DOMAIN p = 1..Len(p) /\ \A n \in 1..Len(p) : p[n] \in SUBSET Int
  BY <1>21 DEF Y
<1>3. b \subseteq U
  <2>1. c \subseteq U /\ \A n \in 1..Len(p) : p[n] \subseteq U
    BY <1>2
  <2> HIDE DEF U
  <2> QED
    BY <1>2, <2>1, BatchesFrom
<1>4. \A i \in b : i \in c \/ \E n \in DOMAIN p : i \in p[n]
  BY <1>3
<1>5. ASSUME One(l, c) PROVE One(l, b)
  BY <1>2, <1>5, BatchesOne
<1> HIDE DEF b, U
<1>6. ASSUME Chain(l, w, c, p, d)
      PROVE  Chain(l, w, b, p2, d)
  <2>1. ASSUME NEW n \in DOMAIN d
        PROVE  Newer(l, b, Mine(w, d[n]))
    <3>1. Newer(l, c, Mine(w, d[n])) /\ \A m \in DOMAIN p : Newer(l, p[m], Mine(w, d[n]))
      BY <1>6 DEF Chain
    <3> QED
      BY <1>4, <3>1 DEF Newer
  <2>2. One(l, b)
    BY <1>5, <1>6 DEF Chain
  <2> QED
    BY <1>1, <1>6, <2>1, <2>2 DEF Chain
<1>7. ASSUME NEW v, AllBelow(w, c, p, d, v)
      PROVE  AllBelow(w, b, p2, d, v)
  BY <1>1, <1>4, <1>7 DEF AllBelow, Below
<1> QED
  BY <1>6, <1>7 DEF b

LEMMA ChainFresh ==
  ASSUME NEW l, NEW w, NEW c, c = {}, NEW p, p = <<>>, NEW d, \A n \in DOMAIN d : Mine(w, d[n]) = {}
  PROVE  Chain(l, w, c, p, d) /\ \A v : AllBelow(w, c, p, d, v)
<1>1. DOMAIN p = {}
  OBVIOUS
<1> QED
  BY <1>1 DEF Chain, AllBelow, Newer, One, Below

LEMMA ChainGrows ==
  ASSUME NEW V, NEW l, NEW m, Agree(V, l, m), NEW w, NEW c \in SUBSET V,
         NEW p, \A n \in DOMAIN p : p[n] \subseteq V,
         NEW d, \A n \in DOMAIN d : Mine(w, d[n]) \subseteq V,
         Chain(l, w, c, p, d)
  PROVE  Chain(m, w, c, p, d)
<1>1. \A S, T \in SUBSET V : Newer(l, S, T) => Newer(m, S, T)
  BY DEF Agree, Newer
<1>2. \A S \in SUBSET V : One(l, S) => One(m, S)
  BY DEF Agree, One
<1>3. One(m, c)
  BY <1>2 DEF Chain
<1>4. \A n \in DOMAIN d : Newer(m, c, Mine(w, d[n]))
  BY <1>1 DEF Chain
<1>5. \A i, n \in DOMAIN p : i < n => Newer(m, p[i], p[n])
  BY <1>1 DEF Chain
<1>6. \A i \in DOMAIN p, n \in DOMAIN d : Newer(m, p[i], Mine(w, d[n]))
  BY <1>1 DEF Chain
<1>7. \A i, n \in DOMAIN d : i < n => Newer(m, Mine(w, d[i]), Mine(w, d[n]))
  BY <1>1 DEF Chain
<1>8. \A n \in DOMAIN d : d[n].op = "snapshot" => One(m, Mine(w, d[n]))
  BY <1>2 DEF Chain
<1> QED
  BY <1>3, <1>4, <1>5, <1>6, <1>7, <1>8 DEF Chain

LEMMA AllBelowMore ==
  ASSUME NEW w, NEW c, NEW p, NEW d, NEW v \in Nat, NEW q \in Nat, v <= q, AllBelow(w, c, p, d, v)
  PROVE  AllBelow(w, c, p, d, q)
<1>1. 1..v \subseteq 1..q
  OBVIOUS
<1>2. \A S : Below(S, v) => Below(S, q)
  BY <1>1 DEF Below
<1> QED
  BY <1>2 DEF AllBelow

LEMMA ChainLost ==
  ASSUME NEW l, NEW w, NEW c, NEW p, NEW d, NEW e, e = <<>>
  PROVE  /\ Chain(l, w, c, p, d) => Chain(l, w, c, p, e)
         /\ \A v : AllBelow(w, c, p, d, v) => AllBelow(w, c, p, e, v)
<1>1. DOMAIN e = {}
  OBVIOUS
<1> QED
  BY <1>1 DEF Chain, AllBelow

-----------------------------------------------------------------------------
(* What the browser's subscription is sent                                 *)

\* The subscription that is served, and the others.
LEMMA ServingIs ==
  ASSUME IInv, TypeInv
  PROVE  /\ Serving # 0 => /\ wire \in Ids /\ wire # NoId /\ Serving = byId[wire]
                           /\ Serving \in DOMAIN served /\ served[Serving].id = wire
         /\ \A k \in DOMAIN served : Live(served[k]) => k = Serving \/ served[k].id # wire
         /\ \A k \in DOMAIN served : Live(served[k]) => Reaches(k)
<1>1. PartsInv /\ TablesInv /\ ServedInv
  BY DEF IInv, TypeInv
<1>2. ASSUME Serving # 0
      PROVE  /\ wire \in Ids /\ wire # NoId /\ Serving = byId[wire]
             /\ Serving \in DOMAIN served /\ served[Serving].id = wire
  <2>1. wire # NoId /\ Serving = byId[wire]
    BY <1>2 DEF Serving
  <2>2. wire \in Ids
    BY <1>1, <2>1, Basics
  <2> QED
    BY <1>1, <1>2, <2>1, <2>2 DEF TablesInv
<1>3. ASSUME NEW k \in DOMAIN served, Live(served[k])
      PROVE  (k = Serving \/ served[k].id # wire) /\ Reaches(k)
  <2>1. ws = "open" /\ served[k].conn = conn /\ byId[served[k].id] = k
    BY <1>1, <1>3 DEF ServedInv
  <2>2. served[k].id # NoId
    <3>1. served \in Seq(Served) /\ NoId \notin Ids
      BY <1>1, Basics
    <3>2. served[k] \in Served
      BY <3>1
    <3> QED
      BY <3>1, <3>2 DEF Served
  <2> QED
    BY <2>1, <2>2 DEF Serving, Reaches
<1> QED
  BY <1>2, <1>3

\* Whatever else is sent, w is told m.
Told(w, d, m, e) ==
  \E c \in Seq(Heard(Len(log), ids)) : Others(w, d, c) /\ Others(w, Append(c, m), e)

LEMMA ToldOne ==
  ASSUME HeardInv, NEW w, NEW m, NEW e, Others(w, Append(down, m), e)
  PROVE  Told(w, down, m, e)
<1> DEFINE Q == Seq(Heard(Len(log), ids))
<1>1. down \in Q /\ Others(w, down, down)
  BY OthersNone DEF HeardInv
<1> HIDE DEF Q
<1> QED
  BY <1>1 DEF Told, Q

LEMMA ToldHear ==
  ASSUME HeardInv, HeardInv', log' = log, ids' = ids, NEW l, NEW w, NEW c, NEW m \in Heard(Len(log), ids),
         Told(w, down, m, down')
  PROVE  HearAll(l, w, c, down') = Hear(l, w, HearAll(l, w, c, down), m)
<1> DEFINE X == Heard(Len(log), ids)
<1>1. down \in Seq(X) /\ down' \in Seq(X) /\ m \in X
  BY DEF HeardInv
<1>2. PICK d \in Seq(X) : Others(w, down, d) /\ Others(w, Append(d, m), down')
  BY DEF Told
<1> HIDE DEF X
<1>3. Append(d, m) \in Seq(X)
  BY <1>1
<1>4. HearAll(l, w, c, down') = HearAll(l, w, c, Append(d, m))
  BY <1>1, <1>2, <1>3, HearOthers
<1>5. HearAll(l, w, c, Append(d, m)) = Hear(l, w, HearAll(l, w, c, d), m)
  BY <1>1, HearMore
<1>6. HearAll(l, w, c, d) = HearAll(l, w, c, down)
  BY <1>1, <1>2, HearOthers
<1> QED
  BY <1>4, <1>5, <1>6

LEMMA ToldKeeps ==
  ASSUME NEW w, NEW d, d \in Seq(Heard(Len(log), ids)), NEW m \in Heard(Len(log), ids), NEW e,
         Told(w, d, m, e) \/ Others(w, d, e)
  PROVE  DOMAIN d \subseteq DOMAIN e /\ \A n \in DOMAIN d : e[n] = d[n]
<1>1. CASE Others(w, d, e)
  BY <1>1 DEF Others
<1>2. CASE Told(w, d, m, e)
  <2> DEFINE X == Heard(Len(log), ids)
  <2>1. PICK c \in Seq(X) : Others(w, d, c) /\ Others(w, Append(c, m), e)
    BY <1>2 DEF Told
  <2>2. m \in X
    OBVIOUS
  <2> HIDE DEF X
  <2>3. DOMAIN c \subseteq DOMAIN Append(c, m) /\ \A n \in DOMAIN c : Append(c, m)[n] = c[n]
    BY <2>2, AppendIs
  <2> QED
    BY <2>1, <2>3 DEF Others
<1> QED
  BY <1>1, <1>2

LEMMA ToldTouch ==
  ASSUME NEW l, NEW w, NEW d, NEW m \in Heard(Len(log), ids), NEW e, NEW u,
         Told(w, d, m, e), Touches(l, w, e, u)
  PROVE  Touches(l, w, d, u) \/ Tells(l, w, m, u)
<1> DEFINE X == Heard(Len(log), ids)
<1>1. PICK c \in Seq(X) : Others(w, d, c) /\ Others(w, Append(c, m), e)
  BY DEF Told
<1>2. m \in X
  OBVIOUS
<1> HIDE DEF X
<1>3. Touches(l, w, Append(c, m), u)
  BY <1>1, OthersTouch
<1>4. /\ DOMAIN Append(c, m) = DOMAIN c \cup {Len(c) + 1}
      /\ Append(c, m)[Len(c) + 1] = m /\ \A n \in DOMAIN c : Append(c, m)[n] = c[n]
  BY <1>2, AppendIs
<1>5. Touches(l, w, c, u) \/ Tells(l, w, m, u)
  BY <1>3, <1>4 DEF Touches
<1> QED
  BY <1>1, <1>5, OthersTouch

\* What is told is newer than all there is.
LEMMA ToldChain ==
  ASSUME NEW l, NEW w, NEW c, NEW p, NEW d, NEW e, NEW m \in Heard(Len(log), ids), NEW v, NEW q,
         Told(w, d, m, e), Chain(l, w, c, p, d), AllBelow(w, c, p, d, v),
         \A i \in 1..v, j \in m.objects : l[i].uid = l[j].uid => i <= j,
         m.op = "snapshot" => One(l, m.objects),
         AllBelow(w, c, p, d, q), Below(m.objects, q)
  PROVE  Chain(l, w, c, p, e) /\ AllBelow(w, c, p, e, q)
<1> DEFINE X == Heard(Len(log), ids)
<1>1. PICK b \in Seq(X) : Others(w, d, b) /\ Others(w, Append(b, m), e)
  BY DEF Told
<1>2. m \in X
  OBVIOUS
<1> HIDE DEF X
<1>3. Chain(l, w, c, p, b) /\ AllBelow(w, c, p, b, v) /\ AllBelow(w, c, p, b, q)
  BY <1>1, ChainOthers
<1>4. Chain(l, w, c, p, Append(b, m)) /\ AllBelow(w, c, p, Append(b, m), q)
  BY <1>2, <1>3, ChainMore
<1> QED
  BY <1>1, <1>4, ChainOthers

\* The snapshot of the store at version r.
Whole(r) == Msg("snapshot", wire, StoreAt(r), "")

LEMMA WholeIs ==
  ASSUME PartsInv, wire # NoId, NEW r \in 0..Len(log)
  PROVE  /\ Whole(r) \in Heard(Len(log), ids) /\ Msg("status", wire, {}, "live") \in Heard(Len(log), ids)
         /\ Whole(r).op = "snapshot" /\ Whole(r).id = wire /\ Whole(r).objects = Store(log, r)
         /\ One(log, Whole(r).objects) /\ Whole(r).objects \subseteq 1..r
         /\ \A i \in 1..r, j \in Whole(r).objects : log[i].uid = log[j].uid => i <= j
         /\ Idle(wire, Msg("status", wire, {}, "live"))
<1>1. /\ Len(log) \in Nat /\ ids \in Nat /\ wire \in 1..ids /\ r \in Nat
  <2>1. Len(log) \in Nat /\ ids \in Nat /\ wire \in 0..ids
    BY DEF PartsInv
  <2> QED
    BY <2>1 DEF NoId
<1>2. StoreAt(r) = Store(log, r) /\ One(log, Store(log, r)) /\ Store(log, r) \subseteq 1..r
  BY <1>1, StoreIs, StoreOne
<1>3. Store(log, r) \in SUBSET (1..Len(log))
  <2>1. 1..r \subseteq 1..Len(log)
    BY <1>1
  <2> QED
    BY <1>2, <2>1
<1>4. Whole(r) \in Heard(Len(log), ids) /\ Msg("status", wire, {}, "live") \in Heard(Len(log), ids)
  BY <1>1, <1>2, <1>3, HeardMsg DEF Whole
<1>5. Whole(r).op = "snapshot" /\ Whole(r).id = wire /\ Whole(r).objects = Store(log, r)
  BY <1>2 DEF Whole, Msg
<1>6. Idle(wire, Msg("status", wire, {}, "live"))
  BY MsgIs DEF Idle
<1>7. ASSUME NEW i \in 1..r, NEW j \in Store(log, r), log[i].uid = log[j].uid
      PROVE  i <= j
  <2>1. j \in Int /\ i \in Int
    BY <1>2
  <2>2. i > j => i \in (j + 1)..r
    BY <2>1
  <2>3. ~ (i > j)
    BY <1>7, <2>2 DEF Store
  <2> QED
    BY <2>1, <2>3
<1> QED
  BY <1>2, <1>4, <1>5, <1>6, <1>7

\* An answer is a snapshot, and a status that changes nothing.
LEMMA AnswerTells ==
  ASSUME PartsInv, NEW d \in Seq(Heard(Len(log), ids)), wire # NoId, NEW r \in 0..Len(log)
  PROVE  Others(wire, Append(d, Whole(r)), d \o Answer(wire, r))
<1> DEFINE X == Heard(Len(log), ids)
           a == Whole(r)
           b == Msg("status", wire, {}, "live")
<1>1. a \in X /\ b \in X /\ Idle(wire, b)
  BY WholeIs
<1>2. d \in Seq(X)
  OBVIOUS
<1>3. a = Msg("snapshot", wire, StoreAt(r), "")
  BY DEF Whole
<1> HIDE DEF X
<1>4. d \o Answer(wire, r) = Append(Append(d, a), b)
  BY <1>1, <1>2, <1>3, AnswerIs
<1> HIDE DEF a, b
<1>5. Append(d, a) \in Seq(X)
  BY <1>1, <1>2
<1>6. Others(wire, Append(d, a), Append(Append(d, a), b))
  BY <1>1, <1>5, OthersOne
<1> QED
  BY <1>4, <1>6 DEF a

LEMMA ListedTells ==
  ASSUME IInv, TypeInv, NEW w \in DOMAIN watchers, WatcherListed(w)
  PROVE  IF Serving \in Listening(w, "waiting") THEN Told(wire, down, Whole(Len(log)), down')
                                                ELSE Others(wire, down, down')
<1> DEFINE S == Listening(w, "waiting")
           messages == [k \in S |-> Answer(served[k].id, Len(log))]
           X == Heard(Len(log), ids)
<1>1. /\ PartsInv /\ TablesInv /\ Len(served) \in Nat /\ DOMAIN served = 1..Len(served)
      /\ served \in Seq(Served) /\ Len(log) \in Nat /\ Len(log) \in 0..Len(log) /\ ids \in Nat
  <2>1. /\ PartsInv /\ TablesInv /\ Len(served) \in Nat /\ DOMAIN served = 1..Len(served)
        /\ served \in Seq(Served) /\ Len(log) \in Nat /\ ids \in Nat
    BY Basics DEF IInv, TypeInv, PartsInv
  <2> QED
    BY <2>1
<1>2. Sends(S, messages)
  BY DEF WatcherListed
<1>3. down \in Seq(X)
  BY DEF TypeInv, HeardInv
<1>4. \A k \in S : k \in DOMAIN served /\ Live(served[k])
  BY DEF Listening, Live
<1>5. ASSUME NEW k \in S
      PROVE  /\ messages[k] = Answer(served[k].id, Len(log)) /\ messages[k] \in Seq(X)
             /\ \A n \in DOMAIN messages[k] : messages[k][n].id = served[k].id
  <2>1. served[k].id \in 1..ids
    <3>1. served[k] \in Served /\ served[k].id <= ids
      BY <1>1, <1>4 DEF TablesInv
    <3> QED
      BY <1>1, <3>1 DEF Served, Ids
  <2>2. StoreAt(Len(log)) \in SUBSET (1..Len(log))
    BY DEF StoreAt
  <2>3. /\ Msg("snapshot", served[k].id, StoreAt(Len(log)), "") \in X
        /\ Msg("status", served[k].id, {}, "live") \in X
    BY <1>1, <2>1, <2>2, HeardMsg
  <2> HIDE DEF X
  <2>4. /\ Answer(served[k].id, Len(log)) \in Seq(X)
        /\ \A n \in DOMAIN Answer(served[k].id, Len(log)) :
             Answer(served[k].id, Len(log))[n].id = served[k].id
    BY <1>3, <2>3, AnswerIs
  <2>5. messages[k] = Answer(served[k].id, Len(log))
    OBVIOUS
  <2> HIDE DEF messages
  <2> QED
    BY <2>4, <2>5
<1> HIDE DEF X, messages
<1>6. IdleBut(S, messages, Serving, wire)
  BY <1>4, <1>5, ServingIs DEF Idle, IdleBut
<1>70. Reached(S, messages, Serving, wire, X, down, down')
  <2>1. S \subseteq 1..Len(served) /\ AllIn(S, messages, X)
    BY <1>1, <1>4, <1>5 DEF AllIn
  <2>2. Len(served) \in Nat
    BY <1>1
  <2> HIDE DEF S
  <2> QED
    BY ONLY <1>2, <1>3, <1>6, <2>1, <2>2, SendsOurs
<1>7. IF Serving \in S /\ Reaches(Serving)
        THEN \E d \in Seq(X) : Others(wire, down, d) /\ Others(wire, d \o messages[Serving], down')
        ELSE Others(wire, down, down')
  <2> HIDE DEF S
  <2> QED
    BY <1>70 DEF Reached
<1>8. ASSUME Serving \in S
      PROVE  Told(wire, down, Whole(Len(log)), down')
  <2>1. Serving \in DOMAIN served /\ Live(served[Serving]) /\ Reaches(Serving) /\ Serving # 0
    BY <1>1, <1>4, <1>8, ServingIs
  <2>2. served[Serving].id = wire /\ wire # NoId
    BY <2>1, ServingIs
  <2>3. PICK d \in Seq(X) : Others(wire, down, d) /\ Others(wire, d \o Answer(wire, Len(log)), down')
    BY <1>5, <1>7, <1>8, <2>1, <2>2
  <2>4. Others(wire, Append(d, Whole(Len(log))), d \o Answer(wire, Len(log)))
    BY <1>1, <2>2, AnswerTells DEF X
  <2>5. Others(wire, Append(d, Whole(Len(log))), down')
    BY <2>3, <2>4, OthersAgain
  <2> QED
    BY <2>3, <2>5 DEF Told, X
<1> QED
  BY <1>7, <1>8

LEMMA EventsTell ==
  ASSUME IInv, TypeInv, NEW w, NEW batch \in SUBSET (1..Len(log)), batch # {}, NEW q, NEW life,
         Emits(w, batch, q, life)
  PROVE  /\ Serving \in Listening(w, "in") => Msg("events", wire, batch, "") \in Heard(Len(log), ids)
         /\ IF Serving \in Listening(w, "in") THEN Told(wire, down, Msg("events", wire, batch, ""), down')
                                              ELSE Others(wire, down, down')
<1> DEFINE S == Listening(w, "in")
           m(k) == Msg("events", served[k].id, batch, "")
           messages == [k \in S |-> <<Msg("events", served[k].id, batch, "")>>]
           X == Heard(Len(log), ids)
<1>1. /\ PartsInv /\ TablesInv /\ Len(served) \in Nat /\ DOMAIN served = 1..Len(served)
      /\ served \in Seq(Served) /\ Len(log) \in Nat /\ ids \in Nat
  BY Basics DEF IInv, TypeInv, PartsInv
<1>2. Sends(S, messages)
  BY DEF Emits
<1>3. down \in Seq(X)
  BY DEF TypeInv, HeardInv
<1>4. \A k \in S : k \in DOMAIN served /\ Live(served[k])
  BY DEF Listening, Live
<1>5. ASSUME NEW k \in S
      PROVE  /\ messages[k] = <<m(k)>> /\ messages[k] \in Seq(X) /\ m(k) \in X
             /\ \A n \in DOMAIN messages[k] : messages[k][n].id = served[k].id
  <2>1. served[k].id \in 1..ids
    <3>1. served[k] \in Served /\ served[k].id <= ids
      BY <1>1, <1>4 DEF TablesInv
    <3> QED
      BY <1>1, <3>1 DEF Served, Ids
  <2>2. m(k) \in X
    BY <1>1, <2>1, HeardMsg
  <2>3. messages[k] = <<m(k)>>
    OBVIOUS
  <2>4. m(k).id = served[k].id
    BY DEF Msg
  <2> HIDE DEF X, m, messages
  <2>5. <<m(k)>> \in Seq(X) /\ DOMAIN <<m(k)>> = {1} /\ <<m(k)>>[1] = m(k)
    BY <1>3, <2>2, TwoAre
  <2> QED
    BY <2>2, <2>3, <2>4, <2>5
<1> HIDE DEF X, messages, m
<1>6. IdleBut(S, messages, Serving, wire)
  BY <1>4, <1>5, ServingIs DEF Idle, IdleBut
<1>70. Reached(S, messages, Serving, wire, X, down, down')
  <2>1. S \subseteq 1..Len(served) /\ AllIn(S, messages, X)
    BY <1>1, <1>4, <1>5 DEF AllIn
  <2>2. Len(served) \in Nat
    BY <1>1
  <2> HIDE DEF S
  <2> QED
    BY ONLY <1>2, <1>3, <1>6, <2>1, <2>2, SendsOurs
<1>7. IF Serving \in S /\ Reaches(Serving)
        THEN \E d \in Seq(X) : Others(wire, down, d) /\ Others(wire, d \o messages[Serving], down')
        ELSE Others(wire, down, down')
  <2> HIDE DEF S
  <2> QED
    BY <1>70 DEF Reached
<1>8. ASSUME Serving \in S
      PROVE  m(Serving) \in X /\ Told(wire, down, m(Serving), down') /\ served[Serving].id = wire
  <2>1. Serving \in DOMAIN served /\ Live(served[Serving]) /\ Reaches(Serving) /\ Serving # 0
    BY <1>1, <1>4, <1>8, ServingIs
  <2>2. served[Serving].id = wire
    BY <2>1, ServingIs
  <2>3. PICK d \in Seq(X) : Others(wire, down, d) /\ Others(wire, d \o <<m(Serving)>>, down')
    BY <1>5, <1>7, <1>8, <2>1
  <2>4. d \o <<m(Serving)>> = Append(d, m(Serving))
    BY <1>5, <1>8, TwoAre
  <2> QED
    BY <1>5, <1>8, <2>2, <2>3, <2>4 DEF Told, X
<1> QED
  BY <1>7, <1>8 DEF m, X

LEMMA RejectsTell ==
  ASSUME IInv, TypeInv, NEW w, WatcherRejects(w)
  PROVE  Others(wire, down, down')
<1> DEFINE S == Listening(w, "waiting") \cup Listening(w, "cancelled")
           m(k) == Msg("status", served[k].id, {}, "error")
           messages == [k \in S |-> <<Msg("status", served[k].id, {}, "error")>>]
           X == Heard(Len(log), ids)
<1>1. /\ PartsInv /\ TablesInv /\ Len(served) \in Nat /\ DOMAIN served = 1..Len(served)
      /\ served \in Seq(Served) /\ Len(log) \in Nat /\ ids \in Nat
  BY Basics DEF IInv, TypeInv, PartsInv
<1>2. Sends(S, messages)
  BY DEF WatcherRejects
<1>3. down \in Seq(X)
  BY DEF TypeInv, HeardInv
<1>4. \A k \in S : k \in DOMAIN served
  BY DEF Listening
<1>5. ASSUME NEW k \in S
      PROVE  /\ messages[k] \in Seq(X)
             /\ \A n \in DOMAIN messages[k] : Idle(wire, messages[k][n])
  <2>1. served[k].id \in 1..ids
    <3>1. served[k] \in Served /\ served[k].id <= ids
      BY <1>1, <1>4 DEF TablesInv
    <3> QED
      BY <1>1, <3>1 DEF Served, Ids
  <2>2. m(k) \in X
    <3>1. {} \in SUBSET (1..Len(log))
      OBVIOUS
    <3> QED
      BY <1>1, <2>1, <3>1, HeardMsg
  <2>3. messages[k] = <<m(k)>>
    OBVIOUS
  <2>4. Idle(wire, m(k))
    BY DEF Idle, Msg
  <2> HIDE DEF X, m, messages
  <2>5. <<m(k)>> \in Seq(X) /\ DOMAIN <<m(k)>> = {1} /\ <<m(k)>>[1] = m(k)
    BY <1>3, <2>2, TwoAre
  <2> QED
    BY <2>3, <2>4, <2>5
<1> HIDE DEF X, messages, m
<1>6. 0 \notin S
  BY <1>1, <1>4
<1>7. S \subseteq 1..Len(served) /\ AllIn(S, messages, X) /\ Len(served) \in Nat
  BY <1>1, <1>4, <1>5 DEF AllIn
<1> HIDE DEF S
<1>8. IdleBut(S, messages, 0, wire)
  BY <1>5 DEF IdleBut
<1>9. Reached(S, messages, 0, wire, X, down, down')
  BY ONLY <1>2, <1>3, <1>7, <1>8, SendsOurs
<1> QED
  BY <1>6, <1>9 DEF Reached

-----------------------------------------------------------------------------
(* What the steps leave alone                                              *)

ShowsStay ==
  /\ Len(watchers') = Len(watchers)
  /\ \A v \in DOMAIN watchers : watchers'[v].shows = watchers[v].shows

\* The subscription is served by the watcher it was served by, or not at all.
StaysServed ==
  /\ ShowsStay /\ ServedStay /\ wire' = wire
  /\ \A i \in Ids : byId'[i] \in {0, byId[i]}

LEMMA StaysServedSame ==
  ASSUME IInv, wire' = wire, served' = served, byId' = byId, ShowsStay
  PROVE  StaysServed
<1>1. byId \in [Ids -> Nat]
  BY Basics DEF IInv
<1> QED
  BY <1>1, ServedStaySame DEF StaysServed

LEMMA StaysServedNext ==
  ASSUME IInv,
         \/ ApiWrite \/ SubscribeAgain \/ Leave \/ Reconnect \/ Opens \/ Closes \/ ClosesLate
         \/ Breaks \/ Receive \/ Flush \/ HandleUnsub \/ HandleNotConnected
         \/ (\E w \in DOMAIN watchers : WatcherRejects(w) \/ WatchEnds(w))
         \/ LingerStops \/ SessionEnds \/ SessionStarts \/ SessionReady \/ UNCHANGED vars
  PROVE  StaysServed
<1> USE DEF sessions, sockets, ui, clientVars
<1>0. /\ served \in Seq(Served) /\ byId \in [Ids -> Nat] /\ watchers \in Seq(Watcher)
      /\ (watchers' = watchers => ShowsStay)
      /\ \A i \in Ids : byId[i] \in {0, byId[i]}
  BY Basics DEF IInv, ShowsStay
<1> DEFINE Still == UNCHANGED <<watchers, served, byId, wire>>
<1>1. Still => StaysServed
  BY <1>0, StaysServedSame
<1>2. ApiWrite \/ SubscribeAgain \/ Leave \/ UNCHANGED vars => Still
  BY DEF ApiWrite, SubscribeAgain, Leave, vars
<1>3. Reconnect \/ Opens \/ Closes \/ ClosesLate \/ Flush => Still
  BY DEF Reconnect, Opens, Closes, ClosesLate, Flush
<1>4. Receive => Still
  BY DEF Receive, ReceiveUnknown, ReceiveSnapshot, ReceiveEvents, ReceiveStatus, ReceiveReset
<1>5. HandleNotConnected \/ SessionStarts \/ SessionReady => Still
  BY DEF HandleNotConnected, SessionStarts, SessionReady
<1>6. CASE Breaks
  <2>1. /\ UNCHANGED <<watchers, wire>> /\ byId' = [i \in Ids |-> 0]
        /\ served' = [k \in DOMAIN served |->
                        IF k \in Range(byId) THEN Stopped(served[k]) ELSE served[k]]
    BY <1>6 DEF Breaks
  <2>2. ServedStay
    BY <1>0, <2>1, ServedStayWhere
  <2> QED
    BY <1>0, <2>1, <2>2 DEF StaysServed
<1>7. CASE HandleUnsub
  <2> DEFINE b == byId[Head(up).id]
  <2>1. /\ UNCHANGED <<watchers, wire>> /\ byId' = [byId EXCEPT ![Head(up).id] = 0]
        /\ served' = [k \in DOMAIN served |-> IF k = b THEN Stopped(served[k]) ELSE served[k]]
    BY <1>7 DEF HandleUnsub
  <2>2. served' = [k \in DOMAIN served |-> IF k \in {b} THEN Stopped(served[k]) ELSE served[k]]
    BY <2>1
  <2>3. ServedStay
    BY <1>0, <2>2, ServedStayWhere
  <2>4. \A i \in Ids : byId'[i] \in {0, byId[i]}
    BY <1>0, <2>1
  <2> QED
    BY <1>0, <2>1, <2>3, <2>4 DEF StaysServed
<1>8. ASSUME NEW w \in DOMAIN watchers, WatcherRejects(w)
      PROVE  StaysServed
  <2> DEFINE S == Listening(w, "waiting") \cup Listening(w, "cancelled")
  <2>1. /\ watchers' = watchers \/ watchers' = [watchers EXCEPT ![w].life = "stopped"]
        /\ served' = [k \in DOMAIN served |->
                        IF k \in S THEN [served[k] EXCEPT !.st = "stopped"] ELSE served[k]]
        /\ (\A i \in Ids : byId'[i] \in {0, byId[i]}) /\ wire' = wire
    BY <1>8 DEF WatcherRejects
  <2> HIDE DEF S
  <2>2. ServedStay
    BY <1>0, <2>1, ServedStayWhere
  <2>3. ShowsStay
    BY <1>0, <2>1, LifeOnly DEF ShowsStay
  <2> QED
    BY <2>1, <2>2, <2>3 DEF StaysServed
<1>9. ASSUME NEW w \in DOMAIN watchers, WatchEnds(w)
      PROVE  StaysServed
  <2>1. /\ UNCHANGED <<byId, served, wire>>
        /\ \E life : watchers' = [watchers EXCEPT ![w].life = life]
    BY <1>9 DEF WatchEnds
  <2>2. ShowsStay
    BY <1>0, <2>1, LifeOnly DEF ShowsStay
  <2> QED
    BY <2>1, <2>2, StaysServedSame
<1>10. CASE LingerStops \/ SessionEnds
  <2>1. StopCurrent /\ UNCHANGED <<byId, served, wire>>
    BY <1>10 DEF LingerStops, SessionEnds
  <2>2. ShowsStay
    BY <2>1, StopShows DEF ShowsStay, IInv
  <2> QED
    BY <2>1, <2>2, StaysServedSame
<1> HIDE DEF Still
<1> QED
  BY <1>1, <1>2, <1>3, <1>4, <1>5, <1>6, <1>7, <1>8, <1>9, <1>10

\* A subscription that is served then is served now, by the same watcher, which
\* shows the same.
LEMMA StaysServedIs ==
  ASSUME IInv, TypeInv, StaysServed, Serving' # 0
  PROVE  /\ Serving' = Serving /\ Serving \in DOMAIN served
         /\ served'[Serving'].watcher = served[Serving].watcher
         /\ watchers'[served'[Serving'].watcher].shows = watchers[served[Serving].watcher].shows
<1>1. wire' # NoId /\ Serving' = byId'[wire'] /\ wire' = wire
  BY DEF Serving, StaysServed
<1>2. wire \in Ids
  BY <1>1, Basics DEF IInv
<1>3. Serving' = Serving
  BY <1>1, <1>2 DEF Serving, StaysServed
<1>4. Serving \in DOMAIN served
  BY <1>3, ServingIs
<1>5. served'[Serving'].watcher = served[Serving].watcher
  BY <1>3, <1>4 DEF StaysServed, ServedStay
<1>6. served[Serving].watcher \in DOMAIN watchers
  BY <1>4 DEF IInv, ServedInv
<1> QED
  BY <1>3, <1>4, <1>5, <1>6 DEF StaysServed, ShowsStay

\* An id that is new, or gone.
LEMMA WireMoves ==
  ASSUME IInv, TypeInv, SubscribeNew \/ Teardown
  PROVE  /\ Serving' = 0 /\ cache' = {} /\ pending' = <<>> /\ down' = down
         /\ UNCHANGED <<log, watchers>>
         /\ \A n \in DOMAIN down : Mine(wire', down[n]) = {}
<1>0. PartsInv /\ TablesInv /\ down \in Seq(Heard(Len(log), ids)) /\ ids \in Nat
  BY DEF IInv, TypeInv, HeardInv, PartsInv
<1>1. \A n \in DOMAIN down : down[n].id \in 0..ids /\ (down[n].id = NoId => down[n].objects = {})
  <2> DEFINE X == Heard(Len(log), ids)
  <2>1. \A m \in X : m.id \in 0..ids /\ (m.id = NoId => m.objects = {})
    BY DEF Heard
  <2>2. down \in Seq(X)
    BY <1>0
  <2> HIDE DEF X
  <2> QED
    BY <2>1, <2>2
<1>2. CASE SubscribeNew
  <2>1. /\ cache' = {} /\ pending' = <<>> /\ wire' = ids + 1 /\ ids < MaxIds
        /\ UNCHANGED <<log, watchers, down, byId>>
    BY <1>2 DEF SubscribeNew, NoRows, serverVars, sockets
  <2>2. ids + 1 \in Ids /\ ids + 1 # NoId
    BY <1>0, <2>1 DEF Ids, NoId
  <2>3. byId[ids + 1] = 0
    <3>1. byId[ids + 1] # 0 => byId[ids + 1] \in DOMAIN served /\ served[byId[ids + 1]].id = ids + 1
      BY <1>0, <2>2 DEF TablesInv
    <3>2. \A k \in DOMAIN served : served[k].id <= ids
      BY <1>0 DEF TablesInv
    <3>3. ~ (ids + 1 <= ids)
      BY <1>0
    <3> QED
      BY <3>1, <3>2, <3>3
  <2>4. Serving' = 0
    BY <2>1, <2>3 DEF Serving
  <2>5. \A n \in DOMAIN down : down[n].id # wire'
    BY <1>0, <1>1, <2>1
  <2> QED
    BY <2>1, <2>4, <2>5 DEF Mine
<1>3. CASE Teardown
  <2>1. cache' = {} /\ pending' = <<>> /\ wire' = NoId /\ UNCHANGED <<log, watchers, down>>
    BY <1>3 DEF Teardown, NoRows, serverVars
  <2> QED
    BY <1>1, <2>1 DEF Serving, Mine
<1> QED
  BY <1>2, <1>3

-----------------------------------------------------------------------------
(* A subscription is accepted                                              *)

\* The socket's watcher is ready.
Ready == current # 0 /\ watchers[current].shows # 0

LEMMA AcceptsIs ==
  ASSUME IInv, IInv', TypeInv, HandleSub
  PROVE  /\ UNCHANGED <<log, ids, wire, cache, pending>> /\ up # <<>> /\ up' = Tail(up)
         /\ IF current = 0
              THEN Len(watchers') = Len(watchers) + 1 /\ watchers'[Len(watchers')].shows = 0
              ELSE watchers' = watchers /\ current = Len(watchers) /\ current \in DOMAIN watchers
         /\ IF Head(up).id = wire
              THEN /\ wire # NoId /\ Serving' = Len(served) + 1
                   /\ served'[Serving'].watcher = Len(watchers')
                   /\ served'[Serving'].st = (IF Ready THEN "in" ELSE "waiting")
              ELSE Serving' = 0
         /\ IF Ready /\ Head(up).id = wire
              THEN Told(wire, down, Whole(watchers[current].shows), down')
              ELSE Others(wire, down, down')
<1> DEFINE id == Head(up).id
           w == IF current = 0 THEN Len(watchers) + 1 ELSE current
           fresh == [life |-> "running", shows |-> 0]
           n == Len(served) + 1
           st == IF Ready THEN "in" ELSE "waiting"
           x == [id |-> id, watcher |-> w, conn |-> conn, st |-> st]
<1>1. /\ Request("sub") /\ UNCHANGED <<log, ids, wire, cache, pending>> /\ byId[id] = 0
      /\ watchers' = (IF current # 0 THEN watchers ELSE Append(watchers, fresh))
      /\ byId' = [byId EXCEPT ![id] = n] /\ served' = Append(served, x)
      /\ down' = IF Ready THEN down \o Answer(id, watchers[w].shows) ELSE down
  BY DEF HandleSub, Ready, serverVars, clientVars, link, ui, rows
<1>12. PartsInv /\ OrderInv /\ TablesInv
  BY DEF IInv, TypeInv
<1>13. ids \in Nat /\ current \in {0, Len(watchers)}
  BY <1>12 DEF PartsInv
<1>2. /\ served \in Seq(Served) /\ byId \in [Ids -> Nat] /\ up \in Seq(Requests)
      /\ watchers \in Seq(Watcher) /\ Len(watchers) \in Nat /\ DOMAIN watchers = 1..Len(watchers)
      /\ Len(served) \in Nat /\ DOMAIN served = 1..Len(served)
      /\ Len(log) \in Nat
  BY <1>12, Basics
<1>3. up # <<>> /\ up' = Tail(up)
  BY <1>1 DEF Request
<1>4. 1 \in DOMAIN up /\ up[1] = Head(up) /\ id \in Ids /\ id <= ids
  <2>1. 1 \in DOMAIN up /\ up[1] = Head(up) /\ Head(up) \in Requests
    BY <1>2, <1>3, TailIs
  <2> QED
    BY <1>12, <2>1, RequestIs DEF OrderInv, InOrder
<1>5. x.watcher = w /\ x.st = st
  OBVIOUS
<1>6. fresh \in Watcher /\ fresh.shows = 0
  BY DEF Watcher
<1>7. x \in Served
  <2>1. served' \in Seq(Served)
    BY DEF IInv, PartsInv
  <2>2. served'[Len(served')] = x /\ Len(served') \in DOMAIN served'
    <3> HIDE DEF x
    <3> QED
      BY <1>1, <1>2
  <2> QED
    BY <2>1, <2>2
<1>8. served'[n] = x
  <2>1. served \in Seq(Served) /\ served' = Append(served, x)
    BY <1>1, <1>2
  <2> HIDE DEF x
  <2>2. Append(served, x)[Len(served) + 1] = x
    BY <1>7, <2>1, AppendIs
  <2> QED
    BY <2>1, <2>2
<1> HIDE DEF x, fresh, id, st, w
<1>9. /\ IF current = 0
           THEN Len(watchers') = Len(watchers) + 1 /\ watchers'[Len(watchers')].shows = 0
           ELSE watchers' = watchers /\ current = Len(watchers) /\ current \in DOMAIN watchers
      /\ w = Len(watchers')
  <2>1. CASE current = 0
    <3>1. watchers' = Append(watchers, fresh)
      BY <1>1, <2>1
    <3>2. watchers \in Seq(Watcher)
      BY <1>2
    <3>3. Len(watchers') = Len(watchers) + 1 /\ watchers'[Len(watchers) + 1] = fresh
      BY <1>6, <3>1, <3>2, AppendIs
    <3> QED
      BY <1>6, <2>1, <3>3 DEF w
  <2>2. CASE current # 0
    <3>1. watchers' = watchers /\ current = Len(watchers) /\ w = current
      BY <1>1, <1>13, <2>2 DEF w
    <3>2. current \in DOMAIN watchers
      BY <1>2, <2>2, <3>1
    <3> QED
      BY <2>2, <3>1, <3>2
  <2> QED
    BY <2>1, <2>2
<1>10. CASE id = wire
  <2>1. wire # NoId
    BY <1>4, <1>10, <1>12, Basics
  <2>2. Serving' = n
    BY <1>1, <1>2, <1>4, <1>10, <2>1 DEF Serving
  <2>3. ASSUME Ready
        PROVE  Told(wire, down, Whole(watchers[current].shows), down')
    <3>1. current = w /\ current \in DOMAIN watchers
      BY <1>9, <2>3 DEF Ready, w
    <3>2. watchers[current].shows \in 0..Len(log)
      <4>1. watchers[current] \in Watcher /\ watchers[current].shows <= Len(log)
        BY <1>2, <1>12, <3>1 DEF TablesInv
      <4>2. watchers[current].shows \in Nat /\ Len(log) \in Nat
        BY <1>2, <4>1 DEF Watcher
      <4> QED
        BY <4>1, <4>2
    <3>3. down' = down \o Answer(wire, watchers[current].shows)
      BY <1>1, <1>10, <2>3, <3>1
    <3>4. HeardInv /\ down \in Seq(Heard(Len(log), ids))
      BY DEF TypeInv, HeardInv
    <3>5. Others(wire, Append(down, Whole(watchers[current].shows)), down')
      BY <1>12, <2>1, <3>2, <3>3, <3>4, AnswerTells
    <3> QED
      BY <3>4, <3>5, ToldOne
  <2>4. ~Ready => Others(wire, down, down')
    BY <1>1, OthersNone
  <2> QED
    BY <1>1, <1>3, <1>5, <1>8, <1>9, <1>10, <2>1, <2>2, <2>3, <2>4 DEF id, st
<1>11. CASE id # wire
  <2>1. Serving' = 0
    <3>1. CASE wire = NoId
      BY <1>1, <3>1 DEF Serving
    <3>2. CASE wire # NoId
      <4>1. wire \in Ids /\ wire = ids
        BY <1>12, <3>2, Basics DEF OrderInv
      <4>2. Serving' = byId[wire]
        BY <1>1, <1>2, <1>4, <1>11, <3>2, <4>1 DEF Serving
      <4>3. byId[wire] # 0 => wire <= up[1].id
        BY <1>4, <1>12, <4>1 DEF OrderInv, InOrder
      <4>4. byId[wire] = 0
        <5>1. up[1].id = id /\ id # ids /\ id \in Nat /\ ids \in Nat
          BY <1>4, <1>11, <1>13, <4>1 DEF id, Ids
        <5>2. ~ (ids <= id)
          BY <1>4, <5>1
        <5> QED
          BY <4>1, <4>3, <5>1, <5>2
      <4> QED
        BY <4>2, <4>4
    <3> QED
      BY <3>1, <3>2
  <2>2. Others(wire, down, down')
    <3>1. CASE ~Ready
      BY <1>1, <3>1, OthersNone
    <3>2. CASE Ready
      <4>1. current = w /\ current \in DOMAIN watchers
        BY <1>9, <3>2 DEF Ready, w
      <4>2. watchers[current].shows \in 0..Len(log)
        <5>1. watchers[current] \in Watcher /\ watchers[current].shows <= Len(log)
          BY <1>2, <1>12, <4>1 DEF TablesInv
        <5>2. watchers[current].shows \in Nat /\ Len(log) \in Nat
          BY <1>2, <5>1 DEF Watcher
        <5> QED
          BY <5>1, <5>2
      <4> DEFINE r == watchers[current].shows
                 X == Heard(Len(log), ids)
      <4>3. StoreAt(r) \in SUBSET (1..Len(log)) /\ id \in 1..ids
        <5>1. StoreAt(r) \subseteq 1..r
          BY DEF StoreAt
        <5>2. 1..r \subseteq 1..Len(log)
          <6>1. r \in 0..Len(log) /\ Len(log) \in Nat
            BY <1>2, <4>2
          <6> HIDE DEF r
          <6> QED
            BY <6>1
        <5>3. id \in 1..ids
          BY <1>4, <1>13 DEF Ids
        <5> QED
          BY <5>1, <5>2, <5>3
      <4>4. Msg("snapshot", id, StoreAt(r), "") \in X /\ Msg("status", id, {}, "live") \in X
        BY <1>2, <1>13, <4>3, HeardMsg
      <4>5. down \in Seq(X)
        BY DEF TypeInv, HeardInv
      <4> HIDE DEF X, r
      <4>6. Answer(id, r) \in Seq(X) /\ \A k \in DOMAIN Answer(id, r) : Answer(id, r)[k].id = id
        BY <4>4, <4>5, AnswerIs
      <4>7. \A k \in DOMAIN Answer(id, r) : Idle(wire, Answer(id, r)[k])
        BY <1>11, <4>6 DEF Idle
      <4>8. down' = down \o Answer(id, r)
        BY <1>1, <3>2, <4>1 DEF r
      <4>9. Others(wire, down, down \o Answer(id, r))
        BY <4>5, <4>6, <4>7, OthersMany
      <4> QED
        BY <4>8, <4>9
    <3> QED
      BY <3>1, <3>2
  <2> QED
    BY <1>1, <1>3, <1>9, <1>11, <2>1, <2>2 DEF id
<1> QED
  BY <1>10, <1>11

-----------------------------------------------------------------------------
(* Rows, batches and messages are of versions that go up                   *)

ChainInv == Chain(log, wire, cache, pending, down)

\* The newest watcher serves, and nothing that is under way is newer than what it
\* shows.
BoundInv ==
  /\ Serving # 0 => served[Serving].watcher = Len(watchers)
  /\ Len(watchers) # 0 /\ watchers[Len(watchers)].shows # 0
       => AllBelow(wire, cache, pending, down, watchers[Len(watchers)].shows)

\* Nothing newer comes to the browser.
NothingNew ==
  /\ Chain(log, wire, cache, pending, down) => Chain(log', wire', cache', pending', down')
  /\ \A v : AllBelow(wire, cache, pending, down, v) => AllBelow(wire', cache', pending', down', v)

LEMMA NothingNewInv ==
  ASSUME IInv, TypeInv, ChainInv, BoundInv, StaysServed, NothingNew
  PROVE  ChainInv' /\ BoundInv'
<1>1. ChainInv'
  BY DEF ChainInv, NothingNew
<1>2. Serving' # 0 => served'[Serving'].watcher = Len(watchers')
  BY StaysServedIs DEF BoundInv, StaysServed, ShowsStay
<1>3. ASSUME Len(watchers') # 0, watchers'[Len(watchers')].shows # 0
      PROVE  AllBelow(wire', cache', pending', down', watchers'[Len(watchers')].shows)
  <2>1. Len(watchers) \in Nat /\ DOMAIN watchers = 1..Len(watchers)
    BY Basics DEF IInv
  <2>2. Len(watchers') = Len(watchers)
    BY DEF StaysServed, ShowsStay
  <2>3. Len(watchers) \in DOMAIN watchers
    BY <1>3, <2>1, <2>2
  <2>4. watchers'[Len(watchers')].shows = watchers[Len(watchers)].shows
    BY <2>2, <2>3 DEF StaysServed, ShowsStay
  <2>5. AllBelow(wire, cache, pending, down, watchers[Len(watchers)].shows)
    BY <1>3, <2>2, <2>4 DEF BoundInv
  <2> QED
    BY <2>4, <2>5 DEF NothingNew
<1> QED
  BY <1>1, <1>2, <1>3 DEF BoundInv

LEMMA NothingNewOthers ==
  ASSUME UNCHANGED <<log, wire, cache, pending>>, Others(wire, down, down')
  PROVE  NothingNew
  BY ChainOthers DEF NothingNew

\* All there is comes from the history.
LEMMA BelowAll ==
  ASSUME NEW v, NEW i, NEW w, NEW c \in SUBSET (1..v), NEW p \in Seq(SUBSET (1..v)),
         NEW d \in Seq(Heard(v, i))
  PROVE  AllBelow(w, c, p, d, v)
<1> DEFINE V == 1..v
           X == Heard(v, i)
           Y == SUBSET V
<1>1. c \subseteq V /\ p \in Seq(Y) /\ d \in Seq(X)
  OBVIOUS
<1>2. \A m \in X : Mine(w, m) \subseteq V
  BY DEF Heard, Mine
<1> HIDE DEF X
<1>3. \A n \in DOMAIN d : Mine(w, d[n]) \subseteq V
  BY <1>1, <1>2
<1> HIDE DEF Y
<1>4. \A n \in DOMAIN p : p[n] \in Y
  BY <1>1
<1> QED
  BY <1>1, <1>3, <1>4 DEF AllBelow, Below, Y

LEMMA BelowLog ==
  ASSUME TypeInv
  PROVE  AllBelow(wire, cache, pending, down, Len(log))
  BY BelowAll DEF TypeInv, RowsInv, HeardInv

LEMMA BelowLogNext ==
  ASSUME TypeInv'
  PROVE  AllBelow(wire', cache', pending', down', Len(log'))
  BY BelowAll DEF TypeInv, RowsInv, HeardInv

LEMMA BrowserNothingNew ==
  ASSUME IInv, TypeInv,
         Receive \/ Flush \/ Breaks \/ HandleNotConnected \/ SessionEnds \/ SessionReady
  PROVE  NothingNew
<1> USE DEF serverVars, rows, ui, clientVars
<1> DEFINE X == Heard(Len(log), ids)
           Y == SUBSET (1..Len(log))
<1>1. /\ down \in Seq(X) /\ pending \in Seq(Y) /\ up \in Seq(Requests)
      /\ \A m \in X : m.objects \in Y
  BY DEF TypeInv, HeardInv, RowsInv, IInv, PartsInv, Heard
<1>2. (1..Len(log)) \in SUBSET Int
  OBVIOUS
<1> HIDE DEF X, Y
<1>3. CASE Receive
  <2>1. /\ down # <<>> /\ down' = Tail(down) /\ UNCHANGED <<log, wire>>
    BY <1>3 DEF Receive, ReceiveUnknown, ReceiveSnapshot, ReceiveEvents, ReceiveStatus, ReceiveReset, Incoming
  <2>2. CASE ReceiveUnknown \/ ReceiveStatus
    <3>1. UNCHANGED <<cache, pending>>
      BY <2>2 DEF ReceiveUnknown, ReceiveStatus
    <3> QED
      BY <1>1, <2>1, <3>1, ChainLess DEF NothingNew
  <2>3. CASE ReceiveReset
    <3>1. cache' = cache /\ (pending' = pending \/ pending' = <<>>)
      BY <2>3 DEF ReceiveReset
    <3>2. CASE pending' = pending
      BY <1>1, <2>1, <3>1, <3>2, ChainLess DEF NothingNew
    <3>3. CASE pending' = <<>>
      <4>1. /\ Chain(log, wire, cache, pending, down) => Chain(log, wire, cache, pending, down')
            /\ \A v : AllBelow(wire, cache, pending, down, v) => AllBelow(wire, cache, pending, down', v)
        BY <1>1, <2>1, ChainLess
      <4>2. /\ Chain(log, wire, cache, pending, down') => Chain(log, wire, cache, pending', down')
            /\ \A v : AllBelow(wire, cache, pending, down', v) => AllBelow(wire, cache, pending', down', v)
        BY <3>3, ChainForgets
      <4> QED
        BY <2>1, <3>1, <4>1, <4>2 DEF NothingNew
    <3> QED
      BY <3>1, <3>2, <3>3
  <2>4. CASE ReceiveSnapshot
    <3>1. /\ pending' = pending /\ cache' = Head(down).objects
          /\ Head(down).id = wire /\ Head(down).op = "snapshot"
      BY <2>4 DEF ReceiveSnapshot, Incoming
    <3> QED
      BY <1>1, <2>1, <3>1, ChainSnapshot DEF NothingNew
  <2>5. CASE ReceiveEvents
    <3>1. /\ pending' = Append(pending, Head(down).objects) /\ cache' = cache /\ Head(down).id = wire
      BY <2>5 DEF ReceiveEvents
    <3>2. Head(down).objects \in Y
      <4>1. Head(down) \in X
        BY <1>1, <2>1
      <4> QED
        BY <1>1, <4>1
    <3> QED
      BY <1>1, <2>1, <3>1, <3>2, ChainEvents DEF NothingNew
  <2> QED
    BY <1>3, <2>2, <2>3, <2>4, <2>5 DEF Receive
<1>4. CASE Flush
  <2>1. /\ UNCHANGED <<log, wire, down>> /\ pending' = <<>> /\ cache' = Batches(log, cache, pending)
    BY <1>4, ApplyAllIs DEF Flush
  <2>2. pending \in Seq(SUBSET (1..Len(log)))
    BY <1>1 DEF Y
  <2>3. /\ Chain(log, wire, cache, pending, down) => Chain(log, wire, cache', pending', down)
        /\ \A v : AllBelow(wire, cache, pending, down, v) => AllBelow(wire, cache', pending', down, v)
    BY <1>2, <2>1, <2>2, ChainFlush
  <2> QED
    BY <2>1, <2>3 DEF NothingNew
<1>5. CASE Breaks
  <2>1. UNCHANGED <<log, wire, cache, pending>> /\ down' = <<>>
    BY <1>5 DEF Breaks
  <2> QED
    BY <2>1, ChainLost DEF NothingNew
<1>6. CASE HandleNotConnected
  <2> DEFINE m == Msg("status", Head(up).id, {}, "error")
  <2>1. UNCHANGED <<log, wire, cache, pending>> /\ down' = Append(down, m)
    BY <1>6 DEF HandleNotConnected
  <2>2. Idle(wire, m)
    BY DEF Idle, Msg
  <2>3. m \in X
    <3>1. Len(log) \in Nat /\ ids \in Nat /\ {} \in SUBSET (1..Len(log))
      BY DEF IInv, PartsInv
    <3>2. up # <<>>
      BY <1>6 DEF HandleNotConnected, Request
    <3>3. 1 \in DOMAIN up /\ up[1] = Head(up) /\ Head(up) \in Requests
      BY <1>1, <3>2, TailIs
    <3>4. Head(up).id \in 1..ids
      <4>1. Head(up).id \in Ids /\ Head(up).id <= ids
        BY <3>3, RequestIs DEF TypeInv, OrderInv, InOrder
      <4> QED
        BY <3>1, <4>1 DEF Ids
    <3> QED
      BY <3>1, <3>4, HeardMsg DEF X
  <2> HIDE DEF m
  <2> QED
    BY <1>1, <2>1, <2>2, <2>3, OthersOne, NothingNewOthers
<1>7. CASE SessionEnds \/ SessionReady
  <2> DEFINE m == Msg("reset", NoId, {}, "")
  <2>1. UNCHANGED <<log, wire, cache, pending>> /\ (down' = down \/ down' = Append(down, m))
    BY <1>7 DEF SessionEnds, SessionReady, Broadcast
  <2>2. Idle(wire, m)
    BY DEF Idle, Msg
  <2>3. m \in X
    <3>1. ids \in Nat /\ 0 \in 0..ids
      BY DEF IInv, PartsInv
    <3> QED
      BY <3>1 DEF X, Heard, Msg, NoId
  <2> HIDE DEF m
  <2> QED
    BY <1>1, <2>1, <2>2, <2>3, OthersOne, OthersNone, NothingNewOthers
<1> QED
  BY <1>3, <1>4, <1>5, <1>6, <1>7

\* A write: what is held is about the history so far.
LEMMA WriteNothingNew ==
  ASSUME IInv, TypeInv, ApiWrite
  PROVE  NothingNew
<1>1. UNCHANGED <<wire, cache, pending, down>>
  BY DEF ApiWrite, clientVars, rows, ui
<1>2. Agree(1..Len(log), log, log')
  <2>1. [Next]_vars
    BY DEF Next
  <2> QED
    BY <2>1, Grows DEF IInv
<1>3. AllBelow(wire, cache, pending, down, Len(log))
  BY BelowLog
<1>4. Chain(log, wire, cache, pending, down) => Chain(log', wire, cache, pending, down)
  BY <1>2, <1>3, ChainGrows DEF AllBelow, Below
<1> QED
  BY <1>1, <1>4 DEF NothingNew

LEMMA AcceptsChain ==
  ASSUME IInv, IInv', TypeInv, ChainInv, BoundInv, HandleSub
  PROVE  ChainInv' /\ BoundInv'
<1>1. /\ UNCHANGED <<log, ids, wire, cache, pending>>
      /\ IF current = 0
           THEN Len(watchers') = Len(watchers) + 1 /\ watchers'[Len(watchers')].shows = 0
           ELSE watchers' = watchers /\ current = Len(watchers) /\ current \in DOMAIN watchers
      /\ IF Head(up).id = wire THEN wire # NoId /\ served'[Serving'].watcher = Len(watchers')
                               ELSE Serving' = 0
      /\ IF Ready /\ Head(up).id = wire
           THEN Told(wire, down, Whole(watchers[current].shows), down')
           ELSE Others(wire, down, down')
  BY AcceptsIs
<1>2. Serving' # 0 => served'[Serving'].watcher = Len(watchers')
  BY <1>1
<1>3. CASE ~ (Ready /\ Head(up).id = wire)
  <2>1. NothingNew
    BY <1>1, <1>3, NothingNewOthers
  <2>2. ASSUME Len(watchers') # 0, watchers'[Len(watchers')].shows # 0
        PROVE  AllBelow(wire', cache', pending', down', watchers'[Len(watchers')].shows)
    BY <1>1, <2>1, <2>2 DEF NothingNew, BoundInv
  <2> QED
    BY <1>2, <2>1, <2>2 DEF NothingNew, ChainInv, BoundInv
<1>4. CASE Ready /\ Head(up).id = wire
  <2> DEFINE r == watchers[current].shows
             m == Whole(r)
  <2>1. /\ current # 0 /\ r # 0 /\ watchers' = watchers /\ current = Len(watchers)
        /\ current \in DOMAIN watchers /\ wire # NoId /\ Told(wire, down, m, down')
    BY <1>1, <1>4 DEF Ready
  <2>2. r \in 0..Len(log)
    <3>1. watchers \in Seq(Watcher) /\ Len(log) \in Nat
      BY Basics DEF IInv
    <3>2. watchers[current] \in Watcher
      BY <2>1, <3>1
    <3>3. r \in Nat /\ r <= Len(log)
      BY <2>1, <3>2 DEF Watcher, TypeInv, TablesInv
    <3> HIDE DEF r
    <3> QED
      BY <3>1, <3>3
  <2>3. AllBelow(wire, cache, pending, down, r)
    BY <2>1 DEF BoundInv
  <2>4. /\ m \in Heard(Len(log), ids) /\ One(log, m.objects) /\ Below(m.objects, r)
        /\ \A i \in 1..r, j \in m.objects : log[i].uid = log[j].uid => i <= j
    <3> HIDE DEF r
    <3> QED
      BY <2>1, <2>2, WholeIs DEF IInv, Below
  <2>5. Chain(log, wire, cache, pending, down)
    BY DEF ChainInv
  <2> HIDE DEF m, r
  <2>6. Chain(log, wire, cache, pending, down') /\ AllBelow(wire, cache, pending, down', r)
    BY <2>1, <2>3, <2>4, <2>5, ToldChain
  <2>7. watchers'[Len(watchers')].shows = r
    BY <2>1 DEF r
  <2> QED
    BY <1>1, <1>2, <2>6, <2>7 DEF ChainInv, BoundInv
<1> QED
  BY <1>3, <1>4

\* One watcher shows something else; what is told is bounded by it.
LEMMA ShowsBound ==
  ASSUME IInv, TypeInv, BoundInv, NEW w \in DOMAIN watchers, NEW life, NEW q \in 0..Len(log),
         watchers' = [watchers EXCEPT ![w] = [life |-> life, shows |-> q]],
         ServedStay, wire' = wire, byId' = byId,
         w = Len(watchers) => AllBelow(wire', cache', pending', down', q),
         w # Len(watchers) => NothingNew
  PROVE  BoundInv'
<1>1. /\ watchers \in Seq(Watcher) /\ Len(watchers) \in Nat /\ DOMAIN watchers = 1..Len(watchers)
  BY Basics DEF IInv
<1>2. /\ Len(watchers') = Len(watchers) /\ watchers'[w].shows = q
      /\ \A v \in DOMAIN watchers : v # w => watchers'[v].shows = watchers[v].shows
  BY <1>1, OneShows
<1>3. Serving' = Serving
  BY DEF Serving
<1>4. Serving' # 0 => served'[Serving'].watcher = Len(watchers')
  BY <1>2, <1>3, ServingIs DEF BoundInv, ServedStay
<1>5. ASSUME Len(watchers') # 0, watchers'[Len(watchers')].shows # 0
      PROVE  AllBelow(wire', cache', pending', down', watchers'[Len(watchers')].shows)
  <2>1. CASE w = Len(watchers)
    BY <1>2, <2>1
  <2>2. CASE w # Len(watchers)
    <3>1. Len(watchers) \in DOMAIN watchers
      BY <1>1, <1>2, <1>5
    <3>2. watchers'[Len(watchers')].shows = watchers[Len(watchers)].shows
      BY <1>2, <2>2, <3>1
    <3>3. AllBelow(wire, cache, pending, down, watchers[Len(watchers)].shows)
      BY <1>2, <1>5, <3>2 DEF BoundInv
    <3> QED
      BY <2>2, <3>2, <3>3 DEF NothingNew
  <2> QED
    BY <2>1, <2>2
<1> QED
  BY <1>4, <1>5 DEF BoundInv

LEMMA ListedChain ==
  ASSUME IInv, TypeInv, TypeInv', ChainInv, BoundInv, NEW w \in DOMAIN watchers, WatcherListed(w)
  PROVE  ChainInv' /\ BoundInv'
<1>1. /\ UNCHANGED <<log, ids, wire, byId, cache, pending>>
      /\ \E life : watchers' = [watchers EXCEPT ![w] = [life |-> life, shows |-> Len(log)]]
      /\ served' = [k \in DOMAIN served |->
                      IF k \in Listening(w, "waiting") THEN [served[k] EXCEPT !.st = "in"] ELSE served[k]]
  BY DEF WatcherListed, serverVars, clientVars, ui, rows
<1>2. ServedStay /\ Len(log) \in Nat /\ PartsInv
  <2>1. served \in Seq(Served) /\ Len(log) \in Nat /\ PartsInv
    BY Basics DEF IInv
  <2> QED
    BY <1>1, <2>1, ServedStayWhere
<1>3. Len(log) \in 0..Len(log)
  BY <1>2
<1>4. AllBelow(wire, cache, pending, down, Len(log)) /\ AllBelow(wire', cache', pending', down', Len(log))
  <2>1. AllBelow(wire', cache', pending', down', Len(log'))
    BY BelowLogNext
  <2> QED
    BY <1>1, <2>1, BelowLog
<1>5. CASE Serving \in Listening(w, "waiting")
  <2> DEFINE m == Whole(Len(log))
  <2>1. Serving # 0 /\ Serving \in DOMAIN served /\ served[Serving].watcher = w
    <3>1. Serving \in DOMAIN served /\ served[Serving].watcher = w
      BY <1>5 DEF Listening
    <3>2. 0 \notin DOMAIN served
      BY <1>2, Basics
    <3> QED
      BY <3>1, <3>2
  <2>2. w = Len(watchers) /\ wire # NoId
    BY <2>1, ServingIs DEF BoundInv
  <2>3. Told(wire, down, m, down')
    BY <1>5, ListedTells
  <2>4. /\ m \in Heard(Len(log), ids) /\ One(log, m.objects) /\ Below(m.objects, Len(log))
        /\ \A i \in 1..Len(log), j \in m.objects : log[i].uid = log[j].uid => i <= j
    BY <1>2, <1>3, <2>2, WholeIs DEF Below
  <2>5. Chain(log, wire, cache, pending, down)
    BY DEF ChainInv
  <2> HIDE DEF m
  <2>6. Chain(log, wire, cache, pending, down')
    BY <1>4, <2>3, <2>4, <2>5, ToldChain
  <2>7. ChainInv'
    BY <1>1, <2>6 DEF ChainInv
  <2>8. BoundInv'
    BY <1>1, <1>2, <1>3, <1>4, <2>2, ShowsBound
  <2> QED
    BY <2>7, <2>8
<1>6. CASE Serving \notin Listening(w, "waiting")
  <2>1. Others(wire, down, down')
    BY <1>6, ListedTells
  <2>2. NothingNew
    BY <1>1, <2>1, NothingNewOthers
  <2>3. ChainInv'
    BY <2>2 DEF NothingNew, ChainInv
  <2>4. BoundInv'
    BY <1>1, <1>2, <1>3, <1>4, <2>2, ShowsBound
  <2> QED
    BY <2>3, <2>4
<1> QED
  BY <1>5, <1>6

LEMMA EmitsChain ==
  ASSUME IInv, TypeInv, TypeInv', ChainInv, BoundInv, NEW w \in DOMAIN watchers,
         WatcherEmits(w) \/ WatcherRelists(w)
  PROVE  ChainInv' /\ BoundInv'
<1> DEFINE p == watchers[w].shows
<1>1. PICK batch, q, life :
           /\ Emits(w, batch, q, life)
           /\ p \in Nat /\ q \in Nat /\ p <= q /\ q <= Len(log)
           /\ batch \in {Chunk(p, q), Diff(p, q)}
           /\ p # 0 \/ q = Len(log)
  BY EmitsMove DEF IInv, TypeInv
<1>2. /\ UNCHANGED <<log, ids, wire, byId, cache, pending, served>>
      /\ watchers' = [watchers EXCEPT ![w] = [life |-> life, shows |-> q]]
      /\ batch = {} => down' = down
  BY <1>1 DEF Emits, serverVars, clientVars, ui, rows, sockets
<1>3. ServedStay /\ Len(log) \in Nat /\ q \in 0..Len(log) /\ PartsInv
  <2>1. PartsInv /\ Len(log) \in Nat
    BY Basics DEF IInv
  <2> QED
    BY <1>1, <1>2, <2>1, ServedStaySame
<1> HIDE DEF p
<1>4. batch \in SUBSET ((p + 1)..q) /\ batch \in SUBSET (1..q) /\ batch \in SUBSET (1..Len(log))
  <2>1. batch \subseteq (p + 1)..q
    BY <1>1 DEF Chunk, Diff
  <2>2. (p + 1)..q \subseteq 1..q /\ 1..q \subseteq 1..Len(log)
    BY <1>1, <1>3
  <2> QED
    BY <2>1, <2>2
<1>5. AllBelow(wire', cache', pending', down', Len(log))
  <2>1. AllBelow(wire', cache', pending', down', Len(log'))
    BY BelowLogNext
  <2> QED
    BY <1>2, <2>1
<1>6. w = Len(watchers) /\ p # 0 => AllBelow(wire, cache, pending, down, p)
                                    /\ AllBelow(wire, cache, pending, down, q)
  <2> SUFFICES ASSUME w = Len(watchers), p # 0
               PROVE  AllBelow(wire, cache, pending, down, p) /\ AllBelow(wire, cache, pending, down, q)
    OBVIOUS
  <2>1. Len(watchers) # 0
    <3>1. DOMAIN watchers = 1..Len(watchers) /\ Len(watchers) \in Nat
      BY <1>3, Basics
    <3> QED
      BY <3>1
  <2>2. AllBelow(wire, cache, pending, down, p)
    BY <2>1 DEF BoundInv, p
  <2> QED
    BY <1>1, <2>2, AllBelowMore
<1>7. CASE batch # {} /\ Serving \in Listening(w, "in")
  <2> DEFINE m == Msg("events", wire, batch, "")
  <2>1. m \in Heard(Len(log), ids) /\ Told(wire, down, m, down')
    BY <1>1, <1>4, <1>7, EventsTell
  <2>2. Serving # 0 /\ Serving \in DOMAIN served /\ served[Serving].watcher = w /\ p # 0
    <3>1. Serving \in DOMAIN served /\ served[Serving].watcher = w /\ served[Serving].st = "in"
      BY <1>7 DEF Listening
    <3>2. 0 \notin DOMAIN served
      BY <1>3, Basics
    <3>3. p # 0
      BY <3>1 DEF IInv, ServedInv, p
    <3> QED
      BY <3>1, <3>2, <3>3
  <2>3. w = Len(watchers)
    BY <2>2 DEF BoundInv
  <2>4. AllBelow(wire, cache, pending, down, p) /\ AllBelow(wire, cache, pending, down, q)
    BY <1>6, <2>2, <2>3
  <2>5. m.objects = batch /\ m.op # "snapshot"
    BY DEF Msg
  <2> HIDE DEF m
  <2>6. \A i \in 1..p, j \in m.objects : log[i].uid = log[j].uid => i <= j
    <3>1. \A i \in 1..p, j \in (p + 1)..q : i <= j
      BY <1>1
    <3> QED
      BY <1>4, <2>5, <3>1
  <2>7. Below(m.objects, q)
    BY <1>4, <2>5 DEF Below
  <2>8. Chain(log, wire, cache, pending, down)
    BY DEF ChainInv
  <2>9. Chain(log, wire, cache, pending, down') /\ AllBelow(wire, cache, pending, down', q)
    BY <2>1, <2>4, <2>5, <2>6, <2>7, <2>8, ToldChain
  <2>10. ChainInv'
    BY <1>2, <2>9 DEF ChainInv
  <2>11. AllBelow(wire', cache', pending', down', q)
    BY <1>2, <2>9
  <2>12. BoundInv'
    BY <1>2, <1>3, <2>3, <2>11, ShowsBound
  <2> QED
    BY <2>10, <2>12
<1>8. CASE ~ (batch # {} /\ Serving \in Listening(w, "in"))
  <2>1. Others(wire, down, down')
    <3>1. CASE batch = {}
      BY <1>2, <3>1, OthersNone
    <3>2. CASE batch # {}
      BY <1>1, <1>4, <1>8, <3>2, EventsTell
    <3> QED
      BY <3>1, <3>2
  <2>2. NothingNew
    BY <1>2, <2>1, NothingNewOthers
  <2>3. ChainInv'
    BY <2>2 DEF NothingNew, ChainInv
  <2>4. w = Len(watchers) => AllBelow(wire', cache', pending', down', q)
    <3>1. CASE p # 0
      BY <1>6, <2>2, <3>1 DEF NothingNew
    <3>2. CASE p = 0
      BY <1>1, <1>5, <3>2
    <3> QED
      BY <3>1, <3>2
  <2>5. BoundInv'
    BY <1>2, <1>3, <2>2, <2>4, ShowsBound
  <2> QED
    BY <2>3, <2>5
<1> QED
  BY <1>7, <1>8

LEMMA ChainNext ==
  ASSUME IInv, IInv', TypeInv, TypeInv', ChainInv, BoundInv, [Next]_vars
  PROVE  ChainInv' /\ BoundInv'
<1> USE DEF serverVars, rows, ui, clientVars
<1>1. ASSUME StaysServed, NothingNew PROVE ChainInv' /\ BoundInv'
  BY <1>1, NothingNewInv
<1>2. CASE SubscribeNew \/ Teardown
  <2>1. /\ Serving' = 0 /\ cache' = {} /\ pending' = <<>> /\ UNCHANGED <<log, watchers>>
        /\ \A n \in DOMAIN down' : Mine(wire', down'[n]) = {}
    BY <1>2, WireMoves
  <2>2. Chain(log', wire', cache', pending', down')
        /\ \A v : AllBelow(wire', cache', pending', down', v)
    BY <2>1, ChainFresh
  <2> QED
    BY <2>1, <2>2 DEF ChainInv, BoundInv
<1>3. CASE ApiWrite
  BY <1>1, <1>3, WriteNothingNew, StaysServedNext
<1>4. CASE Receive \/ Flush \/ Breaks \/ HandleNotConnected \/ SessionEnds \/ SessionReady
  <2>1. NothingNew
    BY <1>4, BrowserNothingNew
  <2>2. StaysServed
    BY <1>4, StaysServedNext
  <2> QED
    BY <1>1, <2>1, <2>2
<1>5. ASSUME NEW w \in DOMAIN watchers, WatcherRejects(w)
      PROVE  ChainInv' /\ BoundInv'
  <2>1. UNCHANGED <<log, wire, cache, pending>> /\ Others(wire, down, down')
    BY <1>5, RejectsTell DEF WatcherRejects
  <2>2. NothingNew
    BY <2>1, NothingNewOthers
  <2>3. StaysServed
    BY <1>5, StaysServedNext
  <2> QED
    BY <1>1, <2>2, <2>3
<1>6. ASSUME NEW w \in DOMAIN watchers, WatcherListed(w) \/ WatcherEmits(w) \/ WatcherRelists(w)
      PROVE  ChainInv' /\ BoundInv'
  BY <1>6, ListedChain, EmitsChain
<1>7. CASE HandleSub
  BY <1>7, AcceptsChain
<1> DEFINE Still == UNCHANGED <<log, wire, cache, pending, down>>
<1>8. Still => NothingNew
  BY OthersNone, NothingNewOthers
<1>9. SubscribeAgain \/ Leave \/ Reconnect \/ Opens \/ Closes \/ ClosesLate => Still
  BY DEF SubscribeAgain, Leave, Reconnect, Opens, Closes, ClosesLate
<1>10. HandleUnsub \/ LingerStops \/ SessionStarts \/ UNCHANGED vars => Still
  BY DEF HandleUnsub, LingerStops, SessionStarts, vars
<1>11. ASSUME NEW w \in DOMAIN watchers, WatchEnds(w)
       PROVE  ChainInv' /\ BoundInv'
  <2>1. Still
    BY <1>11 DEF WatchEnds
  <2>2. StaysServed
    BY <1>11, StaysServedNext
  <2> QED
    BY <1>1, <1>8, <2>1, <2>2
<1> HIDE DEF Still
<1>12. CASE \/ SubscribeAgain \/ Leave \/ Reconnect \/ Opens \/ Closes \/ ClosesLate
            \/ HandleUnsub \/ LingerStops \/ SessionStarts \/ UNCHANGED vars
  <2>1. NothingNew
    BY <1>8, <1>9, <1>10, <1>12
  <2>2. StaysServed
    BY <1>12, StaysServedNext
  <2> QED
    BY <1>1, <2>1, <2>2
<1> QED
  BY <1>2, <1>3, <1>4, <1>5, <1>6, <1>7, <1>11, <1>12 DEF Next, Components, Handle, WatcherStep

-----------------------------------------------------------------------------
(* The batches that wait, and the rows                                     *)

\* What waits about an object ends with something no older than its row, unless
\* a snapshot overtook all of it.
Catches(l, c, p, X) ==
  \A a \in c, i \in All(p) :
    l[i].uid = l[a].uid /\ l[a].uid \notin X
      => \E j \in All(p) : l[j].uid = l[a].uid /\ a <= j

WaitInv == Catches(log, cache, pending, overtaken)

LEMMA WaitNone ==
  ASSUME NEW l, NEW c, NEW p, NEW X, c = {} \/ p = <<>>
  PROVE  Catches(l, c, p, X)
<1>1. p = <<>> => DOMAIN p = {}
  OBVIOUS
<1> QED
  BY <1>1 DEF Catches, All

LEMMA WaitMore ==
  ASSUME NEW l, NEW c, NEW Y, NEW p \in Seq(Y), NEW h \in Y, NEW X, NEW Z,
         Catches(l, c, p, X), Newer(l, c, h), Z = X \ {l[i].uid : i \in h}
  PROVE  Catches(l, c, Append(p, h), Z)
<1> DEFINE e == Append(p, h)
<1>1. /\ DOMAIN e = DOMAIN p \cup {Len(p) + 1} /\ e[Len(p) + 1] = h
      /\ \A k \in DOMAIN p : e[k] = p[k]
  BY AppendIs
<1> HIDE DEF e
<1>2. All(e) = All(p) \cup h
  BY <1>1 DEF All
<1>3. ASSUME NEW a \in c, NEW i \in All(e), l[i].uid = l[a].uid, l[a].uid \notin Z
      PROVE  \E j \in All(e) : l[j].uid = l[a].uid /\ a <= j
  <2>1. CASE \E j \in h : l[j].uid = l[a].uid
    BY <1>2, <2>1 DEF Newer
  <2>2. CASE ~ \E j \in h : l[j].uid = l[a].uid
    <3>1. i \in All(p) /\ l[a].uid \notin X
      BY <1>2, <1>3, <2>2
    <3> QED
      BY <1>2, <1>3, <3>1 DEF Catches
  <2> QED
    BY <2>1, <2>2
<1> QED
  BY <1>3 DEF Catches, e

LEMMA WaitNext ==
  ASSUME IInv, TypeInv, ChainInv, WaitInv, [Next]_vars
  PROVE  WaitInv'
<1> USE DEF serverVars, rows, ui, link, clientVars
<1> DEFINE Still == UNCHANGED <<log, cache, pending, overtaken>>
           Empty == cache' = {} \/ pending' = <<>>
<1>1. CASE Still
  BY <1>1 DEF WaitInv
<1>2. CASE Empty
  BY <1>2, WaitNone DEF WaitInv
<1>3. CASE ApiWrite
  <2> DEFINE V == 1..Len(log)
             Y == SUBSET V
  <2>1. UNCHANGED <<cache, pending, overtaken>>
    BY <1>3 DEF ApiWrite
  <2>2. \A i \in V : log'[i] = log[i]
    BY Grows DEF IInv, Agree
  <2>3. cache \subseteq V /\ pending \in Seq(Y)
    BY DEF TypeInv, RowsInv
  <2> HIDE DEF V, Y
  <2>4. \A n \in DOMAIN pending : pending[n] \in Y
    BY <2>3
  <2>5. All(pending) \subseteq V
    BY <2>4 DEF All, Y
  <2>6. Catches(log', cache, pending, overtaken)
    BY <2>2, <2>3, <2>5 DEF WaitInv, Catches
  <2> QED
    BY <2>1, <2>6 DEF WaitInv
<1>4. CASE ReceiveSnapshot
  <2>1. log' = log /\ pending' = pending /\ overtaken' = UidsOf(UNION Range(pending))
    BY <1>4 DEF ReceiveSnapshot
  <2>2. UNION Range(pending) = All(pending)
    BY DEF Range, All
  <2>3. \A i \in All(pending) : log[i].uid \in overtaken'
    BY <2>1, <2>2 DEF UidsOf
  <2>4. \A a \in cache', i \in All(pending) : log[i].uid = log[a].uid => log[a].uid \in overtaken'
    BY <2>3
  <2> QED
    BY <2>1, <2>4 DEF WaitInv, Catches
<1>5. CASE ReceiveEvents
  <2> DEFINE X == Heard(Len(log), ids)
             Y == SUBSET (1..Len(log))
             h == Head(down).objects
  <2>1. /\ UNCHANGED <<log, cache>> /\ down # <<>> /\ Head(down).id = wire
        /\ pending' = Append(pending, h) /\ overtaken' = overtaken \ UidsOf(h)
        /\ Incoming("events")
    BY <1>5 DEF ReceiveEvents, Incoming
  <2>2. down \in Seq(X) /\ pending \in Seq(Y)
    BY DEF TypeInv, HeardInv, RowsInv
  <2>3. h \in Y
    BY <2>1, HeadHeard DEF TypeInv
  <2> HIDE DEF X, Y
  <2>4. 1 \in DOMAIN down /\ down[1] = Head(down)
    BY <2>1, <2>2, FirstIs
  <2>5. Newer(log, cache, h)
    BY <2>1, <2>4 DEF ChainInv, Chain, Mine
  <2>6. overtaken' = overtaken \ {log[i].uid : i \in h}
    BY <2>1 DEF UidsOf
  <2> HIDE DEF h
  <2>7. Catches(log, cache, Append(pending, h), overtaken')
    BY <2>2, <2>3, <2>5, <2>6, WaitMore DEF WaitInv
  <2> QED
    BY <2>1, <2>7 DEF WaitInv
<1>6. SubscribeNew \/ Teardown \/ Flush => Empty
  BY DEF SubscribeNew, Teardown, NoRows, Flush
<1>7. SubscribeAgain \/ Leave \/ Reconnect \/ Opens \/ Breaks \/ Closes \/ ClosesLate => Still
  BY DEF SubscribeAgain, Leave, Reconnect, Opens, Breaks, Closes, ClosesLate
<1>8. ReceiveUnknown \/ ReceiveStatus \/ ReceiveReset => Still \/ Empty
  BY DEF ReceiveUnknown, ReceiveStatus, ReceiveReset
<1>9. Handle => Still
  BY DEF Handle, HandleUnsub, HandleNotConnected, HandleSub
<1>10. WatcherStep \/ (\E w \in DOMAIN watchers : WatcherRejects(w)) => Still
  BY DEF WatcherStep, WatcherListed, WatcherEmits, WatcherRelists, WatchEnds, WatcherRejects, Emits
<1>11. LingerStops \/ SessionEnds \/ SessionStarts \/ SessionReady \/ UNCHANGED vars => Still
  BY DEF LingerStops, SessionEnds, SessionStarts, SessionReady, vars
<1> HIDE DEF Still, Empty
<1> QED
  BY <1>1, <1>2, <1>3, <1>4, <1>5, <1>6, <1>7, <1>8, <1>9, <1>10, <1>11 DEF Next, Components, Receive

\* What the flush leaves of an object is the last that waited about it.
LEMMA BatchesNewest ==
  ASSUME NEW l, NEW c, NEW V \in SUBSET Nat, NEW p \in Seq(SUBSET V),
         \A m, n \in DOMAIN p : m < n => Newer(l, p[m], p[n]),
         NEW i \in Batches(l, c, p), NEW k \in All(p), l[k].uid = l[i].uid, i \in V
  PROVE  k <= i
<1> DEFINE N == Len(p)
           Y == SUBSET V
<1>1. p \in Seq(Y)
  OBVIOUS
<1> HIDE DEF Y
<1>2. N \in Nat /\ DOMAIN p = 1..N /\ \A n \in 1..N : p[n] \in Y
  BY <1>1
<1>3. PICK f : BatchSteps(l, c, p, f) /\ Batches(l, c, p) = f[N]
  BY <1>2, BatchesSteps
<1>4. f[0] = c /\ \A n \in 1..N : f[n] = Batch(l, f[n - 1], p[n])
  BY <1>3 DEF BatchSteps
<1> HIDE DEF N
<1> DEFINE T == {n \in 0..N : i \in f[n] => \A m \in 1..n : \A j \in p[m] : l[j].uid = l[i].uid => j <= i}
<1>5. 0 \in T
  <2>1. 1..0 = {} /\ 0 \in 0..N
    BY <1>2
  <2> QED
    BY <2>1
<1>6. ASSUME NEW n \in 1..N, n - 1 \in T
      PROVE  n \in T
  <2>1. n \in 0..N /\ 1..n = (1..(n - 1)) \cup {n} /\ n \in Nat
    BY <1>2
  <2>2. ASSUME i \in f[n], NEW m \in 1..n, NEW j \in p[m], l[j].uid = l[i].uid
        PROVE  j <= i
    <3>1. i \in Batch(l, f[n - 1], p[n])
      BY <1>4, <2>2
    <3>2. CASE i \in f[n - 1] /\ \A x \in p[n] : l[i].uid # l[x].uid
      <4>1. m \in 1..(n - 1)
        BY <2>1, <2>2, <3>2
      <4> QED
        BY <1>6, <2>2, <3>2, <4>1
    <3>3. CASE i \in p[n] /\ \A x \in p[n] : x > i => l[x].uid # l[i].uid
      <4>1. CASE m = n
        <5>1. j \in Nat /\ i \in Nat /\ ~ (j > i)
          BY <1>2, <2>2, <3>3, <4>1 DEF Y
        <5> QED
          BY <5>1
      <4>2. CASE m # n
        <5>1. m \in 1..N /\ m < n
          BY <1>2, <4>2
        <5>2. Newer(l, p[m], p[n])
          BY <1>2, <5>1
        <5> QED
          BY <2>2, <3>3, <5>2 DEF Newer
      <4> QED
        BY <4>1, <4>2
    <3> QED
      BY <3>1, <3>2, <3>3 DEF Batch
  <2> QED
    BY <2>1, <2>2
<1> HIDE DEF T
<1>7. N \in T
  <2>1. \A n \in 0..N : n \in T
    BY <1>2, <1>5, <1>6, UpTo
  <2> QED
    BY <1>2, <2>1
<1>8. PICK m \in 1..N : k \in p[m]
  BY <1>2 DEF All
<1> QED
  BY <1>3, <1>7, <1>8 DEF T

-----------------------------------------------------------------------------
(* Rows and what is under way come to what the watcher shows               *)

Flow == HearAll(log, wire, Batches(log, cache, pending), down)

NoReset(d) == \A n \in DOMAIN d : d[n].op # "reset"
NoUnsub(u, w) == \A j \in DOMAIN u : u[j] # Unsub(w)

\* No reset comes to the browser, and the subscription is not given back.
Settled == BeingServed /\ NoReset(down) /\ NoUnsub(up, wire)

\* Nothing older can be left of object u when all that is under way has arrived.
Sure(l, w, X, d, u) == u \notin X \/ Touches(l, w, d, u)

ConvInv ==
  Settled => \A u : Sure(log, wire, overtaken, down, u) =>
               Of(log, u, Flow) = Of(log, u, Store(log, watchers[served[Serving].watcher].shows))

\* No more is sure.
NoSurer == \A u : Sure(log', wire', overtaken', down', u) => Sure(log, wire, overtaken, down, u)

LEMMA NoResetBack ==
  ASSUME NEW d, NEW e, NoReset(e),
         \/ d = e
         \/ DOMAIN d \subseteq DOMAIN e /\ \A n \in DOMAIN d : e[n] = d[n]
         \/ d # <<>> /\ e = Tail(d) /\ Head(d).op # "reset" /\ \E X : d \in Seq(X)
  PROVE  NoReset(d)
<1>1. CASE d # <<>> /\ e = Tail(d) /\ Head(d).op # "reset" /\ \E X : d \in Seq(X)
  <2>1. PICK X : d \in Seq(X)
    BY <1>1
  <2>2. /\ d[1] = Head(d)
        /\ \A j \in DOMAIN d : j # 1 => j - 1 \in DOMAIN Tail(d) /\ Tail(d)[j - 1] = d[j]
    BY <1>1, <2>1, TailIs
  <2> QED
    BY <1>1, <2>2 DEF NoReset
<1> QED
  BY <1>1 DEF NoReset

LEMMA NoUnsubBack ==
  ASSUME NEW w, NEW u \in Seq(Requests), u # <<>>, Head(u) # Unsub(w), NoUnsub(Tail(u), w)
  PROVE  NoUnsub(u, w)
<1>1. /\ u[1] = Head(u)
      /\ \A j \in DOMAIN u : j # 1 => j - 1 \in DOMAIN Tail(u) /\ Tail(u)[j - 1] = u[j]
  BY TailIs
<1> QED
  BY <1>1 DEF NoUnsub

\* The rows are the same when all has arrived.
LEMMA ConvKept ==
  ASSUME IInv, TypeInv, ConvInv, StaysServed, log' = log, Settled' => Settled /\ Flow' = Flow /\ NoSurer
  PROVE  ConvInv'
<1> SUFFICES ASSUME Settled', NEW u, Sure(log', wire', overtaken', down', u)
             PROVE  Of(log', u, Flow')
                      = Of(log', u, Store(log', watchers'[served'[Serving'].watcher].shows))
  BY DEF ConvInv
<1>1. Serving' # 0
  BY DEF Settled, BeingServed
<1>2. watchers'[served'[Serving'].watcher].shows = watchers[served[Serving].watcher].shows
  BY <1>1, StaysServedIs
<1>3. Sure(log, wire, overtaken, down, u)
  BY DEF NoSurer
<1> QED
  BY <1>2, <1>3 DEF ConvInv

LEMMA NotServed ==
  ASSUME Serving' = 0 \/ served'[Serving'].st # "in"
  PROVE  ConvInv'
  BY DEF ConvInv, Settled, BeingServed

\* A subscription that is served then is served now.
LEMMA BeingServedBack ==
  ASSUME IInv, TypeInv, StaysServed, BeingServed',
         served' = served \/ \A k \in DOMAIN served : served'[k].st = "in" => served[k].st = "in"
  PROVE  BeingServed
<1>1. Serving' # 0 /\ served'[Serving'].st = "in"
  BY DEF BeingServed
<1>2. Serving' = Serving /\ Serving \in DOMAIN served
  BY <1>1, StaysServedIs
<1> QED
  BY <1>1, <1>2 DEF BeingServed

\* What is heard of steps that only tell others.
LEMMA FlowOthers ==
  ASSUME TypeInv, TypeInv', UNCHANGED <<log, wire, cache, pending, overtaken>>, Others(wire, down, down')
  PROVE  Flow' = Flow /\ NoSurer /\ (NoReset(down') => NoReset(down))
<1> DEFINE X == Heard(Len(log), ids)
           Z == Heard(Len(log'), ids')
           W == X \cup Z
<1>1. down \in Seq(X) /\ down' \in Seq(Z)
  BY DEF TypeInv, HeardInv
<1> HIDE DEF X, Z
<1>2. down \in Seq(W) /\ down' \in Seq(W)
  BY <1>1
<1> HIDE DEF W
<1>3. HearAll(log, wire, Batches(log, cache, pending), down') = HearAll(log, wire, Batches(log, cache, pending), down)
  BY <1>2, HearOthers
<1>4. NoReset(down') => NoReset(down)
  BY NoResetBack DEF Others
<1>5. NoSurer
  BY OthersTouch DEF NoSurer, Sure
<1> QED
  BY <1>3, <1>4, <1>5 DEF Flow

LEMMA ReceivesConv ==
  ASSUME IInv, TypeInv, ConvInv, Receive
  PROVE  ConvInv'
<1> USE DEF serverVars, rows, ui, clientVars
<1> DEFINE X == Heard(Len(log), ids)
           Y == SUBSET (1..Len(log))
           b == Batches(log, cache, pending)
<1>1. /\ down \in Seq(X) /\ pending \in Seq(Y) /\ up \in Seq(Requests)
      /\ \A m \in X : m.objects \in Y
  BY DEF TypeInv, HeardInv, RowsInv, IInv, PartsInv, Heard
<1>2. StaysServed
  BY StaysServedNext
<1> HIDE DEF X, Y
<1>3. /\ down # <<>> /\ down' = Tail(down) /\ UNCHANGED <<log, wire, served>>
  BY DEF Receive, ReceiveUnknown, ReceiveSnapshot, ReceiveEvents, ReceiveStatus, ReceiveReset, Incoming, sockets
<1>4. Flow = HearAll(log, wire, Hear(log, wire, b, Head(down)), Tail(down))
  BY <1>1, <1>3, HearFirst DEF Flow
<1>40. ASSUME Head(down).op # "reset", up' = up, Settled' PROVE Settled
  <2>1. BeingServed
    BY <1>2, <1>3, <1>40, BeingServedBack DEF Settled
  <2>2. NoReset(down)
    BY <1>1, <1>3, <1>40, NoResetBack DEF Settled
  <2> QED
    BY <1>3, <1>40, <2>1, <2>2 DEF Settled
<1>41. /\ 1 \in DOMAIN down /\ down[1] = Head(down)
       /\ \A n \in DOMAIN Tail(down) : 1 < n + 1 /\ n + 1 \in DOMAIN down /\ Tail(down)[n] = down[n + 1]
  BY <1>1, <1>3, FirstIs
<1>42. \A u : Touches(log, wire, Tail(down), u) \/ Tells(log, wire, Head(down), u)
               => Touches(log, wire, down, u)
  BY <1>41 DEF Touches
<1>5. ASSUME Head(down).op # "reset", up' = up,
             Batches(log, cache', pending') = Hear(log, wire, b, Head(down)),
             \A u : u \in overtaken => u \in overtaken' \/ Tells(log, wire, Head(down), u)
      PROVE  ConvInv'
  <2>1. Flow' = Flow
    BY <1>3, <1>4, <1>5 DEF Flow
  <2>2. NoSurer
    BY <1>3, <1>42, <1>5 DEF NoSurer, Sure
  <2> QED
    BY <1>2, <1>3, <1>40, <1>5, <2>1, <2>2, ConvKept
<1>6. CASE ReceiveUnknown \/ ReceiveStatus
  <2>1. /\ UNCHANGED <<cache, pending, overtaken, up>> /\ Head(down).op # "reset"
        /\ Head(down).id # wire \/ Head(down).op = "status"
    BY <1>6 DEF ReceiveUnknown, ReceiveStatus, Incoming
  <2>2. Hear(log, wire, b, Head(down)) = b
    BY <2>1 DEF Hear
  <2> QED
    BY <1>5, <2>1, <2>2
<1>7. CASE ReceiveReset
  <2>1. CASE wire = NoId
    <3>1. Serving' = 0
      BY <1>3, <2>1 DEF Serving
    <3> QED
      BY <3>1, NotServed
  <2>2. CASE wire # NoId
    <3>1. up' = up \o <<Unsub(wire), Sub(wire)>>
      BY <1>7, <2>2 DEF ReceiveReset
    <3>2. wire \in Ids
      BY <2>2, Basics DEF IInv
    <3> DEFINE s == Unsub(wire)
               t == Sub(wire)
    <3>3. s \in Requests /\ t \in Requests /\ up' = up \o <<s, t>>
      BY <3>1, <3>2, RequestsAre
    <3> HIDE DEF s, t
    <3>4. Len(up) + 1 \in DOMAIN up' /\ up'[Len(up) + 1] = s
      BY <1>1, <3>3
    <3>5. ~NoUnsub(up', wire')
      BY <1>3, <3>4 DEF NoUnsub, s
    <3> QED
      BY <3>5 DEF ConvInv, Settled
  <2> QED
    BY <2>1, <2>2
<1>8. CASE ReceiveSnapshot
  <2>1. /\ UNCHANGED <<pending, up>> /\ cache' = Head(down).objects
        /\ Head(down).id = wire /\ Head(down).op = "snapshot"
        /\ overtaken' = UidsOf(UNION Range(pending))
    BY <1>8 DEF ReceiveSnapshot, Incoming
  <2>2. Hear(log, wire, b, Head(down)) = cache'
    BY <2>1 DEF Hear
  <2>3. \A u : Sure(log, wire, overtaken, down, u)
    BY <1>42, <2>1 DEF Sure, Tells
  <2> SUFFICES ASSUME Settled', NEW u, Sure(log', wire', overtaken', down', u)
               PROVE  Of(log', u, Flow')
                        = Of(log', u, Store(log', watchers'[served'[Serving'].watcher].shows))
    BY DEF ConvInv
  <2>4. Settled /\ Serving' # 0
    BY <1>40, <2>1 DEF Settled, BeingServed
  <2>5. Of(log, u, Flow) = Of(log, u, Store(log, watchers[served[Serving].watcher].shows))
    BY <2>3, <2>4 DEF ConvInv
  <2>6. watchers'[served'[Serving'].watcher].shows = watchers[served[Serving].watcher].shows
    BY <1>2, <2>4, StaysServedIs
  <2> DEFINE e == Batches(log, cache', pending)
             t == Tail(down)
  <2>7. t \in Seq(X)
    BY <1>1, <1>3
  <2>8. Of(log, u, e) = Of(log, u, cache') \/ Touches(log, wire, t, u)
    <3>1. CASE Touches(log, wire, t, u)
      BY <3>1
    <3>2. CASE u \notin overtaken'
      <4>1. UNION Range(pending) = All(pending)
        BY DEF Range, All
      <4>2. \A i \in All(pending) : log[i].uid # u
        BY <2>1, <3>2, <4>1 DEF UidsOf
      <4> QED
        BY <1>1, <4>2, BatchesOf
    <3> QED
      BY <1>3, <3>1, <3>2 DEF Sure
  <2>9. Flow' = HearAll(log, wire, e, t) /\ Flow = HearAll(log, wire, cache', t)
    BY <1>3, <1>4, <2>1, <2>2 DEF Flow
  <2> HIDE DEF e, t
  <2>10. Of(log, u, HearAll(log, wire, e, t)) = Of(log, u, HearAll(log, wire, cache', t))
    BY <2>7, <2>8, HearAllOf
  <2> QED
    BY <1>3, <2>5, <2>6, <2>9, <2>10
<1>9. CASE ReceiveEvents
  <2>1. /\ pending' = Append(pending, Head(down).objects) /\ UNCHANGED <<cache, up>>
        /\ Head(down).id = wire /\ Head(down).op = "events"
        /\ overtaken' = overtaken \ UidsOf(Head(down).objects)
    BY <1>9 DEF ReceiveEvents, Incoming
  <2>2. Hear(log, wire, b, Head(down)) = Batch(log, b, Head(down).objects)
    BY <2>1 DEF Hear
  <2>3. Head(down).objects \in Y
    <3>1. Head(down) \in X
      BY <1>1, <1>3
    <3> QED
      BY <1>1, <3>1
  <2>4. Batches(log, cache, Append(pending, Head(down).objects)) = Batch(log, b, Head(down).objects)
    BY <1>1, <2>3, BatchesMore
  <2>5. Batches(log, cache', pending') = Hear(log, wire, b, Head(down))
    BY <2>1, <2>2, <2>4
  <2>6. Head(down).op # "reset"
    BY <2>1
  <2>7. \A u : u \in overtaken => u \in overtaken' \/ Tells(log, wire, Head(down), u)
    BY <2>1 DEF UidsOf, Tells
  <2> HIDE DEF b
  <2> QED
    BY <1>5, <2>1, <2>5, <2>6, <2>7
<1> QED
  BY <1>6, <1>7, <1>8, <1>9 DEF Receive

LEMMA FlushesConv ==
  ASSUME IInv, TypeInv, ConvInv, Flush
  PROVE  ConvInv'
<1>1. /\ UNCHANGED <<log, wire, down, served, up, overtaken>> /\ pending' = <<>>
      /\ cache' = Batches(log, cache, pending)
  BY ApplyAllIs DEF Flush, serverVars, ui, sockets
<1>2. Batches(log, cache', pending') = cache'
  BY <1>1, BatchesNone
<1>3. Flow' = Flow
  BY <1>1, <1>2 DEF Flow
<1>4. StaysServed
  BY StaysServedNext
<1>5. Settled' => Settled
  BY <1>1, <1>4, BeingServedBack DEF Settled
<1>6. NoSurer
  BY <1>1 DEF NoSurer
<1> QED
  BY <1>1, <1>3, <1>4, <1>5, <1>6, ConvKept

\* A write: what is held, and what the watcher shows, are about the history so far.
LEMMA WritesConv ==
  ASSUME IInv, TypeInv, ConvInv, ApiWrite
  PROVE  ConvInv'
<1> DEFINE V == 1..Len(log)
           X == Heard(Len(log), ids)
           Y == SUBSET V
<1>1. UNCHANGED <<wire, cache, pending, overtaken, down, up, served, byId, watchers>>
  BY DEF ApiWrite, clientVars, rows, ui, sockets
<1>2. Agree(V, log, log')
  <2>1. [Next]_vars
    BY DEF Next
  <2> QED
    BY <2>1, Grows DEF IInv
<1>3. cache \in Y /\ pending \in Seq(Y) /\ down \in Seq(X) /\ \A m \in X : m.objects \in Y
  BY DEF TypeInv, RowsInv, HeardInv, Heard
<1> HIDE DEF X
<1>4. Len(down) \in Nat /\ \A n \in 1..Len(down) : down[n].objects \in Y
  BY <1>3
<1> HIDE DEF Y
<1>5. Len(pending) \in Nat /\ \A n \in 1..Len(pending) : pending[n] \in Y
  BY <1>3
<1> USE DEF Y
<1> HIDE DEF V
<1>6. Batches(log, cache, pending) = Batches(log', cache, pending)
  BY <1>2, <1>3, <1>5, BatchesGrow
<1>7. Batches(log, cache, pending) \in SUBSET V
  <2>1. cache \subseteq V /\ \A n \in 1..Len(pending) : pending[n] \subseteq V
    BY <1>3, <1>5
  <2> QED
    BY <1>5, <2>1, BatchesFrom
<1>8. /\ HearAll(log, wire, Batches(log, cache, pending), down) = HearAll(log', wire, Batches(log, cache, pending), down)
      /\ Flow \in SUBSET V
  <2> DEFINE c == Batches(log, cache, pending)
  <2>1. c \in SUBSET V
    BY <1>7
  <2>2. \A n \in 1..Len(down) : down[n].objects \in SUBSET V
    BY <1>4
  <2> HIDE DEF c
  <2>3. HearAll(log, wire, c, down) = HearAll(log', wire, c, down) /\ HearAll(log, wire, c, down) \in SUBSET V
    BY <1>2, <1>4, <2>1, <2>2, HearAllGrow
  <2> QED
    BY <2>3 DEF c, Flow
<1>9. Flow' = Flow
  BY <1>1, <1>6, <1>8 DEF Flow
<1>10. ASSUME NEW r \in 0..Len(log)
       PROVE  Store(log', r) = Store(log, r)
  <2>1. Len(log) \in Nat
    BY Basics DEF IInv
  <2>2. \A i \in 1..r : log'[i] = log[i] /\ \A j \in (i + 1)..r : log'[j] = log[j]
    <3>1. \A i \in 1..r : i \in V /\ \A j \in (i + 1)..r : j \in V
      BY <2>1 DEF V
    <3> QED
      BY <1>2, <3>1 DEF Agree
  <2> QED
    BY <2>2 DEF Store
<1>100. \A u : \A S \in SUBSET V : Of(log', u, S) = Of(log, u, S)
  BY <1>2 DEF Of, Agree
<1>101. NoSurer
  <2>1. \A n \in DOMAIN down : \A i \in down[n].objects : log'[i] = log[i]
    BY <1>2, <1>3, <1>4 DEF Agree
  <2>2. \A u : Touches(log', wire, down, u) => Touches(log, wire, down, u)
    BY <2>1 DEF Touches, Tells
  <2> QED
    BY <1>1, <2>2 DEF NoSurer, Sure
<1>11. ASSUME Settled', NEW u, Sure(log', wire', overtaken', down', u)
       PROVE  Of(log', u, Flow') = Of(log', u, Store(log', watchers'[served'[Serving'].watcher].shows))
  <2>1. Settled /\ Serving' = Serving /\ Serving # 0
    BY <1>1, <1>11 DEF Settled, BeingServed, Serving
  <2> DEFINE r == watchers[served[Serving].watcher].shows
  <2>2. r \in 0..Len(log)
    <3>1. watchers \in Seq(Watcher) /\ Len(log) \in Nat
      BY Basics DEF IInv
    <3>2. served[Serving].watcher \in DOMAIN watchers
      BY <2>1, ServingIs DEF IInv, ServedInv
    <3>3. watchers[served[Serving].watcher] \in Watcher /\ r <= Len(log)
      BY <3>1, <3>2 DEF TypeInv, TablesInv
    <3>4. r \in Nat
      BY <3>3 DEF Watcher
    <3> HIDE DEF r
    <3> QED
      BY <3>1, <3>3, <3>4
  <2>3. Of(log, u, Flow) = Of(log, u, Store(log, r))
    BY <1>11, <1>101, <2>1 DEF ConvInv, NoSurer
  <2>4. watchers'[served'[Serving'].watcher].shows = r
    BY <1>1, <2>1
  <2> HIDE DEF r
  <2>5. Store(log, r) \in SUBSET V
    <3>1. 1..r \subseteq V
      BY <2>2, Basics DEF IInv, V
    <3> QED
      BY <3>1 DEF Store
  <2> QED
    BY <1>8, <1>9, <1>10, <1>100, <2>2, <2>3, <2>4, <2>5
<1> QED
  BY <1>11 DEF ConvInv

\* Others are told something, or nobody is.
LEMMA OthersConv ==
  ASSUME IInv, TypeInv, TypeInv', ConvInv, StaysServed, UNCHANGED <<log, cache, pending, overtaken>>,
         Others(wire, down, down'), Settled' => BeingServed /\ NoUnsub(up, wire)
  PROVE  ConvInv'
<1>1. wire' = wire
  BY DEF StaysServed
<1>2. Flow' = Flow /\ NoSurer /\ (NoReset(down') => NoReset(down))
  BY <1>1, FlowOthers
<1>3. Settled' => Settled
  BY <1>2 DEF Settled
<1> QED
  BY <1>2, <1>3, ConvKept

LEMMA CalmConv ==
  ASSUME IInv, TypeInv, TypeInv', ConvInv, StaysServed,
         UNCHANGED <<log, cache, pending, overtaken, down, up, served>>
  PROVE  ConvInv'
<1>1. Others(wire, down, down') /\ wire' = wire
  BY OthersNone DEF StaysServed
<1>2. Settled' => BeingServed /\ NoUnsub(up, wire)
  BY <1>1, BeingServedBack DEF Settled
<1> QED
  BY <1>1, <1>2, OthersConv

LEMMA StoppedOut ==
  ASSUME served \in Seq(Served), NEW S,
         served' = [k \in DOMAIN served |-> IF k \in S THEN Stopped(served[k]) ELSE served[k]]
  PROVE  \A k \in DOMAIN served : served'[k].st = "in" => served[k].st = "in"
<1> SUFFICES ASSUME NEW k \in DOMAIN served, served'[k].st = "in"
             PROVE  served[k].st = "in"
  OBVIOUS
<1> DEFINE x == served[k]
<1>1. x \in Served /\ served'[k] = IF k \in S THEN Stopped(x) ELSE x
  OBVIOUS
<1> HIDE DEF x
<1>2. Stopped(x).st # "in"
  BY <1>1 DEF Served, Stopped
<1> QED
  BY <1>1, <1>2 DEF x

LEMMA HandleUnsubConv ==
  ASSUME IInv, TypeInv, TypeInv', ConvInv, HandleUnsub
  PROVE  ConvInv'
<1> DEFINE b == byId[Head(up).id]
<1>1. /\ UNCHANGED <<log, wire, cache, pending, overtaken, down>> /\ up # <<>> /\ up' = Tail(up)
      /\ Head(up).op = "unsub" /\ byId' = [byId EXCEPT ![Head(up).id] = 0]
      /\ served' = [k \in DOMAIN served |-> IF k = b THEN Stopped(served[k]) ELSE served[k]]
  BY DEF HandleUnsub, Request, serverVars, clientVars, ui, rows
<1>2. /\ served \in Seq(Served) /\ up \in Seq(Requests) /\ byId \in [Ids -> Nat]
      /\ (wire # NoId => wire \in Ids)
  BY Basics DEF IInv
<1>3. Head(up) \in Requests
  BY <1>1, <1>2, TailIs
<1>4. StaysServed
  BY StaysServedNext
<1>5. CASE Head(up) = Unsub(wire)
  <2>1. Serving' = 0
    <3>1. CASE wire = NoId
      BY <1>1, <3>1 DEF Serving
    <3>2. CASE wire # NoId
      <4>1. Head(up).id = wire
        BY <1>2, <1>5, <3>2, RequestsAre
      <4> QED
        BY <1>1, <1>2, <3>2, <4>1 DEF Serving
    <3> QED
      BY <3>1, <3>2
  <2> QED
    BY <2>1, NotServed
<1>6. CASE Head(up) # Unsub(wire)
  <2>1. served' = [k \in DOMAIN served |-> IF k \in {b} THEN Stopped(served[k]) ELSE served[k]]
    BY <1>1
  <2>2. \A k \in DOMAIN served : served'[k].st = "in" => served[k].st = "in"
    BY <1>2, <2>1, StoppedOut
  <2>3. Settled' => BeingServed
    BY <1>4, <2>2, BeingServedBack DEF Settled
  <2>4. NoUnsub(up', wire') => NoUnsub(up, wire)
    BY <1>1, <1>2, <1>6, NoUnsubBack
  <2>5. Others(wire, down, down')
    BY <1>1, OthersNone
  <2>6. Settled' => BeingServed /\ NoUnsub(up, wire)
    BY <2>3, <2>4 DEF Settled
  <2> QED
    BY <1>1, <1>4, <2>5, <2>6, OthersConv
<1> QED
  BY <1>5, <1>6

LEMMA NotConnectedTells ==
  ASSUME IInv, TypeInv, HandleNotConnected
  PROVE  Others(wire, down, down')
<1> DEFINE m == Msg("status", Head(up).id, {}, "error")
           X == Heard(Len(log), ids)
<1>1. /\ down \in Seq(X) /\ up \in Seq(Requests) /\ Len(log) \in Nat /\ ids \in Nat
  BY DEF TypeInv, HeardInv, IInv, PartsInv
<1>2. down' = Append(down, m) /\ up # <<>>
  BY DEF HandleNotConnected, Request
<1>3. Idle(wire, m)
  BY DEF Idle, Msg
<1>4. m \in X
  <2>1. {} \in SUBSET (1..Len(log))
    OBVIOUS
  <2>2. 1 \in DOMAIN up /\ up[1] = Head(up) /\ Head(up) \in Requests
    BY <1>1, <1>2, TailIs
  <2>3. Head(up).id \in Ids /\ Head(up).id <= ids
    BY <2>2, RequestIs DEF TypeInv, OrderInv, InOrder
  <2>4. Head(up).id \in 1..ids
    BY <1>1, <2>3 DEF Ids
  <2> QED
    BY <1>1, <2>1, <2>4, HeardMsg
<1> HIDE DEF m, X
<1> QED
  BY <1>1, <1>2, <1>3, <1>4, OthersOne

LEMMA NotConnectedConv ==
  ASSUME IInv, TypeInv, TypeInv', ConvInv, HandleNotConnected
  PROVE  ConvInv'
<1>1. /\ UNCHANGED <<log, wire, cache, pending, overtaken, served>> /\ up # <<>> /\ up' = Tail(up)
      /\ Head(up).op = "sub"
  BY DEF HandleNotConnected, Request, serverVars, clientVars, ui, rows, sockets
<1>2. up \in Seq(Requests)
  BY Basics DEF IInv
<1>3. StaysServed
  BY StaysServedNext
<1>4. Head(up) # Unsub(wire)
  <2>1. Unsub(wire).op = "unsub"
    BY DEF Unsub, Msg
  <2> QED
    BY <1>1, <2>1
<1>5. NoUnsub(up', wire') => NoUnsub(up, wire)
  BY <1>1, <1>2, <1>4, NoUnsubBack
<1>6. Settled' => BeingServed
  BY <1>1, <1>3, BeingServedBack DEF Settled
<1>7. Settled' => BeingServed /\ NoUnsub(up, wire)
  BY <1>5, <1>6 DEF Settled
<1>8. Others(wire, down, down')
  BY NotConnectedTells
<1> QED
  BY <1>1, <1>3, <1>7, <1>8, OthersConv

LEMMA RejectsConv ==
  ASSUME IInv, TypeInv, TypeInv', ConvInv, NEW w \in DOMAIN watchers, WatcherRejects(w)
  PROVE  ConvInv'
<1> DEFINE S == Listening(w, "waiting") \cup Listening(w, "cancelled")
<1>1. /\ UNCHANGED <<log, wire, cache, pending, overtaken, up>>
      /\ served' = [k \in DOMAIN served |->
                      IF k \in S THEN [served[k] EXCEPT !.st = "stopped"] ELSE served[k]]
  BY DEF WatcherRejects, serverVars, clientVars, ui, rows
<1> HIDE DEF S
<1>2. served \in Seq(Served)
  BY Basics DEF IInv
<1>3. ASSUME NEW k \in DOMAIN served, served'[k].st = "in"
      PROVE  served[k].st = "in"
  <2> DEFINE x == served[k]
  <2>1. x \in Served /\ served'[k] = IF k \in S THEN [x EXCEPT !.st = "stopped"] ELSE x
    BY <1>1, <1>2
  <2> HIDE DEF x
  <2>2. [x EXCEPT !.st = "stopped"].st # "in"
    BY <2>1 DEF Served
  <2> QED
    BY <1>3, <2>1, <2>2 DEF x
<1>4. StaysServed
  BY StaysServedNext
<1>5. Settled' => BeingServed
  BY <1>3, <1>4, BeingServedBack DEF Settled
<1>6. Settled' => BeingServed /\ NoUnsub(up, wire)
  BY <1>1, <1>5 DEF Settled
<1>7. Others(wire, down, down')
  BY RejectsTell
<1> QED
  BY <1>1, <1>4, <1>6, <1>7, OthersConv

\* A reset is announced to an open socket, and only that serves a subscription.
LEMMA SessionConv ==
  ASSUME IInv, IInv', TypeInv, TypeInv', SessionEnds \/ SessionReady
  PROVE  ConvInv'
<1> DEFINE m == Msg("reset", NoId, {}, "")
           X == Heard(Len(log), ids)
<1>1. Broadcast /\ ws' = ws
  BY DEF SessionEnds, SessionReady, clientVars, link
<1>2. CASE ws # "open"
  <2>1. Serving' = 0
    <3>1. ws' # "open"
      BY <1>1, <1>2
    <3>2. (\A i \in Ids : byId'[i] = 0) /\ (wire' # NoId => wire' \in Ids)
      <4>1. PartsInv' => (wire' # NoId => wire' \in Ids)
        <5>1. MaxIds \in Nat
          OBVIOUS
        <5> QED
          BY <5>1 DEF PartsInv, Ids, NoId
      <4> QED
        BY <3>1, <4>1 DEF IInv, UpInv
    <3> QED
      BY <3>2 DEF Serving
  <2> QED
    BY <2>1, NotServed
<1>3. CASE ws = "open"
  <2>1. down' = Append(down, m) /\ m.op = "reset"
    BY <1>1, <1>3 DEF Broadcast, Msg
  <2>2. down \in Seq(X)
    BY DEF TypeInv, HeardInv
  <2>3. m \in X
    <3>1. ids \in Nat /\ 0 \in 0..ids
      BY DEF IInv, PartsInv
    <3> QED
      BY <3>1 DEF Heard, Msg, NoId
  <2> HIDE DEF m, X
  <2>4. Len(down) + 1 \in DOMAIN down' /\ down'[Len(down) + 1] = m
    <3>1. /\ Append(down, m)[Len(down) + 1] = m
          /\ DOMAIN Append(down, m) = DOMAIN down \cup {Len(down) + 1}
      BY <2>2, <2>3, AppendIs
    <3> QED
      BY <2>1, <3>1
  <2>5. ~NoReset(down')
    BY <2>1, <2>4 DEF NoReset
  <2> QED
    BY <2>5 DEF ConvInv, Settled
<1> QED
  BY <1>2, <1>3

\* A connection that begins or ends serves nobody.
LEMMA LinkConv ==
  ASSUME IInv, IInv', TypeInv, Opens \/ Breaks
  PROVE  ConvInv'
<1>1. \A i \in Ids : byId'[i] = 0
  <2>1. CASE Opens
    <3>1. ws = "connecting" /\ byId' = byId
      BY <2>1 DEF Opens, sockets
    <3> QED
      BY <3>1 DEF IInv, UpInv
  <2>2. CASE Breaks
    BY <2>2 DEF Breaks
  <2> QED
    BY <2>1, <2>2
<1>2. wire' # NoId => wire' \in Ids
  <2>1. MaxIds \in Nat
    OBVIOUS
  <2> QED
    BY <2>1 DEF IInv, PartsInv, Ids, NoId
<1>3. Serving' = 0
  BY <1>1, <1>2 DEF Serving
<1> QED
  BY <1>3, NotServed

LEMMA ShowsIs ==
  ASSUME IInv, TypeInv, NEW w \in DOMAIN watchers
  PROVE  watchers[w].shows \in 0..Len(log) /\ watchers[w].shows \in Nat /\ Len(log) \in Nat
<1>1. watchers \in Seq(Watcher) /\ Len(log) \in Nat
  BY Basics DEF IInv
<1>2. watchers[w] \in Watcher /\ watchers[w].shows <= Len(log)
  BY <1>1 DEF TypeInv, TablesInv
<1> DEFINE r == watchers[w].shows
<1>3. r \in Nat /\ r <= Len(log)
  BY <1>2 DEF Watcher
<1> HIDE DEF r
<1>4. r \in 0..Len(log) /\ r \in Nat
  BY <1>1, <1>3
<1> QED
  BY <1>1, <1>4 DEF r

\* A snapshot, told last, is what the rows come to.
LEMMA WholeFlow ==
  ASSUME IInv, TypeInv, TypeInv', UNCHANGED <<log, ids, wire, cache, pending>>, wire # NoId,
         NEW r \in 0..Len(log), Told(wire, down, Whole(r), down')
  PROVE  Flow' = Store(log, r)
<1> DEFINE m == Whole(r)
           c == Batches(log, cache, pending)
<1>1. PartsInv /\ HeardInv /\ HeardInv'
  BY DEF IInv, TypeInv
<1>2. m \in Heard(Len(log), ids) /\ m.op = "snapshot" /\ m.id = wire /\ m.objects = Store(log, r)
  BY <1>1, WholeIs
<1> HIDE DEF m
<1>3. HearAll(log, wire, c, down') = Hear(log, wire, HearAll(log, wire, c, down), m)
  <2>1. Told(wire, down, m, down')
    BY DEF m
  <2> HIDE DEF c
  <2> QED
    BY <1>1, <1>2, <2>1, ToldHear
<1>4. Flow' = HearAll(log, wire, c, down')
  BY DEF Flow
<1> HIDE DEF c
<1>5. Hear(log, wire, HearAll(log, wire, c, down), m) = m.objects
  BY <1>2 DEF Hear
<1> QED
  BY <1>2, <1>3, <1>4, <1>5

LEMMA AcceptsConv ==
  ASSUME IInv, IInv', TypeInv, TypeInv', HandleSub
  PROVE  ConvInv'
<1>1. /\ UNCHANGED <<log, ids, wire, cache, pending>>
      /\ IF current = 0
           THEN Len(watchers') = Len(watchers) + 1 /\ watchers'[Len(watchers')].shows = 0
           ELSE watchers' = watchers /\ current = Len(watchers) /\ current \in DOMAIN watchers
      /\ IF Head(up).id = wire
           THEN /\ wire # NoId /\ served'[Serving'].watcher = Len(watchers')
                /\ served'[Serving'].st = (IF Ready THEN "in" ELSE "waiting")
           ELSE Serving' = 0
      /\ IF Ready /\ Head(up).id = wire
           THEN Told(wire, down, Whole(watchers[current].shows), down')
           ELSE Others(wire, down, down')
  BY AcceptsIs
<1>2. CASE ~ (Ready /\ Head(up).id = wire)
  <2>1. Serving' = 0 \/ served'[Serving'].st # "in"
    BY <1>1, <1>2
  <2> QED
    BY <2>1, NotServed
<1>3. CASE Ready /\ Head(up).id = wire
  <2>1. /\ watchers' = watchers /\ current = Len(watchers) /\ current \in DOMAIN watchers
        /\ wire # NoId /\ Told(wire, down, Whole(watchers[current].shows), down')
        /\ served'[Serving'].watcher = Len(watchers')
    BY <1>1, <1>3 DEF Ready
  <2>2. watchers[current].shows \in 0..Len(log)
    BY <2>1, ShowsIs
  <2>3. Flow' = Store(log, watchers[current].shows)
    BY <1>1, <2>1, <2>2, WholeFlow
  <2>4. watchers'[served'[Serving'].watcher].shows = watchers[current].shows
    BY <2>1
  <2> QED
    BY <1>1, <2>3, <2>4 DEF ConvInv
<1> QED
  BY <1>2, <1>3

LEMMA ListedConv ==
  ASSUME IInv, TypeInv, TypeInv', ConvInv, NEW w \in DOMAIN watchers, WatcherListed(w)
  PROVE  ConvInv'
<1>1. /\ UNCHANGED <<log, ids, wire, byId, cache, pending, overtaken, up>> /\ watchers[w].shows = 0
      /\ \E life : watchers' = [watchers EXCEPT ![w] = [life |-> life, shows |-> Len(log)]]
      /\ served' = [k \in DOMAIN served |->
                      IF k \in Listening(w, "waiting") THEN [served[k] EXCEPT !.st = "in"] ELSE served[k]]
  BY DEF WatcherListed, serverVars, clientVars, ui, rows
<1>2. /\ ServedStay /\ Len(log) \in Nat /\ Len(log) \in 0..Len(log) /\ watchers \in Seq(Watcher)
      /\ DOMAIN served = 1..Len(served)
  <2>1. served \in Seq(Served) /\ Len(log) \in Nat /\ watchers \in Seq(Watcher)
        /\ DOMAIN served = 1..Len(served)
    BY Basics DEF IInv
  <2>2. ServedStay
    BY <1>1, <2>1, ServedStayWhere
  <2> QED
    BY <2>1, <2>2
<1>3. /\ watchers'[w].shows = Len(log)
      /\ \A v \in DOMAIN watchers : v # w => watchers'[v].shows = watchers[v].shows
  BY <1>1, <1>2, OneShows
<1>4. Serving' = Serving
  BY <1>1 DEF Serving
<1>5. CASE Serving \in Listening(w, "waiting")
  <2>1. Serving \in DOMAIN served /\ served[Serving].watcher = w
    BY <1>5 DEF Listening
  <2>2. Serving # 0
    BY <1>2, <2>1
  <2>3. wire # NoId
    BY <2>2, ServingIs
  <2>4. Told(wire, down, Whole(Len(log)), down')
    BY <1>5, ListedTells
  <2>5. Flow' = Store(log, Len(log))
    BY <1>1, <1>2, <2>3, <2>4, WholeFlow
  <2>6. served'[Serving'].watcher = w
    BY <1>2, <1>4, <2>1 DEF ServedStay
  <2> QED
    BY <1>1, <1>3, <2>5, <2>6 DEF ConvInv
<1>6. CASE Serving \notin Listening(w, "waiting")
  <2> SUFFICES ASSUME Settled', NEW u, Sure(log', wire', overtaken', down', u)
               PROVE  Of(log', u, Flow')
                        = Of(log', u, Store(log', watchers'[served'[Serving'].watcher].shows))
    BY DEF ConvInv
  <2>1. Others(wire, down, down')
    BY <1>6, ListedTells
  <2>2. Flow' = Flow /\ NoSurer /\ (NoReset(down') => NoReset(down))
    BY <1>1, <2>1, FlowOthers
  <2>3. Serving # 0 /\ Serving \in DOMAIN served
    BY <1>4, ServingIs DEF Settled, BeingServed
  <2>4. served'[Serving] = served[Serving] /\ served[Serving].st = "in"
    BY <1>1, <1>4, <1>6, <2>3 DEF Settled, BeingServed
  <2>5. Settled
    BY <1>1, <2>2, <2>3, <2>4 DEF Settled, BeingServed
  <2>6. served[Serving].watcher \in DOMAIN watchers /\ served[Serving].watcher # w
    BY <1>1, <2>3, <2>4 DEF IInv, ServedInv
  <2>7. watchers'[served'[Serving'].watcher].shows = watchers[served[Serving].watcher].shows
    BY <1>3, <1>4, <2>4, <2>6
  <2>8. Sure(log, wire, overtaken, down, u)
    BY <2>2 DEF NoSurer
  <2> QED
    BY <1>1, <2>2, <2>5, <2>7, <2>8 DEF ConvInv
<1> QED
  BY <1>5, <1>6

\* A batch, told last, is applied last.
LEMMA EventsFlow ==
  ASSUME TypeInv, TypeInv', UNCHANGED <<log, ids, wire, cache, pending>>, NEW batch,
         Msg("events", wire, batch, "") \in Heard(Len(log), ids),
         Told(wire, down, Msg("events", wire, batch, ""), down')
  PROVE  Flow' = Batch(log, Flow, batch) /\ (NoReset(down') => NoReset(down))
<1> DEFINE m == Msg("events", wire, batch, "")
           c == Batches(log, cache, pending)
<1>1. HeardInv /\ HeardInv'
  BY DEF TypeInv
<1>2. m.op = "events" /\ m.id = wire /\ m.objects = batch
  BY DEF Msg
<1>3. m \in Heard(Len(log), ids) /\ Told(wire, down, m, down')
  OBVIOUS
<1>4. Flow' = HearAll(log, wire, c, down') /\ Flow = HearAll(log, wire, c, down)
  BY DEF Flow
<1> HIDE DEF m, c
<1>5. HearAll(log, wire, c, down') = Hear(log, wire, HearAll(log, wire, c, down), m)
  BY <1>1, <1>3, ToldHear
<1>6. Hear(log, wire, HearAll(log, wire, c, down), m) = Batch(log, HearAll(log, wire, c, down), batch)
  BY <1>2 DEF Hear
<1>7. ASSUME NoReset(down') PROVE NoReset(down)
  <2>1. down \in Seq(Heard(Len(log), ids))
    BY <1>1 DEF HeardInv
  <2>2. DOMAIN down \subseteq DOMAIN down' /\ \A n \in DOMAIN down : down'[n] = down[n]
    BY <1>3, <2>1, ToldKeeps
  <2> QED
    BY <1>7, <2>2, NoResetBack
<1> QED
  BY <1>4, <1>5, <1>6, <1>7

LEMMA EmitsConv ==
  ASSUME IInv, TypeInv, TypeInv', ConvInv, NEW w \in DOMAIN watchers,
         WatcherEmits(w) \/ WatcherRelists(w)
  PROVE  ConvInv'
<1> DEFINE p == watchers[w].shows
<1>1. PICK batch, q, life :
           /\ Emits(w, batch, q, life)
           /\ p \in Nat /\ q \in Nat /\ p <= q /\ q <= Len(log)
           /\ batch \in {Chunk(p, q), Diff(p, q)}
           /\ p # 0 \/ q = Len(log)
  BY EmitsMove DEF IInv, TypeInv
<1>2. /\ UNCHANGED <<log, ids, wire, byId, cache, pending, overtaken, served, up>>
      /\ watchers' = [watchers EXCEPT ![w] = [life |-> life, shows |-> q]]
      /\ batch = {} => down' = down
  BY <1>1 DEF Emits, serverVars, clientVars, ui, rows, sockets
<1>3. /\ Len(log) \in Nat /\ q \in 0..Len(log) /\ PartsInv /\ log \in Seq(Entry)
      /\ watchers \in Seq(Watcher)
  <2>1. PartsInv /\ Len(log) \in Nat /\ log \in Seq(Entry) /\ watchers \in Seq(Watcher)
    BY Basics DEF IInv, PartsInv
  <2> QED
    BY <1>1, <2>1
<1>4. /\ watchers'[w].shows = q
      /\ \A v \in DOMAIN watchers : v # w => watchers'[v].shows = watchers[v].shows
  BY <1>2, <1>3, OneShows
<1>5. Serving' = Serving
  BY <1>2 DEF Serving
<1> SUFFICES ASSUME Settled', NEW u, Sure(log, wire, overtaken, down', u)
             PROVE  Of(log, u, Flow') = Of(log, u, Store(log, watchers'[served[Serving].watcher].shows))
  BY <1>2, <1>5 DEF ConvInv
<1>6. BeingServed /\ NoUnsub(up, wire) /\ NoReset(down')
  BY <1>2, <1>5 DEF Settled, BeingServed
<1>7. Serving \in DOMAIN served /\ served[Serving].watcher \in DOMAIN watchers
  <2>1. Serving \in DOMAIN served
    BY <1>6, ServingIs DEF BeingServed
  <2> QED
    BY <2>1 DEF IInv, ServedInv
<1> HIDE DEF p
<1>8. batch \in SUBSET (1..Len(log)) /\ Batch(log, Store(log, p), batch) = Store(log, q)
  <2>1. batch \subseteq (p + 1)..q /\ Batch(log, Store(log, p), batch) = Store(log, q)
    BY <1>1, <1>3, ChunkMoves, DiffMoves
  <2>2. (p + 1)..q \subseteq 1..Len(log)
    BY <1>1, <1>3
  <2> QED
    BY <2>1, <2>2
<1>9. CASE batch = {}
  <2>1. Flow' = Flow /\ Settled
    BY <1>2, <1>6, <1>9 DEF Flow, Settled
  <2>2. Of(log, u, Flow) = Of(log, u, Store(log, watchers[served[Serving].watcher].shows))
    BY <1>2, <1>9, <2>1 DEF ConvInv
  <2>3. Store(log, q) = Store(log, p)
    BY <1>8, <1>9 DEF Batch
  <2>4. CASE served[Serving].watcher = w
    BY <1>4, <2>1, <2>2, <2>3, <2>4 DEF p
  <2>5. CASE served[Serving].watcher # w
    BY <1>4, <1>7, <2>1, <2>2, <2>5
  <2> QED
    BY <2>4, <2>5
<1>10. CASE batch # {} /\ served[Serving].watcher = w
  <2> DEFINE m == Msg("events", wire, batch, "")
  <2>1. Serving \in Listening(w, "in")
    BY <1>6, <1>7, <1>10 DEF Listening, BeingServed
  <2>2. m \in Heard(Len(log), ids) /\ Told(wire, down, m, down')
    BY <1>1, <1>8, <1>10, <2>1, EventsTell
  <2>3. Flow' = Batch(log, Flow, batch) /\ NoReset(down)
    BY <1>2, <1>6, <2>2, EventsFlow
  <2>4. m.objects = batch /\ m.op = "events"
    BY DEF Msg
  <2> HIDE DEF m
  <2>5. Sure(log, wire, overtaken, down, u) \/ \E i \in batch : log[i].uid = u
    <3>1. CASE u \notin overtaken
      BY <3>1 DEF Sure
    <3>2. CASE Touches(log, wire, down', u)
      <4>1. Touches(log, wire, down, u) \/ Tells(log, wire, m, u)
        BY <2>2, <3>2, ToldTouch
      <4> QED
        BY <2>4, <4>1 DEF Sure, Tells
    <3> QED
      BY <3>1, <3>2 DEF Sure
  <2>6. Of(log, u, Flow) = Of(log, u, Store(log, p)) \/ \E i \in batch : log[i].uid = u
    BY <1>6, <1>10, <2>3, <2>5 DEF ConvInv, Settled, p
  <2>7. Of(log, u, Batch(log, Flow, batch)) = Of(log, u, Batch(log, Store(log, p), batch))
    BY <2>6, BatchOf
  <2> QED
    BY <1>4, <1>8, <1>10, <2>3, <2>7
<1>11. CASE batch # {} /\ served[Serving].watcher # w
  <2>1. Serving \notin Listening(w, "in")
    BY <1>11 DEF Listening
  <2>2. Others(wire, down, down')
    BY <1>1, <1>8, <1>11, <2>1, EventsTell
  <2>3. Flow' = Flow /\ NoSurer /\ NoReset(down)
    BY <1>2, <1>6, <2>2, FlowOthers
  <2>4. Sure(log, wire, overtaken, down, u)
    BY <1>2, <2>3 DEF NoSurer
  <2>5. Of(log, u, Flow) = Of(log, u, Store(log, watchers[served[Serving].watcher].shows))
    BY <1>6, <2>3, <2>4 DEF ConvInv, Settled
  <2> QED
    BY <1>4, <1>7, <1>11, <2>3, <2>5
<1> QED
  BY <1>9, <1>10, <1>11

LEMMA ConvNext ==
  ASSUME IInv, IInv', TypeInv, TypeInv', ConvInv, [Next]_vars
  PROVE  ConvInv'
<1> USE DEF serverVars, rows, ui, clientVars, sockets
<1> DEFINE Still == UNCHANGED <<log, cache, pending, overtaken, down, up, served>>
<1>1. CASE SubscribeNew \/ Teardown
  BY <1>1, WireMoves, NotServed
<1>2. CASE ApiWrite
  BY <1>2, WritesConv
<1>3. CASE Receive \/ Flush
  BY <1>3, ReceivesConv, FlushesConv
<1>4. CASE Opens \/ Breaks
  BY <1>4, LinkConv
<1>5. CASE Handle
  BY <1>5, HandleUnsubConv, NotConnectedConv, AcceptsConv DEF Handle
<1>6. CASE SessionEnds \/ SessionReady
  BY <1>6, SessionConv
<1>7. ASSUME NEW w \in DOMAIN watchers,
             WatcherListed(w) \/ WatcherEmits(w) \/ WatcherRelists(w) \/ WatcherRejects(w)
      PROVE  ConvInv'
  BY <1>7, ListedConv, EmitsConv, RejectsConv
<1>8. ASSUME NEW w \in DOMAIN watchers, WatchEnds(w)
      PROVE  ConvInv'
  <2>1. Still
    BY <1>8 DEF WatchEnds
  <2>2. StaysServed
    BY <1>8, StaysServedNext
  <2> HIDE DEF Still
  <2> QED
    BY <2>1, <2>2, CalmConv DEF Still
<1>9. SubscribeAgain \/ Leave \/ Reconnect \/ Closes \/ ClosesLate => Still
  BY DEF SubscribeAgain, Leave, Reconnect, Closes, ClosesLate
<1>10. LingerStops \/ SessionStarts \/ UNCHANGED vars => Still
  BY DEF LingerStops, SessionStarts, vars
<1> HIDE DEF Still
<1>11. CASE \/ SubscribeAgain \/ Leave \/ Reconnect \/ Closes \/ ClosesLate
            \/ LingerStops \/ SessionStarts \/ UNCHANGED vars
  <2>1. Still
    BY <1>9, <1>10, <1>11
  <2>2. StaysServed
    BY <1>11, StaysServedNext
  <2> QED
    BY <2>1, <2>2, CalmConv DEF Still
<1> QED
  BY <1>1, <1>2, <1>3, <1>4, <1>5, <1>6, <1>7, <1>8, <1>11 DEF Next, Components, WatcherStep

-----------------------------------------------------------------------------
(* The theorems                                                            *)

\* Version i comes from a batch that waited for the flush when a snapshot came.
LateFlush(i) == flush /\ ~flush' /\ log[i].uid \in overtaken

\* But for that no row goes back: what takes the place of a row is newer than it.
LEMMA RowsGoForward ==
  ASSUME IInv, TypeInv, ChainInv, ChainInv', WaitInv, [Next]_vars
  PROVE  wire' = wire => \A i \in cache', j \in cache : SameUid(i, j)' => i >= j \/ LateFlush(i)
<1> USE DEF serverVars, rows, ui, clientVars
<1> DEFINE Y == SUBSET (1..Len(log))
           Goal == \A i \in cache', j \in cache : log'[i].uid = log'[j].uid => i >= j \/ LateFlush(i)
<1>1. cache \in Y /\ pending \in Seq(Y) /\ Len(log) \in Nat /\ cache \subseteq Nat
  <2>1. cache \in Y /\ pending \in Seq(Y) /\ Len(log) \in Nat
    BY Basics DEF TypeInv, RowsInv, IInv
  <2> QED
    BY <2>1
<1> HIDE DEF Y
<1>2. CASE cache' = cache
  <2>1. One(log', cache)
    BY <1>2 DEF ChainInv, Chain
  <2>2. \A i \in cache, j \in cache : log'[i].uid = log'[j].uid => i = j
    BY <2>1 DEF One
  <2>3. \A i \in cache : i >= i
    BY <1>1
  <2>4. Goal
    BY <1>2, <2>2, <2>3
  <2> QED
    BY <2>4 DEF SameUid
<1>3. CASE cache' = {}
  BY <1>3
<1>4. CASE ReceiveSnapshot
  <2>1. /\ log' = log /\ cache' = Head(down).objects /\ Head(down).id = wire /\ down # <<>>
    BY <1>4 DEF ReceiveSnapshot, Incoming
  <2>2. 1 \in DOMAIN down /\ down[1] = Head(down)
    <3> DEFINE X == Heard(Len(log), ids)
    <3>1. down \in Seq(X)
      BY DEF TypeInv, HeardInv
    <3> HIDE DEF X
    <3> QED
      BY <2>1, <3>1, TailIs
  <2>3. Newer(log, cache, Mine(wire, down[1]))
    BY <2>2 DEF ChainInv, Chain
  <2>4. \A j \in cache, i \in cache' : log[j].uid = log[i].uid => j <= i
    BY <2>1, <2>2, <2>3 DEF Newer, Mine
  <2>5. cache' \subseteq Nat
    <3>1. Incoming("snapshot") /\ HeardInv
      BY <1>4 DEF ReceiveSnapshot, TypeInv
    <3>2. Head(down).objects \in SUBSET (1..Len(log))
      BY <3>1, HeadHeard
    <3> QED
      BY <2>1, <3>2
  <2>6. Goal
    BY <1>1, <2>1, <2>4, <2>5
  <2> QED
    BY <2>6 DEF SameUid
<1>5. CASE Flush
  <2>1. log' = log /\ cache' = Batches(log, cache, pending) /\ flush /\ ~flush'
    BY <1>5, ApplyAllIs DEF Flush
  <2>2. /\ Len(pending) \in Nat /\ DOMAIN pending = 1..Len(pending)
        /\ \A n \in 1..Len(pending) : pending[n] \in Y
    BY <1>1
  <2>3. All(pending) \subseteq 1..Len(log)
    BY <2>2 DEF All, Y
  <2> DEFINE V == cache \cup All(pending)
  <2>4. cache' \subseteq V
    <3>1. cache \subseteq V /\ \A n \in 1..Len(pending) : pending[n] \subseteq V
      BY <2>2 DEF All
    <3> HIDE DEF V
    <3> QED
      BY <2>1, <2>2, <3>1, BatchesFrom
  <2>5. ASSUME NEW i \in cache', NEW j \in cache, log[i].uid = log[j].uid, log[i].uid \notin overtaken
        PROVE  i >= j
    <3>1. CASE i \in cache
      BY <1>1, <2>5, <3>1 DEF ChainInv, Chain, One
    <3>2. CASE i \in All(pending)
      <4>1. PICK k \in All(pending) : log[k].uid = log[j].uid /\ j <= k
        BY <2>5, <3>2 DEF WaitInv, Catches
      <4>2. k <= i
        <5> DEFINE W == 1..Len(log)
        <5>1. pending \in Seq(SUBSET W) /\ i \in W /\ W \in SUBSET Nat
          BY <1>1, <2>3, <3>2 DEF Y
        <5>2. \A m, n \in DOMAIN pending : m < n => Newer(log, pending[m], pending[n])
          BY DEF ChainInv, Chain
        <5>3. i \in Batches(log, cache, pending) /\ log[k].uid = log[i].uid
          BY <2>1, <2>5, <4>1
        <5> HIDE DEF W
        <5> QED
          BY <4>1, <5>1, <5>2, <5>3, BatchesNewest
      <4>3. i \in Nat /\ j \in Nat /\ k \in Nat
        BY <1>1, <2>3, <3>2
      <4> QED
        BY <4>1, <4>2, <4>3
    <3> QED
      BY <2>4, <2>5, <3>1, <3>2
  <2>6. Goal
    BY <2>1, <2>5 DEF LateFlush
  <2> QED
    BY <2>6 DEF SameUid
<1> DEFINE Kept == cache' = cache \/ cache' = {}
<1>6. ApiWrite \/ Components \/ Reconnect \/ Opens \/ Breaks \/ Closes \/ ClosesLate => Kept
  BY DEF ApiWrite, Components, SubscribeNew, SubscribeAgain, Leave, Teardown, NoRows, Reconnect, Opens,
         Breaks, Closes, ClosesLate
<1>7. ReceiveUnknown \/ ReceiveEvents \/ ReceiveStatus \/ ReceiveReset \/ Handle => Kept
  BY DEF ReceiveUnknown, ReceiveEvents, ReceiveStatus, ReceiveReset, Handle, HandleUnsub,
         HandleNotConnected, HandleSub
<1>8. WatcherStep \/ (\E w \in DOMAIN watchers : WatcherRejects(w)) => Kept
  BY DEF WatcherStep, WatcherListed, WatcherEmits, WatcherRelists, WatchEnds, WatcherRejects, Emits
<1>9. LingerStops \/ SessionEnds \/ SessionStarts \/ SessionReady \/ UNCHANGED vars => Kept
  BY DEF LingerStops, SessionEnds, SessionStarts, SessionReady, vars
<1> HIDE DEF Goal
<1> QED
  BY <1>2, <1>3, <1>4, <1>5, <1>6, <1>7, <1>8, <1>9 DEF Next, Receive

LEMMA InitFlows == Init => ChainInv /\ BoundInv /\ WaitInv /\ ConvInv
<1> SUFFICES ASSUME Init PROVE ChainInv /\ BoundInv /\ WaitInv /\ ConvInv
  OBVIOUS
<1>1. /\ cache = {} /\ pending = <<>> /\ down = <<>> /\ wire = NoId /\ watchers = <<>>
  BY DEF Init
<1>2. DOMAIN pending = {} /\ DOMAIN down = {} /\ Len(watchers) = 0 /\ Serving = 0
  BY <1>1 DEF Serving
<1>3. ChainInv
  BY <1>1, <1>2, ChainFresh DEF ChainInv
<1>4. BoundInv
  BY <1>2 DEF BoundInv
<1>5. WaitInv
  BY <1>1, WaitNone DEF WaitInv
<1>6. ConvInv
  BY <1>2 DEF ConvInv, Settled, BeingServed
<1> QED
  BY <1>3, <1>4, <1>5, <1>6

LEMMA ConvImplies ==
  ASSUME ConvInv
  PROVE  InFlightConverges
<1> DEFINE shown == StoreAt(watchers[served[Serving].watcher].shows)
<1> SUFFICES ASSUME BeingServed, up = <<>>, \A i \in DOMAIN down : down[i].op # "reset"
             PROVE  Sound(Arrived) = Sound(shown)
  BY DEF InFlightConverges
<1>1. DOMAIN up = {}
  OBVIOUS
<1>2. Settled
  BY <1>1 DEF Settled, NoReset, NoUnsub
<1>3. Flow = Arrived /\ shown = Store(log, watchers[served[Serving].watcher].shows)
  BY ArrivedIs, StoreIs DEF Flow
<1> HIDE DEF shown
<1>4. \A u : u \notin overtaken => Of(log, u, Arrived) = Of(log, u, shown)
  BY <1>2, <1>3 DEF ConvInv, Sure
<1>5. \A i : log[i].uid \notin overtaken => (i \in Arrived <=> i \in shown)
  BY <1>4 DEF Of
<1> QED
  BY <1>5 DEF Sound

\* Type correctness, whatever fails late or is overtaken: every message under way is
\* of the protocol of watch-client.ts:29-41, is about versions there are and wire
\* ids there were, and the socket's Map (watch-socket.ts:83-146) holds
\* subscriptions on watchers there are.
THEOREM TypeCorrect == Spec => []TypeOK
<1>1. Init => PartsInv /\ TypeInv
  BY InitIInv, InitTypeInv DEF IInv
<1>2. PartsInv /\ TypeInv /\ [Next]_vars => (PartsInv /\ TypeInv)'
  BY NextPartsInv, NextTypeInv
<1>3. PartsInv /\ TypeInv => TypeOK
  BY TypeInvImplies
<1> QED
  BY <1>1, <1>2, <1>3, PTL DEF Spec

\* All of it; the parts hold each other up.
AllInv == IInv /\ TypeInv /\ ChainInv /\ BoundInv /\ WaitInv /\ ConvInv

LEMMA AllInvKept ==
  ASSUME ~LateRejections
  PROVE  (Init => AllInv) /\ (AllInv /\ [Next]_vars => AllInv')
<1>1. Init => AllInv
  BY InitIInv, InitTypeInv, InitFlows DEF AllInv
<1>2. ASSUME AllInv, [Next]_vars
      PROVE  AllInv'
  <2>1. IInv'
    BY <1>2, NextIInv DEF AllInv
  <2>2. TypeInv'
    BY <1>2, <2>1, NextTypeInv DEF AllInv, IInv
  <2>3. ChainInv' /\ BoundInv'
    BY <1>2, <2>1, <2>2, ChainNext DEF AllInv
  <2>4. WaitInv'
    BY <1>2, WaitNext DEF AllInv
  <2>5. ConvInv'
    BY <1>2, <2>1, <2>2, ConvNext DEF AllInv
  <2> QED
    BY <2>1, <2>2, <2>3, <2>4, <2>5 DEF AllInv
<1> QED
  BY <1>1, <1>2

\* Nothing is lost or applied twice between a watcher and the screen
\* (watch-client.ts:34: "Current objects by uid, maintained from snapshot +
\* events"): as long as no stopped watcher's list fails late
\* (watch-socket.ts:141-145), the rows of a subscription that is served, the
\* batches that wait and the messages under way come to the objects of its
\* watcher, whatever broke, was reset or was subscribed again before.  The
\* snapshot that overtakes the flush (watch-client.ts:181-187, 278-289) is among
\* the steps; what it may leave wrong is the objects of the batches it overtook,
\* each until the next event about it.
THEOREM Converges == ~LateRejections => (Spec => []InFlightConverges)
<1> SUFFICES ASSUME ~LateRejections
             PROVE  Spec => []InFlightConverges
  OBVIOUS
<1>1. (Init => AllInv) /\ (AllInv /\ [Next]_vars => AllInv')
  BY AllInvKept
<1>2. AllInv => InFlightConverges
  BY ConvImplies DEF AllInv
<1> QED
  BY <1>1, <1>2, PTL DEF Spec

\* Under the same assumption no step puts an older version of an object in the
\* place of a newer one while the list is open, although watchers, sessions and
\* sockets are replaced under the rows, but the flush (watch-client.ts:278-289) of
\* what waited about the object when a snapshot came (watch-client.ts:181-187).
THEOREM NeverBack == ~LateRejections => (Spec => RowsNeverRegress)
<1> SUFFICES ASSUME ~LateRejections
             PROVE  Spec => RowsNeverRegress
  OBVIOUS
<1>1. (Init => AllInv) /\ (AllInv /\ [Next]_vars => AllInv')
  BY AllInvKept
<1> DEFINE Forward == wire' = wire =>
                        \A i \in cache', j \in cache :
                          SameUid(i, j)' => \/ i >= j
                                            \/ flush /\ ~flush' /\ log[i].uid \in overtaken
<1>2. ASSUME AllInv, [Next]_vars
      PROVE  [Forward]_vars
  <2>1. ChainInv'
    BY <1>1, <1>2 DEF AllInv
  <2> QED
    BY <1>2, <2>1, RowsGoForward DEF AllInv, LateFlush
<1> QED
  BY <1>1, <1>2, PTL DEF Spec, RowsNeverRegress

\* As long as no list of a stopped watcher fails late (watch-socket.ts:141-145
\* takes what the Map holds under the id by then), no subscription that holds a
\* watcher is out of reach: the open socket's Map has it, and once the browser's
\* requests have arrived it is the one the browser has.  Run wire_late_rejection
\* shows what a late failure does.
THEOREM NeverOrphaned == ~LateRejections => (Spec => []NoOrphans)
<1> SUFFICES ASSUME ~LateRejections
             PROVE  Spec => []NoOrphans
  OBVIOUS
<1>1. IInv /\ [Next]_vars => IInv'
  BY NextIInv
<1> QED
  BY InitIInv, <1>1, IInvImplies, PTL DEF Spec
=============================================================================
